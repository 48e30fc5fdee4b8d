------------------------------- MODULE Stays -------------------------------
(***************************************************************************)
(* The clustering and the place matching of stays.py, on the trail of one  *)
(* AirTag (oldest first) and on the same points newest first, the order in *)
(* which the history of an owner device comes.                             *)
(***************************************************************************)
EXTENDS Trail

CONSTANTS
    ClusterRadius,  \* history_cluster_radius_meters
    Places          \* named_places: sets of records [pos, radius]

ASSUME PlaceAssumption == ClusterRadius \in Nat /\ Places \subseteq [pos : Int, radius : Nat]

(* Mutants: a point is compared with the one before it; the anchor follows *)
(* the points.                                                             *)
ClusterPointToPoint(points) ==
    LET stays[i \in 0 .. Len(points)] ==
          IF i = 0 THEN <<>>
          ELSE IF i > 1 /\ HaversineDistance(points[i - 1].pos, points[i].pos) =< ClusterRadius
               THEN [stays[i - 1] EXCEPT ![Len(stays[i - 1])].points = Append(@, points[i])]
               ELSE Append(stays[i - 1], [points |-> <<points[i]>>, anchor |-> points[i]])
    IN  stays[Len(points)]

ClusterAroundNewest(points) ==
    LET stays[i \in 0 .. Len(points)] ==
          IF i = 0 THEN <<>>
          ELSE LET before == stays[i - 1]
                   current == before[Len(before)]
               IN  IF /\ before # <<>>
                      /\ HaversineDistance(current.anchor.pos, points[i].pos) =< ClusterRadius
                   THEN [before EXCEPT ![Len(before)] =
                           [points |-> Append(current.points, points[i]), anchor |-> points[i]]]
                   ELSE Append(before, [points |-> <<points[i]>>, anchor |-> points[i]])
    IN  stays[Len(points)]

(* cluster_by_proximity: the stay each point goes to, by the number of     *)
(* points read.  A point within the radius of the anchor of the current    *)
(* stay joins it, any other starts a stay and is its anchor.               *)
ClusterByProximity(points) ==
    LET stays[i \in 0 .. Len(points)] ==
          IF i = 0 THEN <<>>
          ELSE LET before == stays[i - 1]
                   current == before[Len(before)]
               IN  IF /\ before # <<>>
                      /\ HaversineDistance(current.anchor.pos, points[i].pos) =< ClusterRadius
                   THEN [before EXCEPT ![Len(before)].points = Append(@, points[i])]
                   ELSE Append(before, [points |-> <<points[i]>>, anchor |-> points[i]])
    IN  stays[Len(points)]

(* match_place: the places that contain a position with the least radius;  *)
(* min() takes the first of them in the order of list_named_places.        *)
MatchPlaces(pos, places) ==
    LET matches == {p \in places : HaversineDistance(pos, p.pos) =< p.radius}
    IN  {p \in matches : \A q \in matches : p.radius =< q.radius}
-----------------------------------------------------------------------------
Points(stays) == FlattenSeq([i \in DOMAIN stays |-> stays[i].points])

(* The stays split the trail into consecutive runs, losing, repeating and  *)
(* reordering nothing, each of them held together by the anchor it starts  *)
(* with and ended only by a point out of that anchor's reach               *)
(* (stays.py:38-44).                                                       *)
StaysPartitionTheTrail ==
    LET stays == ClusterByProximity(trail)
    IN  /\ Points(stays) = trail
        /\ \A i \in DOMAIN stays :
             /\ stays[i].anchor = stays[i].points[1]
             /\ \A j \in DOMAIN stays[i].points :
                  HaversineDistance(stays[i].anchor.pos, stays[i].points[j].pos) =< ClusterRadius
        /\ \A i \in 1 .. Len(stays) - 1 :
             HaversineDistance(stays[i].anchor.pos, stays[i + 1].anchor.pos) > ClusterRadius

(* A report, also one that comes late, leaves what the timeline says of    *)
(* the time before it: a stay that had begun before it keeps its anchor,   *)
(* and one that was over, because the next had begun, stays as it is       *)
(* (stays.py:48-58, over all the reports of an AirTag, oldest first).      *)
PastStaysAreFinal ==
    [][LET before == ClusterByProximity(trail)
           after == ClusterByProximity(trail')
       IN  \A r \in ToSet(trail') \ ToSet(trail) : \A i \in DOMAIN before :
              before[i].anchor.t < r.t =>
                 /\ after[i].anchor = before[i].anchor
                 /\ (i < Len(before) /\ before[i + 1].anchor.t < r.t) => after[i] = before[i]]_trail

(* A place inside a larger one that reaches around it takes priority for   *)
(* every point inside it, and a point in any place has a match             *)
(* (stays.py:61-69).                                                       *)
InnerPlaceWins ==
    \A i \in DOMAIN trail : \A p, q \in Places :
       LET Inside(x) == HaversineDistance(trail[i].pos, x.pos) =< x.radius
           within == HaversineDistance(p.pos, q.pos) + p.radius < q.radius
       IN  Inside(p) => /\ MatchPlaces(trail[i].pos, Places) # {}
                        /\ within => q \notin MatchPlaces(trail[i].pos, Places)

(* What a stay says of the past, where and at which place the object was,  *)
(* is what the trail says.                                                 *)
StaysTellTheTrail == StaysPartitionTheTrail /\ InnerPlaceWins
=============================================================================
