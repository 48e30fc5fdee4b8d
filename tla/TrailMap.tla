------------------------------- MODULE TrailMap -------------------------------
(***************************************************************************)
(* The map of one object (MapCard.tsx; DeviceMapCard.tsx is the same with  *)
(* its newest fix first): the pin of the stay that is displayed with its   *)
(* popup and address, the trail along the roads, and what the map shows of *)
(* the world.                                                              *)
(*                                                                         *)
(* React draws a change of the props and runs the effects it triggers      *)
(* before it draws again: one step here, in which a frame between the two  *)
(* may still show the old address.  The addresses and routes the effects   *)
(* ask for arrive later, in any order, and the caches that hold them       *)
(* outlive the map.  Every point of a trail is a stay of its own; the      *)
(* address of a point is named by the point and the route of a trail by    *)
(* the trail.                                                              *)
(***************************************************************************)
EXTENDS Naturals, Sequences, SequencesExt

CONSTANTS
    Trails,         \* the trails, oldest point first
    Points,
    Extent,         \* the middle of a trail's bounds
    Elsewhere,      \* where the user has moved the map to
    NoPoint

ASSUME TrailsAssumption ==
    /\ \A t \in Trails : t \in Seq(Points) /\ IsInjective(t)
    /\ {Extent, Elsewhere, NoPoint} \cap Points = {}

VARIABLES
    mounted,        \* a MapCard is on screen
    trail,          \* reports and stays
    selected,       \* selectedReportId
    centre,         \* the middle of the view
    extent,         \* the trail its zoom fits, or Elsewhere
    lastFitted,     \* lastFitted.current of FitBounds
    pin,            \* animatedPosition; Elsewhere: between two points
    popup,          \* the popup of the pin is open
    address,        \* address of AddressLine; None: nothing is shown
    lookups,        \* getAddress under way: [of, live], live = ~cancelled
    addressCache,   \* points with an entry in addressCache
    routed,         \* routed of useRoutedTrail
    routes,         \* getRoute under way: [of, live]
    routeCache      \* trails with an entry in routeCache

props == <<mounted, trail, selected>>
view == <<centre, extent, lastFitted>>
addresses == <<address, lookups, addressCache>>
ways == <<routed, routes, routeCache>>
mapVars == <<props, view, pin, popup, addresses, ways>>

Drawn == mounted /\ trail # <<>>

(* displayedIndex: a selection that is no stay of the trail counts as none.*)
DisplayedOf(t, s) == IF t = <<>> THEN NoPoint ELSE IF Contains(t, s) THEN s ELSE Last(t)
Displayed == DisplayedOf(trail, selected)

MapInit ==
    /\ mounted = FALSE /\ trail = <<>> /\ selected = NoPoint
    /\ centre = Elsewhere /\ extent = Elsewhere /\ lastFitted = NoPoint
    /\ pin = NoPoint /\ popup = FALSE
    /\ address = NoPoint /\ lookups = {} /\ addressCache = {}
    /\ routed = NoPoint /\ routes = {} /\ routeCache = {}
-----------------------------------------------------------------------------
(* The cleanup of an effect cancels what the effect had asked for.         *)
Cancelled(asked) == {[r EXCEPT !.live = FALSE] : r \in asked}

(* A mutant: every new array is fitted.                                    *)
FitAlways(t) == t # <<>>

(* FitBounds: by the values, once for each MapContainer.                   *)
FitBounds(t) == t # <<>> /\ (~Drawn \/ t # lastFitted)

(* PanToSelection: when the position has changed, after FitBounds.         *)
PanToSelection(d) == d # NoPoint /\ (~Drawn \/ d # Displayed)

Reframe(t, d) ==
    /\ lastFitted' = IF FitBounds(t) THEN t ELSE IF t = <<>> THEN NoPoint ELSE lastFitted
    /\ extent' = IF FitBounds(t) THEN t ELSE extent
    /\ centre' = IF PanToSelection(d) THEN d ELSE IF FitBounds(t) THEN Extent ELSE centre

(* A mutant: no cleanup.                                                   *)
LookUpUncancelled(d, open) ==
    IF open /\ popup /\ d = Displayed THEN UNCHANGED addresses
    ELSE LET unknown == IF open /\ d \notin addressCache THEN {d} ELSE {} IN
         /\ address' = IF open /\ unknown = {} THEN d ELSE NoPoint
         /\ lookups' = lookups \cup {[of |-> u, live |-> TRUE] : u \in unknown}
         /\ UNCHANGED addressCache

(* AddressLine for the displayed position d: it is there while the popup   *)
(* is open, and looks up again whenever either changes.                    *)
LookUp(d, open) ==
    IF open /\ popup /\ d = Displayed THEN UNCHANGED addresses
    ELSE LET unknown == IF open /\ d \notin addressCache THEN {d} ELSE {} IN
         /\ address' = IF open /\ unknown = {} THEN d ELSE NoPoint
         /\ lookups' = Cancelled(lookups) \cup {[of |-> u, live |-> TRUE] : u \in unknown}
         /\ UNCHANGED addressCache

(* useRoutedTrail: a hook of the card, whether or not there is a map.      *)
RouteAlong(t) ==
    IF mounted /\ t = trail THEN UNCHANGED ways
    ELSE /\ routed' = IF Len(t) > 1 /\ t \in routeCache THEN t ELSE NoPoint
         /\ routes' = Cancelled(routes) \cup
              IF Len(t) > 1 /\ t \notin routeCache THEN {[of |-> t, live |-> TRUE]} ELSE {}
         /\ UNCHANGED routeCache

(* The card with the reports t and the selection s.                        *)
Draw(t, s) ==
    /\ mounted' = TRUE
    /\ trail' = t
    /\ selected' = s
    /\ Reframe(t, DisplayedOf(t, s))
    /\ RouteAlong(t)
    /\ pin' = IF mounted THEN pin ELSE DisplayedOf(t, s)
    /\ popup' = (t # <<>> /\ (Drawn => popup))
    /\ LookUp(DisplayedOf(t, s), popup')

MountCard(t, s) == ~mounted /\ Draw(t, s)

(* The reports are loaded again: the same or more, or another object's.    *)
Reload(t) == mounted /\ Draw(t, selected)

(* A point of the map, a row of the history, the stepper; or none.         *)
Select(s) ==
    /\ mounted /\ s # selected
    /\ s = NoPoint \/ Contains(trail, s)
    /\ Draw(trail, s)

(* A tap on the map's background, another tab.                             *)
UnmountCard ==
    /\ mounted
    /\ mounted' = FALSE
    /\ trail' = <<>> /\ selected' = NoPoint
    /\ lastFitted' = NoPoint /\ centre' = Elsewhere /\ extent' = Elsewhere
    /\ pin' = NoPoint /\ popup' = FALSE
    /\ LookUp(NoPoint, FALSE)
    /\ routed' = NoPoint /\ routes' = Cancelled(routes)
    /\ UNCHANGED routeCache
-----------------------------------------------------------------------------
(* A frame of useAnimatedLatLng; the popup opens at each new position.     *)
Frame ==
    /\ mounted /\ pin # Displayed
    /\ pin' \in {Displayed, Elsewhere}
    /\ popup' = (trail # <<>>)
    /\ LookUp(Displayed, popup')
    /\ UNCHANGED <<props, view, ways>>

(* Its X, a tap elsewhere, or another popup.                               *)
ClosePopup ==
    /\ popup
    /\ popup' = FALSE
    /\ LookUp(Displayed, FALSE)
    /\ UNCHANGED <<props, view, pin, ways>>

ClickPin ==
    /\ Drawn
    /\ centre' = pin /\ popup' = TRUE
    /\ LookUp(Displayed, TRUE)
    /\ UNCHANGED <<props, extent, lastFitted, pin, ways>>

(* A drag, a zoom, LocateControl.                                          *)
MoveView ==
    /\ Drawn
    /\ centre' = Elsewhere /\ extent' = Elsewhere
    /\ UNCHANGED <<props, lastFitted, pin, popup, addresses, ways>>

(* The answer is kept although nobody waits for it any more.               *)
AddressAnswered(r) ==
    /\ r \in lookups
    /\ lookups' = lookups \ {r}
    /\ \/ /\ addressCache' = addressCache \cup {r.of}
          /\ address' = IF r.live THEN r.of ELSE address
       \/ /\ address' = IF r.live THEN NoPoint ELSE address
          /\ UNCHANGED addressCache
    /\ UNCHANGED <<props, view, pin, popup, ways>>

RouteAnswered(r) ==
    /\ r \in routes
    /\ routes' = routes \ {r}
    /\ \/ /\ routeCache' = routeCache \cup {r.of}
          /\ routed' = IF r.live THEN r.of ELSE routed
       \/ /\ routed' = IF r.live THEN NoPoint ELSE routed
          /\ UNCHANGED routeCache
    /\ UNCHANGED <<props, view, pin, popup, addresses>>

MapNext ==
    \/ \E t \in Trails, s \in Points \cup {NoPoint} : MountCard(t, s)
    \/ \E t \in Trails : Reload(t)
    \/ \E s \in Points \cup {NoPoint} : Select(s)
    \/ UnmountCard
    \/ Frame \/ ClosePopup \/ ClickPin \/ MoveView
    \/ \E r \in lookups : AddressAnswered(r)
    \/ \E r \in routes : RouteAnswered(r)

MapSpec == MapInit /\ [][MapNext]_mapVars
-----------------------------------------------------------------------------
(* The address in the popup is the one of the stay that is displayed and   *)
(* the line on the map follows the trail that is, however late and in      *)
(* whatever order the answers come (MapCard.tsx:323-353,                   *)
(* useRoutedTrail.ts:22-54).                                               *)
AddressAndRouteBelong ==
    /\ address \in {NoPoint, Displayed}
    /\ routed \in {NoPoint, trail}

(* A refresh that brings the same positions moves nothing: neither the     *)
(* zoom nor a pan of the user's is undone (MapCard.tsx:142-172, 300-308).  *)
QuietRefresh ==
    [][Drawn /\ Reload(trail) => UNCHANGED <<centre, extent, popup>>]_mapVars
=============================================================================
