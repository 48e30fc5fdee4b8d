---------------------------- MODULE DashboardProofs ----------------------------
(***************************************************************************)
(* What Dashboard.tla promises whatever answers come late, fail or cross,  *)
(* for any AirTags and any number of overlapping refreshes.                *)
(***************************************************************************)
EXTENDS Dashboard, TLAPS

(* Nothing but an answer for the selected AirTag fills the trail.          *)
LEMMA TrailStep ==
    [Next]_vars =>
        \/ trail' \in {trail, NoTrail}
        \/ trail'.of = currentIdRef
        \/ currentIdRef' # currentIdRef
<1> SUFFICES ASSUME [Next]_vars
             PROVE  \/ trail' \in {trail, NoTrail}
                    \/ trail'.of = currentIdRef
                    \/ currentIdRef' # currentIdRef
  OBVIOUS
<1>1. ASSUME NEW r \in Refreshes,
             Tick(r) \/ PingAnswered(r) \/ HandleManualRefresh(r) \/ PollAnswered(r)
      PROVE  trail' \in {trail, NoTrail}
  BY <1>1 DEF Tick, PingAnswered, HandleManualRefresh, PollAnswered, Begin, GiveUp, FullRefresh
<1>2. ASSUME NEW load \in reports, ReportsAnswered(load)
      PROVE  trail' = trail \/ trail'.of = currentIdRef
  BY <1>2 DEF ReportsAnswered
<1>3. ASSUME NEW load \in lists, AirtagsAnswered(load)
      PROVE  trail' = trail
  BY <1>3 DEF AirtagsAnswered
<1>4. CASE EffectsRun
  BY <1>4 DEF EffectsRun
<1>5. CASE \/ ServerChanges \/ NetworkChanges \/ SaveAnswered \/ UNCHANGED vars
           \/ \E id \in AirTags : HandleSelect(id)
           \/ \E op \in {"create", "delete", "reorder"}, id \in AirTags \cup {None} :
                SaveStarts(op, id)
  BY <1>5 DEF ServerChanges, NetworkChanges, SaveAnswered, HandleSelect, SaveStarts, shown, vars
<1> QED BY <1>1, <1>2, <1>3, <1>4, <1>5 DEF Next, Answer

(* For any AirTags and refreshes, and without assuming fairness: as long   *)
(* as the selection stays, its trail is not replaced by that of another    *)
(* AirTag (App.tsx:284-313).                                               *)
THEOREM OtherTrailsAreDropped == Spec => TrailStaysOnTheSelection
<1>1. [Next]_vars => [trail.of = currentIdRef /\ currentIdRef' = currentIdRef
                        => trail'.of \in {trail.of, None}]_vars
  BY TrailStep DEF NoTrail
<1> QED BY <1>1, PTL DEF Spec, TrailStaysOnTheSelection
-----------------------------------------------------------------------------
Phases == {"idle", "ping", "poll", "loading", "manual"}

(* A refresh that loads still waits for an answer, and no other does.      *)
LoadsAreDue ==
    \A r \in Refreshes : phase[r] \in {"loading", "manual"} <=> r \in Waiting(lists, reports)

(* The spinner turns for a refresh by hand that has not come to its end.   *)
SpinnerHasARefresh == manualRefreshing => \E r \in Refreshes : phase[r] \in {"poll", "manual"}

RefreshInv ==
    /\ phase \in [Refreshes -> Phases]
    /\ LoadsAreDue
    /\ SpinnerHasARefresh

LEMMA WaitingGrows ==
    ASSUME NEW more, lists \subseteq lists', reports \subseteq reports',
           \A load \in (lists' \ lists) \cup (reports' \ reports) : load.by \in more
    PROVE  /\ Waiting(lists, reports) \subseteq Waiting(lists, reports)'
           /\ Waiting(lists, reports)' \subseteq Waiting(lists, reports) \cup more
BY DEF Waiting, AskedBy

LEMMA FullRefreshInv ==
    ASSUME RefreshInv, NEW r \in Refreshes, NEW next \in {"loading", "manual"}, NEW id,
           FullRefresh(r, next, id), UNCHANGED manualRefreshing,
           phase[r] \in {"poll", "manual"} => next = "manual"
    PROVE  RefreshInv'
<1>1. phase' = [phase EXCEPT ![r] = next]
  BY DEF FullRefresh
<1>2. lists' = lists \cup {GetAirtags(r)} /\ reports' \in {reports, reports \cup {GetReports(r, id)}}
  BY DEF FullRefresh
<1>3. Waiting(lists, reports)' = Waiting(lists, reports) \cup {r}
  <2>1. GetAirtags(r).by = r /\ GetReports(r, id).by = r
    BY DEF GetAirtags, GetReports
  <2> QED BY <1>2, <2>1 DEF Waiting, AskedBy
<1>4. LoadsAreDue'
  BY <1>1, <1>3 DEF RefreshInv, LoadsAreDue
<1>5. SpinnerHasARefresh'
  BY <1>1 DEF RefreshInv, SpinnerHasARefresh
<1> QED BY <1>1, <1>4, <1>5 DEF RefreshInv, Phases

LEMMA GiveUpInv ==
    ASSUME RefreshInv, NEW r \in Refreshes, phase[r] \in {"idle", "ping"},
           GiveUp(r) \/ (\E id : Begin(r, "ping", id)), UNCHANGED manualRefreshing
    PROVE  RefreshInv'
<1>1. PICK next \in {"idle", "ping"} : phase' = [phase EXCEPT ![r] = next]
  BY DEF GiveUp, Begin
<1>2. UNCHANGED <<lists, reports>>
  BY DEF GiveUp, Begin, loads
<1>3. LoadsAreDue'
  BY <1>1, <1>2 DEF RefreshInv, LoadsAreDue
<1>4. SpinnerHasARefresh'
  BY <1>1 DEF RefreshInv, SpinnerHasARefresh
<1> QED BY <1>1, <1>3, <1>4 DEF RefreshInv, Phases

(* An answer ends the refresh that asked for it if it is the last one.     *)
LEMMA SettleInv ==
    ASSUME RefreshInv, NEW load, NEW failed, NEW rest,
           Settle(load, failed, rest),
           rest = Waiting(lists, reports)',
           Waiting(lists, reports) = rest \cup {load.by}
    PROVE  RefreshInv'
<1>1. CASE load.by \notin Refreshes
  <2>1. UNCHANGED <<phase, manualRefreshing>>
    BY <1>1 DEF Settle, flags
  <2> QED BY <1>1, <2>1 DEF RefreshInv, LoadsAreDue, SpinnerHasARefresh
<1>2. CASE load.by \in Refreshes /\ load.by \in rest
  <2>1. UNCHANGED <<phase, manualRefreshing>>
    BY <1>2 DEF Settle
  <2> QED BY <1>2, <2>1 DEF RefreshInv, LoadsAreDue, SpinnerHasARefresh
<1>3. CASE load.by \in Refreshes /\ load.by \notin rest
  <2> DEFINE r == load.by
  <2>1. /\ phase' = [phase EXCEPT ![r] = "idle"]
        /\ manualRefreshing' = IF phase[r] = "manual" THEN FALSE ELSE manualRefreshing
    BY <1>3 DEF Settle
  <2> HIDE DEF r
  <2>2. LoadsAreDue'
    BY <1>3, <2>1 DEF RefreshInv, LoadsAreDue, r
  <2>3. phase' \in [Refreshes -> Phases]
    BY <2>1 DEF RefreshInv, Phases
  <2>4. phase[r] # "poll"
    BY <1>3 DEF RefreshInv, LoadsAreDue, r
  <2>5. SpinnerHasARefresh'
    BY <2>1, <2>4 DEF RefreshInv, SpinnerHasARefresh
  <2> QED BY <2>2, <2>3, <2>5 DEF RefreshInv
<1> QED BY <1>1, <1>2, <1>3

LEMMA RefreshInvStep == RefreshInv /\ [Next]_vars => RefreshInv'
<1> SUFFICES ASSUME RefreshInv, [Next]_vars
             PROVE  RefreshInv'
  OBVIOUS
<1>1. ASSUME NEW r \in Refreshes, Tick(r)
      PROVE  RefreshInv'
  BY <1>1, FullRefreshInv, GiveUpInv DEF Tick, flags
<1>2. ASSUME NEW r \in Refreshes, PingAnswered(r)
      PROVE  RefreshInv'
  BY <1>2, FullRefreshInv, GiveUpInv DEF PingAnswered, flags
<1>3. ASSUME NEW r \in Refreshes, PollAnswered(r)
      PROVE  RefreshInv'
  BY <1>3, FullRefreshInv DEF PollAnswered, flags
<1>4. ASSUME NEW r \in Refreshes, HandleManualRefresh(r)
      PROVE  RefreshInv'
  <2>1. phase[r] = "idle" /\ phase' = [phase EXCEPT ![r] = "poll"] /\ UNCHANGED <<lists, reports>>
    BY <1>4 DEF HandleManualRefresh, Begin, loads
  <2>2. phase'[r] = "poll" /\ phase' \in [Refreshes -> Phases]
    BY <2>1 DEF RefreshInv, Phases
  <2> QED BY <2>1, <2>2 DEF RefreshInv, LoadsAreDue, SpinnerHasARefresh
<1>5. ASSUME NEW load \in lists, AirtagsAnswered(load)
      PROVE  RefreshInv'
  <2>1. lists' = lists \ {load} /\ reports' = reports
    BY <1>5 DEF AirtagsAnswered
  <2>2. Settle(load, ~load.ok, Waiting(lists', reports))
    BY <1>5 DEF AirtagsAnswered
  <2>3. Waiting(lists, reports) = Waiting(lists, reports)' \cup {load.by}
    BY <2>1 DEF Waiting, AskedBy
  <2> QED BY <2>1, <2>2, <2>3, SettleInv
<1>6. ASSUME NEW load \in reports, ReportsAnswered(load)
      PROVE  RefreshInv'
  <2>1. reports' = reports \ {load} /\ lists' = lists
    BY <1>6 DEF ReportsAnswered
  <2>2. Settle(load, ~load.ok, Waiting(lists, reports'))
    BY <1>6 DEF ReportsAnswered
  <2>3. Waiting(lists, reports) = Waiting(lists, reports)' \cup {load.by}
    BY <2>1 DEF Waiting, AskedBy
  <2> QED BY <2>1, <2>2, <2>3, SettleInv
<1>7. CASE \/ ServerChanges \/ NetworkChanges \/ SaveAnswered \/ EffectsRun \/ UNCHANGED vars
           \/ \E id \in AirTags : HandleSelect(id)
           \/ \E op \in {"create", "delete", "reorder"}, id \in AirTags \cup {None} :
                SaveStarts(op, id)
  <2>1. UNCHANGED <<phase, manualRefreshing>>
    BY <1>7 DEF ServerChanges, NetworkChanges, SaveAnswered, EffectsRun, HandleSelect, SaveStarts,
                vars, flags, refresh
  <2>2. /\ lists \subseteq lists' /\ reports \subseteq reports'
        /\ \A load \in (lists' \ lists) \cup (reports' \ reports) : load.by \in {"effect", "save"}
    BY <1>7 DEF ServerChanges, NetworkChanges, SaveAnswered, EffectsRun, HandleSelect, SaveStarts,
                vars, loads, GetReports, GetAirtags
  <2>3. \A r \in Refreshes : r \in Waiting(lists, reports)' <=> r \in Waiting(lists, reports)
    BY <2>2, WaitingGrows, DashboardAssumption
  <2> QED BY <2>1, <2>3 DEF RefreshInv, LoadsAreDue, SpinnerHasARefresh
<1> QED BY <1>1, <1>2, <1>3, <1>4, <1>5, <1>6, <1>7 DEF Next, Answer

(* The safety behind RefreshingEnds: however refreshes by timer and by     *)
(* hand overlap and fail, the spinner turns only while a refresh by hand   *)
(* is under way, and a refresh is loading exactly as long as an answer to  *)
(* it is to come (App.tsx:350-362, 406-419).                               *)
THEOREM SpinnerIsNotStuck == Spec => [](SpinnerHasARefresh /\ LoadsAreDue)
<1>1. Init => RefreshInv
  BY DashboardAssumption
     DEF Init, RefreshInv, LoadsAreDue, SpinnerHasARefresh, Phases, Waiting, AskedBy, GetAirtags
<1>2. RefreshInv => SpinnerHasARefresh /\ LoadsAreDue
  BY DEF RefreshInv
<1> QED BY <1>1, <1>2, RefreshInvStep, PTL DEF Spec
=============================================================================
