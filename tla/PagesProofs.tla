----------------------------- MODULE PagesProofs -----------------------------
(***************************************************************************)
(* The parts of the dashboard that share no state, each by an invariant of *)
(* its own: the push subscription, the editor of a place, the map of an    *)
(* object, the settings form, the forms of an object, the panel that       *)
(* connects an Apple account.                                              *)
(*                                                                         *)
(* And the login wizard behind that panel, for any number of attempts and  *)
(* of requests at the same time.                                           *)
(***************************************************************************)
EXTENDS PushSubscription, PlaceEditor, TrailMap, SettingsForm, ObjectForms, ConnectPanel,
        AppleSession, TLAPS

(* What the server may know: what the browser has or has dropped.          *)
Known == ({subscription} \ {0}) \cup dropped

(* A subscription is registered while it is known, and forgotten by the    *)
(* server before the browser ends it, unless a request is served late.     *)
PushInv ==
    /\ made \in Nat
    /\ rows \subseteq Known \cup overdue
    /\ pushStep = "post" => held \in Known
    /\ pushStep = "unsubscribe" => held \notin rows \ overdue

LEMMA PushInvStep == PushInv /\ [PushNext]_pushVars => PushInv'
<1> SUFFICES ASSUME PushInv, [PushNext]_pushVars
             PROVE  PushInv'
  OBVIOUS
<1> USE DEF PushInv, Known, givenUp, GiveUp
<1>1. CASE Checked
  BY <1>1 DEF Checked, browser
<1>2. CASE ReloadPage
  BY <1>2 DEF ReloadPage, browser
<1>3. CASE CallRaises
  BY <1>3 DEF CallRaises, Finish, browser
<1>4. CASE Enable
  BY <1>4 DEF Enable, browser
<1>5. CASE PermissionAnswered
  BY <1>5 DEF PermissionAnswered, Wait, Finish
<1>6. CASE KeyAnswered
  BY <1>6 DEF KeyAnswered, Wait, Finish, browser
<1>7. CASE Subscribed
  <2>1. subscription' # 0 /\ made' \in Nat /\ UNCHANGED <<dropped, rows, overdue>>
    BY <1>7 DEF Subscribed
  <2>2. Known \subseteq Known'
    BY <1>7 DEF Subscribed
  <2>3. pushStep' = "post" /\ held' = subscription'
    BY <1>7 DEF Subscribed, Wait
  <2> QED BY <2>1, <2>2, <2>3
<1>8. CASE SubscribeServed
  BY <1>8 DEF SubscribeServed, Finish, browser
<1>9. CASE Disable
  BY <1>9 DEF Disable, browser
<1>10. CASE Found
  BY <1>10 DEF Found, Wait, Finish, browser
<1>11. CASE UnsubscribeServed
  BY <1>11 DEF UnsubscribeServed, Wait, Finish, browser
<1>12. CASE Unsubscribed
  BY <1>12 DEF Unsubscribed, Finish
<1>13. CASE BrowserDrops
  BY <1>13 DEF BrowserDrops, hook
<1>14. ASSUME NEW row \in rows, SendTo(row)
       PROVE  PushInv'
  BY <1>14 DEF SendTo, browser, hook
<1>15. CASE NotificationClick
  BY <1>15 DEF NotificationClick, browser, hook
<1>17. ASSUME NEW request \in late, LateServed(request)
       PROVE  PushInv'
  BY <1>17 DEF LateServed, browser, hook
<1>16. CASE UNCHANGED pushVars
  BY <1>16 DEF pushVars, browser, hook
<1> QED BY <1>1, <1>2, <1>3, <1>4, <1>5, <1>6, <1>7, <1>8, <1>9, <1>10, <1>11, <1>12,
           <1>13, <1>14, <1>15, <1>16, <1>17 DEF PushNext

(* However often the page enables and disables push, whatever call fails   *)
(* and whenever the page is closed, the server keeps no subscription that  *)
(* the page has ended but one whose registration it served after the page  *)
(* had given it up (usePushNotifications.ts:40-63).                        *)
THEOREM NoDeadRows == PushSpec => []RowsAreLive
<1>1. PushInit => PushInv
  BY DEF PushInit, PushInv
<1>2. PushInv => RowsAreLive
  BY DEF PushInv, Known, RowsAreLive
<1> QED BY <1>1, <1>2, PushInvStep, PTL DEF PushSpec
-----------------------------------------------------------------------------
(* Where nobody has chosen a centre the browser's fix may set it: an       *)
(* editor of a new place that counts as untouched has no chosen centre.    *)
EditorInv ==
    /\ EditorShowsTheChoice
    /\ editing = "new" /\ ~hasUserEdited => chosen = NoPosition

LEMMA MountedEditor ==
    ASSUME NEW which \in Ids \cup {"new"}, NEW seed, MountEditor(which, seed)
    PROVE  EditorInv'
BY PlacesAssumption DEF MountEditor, EditorInv, EditorShowsTheChoice

LEMMA UnmountedEditor == ASSUME UnmountEditor PROVE EditorInv'
BY PlacesAssumption DEF UnmountEditor, EditorInv, EditorShowsTheChoice

LEMMA SameEditor ==
    ASSUME EditorInv, UNCHANGED <<editing, center, circle, hasUserEdited, chosen>>
    PROVE  EditorInv'
BY DEF EditorInv, EditorShowsTheChoice

LEMMA EditorInvStep == EditorInv /\ [PlacesNext]_placeVars => EditorInv'
<1> SUFFICES ASSUME EditorInv, [PlacesNext]_placeVars
             PROVE  EditorInv'
  OBVIOUS
<1>1. CASE ShowList
  BY <1>1, MountedEditor, SameEditor DEF ShowList, map
<1>2. CASE LeaveList \/ Cancel
  BY <1>2, UnmountedEditor DEF LeaveList, Cancel
<1>3. ASSUME NEW which \in Ids \cup {"new"}, Edit(which)
      PROVE  EditorInv'
  BY <1>3, MountedEditor DEF Edit
<1>4. ASSUME NEW p \in Positions, HandleAddPlace(p)
      PROVE  EditorInv'
  <2>1. CASE editing = NoPosition
    BY <1>4, <2>1, MountedEditor DEF HandleAddPlace
  <2>2. CASE editing # NoPosition
    BY <1>4, <2>2 DEF HandleAddPlace, EditorInv, EditorShowsTheChoice
  <2> QED BY <2>1, <2>2
<1>5. ASSUME NEW p \in Positions, Drag(p)
      PROVE  EditorInv'
  BY <1>5 DEF Drag, EditorInv, EditorShowsTheChoice
<1>6. CASE FixArrives
  BY <1>6 DEF FixArrives, EditorInv, EditorShowsTheChoice
<1>7. CASE HandleAddressSelect
  BY <1>7 DEF HandleAddressSelect, EditorInv, EditorShowsTheChoice
<1>8. ASSUME NEW s \in saves, SaveAnswered(s)
      PROVE  EditorInv'
  BY <1>8, UnmountedEditor, SameEditor DEF SaveAnswered, map
<1>9. \/ ShowList \/ LeaveList \/ Cancel \/ FixArrives \/ HandleAddressSelect
      \/ \E which \in Ids \cup {"new"} : Edit(which)
      \/ \E p \in Positions : HandleAddPlace(p) \/ Drag(p)
      \/ \E s \in saves : SaveAnswered(s)
      \/ UNCHANGED <<editing, center, circle, hasUserEdited, chosen>>
  BY DEF PlacesNext, TypeQuery, DebounceOver, SearchAnswered, Save, HandleDeletePlace, Start,
         SaveFails, PlacesLoaded, placeVars, map
<1> QED BY <1>1, <1>2, <1>3, <1>4, <1>5, <1>6, <1>7, <1>8, <1>9, SameEditor

(* For any places, searches and saves: the editor draws the centre that it *)
(* would save, and a late fix of the browser never replaces one that       *)
(* somebody has chosen in this editor.  A popup that asks for a new place  *)
(* while an editor is open chooses nothing in it                           *)
(* (SettingsPlaces.tsx:186-221).                                           *)
THEOREM TheChoiceStands == PlacesSpec => []EditorShowsTheChoice
<1>1. PlacesInit => EditorInv
  BY PlacesAssumption DEF PlacesInit, EditorInv, EditorShowsTheChoice
<1>2. EditorInv => EditorShowsTheChoice
  BY DEF EditorInv
<1> QED BY <1>1, <1>2, EditorInvStep, PTL DEF PlacesSpec
-----------------------------------------------------------------------------
(* An answer somebody still waits for is about what is shown; a map that   *)
(* is drawn has been fitted to its trail.                                  *)
MapInv ==
    /\ AddressAndRouteBelong
    /\ \A r \in lookups : DOMAIN r = {"of", "live"} /\ (r.live => r.of = Displayed)
    /\ \A r \in routes : DOMAIN r = {"of", "live"} /\ (r.live => r.of = trail)
    /\ Drawn => lastFitted = trail
    /\ popup \in BOOLEAN

LEMMA NobodyWaits ==
    ASSUME NEW asked, \A r \in asked : DOMAIN r = {"of", "live"}
    PROVE  \A r \in Cancelled(asked) : DOMAIN r = {"of", "live"} /\ ~r.live
BY DEF Cancelled

LEMMA LookedUp ==
    ASSUME MapInv, NEW d, NEW o, LookUp(d, o)
    PROVE  /\ address' \in {NoPoint, d}
           /\ \A r \in lookups' : DOMAIN r = {"of", "live"} /\ (r.live => r.of = d)
<1>1. CASE o /\ popup /\ d = Displayed
  BY <1>1 DEF LookUp, addresses, MapInv, AddressAndRouteBelong
<1>2. CASE ~(o /\ popup /\ d = Displayed)
  <2> DEFINE unknown == IF o /\ d \notin addressCache THEN {d} ELSE {}
  <2>1. /\ address' \in {NoPoint, d}
        /\ lookups' = Cancelled(lookups) \cup {[of |-> u, live |-> TRUE] : u \in unknown}
    BY <1>2 DEF LookUp
  <2>2. unknown \subseteq {d}
    OBVIOUS
  <2> HIDE DEF unknown
  <2>3. \A r \in Cancelled(lookups) : DOMAIN r = {"of", "live"} /\ ~r.live
    BY NobodyWaits DEF MapInv
  <2>4. \A r \in {[of |-> u, live |-> TRUE] : u \in unknown} : DOMAIN r = {"of", "live"} /\ r.of = d
    BY <2>2
  <2> QED BY <2>1, <2>3, <2>4
<1> QED BY <1>1, <1>2

LEMMA DrawInv ==
    ASSUME MapInv, NEW t, NEW s, Draw(t, s)
    PROVE  MapInv'
<1> DEFINE d == DisplayedOf(t, s)
<1>1. mounted' = TRUE /\ trail' = t /\ Displayed' = d
  BY DEF Draw, Displayed, DisplayedOf
<1> HIDE DEF d
<1>2. /\ address' \in {NoPoint, d}
      /\ \A r \in lookups' : DOMAIN r = {"of", "live"} /\ (r.live => r.of = d)
  BY LookedUp DEF Draw, d
<1>3. /\ routed' \in {NoPoint, t}
      /\ \A r \in routes' : DOMAIN r = {"of", "live"} /\ (r.live => r.of = t)
  <2>1. RouteAlong(t)
    BY DEF Draw
  <2>2. CASE mounted /\ t = trail
    BY <2>1, <2>2 DEF RouteAlong, ways, MapInv, AddressAndRouteBelong
  <2>3. CASE ~(mounted /\ t = trail)
    BY <2>1, <2>3, NobodyWaits DEF RouteAlong, MapInv
  <2> QED BY <2>2, <2>3
<1>4. Drawn' => lastFitted' = t
  BY <1>1 DEF Draw, Reframe, FitBounds, Drawn, MapInv
<1>5. popup' \in BOOLEAN
  BY DEF Draw
<1> QED BY <1>1, <1>2, <1>3, <1>4, <1>5 DEF MapInv, AddressAndRouteBelong

LEMMA MapInvStep == MapInv /\ [MapNext]_mapVars => MapInv'
<1> SUFFICES ASSUME MapInv, [MapNext]_mapVars
             PROVE  MapInv'
  OBVIOUS
<1>1. ASSUME NEW t, NEW s, MountCard(t, s) \/ Reload(t) \/ Select(s)
      PROVE  MapInv'
  BY <1>1, DrawInv DEF MountCard, Reload, Select
<1>2. CASE UnmountCard
  <2>1. trail' = <<>> /\ ~mounted' /\ Displayed' = NoPoint
    BY <1>2 DEF UnmountCard, Displayed, DisplayedOf
  <2>2. /\ address' \in {NoPoint, Displayed'}
        /\ \A r \in lookups' : DOMAIN r = {"of", "live"} /\ (r.live => r.of = Displayed')
    BY <1>2, <2>1, LookedUp DEF UnmountCard
  <2>3. \A r \in routes' : DOMAIN r = {"of", "live"} /\ ~r.live
    BY <1>2, NobodyWaits DEF UnmountCard, MapInv
  <2> QED BY <1>2, <2>1, <2>2, <2>3 DEF UnmountCard, MapInv, AddressAndRouteBelong, Drawn
<1>3. CASE Frame \/ ClosePopup \/ ClickPin \/ MoveView \/ UNCHANGED mapVars
  <2>1. UNCHANGED <<mounted, trail, selected, lastFitted, routed, routes>>
    BY <1>3 DEF Frame, ClosePopup, ClickPin, MoveView, mapVars, props, view, ways
  <2>2. popup' \in BOOLEAN
    BY <1>3 DEF Frame, ClosePopup, ClickPin, MoveView, mapVars, MapInv
  <2>3. Displayed' = Displayed /\ Drawn' = Drawn
    BY <2>1 DEF Displayed, DisplayedOf, Drawn
  <2>4. /\ address' \in {NoPoint, Displayed}
        /\ \A r \in lookups' : DOMAIN r = {"of", "live"} /\ (r.live => r.of = Displayed)
    <3>1. CASE \E o : LookUp(Displayed, o)
      BY <3>1, LookedUp
    <3>2. CASE UNCHANGED addresses
      BY <3>2 DEF addresses, MapInv, AddressAndRouteBelong
    <3> QED BY <1>3, <3>1, <3>2 DEF Frame, ClosePopup, ClickPin, MoveView, mapVars
  <2> QED BY <2>1, <2>2, <2>3, <2>4 DEF MapInv, AddressAndRouteBelong
<1>4. ASSUME NEW r \in lookups, AddressAnswered(r)
      PROVE  MapInv'
  BY <1>4 DEF AddressAnswered, props, view, ways, MapInv, AddressAndRouteBelong, Displayed,
              DisplayedOf, Drawn
<1>5. ASSUME NEW r \in routes, RouteAnswered(r)
      PROVE  MapInv'
  BY <1>5 DEF RouteAnswered, props, view, addresses, MapInv, AddressAndRouteBelong, Displayed,
              DisplayedOf, Drawn
<1> QED BY <1>1, <1>2, <1>3, <1>4, <1>5 DEF MapNext

LEMMA MapInvHolds == MapSpec => []MapInv
<1>1. MapInit => MapInv
  BY DEF MapInit, MapInv, AddressAndRouteBelong, Drawn
<1> QED BY <1>1, MapInvStep, PTL DEF MapSpec

(* For any trails and selections, and however late and in whatever order   *)
(* the answers come: the address in the popup is that of the stay shown,   *)
(* the line is that of the trail shown (MapCard.tsx:323-353,               *)
(* useRoutedTrail.ts:22-54).                                               *)
THEOREM LateAnswersAreDropped == MapSpec => []AddressAndRouteBelong
<1>1. MapInv => AddressAndRouteBelong
  BY DEF MapInv
<1> QED BY <1>1, MapInvHolds, PTL

(* A refresh with the same positions moves neither zoom nor centre, nor    *)
(* opens or closes the popup (MapCard.tsx:142-172, 300-308).               *)
THEOREM RefreshIsQuiet == MapSpec => QuietRefresh
<1>1. ASSUME MapInv, Drawn, Reload(trail)
      PROVE  UNCHANGED <<centre, extent, popup>>
  <2>1. ~FitBounds(trail) /\ ~PanToSelection(Displayed)
    BY <1>1 DEF MapInv, FitBounds, PanToSelection
  <2>2. Reframe(trail, Displayed) /\ popup' = (Drawn => popup)
    BY <1>1 DEF Reload, Draw, Displayed, Drawn
  <2> QED BY <1>1, <2>1, <2>2 DEF Reframe, MapInv
<1>2. MapInv => [Drawn /\ Reload(trail) => UNCHANGED <<centre, extent, popup>>]_mapVars
  BY <1>1
<1> QED BY <1>2, MapInvHolds, PTL DEF QuietRefresh
-----------------------------------------------------------------------------
(* The PUTs that the panel on screen waits for.                            *)
Own == {p \in puts : p.by = visit}

FormTypes ==
    /\ visit \in Nat /\ sent \in Nat
    /\ timer \in Settings \cup {NoSettings}
    /\ puts \subseteq [n : 1..sent, value : Settings, served : BOOLEAN, by : 0..visit]
    /\ \A p, q \in puts : p.n = q.n => p = q

(* What is loading, timed or waited for, and by which visit.               *)
VisitInv ==
    /\ page # "closed" => visit # 0
    /\ page = "closed" => timer = NoSettings
    /\ puts # {} => visit # 0
    /\ loading # NoSettings => settings = NoSettings
    /\ settings = NoSettings => timer = NoSettings /\ Own = {}

(* The PUTs have been served from the oldest on, and stored with the last; *)
(* one that is given up is the oldest and unserved; those of the panel on  *)
(* screen are the newest.                                                  *)
OrderInv ==
    /\ \A p, q \in puts : q.served /\ p.n < q.n => p.served
    /\ \A p \in puts : p.served /\ (\A q \in puts : q.served => q.n <= p.n) => savedSettings = p.value
    /\ \A p \in puts : p.by = 0 => gaveUp /\ ~p.served /\ \A q \in puts : p.n <= q.n
    /\ \A p \in Own, q \in puts : p.n < q.n => q \in Own

(* What is shown, loaded or applied is what is stored.                     *)
AgreeInv ==
    /\ loading \notin {GetAsked, NoSettings} =>
         loading = savedSettings /\ \A p \in puts : p.served
    /\ page # "closed" /\ settings # NoSettings /\ timer = NoSettings /\ ~invalid
         /\ saveStatus # "error" /\ Own = {} =>
         settings = savedSettings /\ \A p \in puts : p.served
    /\ puts = {} /\ ~gaveUp => applied = savedSettings

FormInv == FormTypes /\ VisitInv /\ (~crossed => OrderInv /\ AgreeInv)

(* What persist adds.                                                      *)
LEMMA Persists ==
    ASSUME FormTypes, NEW value \in Settings, PersistSettings(value)
    PROVE  \E r \in [n : {sent + 1}, value : {value}, served : {FALSE}, by : {visit}] :
             /\ puts' = puts \cup {r} /\ sent' = sent + 1
             /\ UNCHANGED <<savedSettings, crossed, gaveUp>>
BY DEF PersistSettings

(* The invariant is kept by a PUT more of the panel.                       *)
LEMMA PersistInv ==
    ASSUME FormInv, NEW value \in Settings, PersistSettings(value), page # "closed",
           settings # NoSettings, settings' # NoSettings, timer' \in Settings \cup {NoSettings},
           UNCHANGED <<applied, page, visit, loading>>
    PROVE  FormInv'
<1>1. PICK r \in [n : {sent + 1}, value : {value}, served : {FALSE}, by : {visit}] :
         /\ puts' = puts \cup {r} /\ sent' = sent + 1
         /\ UNCHANGED <<savedSettings, crossed, gaveUp>>
  BY Persists DEF FormInv
<1>2. FormTypes'
  <2>1. sent' \in Nat /\ \A p \in puts : p.n \in 1..sent'
    BY <1>1 DEF FormInv, FormTypes
  <2>2. puts' \subseteq [n : 1..sent', value : Settings, served : BOOLEAN, by : 0..visit']
    <3>1. r \in [n : 1..sent', value : Settings, served : BOOLEAN, by : 0..visit']
      <4>1. visit \in Nat /\ sent \in Nat
        BY DEF FormInv, FormTypes
      <4>2. sent + 1 \in 1..sent' /\ visit \in 0..visit'
        BY <1>1, <4>1
      <4> QED BY <4>2
    <3>2. puts \subseteq [n : 1..sent', value : Settings, served : BOOLEAN, by : 0..visit']
      BY <1>1 DEF FormInv, FormTypes
    <3> QED BY <1>1, <3>1, <3>2
  <2>3. \A p, q \in puts' : p.n = q.n => p = q
    BY <1>1 DEF FormInv, FormTypes
  <2> QED BY <2>1, <2>2, <2>3 DEF FormInv, FormTypes
<1>3. VisitInv'
  <2>1. visit # 0 /\ loading = NoSettings
    BY DEF FormInv, VisitInv
  <2> QED BY <2>1 DEF VisitInv
<1>4. ~crossed => OrderInv'
  <2> SUFFICES ASSUME ~crossed PROVE OrderInv'
    OBVIOUS
  <2>1. /\ r.n = sent + 1 /\ ~r.served /\ r.by = visit /\ visit # 0 /\ sent \in Nat
        /\ \A p \in puts : p.n \in Nat /\ p.n <= sent
    <3>1. r.n = sent + 1 /\ ~r.served /\ r.by = visit
      OBVIOUS
    <3>2. visit # 0 /\ sent \in Nat /\ puts \subseteq [n : 1..sent, value : Settings, served : BOOLEAN, by : 0..visit]
      BY DEF FormInv, FormTypes, VisitInv
    <3> QED BY <3>1, <3>2
  <2>2. \A p, q \in puts' : q.served /\ p.n < q.n => p.served
    BY <1>1, <2>1 DEF FormInv, OrderInv
  <2>3. \A p \in puts' :
          p.served /\ (\A q \in puts' : q.served => q.n <= p.n) => savedSettings' = p.value
    BY <1>1, <2>1 DEF FormInv, OrderInv
  <2>4. \A p \in puts' : p.by = 0 => gaveUp' /\ ~p.served /\ \A q \in puts' : p.n <= q.n
    BY <1>1, <2>1 DEF FormInv, OrderInv
  <2>5. \A p \in Own', q \in puts' : p.n < q.n => q \in Own'
    BY <1>1, <2>1 DEF FormInv, OrderInv, Own
  <2> QED BY <2>2, <2>3, <2>4, <2>5 DEF OrderInv
<1>5. ~crossed => AgreeInv'
  <2>1. loading = NoSettings
    BY DEF FormInv, VisitInv
  <2>2. r \in Own'
    BY <1>1 DEF Own
  <2>3. puts' # {}
    BY <1>1
  <2> QED BY <2>1, <2>2, <2>3 DEF AgreeInv
<1> QED BY <1>1, <1>2, <1>3, <1>4, <1>5 DEF FormInv

(* A PUT that is served, given up or answered takes its place or leaves.   *)
LEMMA InItsPlace ==
    ASSUME FormTypes, NEW p \in puts, NEW S \in {{}, {[p EXCEPT !.served = TRUE]}, {[p EXCEPT !.by = 0]}},
           puts' = (puts \ {p}) \cup S, UNCHANGED <<visit, sent>>, timer' \in Settings \cup {NoSettings}
    PROVE  /\ FormTypes'
           /\ \A s \in S : s.n = p.n /\ s.value = p.value
           /\ \A q \in puts : q.n \in Nat /\ q.served \in BOOLEAN /\ (q.n = p.n => q = p)
<1> DEFINE Puts == [n : 1..sent, value : Settings, served : BOOLEAN, by : 0..visit]
<1>1. visit \in Nat /\ sent \in Nat /\ puts \subseteq Puts /\ \A q, r \in puts : q.n = r.n => q = r
  BY DEF FormTypes
<1>2. 0 \in 0..visit
  BY <1>1
<1>3. \A s \in S : s \in Puts /\ s.n = p.n /\ s.value = p.value
  <2>1. CASE S = {[p EXCEPT !.served = TRUE]}
    BY <1>1, <2>1
  <2>2. CASE S = {[p EXCEPT !.by = 0]}
    BY <1>1, <1>2, <2>2
  <2> QED BY <2>1, <2>2
<1>4. puts' \subseteq Puts
  BY <1>1, <1>3
<1>5. \A q, r \in puts' : q.n = r.n => q = r
  BY <1>1, <1>3
<1>6. FormTypes'
  BY <1>1, <1>4, <1>5 DEF FormTypes
<1> QED BY <1>1, <1>3, <1>6

LEMMA ServedInv ==
    ASSUME FormInv, NEW p \in puts, PutServed(p)
    PROVE  FormInv'
<1> DEFINE s == [p EXCEPT !.served = TRUE]
           S == IF p.by = 0 THEN {} ELSE {s}
<1>1. /\ puts' = (puts \ {p}) \cup S
      /\ FormTypes' /\ s.n = p.n /\ s.value = p.value
      /\ \A q \in puts : q.n \in Nat /\ q.served \in BOOLEAN /\ (q.n = p.n => q = p)
  <2>1. puts' = (puts \ {p}) \cup S /\ UNCHANGED <<visit, sent, timer>>
    BY DEF PutServed, formState
  <2> QED BY <2>1, InItsPlace DEF FormInv, FormTypes
<1>2. s.by = p.by /\ s.served
  <2>1. puts \subseteq [n : 1..sent, value : Settings, served : BOOLEAN, by : 0..visit]
    BY DEF FormInv, FormTypes
  <2> QED BY <2>1
<1> HIDE DEF s
<1>3. VisitInv'
  BY <1>1, <1>2 DEF PutServed, formState, FormInv, VisitInv, Own
<1> SUFFICES ASSUME ~crossed' PROVE OrderInv' /\ AgreeInv'
  BY <1>1, <1>3 DEF FormInv
<1>4. ~crossed /\ ~p.served /\ \A q \in puts : q.n < p.n => q.served
  BY DEF PutServed
<1>5. \A q \in puts : q.served => q.n < p.n
  BY <1>1, <1>4 DEF FormInv, OrderInv
<1>6. OrderInv'
  <2>1. CASE p.by = 0
    BY <1>1, <1>4, <1>5, <2>1 DEF PutServed, FormInv, OrderInv, VisitInv, Own
  <2>2. CASE p.by # 0
    BY <1>1, <1>2, <1>4, <1>5, <2>2 DEF PutServed, FormInv, OrderInv, VisitInv, Own
  <2> QED BY <2>1, <2>2
<1>7. AgreeInv'
  <2>1. p \notin Own \/ s \in Own'
    BY <1>1, <1>2 DEF PutServed, FormInv, VisitInv, Own
  <2>2. Own' = {} => Own = {}
    BY <1>1, <2>1 DEF PutServed, Own
  <2>3. puts' = {} => gaveUp
    BY <1>1, <1>4 DEF FormInv, OrderInv
  <2> QED BY <1>4, <2>2, <2>3 DEF PutServed, formState, FormInv, AgreeInv
<1> QED BY <1>6, <1>7

LEMMA AnsweredInv ==
    ASSUME FormInv, NEW p \in puts, PutAnswered(p)
    PROVE  FormInv'
<1>1. /\ puts' = puts \ {p}
      /\ FormTypes' /\ p.value \in Settings
      /\ \A q \in puts : q.n \in Nat /\ q.served \in BOOLEAN /\ (q.n = p.n => q = p)
  <2>1. puts' = (puts \ {p}) \cup {}
    BY DEF PutAnswered
  <2> QED BY <2>1, InItsPlace DEF PutAnswered, FormInv, FormTypes
<1>2. VisitInv'
  BY <1>1, SettingsAssumption DEF PutAnswered, Awaited, FormInv, VisitInv, Own
<1> SUFFICES ASSUME ~crossed' PROVE OrderInv' /\ AgreeInv'
  BY <1>1, <1>2 DEF FormInv
<1>3. ~crossed /\ p.served /\ \A q \in puts : p.n <= q.n
  BY <1>1 DEF PutAnswered
<1>4. OrderInv'
  BY <1>1, <1>3 DEF PutAnswered, FormInv, OrderInv, Own
<1>5. puts' = {} => savedSettings = p.value
  BY <1>1, <1>3 DEF FormInv, OrderInv
<1>6. p \in Own /\ Own' = {} => puts' = {}
  BY <1>1, <1>3 DEF PutAnswered, FormInv, OrderInv, Own
<1>7. AgreeInv'
  BY <1>1, <1>3, <1>5, <1>6 DEF PutAnswered, Awaited, FormInv, AgreeInv, VisitInv, Own
<1> QED BY <1>4, <1>7

LEMMA FailedInv ==
    ASSUME FormInv, NEW p \in puts, PutFails(p)
    PROVE  FormInv'
<1> DEFINE s == [p EXCEPT !.by = 0]
<1>1. PICK S \in {{}, {s}} :
         puts' = (puts \ {p}) \cup S /\ (S = {s} => ~p.served)
  BY DEF PutFails
<1>2. /\ FormTypes' /\ s.n = p.n /\ s.value = p.value
      /\ \A q \in puts : q.n \in Nat /\ q.served \in BOOLEAN /\ (q.n = p.n => q = p)
  BY <1>1, InItsPlace DEF PutFails, FormInv, FormTypes
<1>3. s.by = 0 /\ s.served = p.served /\ p.by # 0
  BY DEF FormInv, FormTypes, PutFails
<1> HIDE DEF s
<1>4. VisitInv'
  BY <1>1, <1>3 DEF PutFails, FormInv, VisitInv, Own
<1> SUFFICES ASSUME ~crossed' PROVE OrderInv' /\ AgreeInv'
  BY <1>2, <1>4 DEF FormInv
<1>5. ~crossed /\ gaveUp' /\ \A q \in puts : p.n <= q.n
  <2>1. crossed' = (crossed \/ \E q \in puts : q.n < p.n) /\ gaveUp'
    BY DEF PutFails
  <2>2. ~crossed /\ gaveUp' /\ \A q \in puts : ~(q.n < p.n)
    BY <2>1
  <2>3. \A q \in puts : ~(q.n < p.n) => p.n <= q.n
    BY <1>2
  <2> QED BY <2>2, <2>3
<1>6. OrderInv'
  <2>1. \A q, r \in puts' : r.served /\ q.n < r.n => q.served
    BY <1>1, <1>2, <1>3, <1>5 DEF FormInv, OrderInv
  <2>2. \A q \in puts' : q.served /\ (\A r \in puts' : r.served => r.n <= q.n) => savedSettings' = q.value
    BY <1>1, <1>2, <1>3, <1>5 DEF PutFails, FormInv, OrderInv
  <2>3. \A q \in puts' : q.by = 0 => gaveUp' /\ ~q.served /\ \A r \in puts' : q.n <= r.n
    BY <1>1, <1>2, <1>3, <1>5 DEF FormInv, OrderInv
  <2>4. \A q \in Own', r \in puts' : q.n < r.n => r \in Own'
    BY <1>1, <1>2, <1>3, <1>5 DEF PutFails, FormInv, OrderInv, VisitInv, Own
  <2> QED BY <2>1, <2>2, <2>3, <2>4 DEF OrderInv
<1>7. AgreeInv'
  BY <1>1, <1>2, <1>3, <1>5 DEF PutFails, Awaited, FormInv, AgreeInv, VisitInv, Own
<1> QED BY <1>6, <1>7

LEMMA FormInvStep == FormInv /\ [SettingsNext]_settingsVars => FormInv'
<1> SUFFICES ASSUME FormInv, [SettingsNext]_settingsVars
             PROVE  FormInv'
  OBVIOUS
<1> USE SettingsAssumption DEF FormInv
<1>1. ASSUME NEW first \in {"root", "places"}, OpenPanel(first)
      PROVE  FormInv'
  BY <1>1 DEF OpenPanel, server, FormTypes, VisitInv, OrderInv, AgreeInv, Own
<1>2. CASE ClosePanel
  BY <1>2 DEF ClosePanel, server, FormTypes, VisitInv, OrderInv, AgreeInv, Own
<1>3. ASSUME NEW next \in Pages, GoTo(next)
      PROVE  FormInv'
  BY <1>3 DEF GoTo, Pages, server, formState, FormTypes, VisitInv, OrderInv, AgreeInv, Own
<1>4. CASE GetServed
  BY <1>4 DEF GetServed, formState, FormTypes, VisitInv, OrderInv, AgreeInv, Own
<1>5. CASE Loaded \/ LoadFails
  BY <1>5 DEF Loaded, LoadFails, server, formState, FormTypes, VisitInv, OrderInv, AgreeInv, Own
<1>6. ASSUME NEW next, NEW immediate \in BOOLEAN, Update(next, immediate)
      PROVE  FormInv'
  <2>1. CASE next.threshold # 0 /\ immediate
    BY <1>6, <2>1, PersistInv DEF Update
  <2>2. CASE ~(next.threshold # 0 /\ immediate)
    BY <1>6, <2>2 DEF Update, server, FormTypes, VisitInv, OrderInv, AgreeInv, Own
  <2> QED BY <2>1, <2>2
<1>7. CASE TimerFires
  BY <1>7, PersistInv DEF TimerFires, FormTypes, VisitInv
<1>8. ASSUME NEW p \in puts, PutServed(p)
      PROVE  FormInv'
  BY <1>8, ServedInv
<1>9. ASSUME NEW p \in puts, PutAnswered(p)
      PROVE  FormInv'
  BY <1>9, AnsweredInv
<1>10. ASSUME NEW p \in puts, PutFails(p)
      PROVE  FormInv'
  BY <1>10, FailedInv
<1>11. CASE StatusFades
  BY <1>11 DEF StatusFades, server, FormTypes, VisitInv, OrderInv, AgreeInv, Own
<1>12. CASE UNCHANGED settingsVars
  BY <1>12 DEF settingsVars, server, formState, FormTypes, VisitInv, OrderInv, AgreeInv, Own
<1> QED BY <1>1, <1>2, <1>3, <1>4, <1>5, <1>6, <1>7, <1>8, <1>9, <1>10, <1>11, <1>12
        DEF SettingsNext, TypeThreshold, ClickOption

(* For any fields, visits and PUTs, as long as requests end in the order   *)
(* they are made: settings that are shown are stored ones, or a save is    *)
(* due, or the form holds an error, which only the page Tracking draws;    *)
(* those the dashboard is drawn with are stored ones, or a PUT is due or   *)
(* has failed (SettingsPanel.tsx:221-257).                                 *)
THEOREM UnsavedChangesAreMarked == SettingsSpec => []UnsavedIsMarked
<1>1. SettingsInit => FormInv
  BY SettingsAssumption DEF SettingsInit, FormInv, FormTypes, VisitInv, OrderInv, AgreeInv, Own
<1>2. FormInv => UnsavedIsMarked
  BY DEF FormInv, AgreeInv, Own, UnsavedIsMarked
<1> QED BY <1>1, <1>2, FormInvStep, PTL DEF SettingsSpec
-----------------------------------------------------------------------------

(* The fields a change of the kind has a value for.                        *)
FieldsOf(op) == CASE op = "rename" -> {"name"}
                  [] op = "appearance" -> {"icon", "color"}
                  [] op = "alert" -> {"alert"}
                  [] op \in {"key", "unkey"} -> {"key"}
                  [] OTHER -> {}
Fields == {"name", "icon", "color", "alert"}

(* The changes that disable what they were made with.                      *)
Holds(c) == c.op \in {"appearance", "alert"} \/ (c.op = "rename" /\ c.stage = "sent")

ChangeTypes ==
    /\ Fields \subseteq DOMAIN wanted
    /\ kept # Gone => Fields \subseteq DOMAIN kept
    /\ \A c \in changes :
         /\ DOMAIN c = {"n", "op", "value", "from", "stage", "got"}
         /\ c.op \in {"rename", "appearance", "key", "alert", "unkey", "delete", "tick"}
         /\ c.stage \in {"sent", "asked", "read"}
         /\ DOMAIN c.value = FieldsOf(c.op)
         /\ c.op = "delete" /\ c.stage # "sent" => kept = Gone

BusyInv ==
    /\ \A c \in changes : Holds(c) =>
         c.op \in busy /\ c.from = IF c.op = "alert" THEN "detail" ELSE "form"
    /\ \A c, d \in changes : Holds(c) /\ Holds(d) /\ c.op = d.op => c = d
    /\ \A c \in changes : c.op = "rename" /\ c.stage # "sent" => c.from # "form"

(* What is under way is the last that is wanted; what is not is stored.    *)
WantedInv ==
    \A f \in Fields :
      /\ \A c \in changes : c.stage = "sent" /\ f \in FieldsOf(c.op) => c.value[f] = wanted[f]
      /\ (\A c \in changes : c.stage = "sent" => f \notin FieldsOf(c.op)) => kept[f] = wanted[f]

(* The appearance that is shown is the one that is stored, unless the list *)
(* is on its way after a change of it.                                     *)
ShownAppearance ==
    (\A c \in changes : c.op = "appearance" => c.stage = "sent") =>
        object.icon = kept.icon /\ object.color = kept.color

KeptInv == ChangeTypes /\ (~behind /\ kept # Gone => BusyInv /\ WantedInv /\ ShownAppearance)

(* The first of two functions where it has a value, the second elsewhere.  *)
LEMMA Overlay ==
    ASSUME NEW new, NEW old, NEW f \in DOMAIN new \cup DOMAIN old
    PROVE  /\ f \in DOMAIN Over(new, old)
           /\ Over(new, old)[f] = IF f \in DOMAIN new THEN new[f] ELSE old[f]
BY DEF Over

LEMMA SendInv ==
    ASSUME KeptInv, NEW op \in {"rename", "appearance", "key", "alert", "unkey", "delete"},
           NEW from, NEW value, NEW picked, SendChange(op, from, value, picked),
           DOMAIN value = FieldsOf(op),
           \A f \in DOMAIN picked : f \in DOMAIN value /\ value[f] = picked[f],
           ~behind /\ kept # Gone => \A f \in DOMAIN value \cap Fields :
               f \notin DOMAIN picked => value[f] = wanted[f],
           IF op \in {"rename", "appearance", "alert"}
           THEN /\ op \notin busy /\ busy' = busy \cup {op}
                /\ from = IF op = "alert" THEN "detail" ELSE "form"
           ELSE busy \subseteq busy'
    PROVE  KeptInv'
<1> DEFINE new == [n |-> changed + 1, op |-> op, value |-> value, from |-> from,
                   stage |-> "sent", got |-> Gone]
<1>1. /\ DOMAIN new = {"n", "op", "value", "from", "stage", "got"}
      /\ new.op = op /\ new.value = value /\ new.from = from /\ new.stage = "sent"
  OBVIOUS
<1>2. changes' = changes \cup {new} /\ wanted' = Over(picked, wanted) /\ UNCHANGED <<kept, object, behind>>
  BY DEF SendChange
<1> HIDE DEF new
<1>3. \A f \in Fields : f \in DOMAIN wanted' /\ wanted'[f] = IF f \in DOMAIN picked THEN picked[f] ELSE wanted[f]
  BY <1>2, Overlay DEF KeptInv, ChangeTypes
<1>4. ChangeTypes'
  BY <1>1, <1>2, <1>3 DEF KeptInv, ChangeTypes
<1> SUFFICES ASSUME ~behind, kept # Gone
             PROVE  BusyInv' /\ WantedInv' /\ ShownAppearance'
  BY <1>2, <1>4 DEF KeptInv
<1>5. BusyInv'
  BY <1>1, <1>2 DEF KeptInv, BusyInv, Holds
<1>6. WantedInv'
  <2> SUFFICES ASSUME NEW f \in Fields
               PROVE  /\ \A c \in changes' : c.stage = "sent" /\ f \in FieldsOf(c.op) => c.value[f] = wanted'[f]
                      /\ (\A c \in changes' : c.stage = "sent" => f \notin FieldsOf(c.op)) => kept'[f] = wanted'[f]
    BY DEF WantedInv
  <2>1. CASE f \in FieldsOf(op)
    <3>1. value[f] = wanted'[f]
      BY <1>3, <2>1
    <3>2. op \in {"rename", "appearance", "alert"}
      BY <2>1 DEF FieldsOf, Fields
    <3>3. \A c \in changes : c.stage = "sent" => f \notin FieldsOf(c.op)
      BY <2>1, <3>2 DEF KeptInv, BusyInv, Holds, FieldsOf, Fields
    <3> QED BY <1>1, <1>2, <2>1, <3>1, <3>3
  <2>2. CASE f \notin FieldsOf(op)
    <3>1. wanted'[f] = wanted[f]
      BY <1>3, <2>2
    <3> QED BY <1>1, <1>2, <2>2, <3>1 DEF KeptInv, WantedInv
  <2> QED BY <2>1, <2>2
<1>7. ShownAppearance'
  BY <1>1, <1>2 DEF KeptInv, ShownAppearance
<1> QED BY <1>5, <1>6, <1>7

(* The types do not tell where a change is heard.                          *)
LEMMA AllGone ==
    ASSUME ChangeTypes, NEW R \in SUBSET changes, changes' = {[c EXCEPT !.from = "gone"] : c \in R},
           UNCHANGED <<kept, wanted>>
    PROVE  ChangeTypes'
<1>1. ASSUME NEW c \in R
      PROVE  LET d == [c EXCEPT !.from = "gone"]
             IN  /\ DOMAIN d = DOMAIN c /\ d.op = c.op /\ d.stage = c.stage /\ d.value = c.value
  BY DEF ChangeTypes
<1> QED BY <1>1 DEF ChangeTypes

LEMMA BackInv ==
    ASSUME KeptInv, Back
    PROVE  KeptInv'
<1> DEFINE moved(c) == [c EXCEPT !.from = "gone"]
<1>1. changes' = {moved(c) : c \in changes} /\ UNCHANGED <<kept, object, wanted>>
  BY DEF Back, CloseDetail
<1>2. ChangeTypes'
  BY <1>1, AllGone DEF KeptInv
<1> SUFFICES ASSUME ~behind', kept' # Gone
             PROVE  BusyInv' /\ WantedInv' /\ ShownAppearance'
  BY <1>2 DEF KeptInv
<1>3. ~behind /\ kept # Gone /\ \A c \in changes : c.from = "gone"
  BY DEF Back, CloseDetail
<1>4. ASSUME NEW c \in changes
      PROVE  /\ moved(c).op = c.op /\ moved(c).value = c.value /\ moved(c).stage = c.stage
             /\ moved(c).from = "gone" /\ ~Holds(c)
  BY <1>3 DEF KeptInv, ChangeTypes, BusyInv
<1> HIDE DEF moved
<1>5. BusyInv'
  BY <1>1, <1>4 DEF BusyInv, Holds
<1>6. WantedInv' /\ ShownAppearance'
  BY <1>1, <1>3, <1>4 DEF KeptInv, WantedInv, ShownAppearance
<1> QED BY <1>5, <1>6

LEMMA ToggleInv ==
    ASSUME KeptInv, NEW form \in Forms, ToggleForm(form)
    PROVE  KeptInv'
<1>1. CASE form \notin open
  BY <1>1 DEF ToggleForm, KeptInv, ChangeTypes, BusyInv, WantedInv, ShownAppearance
<1>2. CASE form \in open
  <2> DEFINE moved(c) == IF c.op = form /\ c.from # "gone" THEN [c EXCEPT !.from = "detail"] ELSE c
  <2>1. changes' = {moved(c) : c \in changes} /\ busy' = busy \ {form}
    BY <1>2 DEF ToggleForm, Left
  <2>2. ASSUME NEW c \in changes
        PROVE  /\ DOMAIN moved(c) = DOMAIN c /\ moved(c).op = c.op /\ moved(c).value = c.value
               /\ moved(c).stage = c.stage /\ (moved(c).from = c.from \/ moved(c).from = "detail")
               /\ c.op # form => moved(c) = c
    BY DEF KeptInv, ChangeTypes
  <2> HIDE DEF moved
  <2>3. ChangeTypes'
    BY <1>2, <2>1, <2>2 DEF ToggleForm, KeptInv, ChangeTypes
  <2> SUFFICES ASSUME ~behind', kept' # Gone
               PROVE  BusyInv' /\ WantedInv' /\ ShownAppearance'
    BY <2>3 DEF KeptInv
  <2>4. ~behind /\ kept # Gone /\ form \notin busy /\ UNCHANGED <<kept, object, wanted>>
    BY <1>2 DEF ToggleForm
  <2>5. \A c \in changes : Holds(c) => c.op # form
    BY <2>4 DEF KeptInv, BusyInv
  <2>6. BusyInv'
    BY <2>1, <2>2, <2>4, <2>5 DEF KeptInv, BusyInv, Holds
  <2>7. WantedInv' /\ ShownAppearance'
    BY <2>1, <2>2, <2>4 DEF KeptInv, WantedInv, ShownAppearance
  <2> QED BY <2>6, <2>7
<1> QED BY <1>1, <1>2

LEMMA ChangeServedInv ==
    ASSUME KeptInv, NEW c \in changes, Served(c)
    PROVE  KeptInv'
<1>1. /\ c.stage = "sent" /\ kept # Gone
      /\ kept' = (IF c.op = "delete" THEN Gone ELSE Over(c.value, kept))
      /\ UNCHANGED <<object, wanted, behind>>
  BY DEF Served, After
<1>2. kept' # Gone =>
        \A f \in Fields : f \in DOMAIN kept'
                        /\ kept'[f] = IF f \in FieldsOf(c.op) THEN c.value[f] ELSE kept[f]
  BY <1>1, Overlay DEF KeptInv, ChangeTypes
<1> DEFINE closes == c.op = "rename" /\ c.from # "gone"
           r == IF closes THEN [Reloading(c) EXCEPT !.from = "detail"] ELSE Reloading(c)
           moved(e) == IF e.op = "rename" /\ e.from # "gone" THEN [e EXCEPT !.from = "detail"] ELSE e
<1>3. /\ DOMAIN r = {"n", "op", "value", "from", "stage", "got"}
      /\ r.op = c.op /\ r.value = c.value /\ r.stage = "asked"
      /\ r.from = IF closes THEN "detail" ELSE c.from
  BY DEF KeptInv, ChangeTypes, Reloading
<1>4. ASSUME NEW e \in changes
      PROVE  \/ moved(e) = e
             \/ /\ e.op = "rename" /\ moved(e).op = "rename" /\ DOMAIN moved(e) = DOMAIN e
                /\ moved(e).value = e.value /\ moved(e).stage = e.stage /\ moved(e).from = "detail"
  BY DEF KeptInv, ChangeTypes
<1>5. IF closes
      THEN /\ busy' = busy \ {"rename"}
           /\ changes' = ({moved(e) : e \in changes} \ {c, moved(c)}) \cup {r}
      ELSE busy' = busy /\ changes' = (changes \ {c}) \cup {r}
  BY DEF Served, Left
<1>6. \A e \in changes : e.op # "rename" => moved(e) = e
  OBVIOUS
<1> HIDE DEF r, moved
<1>7. \A d \in changes' : d = r \/ \E e \in changes :
        /\ e # c
        /\ \/ d = e
           \/ /\ closes /\ e.op = "rename" /\ d.op = "rename" /\ DOMAIN d = DOMAIN e
              /\ d.value = e.value /\ d.stage = e.stage /\ d.from = "detail"
  BY <1>4, <1>5
<1>8. r \in changes' /\ \A e \in changes : e # c /\ (closes => e.op # "rename") => e \in changes'
  <2>1. closes => moved(c).op = "rename"
    BY <1>4
  <2> QED BY <1>5, <1>6, <2>1
<1>9. ChangeTypes'
  BY <1>1, <1>2, <1>3, <1>7 DEF KeptInv, ChangeTypes
<1> SUFFICES ASSUME ~behind, kept' # Gone
             PROVE  BusyInv' /\ WantedInv' /\ ShownAppearance'
  BY <1>1, <1>9 DEF KeptInv
<1>10. BusyInv /\ WantedInv /\ ShownAppearance
  BY <1>1 DEF KeptInv
<1>11. \A e \in changes : e # c /\ Holds(e) /\ closes => e.op # "rename"
  BY <1>1, <1>10 DEF BusyInv, Holds
<1>12. BusyInv'
  BY <1>1, <1>3, <1>5, <1>7, <1>10, <1>11 DEF BusyInv, Holds
<1>13. WantedInv'
  <2> SUFFICES ASSUME NEW f \in Fields
               PROVE  /\ \A d \in changes' : d.stage = "sent" /\ f \in FieldsOf(d.op) => d.value[f] = wanted'[f]
                      /\ (\A d \in changes' : d.stage = "sent" => f \notin FieldsOf(d.op)) => kept'[f] = wanted'[f]
    BY DEF WantedInv
  <2>1. \A d \in changes' : d.stage = "sent" /\ f \in FieldsOf(d.op) => d.value[f] = wanted'[f]
    BY <1>1, <1>3, <1>7, <1>10 DEF WantedInv
  <2>2. CASE f \in FieldsOf(c.op)
    BY <1>1, <1>2, <1>10, <2>1, <2>2 DEF WantedInv
  <2>3. CASE f \notin FieldsOf(c.op)
    <3>1. closes => f \notin FieldsOf("rename")
      BY <2>3
    <3> QED BY <1>1, <1>2, <1>8, <1>10, <2>1, <2>3, <3>1 DEF WantedInv
  <2> QED BY <2>2, <2>3
<1>14. ShownAppearance'
  <2>1. CASE c.op = "appearance"
    BY <1>3, <1>8, <2>1 DEF ShownAppearance
  <2>2. CASE c.op # "appearance"
    <3>1. kept'.icon = kept.icon /\ kept'.color = kept.color
      BY <1>2, <2>2 DEF Fields, FieldsOf, KeptInv, ChangeTypes
    <3>2. \A e \in changes : e.op = "appearance" => e \in changes'
      BY <1>8, <2>2
    <3> QED BY <1>1, <1>10, <3>1, <3>2 DEF ShownAppearance
  <2> QED BY <2>1, <2>2
<1> QED BY <1>12, <1>13, <1>14

LEMMA RefusedInv ==
    ASSUME KeptInv, NEW c \in changes, Refused(c)
    PROVE  KeptInv'
<1>1. /\ c.stage = "sent" /\ changes' = changes \ {c} /\ busy' = Freed(c) /\ UNCHANGED object
      /\ \/ kept' = kept /\ behind' = behind
         \/ behind' /\ kept # Gone /\ kept' = IF c.op = "delete" THEN Gone ELSE Over(c.value, kept)
  BY DEF Refused, After
<1>2. \A f \in Fields : f \in DOMAIN wanted'
        /\ wanted'[f] = IF kept' # Gone /\ f \in FieldsOf(c.op) THEN kept'[f] ELSE wanted[f]
  <2>1. CASE kept' = Gone
    BY <2>1 DEF Refused, KeptInv, ChangeTypes
  <2>2. CASE kept' # Gone
    <3> DEFINE back == [f \in DOMAIN c.value |-> kept'[f]]
    <3>1. wanted' = Over(back, wanted)
      BY <2>2 DEF Refused
    <3>2. DOMAIN back = FieldsOf(c.op) /\ \A f \in DOMAIN back : back[f] = kept'[f]
      BY DEF KeptInv, ChangeTypes
    <3> HIDE DEF back
    <3> QED BY <2>2, <3>1, <3>2, Overlay DEF KeptInv, ChangeTypes
  <2> QED BY <2>1, <2>2
<1>3. kept' # Gone => Fields \subseteq DOMAIN kept'
  BY <1>1, Overlay DEF KeptInv, ChangeTypes
<1>4. ChangeTypes'
  BY <1>1, <1>2, <1>3 DEF KeptInv, ChangeTypes
<1> SUFFICES ASSUME ~behind', kept' # Gone
             PROVE  BusyInv' /\ WantedInv' /\ ShownAppearance'
  BY <1>4 DEF KeptInv
<1>5. ~behind /\ kept' = kept /\ BusyInv /\ WantedInv /\ ShownAppearance
  BY <1>1 DEF KeptInv
<1>6. BusyInv'
  <2>1. \A d \in changes : Holds(d) /\ d # c => d.op \in busy'
    BY <1>1, <1>5 DEF Freed, BusyInv, Holds, KeptInv, ChangeTypes
  <2> QED BY <1>1, <1>5, <2>1 DEF BusyInv, Holds
<1>7. WantedInv'
  <2>1. ASSUME NEW f \in Fields, f \in FieldsOf(c.op)
        PROVE  \A d \in changes' : d.stage = "sent" => f \notin FieldsOf(d.op)
    BY <1>1, <1>5, <2>1 DEF BusyInv, Holds, FieldsOf, Fields
  <2> QED BY <1>1, <1>2, <1>5, <2>1 DEF WantedInv
<1>8. ShownAppearance'
  BY <1>1, <1>5 DEF ShownAppearance
<1> QED BY <1>6, <1>7, <1>8

LEMMA ListServedInv ==
    ASSUME KeptInv, NEW c \in changes, ListServed(c)
    PROVE  KeptInv'
<1> DEFINE r == [c EXCEPT !.stage = "read", !.got = kept]
<1>1. /\ DOMAIN r = DOMAIN c /\ r.op = c.op /\ r.value = c.value /\ r.from = c.from /\ r.stage = "read"
  BY DEF KeptInv, ChangeTypes
<1>2. c.stage = "asked" /\ changes' = (changes \ {c}) \cup {r}
      /\ UNCHANGED <<kept, object, busy, wanted, behind>>
  BY DEF ListServed
<1> HIDE DEF r
<1>3. ChangeTypes'
  BY <1>1, <1>2 DEF KeptInv, ChangeTypes
<1>4. BusyInv => BusyInv'
  BY <1>1, <1>2 DEF BusyInv, Holds
<1>5. WantedInv => WantedInv'
  BY <1>1, <1>2 DEF WantedInv
<1>6. ShownAppearance => ShownAppearance'
  BY <1>1, <1>2 DEF ShownAppearance
<1> QED BY <1>2, <1>3, <1>4, <1>5, <1>6 DEF KeptInv

(* A change leaves after the list it is followed by, freeing its form.     *)
LEMMA LeavesInv ==
    ASSUME KeptInv, NEW c \in changes, c.stage # "sent", changes' = changes \ {c}, busy' = Freed(c),
           UNCHANGED <<kept, wanted>>,
           ~behind' => ~behind /\ (object' = kept \/ (c.op = "tick" /\ object' = object))
    PROVE  KeptInv'
<1>1. ChangeTypes'
  BY DEF KeptInv, ChangeTypes
<1> SUFFICES ASSUME ~behind', kept # Gone
             PROVE  BusyInv' /\ WantedInv' /\ ShownAppearance'
  BY <1>1 DEF KeptInv
<1>2. BusyInv /\ WantedInv /\ ShownAppearance
  BY DEF KeptInv
<1>3. BusyInv'
  <2>1. \A d \in changes : Holds(d) /\ d # c => d.op \in busy'
    BY <1>2 DEF Freed, BusyInv, Holds
  <2> QED BY <1>2, <2>1 DEF BusyInv, Holds
<1>4. WantedInv'
  BY <1>2 DEF WantedInv
<1>5. ShownAppearance'
  BY <1>2 DEF ShownAppearance
<1> QED BY <1>3, <1>4, <1>5

LEMMA ListLoadedInv ==
    ASSUME KeptInv, NEW c \in changes, ListLoaded(c)
    PROVE  KeptInv'
<1>1. /\ c.stage = "read" /\ UNCHANGED <<kept, wanted>>
      /\ ~behind' => ~behind /\ c.got = kept /\ object' = kept
  BY DEF ListLoaded
<1>2. CASE c.got = Gone \/ c.op = "delete"
  <2>1. ChangeTypes'
    BY <1>1, <1>2, AllGone DEF ListLoaded, CloseDetail, KeptInv
  <2>2. behind' \/ kept = Gone
    BY <1>1, <1>2 DEF KeptInv, ChangeTypes
  <2> QED BY <1>1, <2>1, <2>2 DEF KeptInv
<1>3. CASE ~(c.got = Gone \/ c.op = "delete")
  BY <1>1, <1>3, LeavesInv DEF ListLoaded
<1> QED BY <1>2, <1>3

LEMMA ListFailsInv ==
    ASSUME KeptInv, NEW c \in changes, ListFails(c)
    PROVE  KeptInv'
BY LeavesInv DEF ListFails

LEMMA KeptInvStep == KeptInv /\ [FormsNext]_formVars => KeptInv'
<1> SUFFICES ASSUME KeptInv, [FormsNext]_formVars
             PROVE  KeptInv'
  OBVIOUS
<1>1. CASE OpenDetail
  BY <1>1 DEF OpenDetail, KeptInv, ChangeTypes, BusyInv, WantedInv, ShownAppearance
<1>2. CASE Back
  BY <1>2, BackInv
<1>3. ASSUME NEW form \in Forms, ToggleForm(form)
      PROVE  KeptInv'
  BY <1>3, ToggleInv
<1>4. ASSUME NEW name, TypeName(name)
      PROVE  KeptInv'
  BY <1>4 DEF TypeName, KeptInv, ChangeTypes, BusyInv, WantedInv, ShownAppearance
<1>5. CASE Rename
  BY <1>5, SendInv DEF Rename, Submit, FieldsOf, Fields
<1>6. ASSUME NEW icon, Pick([icon |-> icon])
      PROVE  KeptInv'
  BY <1>6, SendInv DEF Pick, Submit, FieldsOf, Fields, Over, KeptInv, BusyInv, Holds, WantedInv, ShownAppearance
<1>7. ASSUME NEW color, Pick([color |-> color])
      PROVE  KeptInv'
  BY <1>7, SendInv DEF Pick, Submit, FieldsOf, Fields, Over, KeptInv, BusyInv, Holds, WantedInv, ShownAppearance
<1>8. CASE SaveKey
  BY <1>8, SendInv DEF SaveKey, Submit, FieldsOf, Fields
<1>9. CASE HandleAwayAlertToggle
  BY <1>9, SendInv DEF HandleAwayAlertToggle, FieldsOf, Fields
<1>10. CASE HandleRemove
  BY <1>10, SendInv DEF HandleRemove, FieldsOf, Fields
<1>11. CASE HandleDelete
  BY <1>11, SendInv DEF HandleDelete, FieldsOf, Fields
<1>12. CASE Tick
  BY <1>12 DEF Tick, KeptInv, ChangeTypes, FieldsOf, BusyInv, Holds, WantedInv, ShownAppearance
<1>18. CASE UNCHANGED formVars
  BY <1>18 DEF formVars, KeptInv, ChangeTypes, BusyInv, WantedInv, ShownAppearance
<1>13. ASSUME NEW c \in changes, Served(c)
       PROVE  KeptInv'
  BY <1>13, ChangeServedInv
<1>14. ASSUME NEW c \in changes, Refused(c)
       PROVE  KeptInv'
  BY <1>14, RefusedInv
<1>15. ASSUME NEW c \in changes, ListServed(c)
       PROVE  KeptInv'
  BY <1>15, ListServedInv
<1>16. ASSUME NEW c \in changes, ListLoaded(c)
       PROVE  KeptInv'
  BY <1>16, ListLoadedInv
<1>17. ASSUME NEW c \in changes, ListFails(c)
       PROVE  KeptInv'
  BY <1>17, ListFailsInv
<1> QED BY <1>1, <1>2, <1>3, <1>4, <1>5, <1>6, <1>7, <1>8, <1>9, <1>10, <1>11, <1>12, <1>13,
           <1>14, <1>15, <1>16, <1>17, <1>18 DEF FormsNext

(* For any icons, colours and names and any number of changes: what the    *)
(* user has asked for last is what is stored once the requests are served, *)
(* unless the page is behind (AirtagDetail.tsx:186-194, 342-351, 379-389). *)
THEOREM TheLastWishIsKept == FormsSpec => []ChangesAreKept
<1>1. FormsInit => KeptInv
  BY ObjectAssumption DEF FormsInit, Objects, Fields, KeptInv, ChangeTypes, BusyInv, WantedInv, ShownAppearance
<1>2. KeptInv => ChangesAreKept
  BY DEF KeptInv, WantedInv, Fields, ChangesAreKept
<1> QED BY <1>1, <1>2, KeptInvStep, PTL DEF FormsSpec
-----------------------------------------------------------------------------
PanelTypes ==
    /\ panelStep \in {"credentials", "select-method", "code"}
    /\ \A q \in requests :
         /\ DOMAIN q = {"n", "op", "stage"}
         /\ q.op \in {"status", "login", "select", "submit", "import", "disconnect"}
         /\ q.stage = "sent" \/ ~Current(q) \/ (q.op # "select" /\ Shows(q))
         /\ q.op = "status" => Shows(q)

OneRequest ==
    \A p, q \in requests :
       Current(p) /\ Current(q) /\ (p.op = "status") = (q.op = "status") => p = q

(* The step is one the request under way was made at, or the first.        *)
StepOfRequest ==
    \A q \in {p \in requests : Current(p)} :
       /\ q.op \in {"login", "import"} => panelStep = "credentials"
       /\ q.op = "select" => panelStep # "code"
       /\ q.op = "submit" => panelStep # "select-method"

(* Until something disturbs it, the panel shows what the server has or     *)
(* knows of a status that is due, its step is one the wizard of the server *)
(* has reached, and it waits for a request.                                *)
FollowsInv ==
    ~disturbed =>
       /\ OneRequest /\ StepOfRequest
       /\ shown = Seen \/ \E q \in requests : Shows(q)
       /\ waiting => \E q \in requests : Current(q) /\ q.op \notin {"status", "disconnect"}
       /\ panelStep = "select-method" => waitsFor # "none"
       /\ panelStep = "code" => waitsFor = "code" \/ \E q \in requests : q.op = "submit" /\ Shows(q)

(* A request goes on as another, of the server or of the status.           *)
LEMMA GoesOn ==
    ASSUME PanelTypes, NEW q \in requests, NEW op, NEW stage, To(q, op, stage)
    PROVE  \E r : /\ requests' = (requests \ {q}) \cup {r}
                  /\ DOMAIN r = {"n", "op", "stage"} /\ r.op = op /\ r.stage = stage
<1> DEFINE r == [q EXCEPT !.op = op, !.stage = stage]
<1>1. DOMAIN r = {"n", "op", "stage"} /\ r.op = op /\ r.stage = stage
  BY DEF PanelTypes
<1>2. requests' = (requests \ {q}) \cup {r}
  BY DEF To
<1> HIDE DEF r
<1> QED BY <1>1, <1>2

LEMMA FollowsInvStep == PanelTypes /\ FollowsInv /\ [PanelNext]_panelVars => PanelTypes' /\ FollowsInv'
<1> SUFFICES ASSUME PanelTypes, FollowsInv, [PanelNext]_panelVars
             PROVE  PanelTypes' /\ FollowsInv'
  OBVIOUS
<1> USE DEF Current, Shows
<1>1. CASE Remount
  <2> DEFINE pending == {p \in requests : p.stage = "sent"}
             gone == {[q EXCEPT !.stage = "left"] : q \in pending}
  <2>1. \A r \in gone : \E q \in pending : DOMAIN r = DOMAIN q /\ r.op = q.op /\ r.stage = "left"
    BY DEF PanelTypes
  <2>2. requests' = {Status} \cup {q \in requests : ~Current(q)} \cup gone
    BY <1>1 DEF Remount
  <2> HIDE DEF gone
  <2>3. \A r \in gone : /\ DOMAIN r = {"n", "op", "stage"} /\ r.stage = "left"
                        /\ r.op \in {"login", "select", "submit", "import", "disconnect"}
    BY <2>1 DEF PanelTypes
  <2>4. /\ DOMAIN Status = {"n", "op", "stage"} /\ Status.op = "status" /\ Status.stage = "asked"
        /\ \A r \in requests' : Current(r) => r = Status
    BY <2>2, <2>3 DEF Status
  <2>5. PanelTypes'
    BY <1>1, <2>2, <2>3, <2>4 DEF Remount, PanelTypes
  <2>6. Status \in requests'
    BY <2>2
  <2> HIDE DEF Status
  <2> QED BY <1>1, <2>4, <2>5, <2>6 DEF Remount, FollowsInv, OneRequest, StepOfRequest
<1>2. CASE ToggleRow
  BY <1>2 DEF ToggleRow, PanelTypes, FollowsInv, OneRequest, StepOfRequest, Shows, Seen
<1>3. CASE ServerRestarts
  BY <1>3 DEF ServerRestarts, panel, PanelTypes, FollowsInv, Shows
<1>4. ASSUME NEW op \in {"login", "select", "submit", "import", "disconnect"}, Ask(op),
             op \in {"login", "import"} => panelStep = "credentials",
             op = "select" => panelStep = "select-method",
             op = "submit" => panelStep = "code",
             IF op = "disconnect" THEN UNCHANGED waiting ELSE waiting' = TRUE
      PROVE  PanelTypes' /\ FollowsInv'
  <2>1. PICK r : /\ requests' = requests \cup {r} /\ DOMAIN r = {"n", "op", "stage"}
                 /\ r.op = op /\ r.stage = "sent"
    <3> DEFINE new == [n |-> requested + 1, op |-> op, stage |-> "sent"]
    <3>1. DOMAIN new = {"n", "op", "stage"} /\ new.op = op /\ new.stage = "sent"
      OBVIOUS
    <3>2. requests' = requests \cup {new}
      BY <1>4 DEF Ask
    <3> HIDE DEF new
    <3> QED BY <3>1, <3>2
  <2>2. UNCHANGED <<hasAccount, waitsFor, shown, panelStep>>
    BY <1>4 DEF Ask
  <2>3. PanelTypes'
    BY <1>4, <2>1, <2>2 DEF PanelTypes, Shows
  <2>4. ~disturbed' => ~disturbed /\ \A q \in requests : Current(q) => q.op = "status"
    BY <1>4 DEF Ask
  <2>5. ~disturbed' => OneRequest' /\ StepOfRequest'
    BY <1>4, <2>1, <2>2, <2>4 DEF FollowsInv, OneRequest, StepOfRequest
  <2> QED BY <1>4, <2>1, <2>2, <2>3, <2>4, <2>5 DEF FollowsInv, Shows, Seen
<1>5. CASE HandleLogin \/ HandleSubmitCode \/ HandleImportSession \/ HandleSelectMethod
           \/ HandleDisconnect
  <2>1. CASE HandleLogin
    BY <1>4, <2>1 DEF HandleLogin, At
  <2>2. CASE HandleSubmitCode
    BY <1>4, <2>2 DEF HandleSubmitCode, At
  <2>3. CASE HandleImportSession
    BY <1>4, <2>3 DEF HandleImportSession, At
  <2>4. CASE HandleSelectMethod
    BY <1>4, <2>4 DEF HandleSelectMethod, At
  <2>5. CASE HandleDisconnect
    BY <1>4, <2>5 DEF HandleDisconnect
  <2> QED BY <1>5, <2>1, <2>2, <2>3, <2>4, <2>5
<1>6. ASSUME NEW q \in requests, LoginServed(q)
      PROVE  PanelTypes' /\ FollowsInv'
  <2> USE <1>6 DEF LoginServed, PanelTypes, FollowsInv, OneRequest, StepOfRequest, Shows, Seen
  <2>1. CASE To(q, "login", "asked") /\ UNCHANGED <<waitsFor, panelStep, waiting>>
    BY <2>1, GoesOn
  <2>2. CASE To(q, "select", "sent") /\ waitsFor' = "method" /\ UNCHANGED <<hasAccount, panelStep, waiting>>
    BY <2>2, GoesOn
  <2>3. CASE /\ requests' = requests \ {q} /\ waiting' = FALSE /\ UNCHANGED hasAccount
             /\ \/ panelStep' = "select-method" /\ waitsFor' = "method"
                \/ panelStep' = "code" /\ waitsFor' = "code"
    BY <2>3
  <2> QED BY <2>1, <2>2, <2>3
<1>7. ASSUME NEW q \in requests, SelectServed(q)
      PROVE  PanelTypes' /\ FollowsInv'
  BY <1>7 DEF SelectServed, PanelTypes, FollowsInv, OneRequest, StepOfRequest, Shows, Seen
<1>8. ASSUME NEW q \in requests, ChangeServed(q)
      PROVE  PanelTypes' /\ FollowsInv'
  <2>1. PICK r : /\ requests' = (requests \ {q}) \cup {r} /\ DOMAIN r = {"n", "op", "stage"}
                 /\ r.op = q.op /\ r.stage = "asked"
    BY <1>8, GoesOn DEF ChangeServed
  <2> QED BY <1>8, <2>1 DEF ChangeServed, panel, PanelTypes, FollowsInv, OneRequest, StepOfRequest, Shows
<1>9. ASSUME NEW q \in requests, RequestFails(q)
      PROVE  PanelTypes' /\ FollowsInv'
  <2>1. PanelTypes' /\ ~Shows(q)
    BY <1>9 DEF RequestFails, PanelTypes, Shows
  <2> SUFFICES ASSUME ~disturbed' PROVE FollowsInv'
    BY <2>1 DEF FollowsInv
  <2>2. /\ OneRequest' /\ StepOfRequest'
        /\ \A p \in requests : Shows(p) => p \in requests'
        /\ UNCHANGED <<Seen, shown, panelStep, waitsFor>>
    BY <1>9, <2>1 DEF RequestFails, FollowsInv, OneRequest, StepOfRequest, Seen
  <2>3. ~waiting'
    BY <1>9, <2>1 DEF RequestFails, FollowsInv, OneRequest, Shows, PanelTypes
  <2> QED BY <1>9, <2>2, <2>3 DEF RequestFails, FollowsInv, Shows
<1>10. ASSUME NEW q \in requests, StatusFails(q)
       PROVE  PanelTypes' /\ FollowsInv'
  BY <1>10 DEF StatusFails, PanelTypes, FollowsInv
<1>14. ASSUME NEW q \in requests, TimesOut(q)
       PROVE  PanelTypes' /\ FollowsInv'
  <2>1. PICK r : /\ requests' = (requests \ {q}) \cup {r} /\ DOMAIN r = {"n", "op", "stage"}
                 /\ r.op = q.op /\ r.stage = "late"
    BY <1>14, GoesOn DEF TimesOut
  <2>2. PanelTypes' /\ ~Shows(q) /\ q.op # "status"
    BY <1>14, <2>1 DEF TimesOut, PanelTypes
  <2>3. \A p \in requests' : Current(p) => p \in requests
    BY <2>1
  <2>4. ~disturbed => ~waiting'
    BY <1>14, <2>2 DEF TimesOut, FollowsInv, OneRequest
  <2>5. \A p \in requests : Shows(p) => p \in requests'
    BY <2>1, <2>2
  <2>6. UNCHANGED <<Seen, shown, panelStep, waitsFor, disturbed>>
    BY <1>14 DEF TimesOut, Seen
  <2> QED BY <2>2, <2>3, <2>4, <2>5, <2>6 DEF FollowsInv, OneRequest, StepOfRequest
<1>15. ASSUME NEW q \in requests, LeftServed(q)
       PROVE  PanelTypes' /\ FollowsInv'
  <2>1. \/ requests' = requests \ {q}
        \/ \E r : /\ requests' = (requests \ {q}) \cup {r} /\ DOMAIN r = {"n", "op", "stage"}
                 /\ r.op = "select" /\ r.stage = "left"
    BY <1>15, GoesOn DEF LeftServed
  <2>2. ~Current(q) /\ UNCHANGED <<shown, panelStep, waiting>>
    BY <1>15 DEF LeftServed, panel
  <2>3. PanelTypes'
    BY <2>1, <2>2 DEF PanelTypes
  <2>4. /\ \A p \in requests' : Current(p) => p \in requests
        /\ \A p \in requests : Current(p) => p \in requests'
    BY <2>1, <2>2
  <2>5. ~disturbed' => /\ ~disturbed
                       /\ hasAccount' = hasAccount \/ \E p \in requests : Shows(p)
                       /\ waitsFor' = waitsFor \/ panelStep = "credentials"
    BY <1>15 DEF LeftServed
  <2> QED BY <2>2, <2>3, <2>4, <2>5 DEF FollowsInv, OneRequest, StepOfRequest, Seen
<1>11. ASSUME NEW q \in requests, StatusServed(q)
      PROVE  PanelTypes' /\ FollowsInv'
  <2>1. PICK r : /\ requests' = (requests \ {q}) \cup {r} /\ DOMAIN r = {"n", "op", "stage"}
                 /\ r.op = q.op /\ r.stage = Seen
    BY <1>11, GoesOn DEF StatusServed
  <2> QED BY <1>11, <2>1 DEF StatusServed, panel, PanelTypes, FollowsInv, OneRequest, StepOfRequest,
                             Shows, Seen
<1>12. ASSUME NEW q \in requests, StatusShown(q)
      PROVE  PanelTypes' /\ FollowsInv'
  <2>1. PanelTypes' /\ Shows(q)
    BY <1>12 DEF StatusShown, PanelTypes, Shows
  <2> SUFFICES ASSUME ~disturbed' PROVE FollowsInv'
    BY <2>1 DEF FollowsInv
  <2>2. OneRequest' /\ shown' = Seen' /\ UNCHANGED waitsFor
    BY <1>12 DEF StatusShown, FollowsInv, OneRequest, Seen
  <2>3. CASE q.op \in {"login", "submit", "import"}
    BY <1>12, <2>2, <2>3 DEF StatusShown, FollowsInv, OneRequest, StepOfRequest
  <2>4. CASE q.op \notin {"login", "submit", "import"}
    <3>1. UNCHANGED <<panelStep, waiting>> /\ requests' = requests \ {q}
      BY <1>12, <2>4 DEF StatusShown
    <3>2. ~disturbed
      BY <1>12 DEF StatusShown
    <3>3. StepOfRequest'
      BY <3>1, <3>2 DEF FollowsInv, StepOfRequest
    <3>4. waiting' => \E p \in requests' : Current(p) /\ p.op \notin {"status", "disconnect"}
      <4>1. q.op \in {"status", "disconnect"}
        BY <1>12, <2>4 DEF StatusShown, PanelTypes
      <4> QED BY <3>1, <3>2, <4>1 DEF FollowsInv
    <3>5. panelStep' = "code" =>
            waitsFor' = "code" \/ \E p \in requests' : p.op = "submit" /\ Shows(p)
      BY <2>2, <2>4, <3>1, <3>2 DEF FollowsInv
    <3> QED BY <2>2, <3>1, <3>2, <3>3, <3>4, <3>5 DEF FollowsInv, Shows
  <2> QED BY <2>3, <2>4
<1>13. CASE UNCHANGED panelVars
  BY <1>13 DEF panelVars, panel, PanelTypes, FollowsInv, OneRequest, StepOfRequest, Shows, Seen
<1> QED BY <1>1, <1>2, <1>3, <1>5, <1>6, <1>7, <1>8, <1>9, <1>10, <1>11, <1>12, <1>13, <1>14, <1>15 DEF PanelNext

(* For any number of requests, given up or not: with nothing under way     *)
(* that it waits for, the panel agrees with the server and with the wizard *)
(* there, unless it has been disturbed since the page was opened: two      *)
(* requests at once, a lost or stale status, a restart in the middle of a  *)
(* login, a request given up that is served with no status due or the      *)
(* wizard open (AppleConnectPanel.tsx:72-196, 217-224).                    *)
THEOREM ThePanelFollows == PanelSpec => []PanelFollowsServer
<1>1. PanelInit => PanelTypes /\ FollowsInv
  BY DEF PanelInit, Status, PanelTypes, FollowsInv, OneRequest, StepOfRequest, Shows, Current
<1>2. FollowsInv => PanelFollowsServer
  BY DEF FollowsInv, PanelFollowsServer, At, Shows, Current
<1> QED BY <1>1, <1>2, FollowsInvStep, PTL DEF PanelSpec
-----------------------------------------------------------------------------
(* Unless a login has overtaken it, a call in flight is about the account  *)
(* that waits in the wizard's variables, or none waits any more.           *)
CallsMatchTheWizard ==
    ~overtaken =>
       /\ \A r \in Requests : step[r] \in {"select", "submit"} =>
             pendingAccount \in {target[r], None}
       /\ chosenMethod # None => pendingAccount \in {chosenMethod, None}

Functions == DOMAIN step = Requests /\ DOMAIN target = Requests

WizardInv ==
    /\ Functions
    /\ pendingMethods = pendingAccount
    /\ SavedSessionsAreLoggedIn
    /\ CallsMatchTheWizard

LEMMA RequestInv ==
    ASSUME WizardInv, NEW r \in Requests, Request(r)
    PROVE  WizardInv'
<1> USE DEF WizardInv, Functions, SavedSessionsAreLoggedIn, CallsMatchTheWizard, Call, Return,
            Persist, wizard, calls, polls, ghosts
<1>1. CASE StartLogin(r)
  BY <1>1 DEF StartLogin
<1>2. CASE LoginCompletes(r)
  BY <1>2 DEF LoginCompletes
<1>3. CASE LoginNeedsCode(r)
  BY <1>3 DEF LoginNeedsCode
<1>4. CASE RequestCode(r)
  BY <1>4 DEF RequestCode
<1>5. CASE CodeRequested(r)
  BY <1>5 DEF CodeRequested
<1>6. CASE SubmitCode(r)
  BY <1>6 DEF SubmitCode
<1>7. CASE CodeAccepted(r)
  BY <1>7 DEF CodeAccepted
<1>8. CASE CallFails(r)
  BY <1>8 DEF CallFails
<1>9. CASE ImportSession(r)
  BY <1>9 DEF ImportSession
<1>10. CASE Disconnect(r)
  BY <1>10 DEF Disconnect
<1> QED BY <1>1, <1>2, <1>3, <1>4, <1>5, <1>6, <1>7, <1>8, <1>9, <1>10 DEF Request

LEMMA WizardInvStep == WizardInv /\ [Next]_vars => WizardInv'
<1> SUFFICES ASSUME WizardInv, [Next]_vars
             PROVE  WizardInv'
  OBVIOUS
<1>1. ASSUME NEW r \in Requests, Request(r)
      PROVE  WizardInv'
  BY <1>1, RequestInv
<1>2. CASE PollStarts \/ PollRestores \/ PollSaves \/ PollEnds
  BY <1>2 DEF WizardInv, Functions, SavedSessionsAreLoggedIn, CallsMatchTheWizard,
              PollStarts, PollRestores, PollSaves, PollEnds, wizard, calls, polls, ghosts
<1>3. CASE Restart
  BY <1>3 DEF WizardInv, Functions, SavedSessionsAreLoggedIn, CallsMatchTheWizard, Restart, ghosts
<1>4. CASE UNCHANGED vars
  BY <1>4 DEF WizardInv, Functions, SavedSessionsAreLoggedIn, CallsMatchTheWizard,
              vars, wizard, calls, polls, ghosts
<1> QED BY <1>1, <1>2, <1>3, <1>4 DEF Next

(* For any number of attempts and of requests that overlap: the file holds *)
(* no account of the wizard that has not completed its login, unless a     *)
(* login has replaced the account of the wizard while a method was being   *)
(* selected or a code submitted (auth.py:70-114).                          *)
THEOREM SessionsAreLoggedIn == Spec => []SavedSessionsAreLoggedIn
<1>1. Init => WizardInv
  BY DEF Init, WizardInv, Functions, SavedSessionsAreLoggedIn, CallsMatchTheWizard
<1>2. WizardInv => SavedSessionsAreLoggedIn
  BY DEF WizardInv
<1> QED BY <1>1, <1>2, WizardInvStep, PTL DEF Spec
=============================================================================
