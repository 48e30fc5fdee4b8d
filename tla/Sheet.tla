-------------------------------- MODULE Sheet --------------------------------
(***************************************************************************)
(* The bottom sheet of the phone layout and its grab handle (App.tsx): a   *)
(* drag or a tap on the handle moves the sheet one level, picking an entry *)
(* of a history minimizes it, and the place editor asks for all of it.     *)
(*                                                                         *)
(* A browser sends a click after most pointerups, and a click alone for a  *)
(* key press: the handle has a handler for each, and dragHandledClick      *)
(* tells them apart.  A distance is one of the four classes the thresholds *)
(* CLICK_THRESHOLD_PX and SNAP_THRESHOLD_PX make of it.                    *)
(***************************************************************************)
EXTENDS Integers

VARIABLES
    sheetState,         \* sheetState
    dragStartState,     \* dragStartState.current
    dragHandledClick,   \* dragHandledClick.current
    gesture             \* the pointer on the handle; "released": a click is due

sheetVars == <<sheetState, dragStartState, dragHandledClick, gesture>>

SheetStates == {"minimized", "default", "expanded"}
Drags == {"tap", "up", "down", "short"}

(* The levels in their order, for "one level".                             *)
Level(state) ==
    CASE state = "minimized" -> 0 [] state = "default" -> 1 [] state = "expanded" -> 2

ResolveNextSheetState(start, drag) ==
    CASE drag = "tap"   -> IF start = "default" THEN "expanded" ELSE "default"
      [] drag = "up"    -> IF start = "minimized" THEN "default" ELSE "expanded"
      [] drag = "down"  -> IF start = "expanded" THEN "default" ELSE "minimized"
      [] drag = "short" -> start

SheetInit ==
    /\ sheetState = "default" /\ dragStartState = "default"
    /\ dragHandledClick = FALSE
    /\ gesture = "none"

HandlePointerDown ==
    /\ gesture \in {"none", "released"}
    /\ gesture' = "pressed"
    /\ dragStartState' = sheetState
    /\ UNCHANGED <<sheetState, dragHandledClick>>

HandlePointerUp(drag) ==
    /\ gesture = "pressed"
    /\ gesture' = "released"
    /\ dragHandledClick' = TRUE
    /\ sheetState' = ResolveNextSheetState(dragStartState, drag)
    /\ UNCHANGED dragStartState

HandlePointerCancel ==
    /\ gesture = "pressed"
    /\ gesture' = "none"
    /\ UNCHANGED <<sheetState, dragStartState, dragHandledClick>>

(* A mutant: every click toggles.                                          *)
ClickToggles ==
    /\ gesture \in {"none", "released"}
    /\ gesture' = "none"
    /\ sheetState' = IF sheetState = "default" THEN "expanded" ELSE "default"
    /\ UNCHANGED <<dragStartState, dragHandledClick>>

(* The click after a pointerup, or one by key press.                       *)
HandleHandleClick ==
    /\ gesture \in {"none", "released"}
    /\ gesture' = "none"
    /\ dragHandledClick' = FALSE
    /\ sheetState' = CASE dragHandledClick -> sheetState
                       [] sheetState = "default" /\ ~dragHandledClick -> "expanded"
                       [] OTHER -> "default"
    /\ UNCHANGED dragStartState

(* The browser sends no click after a long drag by touch.                  *)
NoClick ==
    /\ gesture = "released"
    /\ gesture' = "none"
    /\ UNCHANGED <<sheetState, dragStartState, dragHandledClick>>

(* setSheetState('minimized') by handleSelectReport, handleSelectVisit and *)
(* handleSelectDeviceLocation; setSheetState('expanded') by                *)
(* onRequestExpand of the settings.                                        *)
SetSheetState(state) ==
    /\ gesture = "none"
    /\ sheetState' = state
    /\ UNCHANGED <<dragStartState, dragHandledClick, gesture>>

SheetNext ==
    \/ HandlePointerDown
    \/ \E drag \in Drags : HandlePointerUp(drag)
    \/ HandlePointerCancel
    \/ HandleHandleClick
    \/ NoClick
    \/ \E state \in {"minimized", "expanded"} : SetSheetState(state)

SheetSpec == SheetInit /\ [][SheetNext]_sheetVars
-----------------------------------------------------------------------------
(* One gesture on the handle moves the sheet by one level at most, whether *)
(* or not the browser adds a click to it (App.tsx:52-55, 655-664): the     *)
(* pointerup and the click never both move it.                             *)
GestureMovesOneLevel ==
    [][gesture # "none" =>
         LET moved == Level(sheetState') - Level(dragStartState')
         IN gesture' # "pressed" => moved \in -1 .. 1]_sheetVars
=============================================================================
