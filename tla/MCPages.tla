-------------------------------- MODULE MCPages --------------------------------
(***************************************************************************)
(* The parts of the dashboard that share no state, and the Apple session   *)
(* and the AirTags behind two of them, each explored by itself in one run: *)
(* subject says which.  The variables of the others keep their first       *)
(* values.                                                                 *)
(***************************************************************************)
EXTENDS SettingsForm, PlaceEditor, PushSubscription, TrailMap, ObjectForms, ConnectPanel,
        AppleSession, AirtagRegistry

VARIABLE subject

allVars == <<settingsVars, placeVars, pushVars, mapVars, formVars, panelVars, vars, registryVars>>
-----------------------------------------------------------------------------
MCSettings == [threshold |-> 1, palette |-> "p"]
MCObject == [icon |-> "i", color |-> "c", name |-> "n", alert |-> FALSE, key |-> TRUE]
MCTrails == {<<>>, <<"p">>, <<"p", "q">>, <<"q">>}

(* The second AirTag named "bike" has the id a first one named "bike 2" has. *)
MCNumbered == [s \in {"bike", "bike-2"} \X (2..4) |->
                  CASE s = <<"bike", 2>> -> "bike-2"
                    [] s = <<"bike", 3>> -> "bike-3"
                    [] s = <<"bike", 4>> -> "bike-4"
                    [] s = <<"bike-2", 2>> -> "bike-2-2"
                    [] s = <<"bike-2", 3>> -> "bike-2-3"
                    [] OTHER -> "bike-2-4"]
-----------------------------------------------------------------------------
PagesInit ==
    /\ subject \in {"settings", "places", "push", "map", "forms", "panel", "session",
                   "registry"}
    /\ SettingsInit /\ PlacesInit /\ PushInit /\ MapInit /\ FormsInit /\ PanelInit /\ Init
    /\ RegistryInit
    /\ subject # "places" => \A id \in Ids : savedPlaces[id] = NoPosition
    /\ subject # "panel" => adapter = "owner"

PagesNext ==
    /\ \/ /\ subject = "settings" /\ SettingsNext
          /\ UNCHANGED <<placeVars, pushVars, mapVars, formVars, panelVars, vars, registryVars>>
       \/ /\ subject = "places" /\ PlacesNext
          /\ UNCHANGED <<settingsVars, pushVars, mapVars, formVars, panelVars, vars, registryVars>>
       \/ /\ subject = "push" /\ PushNext
          /\ UNCHANGED <<settingsVars, placeVars, mapVars, formVars, panelVars, vars, registryVars>>
       \/ /\ subject = "map" /\ MapNext
          /\ UNCHANGED <<settingsVars, placeVars, pushVars, formVars, panelVars, vars, registryVars>>
       \/ /\ subject = "forms" /\ FormsNext
          /\ UNCHANGED <<settingsVars, placeVars, pushVars, mapVars, panelVars, vars, registryVars>>
       \/ /\ subject = "panel" /\ PanelNext
          /\ UNCHANGED <<settingsVars, placeVars, pushVars, mapVars, formVars, vars, registryVars>>
       \/ /\ subject = "session" /\ Next
          /\ UNCHANGED <<settingsVars, placeVars, pushVars, mapVars, formVars, panelVars, registryVars>>
       \/ /\ subject = "registry" /\ RegistryNext
          /\ UNCHANGED <<settingsVars, placeVars, pushVars, mapVars, formVars, panelVars, vars>>
    /\ UNCHANGED subject

PagesSpec == PagesInit /\ [][PagesNext]_<<allVars, subject>>
=============================================================================
