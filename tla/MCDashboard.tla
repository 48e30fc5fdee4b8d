---------------------------- MODULE MCDashboard ----------------------------
(* Two AirTags; one refresh at a time, or two.                             *)
EXTENDS Dashboard

CONSTANTS a, b, r1, r2

OneAirtag == <<a>>
TwoAirtags == <<a, b>>
=============================================================================
