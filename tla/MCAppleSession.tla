--------------------------- MODULE MCAppleSession ---------------------------
(* One browser tab, or two.                                                *)
EXTENDS AppleSession

CONSTANTS tab1, tab2
=============================================================================
