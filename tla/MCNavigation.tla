---------------------------- MODULE MCNavigation ----------------------------
(* Two AirTags and a device of the owner.                                  *)
EXTENDS Navigation

CONSTANTS a, b, c
=============================================================================
