--------------------------- MODULE MCOwnerDevices ---------------------------
(* A device of the account's own, and one of a Family Sharing member.      *)
EXTENDS OwnerDevices

CONSTANTS own, shared, poller, request
=============================================================================
