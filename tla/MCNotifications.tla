------------------------- MODULE MCNotifications -------------------------
(***************************************************************************)
(* Notifications on a small instance.                                      *)
(***************************************************************************)
EXTENDS Notifications

CONSTANTS u1, a, b

=============================================================================
