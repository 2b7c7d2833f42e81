--------------------------- MODULE MCAwardRecReview ---------------------------
(* Three users: a reviewer meets approvals of two others, and the same one  *)
(* may act at every stage.                                                  *)
EXTENDS AwardRecReview

CONSTANTS u1, u2, u3

MCUsers == {u1, u2, u3}
=============================================================================
