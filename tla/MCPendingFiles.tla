---------------------------- MODULE MCPendingFiles ----------------------------
(* A small instance of PendingFiles: deliveries are alike, and so are the     *)
(* requests.                                                                  *)
EXTENDS PendingFiles, TLC

Symmetry == Permutations(Delivery) \cup Permutations(Request)
================================================================================
