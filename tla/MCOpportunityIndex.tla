-------------------------- MODULE MCOpportunityIndex --------------------------
(***************************************************************************)
(* Constants of the model-checked instances of OpportunityIndex.           *)
(***************************************************************************)
EXTENDS OpportunityIndex, TLC

Early == [post |-> 1, close |-> 1, archive |-> 0]
Late == [post |-> 2, close |-> 0, archive |-> 0]

EarlyOrLate == {Early, Late}
OnlyLate == {Late}

\* A second publish request may be accepted while one waits.
TwoRequests == {"two_requests"}

\* Nothing names or orders a run of the command.
Symmetry == Permutations(Commands)
===============================================================================
