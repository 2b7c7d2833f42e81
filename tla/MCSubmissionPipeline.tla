------------------------- MODULE MCSubmissionPipeline -------------------------
(***************************************************************************)
(* Constants of the model-checked instances of SubmissionPipeline.         *)
(***************************************************************************)
EXTENDS SubmissionPipeline, TLC

\* Nothing names or orders a request, a consumer or a task run.
Symmetry ==
  Permutations(SubmitId) \cup Permutations(EditId)
    \cup Permutations(Consumers) \cup Permutations(Tasks)
=============================================================================
