-------------------------- MODULE MCWorkflowService --------------------------
(* Values for TLC.  Two events are enough for every race of two             *)
(* transactions, two managers for a message handled twice at once.          *)
EXTENDS WorkflowService, TLC

CONSTANTS e1, e2, u1, u2, m1, m2, w0

TwoEvents == {e1, e2}
OneUser   == {u1}
OneManager  == {m1}
TwoManagers == {m1, m2}

\* Nothing tells one event id or one manager from another; no CHOOSE.
Symmetry == Permutations(EventId) \cup Permutations(Managers)

\* Near the end of a review, where an approval, a request for modification and
\* the final state meet, and where no workflow exists yet.
LastStage == {"pending_executive_approval"}
NotStarted == {"start"}
Edges     == LastStage \cup NotStarted

LastNames  == {"executive_approval", "start_revision"}
StartNames == {"start_workflow", "pqc_approval"}
EdgeNames  == LastNames \cup StartNames
=============================================================================
