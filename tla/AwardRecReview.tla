---------------------------- MODULE AwardRecReview ----------------------------
(***************************************************************************)
(* What the workflow service promises for one award recommendation: its    *)
(* review, one event at a time, each event handled by a transaction that   *)
(* sees every earlier one.  This is the abstract specification;            *)
(* WorkflowService is the detailed one (queue, threads, transactions).     *)
(*                                                                         *)
(* An event that is refused (wrong state, inactive workflow, duplicate      *)
(* approval) changes nothing here: it is a stuttering step.                *)
(***************************************************************************)
EXTENDS ReviewMachine

CONSTANT Users   \* the users that hold the review privileges

VARIABLES
  state,      \* Workflow.current_workflow_state
  is_active,  \* Workflow.is_active
  status,     \* AwardRecommendation.award_recommendation_status
  approvals   \* the WorkflowApproval rows with is_still_valid, as
              \* [user, type]; every such row's response is "approved"

vars == <<state, is_active, status, approvals>>

Approval == [user : Users, type : ApprovalEvent]

\* No workflow row yet: the transaction that inserts it, in "start", is the
\* one that handles start_workflow.
Init ==
  /\ state = "start"
  /\ is_active = TRUE
  /\ status = "draft"
  /\ approvals = {}

\* Mutants: a request for modification invalidates nothing; every event leaves
\* an approval.
RecordKeepsApprovals(ev) ==
  IF ev.name \in ApprovalEvent /\ ~IsModification(ev)
  THEN approvals \cup {[user |-> ev.user, type |-> ev.name]}
  ELSE approvals

\* The rows ApprovalProcessor leaves valid: an approval adds its row, a request
\* for modification adds its row and then invalidates every row, its own too.
Record(ev) ==
  IF IsModification(ev) THEN {}
  ELSE IF ev.name \in ApprovalEvent
       THEN approvals \cup {[user |-> ev.user, type |-> ev.name]}
       ELSE approvals

\* EventHandler._process_event for an event that passes every check.
Handle(ev) ==
  /\ CanSend(ev, state, is_active)
  /\ ~HasAlreadyApproved(ev, approvals)
  /\ state' = Target(ev)
  /\ is_active' = ~IsFinal(Target(ev))
  /\ status' = NewStatus(ev, status)
  /\ approvals' = Record(ev)

Event(name, user, response) ==
  [name |-> name, user |-> user, response |-> response]

StartWorkflow(u) == Handle(Event("start_workflow", u, "none"))

InternalStep(u) ==
  \E name \in StepEvent : Handle(Event(name, u, "none"))

Approve(u) ==
  \E type \in ApprovalEvent : Handle(Event(type, u, "approved"))

RequireModification(u) ==
  \E type \in ApprovalEvent :
    /\ "requires_modification" \in AllowedResponses(type)
    /\ Handle(Event(type, u, "requires_modification"))

Next ==
  \E u \in Users :
    \/ StartWorkflow(u)
    \/ InternalStep(u)
    \/ Approve(u)
    \/ RequireModification(u)

Spec == Init /\ [][Next]_vars

-----------------------------------------------------------------------------
(* Properties.                                                             *)

\* Every variable has the values its column can hold.
TypeOK ==
  /\ state \in State
  /\ is_active \in BOOLEAN
  /\ status \in Status
  /\ approvals \subseteq Approval

\* is_active is set to False exactly when the workflow hits the end state
\* (docstring of Workflow), and never before it.
ActiveUntilEnd == is_active <=> ~IsFinal(state)

\* The status the grantor sees is the one that belongs to the workflow's
\* state, over any sequence of reviews and revisions: the two live in
\* different tables and are changed by different callbacks.
StatusFollowsState == status = StatusOf(state)

\* The valid approvals are exactly those of the stages already passed in the
\* current round: no stage is skipped, and none of an earlier round counts.
ApprovalsCoverStages == { a.type : a \in approvals } = Passed[state]

\* No stage is approved twice in one round.
OneApprovalPerStage ==
  \A a, b \in approvals : a.type = b.type => a = b

\* Whoever reviews the stage the workflow waits for can do so: the duplicate
\* approval check never locks out a reviewer who approved in an earlier round.
ReviewerNotLockedOut ==
  \A u \in Users, type \in ApprovalEvent :
    state = Source[type] =>
      ~HasAlreadyApproved(Event(type, u, "approved"), approvals)

\* The inductive invariant: everything the review keeps in step.
ReviewInv ==
  /\ TypeOK
  /\ ActiveUntilEnd
  /\ StatusFollowsState
  /\ ApprovalsCoverStages
  /\ OneApprovalPerStage

\* What a step may never do: reach the end by anything but the executive
\* approval of a fully approved review, leave the end, or drop approvals except
\* all at once on the way into a revision.
ReviewStep ==
  /\ ~IsFinal(state) /\ IsFinal(state') =>
       /\ state = "pending_executive_approval"
       /\ { a.type : a \in approvals' } = ApprovalEvent
  /\ ~(approvals \subseteq approvals') =>
       /\ approvals' = {}
       /\ state' = "pending_revision_start"
  /\ IsFinal(state) => IsFinal(state')

ReviewSteps == [][ReviewStep]_vars
=============================================================================
