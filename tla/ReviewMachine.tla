---------------------------- MODULE ReviewMachine ----------------------------
(***************************************************************************)
(* The award recommendation review: the transition table of                *)
(* award_recommendation_review_state_machine.py, the approval processor     *)
(* that runs inside its transitions, and the checks the event handler      *)
(* makes before it sends an event to the machine.  Operators only: what     *)
(* one event does to what one transaction has read.                        *)
(*                                                                         *)
(* An event is a record [name, user, response].  The eight approval events *)
(* receive_pqc_approval ... receive_executive_approval are named by the     *)
(* approval type they record.                                              *)
(***************************************************************************)

State ==
  { "start", "pending_pqc_review", "pending_gms_review_start",
    "pending_gms_review", "pending_fmo_review", "pending_gmo_review",
    "pending_agency_approval", "pending_departmental_approval",
    "pending_interagency_approval", "pending_executive_approval",
    "pending_revision_start", "pending_revision_complete", "end" }

Status ==
  { "draft", "submitted", "in_review", "revision_requested", "in_revision",
    "approved" }

\* The keys of approval_mapping, one approval type each.
ApprovalEvent ==
  { "pqc_approval", "gms_approval", "fmo_approval", "gmo_approval",
    "agency_approval", "departmental_approval", "interagency_approval",
    "executive_approval" }

\* The events without an approval config: only an internal user can send them.
StepEvent == { "start_gms_review", "start_revision", "complete_revisions" }

EventName == {"start_workflow"} \cup StepEvent \cup ApprovalEvent

\* allowed_approval_response_types: PQC is approval-only.
AllowedResponses(name) ==
  IF name = "pqc_approval" THEN {"approved"}
                           ELSE {"approved", "requires_modification"}

\* Every event of this machine leaves from exactly one state; the approval
\* events leave from the approval_state of their config.
Source ==
  [ start_workflow        |-> "start",
    pqc_approval          |-> "pending_pqc_review",
    start_gms_review      |-> "pending_gms_review_start",
    gms_approval          |-> "pending_gms_review",
    fmo_approval          |-> "pending_fmo_review",
    gmo_approval          |-> "pending_gmo_review",
    agency_approval       |-> "pending_agency_approval",
    departmental_approval |-> "pending_departmental_approval",
    interagency_approval  |-> "pending_interagency_approval",
    executive_approval    |-> "pending_executive_approval",
    start_revision        |-> "pending_revision_start",
    complete_revisions    |-> "pending_revision_complete" ]

\* Mutants: a departmental approval forgets the interagency stage; a finished
\* revision goes back to the stage after PQC.
OnwardSkipsInteragency ==
  [ start_workflow        |-> "pending_pqc_review",
    pqc_approval          |-> "pending_gms_review_start",
    start_gms_review      |-> "pending_gms_review",
    gms_approval          |-> "pending_fmo_review",
    fmo_approval          |-> "pending_gmo_review",
    gmo_approval          |-> "pending_agency_approval",
    agency_approval       |-> "pending_departmental_approval",
    departmental_approval |-> "pending_executive_approval",
    interagency_approval  |-> "pending_executive_approval",
    executive_approval    |-> "end",
    start_revision        |-> "pending_revision_complete",
    complete_revisions    |-> "pending_pqc_review" ]

\* Where an event leads when it is not a request for modification.
Onward ==
  [ start_workflow        |-> "pending_pqc_review",
    pqc_approval          |-> "pending_gms_review_start",
    start_gms_review      |-> "pending_gms_review",
    gms_approval          |-> "pending_fmo_review",
    fmo_approval          |-> "pending_gmo_review",
    gmo_approval          |-> "pending_agency_approval",
    agency_approval       |-> "pending_departmental_approval",
    departmental_approval |-> "pending_interagency_approval",
    interagency_approval  |-> "pending_executive_approval",
    executive_approval    |-> "end",
    start_revision        |-> "pending_revision_complete",
    complete_revisions    |-> "pending_pqc_review" ]

IsModification(ev) == ev.response = "requires_modification"

Target(ev) ==
  IF IsModification(ev) THEN "pending_revision_start" ELSE Onward[ev.name]

\* The set_status_* handlers that run on the transition, but for requests for
\* modification.  A transition without one leaves the status alone.
OnStatus ==
  [ start_workflow     |-> "submitted",
    start_gms_review   |-> "in_review",
    start_revision     |-> "in_revision",
    complete_revisions |-> "submitted",
    executive_approval |-> "approved" ]

\* Mutant: a request for modification leaves the status alone.
NewStatusOnlyOnward(ev, status) ==
  IF ~IsModification(ev) /\ ev.name \in DOMAIN OnStatus THEN OnStatus[ev.name]
                                                         ELSE status

NewStatus(ev, status) ==
  IF IsModification(ev)              THEN "revision_requested"
  ELSE IF ev.name \in DOMAIN OnStatus THEN OnStatus[ev.name]
                                      ELSE status

-----------------------------------------------------------------------------
(* What the handler checks, in its order.  A check that fails raises a     *)
(* non-retryable error.                                                    *)

\* get_and_validate_workflow and the "valid for the current state" test.
CanSend(ev, state, is_active) == is_active /\ state = Source[ev.name]

\* ApprovalProcessor._has_already_approved: rows are the valid approvals.
HasAlreadyApproved(ev, rows) ==
  /\ ev.name \in ApprovalEvent
  /\ \E a \in rows : a.user = ev.user /\ a.type = ev.name

\* Only the transition into the final state ends the workflow.
IsFinal(state) == state = "end"
-----------------------------------------------------------------------------
(* What the table implies, used by the properties and by the initial states *)
(* of the modules that start in the middle of a review.                     *)

\* The approval types that precede each state in the review.
Passed ==
  LET gms   == {"pqc_approval", "gms_approval"}
      gmo   == gms \cup {"fmo_approval", "gmo_approval"}
      inter == gmo \cup {"agency_approval", "departmental_approval",
                         "interagency_approval"}
  IN [ start                         |-> {},
       pending_pqc_review            |-> {},
       pending_gms_review_start      |-> {"pqc_approval"},
       pending_gms_review            |-> {"pqc_approval"},
       pending_fmo_review            |-> gms,
       pending_gmo_review            |-> gms \cup {"fmo_approval"},
       pending_agency_approval       |-> gmo,
       pending_departmental_approval |-> gmo \cup {"agency_approval"},
       pending_interagency_approval  |-> gmo \cup {"agency_approval",
                                                   "departmental_approval"},
       pending_executive_approval    |-> inter,
       pending_revision_start        |-> {},
       pending_revision_complete     |-> {},
       end                           |-> ApprovalEvent ]

\* The award recommendation status that belongs to each state.
StatusOf(s) ==
  CASE s = "start"                                              -> "draft"
    [] s \in {"pending_pqc_review", "pending_gms_review_start"} -> "submitted"
    [] s = "pending_revision_start"                  -> "revision_requested"
    [] s = "pending_revision_complete"                          -> "in_revision"
    [] s = "end"                                                -> "approved"
    [] OTHER                                                    -> "in_review"
=============================================================================
