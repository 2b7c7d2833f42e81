---------------------------- MODULE WorkflowService ----------------------------
(***************************************************************************)
(* The workflow service around the review of one award recommendation: the *)
(* API endpoints that queue events, the SQS queue with its dead letter     *)
(* queue, the workflow manager processes that take batches from it and run *)
(* one thread per message, and the database transaction each thread runs.  *)
(*                                                                         *)
(* A transaction is three steps, at the statements that matter to another  *)
(* transaction under READ COMMITTED: it inserts its event history row and  *)
(* reads the workflow, it reads the approvals, it commits.  It takes no    *)
(* row lock on what it read, and its UPDATEs name only changed columns.    *)
(***************************************************************************)
EXTENDS ReviewMachine, Naturals, FiniteSets, Sequences

CONSTANTS
  EventId,        \* ids of the events that may be sent
  Users,          \* users that hold the review privileges
  Managers,       \* workflow manager processes running at the same time
  BatchSize,      \* most messages one receive returns
  MaxReceives,    \* maxReceiveCount of the queue's redrive policy
  FirstWorkflow,  \* a review workflow that may exist at the start
  InitialStates,  \* the states that workflow may be in; "start": no workflow
  Names           \* the event names that are sent

ASSUME BatchSizeAssumption == BatchSize \in Nat \ {0}
ASSUME MaxReceivesAssumption == MaxReceives \in Nat \ {0}
ASSUME FirstWorkflowAssumption == FirstWorkflow \notin EventId
ASSUME NamesAssumption == Names \subseteq EventName
ASSUME InitialStatesAssumption == InitialStates \subseteq State
\* The approvals of the start are identified by their types.
ASSUME EventIdAssumption == EventId \cap ApprovalEvent = {}

VARIABLES
  body,       \* the content of each event, fixed when it is sent
  queue,      \* where SQS keeps each message
  receives,   \* its receive count
  workflow,   \* table workflow
  status,     \* award_recommendation.award_recommendation_status
  approvals,  \* table workflow_approval
  audits,     \* table workflow_audit, in commit order
  history,    \* table workflow_event_history, by event_id
  pc,         \* where each manager's thread for each message is
  view,       \* what that thread's transaction has read
  gave_up,    \* the manager stopped waiting for that thread
  raced       \* history: the workflows of which two transactions have been
              \* open at the same time

db == <<workflow, status, approvals, audits, history>>
sqs == <<body, queue, receives>>
threads == <<pc, view, gave_up>>
vars == <<sqs, db, threads, raced>>

-----------------------------------------------------------------------------
(* Tables and messages.                                                    *)

\* A start event creates the workflow that bears its event's id here.
WorkflowId == EventId \cup {FirstWorkflow}

NoRow == [state |-> "absent", is_active |-> FALSE]

Exists(w) == workflow[w] # NoRow

NoEvent == [workflow |-> "none", name |-> "none", user |-> "none",
            response |-> "none"]

NoView == [state |-> "absent", is_active |-> FALSE, status |-> "draft",
           revoked |-> {}]

\* get_approvals_for_workflow with is_valid_events.
ValidApprovals(w) == { a \in approvals : a.workflow = w /\ a.valid }

\* The threads of a batch: submitted to the executor, then in the handler's
\* transaction, then (rejected) before the one that stores the failure, then
\* returned with a WorkflowEventProcessingResult.
InTransaction == {"loaded", "flushed"}
Running == {"submitted", "rejected"} \cup InTransaction

\* Mutant: a batch with an error in it is never finished.
ReturnedHandled == {"success", "non_retryable"}

Returned == {"success", "non_retryable", "error"}

Deletable == {"success", "non_retryable"}

Batch(p) == { e \in EventId : pc[p][e] # "idle" }

-----------------------------------------------------------------------------
(* A review workflow may already be under way, with the approvals of the   *)
(* stages it has passed, each by some reviewer.                            *)

Init ==
  /\ \E s \in InitialStates : \E reviewer \in [Passed[s] -> Users] :
       /\ workflow = [ w \in WorkflowId |->
                         IF w = FirstWorkflow /\ s # "start"
                         THEN [state |-> s, is_active |-> ~IsFinal(s)]
                         ELSE NoRow ]
       /\ status = StatusOf(s)
       /\ approvals = { [ id |-> t, workflow |-> FirstWorkflow,
                          user |-> reviewer[t], type |-> t,
                          response |-> "approved", valid |-> TRUE ]
                        : t \in Passed[s] }
  /\ audits = <<>>
  /\ history = [e \in EventId |-> "none"]
  /\ body = [e \in EventId |-> NoEvent]
  /\ queue = [e \in EventId |-> "unsent"]
  /\ receives = [e \in EventId |-> 0]
  /\ pc = [p \in Managers |-> [e \in EventId |-> "idle"]]
  /\ view = [p \in Managers |-> [e \in EventId |-> NoView]]
  /\ gave_up = [p \in Managers |-> [e \in EventId |-> FALSE]]
  /\ raced = {}

-----------------------------------------------------------------------------
(* The API.  An endpoint validates against the committed rows and sends the *)
(* message; nothing it read is locked until a worker handles the event.    *)

Send(e, ev) ==
  /\ queue[e] = "unsent"
  /\ ev.name \in Names
  /\ body' = [body EXCEPT ![e] = ev]
  /\ queue' = [queue EXCEPT ![e] = "visible"]
  /\ UNCHANGED <<receives, db, threads, raced>>

\* start_award_recommendation_review: Draft, and no review workflow row.
StartReview(e, u) ==
  /\ status = "draft"
  /\ \A w \in WorkflowId : ~Exists(w)
  /\ Send(e, [workflow |-> e, name |-> "start_workflow", user |-> u,
              response |-> "none"])

\* ingest_workflow_event for process_workflow events: the workflow is active
\* and the event is one of the machine's, whatever state the workflow is in.
IngestEvent(e, u) ==
  \E w \in WorkflowId, name \in EventName \ {"start_workflow"} :
    /\ workflow[w].is_active
    /\ \E response \in IF name \in ApprovalEvent THEN AllowedResponses(name)
                                                 ELSE {"none"} :
         Send(e, [workflow |-> w, name |-> name, user |-> u,
                  response |-> response])

-----------------------------------------------------------------------------
(* SQS, a standard queue.                                                  *)

\* The visibility timeout of a received message ends, whether or not its
\* receiver still works on it.
Reappear(e) ==
  /\ queue[e] = "in_flight"
  /\ queue' = [queue EXCEPT ![e] = "visible"]
  /\ UNCHANGED <<body, receives, db, threads, raced>>

\* The redrive policy.
DeadLetter(e) ==
  /\ queue[e] = "visible"
  /\ receives[e] = MaxReceives
  /\ queue' = [queue EXCEPT ![e] = "dead_letter"]
  /\ UNCHANGED <<body, receives, db, threads, raced>>

-----------------------------------------------------------------------------
(* The manager: fetch a batch, run one thread per message, wait for every  *)
(* thread, delete what was handled.                                        *)

FetchMessages(p) ==
  /\ Batch(p) = {}
  /\ \E ms \in SUBSET { e \in EventId : /\ queue[e] = "visible"
                                        /\ receives[e] < MaxReceives } :
       /\ ms # {}
       /\ IsFiniteSet(ms) /\ Cardinality(ms) <= BatchSize
       /\ queue' = [e \in EventId |-> IF e \in ms THEN "in_flight" ELSE queue[e]]
       /\ receives' = [e \in EventId |->
                         IF e \in ms THEN receives[e] + 1 ELSE receives[e]]
       /\ pc' = [pc EXCEPT ![p] =
                   [e \in EventId |-> IF e \in ms THEN "submitted" ELSE "idle"]]
  /\ UNCHANGED <<body, db, view, gave_up, raced>>

\* future.result(timeout) raises: the message will be kept, and the thread
\* runs on.
GiveUp(p, e) ==
  /\ pc[p][e] \in Running
  /\ ~gave_up[p][e]
  /\ gave_up' = [gave_up EXCEPT ![p][e] = TRUE]
  /\ UNCHANGED <<sqs, db, pc, view, raced>>

\* Mutant: deletes the messages to keep as well.
ToDeleteAll(p) == Batch(p)

ToDelete(p) == { e \in Batch(p) : pc[p][e] \in Deletable /\ ~gave_up[p][e] }

Forget(p) ==
  /\ pc' = [pc EXCEPT ![p] = [e \in EventId |-> "idle"]]
  /\ view' = [view EXCEPT ![p] = [e \in EventId |-> NoView]]
  /\ gave_up' = [gave_up EXCEPT ![p] = [e \in EventId |-> FALSE]]

\* Leaving the executor's with block waits for every thread.  Any of the
\* deletes may fail, which is only logged; a dead-lettered message has left
\* the queue its receipt handle belongs to.
FinishBatch(p) ==
  /\ Batch(p) # {}
  /\ \A e \in Batch(p) : pc[p][e] \in Returned
  /\ \E failed \in SUBSET ToDelete(p) :
       queue' = [e \in EventId |->
                   IF e \in ToDelete(p) \ failed /\ queue[e] # "dead_letter"
                   THEN "deleted" ELSE queue[e]]
  /\ Forget(p)
  /\ UNCHANGED <<body, receives, db, raced>>

\* SIGKILL, SIGINT or a lost task: open transactions roll back, nothing is
\* deleted, and a new process starts with an empty batch.
Crash(p) ==
  /\ Batch(p) # {}
  /\ Forget(p)
  /\ UNCHANGED <<sqs, db, raced>>

-----------------------------------------------------------------------------
(* A thread's transaction.                                                 *)

\* Mutant: event_id is not the key of the history table.
NoHistoryKey(e) == TRUE

\* Another transaction that has inserted this event's history row and not
\* ended yet makes an insert of the same key wait.
HistoryKeyFree(e) == \A p \in Managers : pc[p][e] \notin InTransaction

Load(ev) ==
  IF ev.name = "start_workflow"
  THEN [state |-> "start", is_active |-> TRUE, status |-> status, revoked |-> {}]
  ELSE [state     |-> workflow[ev.workflow].state,
        is_active |-> workflow[ev.workflow].is_active,
        status    |-> status,
        revoked   |-> {}]

\* The thread returns and its session is closed.
Return(p, e, result) ==
  /\ pc' = [pc EXCEPT ![p][e] = result]
  /\ view' = [view EXCEPT ![p][e] = NoView]

\* {w} when a transaction of workflow w is open.
AlsoOpen(w) ==
  { x \in {w} : \E q \in Managers, f \in EventId :
                  pc[q][f] \in InTransaction /\ body[f].workflow = x }

\* Up to the checks of EventHandler: the flush of the history row fails when
\* the event is already stored; a missing or inactive workflow, or an event
\* its state does not allow, is a non-retryable error.
Begin(p, e) ==
  /\ pc[p][e] = "submitted"
  /\ HistoryKeyFree(e)
  /\ LET read == Load(body[e])
     IN IF history[e] # "none"
        THEN Return(p, e, "error") /\ UNCHANGED raced
        ELSE IF CanSend(body[e], read.state, read.is_active)
        THEN /\ pc' = [pc EXCEPT ![p][e] = "loaded"]
             /\ view' = [view EXCEPT ![p][e] = read]
             /\ raced' = raced \cup AlsoOpen(body[e].workflow)
        ELSE Return(p, e, "rejected") /\ UNCHANGED raced
  /\ UNCHANGED <<sqs, db, gave_up>>

\* The transition's callbacks: the approval processor reads the approvals of
\* the workflow; a request for modification will invalidate those it reads.
RunMachine(p, e) ==
  /\ pc[p][e] = "loaded"
  /\ LET rows == ValidApprovals(body[e].workflow)
     IN IF HasAlreadyApproved(body[e], rows)
        THEN Return(p, e, "rejected")
        ELSE /\ pc' = [pc EXCEPT ![p][e] = "flushed"]
             /\ view' = [view EXCEPT ![p][e].revoked =
                           IF IsModification(body[e])
                           THEN { a.id : a \in rows } ELSE {}]
  /\ UNCHANGED <<sqs, db, gave_up, raced>>

\* The row WorkflowApproval(...) of an approval event.
ApprovalRow(e) ==
  IF body[e].name \in ApprovalEvent
  THEN { [ id |-> e, workflow |-> body[e].workflow, user |-> body[e].user,
           type |-> body[e].name, response |-> body[e].response,
           valid |-> ~IsModification(body[e]) ] }
  ELSE {}

\* Mutant: the rows stay valid.
RevokeNothing(a, ids) == a

Revoke(a, ids) == IF a.id \in ids THEN [a EXCEPT !.valid = FALSE] ELSE a

\* Mutant: the UPDATE writes every column of the row.
IsActiveAlwaysWritten(ev) == ~IsFinal(Target(ev))

\* The session writes a column only if the value it holds differs from the
\* one it loaded: is_active only on the way into the final state.
IsActiveAfter(ev) ==
  IF ev.name = "start_workflow" THEN TRUE
  ELSE workflow[ev.workflow].is_active /\ ~IsFinal(Target(ev))

\* Mutant: the listener reads the state before the machine has set it.
AuditRowEarly(e, source) ==
  [event |-> e, workflow |-> body[e].workflow, source |-> source, target |-> source]

AuditRow(e, source) ==
  [ event |-> e, workflow |-> body[e].workflow, source |-> source,
    target |-> Target(body[e]) ]

Commit(p, e) ==
  /\ pc[p][e] = "flushed"
  /\ LET ev         == body[e]
         read       == view[p][e]
         new_status == NewStatus(ev, read.status)
     IN /\ workflow' = [workflow EXCEPT ![ev.workflow] =
                          [state |-> Target(ev), is_active |-> IsActiveAfter(ev)]]
        /\ status' = IF new_status # read.status THEN new_status ELSE status
        /\ approvals' = { Revoke(a, read.revoked) : a \in approvals }
                          \cup ApprovalRow(e)
        /\ audits' = Append(audits, AuditRow(e, read.state))
  /\ history' = [history EXCEPT ![e] = "success"]
  /\ Return(p, e, "success")
  /\ UNCHANGED <<sqs, gave_up, raced>>

\* Mutants: the failure is stored without rolling back first; storing it
\* overwrites the row that is there.
StoreFailureKeepsRow(p, e) ==
  /\ pc[p][e] = "rejected"
  /\ HistoryKeyFree(e)
  /\ history[e] = "none"
  /\ approvals' = approvals \cup ApprovalRow(e)
  /\ history' = [history EXCEPT ![e] = "failed"]
  /\ Return(p, e, "non_retryable")
  /\ UNCHANGED <<sqs, workflow, status, audits, gave_up, raced>>

StoreFailureMerges(p, e) ==
  /\ pc[p][e] = "rejected"
  /\ HistoryKeyFree(e)
  /\ history' = [history EXCEPT ![e] = "failed"]
  /\ Return(p, e, "non_retryable")
  /\ UNCHANGED <<sqs, workflow, status, approvals, audits, gave_up, raced>>

\* After a non-retryable error: roll back, and store the event as not
\* successfully processed in a transaction of its own.
StoreFailure(p, e) ==
  /\ pc[p][e] = "rejected"
  /\ HistoryKeyFree(e)
  /\ IF history[e] # "none"
     THEN Return(p, e, "error") /\ UNCHANGED history
     ELSE /\ history' = [history EXCEPT ![e] = "failed"]
          /\ Return(p, e, "non_retryable")
  /\ UNCHANGED <<sqs, workflow, status, approvals, audits, gave_up, raced>>

\* A retryable or unexpected error anywhere in the handler rolls back.
Fail(p, e) ==
  /\ pc[p][e] \in Running
  /\ Return(p, e, "error")
  /\ UNCHANGED <<sqs, db, gave_up, raced>>

-----------------------------------------------------------------------------

Thread(p, e) ==
  Begin(p, e) \/ RunMachine(p, e) \/ Commit(p, e) \/ StoreFailure(p, e)

Next ==
  \/ \E e \in EventId, u \in Users : StartReview(e, u) \/ IngestEvent(e, u)
  \/ \E e \in EventId : Reappear(e) \/ DeadLetter(e)
  \/ \E p \in Managers : FetchMessages(p) \/ FinishBatch(p) \/ Crash(p)
  \/ \E p \in Managers, e \in EventId :
       Thread(p, e) \/ Fail(p, e) \/ GiveUp(p, e)

Spec == Init /\ [][Next]_vars

\* The manager's loop and its threads go on, and SQS returns unhandled
\* messages; nothing obliges users to send, or a process not to crash.
Fairness ==
  /\ \A p \in Managers : WF_vars(FetchMessages(p)) /\ WF_vars(FinishBatch(p))
  /\ \A p \in Managers, e \in EventId : WF_vars(Thread(p, e))
  /\ \A e \in EventId : WF_vars(Reappear(e)) /\ WF_vars(DeadLetter(e))

FairSpec == Spec /\ Fairness

-----------------------------------------------------------------------------
(* Properties of the service under every interleaving.                     *)

Body == [ workflow : WorkflowId, name : Names, user : Users,
          response : {"none", "approved", "requires_modification"} ]

WorkflowRow == [state : State, is_active : BOOLEAN] \cup {NoRow}

ApprovalRows ==
  [ id : EventId \cup ApprovalEvent, workflow : WorkflowId, user : Users,
    type : ApprovalEvent, response : {"approved", "requires_modification"},
    valid : BOOLEAN ]

Audit == [event : EventId, workflow : WorkflowId, source : State, target : State]

View == [ state : State \cup {"absent"}, is_active : BOOLEAN, status : Status,
          revoked : SUBSET (EventId \cup ApprovalEvent) ]

\* Every table, message and thread has the values its columns can hold.
TypeOK ==
  /\ body \in [EventId -> Body \cup {NoEvent}]
  /\ queue \in [EventId -> {"unsent", "visible", "in_flight", "dead_letter",
                            "deleted"}]
  /\ receives \in [EventId -> 0..MaxReceives]
  /\ workflow \in [WorkflowId -> WorkflowRow]
  /\ status \in Status
  /\ approvals \in SUBSET ApprovalRows
  /\ audits \in Seq(Audit)
  /\ history \in [EventId -> {"none", "success", "failed"}]
  /\ pc \in [Managers -> [EventId -> {"idle"} \cup Running \cup Returned]]
  /\ view \in [Managers -> [EventId -> View]]
  /\ gave_up \in [Managers -> [EventId -> BOOLEAN]]
  /\ raced \subseteq WorkflowId

\* No message is deleted before the event it carries is stored in the event
\* history (workflow README: all messages are stored when deleting), whatever
\* crashes, timeouts and redeliveries come between.
StoredBeforeDelete == \A e \in EventId : queue[e] = "deleted" => history[e] # "none"

\* An event changes a workflow once, however often its message is delivered and
\* to however many managers.
AppliedOnce ==
  \A i, j \in DOMAIN audits : audits[i].event = audits[j].event => i = j

\* The history row, the audit row and the approval row of an event come and go
\* together: an event stored as successful moved its workflow, and one that
\* failed or was never stored left nothing behind.
EffectsMatchHistory ==
  \A e \in EventId :
    /\ history[e] = "success" <=> \E i \in DOMAIN audits : audits[i].event = e
    /\ (\E a \in approvals : a.id = e) =>
         history[e] = "success" /\ body[e].name \in ApprovalEvent

\* An event the API built: a start event creates the workflow of its own id, and
\* an approval event carries a response.
WellFormed(e) ==
  /\ body[e] \in Body
  /\ body[e].name = "start_workflow" => body[e].workflow = e
  /\ body[e].name \in ApprovalEvent => body[e].response # "none"

\* Only a sent event has a thread or a history row.
SentBeforeHandled ==
  \A e \in EventId :
    /\ queue[e] # "unsent" => WellFormed(e)
    /\ queue[e] = "unsent" => /\ history[e] = "none"
                              /\ \A p \in Managers : pc[p][e] = "idle"

\* An open transaction handles an event that is not stored, is the only one to
\* do so, and has read a workflow that exists.
OpenTransactions ==
  \A p \in Managers, e \in EventId :
    pc[p][e] \in InTransaction =>
      /\ history[e] = "none"
      /\ \A q \in Managers \ {p} : pc[q][e] \notin InTransaction
      /\ view[p][e].state \in State
      /\ body[e].name # "start_workflow" => Exists(body[e].workflow)

\* A thread reports an event as done with only once it is stored.
ReportedIsStored ==
  \A p \in Managers, e \in EventId : pc[p][e] \in Deletable => history[e] # "none"

\* A workflow that a start event created is stored with that event.
CreatedByStart == \A e \in EventId : Exists(e) => history[e] = "success"

\* The inductive invariant.
ServiceInv ==
  /\ TypeOK
  /\ SentBeforeHandled
  /\ OpenTransactions
  /\ ReportedIsStored
  /\ CreatedByStart
  /\ StoredBeforeDelete
  /\ AppliedOnce
  /\ EffectsMatchHistory

\* A workflow that has become inactive never becomes active again, not even
\* when a transaction that read it as active commits later.
FinishedStaysInactive ==
  [][ \A w \in WorkflowId :
        Exists(w) /\ ~workflow[w].is_active => ~workflow'[w].is_active ]_vars

\* What is stored about an event is never overwritten by a later delivery of it.
HistoryIsFinal ==
  [][ \A e \in EventId : history[e] # "none" => history'[e] = history[e] ]_vars

\* A manager that does not crash lets go of every batch, and every message
\* ends deleted or in the dead letter queue.
Settled ==
  \A e \in EventId : queue[e] = "visible" ~> queue[e] \in {"deleted", "dead_letter"}

-----------------------------------------------------------------------------
(* While the transactions of a review do not overlap, the service            *)
(* implements the abstract review.  Nothing in the code keeps them apart:    *)
(* raced says when they have overlapped, and nothing is promised from then   *)
(* on.                                                                       *)

\* Two audit rows of one workflow with none of that workflow between them, and
\* the last row of a workflow.
Follows(j, i) ==
  /\ i < j
  /\ audits[i].workflow = audits[j].workflow
  /\ \A k \in DOMAIN audits :
       i < k /\ k < j => audits[k].workflow # audits[i].workflow

Latest(i) ==
  \A j \in DOMAIN audits : i < j => audits[j].workflow # audits[i].workflow

\* The audit rows of a workflow are one unbroken chain that ends in the state
\* the workflow is in, whatever the other workflows' transactions do, as long
\* as no two transactions of its own have been open at once.
AuditTrailUnbroken ==
  \A i \in DOMAIN audits :
    audits[i].workflow \notin raced =>
      /\ \A j \in DOMAIN audits :
           Follows(j, i) => audits[i].target = audits[j].source
      /\ Latest(i) => audits[i].target = workflow[audits[i].workflow].state

\* The workflow of the review, and what the tables say of it; a review whose
\* start has not been handled yet is in "start".
Begun == \E w \in WorkflowId : Exists(w)

TheReview == CHOOSE w \in WorkflowId : Exists(w)

Review ==
  INSTANCE AwardRecReview
    WITH state     <- IF Begun THEN workflow[TheReview].state ELSE "start",
         is_active <- IF Begun THEN workflow[TheReview].is_active ELSE TRUE,
         approvals <- { [user |-> a.user, type |-> a.type] :
                          a \in { b \in approvals : b.valid } }

\* No two transactions of the review have been open at once, and its start was
\* not handled twice: an endpoint that saw no review yet does not keep another
\* from seeing the same.
Intact ==
  /\ raced = {}
  /\ \A v, w \in WorkflowId : Exists(v) /\ Exists(w) => v = w

\* The review of AwardRecReview: as long as it is intact its invariant holds and
\* every step of queue, managers and threads is one of its steps or none.
ImplementsReview ==
  /\ [](Intact => Review!ReviewInv)
  /\ [][Intact' => [Review!Next]_(Review!vars)]_vars

-----------------------------------------------------------------------------
(* Why that holds.                                                          *)

\* Two open transactions are of different workflows or of a raced one.
OneTransaction ==
  \A p, q \in Managers, e, f \in EventId :
    /\ pc[p][e] \in InTransaction
    /\ pc[q][f] \in InTransaction
    /\ body[e].workflow = body[f].workflow
    /\ body[e].workflow \notin raced
    => p = q /\ e = f

\* What an open transaction has read is what the tables still hold, and the
\* checks it has passed still pass.
ViewIsCurrent(p, e) ==
  LET read == Load(body[e])
      rows == ValidApprovals(body[e].workflow)
  IN /\ view[p][e].state = read.state
     /\ CanSend(body[e], read.state, read.is_active)
     /\ pc[p][e] = "flushed" =>
          /\ ~HasAlreadyApproved(body[e], rows)
          /\ view[p][e].revoked =
               IF IsModification(body[e]) THEN { a.id : a \in rows } ELSE {}

ViewsAreCurrent ==
  \A p \in Managers, e \in EventId :
    /\ pc[p][e] \in InTransaction
    /\ body[e].workflow \notin raced
    => ViewIsCurrent(p, e)

\* A transaction invalidates rows of its own workflow only.
RevokesOwn ==
  \A p \in Managers, e \in EventId :
    pc[p][e] \in InTransaction =>
      /\ view[p][e].revoked \subseteq { a.id : a \in approvals }
      /\ \A a \in approvals :
           a.id \in view[p][e].revoked => a.workflow = body[e].workflow

\* An approval's id tells whose it is.
IdsAreOwn == \A a, b \in approvals : a.id = b.id => a.workflow = b.workflow

\* Only a workflow that exists has audit rows.
AuditedExists == \A i \in DOMAIN audits : Exists(audits[i].workflow)

\* With ServiceInv, inductive.
TrailInv ==
  /\ OneTransaction
  /\ ViewsAreCurrent
  /\ RevokesOwn
  /\ IdsAreOwn
  /\ AuditedExists
  /\ AuditTrailUnbroken

\* An event was sent with a response its approval config allows, and unless it
\* is a start to a workflow that exists; approvals belong to workflows that do.
StepsAreSent ==
  \A e \in EventId : queue[e] # "unsent" =>
    /\ body[e].name # "start_workflow" => Exists(body[e].workflow)
    /\ body[e].response \in IF body[e].name \in ApprovalEvent
                            THEN AllowedResponses(body[e].name) ELSE {"none"}

ApprovedExists == \A a \in approvals : Exists(a.workflow)

\* In an intact review, a transaction that may still commit without breaking it
\* has read the status that is still there.
StatusIsCurrent ==
  Intact =>
    \A p \in Managers, e \in EventId :
      /\ pc[p][e] \in InTransaction
      /\ Begun => Exists(body[e].workflow)
      => view[p][e].status = status

\* With ServiceInv and TrailInv, inductive.
RefinementInv ==
  /\ StepsAreSent
  /\ ApprovedExists
  /\ StatusIsCurrent
  /\ Intact => Review!ReviewInv
=============================================================================
