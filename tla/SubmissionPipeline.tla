--------------------------- MODULE SubmissionPipeline ---------------------------
(***************************************************************************)
(* From the submit endpoint to the submission package: requests that edit  *)
(* or submit an application, the SQS queue shared with the workflow events, *)
(* the submission consumer (a thread per message) and the hourly task that *)
(* builds whatever is submitted.                                           *)
(*                                                                         *)
(* Requests read the application without a lock.  An UPDATE of the         *)
(* application row, an insert that refers to it and the builders' SELECT   *)
(* FOR UPDATE take row locks that exclude each other as in PostgreSQL.     *)
(***************************************************************************)
EXTENDS Naturals, FiniteSets, Sequences

CONSTANTS
  Application,  \* applications
  SubmitId,     \* requests to submit; each sends a message with its own id
  EditId,       \* requests to change a form, and the content they leave
  EventId,      \* workflow events on the same queue
  Consumers,    \* submission consumer processes
  BatchSize,    \* most messages one receive returns
  MaxReceives,  \* maxReceiveCount of the queue's redrive policy
  Tasks,        \* runs of create-application-submission that may overlap
  TaskBatch,    \* application_submission_batch_size
  MaxBatches,   \* application_submission_max_batches
  Unbuildable   \* applications whose package cannot be generated

ASSUME BatchSizeAssumption == BatchSize \in Nat \ {0}
ASSUME MaxReceivesAssumption == MaxReceives \in Nat \ {0}
ASSUME TaskBatchAssumption == TaskBatch \in Nat \ {0}
ASSUME MaxBatchesAssumption == MaxBatches \in Nat
ASSUME UnbuildableAssumption == Unbuildable \subseteq Application
ASSUME MessagesApart == SubmitId \cap EventId = {} /\ SubmitId \cap EditId = {}

VARIABLES
  status,       \* application.application_status
  form,         \* application_form.application_response
  submissions,  \* table application_submission: the forms in each package
  submits,      \* the APPLICATION_SUBMITTED rows of application_audit
  history,      \* the ids in workflow_event_history
  request,      \* how far each request has got, for which application
  queue,        \* where SQS keeps each message
  receives,     \* its receive count
  pc,           \* where each consumer's thread for each message is
  gave_up,      \* the consumer stopped waiting for that thread
  task          \* each run of the task

db == <<status, form, submissions, submits, history>>
sqs == <<queue, receives>>
threads == <<pc, gave_up>>
vars == <<db, request, sqs, threads, task>>

-----------------------------------------------------------------------------
(* Rows and row locks.                                                     *)

Request == SubmitId \cup EditId
Message == SubmitId \cup EventId
Content == EditId \cup {"first"}

\* A run of the task: it fetches a batch and builds it, until one is the last.
Stopped == [at |-> "stopped", batches |-> 0, batch |-> {}]

\* "overlaps" records that another request for the application was open when this
\* one began; nothing in the code depends on it.
NoRequest == [at |-> "unsent", application |-> "none", wrote |-> FALSE, overlaps |-> FALSE]

\* A request's transaction is open from its first read to its commit.
Open == {"validated", "queued"}

OpenOn(a) == { r \in Request : request[r].at \in Open /\ request[r].application = a }

\* SELECT ... FOR UPDATE, held until the package is built and committed.
Building(a) ==
  \/ \E p \in Consumers, m \in SubmitId :
       pc[p][m] = "building" /\ request[m].application = a
  \/ \E t \in Tasks : a \in task[t].batch

\* UPDATE application waits for another UPDATE and for FOR UPDATE.
CanUpdate(a) ==
  ~Building(a) /\ \A r \in OpenOn(a) \cap SubmitId : ~request[r].wrote

\* INSERT INTO application_audit locks the application row it refers to FOR KEY
\* SHARE, which waits for FOR UPDATE only; UPDATE application_form waits for
\* another one of the same form.
CanEdit(a) ==
  ~Building(a) /\ \A r \in OpenOn(a) \cap EditId : ~request[r].wrote

\* Mutant: the consumer and the task read the row without locking it.
CanLockAlways(a) == TRUE

\* FOR UPDATE NOWAIT fails, and SKIP LOCKED skips the row, if any of these is
\* held by another transaction.
CanLock(a) == ~Building(a) /\ \A r \in OpenOn(a) : ~request[r].wrote

-----------------------------------------------------------------------------

Init ==
  /\ status = [a \in Application |-> "in_progress"]
  /\ form = [a \in Application |-> "first"]
  /\ submissions = [a \in Application |-> <<>>]
  /\ submits = [a \in Application |-> 0]
  /\ history = {}
  /\ request = [r \in Request |-> NoRequest]
  /\ queue = [m \in Message |-> "unsent"]
  /\ receives = [m \in Message |-> 0]
  /\ pc = [p \in Consumers |-> [m \in Message |-> "idle"]]
  /\ gave_up = [p \in Consumers |-> [m \in Message |-> FALSE]]
  /\ task = [t \in Tasks |-> Stopped]

-----------------------------------------------------------------------------
(* The API's requests.                                                     *)

\* Mutant: the check that the application is in progress is missing.
InProgressUnchecked(a) == TRUE

InProgress(a) == status[a] = "in_progress"

\* Both endpoints read the application and validate that it is in progress (and
\* the submit that the competition is open and the forms are complete); a
\* refused request changes nothing here.
Validate(r, a) ==
  /\ request[r].at = "unsent"
  /\ InProgress(a)
  /\ request' = [request EXCEPT ![r] = [at |-> "validated", application |-> a,
                                        wrote |-> FALSE, overlaps |-> OpenOn(a) # {}]]
  /\ UNCHANGED <<db, sqs, threads, task>>

\* The session's first flush, at some query after the change or at the commit.
Write(r) ==
  /\ request[r].at \in Open
  /\ ~request[r].wrote
  /\ IF r \in SubmitId THEN CanUpdate(request[r].application)
                       ELSE CanEdit(request[r].application)
  /\ request' = [request EXCEPT ![r].wrote = TRUE]
  /\ UNCHANGED <<db, sqs, threads, task>>

\* _queue_application_submission: before the commit, and an error of the send is
\* swallowed.
QueueSubmission(r) ==
  /\ r \in SubmitId
  /\ request[r].at = "validated"
  /\ request' = [request EXCEPT ![r].at = "queued"]
  /\ queue' \in { queue, [queue EXCEPT ![r] = "visible"] }
  /\ UNCHANGED <<db, receives, threads, task>>

CommitSubmit(r) ==
  /\ r \in SubmitId
  /\ request[r].at = "queued"
  /\ request[r].wrote
  /\ LET a == request[r].application
     IN /\ status' = [status EXCEPT ![a] = "submitted"]
        /\ submits' = [submits EXCEPT ![a] = @ + 1]
  /\ request' = [request EXCEPT ![r].at = "committed"]
  /\ UNCHANGED <<form, submissions, history, sqs, threads, task>>

CommitEdit(r) ==
  /\ r \in EditId
  /\ request[r].at = "validated"
  /\ request[r].wrote
  /\ form' = [form EXCEPT ![request[r].application] = r]
  /\ request' = [request EXCEPT ![r].at = "committed"]
  /\ UNCHANGED <<status, submissions, submits, history, sqs, threads, task>>

\* An error or a crash before the commit rolls back; what was sent stays sent.
Abort(r) ==
  /\ request[r].at \in Open
  /\ request' = [request EXCEPT ![r].at = "failed"]
  /\ UNCHANGED <<db, sqs, threads, task>>

-----------------------------------------------------------------------------
(* SQS, and what else uses the queue.                                      *)

\* Any endpoint that sends a workflow event, to the same queue URL.
SendWorkflowEvent(m) ==
  /\ m \in EventId
  /\ queue[m] = "unsent"
  /\ queue' = [queue EXCEPT ![m] = "visible"]
  /\ UNCHANGED <<db, request, receives, threads, task>>

\* The visibility timeout ends.
Reappear(m) ==
  /\ queue[m] = "in_flight"
  /\ queue' = [queue EXCEPT ![m] = "visible"]
  /\ UNCHANGED <<db, request, receives, threads, task>>

DeadLetter(m) ==
  /\ queue[m] = "visible"
  /\ receives[m] = MaxReceives
  /\ queue' = [queue EXCEPT ![m] = "dead_letter"]
  /\ UNCHANGED <<db, request, receives, threads, task>>

\* The workflow manager, in a step: it stores an event before it deletes it
\* (WorkflowService), and what does not parse as an event it neither handles
\* nor deletes.
WorkflowManager(m) ==
  /\ queue[m] = "visible"
  /\ receives[m] < MaxReceives
  /\ receives' = [receives EXCEPT ![m] = @ + 1]
  /\ IF m \in EventId
     THEN history' = history \cup {m} /\ queue' = [queue EXCEPT ![m] = "deleted"]
     ELSE queue' = [queue EXCEPT ![m] = "in_flight"] /\ UNCHANGED history
  /\ UNCHANGED <<status, form, submissions, submits, request, threads, task>>

-----------------------------------------------------------------------------
(* The submission consumer.                                                *)

\* Mutant: a message that finds its application not submitted yet is deleted.
DeletableNotReady == {"success", "already_processed", "parse_error", "not_ready"}

\* RESULTS_TO_DELETE; an application is never deleted here.
Deletable == {"success", "already_processed", "parse_error"}

Returned == Deletable \cup {"locked", "not_ready", "error"}

Batch(p) == { m \in Message : pc[p][m] # "idle" }

FetchMessages(p) ==
  /\ Batch(p) = {}
  /\ \E ms \in SUBSET { m \in Message : /\ queue[m] = "visible"
                                        /\ receives[m] < MaxReceives } :
       /\ ms # {}
       /\ Cardinality(ms) <= BatchSize
       /\ queue' = [m \in Message |-> IF m \in ms THEN "in_flight" ELSE queue[m]]
       /\ receives' = [m \in Message |->
                         IF m \in ms THEN receives[m] + 1 ELSE receives[m]]
       /\ pc' = [pc EXCEPT ![p] =
                   [m \in Message |-> IF m \in ms THEN "fetched" ELSE "idle"]]
  /\ UNCHANGED <<db, request, gave_up, task>>

\* What a thread finds when it has asked for the row lock of an application.
Outcome(a) ==
  IF ~CanLock(a) THEN "locked"
  ELSE CASE status[a] = "accepted" -> "already_processed"
         [] status[a] = "submitted" -> "building"
         [] OTHER -> "not_ready"

\* handle_message up to the build: a message that names no application is done
\* with; otherwise the row is locked, or the lock is refused at once.
HandleMessage(p, m) ==
  /\ pc[p][m] = "fetched"
  /\ pc' = [pc EXCEPT ![p][m] = IF m \in EventId THEN "parse_error"
                                ELSE Outcome(request[m].application)]
  /\ UNCHANGED <<db, request, sqs, gave_up, task>>

\* The package is built from the rows as they are under the lock; its row and
\* the status are committed together.
Accept(accepted) ==
  /\ status' = [a \in Application |->
                  IF a \in accepted THEN "accepted" ELSE status[a]]
  /\ submissions' = [a \in Application |->
                       IF a \in accepted THEN Append(submissions[a], form[a])
                       ELSE submissions[a]]

BuildSubmission(p, m) ==
  /\ pc[p][m] = "building"
  /\ request[m].application \notin Unbuildable
  /\ Accept({request[m].application})
  /\ pc' = [pc EXCEPT ![p][m] = "success"]
  /\ UNCHANGED <<form, submits, history, request, sqs, gave_up, task>>

\* An exception rolls back and the message is kept.
Fail(p, m) ==
  /\ pc[p][m] \in {"fetched", "building"}
  /\ pc' = [pc EXCEPT ![p][m] = "error"]
  /\ UNCHANGED <<db, request, sqs, gave_up, task>>

\* future.result(timeout) raises; the thread runs on.
GiveUp(p, m) ==
  /\ pc[p][m] \in {"fetched", "building"}
  /\ ~gave_up[p][m]
  /\ gave_up' = [gave_up EXCEPT ![p][m] = TRUE]
  /\ UNCHANGED <<db, request, sqs, pc, task>>

Forget(p) ==
  /\ pc' = [pc EXCEPT ![p] = [m \in Message |-> "idle"]]
  /\ gave_up' = [gave_up EXCEPT ![p] = [m \in Message |-> FALSE]]

ToDelete(p) == { m \in Batch(p) : pc[p][m] \in Deletable /\ ~gave_up[p][m] }

\* Every thread has ended; any of the deletes may fail.
FinishBatch(p) ==
  /\ Batch(p) # {}
  /\ \A m \in Batch(p) : pc[p][m] \in Returned
  /\ \E failed \in SUBSET ToDelete(p) :
       queue' = [m \in Message |->
                   IF m \in ToDelete(p) \ failed /\ queue[m] # "dead_letter"
                   THEN "deleted" ELSE queue[m]]
  /\ Forget(p)
  /\ UNCHANGED <<db, request, receives, task>>

Crash(p) ==
  /\ Batch(p) # {}
  /\ Forget(p)
  /\ UNCHANGED <<db, request, sqs, task>>

-----------------------------------------------------------------------------
(* The hourly task.                                                        *)

StartTask(t) ==
  /\ task[t].at = "stopped"
  /\ task' = [task EXCEPT ![t] = [Stopped EXCEPT !.at = "fetching"]]
  /\ UNCHANGED <<db, request, sqs, threads>>

\* Submitted applications that nobody has locked, in no particular order.
FetchApplications(t) ==
  /\ task[t].at = "fetching"
  /\ LET available == { a \in Application : status[a] = "submitted" /\ CanLock(a) }
     IN \E batch \in SUBSET available :
          /\ \/ Cardinality(batch) = TaskBatch
             \/ batch = available /\ Cardinality(batch) < TaskBatch
          /\ task' = [task EXCEPT ![t] = [at |-> "building", batches |-> @.batches + 1,
                                          batch |-> batch]]
  /\ UNCHANGED <<db, request, sqs, threads>>

\* Mutant: an application that fails takes the whole batch with it.
BuiltAllOrNothing(batch) ==
  IF batch \cap Unbuildable = {} THEN SUBSET batch ELSE {{}}

\* An application whose build raises is logged and left as it was.
Built(batch) == SUBSET (batch \ Unbuildable)

\* Mutant: the task marks what it failed to build as accepted.
AcceptBatchAll(t, built) ==
  /\ status' = [a \in Application |->
                  IF a \in task[t].batch THEN "accepted" ELSE status[a]]
  /\ submissions' = [a \in Application |->
                       IF a \in built THEN Append(submissions[a], form[a])
                       ELSE submissions[a]]

AcceptBatch(t, built) == Accept(built)

\* A short batch is the last, and so is the one after the configured maximum.
LastBatch(t) ==
  \/ Cardinality(task[t].batch) < TaskBatch
  \/ task[t].batches > MaxBatches

\* One commit per batch.
CommitBatch(t, built) ==
  /\ task[t].at = "building"
  /\ built \in Built(task[t].batch)
  /\ AcceptBatch(t, built)
  /\ task' = [task EXCEPT ![t] = IF LastBatch(t) THEN Stopped
                                 ELSE [@ EXCEPT !.at = "fetching", !.batch = {}]]
  /\ UNCHANGED <<form, submits, history, request, sqs, threads>>

\* A lost task, or a database error that the batch's session cannot get over.
CrashTask(t) ==
  /\ task[t].at = "building"
  /\ task' = [task EXCEPT ![t] = Stopped]
  /\ UNCHANGED <<db, request, sqs, threads>>

-----------------------------------------------------------------------------

Api(r) ==
  \/ \E a \in Application : Validate(r, a)
  \/ Write(r) \/ QueueSubmission(r) \/ CommitSubmit(r) \/ CommitEdit(r) \/ Abort(r)

Thread(p, m) == HandleMessage(p, m) \/ BuildSubmission(p, m)

Next ==
  \/ \E r \in Request : Api(r)
  \/ \E m \in Message :
       SendWorkflowEvent(m) \/ Reappear(m) \/ DeadLetter(m) \/ WorkflowManager(m)
  \/ \E p \in Consumers : FetchMessages(p) \/ FinishBatch(p) \/ Crash(p)
  \/ \E p \in Consumers, m \in Message : Thread(p, m) \/ Fail(p, m) \/ GiveUp(p, m)
  \/ \E t \in Tasks : StartTask(t) \/ FetchApplications(t) \/ CrashTask(t)
  \/ \E t \in Tasks, built \in SUBSET Application : CommitBatch(t, built)

Spec == Init /\ [][Next]_vars

\* Requests, consumer, task and SQS go on; nothing obliges a user to send one.
\* Not every run of the task is lost; and the services a package is made with
\* may fail, but an application that the task tries again and again is built at
\* some time unless it never can be.
Fairness ==
  /\ \A r \in Request : WF_vars(Write(r)) /\ WF_vars(QueueSubmission(r))
                         /\ WF_vars(CommitSubmit(r) \/ CommitEdit(r))
  /\ \A p \in Consumers : WF_vars(FetchMessages(p)) /\ WF_vars(FinishBatch(p))
  /\ \A p \in Consumers, m \in Message :
       WF_vars(Thread(p, m) \/ Fail(p, m))
  /\ \A m \in Message : WF_vars(Reappear(m)) /\ WF_vars(DeadLetter(m))
  /\ \A t \in Tasks :
       /\ WF_vars(StartTask(t)) /\ WF_vars(FetchApplications(t))
       /\ SF_vars(\E built \in SUBSET Application : CommitBatch(t, built))
  /\ \A a \in Application :
       SF_vars(\E t \in Tasks, built \in SUBSET Application :
                 a \in built /\ CommitBatch(t, built))

FairSpec == Spec /\ Fairness

-----------------------------------------------------------------------------
(* Properties whatever overlaps.                                           *)

RequestRow == [ at : {"unsent"} \cup Open \cup {"committed", "failed"},
                application : Application \cup {"none"},
                wrote : BOOLEAN, overlaps : BOOLEAN ]

\* Every table, request, message, thread and task run has values it can hold.
TypeOK ==
  /\ status \in [Application -> {"in_progress", "submitted", "accepted"}]
  /\ form \in [Application -> Content]
  /\ submissions \in [Application -> Seq(Content)]
  /\ submits \in [Application -> Nat]
  /\ history \in SUBSET EventId
  /\ request \in [Request -> RequestRow]
  /\ queue \in [Message -> {"unsent", "visible", "in_flight", "dead_letter", "deleted"}]
  /\ receives \in [Message -> 0..MaxReceives]
  /\ pc \in [Consumers -> [Message -> {"idle", "fetched", "building"} \cup Returned]]
  /\ gave_up \in [Consumers -> [Message -> BOOLEAN]]
  /\ task \in [Tasks -> [ at : {"stopped", "fetching", "building"},
                          batches : 0..(MaxBatches + 1), batch : SUBSET Application ]]

\* One submit is never built into two packages: not by two deliveries of its
\* message, a thread the consumer stopped waiting for, a restart, two runs of
\* the task or the task beside the consumer.
PackagePerSubmit ==
  \A a \in Application :
    Len(submissions[a]) + (IF status[a] = "submitted" THEN 1 ELSE 0) <= submits[a]

\* Status and package are stored together: no application is accepted without a
\* package, whatever failed, and none is in progress with one.
AcceptedHasPackage ==
  \A a \in Application :
    /\ status[a] = "accepted" => submissions[a] # <<>>
    /\ status[a] = "in_progress" => submissions[a] = <<>> /\ submits[a] = 0

\* The message of a submit is deleted only when its application has a package;
\* in particular not while the submit has yet to commit, or has rolled back.
DeletedIsBuilt ==
  \A m \in SubmitId :
    queue[m] = "deleted" => submissions[request[m].application] # <<>>

\* A row lock is held by one builder at a time, and what it read under the lock
\* stays true until it commits.
BuilderHoldsSubmitted ==
  \A p \in Consumers, m \in SubmitId :
    pc[p][m] = "building" =>
      /\ status[request[m].application] = "submitted"
      /\ \A q \in Consumers, n \in SubmitId :
           /\ pc[q][n] = "building"
           /\ request[n].application = request[m].application
           => q = p /\ n = m
      /\ \A t \in Tasks : request[m].application \notin task[t].batch

BatchHoldsSubmitted ==
  \A t \in Tasks : \A a \in task[t].batch :
    /\ task[t].at = "building"
    /\ status[a] = "submitted"
    /\ \A u \in Tasks \ {t} : a \notin task[u].batch

\* A run never starts more batches than it may.
BatchesLeft == \A t \in Tasks : task[t].at # "building" => task[t].batches <= MaxBatches

\* While a package is built, no request has written to its application.
BuilderExcludesWriters ==
  \A a \in Application :
    Building(a) => \A r \in OpenOn(a) : ~request[r].wrote

\* A message in use was sent, and one that is built by a request for some
\* application.
SentForApplication ==
  /\ \A r \in Request : request[r].at # "unsent" => request[r].application \in Application
  /\ \A m \in SubmitId : queue[m] # "unsent" => request[m].at \notin {"unsent", "validated"}
  /\ \A p \in Consumers, m \in Message :
       /\ pc[p][m] # "idle" => queue[m] # "unsent"
       /\ pc[p][m] = "building" => m \in SubmitId

\* A thread reports a message as handled only if its application has a package.
ReportedIsBuilt ==
  \A p \in Consumers, m \in SubmitId :
    pc[p][m] \in Deletable => submissions[request[m].application] # <<>>

\* The inductive invariant.
PipelineInv ==
  /\ TypeOK
  /\ SentForApplication
  /\ BuilderHoldsSubmitted
  /\ BatchHoldsSubmitted
  /\ BatchesLeft
  /\ BuilderExcludesWriters
  /\ ReportedIsBuilt
  /\ DeletedIsBuilt
  /\ AcceptedHasPackage
  /\ PackagePerSubmit

\* submit_application's log: the scheduled task will process the application when
\* its message was not sent; no submitted application is left behind.
SubmittedIsAccepted ==
  \A a \in Application \ Unbuildable :
    status[a] = "submitted" ~> status[a] = "accepted"

-----------------------------------------------------------------------------
(* The contract, for every application whose requests have not overlapped.   *)

Overlapped ==
  { a \in Application : \E r \in Request :
      request[r].at # "unsent" /\ request[r].application = a /\ request[r].overlaps }

Contract(a) ==
  INSTANCE ApplicationLifecycle
    WITH status <- status[a], form <- form[a], submissions <- submissions[a]

\* An open request is the only one of its application, which is in progress
\* until that request commits.
OpenIsAlone ==
  \A r \in Request :
    request[r].at \in Open /\ request[r].application \notin Overlapped =>
      /\ InProgress(request[r].application)
      /\ \A s \in Request \ {r} :
           request[s].at \in Open => request[s].application # request[r].application

\* Until two requests for an application have been open at once, the pipeline
\* keeps the promise made to the applicant, for any interleaving of the queue,
\* the consumer's threads and the task, and whatever befalls other applications:
\* no edit after the submit, one submit, one acceptance.
ImplementsLifecycle ==
  /\ \A a \in Application : Contract(a)!Init
  /\ [][\A a \in Application \ Overlapped' : [Contract(a)!Next]_(Contract(a)!vars)]_vars

\* And the package of an accepted application is the only one and holds its forms.
OnePackage == \A a \in Application \ Overlapped : Contract(a)!OnePackage
=============================================================================
