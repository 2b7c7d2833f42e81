------------------------ MODULE SubmissionPipelineProofs ------------------------
(***************************************************************************)
(* Proofs about SubmissionPipeline, for every set of applications, requests, *)
(* messages, consumers and task runs.                                      *)
(***************************************************************************)
EXTENDS SubmissionPipeline, TLAPS

-----------------------------------------------------------------------------
(* PipelineInv holds of the initial state.                                 *)

LEMMA InitPipelineInv ==
  ASSUME Init
  PROVE  PipelineInv
<1>1. Stopped \in [ at : {"stopped", "fetching", "building"},
                    batches : 0..(MaxBatches + 1), batch : SUBSET Application ]
  BY MaxBatchesAssumption DEF Stopped
<1>2. NoRequest \in RequestRow
  BY DEF NoRequest, RequestRow
<1>3. TypeOK
  BY <1>1, <1>2, MaxReceivesAssumption DEF Init, TypeOK, Content
<1>4. /\ \A r \in Request : request[r].at = "unsent"
      /\ \A m \in Message : queue[m] = "unsent"
      /\ \A p \in Consumers, m \in Message : pc[p][m] = "idle"
      /\ \A t \in Tasks : task[t] = Stopped
  BY DEF Init, NoRequest
<1>5. SentForApplication /\ DeletedIsBuilt
  BY <1>4 DEF SentForApplication, DeletedIsBuilt, Request, Message
<1>6. BuilderHoldsSubmitted /\ ReportedIsBuilt
  BY <1>4 DEF BuilderHoldsSubmitted, ReportedIsBuilt, Message, Deletable
<1>7. BatchHoldsSubmitted /\ BatchesLeft
  BY <1>4, MaxBatchesAssumption DEF BatchHoldsSubmitted, BatchesLeft, Stopped
<1>8. BuilderExcludesWriters
  BY <1>4 DEF BuilderExcludesWriters, OpenOn, Open
<1>9. AcceptedHasPackage /\ PackagePerSubmit
  BY DEF Init, AcceptedHasPackage, PackagePerSubmit
<1> QED BY <1>3, <1>5, <1>6, <1>7, <1>8, <1>9 DEF PipelineInv

-----------------------------------------------------------------------------
(* What follows from parts of the state that a step leaves alone.          *)

\* The packages and what is counted against them.
LEMMA PackagesUnchanged ==
  ASSUME PipelineInv, UNCHANGED <<status, submissions, submits>>
  PROVE  AcceptedHasPackage' /\ PackagePerSubmit'
BY DEF PipelineInv, AcceptedHasPackage, PackagePerSubmit

\* The builders, when no application gets one.
LEMMA NoNewBuilder ==
  ASSUME PipelineInv,
         UNCHANGED <<status>>,
         \A m \in SubmitId : request[m].at # "unsent" =>
           request'[m].application = request[m].application,
         \A p \in Consumers, m \in SubmitId :
           pc'[p][m] = "building" => pc[p][m] = "building",
         \A t \in Tasks : task'[t].batch = {} \/ task'[t] = task[t]
  PROVE  BuilderHoldsSubmitted' /\ BatchHoldsSubmitted'
<1>1. \A p \in Consumers, m \in SubmitId :
        pc'[p][m] = "building" =>
          /\ pc[p][m] = "building"
          /\ request'[m].application = request[m].application
  BY DEF PipelineInv, SentForApplication, Message
<1>2. \A t \in Tasks : task'[t].batch = {} \/ task'[t] = task[t]
  OBVIOUS
<1>3. BuilderHoldsSubmitted'
  BY <1>1, <1>2 DEF PipelineInv, BuilderHoldsSubmitted
<1>4. BatchHoldsSubmitted'
  BY <1>2 DEF PipelineInv, BatchHoldsSubmitted
<1> QED BY <1>3, <1>4

\* The row locks, when neither a builder nor a writer is new.
LEMMA NoNewLock ==
  ASSUME PipelineInv,
         \A a \in Application : Building(a)' => Building(a),
         \A r \in Request :
           request'[r].at \in Open /\ request'[r].wrote =>
             /\ request[r].at \in Open /\ request[r].wrote
             /\ request'[r].application = request[r].application
  PROVE  BuilderExcludesWriters'
BY DEF PipelineInv, BuilderExcludesWriters, OpenOn

\* An application that is built now was built before.
LEMMA BuildingBefore ==
  ASSUME PipelineInv,
         \A m \in SubmitId : request[m].at # "unsent" =>
           request'[m].application = request[m].application,
         \A p \in Consumers, m \in SubmitId :
           pc'[p][m] = "building" => pc[p][m] = "building",
         \A t \in Tasks : task'[t].batch = {} \/ task'[t] = task[t]
  PROVE  \A a \in Application : Building(a)' => Building(a)
<1>1. \A p \in Consumers, m \in SubmitId :
        pc'[p][m] = "building" =>
          /\ pc[p][m] = "building"
          /\ request'[m].application = request[m].application
  BY DEF PipelineInv, SentForApplication, Message
<1> QED BY <1>1 DEF Building

\* What is reported or deleted, when a step adds to it only what is built.
LEMMA HandledStaysBuilt ==
  ASSUME PipelineInv,
         \A m \in SubmitId : request[m].at # "unsent" =>
           request'[m].application = request[m].application,
         \A a \in Application : submissions[a] # <<>> => submissions'[a] # <<>>,
         \A p \in Consumers, m \in SubmitId :
           pc'[p][m] \in Deletable =>
             \/ pc[p][m] \in Deletable
             \/ submissions'[request'[m].application] # <<>>,
         \A m \in SubmitId : queue'[m] = "deleted" =>
           queue[m] = "deleted" \/ \E p \in Consumers : pc[p][m] \in Deletable
  PROVE  ReportedIsBuilt' /\ DeletedIsBuilt'
<1> DEFINE Sent(m) == /\ request[m].at # "unsent"
                      /\ request[m].application \in Application
<1>1. \A p \in Consumers, m \in SubmitId : pc[p][m] \in Deletable => Sent(m)
  BY DEF PipelineInv, SentForApplication, Message, Request, Deletable
<1>2. \A m \in SubmitId : queue[m] = "deleted" => Sent(m)
  BY DEF PipelineInv, SentForApplication, Request
<1>3. ReportedIsBuilt'
  BY <1>1 DEF PipelineInv, ReportedIsBuilt
<1>4. DeletedIsBuilt'
  BY <1>1, <1>2 DEF PipelineInv, ReportedIsBuilt, DeletedIsBuilt
<1> QED BY <1>3, <1>4

-----------------------------------------------------------------------------
(* The API's requests.                                                     *)

LEMMA ValidateKeeps ==
  ASSUME PipelineInv, NEW r \in Request, NEW a \in Application, Validate(r, a)
  PROVE  PipelineInv'
<1> DEFINE row == [at |-> "validated", application |-> a, wrote |-> FALSE,
                   overlaps |-> OpenOn(a) # {}]
<1>1. /\ request' = [request EXCEPT ![r] = row]
      /\ request[r].at = "unsent"
      /\ UNCHANGED <<status, form, submissions, submits, history, queue, receives,
                     pc, gave_up, task>>
  BY DEF Validate, db, sqs, threads
<1>2. row \in RequestRow /\ row.at = "validated" /\ row.application = a /\ row.wrote = FALSE
  BY DEF RequestRow, Open
<1>3. request' \in [Request -> RequestRow]
  BY <1>1, <1>2 DEF PipelineInv, TypeOK
<1>4. /\ request'[r] = row
      /\ \A s \in Request \ {r} : request'[s] = request[s]
  BY <1>1 DEF PipelineInv, TypeOK
<1> HIDE DEF row
<1>5. TypeOK'
  BY <1>1, <1>3 DEF PipelineInv, TypeOK
<1>6. \A m \in SubmitId : queue[m] # "unsent" => m # r
  BY <1>1 DEF PipelineInv, SentForApplication
<1>7. SentForApplication'
  BY <1>1, <1>2, <1>4, <1>6 DEF PipelineInv, SentForApplication, Request, Message
<1>8. \A m \in SubmitId : request[m].at # "unsent" =>
        request'[m].application = request[m].application
  BY <1>1, <1>4 DEF Request
<1>9. BuilderHoldsSubmitted' /\ BatchHoldsSubmitted'
  BY <1>1, <1>8, NoNewBuilder
<1>10. BuilderExcludesWriters'
  <2>1. \A b \in Application : Building(b)' => Building(b)
    BY <1>1, <1>8, BuildingBefore
  <2> QED BY <1>2, <1>4, <2>1, NoNewLock
<1>11. ReportedIsBuilt' /\ DeletedIsBuilt'
  BY <1>1, <1>8, HandledStaysBuilt
<1>12. BatchesLeft'
  BY <1>1 DEF PipelineInv, BatchesLeft
<1> QED BY <1>1, <1>5, <1>7, <1>9, <1>10, <1>11, <1>12, PackagesUnchanged DEF PipelineInv

\* A step of an open request that leaves its application and the tables alone.
LEMMA RequestStep ==
  ASSUME PipelineInv, NEW r \in Request, NEW row \in RequestRow,
         request' = [request EXCEPT ![r] = row],
         row.application = request[r].application,
         request[r].at \in Open,
         row.at # "unsent",
         r \in SubmitId /\ queue'[r] # "unsent" => row.at # "validated",
         row.wrote /\ row.at \in Open =>
           request[r].wrote \/ ~Building(request[r].application),
         UNCHANGED <<db, receives, threads, task>>,
         queue' = queue \/ (r \in SubmitId /\ queue' = [queue EXCEPT ![r] = "visible"])
  PROVE  PipelineInv'
<1>1. UNCHANGED <<status, form, submissions, submits, history, receives, pc, gave_up, task>>
  BY DEF db, threads
<1>2. /\ request'[r] = row
      /\ \A s \in Request \ {r} : request'[s] = request[s]
      /\ request' \in [Request -> RequestRow]
  BY DEF PipelineInv, TypeOK
<1>3. \A m \in Message : queue'[m] = queue[m] \/ (m = r /\ r \in SubmitId /\ queue'[m] = "visible")
  BY DEF PipelineInv, TypeOK
<1>4. TypeOK'
  BY <1>1, <1>2 DEF PipelineInv, TypeOK
<1>5. request[r].application \in Application
  BY DEF PipelineInv, SentForApplication, Open
<1>6. SentForApplication'
  BY <1>1, <1>2, <1>3, <1>5 DEF PipelineInv, SentForApplication, Message, Request
<1>7. \A s \in Request : request'[s].application = request[s].application
  BY <1>2
<1>8. \A m \in SubmitId : request'[m].application = request[m].application
  BY <1>7 DEF Request
<1>9. BuilderHoldsSubmitted' /\ BatchHoldsSubmitted'
  BY <1>1, <1>8, NoNewBuilder
<1>10. BuilderExcludesWriters'
  <2>1. \A b \in Application : Building(b)' => Building(b)
    BY <1>1, <1>8, BuildingBefore
  <2> QED BY <1>2, <1>7, <2>1 DEF PipelineInv, BuilderExcludesWriters, OpenOn
<1>11. ReportedIsBuilt' /\ DeletedIsBuilt'
  <2>1. \A m \in SubmitId : queue'[m] = "deleted" => queue[m] = "deleted"
    BY <1>3 DEF Message
  <2> QED BY <1>1, <1>8, <2>1, HandledStaysBuilt
<1>12. BatchesLeft'
  BY <1>1 DEF PipelineInv, BatchesLeft
<1> QED BY <1>1, <1>4, <1>6, <1>9, <1>10, <1>11, <1>12, PackagesUnchanged DEF PipelineInv

LEMMA OpenRow ==
  ASSUME PipelineInv, NEW r \in Request, request[r].at \in Open
  PROVE  /\ request[r] \in RequestRow
         /\ request[r].application \in Application
BY DEF PipelineInv, TypeOK, SentForApplication, Open

LEMMA WriteKeeps ==
  ASSUME PipelineInv, NEW r \in Request, Write(r)
  PROVE  PipelineInv'
<1> DEFINE row == [request[r] EXCEPT !.wrote = TRUE]
<1>1. request[r] \in RequestRow /\ request[r].at \in Open
  BY OpenRow DEF Write
<1>2. /\ row \in RequestRow
      /\ row.at = request[r].at
      /\ row.application = request[r].application
  BY <1>1 DEF RequestRow
<1>3. /\ request' = [request EXCEPT ![r] = row]
      /\ ~Building(request[r].application)
      /\ UNCHANGED <<db, queue, receives, threads, task>>
  BY DEF Write, CanUpdate, CanEdit, sqs
<1>4. r \in SubmitId /\ queue[r] # "unsent" => row.at # "validated"
  BY <1>2 DEF PipelineInv, SentForApplication
<1> HIDE DEF row
<1> QED BY <1>1, <1>2, <1>3, <1>4, RequestStep DEF Open

LEMMA AbortKeeps ==
  ASSUME PipelineInv, NEW r \in Request, Abort(r)
  PROVE  PipelineInv'
<1> DEFINE row == [request[r] EXCEPT !.at = "failed"]
<1>1. request[r] \in RequestRow /\ request[r].at \in Open
  BY OpenRow DEF Abort
<1>2. /\ row \in RequestRow
      /\ row.at = "failed"
      /\ row.application = request[r].application
  BY <1>1 DEF RequestRow
<1>3. /\ request' = [request EXCEPT ![r] = row]
      /\ UNCHANGED <<db, queue, receives, threads, task>>
  BY DEF Abort, sqs
<1> HIDE DEF row
<1> QED BY <1>1, <1>2, <1>3, RequestStep DEF Open

LEMMA QueueSubmissionKeeps ==
  ASSUME PipelineInv, NEW r \in Request, QueueSubmission(r)
  PROVE  PipelineInv'
<1> DEFINE row == [request[r] EXCEPT !.at = "queued"]
<1>1. request[r] \in RequestRow /\ request[r].at \in Open
  BY OpenRow DEF QueueSubmission, Open
<1>2. /\ row \in RequestRow
      /\ row.at = "queued"
      /\ row.application = request[r].application
      /\ row.wrote = request[r].wrote
  BY <1>1 DEF RequestRow, Open
<1>3. /\ request' = [request EXCEPT ![r] = row]
      /\ r \in SubmitId
      /\ queue' = queue \/ queue' = [queue EXCEPT ![r] = "visible"]
      /\ UNCHANGED <<db, receives, threads, task>>
  BY DEF QueueSubmission
<1> HIDE DEF row
<1> QED BY <1>1, <1>2, <1>3, RequestStep DEF Open

\* The commit of a submit: the row lock it holds keeps builders out, so no
\* builder's application changes status.
LEMMA CommitSubmitKeeps ==
  ASSUME PipelineInv, NEW r \in Request, CommitSubmit(r)
  PROVE  PipelineInv'
<1> DEFINE a == request[r].application
           row == [request[r] EXCEPT !.at = "committed"]
<1>1. /\ r \in SubmitId /\ request[r].at = "queued" /\ request[r].wrote
      /\ status' = [status EXCEPT ![a] = "submitted"]
      /\ submits' = [submits EXCEPT ![a] = @ + 1]
      /\ request' = [request EXCEPT ![r] = row]
      /\ UNCHANGED <<form, submissions, history, queue, receives, pc, gave_up, task>>
  BY DEF CommitSubmit, sqs, threads
<1>2. request[r] \in RequestRow /\ a \in Application
  BY <1>1, OpenRow DEF Open
<1>3. row \in RequestRow /\ row.at = "committed" /\ row.application = a
  BY <1>2 DEF RequestRow
<1>4. /\ request'[r] = row
      /\ \A s \in Request \ {r} : request'[s] = request[s]
      /\ request' \in [Request -> RequestRow]
  BY <1>1, <1>3 DEF PipelineInv, TypeOK
<1>5. \A m \in SubmitId : request'[m].application = request[m].application
  BY <1>3, <1>4 DEF Request
<1>6. ~Building(a)
  BY <1>1, <1>2 DEF PipelineInv, BuilderExcludesWriters, OpenOn, Open
<1> HIDE DEF a, row
<1>7. /\ status'[a] = "submitted" /\ submits'[a] = submits[a] + 1
      /\ \A b \in Application \ {a} : status'[b] = status[b] /\ submits'[b] = submits[b]
      /\ submits[a] \in Nat
  BY <1>1, <1>2 DEF PipelineInv, TypeOK
<1>8. TypeOK'
  BY <1>1, <1>2, <1>4, <1>7 DEF PipelineInv, TypeOK
<1>9. SentForApplication'
  BY <1>1, <1>2, <1>3, <1>4 DEF PipelineInv, SentForApplication, Message, Request
<1>10. BuilderHoldsSubmitted'
  <2>1. \A p \in Consumers, m \in SubmitId : pc[p][m] = "building" =>
          request[m].application \in Application \ {a}
    BY <1>6 DEF Building, PipelineInv, SentForApplication, Message, Request
  <2> QED BY <1>1, <1>5, <1>7, <2>1 DEF PipelineInv, BuilderHoldsSubmitted
<1>11. BatchHoldsSubmitted'
  <2>1. \A t \in Tasks : task[t].batch \subseteq Application \ {a}
    BY <1>6 DEF Building, PipelineInv, TypeOK
  <2> QED BY <1>1, <1>7, <2>1 DEF PipelineInv, BatchHoldsSubmitted
<1>12. BuilderExcludesWriters'
  <2>1. \A b \in Application : Building(b)' => Building(b)
    BY <1>1, <1>5, BuildingBefore
  <2> QED BY <1>3, <1>4, <2>1, NoNewLock DEF Open
<1>13. ReportedIsBuilt' /\ DeletedIsBuilt'
  BY <1>1, <1>5, HandledStaysBuilt
<1>14. AcceptedHasPackage'
  BY <1>1, <1>7 DEF PipelineInv, AcceptedHasPackage
<1>15. PackagePerSubmit'
  <2> SUFFICES ASSUME NEW b \in Application
               PROVE  (Len(submissions[b])
                        + (IF status'[b] = "submitted" THEN 1 ELSE 0) <= submits'[b])
    BY <1>1 DEF PackagePerSubmit
  <2>1. Len(submissions[b]) + (IF status[b] = "submitted" THEN 1 ELSE 0) <= submits[b]
    BY DEF PipelineInv, PackagePerSubmit
  <2>2. Len(submissions[b]) \in Nat /\ submits[b] \in Nat
    BY DEF PipelineInv, TypeOK
  <2>3. CASE b = a
    <3>1. Len(submissions[b]) <= submits[b]
      <4>1. CASE status[b] = "submitted"
        BY <2>1, <2>2, <4>1
      <4>2. CASE status[b] # "submitted"
        BY <2>1, <2>2, <4>2
      <4> QED BY <4>1, <4>2
    <3>2. status'[b] = "submitted" /\ submits'[b] = submits[b] + 1
      BY <1>7, <2>3
    <3> QED BY <2>2, <3>1, <3>2
  <2>4. CASE b # a
    BY <1>7, <2>1, <2>4
  <2> QED BY <2>3, <2>4
<1>16. BatchesLeft'
  BY <1>1 DEF PipelineInv, BatchesLeft
<1> QED BY <1>8, <1>9, <1>10, <1>11, <1>12, <1>13, <1>14, <1>15, <1>16 DEF PipelineInv

LEMMA CommitEditKeeps ==
  ASSUME PipelineInv, NEW r \in Request, CommitEdit(r)
  PROVE  PipelineInv'
<1> DEFINE row == [request[r] EXCEPT !.at = "committed"]
<1>1. /\ r \in EditId /\ request[r].at = "validated"
      /\ form' = [form EXCEPT ![request[r].application] = r]
      /\ request' = [request EXCEPT ![r] = row]
      /\ UNCHANGED <<status, submissions, submits, history, queue, receives, pc,
                     gave_up, task>>
  BY DEF CommitEdit, sqs, threads
<1>2. request[r] \in RequestRow /\ request[r].application \in Application
  BY <1>1, OpenRow DEF Open
<1>3. /\ row \in RequestRow
      /\ row.at = "committed"
      /\ row.application = request[r].application
  BY <1>2 DEF RequestRow
<1>4. /\ request'[r] = row
      /\ \A s \in Request \ {r} : request'[s] = request[s]
      /\ request' \in [Request -> RequestRow]
  BY <1>1, <1>3 DEF PipelineInv, TypeOK
<1>5. \A m \in SubmitId : request'[m].application = request[m].application
  BY <1>3, <1>4 DEF Request
<1> HIDE DEF row
<1>6. TypeOK'
  BY <1>1, <1>2, <1>4 DEF PipelineInv, TypeOK, Content
<1>7. SentForApplication'
  BY <1>1, <1>2, <1>3, <1>4, MessagesApart
     DEF PipelineInv, SentForApplication, Message, Request
<1>8. BuilderHoldsSubmitted' /\ BatchHoldsSubmitted'
  BY <1>1, <1>5, NoNewBuilder
<1>9. BuilderExcludesWriters'
  <2>1. \A b \in Application : Building(b)' => Building(b)
    BY <1>1, <1>5, BuildingBefore
  <2> QED BY <1>3, <1>4, <2>1, NoNewLock DEF Open
<1>10. ReportedIsBuilt' /\ DeletedIsBuilt'
  BY <1>1, <1>5, HandledStaysBuilt
<1>11. BatchesLeft'
  BY <1>1 DEF PipelineInv, BatchesLeft
<1> QED BY <1>1, <1>6, <1>7, <1>8, <1>9, <1>10, <1>11, PackagesUnchanged DEF PipelineInv

-----------------------------------------------------------------------------
(* Queue, threads and task runs, while tables and requests stay the same.  *)

\* A step that starts no build, sends no submit's message and reports none.
LEMMA NoBuildStep ==
  ASSUME PipelineInv, TypeOK', BatchesLeft',
         UNCHANGED <<status, form, submissions, submits, request>>,
         \A m \in SubmitId : queue[m] # "unsent" <=> queue'[m] # "unsent",
         \A m \in SubmitId : queue'[m] = "deleted" =>
           queue[m] = "deleted" \/ \E p \in Consumers : pc[p][m] \in Deletable,
         \A p \in Consumers, m \in Message : pc'[p][m] # "idle" => queue'[m] # "unsent",
         \A p \in Consumers, m \in Message :
           pc'[p][m] = "building" => pc[p][m] = "building",
         \A p \in Consumers, m \in SubmitId :
           pc'[p][m] \in Deletable =>
             \/ pc[p][m] \in Deletable
             \/ submissions[request[m].application] # <<>>,
         \A t \in Tasks : task'[t].batch = {} \/ task'[t] = task[t]
  PROVE  PipelineInv'
<1>1. SentForApplication'
  BY DEF PipelineInv, SentForApplication
<1>2. BuilderHoldsSubmitted' /\ BatchHoldsSubmitted'
  BY NoNewBuilder DEF Message
<1>3. BuilderExcludesWriters'
  <2>1. \A b \in Application : Building(b)' => Building(b)
    BY BuildingBefore DEF Message
  <2> QED BY <2>1, NoNewLock
<1>4. ReportedIsBuilt' /\ DeletedIsBuilt'
  BY HandledStaysBuilt
<1> QED BY <1>1, <1>2, <1>3, <1>4, PackagesUnchanged DEF PipelineInv

LEMMA QueueKeeps ==
  ASSUME PipelineInv, NEW m \in Message,
         SendWorkflowEvent(m) \/ Reappear(m) \/ DeadLetter(m) \/ WorkflowManager(m)
  PROVE  PipelineInv'
<1>1. /\ UNCHANGED <<status, form, submissions, submits, request, pc, gave_up, task>>
      /\ history' \in SUBSET EventId
      /\ receives' \in [Message -> 0..MaxReceives]
  <2>1. CASE SendWorkflowEvent(m) \/ Reappear(m) \/ DeadLetter(m)
    BY <2>1 DEF SendWorkflowEvent, Reappear, DeadLetter, db, threads, PipelineInv, TypeOK
  <2>2. CASE WorkflowManager(m)
    <3>1. receives' = [receives EXCEPT ![m] = receives[m] + 1]
          /\ receives[m] < MaxReceives
      BY <2>2 DEF WorkflowManager
    <3>2. receives' \in [Message -> 0..MaxReceives]
      BY <3>1, MaxReceivesAssumption DEF PipelineInv, TypeOK
    <3>3. history' \in SUBSET EventId
      BY <2>2 DEF WorkflowManager, PipelineInv, TypeOK
    <3> QED BY <2>2, <3>2, <3>3 DEF WorkflowManager, threads
  <2> QED BY <2>1, <2>2
<1>2. \E place \in {"visible", "in_flight", "dead_letter", "deleted"} :
        /\ queue' = [queue EXCEPT ![m] = place]
        /\ queue[m] = "unsent" \/ place = "deleted" => m \in EventId
  BY DEF SendWorkflowEvent, Reappear, DeadLetter, WorkflowManager
<1>3. PICK place \in {"visible", "in_flight", "dead_letter", "deleted"} :
        /\ queue' = [queue EXCEPT ![m] = place]
        /\ queue[m] = "unsent" \/ place = "deleted" => m \in EventId
  BY <1>2
<1>4. /\ queue'[m] = place
      /\ \A n \in Message \ {m} : queue'[n] = queue[n]
      /\ m \in SubmitId => queue[m] # "unsent" /\ place # "deleted"
  BY <1>3, MessagesApart DEF PipelineInv, TypeOK
<1>5. TypeOK' /\ BatchesLeft'
  BY <1>1, <1>3 DEF PipelineInv, TypeOK, BatchesLeft
<1>6. \A n \in SubmitId : queue[n] # "unsent" <=> queue'[n] # "unsent"
  BY <1>4 DEF Message
<1>7. \A n \in SubmitId : queue'[n] = "deleted" => queue[n] = "deleted"
  BY <1>4 DEF Message
<1>8. \A p \in Consumers, n \in Message : pc'[p][n] # "idle" => queue'[n] # "unsent"
  BY <1>1, <1>4 DEF PipelineInv, SentForApplication
<1> QED BY <1>1, <1>5, <1>6, <1>7, <1>8, NoBuildStep

LEMMA FetchMessagesKeeps ==
  ASSUME PipelineInv, NEW p \in Consumers, FetchMessages(p)
  PROVE  PipelineInv'
<1>1. PICK ms \in SUBSET { m \in Message : /\ queue[m] = "visible"
                                           /\ receives[m] < MaxReceives } :
        /\ queue' = [m \in Message |-> IF m \in ms THEN "in_flight" ELSE queue[m]]
        /\ receives' = [m \in Message |->
                          IF m \in ms THEN receives[m] + 1 ELSE receives[m]]
        /\ pc' = [pc EXCEPT ![p] =
                    [m \in Message |-> IF m \in ms THEN "fetched" ELSE "idle"]]
  BY DEF FetchMessages
<1>2. UNCHANGED <<status, form, submissions, submits, history, request, gave_up, task>>
  BY DEF FetchMessages, db
<1>3. \A m \in Message : pc'[p][m] = IF m \in ms THEN "fetched" ELSE "idle"
  BY <1>1 DEF PipelineInv, TypeOK
<1>4. \A q \in Consumers \ {p}, m \in Message : pc'[q][m] = pc[q][m]
  BY <1>1 DEF PipelineInv, TypeOK
<1>5. \A m \in Message :
        /\ m \in ms => queue[m] = "visible" /\ queue'[m] = "in_flight"
        /\ m \notin ms => queue'[m] = queue[m]
  BY <1>1
<1>6. TypeOK'
  <2>1. receives' \in [Message -> 0..MaxReceives]
    BY <1>1, MaxReceivesAssumption DEF PipelineInv, TypeOK
  <2>2. queue' \in [Message -> {"unsent", "visible", "in_flight", "dead_letter", "deleted"}]
    BY <1>1 DEF PipelineInv, TypeOK
  <2>3. pc' \in [Consumers -> [Message -> {"idle", "fetched", "building"} \cup Returned]]
    BY <1>1 DEF PipelineInv, TypeOK
  <2> QED BY <1>2, <2>1, <2>2, <2>3 DEF PipelineInv, TypeOK
<1>7. BatchesLeft'
  BY <1>2 DEF PipelineInv, BatchesLeft
<1>8. \A q \in Consumers, m \in Message : pc'[q][m] # "idle" => queue'[m] # "unsent"
  BY <1>3, <1>4, <1>5 DEF PipelineInv, SentForApplication
<1>9. \A q \in Consumers, m \in Message :
        /\ pc'[q][m] = "building" => pc[q][m] = "building"
        /\ pc'[q][m] \in Deletable => pc[q][m] \in Deletable
  BY <1>3, <1>4 DEF Deletable
<1>10. \A m \in SubmitId :
         /\ queue[m] # "unsent" <=> queue'[m] # "unsent"
         /\ queue'[m] = "deleted" => queue[m] = "deleted"
  BY <1>5 DEF Message
<1> QED BY <1>2, <1>6, <1>7, <1>8, <1>9, <1>10, NoBuildStep DEF Message

\* What forgetting a batch does to the threads.
LEMMA ForgetStep ==
  ASSUME PipelineInv, NEW p \in Consumers, Forget(p)
  PROVE  /\ pc' \in [Consumers -> [Message -> {"idle", "fetched", "building"} \cup Returned]]
         /\ gave_up' \in [Consumers -> [Message -> BOOLEAN]]
         /\ \A q \in Consumers, m \in Message :
              pc'[q][m] = "idle" \/ pc'[q][m] = pc[q][m]
BY DEF Forget, PipelineInv, TypeOK

LEMMA FinishBatchKeeps ==
  ASSUME PipelineInv, NEW p \in Consumers, FinishBatch(p)
  PROVE  PipelineInv'
<1>1. PICK failed \in SUBSET ToDelete(p) :
        queue' = [m \in Message |->
                   IF m \in ToDelete(p) \ failed /\ queue[m] # "dead_letter"
                   THEN "deleted" ELSE queue[m]]
  BY DEF FinishBatch
<1>2. /\ Forget(p)
      /\ UNCHANGED <<status, form, submissions, submits, history, request, receives, task>>
  BY DEF FinishBatch, db
<1>3. \A m \in Message :
        queue'[m] = queue[m] \/ (queue'[m] = "deleted" /\ pc[p][m] \in Deletable)
  BY <1>1 DEF ToDelete
<1>4. TypeOK' /\ BatchesLeft'
  BY <1>1, <1>2, ForgetStep DEF PipelineInv, TypeOK, BatchesLeft
<1>5. \A m \in Message : pc[p][m] \in Deletable => queue[m] # "unsent"
  BY DEF PipelineInv, SentForApplication, Deletable
<1>6. \A m \in Message : queue[m] # "unsent" <=> queue'[m] # "unsent"
  BY <1>3, <1>5
<1>7. \A q \in Consumers, m \in Message : pc'[q][m] # "idle" => queue'[m] # "unsent"
  BY <1>2, <1>6, ForgetStep DEF PipelineInv, SentForApplication
<1>8. \A q \in Consumers, m \in Message :
        /\ pc'[q][m] = "building" => pc[q][m] = "building"
        /\ pc'[q][m] \in Deletable => pc[q][m] \in Deletable
  BY <1>2, ForgetStep DEF Deletable
<1>9. \A m \in SubmitId :
        /\ queue[m] # "unsent" <=> queue'[m] # "unsent"
        /\ queue'[m] = "deleted" =>
             queue[m] = "deleted" \/ \E q \in Consumers : pc[q][m] \in Deletable
  BY <1>3, <1>6 DEF Message
<1> QED BY <1>2, <1>4, <1>7, <1>8, <1>9, NoBuildStep DEF Message

LEMMA CrashKeeps ==
  ASSUME PipelineInv, NEW p \in Consumers, Crash(p)
  PROVE  PipelineInv'
<1>1. /\ Forget(p)
      /\ UNCHANGED <<status, form, submissions, submits, history, request, queue,
                     receives, task>>
  BY DEF Crash, db, sqs
<1>2. TypeOK' /\ BatchesLeft'
  BY <1>1, ForgetStep DEF PipelineInv, TypeOK, BatchesLeft
<1>3. \A q \in Consumers, m \in Message : pc'[q][m] # "idle" => queue'[m] # "unsent"
  BY <1>1, ForgetStep DEF PipelineInv, SentForApplication
<1>4. \A q \in Consumers, m \in Message :
        /\ pc'[q][m] = "building" => pc[q][m] = "building"
        /\ pc'[q][m] \in Deletable => pc[q][m] \in Deletable
  BY <1>1, ForgetStep DEF Deletable
<1> QED BY <1>1, <1>2, <1>3, <1>4, NoBuildStep DEF Message

-----------------------------------------------------------------------------
(* The threads of the consumer.                                            *)

\* One thread goes on to another place.
LEMMA ThreadStep ==
  ASSUME PipelineInv, NEW p \in Consumers, NEW m \in Message,
         NEW place \in {"building"} \cup Returned,
         pc' = [pc EXCEPT ![p][m] = place]
  PROVE  /\ pc' \in [Consumers -> [Message -> {"idle", "fetched", "building"} \cup Returned]]
         /\ pc'[p][m] = place
         /\ \A q \in Consumers, n \in Message :
              q # p \/ n # m => pc'[q][n] = pc[q][n]
BY DEF PipelineInv, TypeOK

\* The request a thread works for.
LEMMA ThreadRequest ==
  ASSUME PipelineInv, NEW p \in Consumers, NEW m \in SubmitId, pc[p][m] # "idle"
  PROVE  request[m].at # "unsent" /\ request[m].application \in Application
BY DEF PipelineInv, SentForApplication, Message, Request

\* A thread that is refused, fails, or finds nothing to build.
LEMMA NotBuiltKeeps ==
  ASSUME PipelineInv, NEW p \in Consumers, NEW m \in Message,
         NEW place \in Returned,
         pc[p][m] # "idle",
         pc' = [pc EXCEPT ![p][m] = place],
         m \in SubmitId /\ place \in Deletable =>
           submissions[request[m].application] # <<>>,
         UNCHANGED <<db, request, sqs, gave_up, task>>
  PROVE  PipelineInv'
<1>1. UNCHANGED <<status, form, submissions, submits, history, request, queue,
                  receives, gave_up, task>>
  BY DEF db, sqs
<1>2. TypeOK' /\ BatchesLeft'
  BY <1>1, ThreadStep DEF PipelineInv, TypeOK, BatchesLeft
<1>3. \A q \in Consumers, n \in Message :
        /\ pc'[q][n] # "idle" => queue'[n] # "unsent"
        /\ pc'[q][n] = "building" => pc[q][n] = "building"
        /\ pc'[q][n] \in Deletable => pc[q][n] \in Deletable \/ (n = m /\ place \in Deletable)
  <2>1. place # "building"
    BY DEF Returned, Deletable
  <2> QED BY <1>1, <2>1, ThreadStep DEF PipelineInv, SentForApplication
<1> QED BY <1>1, <1>2, <1>3, NoBuildStep DEF Message

LEMMA FailKeeps ==
  ASSUME PipelineInv, NEW p \in Consumers, NEW m \in Message, Fail(p, m)
  PROVE  PipelineInv'
<1>1. "error" \in Returned /\ "error" \notin Deletable
  BY DEF Returned, Deletable
<1> QED BY <1>1, NotBuiltKeeps DEF Fail

LEMMA GiveUpKeeps ==
  ASSUME PipelineInv, NEW p \in Consumers, NEW m \in Message, GiveUp(p, m)
  PROVE  PipelineInv'
<1>1. UNCHANGED <<status, form, submissions, submits, history, request, queue,
                  receives, pc, task>>
  BY DEF GiveUp, db, sqs
<1>2. TypeOK' /\ BatchesLeft'
  BY <1>1 DEF GiveUp, PipelineInv, TypeOK, BatchesLeft
<1>3. \A q \in Consumers, n \in Message : pc[q][n] # "idle" => queue[n] # "unsent"
  BY DEF PipelineInv, SentForApplication
<1> QED BY <1>1, <1>2, <1>3, NoBuildStep

\* A thread that gets the row lock: nobody else builds the application, and no
\* request has written to it.
LEMMA StartBuildKeeps ==
  ASSUME PipelineInv, NEW p \in Consumers, NEW m \in SubmitId,
         pc[p][m] # "idle",
         pc' = [pc EXCEPT ![p][m] = "building"],
         CanLock(request[m].application),
         status[request[m].application] = "submitted",
         UNCHANGED <<db, request, sqs, gave_up, task>>
  PROVE  PipelineInv'
<1> DEFINE a == request[m].application
<1>1. UNCHANGED <<status, form, submissions, submits, history, request, queue,
                  receives, gave_up, task>>
  BY DEF db, sqs
<1>2. m \in Message /\ a \in Application
  BY ThreadRequest DEF Message
<1>3. /\ pc' \in [Consumers -> [Message -> {"idle", "fetched", "building"} \cup Returned]]
      /\ pc'[p][m] = "building"
      /\ \A q \in Consumers, n \in Message :
           q # p \/ n # m => pc'[q][n] = pc[q][n]
  BY <1>2, ThreadStep
<1>4. TypeOK' /\ BatchesLeft'
  BY <1>1, <1>3 DEF PipelineInv, TypeOK, BatchesLeft
<1>5. SentForApplication'
  BY <1>1, <1>3 DEF PipelineInv, SentForApplication
<1>6. ~Building(a) /\ \A r \in OpenOn(a) : ~request[r].wrote
  BY DEF CanLock
<1> HIDE DEF a
<1>7. \A q \in Consumers, n \in SubmitId :
        pc'[q][n] = "building" =>
          \/ q = p /\ n = m
          \/ pc[q][n] = "building" /\ request[n].application # a
  BY <1>3, <1>6 DEF Building, Message
<1>8. \A t \in Tasks : a \notin task[t].batch
  BY <1>6 DEF Building
<1>9. request[m].application = a /\ status[a] = "submitted"
  BY DEF a
<1>10. BuilderHoldsSubmitted'
  BY <1>1, <1>7, <1>8, <1>9 DEF PipelineInv, BuilderHoldsSubmitted
<1>11. BatchHoldsSubmitted'
  BY <1>1 DEF PipelineInv, BatchHoldsSubmitted
<1>12. BuilderExcludesWriters'
  <2>1. \A b \in Application : Building(b)' => b = a \/ Building(b)
    BY <1>1, <1>7, <1>9 DEF Building
  <2> QED BY <1>1, <1>6, <2>1 DEF PipelineInv, BuilderExcludesWriters, OpenOn
<1>13. ReportedIsBuilt' /\ DeletedIsBuilt'
  BY <1>1, <1>3, HandledStaysBuilt DEF Message, Deletable
<1> QED BY <1>1, <1>4, <1>5, <1>10, <1>11, <1>12, <1>13, PackagesUnchanged DEF PipelineInv

LEMMA HandleMessageKeeps ==
  ASSUME PipelineInv, NEW p \in Consumers, NEW m \in Message, HandleMessage(p, m)
  PROVE  PipelineInv'
<1> DEFINE a == request[m].application
<1>1. pc[p][m] = "fetched" /\ UNCHANGED <<db, request, sqs, gave_up, task>>
  BY DEF HandleMessage
<1>2. CASE m \in EventId
  <2>1. pc' = [pc EXCEPT ![p][m] = "parse_error"] /\ m \notin SubmitId
    BY <1>2, MessagesApart DEF HandleMessage
  <2>2. "parse_error" \in Returned
    BY DEF Returned, Deletable
  <2> QED BY <1>1, <2>1, <2>2, NotBuiltKeeps
<1>3. CASE m \notin EventId
  <2>1. m \in SubmitId /\ pc' = [pc EXCEPT ![p][m] = Outcome(a)]
    BY <1>3 DEF HandleMessage, Message
  <2>2. a \in Application
    BY <1>1, <2>1, ThreadRequest
  <2>3. status[a] \in {"in_progress", "submitted", "accepted"}
    BY <2>2 DEF PipelineInv, TypeOK
  <2>4. CASE ~CanLock(a)
    <3>1. Outcome(a) = "locked"
      BY <2>4 DEF Outcome
    <3>2. "locked" \in Returned /\ "locked" \notin Deletable
      BY DEF Returned, Deletable
    <3> QED BY <1>1, <2>1, <3>1, <3>2, NotBuiltKeeps
  <2>5. CASE CanLock(a) /\ status[a] = "submitted"
    <3>1. Outcome(a) = "building"
      BY <2>5 DEF Outcome
    <3> QED BY <1>1, <2>1, <2>5, <3>1, StartBuildKeeps
  <2>6. CASE CanLock(a) /\ status[a] = "accepted"
    <3>1. Outcome(a) = "already_processed"
      BY <2>6 DEF Outcome
    <3>2. submissions[a] # <<>>
      BY <2>2, <2>6 DEF PipelineInv, AcceptedHasPackage
    <3>3. "already_processed" \in Returned
      BY DEF Returned, Deletable
    <3> QED BY <1>1, <2>1, <3>1, <3>2, <3>3, NotBuiltKeeps
  <2>7. CASE CanLock(a) /\ status[a] = "in_progress"
    <3>1. Outcome(a) = "not_ready"
      BY <2>7 DEF Outcome
    <3>2. "not_ready" \in Returned /\ "not_ready" \notin Deletable
      BY DEF Returned, Deletable
    <3> QED BY <1>1, <2>1, <3>1, <3>2, NotBuiltKeeps
  <2> QED BY <2>3, <2>4, <2>5, <2>6, <2>7
<1> QED BY <1>2, <1>3

\* Packages and status, stored together for applications that are submitted.
LEMMA AcceptKeepsPackages ==
  ASSUME PipelineInv, NEW accepted \in SUBSET Application,
         \A a \in accepted : status[a] = "submitted",
         Accept(accepted),
         UNCHANGED submits
  PROVE  /\ status' \in [Application -> {"in_progress", "submitted", "accepted"}]
         /\ submissions' \in [Application -> Seq(Content)]
         /\ \A a \in Application \ accepted : status'[a] = status[a]
         /\ \A a \in accepted : submissions'[a] # <<>>
         /\ \A a \in Application : submissions[a] # <<>> => submissions'[a] # <<>>
         /\ AcceptedHasPackage'
         /\ PackagePerSubmit'
<1>1. \A a \in Application :
        /\ status[a] \in {"in_progress", "submitted", "accepted"}
        /\ form[a] \in Content
        /\ submissions[a] \in Seq(Content)
        /\ submits[a] \in Nat
  BY DEF PipelineInv, TypeOK
<1>2. \A a \in accepted :
        /\ status'[a] = "accepted"
        /\ submissions'[a] = Append(submissions[a], form[a])
        /\ submissions'[a] \in Seq(Content)
        /\ Len(submissions'[a]) = Len(submissions[a]) + 1
  BY <1>1 DEF Accept
<1>3. \A a \in Application \ accepted :
        status'[a] = status[a] /\ submissions'[a] = submissions[a]
  BY DEF Accept
<1>4. \A a \in accepted : submissions'[a] # <<>>
  <2> SUFFICES ASSUME NEW a \in accepted PROVE submissions'[a] # <<>>
    OBVIOUS
  <2>1. Len(submissions'[a]) = Len(submissions[a]) + 1 /\ Len(submissions[a]) \in Nat
    BY <1>1, <1>2
  <2> QED BY <2>1
<1>5. status' \in [Application -> {"in_progress", "submitted", "accepted"}]
  BY <1>1 DEF Accept
<1>6. submissions' \in [Application -> Seq(Content)]
  <2>1. submissions' = [a \in Application |->
                         IF a \in accepted THEN Append(submissions[a], form[a])
                         ELSE submissions[a]]
    BY DEF Accept
  <2> QED BY <1>1, <1>2, <1>3, <2>1
<1>7. AcceptedHasPackage'
  BY <1>2, <1>3, <1>4 DEF PipelineInv, AcceptedHasPackage
<1>8. PackagePerSubmit'
  <2> SUFFICES ASSUME NEW b \in Application
               PROVE  (Len(submissions'[b])
                        + (IF status'[b] = "submitted" THEN 1 ELSE 0) <= submits'[b])
    BY DEF PackagePerSubmit
  <2>1. Len(submissions[b]) + (IF status[b] = "submitted" THEN 1 ELSE 0) <= submits[b]
    BY DEF PipelineInv, PackagePerSubmit
  <2>2. Len(submissions[b]) \in Nat /\ submits[b] \in Nat /\ submits'[b] = submits[b]
    BY <1>1
  <2>3. CASE b \in accepted
    <3>1. status[b] = "submitted" /\ status'[b] = "accepted"
      BY <1>2, <2>3
    <3>2. Len(submissions[b]) + 1 <= submits[b]
      BY <2>1, <3>1
    <3>3. Len(submissions'[b]) = Len(submissions[b]) + 1
      BY <1>2, <2>3
    <3> QED BY <2>2, <3>1, <3>2, <3>3
  <2>4. CASE b \notin accepted
    BY <1>3, <2>1, <2>2, <2>4
  <2> QED BY <2>3, <2>4
<1> QED BY <1>2, <1>3, <1>4, <1>5, <1>6, <1>7, <1>8

\* The commit of one package.
LEMMA BuildSubmissionKeeps ==
  ASSUME PipelineInv, NEW p \in Consumers, NEW m \in Message, BuildSubmission(p, m)
  PROVE  PipelineInv'
<1> DEFINE a == request[m].application
<1>1. /\ pc[p][m] = "building"
      /\ Accept({a})
      /\ pc' = [pc EXCEPT ![p][m] = "success"]
      /\ UNCHANGED <<form, submits, history, request, queue, receives, gave_up, task>>
  BY DEF BuildSubmission, sqs
<1>2. m \in SubmitId
  BY <1>1 DEF PipelineInv, SentForApplication
<1>3. a \in Application /\ status[a] = "submitted"
  BY <1>1, <1>2, ThreadRequest DEF PipelineInv, BuilderHoldsSubmitted
<1>4. /\ pc' \in [Consumers -> [Message -> {"idle", "fetched", "building"} \cup Returned]]
      /\ pc'[p][m] = "success"
      /\ \A q \in Consumers, n \in Message :
           q # p \/ n # m => pc'[q][n] = pc[q][n]
  <2>1. "success" \in Returned
    BY DEF Returned, Deletable
  <2> QED BY <1>1, <2>1, ThreadStep
<1>5. /\ status' \in [Application -> {"in_progress", "submitted", "accepted"}]
      /\ submissions' \in [Application -> Seq(Content)]
      /\ \A b \in Application \ {a} : status'[b] = status[b]
      /\ submissions'[a] # <<>>
      /\ \A b \in Application : submissions[b] # <<>> => submissions'[b] # <<>>
      /\ AcceptedHasPackage'
      /\ PackagePerSubmit'
  BY <1>1, <1>3, AcceptKeepsPackages
<1>6. TypeOK' /\ BatchesLeft'
  BY <1>1, <1>4, <1>5 DEF PipelineInv, TypeOK, BatchesLeft
<1>7. SentForApplication'
  BY <1>1, <1>4 DEF PipelineInv, SentForApplication
<1>8. \A q \in Consumers, n \in SubmitId :
        pc'[q][n] = "building" =>
          /\ pc[q][n] = "building"
          /\ request[n].application \in Application \ {a}
  <2> SUFFICES ASSUME NEW q \in Consumers, NEW n \in SubmitId, pc'[q][n] = "building"
               PROVE  /\ pc[q][n] = "building"
                      /\ request[n].application \in Application \ {a}
    OBVIOUS
  <2>1. pc[q][n] = "building" /\ ~(q = p /\ n = m)
    BY <1>4 DEF Message
  <2>2. request[n].application # a
    BY <1>1, <1>2, <2>1 DEF PipelineInv, BuilderHoldsSubmitted
  <2> QED BY <2>1, <2>2, ThreadRequest
<1>9. \A t \in Tasks : a \notin task[t].batch
  BY <1>1, <1>2 DEF PipelineInv, BuilderHoldsSubmitted
<1> HIDE DEF a
<1>10. BuilderHoldsSubmitted'
  BY <1>1, <1>5, <1>8 DEF PipelineInv, BuilderHoldsSubmitted
<1>11. BatchHoldsSubmitted'
  <2>1. \A t \in Tasks : task[t].batch \subseteq Application \ {a}
    BY <1>9 DEF PipelineInv, TypeOK
  <2> QED BY <1>1, <1>5, <2>1 DEF PipelineInv, BatchHoldsSubmitted
<1>12. BuilderExcludesWriters'
  <2>1. \A b \in Application : Building(b)' => Building(b)
    BY <1>1, <1>8, BuildingBefore
  <2> QED BY <1>1, <2>1, NoNewLock
<1>13. ReportedIsBuilt' /\ DeletedIsBuilt'
  <2>1. \A q \in Consumers, n \in SubmitId : pc'[q][n] \in Deletable =>
          pc[q][n] \in Deletable \/ submissions'[request'[n].application] # <<>>
    BY <1>1, <1>4, <1>5 DEF Message, a
  <2> QED BY <1>1, <1>5, <2>1, HandledStaysBuilt
<1> QED BY <1>5, <1>6, <1>7, <1>10, <1>11, <1>12, <1>13 DEF PipelineInv

-----------------------------------------------------------------------------
(* The task.                                                               *)

\* A run that is between batches afterwards.
LEMMA BetweenBatchesKeeps ==
  ASSUME PipelineInv, NEW t \in Tasks, NEW run,
         run \in [ at : {"stopped", "fetching"}, batches : 0..MaxBatches, batch : {{}} ],
         task' = [task EXCEPT ![t] = run],
         UNCHANGED <<db, request, sqs, threads>>
  PROVE  PipelineInv'
<1>1. UNCHANGED <<status, form, submissions, submits, history, request, queue,
                  receives, pc, gave_up>>
  BY DEF db, sqs, threads
<1>2. /\ run \in [ at : {"stopped", "fetching", "building"},
                   batches : 0..(MaxBatches + 1), batch : SUBSET Application ]
      /\ run.at # "building" /\ run.batches <= MaxBatches /\ run.batch = {}
  BY MaxBatchesAssumption
<1>3. /\ task'[t] = run
      /\ \A u \in Tasks \ {t} : task'[u] = task[u]
  BY DEF PipelineInv, TypeOK
<1>4. TypeOK' /\ BatchesLeft'
  BY <1>1, <1>2, <1>3 DEF PipelineInv, TypeOK, BatchesLeft
<1>5. \A u \in Tasks : task'[u].batch = {} \/ task'[u] = task[u]
  BY <1>2, <1>3
<1>6. \A q \in Consumers, n \in Message : pc[q][n] # "idle" => queue[n] # "unsent"
  BY DEF PipelineInv, SentForApplication
<1> QED BY <1>1, <1>4, <1>5, <1>6, NoBuildStep

LEMMA StartTaskKeeps ==
  ASSUME PipelineInv, NEW t \in Tasks, StartTask(t)
  PROVE  PipelineInv'
<1> DEFINE run == [Stopped EXCEPT !.at = "fetching"]
<1>1. run \in [ at : {"stopped", "fetching"}, batches : 0..MaxBatches, batch : {{}} ]
  BY MaxBatchesAssumption DEF Stopped
<1> QED BY <1>1, BetweenBatchesKeeps DEF StartTask

LEMMA CrashTaskKeeps ==
  ASSUME PipelineInv, NEW t \in Tasks, CrashTask(t)
  PROVE  PipelineInv'
<1>1. Stopped \in [ at : {"stopped", "fetching"}, batches : 0..MaxBatches, batch : {{}} ]
  BY MaxBatchesAssumption DEF Stopped
<1> QED BY <1>1, BetweenBatchesKeeps DEF CrashTask

\* The batch is fetched under row locks that nobody else held.
LEMMA FetchApplicationsKeeps ==
  ASSUME PipelineInv, NEW t \in Tasks, FetchApplications(t)
  PROVE  PipelineInv'
<1>1. PICK batch \in SUBSET { a \in Application : status[a] = "submitted" /\ CanLock(a) } :
        task' = [task EXCEPT ![t] = [at |-> "building",
                                     batches |-> task[t].batches + 1,
                                     batch |-> batch]]
  BY DEF FetchApplications
<1>2. UNCHANGED <<status, form, submissions, submits, history, request, queue,
                  receives, pc, gave_up>>
  BY DEF FetchApplications, db, sqs, threads
<1>3. /\ task'[t] = [at |-> "building", batches |-> task[t].batches + 1, batch |-> batch]
      /\ \A u \in Tasks \ {t} : task'[u] = task[u]
  BY <1>1 DEF PipelineInv, TypeOK
<1>4. TypeOK'
  <2>1. task[t].batches \in 0..MaxBatches
    BY MaxBatchesAssumption
       DEF FetchApplications, PipelineInv, TypeOK, BatchesLeft
  <2>2. task[t].batches + 1 \in 0..(MaxBatches + 1) /\ batch \in SUBSET Application
    BY <2>1, MaxBatchesAssumption
  <2>3. task' \in [Tasks -> [ at : {"stopped", "fetching", "building"},
                              batches : 0..(MaxBatches + 1), batch : SUBSET Application ]]
    BY <1>1, <2>2 DEF PipelineInv, TypeOK
  <2> QED BY <1>2, <2>3 DEF PipelineInv, TypeOK
<1>5. BatchesLeft'
  BY <1>3 DEF PipelineInv, BatchesLeft
<1>6. SentForApplication'
  BY <1>2 DEF PipelineInv, SentForApplication
<1>7. \A a \in batch :
        /\ a \in Application /\ status[a] = "submitted"
        /\ ~Building(a) /\ \A r \in OpenOn(a) : ~request[r].wrote
  BY DEF CanLock
<1>8. BuilderHoldsSubmitted'
  <2>1. \A p \in Consumers, m \in SubmitId :
          pc[p][m] = "building" => request[m].application \notin batch
    BY <1>7 DEF Building
  <2> QED BY <1>2, <1>3, <2>1 DEF PipelineInv, BuilderHoldsSubmitted
<1>9. BatchHoldsSubmitted'
  <2>1. \A u \in Tasks : task[u].batch \cap batch = {}
    BY <1>7 DEF Building
  <2> SUFFICES ASSUME NEW u \in Tasks, NEW a \in task'[u].batch
               PROVE  /\ task'[u].at = "building"
                      /\ status[a] = "submitted"
                      /\ \A v \in Tasks \ {u} : a \notin task'[v].batch
    BY <1>2 DEF BatchHoldsSubmitted
  <2>2. CASE u = t
    BY <1>3, <1>7, <2>1, <2>2
  <2>3. CASE u # t
    BY <1>3, <2>1, <2>3 DEF PipelineInv, BatchHoldsSubmitted
  <2> QED BY <2>2, <2>3
<1>10. BuilderExcludesWriters'
  <2>1. \A a \in Application : Building(a)' => Building(a) \/ a \in batch
    BY <1>2, <1>3 DEF Building
  <2> QED BY <1>2, <1>7, <2>1 DEF PipelineInv, BuilderExcludesWriters, OpenOn
<1>11. ReportedIsBuilt' /\ DeletedIsBuilt'
  BY <1>2, HandledStaysBuilt
<1> QED BY <1>2, <1>4, <1>5, <1>6, <1>8, <1>9, <1>10, <1>11, PackagesUnchanged
        DEF PipelineInv

\* The commit of a batch: what it holds locked and could build.
LEMMA CommitBatchKeeps ==
  ASSUME PipelineInv, NEW t \in Tasks, NEW built \in SUBSET Application,
         CommitBatch(t, built)
  PROVE  PipelineInv'
<1> DEFINE run == IF LastBatch(t) THEN Stopped
                  ELSE [task[t] EXCEPT !.at = "fetching", !.batch = {}]
<1>1. /\ Accept(built)
      /\ built \subseteq task[t].batch
      /\ task' = [task EXCEPT ![t] = run]
      /\ UNCHANGED <<form, submits, history, request, queue, receives, pc, gave_up>>
  BY DEF CommitBatch, AcceptBatch, Built, sqs, threads
<1>2. \A a \in built : status[a] = "submitted" /\ \A u \in Tasks \ {t} : a \notin task[u].batch
  BY <1>1 DEF PipelineInv, BatchHoldsSubmitted
<1>3. /\ status' \in [Application -> {"in_progress", "submitted", "accepted"}]
      /\ submissions' \in [Application -> Seq(Content)]
      /\ \A b \in Application \ built : status'[b] = status[b]
      /\ \A b \in Application : submissions[b] # <<>> => submissions'[b] # <<>>
      /\ AcceptedHasPackage'
      /\ PackagePerSubmit'
  BY <1>1, <1>2, AcceptKeepsPackages
<1>4. /\ run \in [ at : {"stopped", "fetching", "building"},
                   batches : 0..(MaxBatches + 1), batch : SUBSET Application ]
      /\ run.batch = {} /\ run.batches <= MaxBatches
  <2>1. task[t] \in [ at : {"stopped", "fetching", "building"},
                      batches : 0..(MaxBatches + 1), batch : SUBSET Application ]
    BY DEF PipelineInv, TypeOK
  <2>2. CASE LastBatch(t)
    BY <2>2, MaxBatchesAssumption DEF Stopped
  <2>3. CASE ~LastBatch(t)
    <3>1. task[t].batches \in 0..MaxBatches
      BY <2>1, <2>3, MaxBatchesAssumption DEF LastBatch
    <3>2. run = [at |-> "fetching", batches |-> task[t].batches, batch |-> {}]
      BY <2>1, <2>3
    <3>3. /\ run.at = "fetching" /\ run.batch = {} /\ run.batches = task[t].batches
          /\ task[t].batches \in 0..(MaxBatches + 1) /\ task[t].batches <= MaxBatches
      BY <3>1, <3>2, MaxBatchesAssumption
    <3> HIDE DEF run
    <3> QED BY <3>2, <3>3
  <2> QED BY <2>2, <2>3
<1> HIDE DEF run
<1>5. /\ task'[t] = run
      /\ \A u \in Tasks \ {t} : task'[u] = task[u]
      /\ task' \in [Tasks -> [ at : {"stopped", "fetching", "building"},
                               batches : 0..(MaxBatches + 1), batch : SUBSET Application ]]
  BY <1>1, <1>4 DEF PipelineInv, TypeOK
<1>6. TypeOK' /\ BatchesLeft'
  BY <1>1, <1>3, <1>4, <1>5 DEF PipelineInv, TypeOK, BatchesLeft
<1>7. SentForApplication'
  BY <1>1 DEF PipelineInv, SentForApplication
<1>8. \A u \in Tasks : task'[u].batch = {} \/ task'[u] = task[u]
  BY <1>4, <1>5
<1>9. BuilderHoldsSubmitted'
  <2>1. \A p \in Consumers, m \in SubmitId : pc[p][m] = "building" =>
          request[m].application \in Application \ built
    <3> SUFFICES ASSUME NEW p \in Consumers, NEW m \in SubmitId, pc[p][m] = "building"
                 PROVE  request[m].application \in Application \ built
      OBVIOUS
    <3>1. request[m].application \notin task[t].batch
      BY DEF PipelineInv, BuilderHoldsSubmitted
    <3> QED BY <1>1, <3>1, ThreadRequest
  <2> QED BY <1>1, <1>3, <1>8, <2>1 DEF PipelineInv, BuilderHoldsSubmitted
<1>10. BatchHoldsSubmitted'
  <2> SUFFICES ASSUME NEW u \in Tasks, NEW a \in task'[u].batch
               PROVE  /\ task'[u].at = "building"
                      /\ status'[a] = "submitted"
                      /\ \A v \in Tasks \ {u} : a \notin task'[v].batch
    BY DEF BatchHoldsSubmitted
  <2>1. u # t /\ task'[u] = task[u]
    BY <1>4, <1>5
  <2>2. /\ task[u].at = "building" /\ status[a] = "submitted"
        /\ \A v \in Tasks \ {u} : a \notin task[v].batch
    BY <2>1 DEF PipelineInv, BatchHoldsSubmitted
  <2>3. a \in Application \ built
    BY <1>2, <2>1 DEF PipelineInv, TypeOK
  <2> QED BY <1>3, <1>8, <2>1, <2>2, <2>3
<1>11. BuilderExcludesWriters'
  <2>1. \A b \in Application : Building(b)' => Building(b)
    BY <1>1, <1>8, BuildingBefore
  <2> QED BY <1>1, <2>1, NoNewLock
<1>12. ReportedIsBuilt' /\ DeletedIsBuilt'
  BY <1>1, <1>3, HandledStaysBuilt
<1> QED BY <1>3, <1>6, <1>7, <1>9, <1>10, <1>11, <1>12 DEF PipelineInv

-----------------------------------------------------------------------------
(* The theorems.                                                           *)

LEMMA StepPipelineInv ==
  ASSUME PipelineInv, [Next]_vars
  PROVE  PipelineInv'
<1>1. CASE \E r \in Request : Api(r)
  BY <1>1, ValidateKeeps, WriteKeeps, QueueSubmissionKeeps, CommitSubmitKeeps,
     CommitEditKeeps, AbortKeeps DEF Api
<1>2. CASE \E m \in Message :
             SendWorkflowEvent(m) \/ Reappear(m) \/ DeadLetter(m) \/ WorkflowManager(m)
  BY <1>2, QueueKeeps
<1>3. CASE \E p \in Consumers : FetchMessages(p) \/ FinishBatch(p) \/ Crash(p)
  BY <1>3, FetchMessagesKeeps, FinishBatchKeeps, CrashKeeps
<1>4. CASE \E p \in Consumers, m \in Message : Thread(p, m) \/ Fail(p, m) \/ GiveUp(p, m)
  BY <1>4, HandleMessageKeeps, BuildSubmissionKeeps, FailKeeps, GiveUpKeeps DEF Thread
<1>5. CASE \E t \in Tasks : StartTask(t) \/ FetchApplications(t) \/ CrashTask(t)
  BY <1>5, StartTaskKeeps, FetchApplicationsKeeps, CrashTaskKeeps
<1>6. CASE \E t \in Tasks, built \in SUBSET Application : CommitBatch(t, built)
  BY <1>6, CommitBatchKeeps
<1>7. CASE UNCHANGED vars
  <2>1. UNCHANGED <<status, form, submissions, submits, history, request, queue,
                    receives, pc, gave_up, task>>
    BY <1>7 DEF vars, db, sqs, threads
  <2>2. TypeOK' /\ BatchesLeft'
    BY <2>1 DEF PipelineInv, TypeOK, BatchesLeft
  <2>3. \A p \in Consumers, m \in Message : pc[p][m] # "idle" => queue[m] # "unsent"
    BY DEF PipelineInv, SentForApplication
  <2> QED BY <2>1, <2>2, <2>3, NoBuildStep
<1> QED BY <1>1, <1>2, <1>3, <1>4, <1>5, <1>6, <1>7 DEF Next

\* The pipeline keeps its inductive invariant: row locks, queue, threads and
\* packages stay consistent whatever overlaps, is lost or crashes.
THEOREM PipelineCorrect == Spec => []PipelineInv
<1>1. Init => PipelineInv
  BY InitPipelineInv
<1>2. PipelineInv /\ [Next]_vars => PipelineInv'
  BY StepPipelineInv
<1> QED BY <1>1, <1>2, PTL DEF Spec

\* Every variable keeps to its type.
THEOREM TypeCorrect == Spec => []TypeOK
<1>1. PipelineInv => TypeOK
  BY DEF PipelineInv
<1> QED BY <1>1, PipelineCorrect, PTL

\* At most one package is built for each time an application was submitted, by
\* however many consumers, deliveries and runs of the task.
THEOREM NoSecondPackage == Spec => []PackagePerSubmit
<1>1. PipelineInv => PackagePerSubmit
  BY DEF PipelineInv
<1> QED BY <1>1, PipelineCorrect, PTL

\* An application is accepted only with its package.
THEOREM AcceptedOnlyWithPackage == Spec => []AcceptedHasPackage
<1>1. PipelineInv => AcceptedHasPackage
  BY DEF PipelineInv
<1> QED BY <1>1, PipelineCorrect, PTL

\* The message of a submit leaves the queue for good only when the package exists.
THEOREM NoSubmitForgotten == Spec => []DeletedIsBuilt
<1>1. PipelineInv => DeletedIsBuilt
  BY DEF PipelineInv
<1> QED BY <1>1, PipelineCorrect, PTL

-----------------------------------------------------------------------------
(* The contract, for every application whose requests have not overlapped.   *)

\* Who works on which application, and that they have overlapped, stays so.
LEMMA OverlapStays ==
  ASSUME \A r \in Request :
           request'[r] # request[r] =>
             \/ request[r].at = "unsent"
             \/ /\ request'[r].at # "unsent"
                /\ request'[r].application = request[r].application
                /\ request'[r].overlaps = request[r].overlaps
  PROVE  Overlapped \subseteq Overlapped'
BY DEF Overlapped

\* A step that opens no request and moves no application out of progress.
LEMMA StaysAlone ==
  ASSUME OpenIsAlone,
         Overlapped \subseteq Overlapped',
         \A r \in Request :
           request'[r].at \in Open =>
             request[r].at \in Open /\ request'[r].application = request[r].application,
         \A r \in Request :
           request'[r].at \in Open /\ status[request[r].application] = "in_progress" =>
             status'[request[r].application] = "in_progress"
  PROVE  OpenIsAlone'
BY DEF OpenIsAlone, InProgress

\* What every step does to the applications whose requests have not overlapped.
KeepsContract ==
  /\ Overlapped \subseteq Overlapped'
  /\ \A a \in Application \ Overlapped' : [Contract(a)!Next]_(Contract(a)!vars)

\* A step that leaves the tables and the requests alone.
LEMMA TablesStutter ==
  ASSUME PipelineInv, OpenIsAlone, UNCHANGED <<status, form, submissions, request>>
  PROVE  KeepsContract /\ OpenIsAlone'
<1>1. Overlapped' = Overlapped
  BY DEF Overlapped
<1>2. KeepsContract
  BY <1>1 DEF KeepsContract, Contract!vars
<1> QED BY <1>1, <1>2, StaysAlone

\* Builders accept applications that are submitted, each in one step of its own
\* contract.
LEMMA AcceptRefines ==
  ASSUME PipelineInv, NEW accepted \in SUBSET Application,
         \A a \in accepted : status[a] = "submitted",
         Accept(accepted),
         UNCHANGED <<form, request>>,
         OpenIsAlone
  PROVE  KeepsContract /\ OpenIsAlone'
<1>1. \A a \in accepted : Contract(a)!Accept
  BY DEF Accept, Contract!Accept
<1>2. \A a \in Application \ accepted : UNCHANGED Contract(a)!vars
  BY DEF Accept, Contract!vars
<1>3. Overlapped' = Overlapped
  BY DEF Overlapped
<1>4. KeepsContract
  BY <1>1, <1>2, <1>3 DEF KeepsContract, Contract!Next
<1>5. \A r \in Request : request[r].at \in Open => request[r].application \in Application
  BY DEF PipelineInv, SentForApplication, Open
<1>6. OpenIsAlone'
  BY <1>3, <1>5, StaysAlone DEF Accept
<1> QED BY <1>4, <1>6

\* A request that begins while another is open is what the contract excepts.
LEMMA ValidateRefines ==
  ASSUME PipelineInv, OpenIsAlone, NEW r \in Request, NEW a \in Application, Validate(r, a)
  PROVE  KeepsContract /\ OpenIsAlone'
<1>1. /\ UNCHANGED <<status, form, submissions>>
      /\ request[r].at = "unsent"
      /\ status[a] = "in_progress"
      /\ request'[r] = [at |-> "validated", application |-> a, wrote |-> FALSE,
                        overlaps |-> OpenOn(a) # {}]
      /\ \A s \in Request \ {r} : request'[s] = request[s]
  BY DEF Validate, InProgress, db, PipelineInv, TypeOK
<1>2. Overlapped \subseteq Overlapped'
  BY <1>1, OverlapStays
<1>3. KeepsContract
  BY <1>1, <1>2 DEF KeepsContract, Contract!vars
<1>4. \A s \in Request \ {r} :
        request[s].at \in Open /\ request[s].application = a => a \in Overlapped'
  <2> SUFFICES ASSUME OpenOn(a) # {} PROVE a \in Overlapped'
    BY DEF OpenOn
  <2>1. (OpenOn(a) # {}) = TRUE
    OBVIOUS
  <2>2. request'[r] = [at |-> "validated", application |-> a, wrote |-> FALSE,
                       overlaps |-> TRUE]
    BY <1>1, <2>1, Zenon
  <2> QED BY <2>2 DEF Overlapped
<1>5. request'[r].application = a
  BY <1>1
<1>6. OpenIsAlone'
  BY <1>1, <1>2, <1>4, <1>5 DEF OpenIsAlone, InProgress
<1> QED BY <1>3, <1>6

\* The commit of a submit, which is the only open request of its application, or
\* one of an application that is excepted.
LEMMA CommitSubmitRefines ==
  ASSUME PipelineInv, OpenIsAlone, NEW r \in SubmitId, CommitSubmit(r)
  PROVE  KeepsContract /\ OpenIsAlone'
<1> DEFINE a == request[r].application
<1>1. /\ r \in Request /\ a \in Application
      /\ request[r].at \in Open
  BY OpenRow DEF CommitSubmit, Request, Open
<1>2. /\ status' = [status EXCEPT ![a] = "submitted"]
      /\ request' = [request EXCEPT ![r].at = "committed"]
      /\ UNCHANGED <<form, submissions>>
  BY DEF CommitSubmit
<1>3. \A s \in Request :
        /\ request'[s].application = request[s].application
        /\ request'[s].overlaps = request[s].overlaps
        /\ request'[s].at \in Open => s # r /\ request[s].at \in Open
        /\ request'[s].at = "unsent" <=> request[s].at = "unsent"
  BY <1>1, <1>2 DEF Open, PipelineInv, TypeOK, RequestRow
<1>4. Overlapped' = Overlapped
  BY <1>3 DEF Overlapped
<1>5. \A b \in Application \ {a} : status'[b] = status[b]
  BY <1>2 DEF PipelineInv, TypeOK
<1>6. a \notin Overlapped => status[a] = "in_progress" /\ status'[a] = "submitted"
  BY <1>1, <1>2 DEF OpenIsAlone, InProgress, PipelineInv, TypeOK
<1>7. KeepsContract
  <2> SUFFICES ASSUME NEW b \in Application \ Overlapped
               PROVE  [Contract(b)!Next]_(Contract(b)!vars)
    BY <1>4 DEF KeepsContract
  <2>1. CASE b = a
    <3>1. Contract(b)!Submit
      BY <1>2, <1>6, <2>1 DEF Contract!Submit
    <3> QED BY <3>1 DEF Contract!Next
  <2>2. CASE b # a
    BY <1>2, <1>5, <2>2 DEF Contract!vars
  <2> QED BY <2>1, <2>2
<1>8. OpenIsAlone'
  <2>1. \A s \in Request : request[s].at \in Open => request[s].application \in Application
    BY OpenRow
  <2> QED BY <1>1, <1>3, <1>4, <1>5, <2>1 DEF OpenIsAlone, InProgress
<1> QED BY <1>7, <1>8

LEMMA CommitEditRefines ==
  ASSUME PipelineInv, OpenIsAlone, NEW r \in EditId, CommitEdit(r)
  PROVE  KeepsContract /\ OpenIsAlone'
<1> DEFINE a == request[r].application
<1>1. /\ r \in Request /\ a \in Application /\ r \in Content
      /\ request[r].at \in Open
  BY OpenRow DEF CommitEdit, Request, Open, Content
<1>2. /\ form' = [form EXCEPT ![a] = r]
      /\ request' = [request EXCEPT ![r].at = "committed"]
      /\ UNCHANGED <<status, submissions>>
  BY DEF CommitEdit
<1>3. \A s \in Request :
        /\ request'[s].application = request[s].application
        /\ request'[s].overlaps = request[s].overlaps
        /\ request'[s].at \in Open => request[s].at \in Open
        /\ request'[s].at = "unsent" <=> request[s].at = "unsent"
  BY <1>1, <1>2 DEF Open, PipelineInv, TypeOK, RequestRow
<1>4. Overlapped' = Overlapped
  BY <1>3 DEF Overlapped
<1>5. /\ form'[a] = r
      /\ \A b \in Application \ {a} : form'[b] = form[b]
  BY <1>1, <1>2 DEF PipelineInv, TypeOK
<1>6. a \notin Overlapped => status[a] = "in_progress"
  BY <1>1 DEF OpenIsAlone, InProgress
<1>7. KeepsContract
  <2> SUFFICES ASSUME NEW b \in Application \ Overlapped
               PROVE  [Contract(b)!Next]_(Contract(b)!vars)
    BY <1>4 DEF KeepsContract
  <2>1. CASE b = a
    <3>1. Contract(b)!Edit(r)
      BY <1>2, <1>5, <1>6, <2>1 DEF Contract!Edit
    <3> QED BY <1>1, <3>1 DEF Contract!Next
  <2>2. CASE b # a
    BY <1>2, <1>5, <2>2 DEF Contract!vars
  <2> QED BY <2>1, <2>2
<1>8. OpenIsAlone'
  BY <1>2, <1>3, <1>4, StaysAlone
<1> QED BY <1>7, <1>8

LEMMA ApiRefines ==
  ASSUME PipelineInv, OpenIsAlone, NEW r \in Request, Api(r)
  PROVE  KeepsContract /\ OpenIsAlone'
<1>1. CASE \E a \in Application : Validate(r, a)
  BY <1>1, ValidateRefines
<1>2. CASE Write(r) \/ QueueSubmission(r) \/ Abort(r)
  <2>1. UNCHANGED <<status, form, submissions>>
    BY <1>2 DEF Write, QueueSubmission, Abort, db
  <2>2. \A s \in Request :
          /\ request'[s].application = request[s].application
          /\ request'[s].overlaps = request[s].overlaps
          /\ request'[s].at \in Open => request[s].at \in Open
          /\ request'[s].at = "unsent" <=> request[s].at = "unsent"
    <3>1. CASE Write(r)
      BY <3>1 DEF Write, PipelineInv, TypeOK, RequestRow
    <3>2. CASE QueueSubmission(r)
      BY <3>2 DEF QueueSubmission, Open, PipelineInv, TypeOK, RequestRow
    <3>3. CASE Abort(r)
      BY <3>3 DEF Abort, Open, PipelineInv, TypeOK, RequestRow
    <3> QED BY <1>2, <3>1, <3>2, <3>3
  <2>3. Overlapped' = Overlapped
    BY <2>2 DEF Overlapped
  <2>4. KeepsContract
    BY <2>1, <2>3 DEF KeepsContract, Contract!vars
  <2> QED BY <2>1, <2>2, <2>3, <2>4, StaysAlone
<1>3. CASE CommitSubmit(r)
  BY <1>3, CommitSubmitRefines DEF CommitSubmit
<1>4. CASE CommitEdit(r)
  BY <1>4, CommitEditRefines DEF CommitEdit
<1> QED BY <1>1, <1>2, <1>3, <1>4 DEF Api

\* Every step of the pipeline is, for each application whose requests have not
\* overlapped, a step of the contract or one that leaves its tables alone.
LEMMA StepRefines ==
  ASSUME PipelineInv, OpenIsAlone, [Next]_vars
  PROVE  KeepsContract /\ OpenIsAlone'
<1>1. CASE \E r \in Request : Api(r)
  BY <1>1, ApiRefines
<1>2. CASE UNCHANGED <<status, form, submissions, request>>
  BY <1>2, TablesStutter
<1>3. CASE \E m \in Message :
             SendWorkflowEvent(m) \/ Reappear(m) \/ DeadLetter(m) \/ WorkflowManager(m)
  BY <1>2, <1>3 DEF SendWorkflowEvent, Reappear, DeadLetter, WorkflowManager, db
<1>4. CASE \E p \in Consumers : FetchMessages(p) \/ FinishBatch(p) \/ Crash(p)
  BY <1>2, <1>4 DEF FetchMessages, FinishBatch, Crash, db
<1>5. CASE \E p \in Consumers, m \in Message : HandleMessage(p, m) \/ Fail(p, m) \/ GiveUp(p, m)
  BY <1>2, <1>5 DEF HandleMessage, Fail, GiveUp, db
<1>6. CASE \E t \in Tasks : StartTask(t) \/ FetchApplications(t) \/ CrashTask(t)
  BY <1>2, <1>6 DEF StartTask, FetchApplications, CrashTask, db
<1>7. CASE \E p \in Consumers, m \in Message : BuildSubmission(p, m)
  <2>1. PICK p \in Consumers, m \in Message : BuildSubmission(p, m)
    BY <1>7
  <2>2. m \in SubmitId
    BY <2>1 DEF BuildSubmission, PipelineInv, SentForApplication
  <2>3. /\ request[m].application \in Application
        /\ status[request[m].application] = "submitted"
    BY <2>1, <2>2, ThreadRequest DEF BuildSubmission, PipelineInv, BuilderHoldsSubmitted
  <2> QED BY <2>1, <2>3, AcceptRefines DEF BuildSubmission
<1>8. CASE \E t \in Tasks, built \in SUBSET Application : CommitBatch(t, built)
  <2>1. PICK t \in Tasks, built \in SUBSET Application : CommitBatch(t, built)
    BY <1>8
  <2>2. Accept(built) /\ built \subseteq task[t].batch /\ UNCHANGED <<form, request>>
    BY <2>1 DEF CommitBatch, AcceptBatch, Built
  <2>3. \A a \in built : status[a] = "submitted"
    BY <2>2 DEF PipelineInv, BatchHoldsSubmitted
  <2> QED BY <2>2, <2>3, AcceptRefines
<1>9. CASE UNCHANGED vars
  BY <1>2, <1>9 DEF vars, db
<1> QED BY <1>1, <1>3, <1>4, <1>5, <1>6, <1>7, <1>8, <1>9 DEF Next, Thread

LEMMA InitRefines ==
  ASSUME Init
  PROVE  (\A a \in Application : Contract(a)!Init) /\ OpenIsAlone
BY DEF Init, Contract!Init, Content, OpenIsAlone, NoRequest, Open

\* In every behaviour of the pipeline each application keeps the contract for as
\* long as no two of its requests have been open at once: edited while in
\* progress, submitted once, accepted with a package, whatever the queue, the
\* threads, the task and the requests for other applications do.
THEOREM LifecycleImplemented == Spec => ImplementsLifecycle
<1>1. Init => (\A a \in Application : Contract(a)!Init) /\ OpenIsAlone
  BY InitRefines
<1>2. PipelineInv /\ OpenIsAlone /\ [Next]_vars => KeepsContract /\ OpenIsAlone'
  BY StepRefines
<1>3. KeepsContract =>
        \A a \in Application \ Overlapped' : [Contract(a)!Next]_(Contract(a)!vars)
  BY DEF KeepsContract
<1> QED BY <1>1, <1>2, <1>3, PipelineCorrect, PTL DEF Spec, ImplementsLifecycle

\* The contract's package: an abstract step keeps it.
LEMMA ContractKeepsPackage ==
  ASSUME TypeOK, NEW a \in Application, Contract(a)!OnePackage,
         [Contract(a)!Next]_(Contract(a)!vars)
  PROVE  Contract(a)!OnePackage'
<1>1. CASE \E content \in Content : Contract(a)!Edit(content)
  BY <1>1 DEF Contract!Edit, Contract!OnePackage
<1>2. CASE Contract(a)!Submit
  BY <1>2 DEF Contract!Submit, Contract!OnePackage
<1>3. CASE Contract(a)!Accept
  <2>1. submissions[a] = <<>> /\ submissions'[a] = Append(submissions[a], form[a])
    BY <1>3 DEF Contract!Accept, Contract!OnePackage
  <2>2. submissions'[a] = <<form[a]>>
    BY <2>1
  <2> QED BY <1>3, <2>2 DEF Contract!Accept, Contract!OnePackage
<1>4. CASE UNCHANGED Contract(a)!vars
  BY <1>4 DEF Contract!vars, Contract!OnePackage
<1> QED BY <1>1, <1>2, <1>3, <1>4 DEF Contract!Next

\* And then an accepted application has exactly one package, with the forms the
\* applicant sees.
THEOREM OnePackageHolds == Spec => []OnePackage
<1>1. Init => OnePackage
  BY DEF Init, OnePackage, Contract!OnePackage
<1>2. PipelineInv /\ OpenIsAlone /\ OnePackage /\ [Next]_vars => OnePackage' /\ OpenIsAlone'
  <2> SUFFICES ASSUME PipelineInv, OpenIsAlone, OnePackage, [Next]_vars
               PROVE  OnePackage' /\ OpenIsAlone'
    OBVIOUS
  <2>1. KeepsContract /\ OpenIsAlone'
    BY StepRefines
  <2>2. Overlapped \subseteq Overlapped'
    BY <2>1 DEF KeepsContract
  <2>3. TypeOK
    BY DEF PipelineInv
  <2>4. \A a \in Application \ Overlapped' : Contract(a)!OnePackage'
    <3> SUFFICES ASSUME NEW a \in Application \ Overlapped'
                 PROVE  Contract(a)!OnePackage'
      OBVIOUS
    <3>1. Contract(a)!OnePackage
      BY <2>2 DEF OnePackage
    <3>2. [Contract(a)!Next]_(Contract(a)!vars)
      BY <2>1 DEF KeepsContract
    <3> QED BY <2>3, <3>1, <3>2, ContractKeepsPackage
  <2>5. OnePackage'
    BY <2>4 DEF OnePackage
  <2> QED BY <2>1, <2>5
<1>3. Init => OpenIsAlone
  BY InitRefines
<1> QED BY <1>1, <1>2, <1>3, PipelineCorrect, PTL DEF Spec
=============================================================================
