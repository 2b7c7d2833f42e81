------------------------ MODULE WorkflowServiceProofs ------------------------
(***************************************************************************)
(* What the event history guarantees, for any number of events, managers    *)
(* and deliveries; and, of workflows whose transactions never overlapped,   *)
(* that the audit trail is whole and the abstract review is implemented.    *)
(***************************************************************************)
EXTENDS WorkflowService, FiniteSetTheorems, TLAPS

-----------------------------------------------------------------------------
(* Facts about the review that the service rests on.                       *)

\* Every event joins two states of the machine.
LEMMA EventJoinsStates ==
  \A name \in EventName : Source[name] \in State /\ Onward[name] \in State
BY DEF EventName, StepEvent, ApprovalEvent, State, Source, Onward

\* The stages a state has behind it are approval events, and its status is one.
LEMMA StateTypes ==
  \A s \in State : Passed[s] \subseteq ApprovalEvent /\ StatusOf(s) \in Status
BY DEF State, Passed, ApprovalEvent, StatusOf, Status

\* A well-formed event leads to a state, keeps the status a status, and does
\* not lead to the absent row.
LEMMA EventTypes ==
  ASSUME NEW e \in EventId, WellFormed(e)
  PROVE  /\ body[e].name \in EventName
         /\ body[e].workflow \in WorkflowId
         /\ body[e].user \in Users
         /\ Target(body[e]) \in State
         /\ \A s \in Status : NewStatus(body[e], s) \in Status
<1>1. /\ body[e].name \in EventName
      /\ body[e].workflow \in WorkflowId
      /\ body[e].user \in Users
  BY NamesAssumption DEF WellFormed, Body
<1>2. Target(body[e]) \in State
  BY <1>1, EventJoinsStates DEF Target, State
<1>3. \A s \in Status : NewStatus(body[e], s) \in Status
  BY <1>1 DEF NewStatus, OnStatus, Status
<1> QED BY <1>1, <1>2, <1>3

\* A row of the workflow table in a state of the machine is not the absent row.
LEMMA RowPresent ==
  \A s \in State, b \in BOOLEAN :
    /\ [state |-> s, is_active |-> b] \in WorkflowRow
    /\ [state |-> s, is_active |-> b] # NoRow
BY DEF State, WorkflowRow, NoRow

\* Both columns of a row, the absent one's too, have values of their types.
LEMMA RowColumns ==
  ASSUME NEW row \in WorkflowRow
  PROVE  row.state \in State \cup {"absent"} /\ row.is_active \in BOOLEAN
<1>1. CASE row = NoRow
  BY <1>1 DEF NoRow
<1>2. CASE row \in [state : State, is_active : BOOLEAN]
  BY <1>2
<1> QED BY <1>1, <1>2 DEF WorkflowRow

-----------------------------------------------------------------------------
(* The invariant holds initially.                                          *)

LEMMA InitServiceInv ==
  ASSUME Init
  PROVE  ServiceInv
<1>1. PICK s \in InitialStates : \E reviewer \in [Passed[s] -> Users] :
        /\ workflow = [ w \in WorkflowId |->
                          IF w = FirstWorkflow /\ s # "start"
                          THEN [state |-> s, is_active |-> ~IsFinal(s)]
                          ELSE NoRow ]
        /\ status = StatusOf(s)
        /\ approvals = { [ id |-> t, workflow |-> FirstWorkflow,
                           user |-> reviewer[t], type |-> t,
                           response |-> "approved", valid |-> TRUE ]
                         : t \in Passed[s] }
  BY DEF Init
<1>2. PICK reviewer \in [Passed[s] -> Users] :
        /\ workflow = [ w \in WorkflowId |->
                          IF w = FirstWorkflow /\ s # "start"
                          THEN [state |-> s, is_active |-> ~IsFinal(s)]
                          ELSE NoRow ]
        /\ status = StatusOf(s)
        /\ approvals = { [ id |-> t, workflow |-> FirstWorkflow,
                           user |-> reviewer[t], type |-> t,
                           response |-> "approved", valid |-> TRUE ]
                         : t \in Passed[s] }
  BY <1>1
<1>3. s \in State /\ Passed[s] \subseteq ApprovalEvent /\ StatusOf(s) \in Status
  BY StateTypes, InitialStatesAssumption
<1>4. workflow \in [WorkflowId -> WorkflowRow]
  BY <1>2, <1>3, RowPresent DEF IsFinal, WorkflowRow
<1>5. approvals \in SUBSET ApprovalRows
  <2> DEFINE row(t) == [ id |-> t, workflow |-> FirstWorkflow,
                         user |-> reviewer[t], type |-> t,
                         response |-> "approved", valid |-> TRUE ]
  <2>1. ASSUME NEW t \in Passed[s]
        PROVE  row(t) \in ApprovalRows
    <3>1. t \in ApprovalEvent /\ reviewer[t] \in Users
      BY <1>3
    <3> QED BY <3>1 DEF ApprovalRows, WorkflowId
  <2>2. approvals = { row(t) : t \in Passed[s] }
    BY <1>2
  <2> QED BY <2>1, <2>2
<1>6. /\ audits = <<>>
      /\ history = [e \in EventId |-> "none"]
      /\ body = [e \in EventId |-> NoEvent]
      /\ queue = [e \in EventId |-> "unsent"]
      /\ receives = [e \in EventId |-> 0]
      /\ pc = [p \in Managers |-> [e \in EventId |-> "idle"]]
      /\ view = [p \in Managers |-> [e \in EventId |-> NoView]]
      /\ gave_up = [p \in Managers |-> [e \in EventId |-> FALSE]]
      /\ raced = {}
  BY DEF Init
<1>7. NoView \in View
  BY DEF NoView, View, Status
<1>8. TypeOK
  <2>1. body \in [EventId -> Body \cup {NoEvent}]
    BY <1>6
  <2>2. queue \in [EventId -> {"unsent", "visible", "in_flight", "dead_letter",
                               "deleted"}]
    BY <1>6
  <2>3. receives \in [EventId -> 0..MaxReceives]
    BY <1>6, MaxReceivesAssumption
  <2>4. status \in Status
    BY <1>2, <1>3
  <2>5. audits \in Seq(Audit)
    BY <1>6
  <2>6. history \in [EventId -> {"none", "success", "failed"}]
    BY <1>6
  <2>7. pc \in [Managers -> [EventId -> {"idle"} \cup Running \cup Returned]]
    BY <1>6
  <2>8. view \in [Managers -> [EventId -> View]]
    BY <1>6, <1>7
  <2>9. gave_up \in [Managers -> [EventId -> BOOLEAN]]
    BY <1>6
  <2>10. raced \subseteq WorkflowId
    BY <1>6
  <2> QED BY <1>4, <1>5, <2>1, <2>2, <2>3, <2>4, <2>5, <2>6, <2>7, <2>8, <2>9,
             <2>10 DEF TypeOK
<1>9. SentBeforeHandled
  BY <1>6 DEF SentBeforeHandled
<1>10. OpenTransactions /\ ReportedIsStored
  BY <1>6 DEF OpenTransactions, ReportedIsStored, InTransaction, Deletable
<1>11. CreatedByStart
  BY <1>2, FirstWorkflowAssumption DEF CreatedByStart, Exists, WorkflowId
<1>12. StoredBeforeDelete /\ AppliedOnce
  BY <1>6 DEF StoredBeforeDelete, AppliedOnce
<1>13. EffectsMatchHistory
  <2>1. \A a \in approvals : a.id \in ApprovalEvent
    BY <1>5, <1>2, <1>3
  <2>2. DOMAIN audits = {}
    BY <1>6
  <2> QED BY <1>6, <2>1, <2>2, EventIdAssumption DEF EffectsMatchHistory
<1> QED BY <1>8, <1>9, <1>10, <1>11, <1>12, <1>13 DEF ServiceInv

-----------------------------------------------------------------------------
(* Steps that leave the tables and the sent events alone.                  *)

\* What is said about the tables alone stays true while they do not change.
LEMMA TablesUnchanged ==
  ASSUME ServiceInv, UNCHANGED <<body, db>>
  PROVE  /\ CreatedByStart'
         /\ AppliedOnce'
         /\ EffectsMatchHistory'
         /\ \A e \in EventId : WellFormed(e) => WellFormed(e)'
         /\ \A w \in WorkflowId : Exists(w)' <=> Exists(w)
         /\ body' \in [EventId -> Body \cup {NoEvent}]
         /\ workflow' \in [WorkflowId -> WorkflowRow]
         /\ status' \in Status
         /\ approvals' \in SUBSET ApprovalRows
         /\ audits' \in Seq(Audit)
         /\ history' \in [EventId -> {"none", "success", "failed"}]
<1> USE DEF ServiceInv, db
<1>1. CreatedByStart'
  BY DEF CreatedByStart, Exists
<1>2. AppliedOnce'
  BY DEF AppliedOnce
<1>3. EffectsMatchHistory'
  BY DEF EffectsMatchHistory
<1>4. \A e \in EventId : WellFormed(e) => WellFormed(e)'
  BY DEF WellFormed
<1>5. \A w \in WorkflowId : Exists(w)' <=> Exists(w)
  BY DEF Exists
<1> QED BY <1>1, <1>2, <1>3, <1>4, <1>5 DEF TypeOK

\* SQS moves a sent message, or a manager deletes one that is stored.
LEMMA QueueStep ==
  ASSUME ServiceInv,
         UNCHANGED <<body, db, threads, raced>>,
         receives' = receives,
         queue' \in [EventId -> {"unsent", "visible", "in_flight",
                                 "dead_letter", "deleted"}],
         \A e \in EventId :
           /\ queue'[e] = "unsent" <=> queue[e] = "unsent"
           /\ queue'[e] = "deleted" => queue[e] = "deleted" \/ history[e] # "none"
  PROVE  ServiceInv'
<1>1. TypeOK'
  BY TablesUnchanged DEF ServiceInv, TypeOK, threads
<1>2. SentBeforeHandled'
  BY TablesUnchanged DEF ServiceInv, SentBeforeHandled, threads, db
<1>3. OpenTransactions'
  BY TablesUnchanged DEF ServiceInv, OpenTransactions, Exists, threads, db
<1>4. ReportedIsStored'
  BY DEF ServiceInv, ReportedIsStored, threads, db
<1>5. StoredBeforeDelete'
  BY DEF ServiceInv, StoredBeforeDelete, db
<1> QED BY <1>1, <1>2, <1>3, <1>4, <1>5, TablesUnchanged DEF ServiceInv

\* A step of threads that opens no transaction: every thread keeps its place,
\* has none, or is where a message was fetched, rejected or given back.
LEMMA ThreadsStep ==
  ASSUME ServiceInv,
         UNCHANGED <<body, db, raced>>,
         receives' \in [EventId -> 0..MaxReceives],
         queue' \in [EventId -> {"unsent", "visible", "in_flight",
                                 "dead_letter", "deleted"}],
         gave_up' \in [Managers -> [EventId -> BOOLEAN]],
         view' \in [Managers -> [EventId -> View]],
         pc' \in [Managers -> [EventId -> {"idle"} \cup Running \cup Returned]],
         \A e \in EventId :
           /\ queue'[e] = "unsent" <=> queue[e] = "unsent"
           /\ queue'[e] = "deleted" => queue[e] = "deleted" \/ history[e] # "none",
         \A p \in Managers, e \in EventId :
           \/ pc'[p][e] = pc[p][e] /\ view'[p][e] = view[p][e]
           \/ pc'[p][e] = "idle"
           \/ pc'[p][e] \in {"submitted", "rejected", "error"} /\ queue[e] # "unsent"
  PROVE  ServiceInv'
<1>1. TypeOK'
  BY TablesUnchanged DEF ServiceInv, TypeOK
<1>2. SentBeforeHandled'
  <2> SUFFICES ASSUME NEW e \in EventId
               PROVE  /\ queue'[e] # "unsent" => WellFormed(e)'
                      /\ queue'[e] = "unsent" =>
                           /\ history'[e] = "none"
                           /\ \A p \in Managers : pc'[p][e] = "idle"
    BY DEF SentBeforeHandled
  <2>1. queue'[e] # "unsent" => WellFormed(e)'
    BY TablesUnchanged DEF ServiceInv, SentBeforeHandled
  <2>2. queue'[e] = "unsent" => /\ history'[e] = "none"
                                /\ \A p \in Managers : pc'[p][e] = "idle"
    BY DEF ServiceInv, SentBeforeHandled, db
  <2> QED BY <2>1, <2>2
<1>3. \A p \in Managers, e \in EventId :
        pc'[p][e] \in InTransaction \cup Deletable =>
          pc'[p][e] = pc[p][e] /\ view'[p][e] = view[p][e]
  BY DEF InTransaction, Deletable
<1>4. OpenTransactions'
  <2> SUFFICES ASSUME NEW p \in Managers, NEW e \in EventId,
                      pc'[p][e] \in InTransaction
               PROVE  /\ history'[e] = "none"
                      /\ \A q \in Managers \ {p} : pc'[q][e] \notin InTransaction
                      /\ view'[p][e].state \in State
                      /\ body'[e].name # "start_workflow" =>
                           Exists(body[e].workflow)'
    BY DEF OpenTransactions
  <2>1. pc[p][e] \in InTransaction /\ view'[p][e] = view[p][e]
    BY <1>3
  <2>2. \A q \in Managers \ {p} : pc'[q][e] \notin InTransaction
    BY <2>1, <1>3 DEF ServiceInv, OpenTransactions
  <2> QED BY <2>1, <2>2 DEF ServiceInv, OpenTransactions, Exists, db
<1>5. ReportedIsStored'
  BY <1>3 DEF ServiceInv, ReportedIsStored, db
<1>6. StoredBeforeDelete'
  BY DEF ServiceInv, StoredBeforeDelete, db
<1> QED BY <1>1, <1>2, <1>4, <1>5, <1>6, TablesUnchanged DEF ServiceInv

-----------------------------------------------------------------------------
(* The actions of queue, manager and API.                                  *)

\* Sending an event touches nothing that a thread, a table or another event
\* is about: the event had neither a thread nor a history row.
LEMMA SendKeeps ==
  ASSUME ServiceInv, NEW e \in EventId, NEW ev \in Body, Send(e, ev),
         ev.name = "start_workflow" => ev.workflow = e,
         ev.name \in ApprovalEvent => ev.response # "none"
  PROVE  ServiceInv'
<1> USE DEF ServiceInv
<1>1. /\ queue[e] = "unsent"
      /\ body' = [body EXCEPT ![e] = ev]
      /\ queue' = [queue EXCEPT ![e] = "visible"]
      /\ UNCHANGED <<receives, db, threads, raced>>
  BY DEF Send
<1>2. /\ history[e] = "none"
      /\ \A p \in Managers : pc[p][e] = "idle"
  BY <1>1 DEF SentBeforeHandled
<1>3. \A f \in EventId \ {e} : body'[f] = body[f] /\ queue'[f] = queue[f]
  BY <1>1 DEF TypeOK
<1>4. body'[e] = ev /\ queue'[e] = "visible"
  BY <1>1 DEF TypeOK
<1>5. TypeOK'
  BY <1>1 DEF TypeOK, db, threads
<1>6. SentBeforeHandled'
  <2>1. WellFormed(e)'
    BY <1>4 DEF WellFormed
  <2>2. \A f \in EventId \ {e} : WellFormed(f)' <=> WellFormed(f)
    BY <1>3 DEF WellFormed
  <2> QED BY <1>1, <1>3, <1>4, <2>1, <2>2 DEF SentBeforeHandled, db, threads
<1>7. OpenTransactions'
  <2> SUFFICES ASSUME NEW p \in Managers, NEW f \in EventId,
                      pc[p][f] \in InTransaction
               PROVE  /\ history[f] = "none"
                      /\ \A q \in Managers \ {p} : pc[q][f] \notin InTransaction
                      /\ view[p][f].state \in State
                      /\ body'[f].name # "start_workflow" =>
                           Exists(body[f].workflow)'
    BY <1>1 DEF OpenTransactions, db, threads
  <2>1. f # e
    BY <1>2 DEF InTransaction
  <2> QED BY <1>1, <1>3, <2>1 DEF OpenTransactions, Exists, db
<1>8. ReportedIsStored' /\ CreatedByStart' /\ AppliedOnce'
  BY <1>1 DEF ReportedIsStored, CreatedByStart, AppliedOnce, Exists, db, threads
<1>9. StoredBeforeDelete'
  BY <1>1, <1>3, <1>4 DEF StoredBeforeDelete, db
<1>10. EffectsMatchHistory'
  <2> SUFFICES ASSUME NEW f \in EventId
               PROVE  /\ history[f] = "success" <=>
                           \E i \in DOMAIN audits : audits[i].event = f
                      /\ (\E a \in approvals : a.id = f) =>
                           history[f] = "success" /\ body'[f].name \in ApprovalEvent
    BY <1>1 DEF EffectsMatchHistory, db
  <2>1. CASE f = e
    BY <1>2, <2>1 DEF EffectsMatchHistory
  <2>2. CASE f # e
    BY <1>3, <2>2 DEF EffectsMatchHistory
  <2> QED BY <2>1, <2>2
<1> QED BY <1>5, <1>6, <1>7, <1>8, <1>9, <1>10

LEMMA StartReviewKeeps ==
  ASSUME ServiceInv, NEW e \in EventId, NEW u \in Users, StartReview(e, u)
  PROVE  ServiceInv'
<1> DEFINE ev == [workflow |-> e, name |-> "start_workflow", user |-> u,
                  response |-> "none"]
<1>1. Send(e, ev)
  BY DEF StartReview
<1>2. ev \in Body
  BY <1>1 DEF Body, WorkflowId, Send
<1>3. ev.name = "start_workflow" => ev.workflow = e
  OBVIOUS
<1>4. ev.name \notin ApprovalEvent
  BY DEF ApprovalEvent
<1> QED BY <1>1, <1>2, <1>3, <1>4, SendKeeps

LEMMA IngestEventKeeps ==
  ASSUME ServiceInv, NEW e \in EventId, NEW u \in Users, IngestEvent(e, u)
  PROVE  ServiceInv'
<1>1. PICK w \in WorkflowId, name \in EventName \ {"start_workflow"} :
        \E response \in IF name \in ApprovalEvent THEN AllowedResponses(name)
                                                  ELSE {"none"} :
          Send(e, [workflow |-> w, name |-> name, user |-> u,
                   response |-> response])
  BY DEF IngestEvent
<1>2. PICK response \in IF name \in ApprovalEvent THEN AllowedResponses(name)
                                                  ELSE {"none"} :
        Send(e, [workflow |-> w, name |-> name, user |-> u,
                 response |-> response])
  BY <1>1
<1> DEFINE ev == [workflow |-> w, name |-> name, user |-> u,
                  response |-> response]
<1>3. /\ response \in {"none", "approved", "requires_modification"}
      /\ name \in ApprovalEvent => response # "none"
  BY DEF AllowedResponses
<1>4. ev \in Body
  BY <1>2, <1>3 DEF Body, Send
<1> HIDE DEF ev
<1>5. Send(e, ev) /\ ev.name # "start_workflow"
  BY <1>2 DEF ev
<1>6. ev.name \in ApprovalEvent => ev.response # "none"
  BY <1>3 DEF ev
<1> QED BY <1>4, <1>5, <1>6, SendKeeps

LEMMA QueueKeeps ==
  ASSUME ServiceInv, NEW e \in EventId, Reappear(e) \/ DeadLetter(e)
  PROVE  ServiceInv'
<1>1. CASE Reappear(e)
  BY <1>1, QueueStep DEF Reappear, ServiceInv, TypeOK
<1>2. CASE DeadLetter(e)
  BY <1>2, QueueStep DEF DeadLetter, ServiceInv, TypeOK
<1> QED BY <1>1, <1>2

LEMMA FetchKeeps ==
  ASSUME ServiceInv, NEW p \in Managers, FetchMessages(p)
  PROVE  ServiceInv'
<1> USE DEF ServiceInv
<1>1. PICK ms \in SUBSET { e \in EventId : /\ queue[e] = "visible"
                                           /\ receives[e] < MaxReceives } :
        /\ queue' = [e \in EventId |-> IF e \in ms THEN "in_flight" ELSE queue[e]]
        /\ receives' = [e \in EventId |->
                          IF e \in ms THEN receives[e] + 1 ELSE receives[e]]
        /\ pc' = [pc EXCEPT ![p] =
                    [e \in EventId |-> IF e \in ms THEN "submitted" ELSE "idle"]]
  BY DEF FetchMessages
<1>2. UNCHANGED <<body, db, view, gave_up, raced>>
  BY DEF FetchMessages
<1>3. \A e \in ms : queue[e] = "visible" /\ receives[e] < MaxReceives
  BY <1>1
<1>4. receives' \in [EventId -> 0..MaxReceives]
  BY <1>1, <1>3, MaxReceivesAssumption DEF TypeOK
<1>5. /\ queue' \in [EventId -> {"unsent", "visible", "in_flight",
                                 "dead_letter", "deleted"}]
      /\ \A e \in EventId :
           /\ queue'[e] = "unsent" <=> queue[e] = "unsent"
           /\ queue'[e] = "deleted" => queue[e] = "deleted"
  BY <1>1, <1>3 DEF TypeOK
<1>6. pc' \in [Managers -> [EventId -> {"idle"} \cup Running \cup Returned]]
  BY <1>1 DEF TypeOK, Running
<1>7. \A q \in Managers, e \in EventId :
        \/ pc'[q][e] = pc[q][e] /\ view'[q][e] = view[q][e]
        \/ pc'[q][e] = "idle"
        \/ pc'[q][e] \in {"submitted", "rejected", "error"} /\ queue[e] # "unsent"
  BY <1>1, <1>2, <1>3 DEF TypeOK
<1> QED BY <1>2, <1>4, <1>5, <1>6, <1>7, ThreadsStep DEF TypeOK

\* A manager lets go of its threads.
LEMMA ForgetStep ==
  ASSUME ServiceInv, NEW p \in Managers, Forget(p)
  PROVE  /\ gave_up' \in [Managers -> [EventId -> BOOLEAN]]
         /\ view' \in [Managers -> [EventId -> View]]
         /\ pc' \in [Managers -> [EventId -> {"idle"} \cup Running \cup Returned]]
         /\ \A q \in Managers, e \in EventId :
              \/ pc'[q][e] = pc[q][e] /\ view'[q][e] = view[q][e]
              \/ pc'[q][e] = "idle"
<1>1. NoView \in View
  BY DEF NoView, View, Status
<1>2. view' \in [Managers -> [EventId -> View]]
  BY <1>1 DEF Forget, ServiceInv, TypeOK
<1> QED BY <1>2 DEF Forget, ServiceInv, TypeOK

LEMMA FinishKeeps ==
  ASSUME ServiceInv, NEW p \in Managers, FinishBatch(p)
  PROVE  ServiceInv'
<1>1. PICK failed \in SUBSET ToDelete(p) :
        queue' = [e \in EventId |->
                    IF e \in ToDelete(p) \ failed /\ queue[e] # "dead_letter"
                    THEN "deleted" ELSE queue[e]]
  BY DEF FinishBatch
<1>2. Forget(p) /\ UNCHANGED <<body, receives, db, raced>>
  BY DEF FinishBatch
<1>3. \A e \in ToDelete(p) : e \in EventId /\ history[e] # "none"
                             /\ queue[e] # "unsent"
  BY DEF ToDelete, Batch, ServiceInv, ReportedIsStored, SentBeforeHandled
<1>4. /\ queue' \in [EventId -> {"unsent", "visible", "in_flight",
                                 "dead_letter", "deleted"}]
      /\ \A e \in EventId :
           /\ queue'[e] = "unsent" <=> queue[e] = "unsent"
           /\ queue'[e] = "deleted" => queue[e] = "deleted" \/ history[e] # "none"
  BY <1>1, <1>3 DEF ServiceInv, TypeOK
<1> QED BY <1>2, <1>4, ForgetStep, ThreadsStep DEF ServiceInv, TypeOK

LEMMA CrashKeeps ==
  ASSUME ServiceInv, NEW p \in Managers, Crash(p)
  PROVE  ServiceInv'
<1>1. Forget(p) /\ UNCHANGED <<sqs, db, raced>>
  BY DEF Crash
<1> QED BY <1>1, ForgetStep, ThreadsStep DEF ServiceInv, TypeOK, sqs

LEMMA GiveUpKeeps ==
  ASSUME ServiceInv, NEW p \in Managers, NEW e \in EventId, GiveUp(p, e)
  PROVE  ServiceInv'
<1>1. /\ gave_up' = [gave_up EXCEPT ![p][e] = TRUE]
      /\ UNCHANGED <<sqs, db, pc, view, raced>>
  BY DEF GiveUp
<1>2. gave_up' \in [Managers -> [EventId -> BOOLEAN]]
  BY <1>1 DEF ServiceInv, TypeOK
<1> QED BY <1>1, <1>2, ThreadsStep DEF ServiceInv, TypeOK, sqs

-----------------------------------------------------------------------------
(* The steps of a thread.                                                  *)

\* A thread that has started belongs to a sent, well-formed event.
LEMMA ThreadHasEvent ==
  ASSUME ServiceInv, NEW p \in Managers, NEW e \in EventId, pc[p][e] # "idle"
  PROVE  queue[e] # "unsent" /\ WellFormed(e)
BY DEF ServiceInv, SentBeforeHandled

\* What returning does to the threads.
LEMMA ReturnStep ==
  ASSUME ServiceInv, NEW p \in Managers, NEW e \in EventId,
         NEW result \in Running \cup Returned, Return(p, e, result)
  PROVE  /\ view' \in [Managers -> [EventId -> View]]
         /\ pc' \in [Managers -> [EventId -> {"idle"} \cup Running \cup Returned]]
         /\ pc'[p][e] = result
         /\ \A q \in Managers, f \in EventId :
              q # p \/ f # e => pc'[q][f] = pc[q][f] /\ view'[q][f] = view[q][f]
<1>1. NoView \in View
  BY DEF NoView, View, Status
<1>2. view' \in [Managers -> [EventId -> View]]
  BY <1>1 DEF Return, ServiceInv, TypeOK
<1> QED BY <1>2 DEF Return, ServiceInv, TypeOK

\* A thread that returns without having changed a table.
LEMMA ReturnKeeps ==
  ASSUME ServiceInv, NEW p \in Managers, NEW e \in EventId,
         NEW result \in {"rejected", "error"}, Return(p, e, result),
         pc[p][e] # "idle", UNCHANGED <<sqs, db, gave_up, raced>>
  PROVE  ServiceInv'
<1>1. result \in Running \cup Returned
  BY DEF Running, Returned
<1>2. queue[e] # "unsent"
  BY ThreadHasEvent
<1>3. \A q \in Managers, f \in EventId :
        \/ pc'[q][f] = pc[q][f] /\ view'[q][f] = view[q][f]
        \/ pc'[q][f] \in {"rejected", "error"} /\ queue[f] # "unsent"
  BY <1>1, <1>2, ReturnStep
<1> QED BY <1>1, <1>3, ReturnStep, ThreadsStep DEF ServiceInv, TypeOK, sqs

\* A thread whose transaction stays open, or opens with nothing stored about its
\* event and no other transaction at work on it.
LEMMA TransactionStep ==
  ASSUME ServiceInv, NEW p \in Managers, NEW e \in EventId,
         UNCHANGED <<sqs, db, gave_up>>,
         raced' \subseteq WorkflowId,
         NEW place \in InTransaction, NEW read \in View,
         pc[p][e] # "idle",
         pc' = [pc EXCEPT ![p][e] = place],
         view' = [view EXCEPT ![p][e] = read],
         history[e] = "none",
         \A q \in Managers \ {p} : pc[q][e] \notin InTransaction,
         read.state \in State,
         body[e].name # "start_workflow" => Exists(body[e].workflow)
  PROVE  ServiceInv'
<1>1. /\ pc'[p][e] = place
      /\ view'[p][e] = read
      /\ \A q \in Managers, f \in EventId :
           q # p \/ f # e => pc'[q][f] = pc[q][f] /\ view'[q][f] = view[q][f]
  BY DEF ServiceInv, TypeOK
<1>2. TypeOK'
  <2>1. pc' \in [Managers -> [EventId -> {"idle"} \cup Running \cup Returned]]
    BY DEF ServiceInv, TypeOK, InTransaction, Running
  <2>2. view' \in [Managers -> [EventId -> View]]
    BY DEF ServiceInv, TypeOK
  <2> QED BY <2>1, <2>2, TablesUnchanged DEF ServiceInv, TypeOK, sqs
<1>3. SentBeforeHandled'
  <2>1. queue[e] # "unsent"
    BY ThreadHasEvent
  <2> QED BY <1>1, <2>1, TablesUnchanged DEF ServiceInv, SentBeforeHandled, sqs, db
<1>4. OpenTransactions'
  <2> SUFFICES ASSUME NEW q \in Managers, NEW f \in EventId,
                      pc'[q][f] \in InTransaction
               PROVE  /\ history[f] = "none"
                      /\ \A r \in Managers \ {q} : pc'[r][f] \notin InTransaction
                      /\ view'[q][f].state \in State
                      /\ body[f].name # "start_workflow" => Exists(body[f].workflow)
    BY DEF OpenTransactions, Exists, sqs, db
  <2>1. CASE q = p /\ f = e
    BY <1>1, <2>1
  <2>2. CASE q # p /\ f = e
    BY <1>1, <2>2
  <2>3. CASE f # e
    BY <1>1, <2>3 DEF ServiceInv, OpenTransactions
  <2> QED BY <2>1, <2>2, <2>3
<1>5. ReportedIsStored'
  BY <1>1 DEF ServiceInv, ReportedIsStored, InTransaction, Deletable, db
<1>6. StoredBeforeDelete'
  BY DEF ServiceInv, StoredBeforeDelete, sqs, db
<1> QED BY <1>2, <1>3, <1>4, <1>5, <1>6, TablesUnchanged DEF ServiceInv, sqs

LEMMA BeginKeeps ==
  ASSUME ServiceInv, NEW p \in Managers, NEW e \in EventId, Begin(p, e)
  PROVE  ServiceInv'
<1> DEFINE read == Load(body[e])
<1>1. /\ pc[p][e] = "submitted"
      /\ HistoryKeyFree(e)
      /\ UNCHANGED <<sqs, db, gave_up>>
  BY DEF Begin
<1>2. WellFormed(e)
  BY <1>1, ThreadHasEvent
<1>3. CASE history[e] # "none"
  <2>1. Return(p, e, "error") /\ UNCHANGED raced
    BY <1>3 DEF Begin
  <2> QED BY <1>1, <2>1, ReturnKeeps
<1>4. CASE history[e] = "none" /\ ~CanSend(body[e], read.state, read.is_active)
  <2>1. Return(p, e, "rejected") /\ UNCHANGED raced
    BY <1>4 DEF Begin
  <2> QED BY <1>1, <2>1, ReturnKeeps
<1>5. CASE history[e] = "none" /\ CanSend(body[e], read.state, read.is_active)
  <2>1. /\ pc' = [pc EXCEPT ![p][e] = "loaded"]
        /\ view' = [view EXCEPT ![p][e] = read]
        /\ raced' = raced \cup AlsoOpen(body[e].workflow)
    BY <1>5 DEF Begin
  <2>2. body[e].name \in EventName /\ body[e].workflow \in WorkflowId
    BY <1>2, EventTypes
  <2>3. read.state \in State
    BY <1>5, <2>2, EventJoinsStates DEF CanSend
  <2>4. read \in View
    <3>1. status \in Status /\ workflow[body[e].workflow] \in WorkflowRow
      BY <2>2 DEF ServiceInv, TypeOK
    <3>2. workflow[body[e].workflow].is_active \in BOOLEAN
      BY <3>1, RowColumns
    <3> QED BY <2>3, <3>1, <3>2 DEF Load, View
  <2>5. body[e].name # "start_workflow" => Exists(body[e].workflow)
    BY <1>5 DEF CanSend, Load, Exists, NoRow
  <2>6. \A q \in Managers \ {p} : pc[q][e] \notin InTransaction
    BY <1>1 DEF HistoryKeyFree
  <2>7. "loaded" \in InTransaction
    BY DEF InTransaction
  <2>8. raced' \subseteq WorkflowId
    BY <2>1, <2>2 DEF AlsoOpen, ServiceInv, TypeOK
  <2> HIDE DEF read
  <2> QED BY <1>1, <1>5, <2>1, <2>8, <2>3, <2>4, <2>5, <2>6, <2>7, TransactionStep
<1> QED BY <1>3, <1>4, <1>5

LEMMA RunMachineKeeps ==
  ASSUME ServiceInv, NEW p \in Managers, NEW e \in EventId, RunMachine(p, e)
  PROVE  ServiceInv'
<1> DEFINE rows == ValidApprovals(body[e].workflow)
           ids  == IF IsModification(body[e]) THEN { a.id : a \in rows } ELSE {}
           read == [view[p][e] EXCEPT !.revoked = ids]
<1>1. pc[p][e] = "loaded" /\ UNCHANGED <<sqs, db, gave_up, raced>>
  BY DEF RunMachine
<1>2. CASE HasAlreadyApproved(body[e], rows)
  <2>1. Return(p, e, "rejected")
    BY <1>2 DEF RunMachine
  <2> QED BY <1>1, <2>1, ReturnKeeps
<1>3. CASE ~HasAlreadyApproved(body[e], rows)
  <2>1. /\ pc' = [pc EXCEPT ![p][e] = "flushed"]
        /\ view' = [view EXCEPT ![p][e].revoked = ids]
    BY <1>3 DEF RunMachine
  <2>2. view' = [view EXCEPT ![p][e] = read]
    BY <2>1
  <2>3. ids \subseteq EventId \cup ApprovalEvent
    BY DEF ValidApprovals, ServiceInv, TypeOK, ApprovalRows
  <2>4. view[p][e] \in View
    BY DEF ServiceInv, TypeOK
  <2> HIDE DEF ids
  <2>5. read \in View /\ read.state = view[p][e].state
    BY <2>3, <2>4 DEF View
  <2>6. "loaded" \in InTransaction /\ "flushed" \in InTransaction
    BY DEF InTransaction
  <2>7. /\ history[e] = "none"
        /\ \A q \in Managers \ {p} : pc[q][e] \notin InTransaction
        /\ view[p][e].state \in State
        /\ body[e].name # "start_workflow" => Exists(body[e].workflow)
    BY <1>1, <2>6 DEF ServiceInv, OpenTransactions
  <2> HIDE DEF read
  <2> QED BY <1>1, <2>1, <2>2, <2>5, <2>6, <2>7, TransactionStep DEF ServiceInv, TypeOK
<1> QED BY <1>2, <1>3

LEMMA FailKeeps ==
  ASSUME ServiceInv, NEW p \in Managers, NEW e \in EventId, Fail(p, e)
  PROVE  ServiceInv'
<1>1. pc[p][e] # "idle"
  BY DEF Fail, Running, InTransaction
<1> QED BY <1>1, ReturnKeeps DEF Fail

\* The commit of an event writes the rows of that event alone: its history row,
\* its audit row, its approval and the row of its workflow.
LEMMA CommitKeeps ==
  ASSUME ServiceInv, NEW p \in Managers, NEW e \in EventId, Commit(p, e)
  PROVE  ServiceInv'
<1> DEFINE ev   == body[e]
           read == view[p][e]
           row  == [state |-> Target(ev), is_active |-> IsActiveAfter(ev)]
<1>1. /\ pc[p][e] = "flushed"
      /\ workflow' = [workflow EXCEPT ![ev.workflow] = row]
      /\ status' = IF NewStatus(ev, read.status) # read.status
                   THEN NewStatus(ev, read.status) ELSE status
      /\ approvals' = { Revoke(a, read.revoked) : a \in approvals }
                        \cup ApprovalRow(e)
      /\ audits' = Append(audits, AuditRow(e, read.state))
      /\ history' = [history EXCEPT ![e] = "success"]
      /\ Return(p, e, "success")
      /\ UNCHANGED <<sqs, gave_up, raced>>
  BY DEF Commit
<1>2. /\ WellFormed(e)
      /\ queue[e] # "unsent"
      /\ ev.name \in EventName
      /\ ev.workflow \in WorkflowId
      /\ ev.user \in Users
      /\ Target(ev) \in State
      /\ \A s \in Status : NewStatus(ev, s) \in Status
  <2>1. pc[p][e] # "idle"
    BY <1>1
  <2> QED BY <2>1, ThreadHasEvent, EventTypes
<1>3. /\ history[e] = "none"
      /\ \A q \in Managers \ {p} : pc[q][e] \notin InTransaction
      /\ read.state \in State
      /\ ev.name # "start_workflow" => Exists(ev.workflow)
  BY <1>1 DEF ServiceInv, OpenTransactions, InTransaction
<1>4. /\ view' \in [Managers -> [EventId -> View]]
      /\ pc' \in [Managers -> [EventId -> {"idle"} \cup Running \cup Returned]]
      /\ pc'[p][e] = "success"
      /\ \A q \in Managers, f \in EventId :
           q # p \/ f # e => pc'[q][f] = pc[q][f] /\ view'[q][f] = view[q][f]
  <2>1. "success" \in Running \cup Returned
    BY DEF Returned
  <2> QED BY <1>1, <2>1, ReturnStep
<1>5. /\ history' \in [EventId -> {"none", "success", "failed"}]
      /\ history'[e] = "success"
      /\ \A f \in EventId \ {e} : history'[f] = history[f]
  BY <1>1 DEF ServiceInv, TypeOK
<1>6. row \in WorkflowRow /\ row # NoRow
  <2>1. workflow[ev.workflow].is_active \in BOOLEAN
    BY <1>2, RowColumns DEF ServiceInv, TypeOK
  <2>2. IsActiveAfter(ev) \in BOOLEAN
    BY <2>1 DEF IsActiveAfter
  <2> QED BY <1>2, <2>2, RowPresent
<1>7. /\ workflow' \in [WorkflowId -> WorkflowRow]
      /\ \A w \in WorkflowId \ {ev.workflow} : workflow'[w] = workflow[w]
      /\ workflow'[ev.workflow] # NoRow
  <2>1. workflow \in [WorkflowId -> WorkflowRow]
    BY DEF ServiceInv, TypeOK
  <2> HIDE DEF row, ev
  <2> QED BY <1>1, <1>2, <1>6, <2>1
<1>8. \A a \in approvals : /\ Revoke(a, read.revoked) \in ApprovalRows
                           /\ Revoke(a, read.revoked).id = a.id
  <2> SUFFICES ASSUME NEW a \in approvals
               PROVE  /\ Revoke(a, read.revoked) \in ApprovalRows
                      /\ Revoke(a, read.revoked).id = a.id
    OBVIOUS
  <2>1. a \in ApprovalRows
    BY DEF ServiceInv, TypeOK
  <2> QED BY <2>1 DEF Revoke, ApprovalRows
<1>9. \A a \in ApprovalRow(e) : /\ a \in ApprovalRows
                                /\ a.id = e
                                /\ ev.name \in ApprovalEvent
  <2> SUFFICES ASSUME ev.name \in ApprovalEvent
               PROVE  \A a \in ApprovalRow(e) : a \in ApprovalRows /\ a.id = e
    BY DEF ApprovalRow
  <2>1. ev.response \in {"approved", "requires_modification"}
    BY <1>2 DEF WellFormed, Body
  <2> DEFINE new == [ id |-> e, workflow |-> ev.workflow, user |-> ev.user,
                      type |-> ev.name, response |-> ev.response,
                      valid |-> ~IsModification(ev) ]
  <2>2. ApprovalRow(e) = {new}
    BY DEF ApprovalRow
  <2>3. (~IsModification(ev)) \in BOOLEAN
    BY DEF IsModification
  <2>4. new \in ApprovalRows
    BY <1>2, <2>1, <2>3 DEF ApprovalRows
  <2> QED BY <2>2, <2>4
<1>10. approvals' \in SUBSET ApprovalRows
  BY <1>1, <1>8, <1>9
<1>11. AuditRow(e, read.state) \in Audit /\ AuditRow(e, read.state).event = e
  BY <1>2, <1>3 DEF AuditRow, Audit
<1>12. /\ audits' \in Seq(Audit)
       /\ DOMAIN audits' = DOMAIN audits \cup {Len(audits) + 1}
       /\ Len(audits) + 1 \notin DOMAIN audits
       /\ \A i \in DOMAIN audits : audits'[i] = audits[i]
       /\ audits'[Len(audits) + 1].event = e
  <2>1. audits \in Seq(Audit)
    BY DEF ServiceInv, TypeOK
  <2> QED BY <1>1, <1>11, <2>1
<1>13. TypeOK'
  <2>1. read.status \in Status
    BY DEF ServiceInv, TypeOK, View
  <2>2. status' \in Status
    BY <1>1, <1>2, <2>1 DEF ServiceInv, TypeOK
  <2> QED BY <1>1, <1>4, <1>5, <1>7, <1>10, <1>12, <2>2
          DEF ServiceInv, TypeOK, sqs
<1>14. SentBeforeHandled'
  BY <1>1, <1>2, <1>4, <1>5 DEF ServiceInv, SentBeforeHandled, WellFormed, sqs
<1>15. OpenTransactions'
  <2> SUFFICES ASSUME NEW q \in Managers, NEW f \in EventId,
                      pc'[q][f] \in InTransaction
               PROVE  /\ history'[f] = "none"
                      /\ \A r \in Managers \ {q} : pc'[r][f] \notin InTransaction
                      /\ view'[q][f].state \in State
                      /\ body[f].name # "start_workflow" =>
                           Exists(body[f].workflow)'
    BY <1>1 DEF OpenTransactions, Exists, sqs
  <2>1. f # e
    BY <1>3, <1>4 DEF InTransaction
  <2>2. pc[q][f] \in InTransaction
    BY <1>4, <2>1
  <2>3. body[f].name # "start_workflow" => Exists(body[f].workflow)'
    <3>1. WellFormed(f)
      <4>1. pc[q][f] # "idle"
        BY <2>2 DEF InTransaction
      <4> QED BY <4>1, ThreadHasEvent
    <3>2. body[f].workflow \in WorkflowId
      BY <3>1, EventTypes
    <3>3. body'[f] = body[f]
      BY <1>1 DEF sqs
    <3>4. CASE body[f].workflow = ev.workflow
      BY <1>7, <3>3, <3>4 DEF Exists
    <3>5. CASE body[f].workflow # ev.workflow
      BY <1>7, <2>2, <3>2, <3>3, <3>5 DEF ServiceInv, OpenTransactions, Exists
    <3> QED BY <3>4, <3>5
  <2> QED BY <1>4, <1>5, <2>1, <2>2, <2>3 DEF ServiceInv, OpenTransactions
<1>16. ReportedIsStored'
  BY <1>4, <1>5 DEF ServiceInv, ReportedIsStored
<1>17. CreatedByStart'
  <2> SUFFICES ASSUME NEW f \in EventId, Exists(f)'
               PROVE  history'[f] = "success"
    BY DEF CreatedByStart
  <2>1. f \in WorkflowId
    BY DEF WorkflowId
  <2>2. CASE Exists(f)
    BY <1>5, <2>2 DEF ServiceInv, CreatedByStart
  <2>3. CASE ~Exists(f)
    <3>1. f = ev.workflow
      BY <1>7, <2>1, <2>3 DEF Exists
    <3>2. ev.name = "start_workflow"
      BY <1>3, <2>3, <3>1
    <3> QED BY <1>2, <1>5, <3>1, <3>2 DEF WellFormed
  <2> QED BY <2>2, <2>3
<1>18. StoredBeforeDelete'
  BY <1>1, <1>5 DEF ServiceInv, StoredBeforeDelete, sqs
<1>19. \A i \in DOMAIN audits : audits[i].event # e
  BY <1>3 DEF ServiceInv, EffectsMatchHistory
<1>20. AppliedOnce'
  BY <1>12, <1>19 DEF ServiceInv, AppliedOnce
<1>21. EffectsMatchHistory'
  <2> SUFFICES ASSUME NEW f \in EventId
               PROVE  /\ history'[f] = "success" <=>
                           \E i \in DOMAIN audits' : audits'[i].event = f
                      /\ \A a \in approvals' : a.id = f =>
                           history'[f] = "success" /\ body[f].name \in ApprovalEvent
    BY <1>1 DEF EffectsMatchHistory, sqs
  <2>1. CASE f = e
    <3>1. \A a \in approvals : a.id # e
      BY <1>3 DEF ServiceInv, EffectsMatchHistory
    <3>2. \A a \in approvals' : a.id = e => ev.name \in ApprovalEvent
      BY <1>1, <1>8, <1>9, <3>1
    <3> QED BY <1>5, <1>12, <2>1, <3>2
  <2>2. CASE f # e
    <3>1. history'[f] = history[f]
      BY <1>5, <2>2
    <3>2. (\E i \in DOMAIN audits' : audits'[i].event = f) <=>
            (\E i \in DOMAIN audits : audits[i].event = f)
      BY <1>12, <2>2
    <3>3. \A a \in approvals' : a.id = f => \E b \in approvals : b.id = f
      BY <1>1, <1>8, <1>9, <2>2
    <3> QED BY <3>1, <3>2, <3>3 DEF ServiceInv, EffectsMatchHistory
  <2> QED BY <2>1, <2>2
<1> QED BY <1>13, <1>14, <1>15, <1>16, <1>17, <1>18, <1>20, <1>21 DEF ServiceInv

\* Storing a failure writes the history row of an event that left nothing else.
LEMMA StoreFailureKeeps ==
  ASSUME ServiceInv, NEW p \in Managers, NEW e \in EventId, StoreFailure(p, e)
  PROVE  ServiceInv'
<1>1. /\ pc[p][e] = "rejected"
      /\ \A q \in Managers : pc[q][e] \notin InTransaction
      /\ UNCHANGED <<sqs, workflow, status, approvals, audits, gave_up, raced>>
  BY DEF StoreFailure, HistoryKeyFree
<1>2. CASE history[e] # "none"
  <2>1. Return(p, e, "error") /\ UNCHANGED <<sqs, db, gave_up, raced>>
    BY <1>1, <1>2 DEF StoreFailure, db
  <2> QED BY <1>1, <2>1, ReturnKeeps
<1>3. CASE history[e] = "none"
  <2>1. /\ history' = [history EXCEPT ![e] = "failed"]
        /\ Return(p, e, "non_retryable")
    BY <1>3 DEF StoreFailure
  <2>2. /\ view' \in [Managers -> [EventId -> View]]
        /\ pc' \in [Managers -> [EventId -> {"idle"} \cup Running \cup Returned]]
        /\ pc'[p][e] = "non_retryable"
        /\ \A q \in Managers, f \in EventId :
             q # p \/ f # e => pc'[q][f] = pc[q][f] /\ view'[q][f] = view[q][f]
    <3>1. "non_retryable" \in Running \cup Returned
      BY DEF Returned
    <3> QED BY <2>1, <3>1, ReturnStep
  <2>3. /\ history' \in [EventId -> {"none", "success", "failed"}]
        /\ history'[e] = "failed"
        /\ \A f \in EventId \ {e} : history'[f] = history[f]
    BY <2>1 DEF ServiceInv, TypeOK
  <2>4. WellFormed(e) /\ queue[e] # "unsent"
    BY <1>1, ThreadHasEvent
  <2>5. TypeOK'
    BY <1>1, <2>2, <2>3 DEF ServiceInv, TypeOK, sqs
  <2>6. SentBeforeHandled'
    <3> SUFFICES ASSUME NEW f \in EventId
                 PROVE  /\ queue[f] # "unsent" => WellFormed(f)'
                        /\ queue[f] = "unsent" =>
                             /\ history'[f] = "none"
                             /\ \A q \in Managers : pc'[q][f] = "idle"
      BY <1>1 DEF SentBeforeHandled, sqs
    <3>1. queue[f] # "unsent" => WellFormed(f)'
      BY <1>1 DEF ServiceInv, SentBeforeHandled, WellFormed, sqs
    <3>2. ASSUME queue[f] = "unsent"
          PROVE  /\ history'[f] = "none"
                 /\ \A q \in Managers : pc'[q][f] = "idle"
      <4>1. f # e
        BY <2>4, <3>2
      <4>2. history[f] = "none" /\ \A q \in Managers : pc[q][f] = "idle"
        BY <3>2 DEF ServiceInv, SentBeforeHandled
      <4> QED BY <2>2, <2>3, <4>1, <4>2
    <3> QED BY <3>1, <3>2
  <2>7. OpenTransactions'
    <3> SUFFICES ASSUME NEW q \in Managers, NEW f \in EventId,
                        pc'[q][f] \in InTransaction
                 PROVE  /\ history'[f] = "none"
                        /\ \A r \in Managers \ {q} : pc'[r][f] \notin InTransaction
                        /\ view'[q][f].state \in State
                        /\ body[f].name # "start_workflow" =>
                             Exists(body[f].workflow)
      BY <1>1 DEF OpenTransactions, Exists, sqs
    <3>1. f # e
      BY <1>1, <2>2 DEF InTransaction
    <3> QED BY <2>2, <2>3, <3>1 DEF ServiceInv, OpenTransactions
  <2>8. ReportedIsStored'
    BY <2>2, <2>3 DEF ServiceInv, ReportedIsStored
  <2>9. CreatedByStart'
    BY <1>1, <1>3, <2>3 DEF ServiceInv, CreatedByStart, Exists
  <2>10. StoredBeforeDelete' /\ AppliedOnce'
    BY <1>1, <2>3 DEF ServiceInv, StoredBeforeDelete, AppliedOnce, sqs
  <2>11. EffectsMatchHistory'
    <3> SUFFICES ASSUME NEW f \in EventId
                 PROVE  /\ history'[f] = "success" <=>
                             \E i \in DOMAIN audits : audits[i].event = f
                        /\ (\E a \in approvals : a.id = f) =>
                             history'[f] = "success" /\ body[f].name \in ApprovalEvent
      BY <1>1 DEF EffectsMatchHistory, sqs
    <3>1. CASE f = e
      BY <1>3, <2>3, <3>1 DEF ServiceInv, EffectsMatchHistory
    <3>2. CASE f # e
      BY <2>3, <3>2 DEF ServiceInv, EffectsMatchHistory
    <3> QED BY <3>1, <3>2
  <2> QED BY <2>5, <2>6, <2>7, <2>8, <2>9, <2>10, <2>11 DEF ServiceInv
<1> QED BY <1>2, <1>3

-----------------------------------------------------------------------------
(* Every step of the service.                                              *)

LEMMA StutterKeeps ==
  ASSUME ServiceInv, UNCHANGED vars
  PROVE  ServiceInv'
BY QueueStep DEF ServiceInv, TypeOK, vars, sqs

LEMMA NextServiceInv ==
  ASSUME ServiceInv, [Next]_vars
  PROVE  ServiceInv'
<1>1. ASSUME NEW e \in EventId, NEW u \in Users,
             StartReview(e, u) \/ IngestEvent(e, u)
      PROVE  ServiceInv'
  BY <1>1, StartReviewKeeps, IngestEventKeeps
<1>2. ASSUME NEW e \in EventId, Reappear(e) \/ DeadLetter(e)
      PROVE  ServiceInv'
  BY <1>2, QueueKeeps
<1>3. ASSUME NEW p \in Managers, FetchMessages(p) \/ FinishBatch(p) \/ Crash(p)
      PROVE  ServiceInv'
  BY <1>3, FetchKeeps, FinishKeeps, CrashKeeps
<1>4. ASSUME NEW p \in Managers, NEW e \in EventId,
             Thread(p, e) \/ Fail(p, e) \/ GiveUp(p, e)
      PROVE  ServiceInv'
  BY <1>4, BeginKeeps, RunMachineKeeps, CommitKeeps, StoreFailureKeeps,
     FailKeeps, GiveUpKeeps DEF Thread
<1>5. CASE UNCHANGED vars
  BY <1>5, StutterKeeps
<1> QED BY <1>1, <1>2, <1>3, <1>4, <1>5 DEF Next

\* The service keeps its invariant: types, one open transaction per event,
\* nothing reported that is not stored, all effects of an event or none.
THEOREM ServiceCorrect == Spec => []ServiceInv
<1>1. Init => ServiceInv
  BY InitServiceInv
<1>2. ServiceInv /\ [Next]_vars => ServiceInv'
  BY NextServiceInv
<1> QED BY <1>1, <1>2, PTL DEF Spec

\* Every table, message and thread keeps to its type, the rows of transactions
\* that overlap too.
THEOREM TypesCorrect == Spec => []TypeOK
<1>1. ServiceInv => TypeOK
  BY DEF ServiceInv
<1> QED BY <1>1, ServiceCorrect, PTL

\* No message is deleted before its event is stored, whatever crashes, times out
\* or is delivered again.
THEOREM DeletedIsStored == Spec => []StoredBeforeDelete
<1>1. ServiceInv => StoredBeforeDelete
  BY DEF ServiceInv
<1> QED BY <1>1, ServiceCorrect, PTL

\* No event is applied twice.
THEOREM EventsAppliedOnce == Spec => []AppliedOnce
<1>1. ServiceInv => AppliedOnce
  BY DEF ServiceInv
<1> QED BY <1>1, ServiceCorrect, PTL

\* An event's history, audit and approval rows come and go together.
THEOREM EventsAllOrNothing == Spec => []EffectsMatchHistory
<1>1. ServiceInv => EffectsMatchHistory
  BY DEF ServiceInv
<1> QED BY <1>1, ServiceCorrect, PTL

-----------------------------------------------------------------------------
(* What no step does.                                                      *)

\* Only Commit and StoreFailure write tables; the other steps leave them alone.
LEMMA WhoWrites ==
  ASSUME [Next]_vars
  PROVE  \/ UNCHANGED db
         \/ \E p \in Managers, e \in EventId : Commit(p, e)
         \/ \E p \in Managers, e \in EventId : StoreFailure(p, e)
<1>1. ASSUME NEW e \in EventId, NEW u \in Users,
             StartReview(e, u) \/ IngestEvent(e, u)
      PROVE  UNCHANGED db
  BY <1>1 DEF StartReview, IngestEvent, Send
<1>2. ASSUME NEW e \in EventId, Reappear(e) \/ DeadLetter(e)
      PROVE  UNCHANGED db
  BY <1>2 DEF Reappear, DeadLetter
<1>3. ASSUME NEW p \in Managers, FetchMessages(p) \/ FinishBatch(p) \/ Crash(p)
      PROVE  UNCHANGED db
  BY <1>3 DEF FetchMessages, FinishBatch, Crash
<1>4. ASSUME NEW p \in Managers, NEW e \in EventId,
             Begin(p, e) \/ RunMachine(p, e) \/ Fail(p, e) \/ GiveUp(p, e)
      PROVE  UNCHANGED db
  BY <1>4 DEF Begin, RunMachine, Fail, GiveUp
<1>5. CASE UNCHANGED vars
  BY <1>5 DEF vars
<1> QED BY <1>1, <1>2, <1>3, <1>4, <1>5 DEF Next, Thread

\* What is stored about an event is never overwritten.
THEOREM HistoryStays == Spec => HistoryIsFinal
<1> DEFINE A == \A e \in EventId : history[e] # "none" => history'[e] = history[e]
<1>1. ASSUME ServiceInv, [Next]_vars
      PROVE  A
  <2>1. CASE UNCHANGED db
    BY <2>1 DEF db
  <2>2. ASSUME NEW p \in Managers, NEW e \in EventId, Commit(p, e)
        PROVE  A
    <3>1. history[e] = "none"
      BY <1>1, <2>2 DEF Commit, ServiceInv, OpenTransactions, InTransaction
    <3> QED BY <1>1, <2>2, <3>1 DEF Commit, ServiceInv, TypeOK
  <2>3. ASSUME NEW p \in Managers, NEW e \in EventId, StoreFailure(p, e)
        PROVE  A
    BY <1>1, <2>3 DEF StoreFailure, ServiceInv, TypeOK
  <2> QED BY <1>1, <2>1, <2>2, <2>3, WhoWrites
<1>2. ServiceInv /\ [Next]_vars => [A]_vars
  BY <1>1
<1> HIDE DEF A
<1>3. Spec => [][A]_vars
  BY <1>2, ServiceCorrect, PTL DEF Spec
<1> QED BY <1>3 DEF HistoryIsFinal, A

\* A transaction that read the workflow as active and commits after it has
\* ended does not make it active again.
THEOREM FinishedStays == Spec => FinishedStaysInactive
<1> DEFINE A == \A w \in WorkflowId :
                  Exists(w) /\ ~workflow[w].is_active => ~workflow'[w].is_active
<1>1. ASSUME ServiceInv, [Next]_vars
      PROVE  A
  <2>1. CASE UNCHANGED db
    BY <2>1 DEF db
  <2>2. ASSUME NEW p \in Managers, NEW e \in EventId, Commit(p, e)
        PROVE  A
    <3> SUFFICES ASSUME NEW w \in WorkflowId, Exists(w), ~workflow[w].is_active
                 PROVE  ~workflow'[w].is_active
      OBVIOUS
    <3>1. /\ history[e] = "none"
          /\ pc[p][e] # "idle"
          /\ workflow' = [workflow EXCEPT ![body[e].workflow] =
                            [ state |-> Target(body[e]),
                              is_active |-> IsActiveAfter(body[e]) ]]
      BY <1>1, <2>2 DEF Commit, ServiceInv, OpenTransactions, InTransaction
    <3>2. CASE w # body[e].workflow
      BY <1>1, <3>1, <3>2 DEF ServiceInv, TypeOK
    <3>3. CASE w = body[e].workflow
      <4>1. body[e].name # "start_workflow"
        BY <1>1, <3>1, <3>3, ThreadHasEvent
           DEF WellFormed, ServiceInv, CreatedByStart
      <4>2. ~IsActiveAfter(body[e])
        BY <3>3, <4>1 DEF IsActiveAfter
      <4> QED BY <1>1, <3>1, <3>3, <4>2 DEF ServiceInv, TypeOK
    <3> QED BY <3>2, <3>3
  <2>3. ASSUME NEW p \in Managers, NEW e \in EventId, StoreFailure(p, e)
        PROVE  A
    BY <2>3 DEF StoreFailure
  <2> QED BY <1>1, <2>1, <2>2, <2>3, WhoWrites
<1>2. ServiceInv /\ [Next]_vars => [A]_vars
  BY <1>1
<1> HIDE DEF A
<1>3. Spec => [][A]_vars
  BY <1>2, ServiceCorrect, PTL DEF Spec
<1> QED BY <1>3 DEF FinishedStaysInactive, A

-----------------------------------------------------------------------------
(* The audit trail of a workflow whose transactions never overlapped.      *)

\* Steps that open no transaction and write none of the review's tables: a
\* thread that is still in its transaction has read what is still there.
LEMMA QuietStep ==
  ASSUME TrailInv,
         UNCHANGED <<workflow, status, approvals, audits, raced>>,
         \A p \in Managers, e \in EventId :
           \/ pc'[p][e] \notin InTransaction
           \/ /\ pc'[p][e] = pc[p][e]
              /\ view'[p][e] = view[p][e]
              /\ body'[e] = body[e]
  PROVE  TrailInv'
<1>1. \A p \in Managers, e \in EventId :
        pc'[p][e] \in InTransaction =>
          /\ pc'[p][e] = pc[p][e]
          /\ view'[p][e] = view[p][e]
          /\ body'[e] = body[e]
  OBVIOUS
<1>2. OneTransaction'
  BY <1>1 DEF TrailInv, OneTransaction
<1>3. ViewsAreCurrent'
  <2> SUFFICES ASSUME NEW p \in Managers, NEW e \in EventId,
                      pc'[p][e] \in InTransaction,
                      body'[e].workflow \notin raced'
               PROVE  ViewIsCurrent(p, e)'
    BY DEF ViewsAreCurrent
  <2>1. /\ body'[e] = body[e]
        /\ pc'[p][e] = pc[p][e]
        /\ view'[p][e] = view[p][e]
    BY <1>1
  <2>2. ViewIsCurrent(p, e)
    BY <2>1 DEF TrailInv, ViewsAreCurrent
  <2>3. Load(body[e])' = Load(body[e])
    BY <2>1 DEF Load
  <2>4. ValidApprovals(body[e].workflow)' = ValidApprovals(body[e].workflow)
    BY <2>1 DEF ValidApprovals
  <2> QED BY <2>1, <2>2, <2>3, <2>4 DEF ViewIsCurrent
<1>4. RevokesOwn' /\ IdsAreOwn'
  BY <1>1 DEF TrailInv, RevokesOwn, IdsAreOwn
<1>5. AuditedExists'
  BY DEF TrailInv, AuditedExists, Exists
<1>6. AuditTrailUnbroken'
  BY DEF TrailInv, AuditTrailUnbroken, Follows, Latest
<1> QED BY <1>2, <1>3, <1>4, <1>5, <1>6 DEF TrailInv

\* A thread that returns.
LEMMA ReturnQuiet ==
  ASSUME ServiceInv, TrailInv, NEW p \in Managers, NEW e \in EventId,
         NEW result \in {"rejected", "error", "non_retryable"},
         Return(p, e, result),
         UNCHANGED <<sqs, workflow, status, approvals, audits, raced>>
  PROVE  TrailInv'
<1>1. result \in Running \cup Returned /\ result \notin InTransaction
  BY DEF Running, Returned, InTransaction
<1>2. /\ pc'[p][e] = result
      /\ \A q \in Managers, f \in EventId :
           q # p \/ f # e => pc'[q][f] = pc[q][f] /\ view'[q][f] = view[q][f]
  BY <1>1, ReturnStep
<1>3. \A q \in Managers, f \in EventId :
        \/ pc'[q][f] \notin InTransaction
        \/ /\ pc'[q][f] = pc[q][f]
           /\ view'[q][f] = view[q][f]
           /\ body'[f] = body[f]
  BY <1>1, <1>2 DEF sqs
<1> QED BY <1>3, QuietStep

\* A thread that enters or continues its transaction, alone on its workflow or
\* on a raced one, with a view of the rows as they are.
LEMMA TransactionTrail ==
  ASSUME ServiceInv, TrailInv, NEW p \in Managers, NEW e \in EventId,
         UNCHANGED <<sqs, db>>,
         raced \subseteq raced',
         \A q \in Managers, f \in EventId :
           q # p \/ f # e => pc'[q][f] = pc[q][f] /\ view'[q][f] = view[q][f],
         body[e].workflow \notin raced' =>
           /\ ViewIsCurrent(p, e)'
           /\ \A q \in Managers, f \in EventId :
                /\ q # p \/ f # e
                /\ pc[q][f] \in InTransaction
                => body[f].workflow # body[e].workflow,
         view'[p][e].revoked \subseteq { a.id : a \in approvals },
         \A a \in approvals :
           a.id \in view'[p][e].revoked => a.workflow = body[e].workflow
  PROVE  TrailInv'
<1>1. UNCHANGED <<body, workflow, status, approvals, audits>>
  BY DEF sqs, db
<1>2. OneTransaction'
  <2> SUFFICES ASSUME NEW q \in Managers, NEW r \in Managers,
                      NEW f \in EventId, NEW g \in EventId,
                      pc'[q][f] \in InTransaction, pc'[r][g] \in InTransaction,
                      body[f].workflow = body[g].workflow,
                      body[f].workflow \notin raced'
               PROVE  q = r /\ f = g
    BY <1>1 DEF OneTransaction
  <2>1. CASE q = p /\ f = e
    BY <2>1
  <2>2. CASE r = p /\ g = e
    BY <2>2
  <2>3. CASE (q # p \/ f # e) /\ (r # p \/ g # e)
    BY <2>3 DEF TrailInv, OneTransaction
  <2> QED BY <2>1, <2>2, <2>3
<1>3. ViewsAreCurrent'
  <2> SUFFICES ASSUME NEW q \in Managers, NEW f \in EventId,
                      pc'[q][f] \in InTransaction,
                      body[f].workflow \notin raced'
               PROVE  ViewIsCurrent(q, f)'
    BY <1>1 DEF ViewsAreCurrent
  <2>1. CASE q = p /\ f = e
    BY <2>1
  <2>2. CASE q # p \/ f # e
    <3>1. pc'[q][f] = pc[q][f] /\ view'[q][f] = view[q][f]
      BY <2>2
    <3>2. ViewIsCurrent(q, f)
      BY <3>1 DEF TrailInv, ViewsAreCurrent
    <3>3. Load(body[f])' = Load(body[f])
      BY <1>1 DEF Load
    <3>4. ValidApprovals(body[f].workflow)' = ValidApprovals(body[f].workflow)
      BY <1>1 DEF ValidApprovals
    <3> QED BY <1>1, <3>1, <3>2, <3>3, <3>4 DEF ViewIsCurrent
  <2> QED BY <2>1, <2>2
<1>4. RevokesOwn' /\ IdsAreOwn'
  BY <1>1 DEF TrailInv, RevokesOwn, IdsAreOwn
<1>5. AuditedExists' /\ AuditTrailUnbroken'
  BY <1>1 DEF TrailInv, AuditedExists, Exists, AuditTrailUnbroken, Follows, Latest
<1> QED BY <1>2, <1>3, <1>4, <1>5 DEF TrailInv

LEMMA BeginTrail ==
  ASSUME ServiceInv, TrailInv, NEW p \in Managers, NEW e \in EventId,
         Begin(p, e)
  PROVE  TrailInv'
<1> DEFINE read == Load(body[e])
           w    == body[e].workflow
<1>1. /\ pc[p][e] = "submitted"
      /\ UNCHANGED <<sqs, db, gave_up>>
  BY DEF Begin
<1>2. CASE history[e] # "none"
  <2>1. Return(p, e, "error") /\ UNCHANGED raced
    BY <1>2 DEF Begin
  <2> QED BY <1>1, <2>1, ReturnQuiet DEF db
<1>3. CASE history[e] = "none" /\ ~CanSend(body[e], read.state, read.is_active)
  <2>1. Return(p, e, "rejected") /\ UNCHANGED raced
    BY <1>3 DEF Begin
  <2> QED BY <1>1, <2>1, ReturnQuiet DEF db
<1>4. CASE history[e] = "none" /\ CanSend(body[e], read.state, read.is_active)
  <2>1. /\ pc' = [pc EXCEPT ![p][e] = "loaded"]
        /\ view' = [view EXCEPT ![p][e] = read]
        /\ raced' = raced \cup AlsoOpen(w)
    BY <1>4 DEF Begin
  <2>2. read.revoked = {}
    BY DEF Load
  <2>3. body'[e] = body[e] /\ Load(body[e])' = read
    BY <1>1 DEF read, Load, sqs, db
  <2> HIDE DEF read
  <2>4. /\ pc'[p][e] = "loaded"
        /\ view'[p][e] = read
        /\ \A q \in Managers, f \in EventId :
             q # p \/ f # e => pc'[q][f] = pc[q][f] /\ view'[q][f] = view[q][f]
    BY <2>1 DEF ServiceInv, TypeOK
  <2>5. ViewIsCurrent(p, e)'
    BY <1>4, <2>3, <2>4 DEF ViewIsCurrent
  <2>6. w \notin raced' =>
          \A q \in Managers, f \in EventId :
            pc[q][f] \in InTransaction => body[f].workflow # w
    BY <2>1 DEF AlsoOpen
  <2>7. raced \subseteq raced'
    BY <2>1
  <2> QED BY <1>1, <2>2, <2>4, <2>5, <2>6, <2>7, TransactionTrail
<1> QED BY <1>2, <1>3, <1>4

LEMMA RunMachineTrail ==
  ASSUME ServiceInv, TrailInv, NEW p \in Managers, NEW e \in EventId,
         RunMachine(p, e)
  PROVE  TrailInv'
<1> DEFINE rows == ValidApprovals(body[e].workflow)
           ids  == IF IsModification(body[e]) THEN { a.id : a \in rows } ELSE {}
<1>1. pc[p][e] = "loaded" /\ UNCHANGED <<sqs, db, gave_up, raced>>
  BY DEF RunMachine
<1>2. CASE HasAlreadyApproved(body[e], rows)
  <2>1. Return(p, e, "rejected")
    BY <1>2 DEF RunMachine
  <2> QED BY <1>1, <2>1, ReturnQuiet DEF db
<1>3. CASE ~HasAlreadyApproved(body[e], rows)
  <2>1. /\ pc' = [pc EXCEPT ![p][e] = "flushed"]
        /\ view' = [view EXCEPT ![p][e].revoked = ids]
    BY <1>3 DEF RunMachine
  <2>2. view[p][e] \in View /\ pc[p][e] \in InTransaction
    BY <1>1 DEF ServiceInv, TypeOK, InTransaction
  <2>3. body'[e] = body[e] /\ Load(body[e])' = Load(body[e])
    BY <1>1 DEF Load, sqs, db
  <2>4. ValidApprovals(body[e].workflow)' = rows
    BY <1>1 DEF ValidApprovals, sqs, db
  <2>5. ids \subseteq { a.id : a \in approvals }
    BY DEF ValidApprovals
  <2>6. \A a \in approvals : a.id \in ids => a.workflow = body[e].workflow
    <3> SUFFICES ASSUME NEW a \in approvals, a.id \in ids
                 PROVE  a.workflow = body[e].workflow
      OBVIOUS
    <3>1. PICK b \in approvals : b.id = a.id /\ b.workflow = body[e].workflow
      BY DEF ValidApprovals
    <3> QED BY <3>1 DEF TrailInv, IdsAreOwn
  <2> HIDE DEF rows, ids
  <2>7. /\ view'[p][e].revoked = ids
        /\ view'[p][e].state = view[p][e].state
        /\ pc'[p][e] = "flushed"
        /\ \A q \in Managers, f \in EventId :
             q # p \/ f # e => pc'[q][f] = pc[q][f] /\ view'[q][f] = view[q][f]
    BY <2>1, <2>2 DEF ServiceInv, TypeOK, View
  <2>8. ASSUME body[e].workflow \notin raced
        PROVE  ViewIsCurrent(p, e)'
    <3>1. ViewIsCurrent(p, e)
      BY <2>2, <2>8 DEF TrailInv, ViewsAreCurrent
    <3> QED BY <1>3, <2>3, <2>4, <2>7, <3>1 DEF ViewIsCurrent, ids
  <2>9. ASSUME body[e].workflow \notin raced
        PROVE  \A q \in Managers, f \in EventId :
                 /\ q # p \/ f # e
                 /\ pc[q][f] \in InTransaction
                 => body[f].workflow # body[e].workflow
    BY <2>2, <2>9 DEF TrailInv, OneTransaction
  <2> QED BY <1>1, <2>5, <2>6, <2>7, <2>8, <2>9, TransactionTrail
<1> QED BY <1>2, <1>3
\* The rows of another workflow are untouched by a commit.
LEMMA CommitSpares ==
  ASSUME ServiceInv, TrailInv, NEW p \in Managers, NEW e \in EventId,
         Commit(p, e), NEW x, x # body[e].workflow
  PROVE  ValidApprovals(x)' = ValidApprovals(x)
<1> DEFINE ids == view[p][e].revoked
<1>1. /\ pc[p][e] = "flushed"
      /\ approvals' = { Revoke(a, ids) : a \in approvals } \cup ApprovalRow(e)
  BY DEF Commit
<1>2. \A a \in approvals : a.id \in ids => a.workflow = body[e].workflow
  BY <1>1 DEF TrailInv, RevokesOwn, InTransaction
<1>3. \A a \in approvals : /\ a.workflow = x => Revoke(a, ids) = a
                           /\ Revoke(a, ids).workflow = a.workflow
  <2> SUFFICES ASSUME NEW a \in approvals
               PROVE  /\ a.workflow = x => Revoke(a, ids) = a
                      /\ Revoke(a, ids).workflow = a.workflow
    OBVIOUS
  <2>1. a \in ApprovalRows
    BY DEF ServiceInv, TypeOK
  <2> QED BY <1>2, <2>1 DEF Revoke, ApprovalRows
<1>4. \A a \in ApprovalRow(e) : a.workflow # x
  BY DEF ApprovalRow
<1> HIDE DEF ids
<1>5. ASSUME NEW a \in approvals', a.workflow = x
      PROVE  a \in approvals
  BY <1>1, <1>3, <1>4, <1>5
<1>6. ASSUME NEW a \in approvals, a.workflow = x
      PROVE  a \in approvals'
  BY <1>1, <1>3, <1>6
<1> QED BY <1>5, <1>6 DEF ValidApprovals

\* The approvals after a commit: those before it, with their ids and workflows,
\* and the event's own, whose id is new.
LEMMA CommitIds ==
  ASSUME ServiceInv, NEW p \in Managers, NEW e \in EventId, Commit(p, e)
  PROVE  /\ \A a \in approvals' :
              \/ \E b \in approvals : a.id = b.id /\ a.workflow = b.workflow
              \/ a.id = e /\ a.workflow = body[e].workflow
         /\ \A b \in approvals : b.id # e
         /\ { a.id : a \in approvals } \subseteq { a.id : a \in approvals' }
<1> DEFINE ids == view[p][e].revoked
<1>1. /\ pc[p][e] = "flushed"
      /\ approvals' = { Revoke(a, ids) : a \in approvals } \cup ApprovalRow(e)
  BY DEF Commit
<1>2. \A a \in approvals : /\ Revoke(a, ids).id = a.id
                           /\ Revoke(a, ids).workflow = a.workflow
  <2> SUFFICES ASSUME NEW a \in approvals
               PROVE  /\ Revoke(a, ids).id = a.id
                      /\ Revoke(a, ids).workflow = a.workflow
    OBVIOUS
  <2>1. a \in ApprovalRows
    BY DEF ServiceInv, TypeOK
  <2> QED BY <2>1 DEF Revoke, ApprovalRows
<1>3. \A a \in ApprovalRow(e) : a.id = e /\ a.workflow = body[e].workflow
  BY DEF ApprovalRow
<1>4. history[e] = "none"
  BY <1>1 DEF ServiceInv, OpenTransactions, InTransaction
<1>5. \A b \in approvals : b.id # e
  BY <1>4 DEF ServiceInv, EffectsMatchHistory
<1> HIDE DEF ids
<1>6. ASSUME NEW b \in approvals
      PROVE  \E a \in approvals' : a.id = b.id
  BY <1>1, <1>2
<1> QED BY <1>1, <1>2, <1>3, <1>5, <1>6

\* The row a commit adds to the audit trail continues it: its source is the
\* state the last row of the workflow led to, which nobody has changed since
\* the transaction read it.
LEMMA CommitTrail ==
  ASSUME ServiceInv, TrailInv, NEW p \in Managers, NEW e \in EventId,
         Commit(p, e)
  PROVE  TrailInv'
<1> DEFINE ev  == body[e]
           w   == ev.workflow
           new == Len(audits) + 1
<1>1. /\ pc[p][e] = "flushed"
      /\ workflow' = [workflow EXCEPT ![w] =
                        [state |-> Target(ev), is_active |-> IsActiveAfter(ev)]]
      /\ audits' = Append(audits, AuditRow(e, view[p][e].state))
      /\ Return(p, e, "success")
      /\ UNCHANGED <<sqs, gave_up, raced>>
  BY DEF Commit
<1>2. /\ WellFormed(e)
      /\ w \in WorkflowId
      /\ Target(ev) \in State
  <2>1. pc[p][e] # "idle"
    BY <1>1
  <2> QED BY <2>1, ThreadHasEvent, EventTypes
<1>3. /\ history[e] = "none"
      /\ w \notin raced => ViewIsCurrent(p, e)
  BY <1>1 DEF TrailInv, ViewsAreCurrent, ServiceInv, OpenTransactions,
              InTransaction
<1>4. /\ workflow'[w].state = Target(ev)
      /\ \A x \in WorkflowId \ {w} : workflow'[x] = workflow[x]
      /\ workflow'[w] # NoRow
  <2>1. workflow[w].is_active \in BOOLEAN
    BY <1>2, RowColumns DEF ServiceInv, TypeOK
  <2>2. IsActiveAfter(ev) \in BOOLEAN
    BY <2>1 DEF IsActiveAfter
  <2> HIDE DEF w, ev
  <2> QED BY <1>1, <1>2, <2>2, RowPresent DEF ServiceInv, TypeOK
<1>5. /\ DOMAIN audits' = DOMAIN audits \cup {new}
      /\ DOMAIN audits \subseteq Int /\ new \in Int
      /\ \A i \in DOMAIN audits : i < new /\ audits'[i] = audits[i]
                                  /\ audits[i].workflow \in WorkflowId
      /\ audits'[new].workflow = w
      /\ audits'[new].source = view[p][e].state
      /\ audits'[new].target = Target(ev)
  <2> DEFINE row == AuditRow(e, view[p][e].state)
  <2>1. view[p][e].state \in State
    BY <1>1 DEF ServiceInv, OpenTransactions, InTransaction
  <2>2. /\ row \in Audit
        /\ row.workflow = w
        /\ row.source = view[p][e].state
        /\ row.target = Target(ev)
    BY <1>2, <2>1 DEF AuditRow, Audit
  <2>3. audits \in Seq(Audit) /\ \A a \in Audit : a.workflow \in WorkflowId
    BY DEF ServiceInv, TypeOK, Audit
  <2> HIDE DEF row, w, ev
  <2>4. audits' = Append(audits, row)
    BY <1>1 DEF row
  <2> QED BY <2>2, <2>3, <2>4
<1>6. w \notin raced =>
        \A i \in DOMAIN audits :
          audits[i].workflow = w => view[p][e].state = workflow[w].state
  <2>1. CASE ev.name = "start_workflow"
    <3>1. w = e /\ ~Exists(e)
      BY <1>2, <1>3, <2>1 DEF WellFormed, ServiceInv, CreatedByStart
    <3> QED BY <3>1 DEF TrailInv, AuditedExists
  <2>2. CASE ev.name # "start_workflow"
    BY <1>3, <2>2 DEF ViewIsCurrent, Load
  <2> QED BY <2>1, <2>2
<1>7. /\ pc'[p][e] = "success"
      /\ body' = body /\ raced' = raced
      /\ \A q \in Managers, f \in EventId :
           pc'[q][f] \in InTransaction =>
             /\ q # p \/ f # e
             /\ pc'[q][f] = pc[q][f]
             /\ view'[q][f] = view[q][f]
  <2>1. "success" \in Running \cup Returned /\ "success" \notin InTransaction
    BY DEF Returned, InTransaction
  <2> QED BY <1>1, <2>1, ReturnStep DEF sqs
<1>8. OneTransaction'
  BY <1>7 DEF TrailInv, OneTransaction
<1>9. ViewsAreCurrent'
  <2> SUFFICES ASSUME NEW q \in Managers, NEW f \in EventId,
                      pc'[q][f] \in InTransaction, body[f].workflow \notin raced
               PROVE  ViewIsCurrent(q, f)'
    BY <1>7 DEF ViewsAreCurrent
  <2>1. /\ pc'[q][f] = pc[q][f] /\ view'[q][f] = view[q][f]
        /\ q # p \/ f # e
    BY <1>7
  <2>2. body[f].workflow # w
    BY <1>1, <2>1 DEF TrailInv, OneTransaction, InTransaction
  <2>3. ViewIsCurrent(q, f)
    BY <2>1 DEF TrailInv, ViewsAreCurrent
  <2>4. body[f].workflow \in WorkflowId
    <3>1. pc[q][f] # "idle"
      BY <2>1 DEF InTransaction
    <3> QED BY <3>1, ThreadHasEvent, EventTypes
  <2>5. /\ Load(body[f])'.state = Load(body[f]).state
        /\ Load(body[f])'.is_active = Load(body[f]).is_active
    BY <1>4, <1>7, <2>2, <2>4 DEF Load
  <2>6. ValidApprovals(body[f].workflow)' = ValidApprovals(body[f].workflow)
    BY <1>7, <2>2, CommitSpares
  <2> QED BY <1>7, <2>1, <2>3, <2>5, <2>6 DEF ViewIsCurrent
<1>10. RevokesOwn' /\ IdsAreOwn'
  <2>1. RevokesOwn'
    <3> SUFFICES ASSUME NEW q \in Managers, NEW f \in EventId,
                        pc'[q][f] \in InTransaction
                 PROVE  /\ view'[q][f].revoked \subseteq { a.id : a \in approvals' }
                        /\ \A a \in approvals' :
                             a.id \in view'[q][f].revoked =>
                               a.workflow = body[f].workflow
      BY <1>7 DEF RevokesOwn
    <3>1. pc[q][f] \in InTransaction /\ view'[q][f] = view[q][f]
      BY <1>7
    <3>2. /\ view[q][f].revoked \subseteq { a.id : a \in approvals }
          /\ \A a \in approvals :
               a.id \in view[q][f].revoked => a.workflow = body[f].workflow
      BY <3>1 DEF TrailInv, RevokesOwn
    <3>3. e \notin view[q][f].revoked
      BY <3>2, CommitIds
    <3> QED BY <3>1, <3>2, <3>3, CommitIds
  <2>2. IdsAreOwn'
    <3> SUFFICES ASSUME NEW a \in approvals', NEW b \in approvals', a.id = b.id
                 PROVE  a.workflow = b.workflow
      BY DEF IdsAreOwn
    <3> QED BY CommitIds DEF TrailInv, IdsAreOwn
  <2> QED BY <2>1, <2>2
<1> HIDE DEF new, w, ev
<1>11. AuditTrailUnbroken'
  <2> SUFFICES ASSUME NEW i \in DOMAIN audits', audits'[i].workflow \notin raced
               PROVE  /\ \A j \in DOMAIN audits' :
                           Follows(j, i)' => audits'[i].target = audits'[j].source
                      /\ Latest(i)' => audits'[i].target
                                         = workflow'[audits'[i].workflow].state
    BY <1>7 DEF AuditTrailUnbroken
  <2>1. CASE i = new
    <3>1. \A j \in DOMAIN audits' : ~(i < j)
      BY <1>5, <2>1
    <3> QED BY <1>4, <1>5, <2>1, <3>1 DEF Follows
  <2>2. CASE i \in DOMAIN audits
    <3>1. ASSUME NEW j \in DOMAIN audits', Follows(j, i)'
          PROVE  audits'[i].target = audits'[j].source
      <4>1. CASE j \in DOMAIN audits
        <5>1. Follows(j, i)
          BY <1>5, <2>2, <3>1, <4>1 DEF Follows
        <5> QED BY <1>5, <2>2, <4>1, <5>1 DEF TrailInv, AuditTrailUnbroken
      <4>2. CASE j = new
        <5>1. audits[i].workflow = w /\ Latest(i)
          BY <1>5, <2>2, <3>1, <4>2 DEF Follows, Latest
        <5>2. audits[i].target = workflow[w].state
          BY <1>5, <2>2, <5>1 DEF TrailInv, AuditTrailUnbroken
        <5> QED BY <1>5, <1>6, <2>2, <4>2, <5>1, <5>2
      <4> QED BY <1>5, <4>1, <4>2
    <3>2. ASSUME Latest(i)'
          PROVE  audits'[i].target = workflow'[audits'[i].workflow].state
      <4>1. audits[i].workflow # w /\ Latest(i)
        BY <1>5, <2>2, <3>2 DEF Latest
      <4>2. audits[i].target = workflow[audits[i].workflow].state
        BY <1>5, <2>2, <4>1 DEF TrailInv, AuditTrailUnbroken
      <4> QED BY <1>4, <1>5, <2>2, <4>1, <4>2
    <3> QED BY <3>1, <3>2
  <2> QED BY <1>5, <2>1, <2>2
<1>12. AuditedExists'
  BY <1>4, <1>5 DEF TrailInv, AuditedExists, Exists
<1> QED BY <1>8, <1>9, <1>10, <1>11, <1>12 DEF TrailInv

LEMMA StoreFailureTrail ==
  ASSUME ServiceInv, TrailInv, NEW p \in Managers, NEW e \in EventId,
         StoreFailure(p, e)
  PROVE  TrailInv'
<1>1. /\ UNCHANGED <<sqs, workflow, status, approvals, audits, raced>>
      /\ Return(p, e, "error") \/ Return(p, e, "non_retryable")
  BY DEF StoreFailure
<1> QED BY <1>1, ReturnQuiet

\* A new event has no thread yet.
LEMMA SendTrail ==
  ASSUME ServiceInv, TrailInv, NEW e \in EventId, NEW ev, Send(e, ev)
  PROVE  TrailInv'
<1>1. /\ UNCHANGED <<db, threads, raced>>
      /\ \A p \in Managers : pc[p][e] = "idle"
      /\ \A f \in EventId \ {e} : body'[f] = body[f]
  BY DEF Send, ServiceInv, SentBeforeHandled, TypeOK
<1> QED BY <1>1, QuietStep DEF db, threads, InTransaction

\* A batch of new threads, none in a transaction yet.
LEMMA FetchTrail ==
  ASSUME ServiceInv, TrailInv, NEW p \in Managers, FetchMessages(p)
  PROVE  TrailInv'
<1>1. PICK ms \in SUBSET EventId :
        pc' = [pc EXCEPT ![p] =
                 [e \in EventId |-> IF e \in ms THEN "submitted" ELSE "idle"]]
  BY DEF FetchMessages
<1>2. UNCHANGED <<body, db, view, raced>>
  BY DEF FetchMessages
<1>3. \A q \in Managers, e \in EventId :
        pc'[q][e] \notin InTransaction \/ pc'[q][e] = pc[q][e]
  BY <1>1 DEF ServiceInv, TypeOK, InTransaction
<1> QED BY <1>2, <1>3, QuietStep DEF db

LEMMA NextTrailInv ==
  ASSUME ServiceInv, TrailInv, [Next]_vars
  PROVE  TrailInv'
<1>1. ASSUME NEW e \in EventId, NEW u \in Users,
             StartReview(e, u) \/ IngestEvent(e, u)
      PROVE  TrailInv'
  <2>1. \E ev : Send(e, ev)
    BY <1>1 DEF StartReview, IngestEvent
  <2> QED BY <2>1, SendTrail
<1>2. ASSUME UNCHANGED <<body, db, pc, view, raced>>
      PROVE  TrailInv'
  BY <1>2, QuietStep DEF db
<1>3. ASSUME NEW e \in EventId, Reappear(e) \/ DeadLetter(e)
      PROVE  TrailInv'
  BY <1>2, <1>3 DEF Reappear, DeadLetter, threads
<1>4. ASSUME NEW p \in Managers, NEW e \in EventId, GiveUp(p, e)
      PROVE  TrailInv'
  BY <1>2, <1>4 DEF GiveUp, sqs
<1>5. ASSUME NEW p \in Managers, FinishBatch(p) \/ Crash(p)
      PROVE  TrailInv'
  <2>1. Forget(p) /\ body' = body /\ UNCHANGED <<db, raced>>
    BY <1>5 DEF FinishBatch, Crash, sqs
  <2>2. \A q \in Managers, e \in EventId :
          \/ pc'[q][e] \notin InTransaction
          \/ pc'[q][e] = pc[q][e] /\ view'[q][e] = view[q][e]
    BY <2>1, ForgetStep DEF InTransaction
  <2> QED BY <2>1, <2>2, QuietStep DEF db
<1>6. ASSUME NEW p \in Managers, NEW e \in EventId, Fail(p, e)
      PROVE  TrailInv'
  BY <1>6, ReturnQuiet DEF Fail, db
<1>7. CASE UNCHANGED vars
  BY <1>2, <1>7 DEF vars, sqs, threads
<1> QED BY <1>1, <1>3, <1>4, <1>5, <1>6, <1>7, FetchTrail, BeginTrail,
           RunMachineTrail, CommitTrail, StoreFailureTrail DEF Next, Thread

LEMMA InitTrailInv ==
  ASSUME Init
  PROVE  TrailInv
<1>1. /\ DOMAIN audits = {}
      /\ \A p \in Managers, e \in EventId : pc[p][e] = "idle"
      /\ \A a \in approvals : a.workflow = FirstWorkflow
  BY DEF Init
<1> QED BY <1>1 DEF TrailInv, OneTransaction, ViewsAreCurrent, InTransaction,
                    RevokesOwn, IdsAreOwn, AuditedExists, AuditTrailUnbroken

\* The views of open transactions and the audit trail stay in step with the
\* tables on every workflow that is not raced.
LEMMA TrailCorrect == Spec => [](ServiceInv /\ TrailInv)
<1>1. Init => ServiceInv /\ TrailInv
  BY InitServiceInv, InitTrailInv
<1>2. ServiceInv /\ TrailInv /\ [Next]_vars => (ServiceInv /\ TrailInv)'
  BY NextServiceInv, NextTrailInv
<1> QED BY <1>1, <1>2, PTL DEF Spec

\* The audit rows of every workflow of which no two transactions have been open
\* at once are one unbroken chain that ends in the state the workflow is in,
\* for any number of managers, batches, crashes and redeliveries.
THEOREM AuditTrailHolds == Spec => []AuditTrailUnbroken
<1>1. TrailInv => AuditTrailUnbroken
  BY DEF TrailInv
<1> QED BY <1>1, TrailCorrect, PTL
-----------------------------------------------------------------------------
(* An intact review is the abstract one.                                    *)

\* The abstract review with its theorems, under the same mapping.
ReviewProofs ==
  INSTANCE AwardRecReviewProofs
    WITH state     <- IF Begun THEN workflow[TheReview].state ELSE "start",
         is_active <- IF Begun THEN workflow[TheReview].is_active ELSE TRUE,
         approvals <- { [user |-> a.user, type |-> a.type] :
                          a \in { b \in approvals : b.valid } }

\* Both name the same state predicate and the same step.
LEMMA SameInvariant == Review!ReviewInv <=> ReviewProofs!ReviewInv
BY DEF Review!ReviewInv, Review!TypeOK, Review!ActiveUntilEnd,
       Review!StatusFollowsState, Review!ApprovalsCoverStages,
       Review!OneApprovalPerStage, Review!State, Review!Status,
       Review!Approval, Review!ApprovalEvent, Review!IsFinal, Review!StatusOf,
       Review!Passed,
       ReviewProofs!ReviewInv, ReviewProofs!TypeOK, ReviewProofs!ActiveUntilEnd,
       ReviewProofs!StatusFollowsState, ReviewProofs!ApprovalsCoverStages,
       ReviewProofs!OneApprovalPerStage, ReviewProofs!State,
       ReviewProofs!Status, ReviewProofs!Approval, ReviewProofs!ApprovalEvent,
       ReviewProofs!IsFinal, ReviewProofs!StatusOf, ReviewProofs!Passed

LEMMA SameStep == Review!Next <=> ReviewProofs!Next
BY DEF Review!Next, Review!StartWorkflow, Review!InternalStep, Review!Approve,
       Review!RequireModification, Review!Handle, Review!Event, Review!Record,
       Review!CanSend, Review!HasAlreadyApproved, Review!Target,
       Review!IsModification, Review!NewStatus, Review!OnStatus, Review!Source,
       Review!Onward, Review!IsFinal, Review!AllowedResponses,
       Review!ApprovalEvent, Review!StepEvent,
       ReviewProofs!Next, ReviewProofs!StartWorkflow,
       ReviewProofs!InternalStep, ReviewProofs!Approve,
       ReviewProofs!RequireModification, ReviewProofs!Handle,
       ReviewProofs!Event, ReviewProofs!Record, ReviewProofs!CanSend,
       ReviewProofs!HasAlreadyApproved, ReviewProofs!Target,
       ReviewProofs!IsModification, ReviewProofs!NewStatus,
       ReviewProofs!OnStatus, ReviewProofs!Source, ReviewProofs!Onward,
       ReviewProofs!IsFinal, ReviewProofs!AllowedResponses,
       ReviewProofs!ApprovalEvent, ReviewProofs!StepEvent

\* What the abstract review proves of its steps holds of the mapped ones.
LEMMA ReviewStepKeeps ==
  Review!ReviewInv /\ [Review!Next]_(Review!vars) => Review!ReviewInv'
<1>1. ReviewProofs!ReviewInv /\ [ReviewProofs!Next]_(ReviewProofs!vars)
        => ReviewProofs!ReviewInv'
  BY ReviewProofs!StepInv
<1>2. [Review!Next]_(Review!vars) => [ReviewProofs!Next]_(ReviewProofs!vars)
  BY SameStep DEF Review!vars, ReviewProofs!vars
<1> QED BY <1>1, <1>2, SameInvariant, PTL

\* No step but the two of the API takes an event out of the unsent ones or
\* changes one.
LEMMA WhoSends ==
  ASSUME ServiceInv, [Next]_vars
  PROVE  \/ \E e \in EventId, u \in Users : StartReview(e, u)
         \/ \E e \in EventId, u \in Users : IngestEvent(e, u)
         \/ /\ body' = body
            /\ \A e \in EventId : queue'[e] # "unsent" => queue[e] # "unsent"
<1> DEFINE Q == /\ body' = body
                /\ \A e \in EventId : queue'[e] # "unsent" => queue[e] # "unsent"
<1> USE DEF ServiceInv
<1>1. ASSUME NEW e \in EventId, Reappear(e) \/ DeadLetter(e)
      PROVE  Q
  BY <1>1 DEF Reappear, DeadLetter, TypeOK
<1>2. ASSUME NEW p \in Managers, FetchMessages(p) \/ FinishBatch(p) \/ Crash(p)
      PROVE  Q
  <2>1. CASE FetchMessages(p)
    BY <2>1 DEF FetchMessages
  <2>2. CASE FinishBatch(p)
    <3>1. \A e \in ToDelete(p) : queue[e] # "unsent"
      BY DEF ToDelete, Batch, SentBeforeHandled
    <3> QED BY <2>2, <3>1 DEF FinishBatch
  <2>3. CASE Crash(p)
    BY <2>3 DEF Crash, sqs
  <2> QED BY <1>2, <2>1, <2>2, <2>3
<1>3. ASSUME NEW p \in Managers, NEW e \in EventId,
             Thread(p, e) \/ Fail(p, e) \/ GiveUp(p, e)
      PROVE  Q
  BY <1>3 DEF Thread, Begin, RunMachine, Commit, StoreFailure, Fail, GiveUp, sqs
<1>4. CASE UNCHANGED vars
  BY <1>4 DEF vars, sqs
<1> QED BY <1>1, <1>2, <1>3, <1>4 DEF Next

\* The service's machine is the one of the abstract review.
LEMMA SameMachine ==
  /\ Review!Source = Source /\ Review!Onward = Onward
  /\ Review!OnStatus = OnStatus /\ Review!Passed = Passed
  /\ Review!State = State /\ Review!Status = Status
  /\ Review!ApprovalEvent = ApprovalEvent /\ Review!StepEvent = StepEvent
BY DEF Review!Source, Source, Review!Onward, Onward, Review!OnStatus, OnStatus,
       Review!Passed, Passed, Review!State, State, Review!Status, Status,
       Review!ApprovalEvent, ApprovalEvent, Review!StepEvent, StepEvent

\* The approvals of the abstract review.
Mapped(rows) == { [user |-> a.user, type |-> a.type] : a \in rows }

\* What a commit leaves valid: nothing after a request for modification, else
\* every row that was valid and its own.
LEMMA CommitApprovals ==
  ASSUME ServiceInv, TrailInv, NEW p \in Managers, NEW e \in EventId,
         Commit(p, e), NEW w, w = body[e].workflow, w \notin raced
  PROVE  ValidApprovals(w)' =
           IF IsModification(body[e]) THEN {}
           ELSE ValidApprovals(w) \cup ApprovalRow(e)
<1> DEFINE rows == ValidApprovals(w)
           ids  == view[p][e].revoked
<1>1. pc[p][e] = "flushed"
      /\ approvals' = { Revoke(a, ids) : a \in approvals } \cup ApprovalRow(e)
  BY DEF Commit
<1>3. ids = IF IsModification(body[e]) THEN { a.id : a \in rows } ELSE {}
  BY <1>1 DEF TrailInv, ViewsAreCurrent, ViewIsCurrent, InTransaction
<1>4. \A a \in ApprovalRow(e) : /\ a.workflow = w
                                /\ a.valid = ~IsModification(body[e])
  BY DEF ApprovalRow
<1>5. CASE IsModification(body[e])
  <2>1. \A a \in approvals : ~(Revoke(a, ids).workflow = w
                               /\ Revoke(a, ids).valid)
    <3> SUFFICES ASSUME NEW a \in approvals
                 PROVE  ~(Revoke(a, ids).workflow = w
                          /\ Revoke(a, ids).valid)
      OBVIOUS
    <3>1. a \in ApprovalRows
      BY DEF ServiceInv, TypeOK
    <3>2. CASE a.id \in ids
      BY <3>1, <3>2 DEF Revoke, ApprovalRows
    <3>3. CASE a.id \notin ids
      BY <1>3, <1>5, <3>3 DEF Revoke, ValidApprovals
    <3> QED BY <3>2, <3>3
  <2> HIDE DEF ids
  <2> QED BY <1>1, <1>4, <1>5, <2>1 DEF ValidApprovals
<1>6. CASE ~IsModification(body[e])
  <2>1. approvals' = approvals \cup ApprovalRow(e)
    <3>1. \A a \in approvals : Revoke(a, ids) = a
      BY <1>3, <1>6 DEF Revoke
    <3> QED BY <1>1, <3>1
  <2> QED BY <1>4, <1>6, <2>1 DEF ValidApprovals
<1> QED BY <1>5, <1>6


\* What a commit does to the workflow table, and that it had an event to handle.
LEMMA CommitRow ==
  ASSUME ServiceInv, NEW p \in Managers, NEW e \in EventId, Commit(p, e)
  PROVE  LET w == body[e].workflow
         IN /\ w \in WorkflowId /\ WellFormed(e) /\ queue[e] # "unsent"
            /\ workflow'[w] = [ state |-> Target(body[e]),
                                is_active |-> IsActiveAfter(body[e]) ]
            /\ workflow'[w] # NoRow
            /\ \A x \in WorkflowId \ {w} : workflow'[x] = workflow[x]
<1> DEFINE ev == body[e]
           w  == ev.workflow
<1>1. /\ pc[p][e] = "flushed"
      /\ workflow' = [workflow EXCEPT ![w] =
                        [state |-> Target(ev), is_active |-> IsActiveAfter(ev)]]
  BY DEF Commit
<1>2. /\ WellFormed(e) /\ queue[e] # "unsent"
      /\ w \in WorkflowId
      /\ Target(ev) \in State
  <2>1. pc[p][e] # "idle"
    BY <1>1
  <2> QED BY <2>1, ThreadHasEvent, EventTypes
<1>3. IsActiveAfter(ev) \in BOOLEAN
  <2>1. workflow[w].is_active \in BOOLEAN
    BY <1>2, RowColumns DEF ServiceInv, TypeOK
  <2> QED BY <2>1 DEF IsActiveAfter
<1> HIDE DEF w, ev
<1>4. /\ workflow'[w] = [state |-> Target(ev), is_active |-> IsActiveAfter(ev)]
      /\ workflow'[w] # NoRow
      /\ \A x \in WorkflowId \ {w} : workflow'[x] = workflow[x]
  BY <1>1, <1>2, <1>3, RowPresent DEF ServiceInv, TypeOK
<1> QED BY <1>2, <1>4 DEF w, ev

\* A workflow that is stored stays stored, so an intact review has been intact.
LEMMA ExistsStays ==
  ASSUME ServiceInv, [Next]_vars
  PROVE  \A w \in WorkflowId : Exists(w) => Exists(w)'
<1>1. CASE workflow' = workflow
  BY <1>1 DEF Exists
<1>2. ASSUME NEW p \in Managers, NEW e \in EventId, Commit(p, e)
      PROVE  \A w \in WorkflowId : Exists(w) => Exists(w)'
  BY <1>2, CommitRow DEF Exists
<1> QED BY <1>1, <1>2, WhoWrites DEF db, StoreFailure

LEMMA RacedStays ==
  ASSUME [Next]_vars
  PROVE  raced \subseteq raced'
BY DEF Next, vars, StartReview, IngestEvent, Send, Reappear, DeadLetter,
       FetchMessages, FinishBatch, Crash, Thread, Begin, RunMachine, Commit,
       StoreFailure, Fail, GiveUp

LEMMA IntactBefore ==
  ASSUME ServiceInv, [Next]_vars, Intact'
  PROVE  Intact
BY ExistsStays, RacedStays DEF Intact

\* The workflow of an intact review is the one that exists.
LEMMA OnlyReview ==
  ASSUME Intact, NEW w \in WorkflowId, Exists(w)
  PROVE  Begun /\ TheReview = w
<1>1. Begun
  BY DEF Begun
<1>2. TheReview \in WorkflowId /\ Exists(TheReview)
  BY DEF TheReview
<1> QED BY <1>1, <1>2 DEF Intact

\* What is sent can be handled: a start as it is, anything else by a workflow
\* that the endpoint saw.
LEMMA NextStepsAreSent ==
  ASSUME ServiceInv, StepsAreSent, [Next]_vars
  PROVE  StepsAreSent'
<1> DEFINE Sent(ev) ==
             /\ ev.name # "start_workflow" => Exists(ev.workflow)
             /\ ev.response \in IF ev.name \in ApprovalEvent
                                THEN AllowedResponses(ev.name) ELSE {"none"}
<1>1. ASSUME NEW e \in EventId, NEW ev, Send(e, ev), Sent(ev)
      PROVE  StepsAreSent'
  <2>1. /\ body' = [body EXCEPT ![e] = ev]
        /\ queue' = [queue EXCEPT ![e] = "visible"]
        /\ workflow' = workflow
    BY <1>1 DEF Send, db
  <2>2. body'[e] = ev /\ \A f \in EventId \ {e} : /\ body'[f] = body[f]
                                                  /\ queue'[f] = queue[f]
    BY <2>1 DEF ServiceInv, TypeOK
  <2> QED BY <1>1, <2>1, <2>2 DEF StepsAreSent, Exists
<1>2. ASSUME NEW e \in EventId, NEW u \in Users, StartReview(e, u)
      PROVE  \E ev : Send(e, ev) /\ Sent(ev)
  <2> DEFINE ev == [workflow |-> e, name |-> "start_workflow", user |-> u,
                    response |-> "none"]
  <2>1. Send(e, ev)
    BY <1>2 DEF StartReview
  <2>2. Sent(ev)
    BY DEF ApprovalEvent
  <2> QED BY <2>1, <2>2
<1>3. ASSUME NEW e \in EventId, NEW u \in Users, IngestEvent(e, u)
      PROVE  \E ev : Send(e, ev) /\ Sent(ev)
  <2>1. PICK w \in WorkflowId, name \in EventName \ {"start_workflow"} :
          /\ workflow[w].is_active
          /\ \E response \in IF name \in ApprovalEvent
                             THEN AllowedResponses(name) ELSE {"none"} :
               Send(e, [workflow |-> w, name |-> name, user |-> u,
                        response |-> response])
    BY <1>3 DEF IngestEvent
  <2>2. Exists(w)
    BY <2>1 DEF Exists, NoRow
  <2>3. PICK response \in IF name \in ApprovalEvent
                          THEN AllowedResponses(name) ELSE {"none"} :
          Send(e, [workflow |-> w, name |-> name, user |-> u,
                   response |-> response])
    BY <2>1
  <2> DEFINE ev == [workflow |-> w, name |-> name, user |-> u,
                    response |-> response]
  <2>4. Sent(ev)
    BY <2>2
  <2> QED BY <2>3, <2>4
<1>4. CASE /\ body' = body
           /\ \A e \in EventId : queue'[e] # "unsent" => queue[e] # "unsent"
  <2>1. \A e \in EventId :
          queue[e] # "unsent" => body[e].workflow \in WorkflowId
    BY EventTypes DEF ServiceInv, SentBeforeHandled
  <2>2. \A w \in WorkflowId : Exists(w) => Exists(w)'
    BY ExistsStays
  <2> QED BY <1>4, <2>1, <2>2 DEF StepsAreSent, Exists
<1> HIDE DEF Sent
<1> QED BY <1>1, <1>2, <1>3, <1>4, WhoSends

\* Approvals are of workflows that are stored.
LEMMA NextApprovedExists ==
  ASSUME ServiceInv, ApprovedExists, [Next]_vars
  PROVE  ApprovedExists'
<1>1. CASE UNCHANGED <<workflow, approvals>>
  BY <1>1 DEF ApprovedExists, Exists
<1>2. ASSUME NEW p \in Managers, NEW e \in EventId, Commit(p, e)
      PROVE  ApprovedExists'
  <2>1. Exists(body[e].workflow)'
    <3>1. body' = body
      BY <1>2 DEF Commit, sqs
    <3> QED BY <1>2, <3>1, CommitRow DEF Exists
  <2>2. \A w \in WorkflowId : Exists(w) => Exists(w)'
    BY ExistsStays
  <2>3. \A b \in approvals : b.workflow \in WorkflowId
    BY DEF ServiceInv, TypeOK, ApprovalRows
  <2>4. \A a \in approvals' :
          \/ \E b \in approvals : a.workflow = b.workflow
          \/ a.workflow = body[e].workflow
    BY <1>2, CommitIds
  <2>5. body' = body
    BY <1>2 DEF Commit, sqs
  <2> QED BY <2>1, <2>2, <2>3, <2>4, <2>5 DEF ApprovedExists, Exists
<1> QED BY <1>1, <1>2, WhoWrites DEF db, StoreFailure

\* A thread in its transaction after a step other than a commit was there before
\* with the status it had read, or has just read the status there is.
LEMMA StatusRead ==
  ASSUME ServiceInv, [Next]_vars, NEW p \in Managers, NEW e \in EventId,
         pc'[p][e] \in InTransaction
  PROVE  \/ view'[p][e].status = status
         \/ /\ pc[p][e] \in InTransaction
            /\ view'[p][e].status = view[p][e].status
<1> DEFINE Q == \/ view'[p][e].status = status
                \/ /\ pc[p][e] \in InTransaction
                   /\ view'[p][e].status = view[p][e].status
<1>1. ASSUME pc'[p][e] = pc[p][e], view'[p][e] = view[p][e]
      PROVE  Q
  BY <1>1
<1>2. ASSUME NEW q \in Managers, NEW f \in EventId, NEW result,
             result \in Running \cup Returned, result \notin InTransaction,
             Return(q, f, result)
      PROVE  Q
  BY <1>1, <1>2, ReturnStep
<1>3. /\ "error" \in Running \cup Returned /\ "error" \notin InTransaction
      /\ "rejected" \in Running \cup Returned /\ "rejected" \notin InTransaction
      /\ "success" \in Running \cup Returned /\ "success" \notin InTransaction
      /\ "non_retryable" \in Running \cup Returned
      /\ "non_retryable" \notin InTransaction
  BY DEF Running, Returned, InTransaction
<1>4. ASSUME NEW q \in Managers, NEW f \in EventId, Begin(q, f)
      PROVE  Q
  <2>1. CASE \E result \in {"error", "rejected"} : Return(q, f, result)
    BY <1>2, <1>3, <2>1
  <2>2. CASE /\ pc' = [pc EXCEPT ![q][f] = "loaded"]
             /\ view' = [view EXCEPT ![q][f] = Load(body[f])]
    <3>1. Load(body[f]).status = status
      BY DEF Load
    <3>2. CASE q = p /\ f = e
      BY <2>2, <3>1, <3>2 DEF ServiceInv, TypeOK
    <3>3. CASE q # p \/ f # e
      BY <1>1, <2>2, <3>3 DEF ServiceInv, TypeOK
    <3> QED BY <3>2, <3>3
  <2> QED BY <1>4, <2>1, <2>2 DEF Begin
<1>5. ASSUME NEW q \in Managers, NEW f \in EventId, RunMachine(q, f)
      PROVE  Q
  <2>1. CASE Return(q, f, "rejected")
    BY <1>2, <1>3, <2>1
  <2>2. ASSUME NEW ids, pc' = [pc EXCEPT ![q][f] = "flushed"],
               view' = [view EXCEPT ![q][f].revoked = ids]
        PROVE  Q
    <3>1. view[q][f] \in View
      BY DEF ServiceInv, TypeOK
    <3>2. CASE q = p /\ f = e
      <4>1. pc[p][e] \in InTransaction
        BY <1>5, <3>2 DEF RunMachine, InTransaction
      <4> QED BY <2>2, <3>1, <3>2, <4>1 DEF ServiceInv, TypeOK, View
    <3>3. CASE q # p \/ f # e
      BY <1>1, <2>2, <3>3 DEF ServiceInv, TypeOK
    <3> QED BY <3>2, <3>3
  <2>3. \/ Return(q, f, "rejected")
        \/ \E ids : /\ pc' = [pc EXCEPT ![q][f] = "flushed"]
                    /\ view' = [view EXCEPT ![q][f].revoked = ids]
    BY <1>5 DEF RunMachine
  <2> QED BY <2>1, <2>2, <2>3
<1>6. ASSUME NEW q \in Managers, NEW f \in EventId,
             Commit(q, f) \/ StoreFailure(q, f) \/ Fail(q, f)
      PROVE  Q
  BY <1>2, <1>3, <1>6 DEF Commit, StoreFailure, Fail
<1>7. ASSUME NEW q \in Managers, FetchMessages(q)
      PROVE  Q
  <2>1. PICK ms \in SUBSET EventId :
          pc' = [pc EXCEPT ![q] =
                   [f \in EventId |-> IF f \in ms THEN "submitted" ELSE "idle"]]
    BY <1>7 DEF FetchMessages
  <2>2. view' = view
    BY <1>7 DEF FetchMessages
  <2> QED BY <1>1, <2>1, <2>2 DEF ServiceInv, TypeOK, InTransaction
<1>8. ASSUME NEW q \in Managers, FinishBatch(q) \/ Crash(q)
      PROVE  Q
  <2>1. Forget(q)
    BY <1>8 DEF FinishBatch, Crash
  <2> QED BY <1>1, <2>1, ForgetStep DEF InTransaction
<1>9. ASSUME UNCHANGED <<pc, view>>
      PROVE  Q
  BY <1>1, <1>9
<1>10. ASSUME NEW f \in EventId, NEW u \in Users,
              StartReview(f, u) \/ IngestEvent(f, u)
       PROVE  UNCHANGED <<pc, view>>
  BY <1>10 DEF StartReview, IngestEvent, Send, threads
<1>11. ASSUME NEW f \in EventId, Reappear(f) \/ DeadLetter(f)
       PROVE  UNCHANGED <<pc, view>>
  BY <1>11 DEF Reappear, DeadLetter, threads
<1>12. ASSUME NEW q \in Managers, NEW f \in EventId, GiveUp(q, f)
       PROVE  UNCHANGED <<pc, view>>
  BY <1>12 DEF GiveUp
<1>13. ASSUME UNCHANGED vars
       PROVE  Q
  BY <1>9, <1>13 DEF vars, threads
<1> HIDE DEF Q
<1>14. Q
  BY <1>4, <1>5, <1>6, <1>7, <1>8, <1>9, <1>10, <1>11, <1>12, <1>13
     DEF Next, Thread
<1> QED BY <1>14 DEF Q

\* In an intact review no commit comes between a transaction's reading of the
\* status and its own.
LEMMA NextStatusIsCurrent ==
  ASSUME ServiceInv, TrailInv, StatusIsCurrent, [Next]_vars
  PROVE  StatusIsCurrent'
<1> SUFFICES ASSUME Intact', NEW p \in Managers, NEW e \in EventId,
                    pc'[p][e] \in InTransaction,
                    Begun' => Exists(body[e].workflow)'
             PROVE  view'[p][e].status = status'
  BY DEF StatusIsCurrent
<1>1. Intact
  BY IntactBefore
<1>2. body'[e] = body[e] /\ body[e].workflow \in WorkflowId
  <2>1. body'[e] = body[e]
    <3>1. ASSUME NEW f \in EventId, NEW ev, Send(f, ev)
          PROVE  body'[e] = body[e]
      <4>1. pc' = pc /\ queue[f] = "unsent" /\ body' = [body EXCEPT ![f] = ev]
        BY <3>1 DEF Send, threads
      <4>2. pc[p][e] # "idle"
        BY <4>1 DEF InTransaction
      <4>3. e # f
        BY <4>1, <4>2, ThreadHasEvent
      <4> QED BY <4>1, <4>3 DEF ServiceInv, TypeOK
    <3>2. ASSUME NEW f \in EventId, NEW u \in Users,
                 StartReview(f, u) \/ IngestEvent(f, u)
          PROVE  \E ev : Send(f, ev)
      BY <3>2 DEF StartReview, IngestEvent
    <3> QED BY <3>1, <3>2, WhoSends
  <2>2. (SentBeforeHandled)'
    BY NextServiceInv DEF ServiceInv
  <2>3. WellFormed(e)'
    BY <2>2 DEF SentBeforeHandled, InTransaction
  <2> QED BY <2>1, <2>3 DEF WellFormed, Body
<1>3. CASE UNCHANGED <<workflow, status>>
  <2>1. Begun <=> Begun'
    BY <1>3 DEF Begun, Exists
  <2>2. Begun => Exists(body[e].workflow)
    BY <1>2, <1>3, <2>1 DEF Exists
  <2> QED BY <1>1, <1>3, <2>2, StatusRead DEF StatusIsCurrent
<1>4. ASSUME NEW q \in Managers, NEW f \in EventId, Commit(q, f)
      PROVE  FALSE
  <2>1. /\ body[f].workflow \in WorkflowId
        /\ workflow'[body[f].workflow] # NoRow
    BY <1>4, CommitRow
  <2>2. body[e].workflow = body[f].workflow
    <3>1. Begun'
      BY <2>1 DEF Begun, Exists
    <3> QED BY <1>2, <2>1, <3>1 DEF Intact, Exists
  <2>3. pc[q][f] \in InTransaction
    BY <1>4 DEF Commit, InTransaction
  <2>4. /\ pc'[q][f] = "success"
        /\ \A r \in Managers, g \in EventId :
             r # q \/ g # f => pc'[r][g] = pc[r][g]
    <3>1. Return(q, f, "success") /\ "success" \in Running \cup Returned
      BY <1>4 DEF Commit, Returned
    <3> QED BY <3>1, ReturnStep
  <2>5. pc[p][e] \in InTransaction /\ (p # q \/ e # f)
    BY <2>4 DEF InTransaction
  <2>6. body[e].workflow \notin raced
    BY <1>1 DEF Intact
  <2> QED BY <2>2, <2>3, <2>5, <2>6 DEF TrailInv, OneTransaction
<1> QED BY <1>3, <1>4, WhoWrites DEF db, StoreFailure

\* The abstract review of an intact one, before a commit that leaves it intact:
\* the workflow the event is for, or the start.
LEMMA BeforeCommit ==
  ASSUME ServiceInv, TrailInv, RefinementInv, [Next]_vars, Intact',
         NEW p \in Managers, NEW e \in EventId, Commit(p, e)
  PROVE  LET ev == body[e]
             w  == ev.workflow
         IN /\ ViewIsCurrent(p, e)
            /\ view[p][e].status = status
            /\ (IF Begun THEN workflow[TheReview].state ELSE "start")
                 = Load(ev).state
            /\ (IF Begun THEN workflow[TheReview].is_active ELSE TRUE)
                 = Load(ev).is_active
            /\ { a \in approvals : a.valid } = ValidApprovals(w)
            /\ ev.name # "start_workflow" => workflow[w] \in WorkflowRow
<1> DEFINE ev == body[e]
           w  == ev.workflow
<1>1. /\ pc[p][e] \in InTransaction
      /\ history[e] = "none"
      /\ ev.name # "start_workflow" => Exists(w)
  BY DEF Commit, InTransaction, ServiceInv, OpenTransactions
<1>2. w \in WorkflowId /\ WellFormed(e) /\ workflow'[w] # NoRow
  BY CommitRow
<1>3. Intact
  BY IntactBefore
<1>4. w \notin raced
  BY <1>3 DEF Intact
<1>5. \A x \in WorkflowId : Exists(x) => x = w
  <2> SUFFICES ASSUME NEW x \in WorkflowId, Exists(x)
               PROVE  x = w
    OBVIOUS
  <2>1. Exists(x)' /\ workflow'[x] # NoRow
    BY ExistsStays DEF Exists
  <2> QED BY <1>2, <2>1 DEF Intact, Exists
<1>6. ViewIsCurrent(p, e)
  BY <1>1, <1>4 DEF TrailInv, ViewsAreCurrent
<1>7. Begun => Exists(w)
  BY <1>5 DEF Begun
<1>8. view[p][e].status = status
  BY <1>1, <1>3, <1>7 DEF RefinementInv, StatusIsCurrent
<1>9. { a \in approvals : a.valid } = ValidApprovals(w)
  <2>1. \A a \in approvals : a.workflow = w
    <3>1. \A a \in approvals : a.workflow \in WorkflowId
      BY DEF ServiceInv, TypeOK, ApprovalRows
    <3> QED BY <1>5, <3>1 DEF RefinementInv, ApprovedExists
  <2> QED BY <2>1 DEF ValidApprovals
<1>10. CASE ev.name = "start_workflow"
  <2>1. w = e /\ ~Exists(e)
    BY <1>1, <1>2, <1>10 DEF WellFormed, ServiceInv, CreatedByStart
  <2>2. ~Begun
    BY <1>7, <2>1
  <2> QED BY <1>6, <1>8, <1>9, <1>10, <2>2 DEF Load
<1>11. CASE ev.name # "start_workflow"
  <2>1. Exists(w)
    BY <1>1, <1>11
  <2>2. Begun /\ TheReview = w
    BY <1>2, <1>3, <2>1, OnlyReview
  <2>3. workflow[w] \in WorkflowRow
    BY <1>2 DEF ServiceInv, TypeOK
  <2> QED BY <1>6, <1>8, <1>9, <1>11, <2>2, <2>3 DEF Load
<1> QED BY <1>10, <1>11

\* The abstract review after it: the row and the approvals the commit wrote.
LEMMA AfterCommit ==
  ASSUME ServiceInv, TrailInv, RefinementInv, [Next]_vars, Intact',
         NEW p \in Managers, NEW e \in EventId, Commit(p, e)
  PROVE  LET ev == body[e]
             w  == ev.workflow
         IN /\ (IF Begun THEN workflow[TheReview].state ELSE "start")' = Target(ev)
            /\ (IF Begun THEN workflow[TheReview].is_active ELSE TRUE)'
                 = IsActiveAfter(ev)
            /\ { a \in approvals' : a.valid } = ValidApprovals(w)'
<1> DEFINE w == body[e].workflow
<1>1. /\ w \in WorkflowId
      /\ workflow'[w] = [ state |-> Target(body[e]),
                          is_active |-> IsActiveAfter(body[e]) ]
      /\ workflow'[w] # NoRow
  BY CommitRow
<1>2. body' = body
  BY DEF Commit, sqs
<1>3. \A x \in WorkflowId : workflow'[x] # NoRow <=> x = w
  BY <1>1 DEF Intact, Exists
<1> HIDE DEF w
<1>4. Begun'
  BY <1>1 DEF Begun, Exists
<1>5. TheReview' = w
  <2>1. TheReview' \in WorkflowId /\ workflow'[TheReview'] # NoRow
    BY <1>1 DEF TheReview, Exists
  <2> QED BY <1>3, <2>1
<1>6. { a \in approvals' : a.valid } = ValidApprovals(w)'
  <2>1. ServiceInv'
    BY NextServiceInv
  <2>2. ApprovedExists'
    BY NextApprovedExists DEF RefinementInv
  <2>3. \A a \in approvals' : a.workflow \in WorkflowId
    BY <2>1 DEF ServiceInv, TypeOK, ApprovalRows
  <2>4. \A a \in approvals' : a.workflow = w
    BY <1>3, <2>2, <2>3 DEF ApprovedExists, Exists
  <2>5. w' = w
    BY <1>2 DEF w
  <2> QED BY <2>4, <2>5 DEF ValidApprovals
<1>7. ValidApprovals(w)' = ValidApprovals(body[e].workflow)'
  BY <1>2 DEF w
<1> QED BY <1>1, <1>4, <1>5, <1>6, <1>7 DEF w

\* The commit of an event handles it in the abstract review, in the state, the
\* status and among the approvals that are there when it commits.
LEMMA CommitHandles ==
  ASSUME ServiceInv, TrailInv, RefinementInv, [Next]_vars, Intact',
         NEW p \in Managers, NEW e \in EventId, Commit(p, e)
  PROVE  Review!Handle(Review!Event(body[e].name, body[e].user,
                                    body[e].response))
<1> DEFINE ev   == body[e]
           w    == ev.workflow
           aev  == Review!Event(ev.name, ev.user, ev.response)
           rows == ValidApprovals(w)
           read == Load(ev)
<1>1. /\ pc[p][e] = "flushed"
      /\ body' = body
      /\ status' = IF NewStatus(ev, view[p][e].status) # view[p][e].status
                   THEN NewStatus(ev, view[p][e].status) ELSE status
  BY DEF Commit, sqs
<1>2. /\ WellFormed(e) /\ queue[e] # "unsent"
      /\ ev.response \in IF ev.name \in ApprovalEvent
                         THEN AllowedResponses(ev.name) ELSE {"none"}
  BY CommitRow DEF RefinementInv, StepsAreSent
<1>3. /\ read.is_active
      /\ read.state = Source[ev.name]
      /\ view[p][e].status = status
      /\ ~HasAlreadyApproved(ev, rows)
  BY <1>1, BeforeCommit DEF ViewIsCurrent, CanSend
<1>4. w \notin raced
  BY IntactBefore DEF Intact
<1>5. aev = [name |-> ev.name, user |-> ev.user, response |-> ev.response]
  BY DEF Review!Event
<1>6. /\ Review!IsModification(aev) <=> IsModification(ev)
      /\ Review!Target(aev) = Target(ev)
      /\ \A s : Review!NewStatus(aev, s) = NewStatus(ev, s)
  BY <1>5, SameMachine
     DEF Review!IsModification, IsModification, Review!Target, Target,
         Review!NewStatus, NewStatus
<1>7. Review!CanSend(aev, read.state, read.is_active)
  BY <1>3, <1>5, SameMachine DEF Review!CanSend
<1>8. ~Review!HasAlreadyApproved(aev, Mapped(rows))
  BY <1>3, <1>5, SameMachine
     DEF Review!HasAlreadyApproved, HasAlreadyApproved, Mapped
<1>9. IsActiveAfter(ev) = ~Review!IsFinal(Review!Target(aev))
  <2>1. CASE ev.name = "start_workflow"
    <3>1. ev.response = "none"
      BY <1>2, <2>1 DEF ApprovalEvent
    <3>2. Target(ev) = "pending_pqc_review"
      BY <2>1, <3>1 DEF Target, IsModification, Onward
    <3> QED BY <1>6, <2>1, <3>2 DEF IsActiveAfter, Review!IsFinal
  <2>2. CASE ev.name # "start_workflow"
    <3>1. workflow[w] \in WorkflowRow /\ workflow[w].is_active
      BY <1>3, <2>2, BeforeCommit DEF Load
    <3>2. workflow[w].is_active = TRUE
      BY <3>1, RowColumns
    <3> QED BY <1>6, <2>2, <3>2 DEF IsActiveAfter, Review!IsFinal, IsFinal
  <2> QED BY <2>1, <2>2
<1>10. status' = Review!NewStatus(aev, status)
  BY <1>1, <1>3, <1>6
<1>11. Mapped(ValidApprovals(w)') =
         IF Review!IsModification(aev) THEN {}
         ELSE IF ev.name \in ApprovalEvent
              THEN Mapped(rows) \cup {[user |-> ev.user, type |-> ev.name]}
              ELSE Mapped(rows)
  <2>1. CASE IsModification(ev)
    <3>1. ValidApprovals(w)' = {}
      BY <1>1, <1>4, <2>1, CommitApprovals
    <3> QED BY <1>6, <2>1, <3>1 DEF Mapped
  <2>2. CASE ~IsModification(ev)
    <3>1. ValidApprovals(w)' = rows \cup ApprovalRow(e)
      BY <1>1, <1>4, <2>2, CommitApprovals
    <3>2. Mapped(rows \cup ApprovalRow(e)) = Mapped(rows) \cup Mapped(ApprovalRow(e))
      BY DEF Mapped
    <3>3. Mapped(ApprovalRow(e)) =
            IF ev.name \in ApprovalEvent
            THEN {[user |-> ev.user, type |-> ev.name]} ELSE {}
      <4>1. CASE ev.name \in ApprovalEvent
        <5> DEFINE row == [ id |-> e, workflow |-> ev.workflow,
                            user |-> ev.user, type |-> ev.name,
                            response |-> ev.response,
                            valid |-> ~IsModification(ev) ]
        <5>1. ApprovalRow(e) = {row}
          BY <4>1 DEF ApprovalRow
        <5>2. row.user = ev.user /\ row.type = ev.name
          OBVIOUS
        <5> HIDE DEF row
        <5> QED BY <4>1, <5>1, <5>2 DEF Mapped
      <4>2. CASE ev.name \notin ApprovalEvent
        BY <4>2 DEF Mapped, ApprovalRow
      <4> QED BY <4>1, <4>2
    <3> QED BY <1>6, <2>2, <3>1, <3>2, <3>3
  <2> QED BY <2>1, <2>2
<1>12. /\ (IF Begun THEN workflow[TheReview].state ELSE "start") = read.state
       /\ (IF Begun THEN workflow[TheReview].is_active ELSE TRUE) = read.is_active
       /\ { b \in approvals : b.valid } = rows
  BY BeforeCommit
<1>13. /\ (IF Begun THEN workflow[TheReview].state ELSE "start")'
            = Review!Target(aev)
       /\ (IF Begun THEN workflow[TheReview].is_active ELSE TRUE)'
            = ~Review!IsFinal(Review!Target(aev))
       /\ { b \in approvals' : b.valid } = ValidApprovals(w)'
  BY <1>6, <1>9, AfterCommit
<1>14. Review!CanSend(aev, IF Begun THEN workflow[TheReview].state ELSE "start",
                      IF Begun THEN workflow[TheReview].is_active ELSE TRUE)
  BY <1>7, <1>12
<1>15. ~Review!HasAlreadyApproved(aev, Mapped({ b \in approvals : b.valid }))
  BY <1>8, <1>12
<1>16. Mapped({ b \in approvals' : b.valid }) = Review!Record(aev)
  <2>1. Review!Record(aev) =
          IF Review!IsModification(aev) THEN {}
          ELSE IF ev.name \in ApprovalEvent
               THEN Mapped({ b \in approvals : b.valid })
                      \cup {[user |-> ev.user, type |-> ev.name]}
               ELSE Mapped({ b \in approvals : b.valid })
    BY <1>5, SameMachine DEF Review!Record, Mapped
  <2> QED BY <1>11, <1>12, <1>13, <2>1
<1> HIDE DEF aev
<1>17. Review!Handle(aev)
  BY <1>10, <1>13, <1>14, <1>15, <1>16 DEF Review!Handle, Mapped
<1> QED BY <1>17 DEF aev

\* Each of the events that can be sent is a step of the abstract review.
LEMMA HandledIsStep ==
  ASSUME NEW e \in EventId,
         body[e].name \in EventName, body[e].user \in Users,
         body[e].response \in IF body[e].name \in ApprovalEvent
                              THEN AllowedResponses(body[e].name) ELSE {"none"},
         Review!Handle(Review!Event(body[e].name, body[e].user,
                                    body[e].response))
  PROVE  Review!Next
<1> DEFINE ev == body[e]
<1>1. CASE ev.name = "start_workflow"
  <2>1. ev.response = "none"
    BY <1>1 DEF ApprovalEvent
  <2>2. Review!StartWorkflow(ev.user)
    BY <1>1, <2>1 DEF Review!StartWorkflow, Review!Handle
  <2> QED BY <2>2 DEF Review!Next
<1>2. CASE ev.name \in StepEvent
  <2>1. ev.name \notin ApprovalEvent
    BY <1>2 DEF StepEvent, ApprovalEvent
  <2>2. ev.response = "none"
    BY <2>1
  <2>3. Review!InternalStep(ev.user)
    BY <1>2, <2>2, SameMachine DEF Review!InternalStep, Review!Handle
  <2> QED BY <2>3 DEF Review!Next
<1>3. CASE ev.name \in ApprovalEvent /\ ev.response = "approved"
  <2>1. Review!Approve(ev.user)
    BY <1>3, SameMachine DEF Review!Approve, Review!Handle
  <2> QED BY <2>1 DEF Review!Next
<1>4. CASE ev.name \in ApprovalEvent /\ ev.response = "requires_modification"
  <2>1. "requires_modification" \in Review!AllowedResponses(ev.name)
    BY <1>4 DEF Review!AllowedResponses, AllowedResponses
  <2>2. Review!RequireModification(ev.user)
    BY <1>4, <2>1, SameMachine DEF Review!RequireModification, Review!Handle
  <2> QED BY <2>2 DEF Review!Next
<1> QED BY <1>1, <1>2, <1>3, <1>4 DEF EventName, AllowedResponses

\* As long as the review is intact, every step of queue, managers and threads is
\* a step of the abstract one or none.
LEMMA StepImplements ==
  ASSUME ServiceInv, TrailInv, RefinementInv, Intact', [Next]_vars
  PROVE  [Review!Next]_(Review!vars)
<1>1. CASE UNCHANGED <<workflow, status, approvals>>
  BY <1>1 DEF Review!vars, Begun, TheReview, Exists
<1>2. ASSUME NEW p \in Managers, NEW e \in EventId, Commit(p, e)
      PROVE  Review!Next
  <2>1. Review!Handle(Review!Event(body[e].name, body[e].user,
                                   body[e].response))
    BY <1>2, CommitHandles
  <2>2. /\ body[e].name \in EventName /\ body[e].user \in Users
        /\ body[e].response \in IF body[e].name \in ApprovalEvent
                                THEN AllowedResponses(body[e].name) ELSE {"none"}
    BY <1>2, CommitRow, EventTypes DEF RefinementInv, StepsAreSent
  <2> QED BY <2>1, <2>2, HandledIsStep, Zenon
<1>3. ASSUME NEW p \in Managers, NEW e \in EventId, StoreFailure(p, e)
      PROVE  UNCHANGED <<workflow, status, approvals>>
  BY <1>3 DEF StoreFailure
<1> QED BY <1>1, <1>2, <1>3, WhoWrites DEF db

LEMMA NextRefinementInv ==
  ASSUME ServiceInv, TrailInv, RefinementInv, [Next]_vars
  PROVE  RefinementInv'
<1>1. (Intact => Review!ReviewInv)'
  <2>1. CASE Intact'
    <3>1. Review!ReviewInv
      BY <2>1, IntactBefore DEF RefinementInv
    <3>2. [Review!Next]_(Review!vars)
      BY <2>1, StepImplements
    <3>3. Review!ReviewInv'
      BY <3>1, <3>2, ReviewStepKeeps
    <3> QED BY <3>3
  <2>2. CASE ~Intact'
    BY <2>2
  <2> QED BY <2>1, <2>2
<1> QED BY <1>1, NextStepsAreSent, NextApprovedExists, NextStatusIsCurrent
        DEF RefinementInv

\* A review that is under way or has yet to be started is one of the abstract
\* one's states.
LEMMA InitRefinementInv ==
  ASSUME Init
  PROVE  RefinementInv
<1>1. PICK s \in InitialStates : \E reviewer \in [Passed[s] -> Users] :
        /\ workflow = [ w \in WorkflowId |->
                          IF w = FirstWorkflow /\ s # "start"
                          THEN [state |-> s, is_active |-> ~IsFinal(s)]
                          ELSE NoRow ]
        /\ status = StatusOf(s)
        /\ approvals = { [ id |-> t, workflow |-> FirstWorkflow,
                           user |-> reviewer[t], type |-> t,
                           response |-> "approved", valid |-> TRUE ]
                         : t \in Passed[s] }
  BY DEF Init
<1>2. PICK reviewer \in [Passed[s] -> Users] :
        /\ workflow = [ w \in WorkflowId |->
                          IF w = FirstWorkflow /\ s # "start"
                          THEN [state |-> s, is_active |-> ~IsFinal(s)]
                          ELSE NoRow ]
        /\ status = StatusOf(s)
        /\ approvals = { [ id |-> t, workflow |-> FirstWorkflow,
                           user |-> reviewer[t], type |-> t,
                           response |-> "approved", valid |-> TRUE ]
                         : t \in Passed[s] }
  BY <1>1
<1>3. /\ s \in State
      /\ Passed[s] \subseteq ApprovalEvent
      /\ StatusOf(s) \in Status
  BY StateTypes, InitialStatesAssumption
<1>4. /\ queue = [e \in EventId |-> "unsent"]
      /\ pc = [p \in Managers |-> [e \in EventId |-> "idle"]]
  BY DEF Init
<1>5. StepsAreSent /\ StatusIsCurrent
  BY <1>4 DEF StepsAreSent, StatusIsCurrent, InTransaction
<1> DEFINE row(t) == [ id |-> t, workflow |-> FirstWorkflow,
                       user |-> reviewer[t], type |-> t,
                       response |-> "approved", valid |-> TRUE ]
           pair(t) == [user |-> reviewer[t], type |-> t]
           pairs   == { pair(t) : t \in Passed[s] }
<1>6. approvals = { row(t) : t \in Passed[s] }
  BY <1>2
<1>7. \A t \in Passed[s] : /\ row(t).workflow = FirstWorkflow /\ row(t).valid
                           /\ row(t).user = reviewer[t] /\ row(t).type = t
                           /\ reviewer[t] \in Users /\ t \in ApprovalEvent
                           /\ pair(t).type = t /\ pair(t).user = reviewer[t]
  BY <1>3
<1>8. Mapped({ b \in approvals : b.valid }) = pairs
  <2> HIDE DEF row
  <2>1. { b \in approvals : b.valid } = { row(t) : t \in Passed[s] }
    BY <1>6, <1>7
  <2>2. Mapped({ row(t) : t \in Passed[s] }) =
          { [user |-> row(t).user, type |-> row(t).type] : t \in Passed[s] }
    BY DEF Mapped
  <2> QED BY <1>7, <2>1, <2>2
<1>9. FirstWorkflow \in WorkflowId
  BY DEF WorkflowId
<1>10. \A w \in WorkflowId : Exists(w) <=> w = FirstWorkflow /\ s # "start"
  <2>1. [state |-> s, is_active |-> ~IsFinal(s)] # NoRow
    BY <1>3 DEF NoRow, State
  <2> QED BY <1>2, <2>1 DEF Exists
<1>11. ApprovedExists
  <2>1. s = "start" => Passed[s] = {}
    BY DEF Passed
  <2>2. \A a \in approvals : a.workflow = FirstWorkflow /\ s # "start"
    BY <1>6, <1>7, <2>1
  <2> QED BY <1>9, <1>10, <2>2 DEF ApprovedExists
<1>12. /\ (IF Begun THEN workflow[TheReview].state ELSE "start") = s
       /\ (IF Begun THEN workflow[TheReview].is_active ELSE TRUE) = ~IsFinal(s)
  <2>1. CASE s = "start"
    <3>1. ~Begun
      BY <1>10, <2>1 DEF Begun
    <3> QED BY <2>1, <3>1 DEF IsFinal
  <2>2. CASE s # "start"
    <3>1. Begun /\ TheReview \in WorkflowId /\ Exists(TheReview)
      BY <1>9, <1>10, <2>2 DEF Begun, TheReview
    <3>2. TheReview = FirstWorkflow
      BY <1>10, <3>1
    <3>3. workflow[FirstWorkflow] = [state |-> s, is_active |-> ~IsFinal(s)]
      BY <1>2, <1>9, <2>2
    <3> QED BY <3>1, <3>2, <3>3
  <2> QED BY <2>1, <2>2
<1> HIDE DEF row, pair
<1>13. pairs \subseteq [user : Users, type : ApprovalEvent]
  BY <1>7 DEF pair
<1> HIDE DEF pairs
<1>14. Review!TypeOK
  <2>1. pairs \subseteq Review!Approval
    BY <1>13, SameMachine DEF Review!Approval
  <2>2. (IF Begun THEN workflow[TheReview].is_active ELSE TRUE) \in BOOLEAN
    <3>1. (~IsFinal(s)) \in BOOLEAN
      BY DEF IsFinal
    <3> QED BY <1>12, <3>1, Zenon
  <2>3. /\ (IF Begun THEN workflow[TheReview].state ELSE "start") \in Review!State
        /\ status \in Review!Status
    BY <1>2, <1>3, <1>12, SameMachine
  <2>4. Mapped({ b \in approvals : b.valid }) \subseteq Review!Approval
    BY <1>8, <2>1
  <2> QED BY <2>2, <2>3, <2>4 DEF Review!TypeOK, Mapped
<1>15. Review!ActiveUntilEnd
  BY <1>12 DEF Review!ActiveUntilEnd, Review!IsFinal, IsFinal
<1>16. Review!StatusFollowsState
  BY <1>2, <1>12 DEF Review!StatusFollowsState, Review!StatusOf, StatusOf
<1>17. Review!ApprovalsCoverStages
  <2>1. { a.type : a \in pairs } = Passed[s]
    BY <1>7 DEF pairs
  <2>2. { a.type : a \in Mapped({ b \in approvals : b.valid }) } = Passed[s]
    BY <1>8, <2>1
  <2> QED BY <1>12, <2>2, SameMachine DEF Review!ApprovalsCoverStages, Mapped
<1>18. Review!OneApprovalPerStage
  <2>1. \A a, b \in pairs : a.type = b.type => a = b
    BY <1>7 DEF pairs
  <2>2. \A a, b \in Mapped({ c \in approvals : c.valid }) :
          a.type = b.type => a = b
    BY <1>8, <2>1
  <2> QED BY <2>2 DEF Review!OneApprovalPerStage, Mapped
<1>19. Review!ReviewInv
  BY <1>14, <1>15, <1>16, <1>17, <1>18 DEF Review!ReviewInv
<1> QED BY <1>5, <1>11, <1>19 DEF RefinementInv

LEMMA RefinementCorrect == Spec => [](ServiceInv /\ TrailInv /\ RefinementInv)
<1>1. Init => RefinementInv
  BY InitRefinementInv
<1>2. ServiceInv /\ TrailInv /\ RefinementInv /\ [Next]_vars => RefinementInv'
  BY NextRefinementInv
<1> QED BY <1>1, <1>2, TrailCorrect, PTL DEF Spec

\* As long as no two transactions of the review have been open at once and it
\* was not started twice, what queue, managers, threads and transactions do to
\* it, from its start or from the middle, is what the abstract review does: its
\* invariant holds and every step is one of its steps or none.  For any number
\* of managers, events, batches, crashes and redeliveries.
THEOREM ReviewImplemented == Spec => ImplementsReview
<1> DEFINE A == Intact' => [Review!Next]_(Review!vars)
<1>1. ServiceInv /\ TrailInv /\ RefinementInv /\ [Next]_vars => [A]_vars
  BY StepImplements
<1>2. RefinementInv => (Intact => Review!ReviewInv)
  BY DEF RefinementInv
<1> HIDE DEF A
<1>3. Spec => [][A]_vars
  BY <1>1, RefinementCorrect, PTL DEF Spec
<1>4. Spec => [](Intact => Review!ReviewInv)
  BY <1>2, RefinementCorrect, PTL
<1> QED BY <1>3, <1>4 DEF ImplementsReview, A
=============================================================================
