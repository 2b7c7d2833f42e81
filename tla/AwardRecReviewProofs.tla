------------------------- MODULE AwardRecReviewProofs -------------------------
(***************************************************************************)
(* The review keeps state, activity, status and approvals in step, for any *)
(* set of users and any number of rounds.                                  *)
(***************************************************************************)
EXTENDS AwardRecReview, TLAPS

\* The events the machine can be sent.
EventRecord ==
  [ name     : EventName,
    user     : Users,
    response : {"none", "approved", "requires_modification"} ]

\* An event as the actions of Next build it: a response exactly on approval
\* events, and one that the approval config allows.
WellFormed(ev) ==
  /\ ev \in EventRecord
  /\ ev.name \notin ApprovalEvent => ev.response = "none"
  /\ ev.name \in ApprovalEvent => ev.response \in AllowedResponses(ev.name)

\* Every step of Next handles one well-formed event.
LEMMA StepHandlesEvent ==
  ASSUME Next
  PROVE  \E ev \in EventRecord : WellFormed(ev) /\ Handle(ev)
<1> SUFFICES ASSUME NEW u \in Users,
                    \/ StartWorkflow(u)
                    \/ InternalStep(u)
                    \/ Approve(u)
                    \/ RequireModification(u)
             PROVE  \E ev \in EventRecord : WellFormed(ev) /\ Handle(ev)
  BY DEF Next
<1> USE DEF WellFormed, EventRecord, EventName, StepEvent, ApprovalEvent, Event
<1>1. CASE StartWorkflow(u)
  BY <1>1 DEF StartWorkflow
<1>2. CASE InternalStep(u)
  BY <1>2 DEF InternalStep
<1>3. CASE Approve(u)
  <2>1. PICK type \in ApprovalEvent : Handle(Event(type, u, "approved"))
    BY <1>3 DEF Approve
  <2>2. WellFormed(Event(type, u, "approved"))
    BY DEF AllowedResponses
  <2> QED BY <2>1, <2>2
<1>4. CASE RequireModification(u)
  <2>1. PICK type \in ApprovalEvent :
          /\ "requires_modification" \in AllowedResponses(type)
          /\ Handle(Event(type, u, "requires_modification"))
    BY <1>4 DEF RequireModification
  <2>2. WellFormed(Event(type, u, "requires_modification"))
    BY <2>1
  <2> QED BY <2>1, <2>2
<1> QED BY <1>1, <1>2, <1>3, <1>4

-----------------------------------------------------------------------------
(* Facts about the transition table.                                       *)

\* Every event joins two states of the machine.
LEMMA TableTypes ==
  \A name \in EventName : Source[name] \in State /\ Onward[name] \in State
BY DEF EventName, StepEvent, ApprovalEvent, State, Source, Onward

\* An approval event adds its own type to the stages passed.
LEMMA ApprovalAdvances ==
  ASSUME NEW name \in ApprovalEvent
  PROVE  /\ Passed[Onward[name]] = Passed[Source[name]] \cup {name}
         /\ name \notin Passed[Source[name]]
BY DEF ApprovalEvent, Passed, Source, Onward

\* The other events pass no stage.
LEMMA StepKeepsStages ==
  ASSUME NEW name \in EventName \ ApprovalEvent
  PROVE  Passed[Onward[name]] = Passed[Source[name]]
BY DEF EventName, StepEvent, ApprovalEvent, Passed, Source, Onward

\* The status callback of a transition sets the status of its target state.
LEMMA StatusAdvances ==
  ASSUME NEW ev, WellFormed(ev)
  PROVE  /\ NewStatus(ev, StatusOf(Source[ev.name])) = StatusOf(Target(ev))
         /\ NewStatus(ev, StatusOf(Source[ev.name])) \in Status
<1>1. CASE IsModification(ev)
  BY <1>1 DEF NewStatus, Target, StatusOf, Status
<1>2. CASE ~IsModification(ev)
  <2>1. ev.name \in EventName
    BY DEF WellFormed, EventRecord
  <2> QED
    BY <1>2, <2>1 DEF NewStatus, OnStatus, Target, StatusOf, Status, Source,
         Onward, EventName, StepEvent, ApprovalEvent
<1> QED BY <1>1, <1>2

-----------------------------------------------------------------------------
(* The inductive invariant.                                                *)

\* One handled event keeps the whole invariant.
LEMMA HandleKeepsInv ==
  ASSUME ReviewInv, NEW ev \in EventRecord, WellFormed(ev), Handle(ev)
  PROVE  ReviewInv'
<1> USE DEF ReviewInv
<1>1. /\ ev.name \in EventName
      /\ ev.user \in Users
      /\ state = Source[ev.name]
  BY DEF EventRecord, Handle, CanSend
<1>2. TypeOK'
  <2>1. state' \in State
    BY <1>1, TableTypes DEF Handle, Target, State
  <2>2. status' \in Status
    BY <1>1, StatusAdvances DEF Handle, StatusFollowsState
  <2>3. approvals' \subseteq Approval
    BY <1>1 DEF Handle, Record, TypeOK, Approval
  <2>4. is_active' \in BOOLEAN
    BY DEF Handle, IsFinal
  <2> QED BY <2>1, <2>2, <2>3, <2>4 DEF TypeOK
<1>3. ActiveUntilEnd'
  BY DEF Handle, ActiveUntilEnd
<1>4. StatusFollowsState'
  BY <1>1, StatusAdvances DEF Handle, StatusFollowsState
<1>5. ApprovalsCoverStages' /\ OneApprovalPerStage'
  <2>1. CASE IsModification(ev)
    BY <2>1 DEF Handle, Record, Target, ApprovalsCoverStages,
         OneApprovalPerStage, Passed
  <2>2. CASE ~IsModification(ev) /\ ev.name \in ApprovalEvent
    <3> DEFINE new == [user |-> ev.user, type |-> ev.name]
    <3>1. approvals' = approvals \cup {new} /\ state' = Onward[ev.name]
      BY <2>2 DEF Handle, Record, Target
    <3>2. { a.type : a \in approvals' }
            = { a.type : a \in approvals } \cup {ev.name}
      <4>1. new.type = ev.name
        OBVIOUS
      <4> HIDE DEF new
      <4> QED BY <3>1, <4>1
    <3>3. \A a \in approvals : a.type # ev.name
      BY <1>1, <2>2, ApprovalAdvances DEF ApprovalsCoverStages
    <3>4. OneApprovalPerStage'
      BY <3>1, <3>3 DEF OneApprovalPerStage
    <3> QED
      BY <1>1, <2>2, <3>1, <3>2, <3>4, ApprovalAdvances
         DEF ApprovalsCoverStages
  <2>3. CASE ~IsModification(ev) /\ ev.name \notin ApprovalEvent
    BY <1>1, <2>3, StepKeepsStages
       DEF Handle, Record, Target, ApprovalsCoverStages, OneApprovalPerStage
  <2> QED BY <2>1, <2>2, <2>3
<1> QED BY <1>2, <1>3, <1>4, <1>5

\* The invariant holds before the review starts.
LEMMA InitInv == Init => ReviewInv
BY DEF Init, ReviewInv, TypeOK, ActiveUntilEnd, StatusFollowsState,
       ApprovalsCoverStages, OneApprovalPerStage, State, Status, Approval,
       StatusOf, Passed, IsFinal

\* No step, and no stuttering, breaks the invariant.
LEMMA StepInv == ReviewInv /\ [Next]_vars => ReviewInv'
<1> SUFFICES ASSUME ReviewInv, [Next]_vars PROVE ReviewInv'
  OBVIOUS
<1>1. CASE Next
  BY <1>1, StepHandlesEvent, HandleKeepsInv
<1>2. CASE UNCHANGED vars
  BY <1>2 DEF vars, ReviewInv, TypeOK, ActiveUntilEnd, StatusFollowsState,
       ApprovalsCoverStages, OneApprovalPerStage
<1> QED BY <1>1, <1>2

\* In every reachable state of the review the workflow's state, its activity,
\* the award recommendation's status and the valid approvals agree.
THEOREM ReviewCorrect == Spec => []ReviewInv
BY InitInv, StepInv, PTL DEF Spec

\* State, activity, status and approvals keep their types.
THEOREM TypesCorrect == Spec => []TypeOK
<1>1. ReviewInv => TypeOK
  BY DEF ReviewInv
<1> QED BY <1>1, ReviewCorrect, PTL

\* The award recommendation's status is the one of the workflow's state, though
\* callbacks of single transitions set it in another table.
THEOREM StatusFollows == Spec => []StatusFollowsState
<1>1. ReviewInv => StatusFollowsState
  BY DEF ReviewInv
<1> QED BY <1>1, ReviewCorrect, PTL

\* The valid approvals are those of the stages passed, no more and no less.
THEOREM StagesCovered == Spec => []ApprovalsCoverStages
<1>1. ReviewInv => ApprovalsCoverStages
  BY DEF ReviewInv
<1> QED BY <1>1, ReviewCorrect, PTL

\* The duplicate-approval check never refuses the reviewer a stage waits for.
THEOREM NoReviewerLockedOut == Spec => []ReviewerNotLockedOut
<1>1. ReviewInv => ReviewerNotLockedOut
  BY ApprovalAdvances
     DEF ReviewInv, ApprovalsCoverStages, ReviewerNotLockedOut,
         HasAlreadyApproved, Event
<1> QED BY <1>1, ReviewCorrect, PTL

\* The end is reached only through the executive approval of a review with all
\* eight approvals, is never left, and approvals are only ever dropped all at
\* once, by a request for modification.
THEOREM StepsCorrect == Spec => ReviewSteps
<1>1. ReviewInv /\ [Next]_vars => [ReviewStep]_vars
  <2> SUFFICES ASSUME ReviewInv, NEW ev \in EventRecord, WellFormed(ev),
                      Handle(ev)
               PROVE  ReviewStep
    BY StepHandlesEvent
  <2>1. ReviewInv'
    BY HandleKeepsInv
  <2>2. ev.name \in EventName /\ state = Source[ev.name] /\ ~IsFinal(state)
    BY DEF WellFormed, EventRecord, Handle, CanSend, ReviewInv, ActiveUntilEnd
  <2>3. IsFinal(state') => /\ state = "pending_executive_approval"
                           /\ { a.type : a \in approvals' } = ApprovalEvent
    <3>1. IsFinal(state') => state = "pending_executive_approval"
      BY <2>2 DEF Handle, Target, IsFinal, Source, Onward, EventName,
           StepEvent, ApprovalEvent
    <3>2. IsFinal(state') => { a.type : a \in approvals' } = ApprovalEvent
      BY <2>1 DEF ReviewInv, ApprovalsCoverStages, IsFinal, Passed
    <3> QED BY <3>1, <3>2
  <2>4. ~(approvals \subseteq approvals') =>
           approvals' = {} /\ state' = "pending_revision_start"
    BY DEF Handle, Record, Target
  <2> QED BY <2>2, <2>3, <2>4 DEF ReviewStep
<1> QED BY <1>1, ReviewCorrect, PTL DEF Spec, ReviewSteps
=============================================================================
