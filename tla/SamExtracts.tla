------------------------------ MODULE SamExtracts ------------------------------
(***************************************************************************)
(* The sam-extracts task: it fetches SAM.gov's monthly and daily extracts, *)
(* loads them into sam_gov_entity in batches, one transaction each, and    *)
(* cleans up the old files.  Between loading and cleaning it links each    *)
(* entity's point of contact to the entity's organization: those steps are *)
(* in Organizations, which composes the two.                               *)
(***************************************************************************)
EXTENDS Naturals, FiniteSets

CONSTANTS
  Entity,       \* registrations at SAM.gov, by UEI
  User,         \* people, by e-mail address
  Monthly,      \* days of a monthly extract; every other day has a daily one
  KeepDays,     \* files older than this are deleted
  MaxDay,       \* bound: the last day
  MaxFaults     \* bound: runs of the task that fail

ASSUME DaysAssumption == MaxDay \in Nat /\ Monthly \subseteq 1..MaxDay /\ 1 \in Monthly /\ KeepDays \in Nat
ASSUME FaultsAssumption == MaxFaults \in Nat

VARIABLES
  day,        \* today
  registry,   \* SAM.gov: each entity's registration, {} if it has none
  published,  \* the extract of each day
  entity,     \* sam_gov_entity, by UEI: {} or one row
  file,       \* sam_extract_file: the status of each day's, "none" without a row
  task,       \* the run of the task
  faults

samVars == <<day, registry, published, entity, file, task, faults>>

-----------------------------------------------------------------------------

Day == 1..MaxDay

Registration == [updated : 0..MaxDay, active : BOOLEAN, poc : User]

\* An extract: complete records of some entities, and the entities deactivated.
\* (A record marked expired changes nothing.)
Extract == [records : [Entity -> SUBSET Registration], gone : SUBSET Entity]

Nothing == [records |-> [e \in Entity |-> {}], gone |-> {}]

Pending == { d \in Day : file[d] = "pending" }
First(days) == CHOOSE d \in days : \A c \in days : d <= c
Last(days) == CHOOSE d \in days : \A c \in days : d >= c

Asleep == [at |-> "asleep"]

SamInit ==
  /\ day = 1
  /\ registry \in [Entity -> {{}} \cup { {[updated |-> 0, active |-> TRUE, poc |-> u]} : u \in User }]
  /\ published = [d \in Day |-> IF d = 1 THEN [records |-> registry, gone |-> {}] ELSE Nothing]
  /\ entity = [e \in Entity |-> {}]
  /\ file = [d \in Day |-> "none"]
  /\ task = Asleep
  /\ faults = 0

-----------------------------------------------------------------------------
(* SAM.gov.                                                                *)

\* A registration stays, is updated (or made, or made active again), or ends.
Update(u) == {[updated |-> day + 1, active |-> TRUE, poc |-> u]}

Deactivated(e) == { [r EXCEPT !.active = FALSE] : r \in registry[e] }

NextDay(changed, gone) ==
  /\ day < MaxDay
  /\ day' = day + 1
  /\ IF day + 1 \in Monthly
     THEN /\ changed = {} /\ gone = {}
          /\ published' = [published EXCEPT ![day + 1] =
               [records |-> [e \in Entity |-> { r \in registry[e] : r.active }], gone |-> {}]]
          /\ UNCHANGED registry
     ELSE /\ \A e \in gone : \E r \in registry[e] : r.active
          /\ \E poc \in [changed -> User] :
               /\ registry' = [e \in Entity |->
                    IF e \in changed THEN Update(poc[e])
                    ELSE IF e \in gone THEN Deactivated(e) ELSE registry[e]]
               /\ published' = [published EXCEPT ![day + 1] =
                    [records |-> [e \in Entity |-> IF e \in changed THEN Update(poc[e]) ELSE {}],
                     gone |-> gone]]
  /\ UNCHANGED <<entity, file, task, faults>>

-----------------------------------------------------------------------------
(* The task.                                                               *)

\* Mutant: today's extract alone.
WantedToday == {day}

\* The latest monthly extract and the daily ones since.
Wanted == Last({ d \in Monthly : d <= day })..day

\* One transaction: what is wanted and not on file.
Fetch ==
  /\ task = Asleep
  /\ file' = [d \in Day |-> IF d \in Wanted /\ file[d] = "none" THEN "pending" ELSE file[d]]
  /\ task' = [at |-> "list"]
  /\ UNCHANGED <<day, registry, published, entity, faults>>

\* The state in which the extracts in queue are loaded, the first of them next.
Loading(queue) ==
  IF queue = {} THEN [at |-> "link"]
  ELSE [at |-> "load", queue |-> queue,
        todo |-> { e \in Entity : published[First(queue)].records[e] # {} }]

\* Mutant: the extracts are marked when they are listed.
ListAndMark ==
  /\ task.at = "list"
  /\ file' = [d \in Day |-> IF d \in Pending THEN "completed" ELSE file[d]]
  /\ task' = Loading(Pending)
  /\ UNCHANGED <<day, registry, published, entity, faults>>

ListPending ==
  /\ task.at = "list"
  /\ task' = Loading(Pending)
  /\ UNCHANGED <<day, registry, published, entity, file, faults>>

Remaining(e) == [at |-> "load", queue |-> task.queue, todo |-> task.todo \ {e}]

\* Only a record with a later date replaces the row.
Newer(row, r) == \A s \in row : r.updated > s.updated

\* Mutant: an update is inserted beside the row it replaces.
LoadBatchInsert(e) ==
  /\ task.at = "load" /\ e \in task.todo
  /\ entity' = [entity EXCEPT ![e] = @ \cup published[First(task.queue)].records[e]]
  /\ task' = Remaining(e)
  /\ UNCHANGED <<day, registry, published, file, faults>>

\* A batch is one entity.
LoadBatch(e) ==
  /\ task.at = "load" /\ e \in task.todo
  /\ entity' = [entity EXCEPT ![e] =
       IF \A r \in published[First(task.queue)].records[e] : Newer(@, r)
       THEN published[First(task.queue)].records[e] ELSE @]
  /\ task' = Remaining(e)
  /\ UNCHANGED <<day, registry, published, file, faults>>

\* The deactivations and the mark on the extract are one transaction.
FinishExtract ==
  LET d == First(task.queue)
  IN /\ task.at = "load" /\ task.todo = {}
     /\ entity' = [e \in Entity |->
          IF e \in published[d].gone THEN { [r EXCEPT !.active = FALSE] : r \in entity[e] }
          ELSE entity[e]]
     /\ file' = [file EXCEPT ![d] = "completed"]
     /\ task' = Loading(task.queue \ {d})
     /\ UNCHANGED <<day, registry, published, faults>>

CleanUp ==
  /\ task.at = "clean"
  /\ file' = [d \in Day |->
       IF d + KeepDays < day /\ file[d] # "none" THEN "deleted" ELSE file[d]]
  /\ task' = Asleep
  /\ UNCHANGED <<day, registry, published, entity, faults>>

\* A download, a query or the container fails, and the run ends.
TaskFails ==
  /\ faults < MaxFaults
  /\ faults' = faults + 1
  /\ task # Asleep
  /\ task' = Asleep
  /\ UNCHANGED <<day, registry, published, entity, file>>

-----------------------------------------------------------------------------

\* What the task does on its own, apart from failing.
SamTask ==
  \/ Fetch \/ ListPending \/ FinishExtract \/ CleanUp
  \/ \E e \in Entity : LoadBatch(e)

SamNext ==
  \/ \E changed, gone \in SUBSET Entity : changed \cap gone = {} /\ NextDay(changed, gone)
  \/ SamTask
  \/ TaskFails

-----------------------------------------------------------------------------

SamTypeOK ==
  /\ day \in Day
  /\ \A e \in Entity : Cardinality(entity[e]) <= 1 /\ entity[e] \subseteq Registration
  /\ published \in [Day -> Extract]
  /\ file \in [Day -> {"none", "pending", "completed", "deleted"}]

\* A day whose daily extract the task never fetched and no longer wants.
Missed(d) == file[d] = "none"

\* When every extract on file is loaded and today's is among them, the table has
\* each registration as SAM.gov has it, after failures in the middle of an
\* extract and days without a run: the monthly extract makes up for missed days,
\* but for a deactivation, which it does not hold.
EntityFollowsRegistry ==
  Pending = {} /\ file[day] # "none" =>
    \A e \in Entity :
      \/ entity[e] = registry[e]
      \/ \E d \in 1..day : Missed(d) /\ e \in published[d].gone
================================================================================
