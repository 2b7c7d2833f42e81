--------------------------- MODULE OpportunityIndex ---------------------------
(***************************************************************************)
(* Opportunities, the search index and the stored versions, which follow   *)
(* them: grantors' edits, the publish workflow, the load-transform command *)
(* (legacy changes, current summaries, incremental refresh of the index,   *)
(* versions) under its job lock, and the nightly full refresh.             *)
(*                                                                         *)
(* A trigger on the opportunity's tables clears both flags of its          *)
(* opportunity_change_audit row on every change, and so locks that row     *)
(* until the transaction ends.                                             *)
(***************************************************************************)
EXTENDS CurrentOpportunity, TaskJobLock, FiniteSets

CONSTANTS
  Opportunity,
  Legacy,            \* those the legacy system owns; the others are grantors'
  TestOpportunity,   \* those of a test agency
  Publishers,        \* threads of the workflow service
  Choices,           \* the summaries an edit may leave
  Initial,           \* the synopses the drafts begin with
  MaxChanges,        \* bound: edits of all opportunities together
  MaxFaults,         \* bound: failures of the index and of processes
  MaxRequests,       \* bound: publish requests waiting for one opportunity
  LegacyDeletes,     \* whether the legacy system deletes opportunities
  Lapses             \* bound: which lapses may happen

ASSUME LegacyAssumption == Legacy \subseteq Opportunity
ASSUME TestAssumption == TestOpportunity \subseteq Opportunity
ASSUME ChoicesAssumption == Choices \subseteq Summary \ {Absent} /\ Initial \subseteq Choices
ASSUME MaxChangesAssumption == MaxChanges \in Nat
ASSUME MaxFaultsAssumption == MaxFaults \in Nat
ASSUME MaxRequestsAssumption == MaxRequests \in Nat \ {0}
ASSUME LegacyDeletesAssumption == LegacyDeletes \in BOOLEAN

VARIABLES
  row,       \* each opportunity with its summaries and change audit
  queue,     \* opportunity_index_delete_queue
  version,   \* the latest opportunity_version of each, {} when it has none
  live,      \* the documents of the index behind the alias, {} or one each
  refresh,   \* the full refresh
  cmd,       \* each run of load-transform
  pub,       \* each workflow thread's publish transaction
  requests,  \* publish requests accepted and not handled
  staged,    \* rows of the two legacy staging tables not yet transformed, {} or one each
  today,
  changes,   \* edits so far
  faults,    \* failures of the index, and of processes, so far
  lapses     \* history: which lapses there have been

vars == <<lock, row, queue, version, live, refresh, cmd, pub, requests, staged, today, changes, faults,
          lapses>>

-----------------------------------------------------------------------------

Row == [here : BOOLEAN, draft : BOOLEAN, summaries : [Kinds -> Summary],
        current : SUBSET CurrentRow, rev : Nat, indexed : BOOLEAN, versioned : BOOLEAN]

\* What a document or a version shows of an opportunity.
View(r) == [rev |-> r.rev, shown |-> { <<c, r.summaries[c.kind]>> : c \in r.current }]

\* The queue trigger.
Touched(r) == [r EXCEPT !.indexed = FALSE, !.versioned = FALSE]

Searchable(r) == r.here /\ ~r.draft /\ r.current # {}

\* A transaction that writes a row of the opportunity, or of its change audit,
\* waits for one that has.
Locked(o) ==
  \/ o \in refresh.marked
  \/ \E c \in Commands : o \in cmd[c].marked
  \/ \E p \in Publishers : pub[p].at = "written" /\ pub[p].opp = o

\* load_records: documents of a test agency's opportunities are left out, and
\* the opportunities marked all the same.
Upsert(index, docs) ==
  [o \in Opportunity |->
     IF o \in DOMAIN docs /\ o \notin TestOpportunity THEN {docs[o]} ELSE index[o]]

Marked(rows, S) == [o \in Opportunity |-> IF o \in S THEN [rows[o] EXCEPT !.indexed = TRUE] ELSE rows[o]]

NoDocs == [o \in {} |-> 0]

Idle == [at |-> "idle", day |-> 0, seen |-> NoDocs, docs |-> NoDocs, marked |-> {}, purge |-> {}]
NoRefresh == [at |-> "idle", docs |-> NoDocs, marked |-> {}]
NoPublish == [at |-> "idle"]
NothingStaged == [opportunity |-> {}, synopsis |-> {}]

Fault == faults < MaxFaults /\ faults' = faults + 1

\* What the code does not rule out and its schedule is meant to: a command that
\* outlives its lock ("overrun"), a command beside the full refresh
\* ("beside_refresh"), and a second publish request while one waits
\* ("two_requests").
Lapse(when, what) ==
  /\ lapses' = IF when THEN lapses \cup {what} ELSE lapses
  /\ lapses' \subseteq Lapses

-----------------------------------------------------------------------------

Init ==
  /\ LockInit
  /\ row \in [Opportunity ->
       { [here |-> TRUE, draft |-> TRUE, current |-> {}, rev |-> 0, indexed |-> FALSE, versioned |-> FALSE,
          summaries |-> [forecast |-> Absent, synopsis |-> s]] : s \in Initial }]
  /\ queue = {}
  /\ version = [o \in Opportunity |-> {}]
  /\ live = [o \in Opportunity |-> {}]
  /\ refresh = NoRefresh
  /\ cmd = [c \in Commands |-> Idle]
  /\ pub = [p \in Publishers |-> NoPublish]
  /\ requests = [o \in Opportunity |-> 0]
  /\ staged = [o \in Legacy |-> NothingStaged]
  /\ today = 1
  /\ changes = 0
  /\ faults = 0
  /\ lapses = {}

-----------------------------------------------------------------------------
(* Grantors.                                                               *)

Edit(o, edited) ==
  /\ o \notin Legacy
  /\ ~Locked(o)
  /\ changes < MaxChanges
  /\ changes' = changes + 1
  /\ row' = [row EXCEPT ![o] = Touched(edited)]
  /\ UNCHANGED <<lock, queue, version, live, refresh, cmd, pub, requests, staged, today, faults, lapses>>

UpdateOpportunity(o) == Edit(o, [row[o] EXCEPT !.rev = @ + 1])

\* A summary is created only in a draft, and only if there is none of its kind;
\* it is updated at any time.
SaveSummary(o, kind, summary) ==
  /\ row[o].draft \/ row[o].summaries[kind] # Absent
  /\ row[o].summaries[kind] # summary
  /\ Edit(o, [row[o] EXCEPT !.summaries[kind] = summary])

\* The publish endpoint refuses what is published and queues an event otherwise.
PublishOpportunity(o) ==
  /\ o \notin Legacy
  /\ row[o].draft
  /\ requests[o] < MaxRequests
  /\ requests' = [requests EXCEPT ![o] = @ + 1]
  /\ Lapse(requests[o] > 0, "two_requests")
  /\ UNCHANGED <<lock, row, queue, version, live, refresh, cmd, pub, staged, today, changes, faults>>

-----------------------------------------------------------------------------
(* The current summary.                                                    *)

\* The row a session that found the rows loaded turns them into, by primary key.
NewCurrent(found, loaded, target) ==
  { c \in found : \A l \in loaded : l.kind # c.kind } \cup target

\* Inserting a key that exists, or updating a row that is gone, fails at the flush.
CurrentFails(o, loaded, target) ==
  /\ loaded # target
  /\ \/ target = {} /\ o \in queue
     \/ target # {} /\ ~row[o].here
     \/ target # {} /\ \E l \in loaded : \A c \in row[o].current : c.kind # l.kind
     \/ \E t \in target, c \in row[o].current :
          t.kind = c.kind /\ \A l \in loaded : l.kind # c.kind

\* Mutant: the entry of an opportunity that is shown again stays in the queue.
KeepStaleEntry(o, loaded, target) == IF loaded # target /\ target = {} THEN queue \cup {o} ELSE queue

\* An opportunity that loses its current summary is queued for removal; one that
\* gets one anew has a stale entry cleared.
NewQueue(o, loaded, target) ==
  IF loaded = target THEN queue
  ELSE IF target = {} THEN queue \cup {o}
  ELSE IF loaded = {} THEN queue \ {o} ELSE queue

-----------------------------------------------------------------------------
(* The publish workflow: one transaction for all its transitions.          *)

Handled(o) == { p \in Publishers : pub[p].at # "idle" /\ pub[p].opp = o }

\* The opportunity's own columns are loaded with the event.
StartPublish(p, o) ==
  /\ pub[p].at = "idle"
  /\ Cardinality(Handled(o)) < requests[o]
  /\ pub' = [pub EXCEPT ![p] = [at |-> "loaded", opp |-> o, draft |-> row[o].draft, rev |-> row[o].rev]]
  /\ UNCHANGED <<lock, row, queue, version, live, refresh, cmd, requests, staged, today, changes, faults, lapses>>

\* What publishing leaves of the row, written to the index or not.
PublishedRow(p, written) ==
  LET o == pub[p].opp
      target == CurrentAndStatus(FALSE, row[o].summaries, today)
      dirty == pub[p].draft \/ target # row[o].current
      next == [row[o] EXCEPT !.draft = FALSE, !.current = target]
  IN [ (IF dirty THEN Touched(next) ELSE next) EXCEPT
         !.indexed = IF written THEN TRUE ELSE @ ]

\* The flag is flipped and flushed, which locks the row; the summaries are loaded
\* after that.  The document goes to the index before the commit, and only if it
\* got there is the opportunity marked.
WritePublished(p, written) ==
  LET o == pub[p].opp
      next == PublishedRow(p, written)
      view == View([next EXCEPT !.rev = pub[p].rev])
  IN /\ pub[p].at = "loaded"
     /\ ~Locked(o)
     /\ ~CurrentFails(o, row[o].current, next.current)
     /\ written => next.current # {}
     /\ live' = IF written THEN [live EXCEPT ![o] = {view}] ELSE live
     /\ pub' = [pub EXCEPT ![p] = [at |-> "written", opp |-> o, next |-> next, view |-> view,
                                   loaded |-> row[o].current]]
     /\ UNCHANGED <<lock, row, queue, version, refresh, cmd, requests, staged, today, changes, faults, lapses>>

CommitPublish(p) ==
  LET o == pub[p].opp
  IN /\ pub[p].at = "written"
     /\ row' = [row EXCEPT ![o] = pub[p].next]
     /\ queue' = NewQueue(o, pub[p].loaded, pub[p].next.current)
     /\ version' = [version EXCEPT ![o] = {pub[p].view}]
     /\ requests' = [requests EXCEPT ![o] = @ - 1]
     /\ pub' = [pub EXCEPT ![p] = NoPublish]
     /\ UNCHANGED <<lock, live, refresh, cmd, staged, today, changes, faults, lapses>>

\* The transaction fails or the service stops: the event is handled again, or is
\* given up in the end.
AbandonPublish(p, retried) ==
  /\ Fault
  /\ pub[p].at # "idle"
  /\ pub' = [pub EXCEPT ![p] = NoPublish]
  /\ requests' = IF retried THEN requests ELSE [requests EXCEPT ![pub[p].opp] = @ - 1]
  /\ UNCHANGED <<lock, row, queue, version, live, refresh, cmd, staged, today, changes, lapses>>

-----------------------------------------------------------------------------
(* load-transform.                                                         *)

Step(c, at) == [cmd EXCEPT ![c].at = at]

StartCommand(c) ==
  /\ cmd[c].at = "idle"
  /\ TakeLock(c)
  /\ cmd' = Step(c, "transform")
  /\ Lapse(refresh.at # "idle", "beside_refresh")
  /\ UNCHANGED <<row, queue, version, live, refresh, pub, requests, staged, today, changes, faults>>

\* The legacy system changes an opportunity: its columns and a summary, or it
\* deletes it.  load copies that to the staging tables.
LegacyChange(o) ==
  /\ o \in Legacy
  /\ row[o].here
  /\ staged[o] = NothingStaged
  /\ changes < MaxChanges
  /\ changes' = changes + 1
  /\ \/ LegacyDeletes /\ staged' = [staged EXCEPT ![o].opportunity = {"deleted"}]
     \/ \E is \in {"draft", "published"}, synopsis \in Choices \cup {Absent} :
          staged' = [staged EXCEPT ![o] = [opportunity |-> {is}, synopsis |-> {synopsis}]]
  /\ UNCHANGED <<lock, row, queue, version, live, refresh, cmd, pub, requests, today, faults, lapses>>

Changed == { o \in Legacy : staged[o].opportunity # {} }
Deleted == { o \in Legacy : "deleted" \in staged[o].opportunity }
Resummarized == { o \in Legacy : staged[o].synopsis # {} }

Transformed(r, change) ==
  IF "deleted" \in change
  THEN Touched([r EXCEPT !.here = FALSE, !.current = {}, !.summaries = [k \in Kinds |-> Absent]])
  ELSE Touched([r EXCEPT !.draft = ("draft" \in change), !.rev = @ + 1])

\* A deleted summary takes the current row that refers to it with it.
SummaryTransformed(r, synopsis) ==
  Touched([r EXCEPT !.summaries["synopsis"] = synopsis,
                    !.current = IF synopsis = Absent THEN { c \in @ : c.kind # "synopsis" } ELSE @])

\* TransformOpportunity, a transaction: those deleted are queued for removal from
\* the index.
TransformOpportunities(c) ==
  /\ cmd[c].at = "transform"
  /\ \A o \in Changed : ~Locked(o)
  /\ Deleted \cap queue = {}
  /\ row' = [o \in Opportunity |->
               IF o \in Changed THEN Transformed(row[o], staged[o].opportunity) ELSE row[o]]
  /\ version' = [o \in Opportunity |-> IF o \in Deleted THEN {} ELSE version[o]]
  /\ queue' = queue \cup Deleted
  /\ staged' = [o \in Legacy |-> [staged[o] EXCEPT !.opportunity = {}]]
  /\ cmd' = Step(c, "summaries")
  /\ UNCHANGED <<lock, live, refresh, pub, requests, today, changes, faults, lapses>>

\* An entry with the same key exists: the transaction fails, and the command.
TransformFails(c) ==
  /\ cmd[c].at = "transform"
  /\ Deleted \cap queue # {}
  /\ cmd' = Step(c, "exit")
  /\ UNCHANGED <<lock, row, queue, version, live, refresh, pub, requests, staged, today, changes, faults, lapses>>

\* TransformOpportunitySummary, a transaction of its own.
TransformSummaries(c) ==
  /\ cmd[c].at = "summaries"
  /\ \A o \in Resummarized : ~Locked(o)
  /\ row' = [o \in Opportunity |->
               IF o \in Resummarized
               THEN SummaryTransformed(row[o], CHOOSE s \in staged[o].synopsis : TRUE) ELSE row[o]]
  /\ staged' = [o \in Legacy |-> [staged[o] EXCEPT !.synopsis = {}]]
  /\ cmd' = Step(c, "set_current")
  /\ UNCHANGED <<lock, queue, version, live, refresh, pub, requests, today, changes, faults, lapses>>

ReadAll(c) ==
  /\ cmd[c].at = "set_current"
  /\ cmd' = [cmd EXCEPT ![c].at = "determined", ![c].day = today,
               ![c].seen = [o \in { o \in Opportunity : row[o].here } |-> row[o]]]
  /\ UNCHANGED <<lock, row, queue, version, live, refresh, pub, requests, staged, today, changes, faults, lapses>>

\* What the task makes of the opportunity it read, on the day it started.
Target(c, o) ==
  CurrentAndStatus(cmd[c].seen[o].draft, cmd[c].seen[o].summaries, cmd[c].day)

\* Mutant: an opportunity that has a current summary is not looked at again.
RedeterminedOnce(c) ==
  { o \in DOMAIN cmd[c].seen : cmd[c].seen[o].current = {} /\ Target(c, o) # {} }

Redetermined(c) == { o \in DOMAIN cmd[c].seen : cmd[c].seen[o].current # Target(c, o) }

SetCurrent(c) ==
  LET seen == cmd[c].seen
      S == Redetermined(c)
  IN /\ cmd[c].at = "determined"
     /\ \A o \in S : ~Locked(o) /\ ~CurrentFails(o, seen[o].current, Target(c, o))
     /\ row' = [o \in Opportunity |->
                  IF o \in S
                  THEN Touched([row[o] EXCEPT
                         !.current = NewCurrent(@, seen[o].current, Target(c, o))])
                  ELSE row[o]]
     /\ queue' = { o \in Opportunity :
                    o \in IF o \in S THEN NewQueue(o, seen[o].current, Target(c, o)) ELSE queue }
     /\ cmd' = [cmd EXCEPT ![c].at = "load", ![c].day = 0,
                  ![c].seen = [o \in DOMAIN seen |-> [seen[o] EXCEPT !.current = Target(c, o)]]]
     /\ UNCHANGED <<lock, version, live, refresh, pub, requests, staged, today, changes, faults, lapses>>

SetCurrentFails(c) ==
  /\ cmd[c].at = "determined"
  /\ \E o \in Redetermined(c) : CurrentFails(o, cmd[c].seen[o].current, Target(c, o))
  /\ cmd' = [cmd EXCEPT ![c] = [Idle EXCEPT !.at = "exit"]]
  /\ UNCHANGED <<lock, row, queue, version, live, refresh, pub, requests, staged, today, changes, faults, lapses>>

Due == { o \in Opportunity : Searchable(row[o]) /\ ~row[o].indexed }

\* What the session holds of an opportunity: as it is, or as an object that
\* survived from the task before it shows it.
Held(c, o) == {View(row[o])} \cup { View(cmd[c].seen[x]) : x \in {o} \cap DOMAIN cmd[c].seen }

ReadDue(c) ==
  /\ cmd[c].at = "load"
  /\ \E docs \in [Due -> UNION { Held(c, o) : o \in Due }] :
       /\ \A o \in Due : docs[o] \in Held(c, o)
       /\ cmd' = [cmd EXCEPT ![c].at = "dumped", ![c].docs = docs]
  /\ UNCHANGED <<lock, row, queue, version, live, refresh, pub, requests, staged, today, changes, faults, lapses>>

\* The documents are written and the opportunities marked, in a transaction that
\* stays open until the task ends.
LoadRecords(c) ==
  LET docs == cmd[c].docs
  IN /\ cmd[c].at = "dumped"
     /\ \A o \in DOMAIN docs : ~Locked(o)
     /\ live' = Upsert(live, docs)
     /\ cmd' = [cmd EXCEPT ![c].at = "loaded", ![c].marked = DOMAIN docs, ![c].docs = NoDocs]
     /\ UNCHANGED <<lock, row, queue, version, refresh, pub, requests, staged, today, changes, faults, lapses>>

\* The index does not answer, three times.
LoadFails(c) ==
  /\ Fault
  /\ cmd[c].at = "dumped"
  /\ DOMAIN cmd[c].docs # {}
  /\ cmd' = [cmd EXCEPT ![c] = [Idle EXCEPT !.at = "exit"]]
  /\ UNCHANGED <<lock, row, queue, version, live, refresh, pub, requests, staged, today, changes, lapses>>

\* Mutant: the entries go whether the documents were deleted or not.
ClearAlways(confirmed) == queue

\* Mutant: an entry stays though its document was deleted.
ClearNothing(confirmed) == {}

\* The entries to clear when the task commits.
Cleared(confirmed) == IF confirmed THEN queue ELSE {}

\* The documents of the queued opportunities are deleted; if that fails the
\* entries stay for the next run.
ProcessDeleteQueue(c, confirmed) ==
  /\ cmd[c].at = "loaded"
  /\ IF confirmed THEN UNCHANGED faults ELSE queue # {} /\ Fault
  /\ live' = IF confirmed THEN [o \in Opportunity |-> IF o \in queue THEN {} ELSE live[o]] ELSE live
  /\ cmd' = [cmd EXCEPT ![c].at = "purged", ![c].purge = Cleared(confirmed)]
  /\ UNCHANGED <<lock, row, queue, version, refresh, pub, requests, staged, today, changes, lapses>>

CommitLoad(c) ==
  /\ cmd[c].at = "purged"
  /\ row' = Marked(row, cmd[c].marked)
  /\ queue' = queue \ cmd[c].purge
  /\ cmd' = [cmd EXCEPT ![c].at = "store", ![c].marked = {}, ![c].purge = {}]
  /\ UNCHANGED <<lock, version, live, refresh, pub, requests, staged, today, changes, faults, lapses>>

\* The versions of the changed opportunities that are not drafts.
ReadChanged(c) ==
  LET S == { o \in Opportunity : row[o].here /\ ~row[o].draft /\ ~row[o].versioned }
  IN /\ cmd[c].at = "store"
     /\ \E docs \in [S -> UNION { Held(c, o) : o \in S }] :
          /\ \A o \in S : docs[o] \in Held(c, o)
          /\ cmd' = [cmd EXCEPT ![c].at = "versions", ![c].docs = docs, ![c].seen = NoDocs]
     /\ UNCHANGED <<lock, row, queue, version, live, refresh, pub, requests, staged, today, changes, faults, lapses>>

StoreVersions(c) ==
  LET docs == cmd[c].docs
  IN /\ cmd[c].at = "versions"
     /\ \A o \in DOMAIN docs : ~Locked(o)
     /\ version' = [o \in Opportunity |-> IF o \in DOMAIN docs THEN {docs[o]} ELSE version[o]]
     /\ row' = [o \in Opportunity |->
                  IF o \in DOMAIN docs THEN [row[o] EXCEPT !.versioned = TRUE] ELSE row[o]]
     /\ cmd' = [cmd EXCEPT ![c].at = "exit", ![c].docs = NoDocs]
     /\ UNCHANGED <<lock, queue, live, refresh, pub, requests, staged, today, changes, faults, lapses>>

ExitCommand(c) ==
  /\ cmd[c].at = "exit"
  /\ Unlock(c)
  /\ cmd' = [cmd EXCEPT ![c] = Idle]
  /\ UNCHANGED <<row, queue, version, live, refresh, pub, requests, staged, today, changes, faults, lapses>>

\* The process dies: its transaction is rolled back and its lock stays.
CommandCrash(c) ==
  /\ Fault
  /\ cmd[c].at # "idle"
  /\ cmd' = [cmd EXCEPT ![c] = Idle]
  /\ UNCHANGED <<lock, row, queue, version, live, refresh, pub, requests, staged, today, changes, lapses>>

LockExpires ==
  /\ LeaseEnds
  /\ Lapse(\E c \in lock.by : cmd[c].at # "idle", "overrun")
  /\ UNCHANGED <<row, queue, version, live, refresh, cmd, pub, requests, staged, today, changes, faults>>

-----------------------------------------------------------------------------
(* The full refresh: an index of its own, then the alias.                  *)

\* Mutant: the new index gets only the opportunities that changed.
DumpedOnlyDue == Due

\* The opportunities the new index gets.
Dumped == { o \in Opportunity : Searchable(row[o]) }

StartRefresh ==
  /\ refresh.at = "idle"
  /\ refresh' = [at |-> "dumped", marked |-> {},
                 docs |-> [o \in Dumped |-> View(row[o])]]
  /\ Lapse(\E c \in Commands : cmd[c].at # "idle", "beside_refresh")
  /\ UNCHANGED <<lock, row, queue, version, live, cmd, pub, requests, staged, today, changes, faults>>

FillIndex ==
  /\ refresh.at = "dumped"
  /\ \A o \in DOMAIN refresh.docs : ~Locked(o)
  /\ refresh' = [refresh EXCEPT !.at = "filled", !.marked = DOMAIN refresh.docs]
  /\ UNCHANGED <<lock, row, queue, version, live, cmd, pub, requests, staged, today, changes, faults, lapses>>

SwapAlias ==
  /\ refresh.at = "filled"
  /\ live' = Upsert([o \in Opportunity |-> {}], refresh.docs)
  /\ refresh' = [refresh EXCEPT !.at = "swapped", !.docs = NoDocs]
  /\ UNCHANGED <<lock, row, queue, version, cmd, pub, requests, staged, today, changes, faults, lapses>>

EndRefresh ==
  /\ refresh.at = "swapped"
  /\ row' = Marked(row, refresh.marked)
  /\ refresh' = NoRefresh
  /\ UNCHANGED <<lock, queue, version, live, cmd, pub, requests, staged, today, changes, faults, lapses>>

\* The index fails at some step before the swap and the task with it, which
\* commits its marks all the same.
RefreshFails ==
  /\ Fault
  /\ refresh.at \in {"dumped", "filled"}
  /\ row' = Marked(row, refresh.marked)
  /\ refresh' = NoRefresh
  /\ UNCHANGED <<lock, queue, version, live, cmd, pub, requests, staged, today, changes, lapses>>

RefreshCrash ==
  /\ Fault
  /\ refresh.at # "idle"
  /\ refresh' = NoRefresh
  /\ UNCHANGED <<lock, row, queue, version, live, cmd, pub, requests, staged, today, changes, lapses>>

DayPasses ==
  /\ today < MaxDay
  /\ today' = today + 1
  /\ UNCHANGED <<lock, row, queue, version, live, refresh, cmd, pub, requests, staged, changes, faults, lapses>>

-----------------------------------------------------------------------------

Grantor ==
  \E o \in Opportunity :
    \/ UpdateOpportunity(o)
    \/ PublishOpportunity(o)
    \/ \E kind \in Kinds, summary \in Choices : SaveSummary(o, kind, summary)

Publish(p) ==
  \/ \E o \in Opportunity : StartPublish(p, o)
  \/ \E written \in BOOLEAN : WritePublished(p, written)
  \/ CommitPublish(p)

Command(c) ==
  \/ StartCommand(c) \/ TransformOpportunities(c) \/ TransformFails(c) \/ TransformSummaries(c)
  \/ ReadAll(c) \/ SetCurrent(c) \/ SetCurrentFails(c)
  \/ ReadDue(c) \/ LoadRecords(c) \/ LoadFails(c)
  \/ \E confirmed \in BOOLEAN : ProcessDeleteQueue(c, confirmed)
  \/ CommitLoad(c) \/ ReadChanged(c) \/ StoreVersions(c) \/ ExitCommand(c)

Refresh == StartRefresh \/ FillIndex \/ SwapAlias \/ EndRefresh

Next ==
  \/ Grantor
  \/ \E p \in Publishers :
       Publish(p) \/ \E retried \in BOOLEAN : AbandonPublish(p, retried)
  \/ \E o \in Opportunity : LegacyChange(o)
  \/ \E c \in Commands : Command(c) \/ CommandCrash(c)
  \/ LockExpires
  \/ Refresh \/ RefreshFails \/ RefreshCrash
  \/ DayPasses

Spec == Init /\ [][Next]_vars

-----------------------------------------------------------------------------

\* The state is of the declared shape, and the bounds hold.
TypeOK ==
  /\ lock \in LockRecord
  /\ row \in [Opportunity -> Row]
  /\ queue \subseteq Opportunity
  /\ today \in 1 .. MaxDay
  /\ changes \in 0 .. MaxChanges

\* Two runs of load-transform never work at once, crashes and expired locks
\* included, unless one has outlived its lock.
OneCommand ==
  "overrun" \notin lapses =>
    \A c, d \in Commands : cmd[c].at # "idle" /\ cmd[d].at # "idle" => c = d

\* While the lock has held and no opportunity has had two publish requests at once.
InTurn == lapses \subseteq {"beside_refresh"}

\* An opportunity queued for removal is not shown: showing it again, by whichever
\* of the two processes that do, takes the entry back.
QueuedHasNoCurrent == InTurn => \A o \in queue : row[o].current = {}

\* However the publish workflow and SetCurrentOpportunitiesTask overlap, an
\* opportunity has one current summary.
OneCurrent == InTurn => \A o \in Opportunity : Cardinality(row[o].current) <= 1

\* A grantor's opportunity is never seen published without a version of it: a
\* publish that fails anywhere leaves neither.
PublishedHasVersion == \A o \in Opportunity \ Legacy : ~row[o].draft => version[o] # {}

\* An entry leaves the queue only when the document is gone from the index, or
\* the opportunity is shown again.
QueueForgets ==
  [][lapses' = {} =>
       \A o \in queue : o \notin queue' => live[o] = {} \/ row'[o].current # {}]_vars

\* What the index should hold of an opportunity.
Expected(o) == IF Searchable(row[o]) /\ o \notin TestOpportunity THEN {View(row[o])} ELSE {}

\* Once the edits and failures end, the index shows the opportunities as they
\* are: the full refresh repairs what the incremental one missed.
Converges == <>[](\A o \in Opportunity : live[o] = Expected(o))

\* Every process goes on, and one that waits for a row lock gets it once it is
\* free again and again.
Fairness ==
  /\ SF_vars(Refresh)
  /\ \A c \in Commands : SF_vars(Command(c))
  /\ \A p \in Publishers : SF_vars(Publish(p))
  /\ WF_vars(LockExpires)

FairSpec == Spec /\ Fairness

\* Once the edits end, every opportunity has the current summary and the status
\* its dates call for.
CurrentFollows ==
  <>[](\A o \in Opportunity :
         row[o].here => row[o].current = CurrentAndStatus(row[o].draft, row[o].summaries, today))

\* An opportunity queued for removal is removed, or shown again, though the
\* index fails now and then.
QueueDrains == \A o \in Opportunity : o \in queue ~> o \notin queue
===============================================================================
