------------------------ MODULE OpportunityIndexProofs ------------------------
(***************************************************************************)
(* Safety of OpportunityIndex, for any opportunities, runs of the command   *)
(* and publishing threads: types, the lock, the version of what is           *)
(* published, the one current summary and the delete queue.                 *)
(***************************************************************************)
EXTENDS OpportunityIndex, FiniteSetTheorems, TLAPS

Publishing ==
  {NoPublish}
    \cup [at : {"loaded"}, opp : Opportunity, draft : BOOLEAN, rev : Nat]
    \cup [at : {"written"}, opp : Opportunity, next : Row,
          view : [rev : Nat, shown : SUBSET (CurrentRow \X Summary)], loaded : SUBSET CurrentRow]

Staged == [opportunity : SUBSET {"deleted", "draft", "published"}, synopsis : SUBSET Summary]

Types ==
  /\ TypeOK
  /\ pub \in [Publishers -> Publishing]
  /\ staged \in [Legacy -> Staged]
  /\ version = [o \in Opportunity |-> version[o]]
  /\ cmd = [c \in Commands |-> cmd[c]]

\* A run that works holds the lock, until one outlives it.
WorkerHoldsLock ==
  "overrun" \in lapses \/ \A c \in Commands : cmd[c].at # "idle" => lock.by = {c} /\ ~lock.expired

IndexInv ==
  /\ Types
  /\ WorkerHoldsLock
  /\ PublishedHasVersion

-----------------------------------------------------------------------------
(* The values the steps are made of.                                       *)

LEMMA AbsentType == Absent \in Summary
BY MaxDayAssumption DEF Absent, Summary, Date

LEMMA CurrentType ==
  ASSUME NEW draft, NEW summaries, NEW d
  PROVE  CurrentAndStatus(draft, summaries, d) \subseteq CurrentRow
BY DEF CurrentAndStatus, CurrentRow, StatusOf

LEMMA TouchedType ==
  ASSUME NEW r \in Row
  PROVE  Touched(r) \in Row /\ Touched(r).draft = r.draft
BY DEF Row, Touched

LEMMA ViewType ==
  ASSUME NEW r \in Row
  PROVE  View(r) \in [rev : Nat, shown : SUBSET (CurrentRow \X Summary)]
BY DEF Row, View, CurrentRow

-----------------------------------------------------------------------------

LEMMA InitInv == Init => IndexInv
<1> SUFFICES ASSUME Init PROVE IndexInv
  OBVIOUS
<1>1. row \in [Opportunity -> Row]
  <2>1. ASSUME NEW s \in Initial
        PROVE  [here |-> TRUE, draft |-> TRUE, current |-> {}, rev |-> 0, indexed |-> FALSE, versioned |-> FALSE,
                summaries |-> [forecast |-> Absent, synopsis |-> s]] \in Row
    <3>1. s \in Summary
      BY ChoicesAssumption
    <3>2. [forecast |-> Absent, synopsis |-> s] \in [Kinds -> Summary]
      BY <3>1, AbsentType DEF Kinds
    <3> QED BY <3>2 DEF Row
  <2> QED BY <2>1 DEF Init
<1>2. TypeOK
  BY <1>1, MaxDayAssumption, MaxChangesAssumption DEF Init, TypeOK, LockInit, Unlocked, LockRecord
<1>3. Types
  BY <1>2 DEF Init, Types, Publishing, Staged, NothingStaged
<1>4. WorkerHoldsLock
  BY DEF Init, WorkerHoldsLock, Idle
<1>5. PublishedHasVersion
  BY DEF Init, PublishedHasVersion
<1> QED BY <1>3, <1>4, <1>5 DEF IndexInv

-----------------------------------------------------------------------------
(* The steps.  One lemma says what a step has to keep, a second that a run   *)
(* of the command that goes on keeps the lock.                              *)

LEMMA Kept ==
  ASSUME IndexInv,
         row' \in [Opportunity -> Row],
         queue' \subseteq Opportunity,
         version' = [o \in Opportunity |-> version'[o]],
         \A o \in Opportunity \ Legacy :
           /\ row'[o].draft = row[o].draft
           /\ version[o] # {} => version'[o] # {},
         pub' \in [Publishers -> Publishing],
         staged' \in [Legacy -> Staged],
         today' \in 1 .. MaxDay,
         changes' \in 0 .. MaxChanges,
         lock' \in LockRecord,
         cmd' = [c \in Commands |-> cmd'[c]],
         WorkerHoldsLock'
  PROVE  IndexInv'
<1>1. Types'
  BY DEF Types, TypeOK
<1>2. PublishedHasVersion'
  BY DEF IndexInv, PublishedHasVersion
<1> QED BY <1>1, <1>2 DEF IndexInv

LEMMA LockKept ==
  ASSUME IndexInv, NEW c \in Commands, cmd[c].at # "idle", UNCHANGED <<lock, lapses>>,
         cmd' = [d \in Commands |-> cmd'[d]],
         \A d \in Commands \ {c} : cmd'[d] = cmd[d]
  PROVE  lock' \in LockRecord /\ WorkerHoldsLock'
BY DEF IndexInv, Types, TypeOK, WorkerHoldsLock

LEMMA MarkedType ==
  ASSUME IndexInv, NEW S
  PROVE  /\ Marked(row, S) \in [Opportunity -> Row]
         /\ \A o \in Opportunity : Marked(row, S)[o].draft = row[o].draft
<1>1. ASSUME NEW o \in Opportunity
      PROVE  [row[o] EXCEPT !.indexed = TRUE] \in Row /\ [row[o] EXCEPT !.indexed = TRUE].draft = row[o].draft
  <2>1. row[o] \in Row
    BY DEF IndexInv, Types, TypeOK
  <2> QED BY <2>1 DEF Row
<1> QED BY <1>1 DEF Marked, IndexInv, Types, TypeOK

LEMMA EditInv ==
  ASSUME IndexInv, NEW o \in Opportunity, NEW edited \in Row, edited.draft = row[o].draft, Edit(o, edited)
  PROVE  IndexInv'
<1>1. Touched(edited) \in Row /\ Touched(edited).draft = row[o].draft
  BY TouchedType
<1>2. row' \in [Opportunity -> Row] /\ \A x \in Opportunity : row'[x].draft = row[x].draft
  BY <1>1 DEF Edit, IndexInv, Types, TypeOK
<1>3. changes' \in 0 .. MaxChanges
  BY MaxChangesAssumption DEF Edit, IndexInv, Types, TypeOK
<1>4. UNCHANGED <<lock, queue, version, cmd, pub, staged, today, lapses>>
  BY DEF Edit
<1>5. WorkerHoldsLock'
  BY <1>4 DEF IndexInv, WorkerHoldsLock
<1> QED BY <1>2, <1>3, <1>4, <1>5, Kept DEF IndexInv, Types, TypeOK

LEMMA GrantorInv == IndexInv /\ Grantor => IndexInv'
<1> SUFFICES ASSUME IndexInv, NEW o \in Opportunity,
                    \/ UpdateOpportunity(o)
                    \/ PublishOpportunity(o)
                    \/ \E kind \in Kinds, summary \in Choices : SaveSummary(o, kind, summary)
             PROVE  IndexInv'
  BY DEF Grantor
<1>0. row[o] \in Row
  BY DEF IndexInv, Types, TypeOK
<1>1. CASE UpdateOpportunity(o)
  <2> DEFINE edited == [row[o] EXCEPT !.rev = @ + 1]
  <2>1. edited \in Row /\ edited.draft = row[o].draft
    BY <1>0 DEF Row
  <2>2. Edit(o, edited)
    BY <1>1 DEF UpdateOpportunity
  <2> QED BY <2>1, <2>2, EditInv
<1>2. CASE PublishOpportunity(o)
  BY <1>2, Kept DEF PublishOpportunity, Lapse, IndexInv, Types, TypeOK, WorkerHoldsLock
<1>3. ASSUME NEW kind \in Kinds, NEW summary \in Choices, SaveSummary(o, kind, summary)
      PROVE  IndexInv'
  <2> DEFINE edited == [row[o] EXCEPT !.summaries[kind] = summary]
  <2>1. edited \in Row /\ edited.draft = row[o].draft
    BY <1>0, ChoicesAssumption DEF Row
  <2>2. Edit(o, edited)
    BY <1>3 DEF SaveSummary
  <2> QED BY <2>1, <2>2, EditInv
<1> QED BY <1>1, <1>2, <1>3

LEMMA PublishInv ==
  ASSUME IndexInv, NEW p \in Publishers,
         Publish(p) \/ \E retried \in BOOLEAN : AbandonPublish(p, retried)
  PROVE  IndexInv'
<1> USE DEF IndexInv, Types, TypeOK
<1>0. WorkerHoldsLock' \/ ~UNCHANGED <<lock, cmd, lapses>>
  BY DEF WorkerHoldsLock
<1>1. ASSUME NEW o \in Opportunity, StartPublish(p, o) PROVE IndexInv'
  <2>1. row[o] \in Row
    OBVIOUS
  <2>2. [at |-> "loaded", opp |-> o, draft |-> row[o].draft, rev |-> row[o].rev] \in Publishing
    BY <2>1 DEF Publishing, Row
  <2>3. pub' \in [Publishers -> Publishing]
    BY <1>1, <2>2 DEF StartPublish
  <2> QED BY <1>0, <1>1, <2>3, Kept DEF StartPublish
<1>2. ASSUME NEW written \in BOOLEAN, WritePublished(p, written) PROVE IndexInv'
  <2> DEFINE o == pub[p].opp
             next == PublishedRow(p, written)
             view == View([next EXCEPT !.rev = pub[p].rev])
  <2>1. o \in Opportunity /\ pub[p].rev \in Nat
    BY <1>2 DEF WritePublished, Publishing, NoPublish
  <2>2. row[o] \in Row
    BY <2>1
  <2>3. next \in Row
    <3> DEFINE target == CurrentAndStatus(FALSE, row[o].summaries, today)
               base == [row[o] EXCEPT !.draft = FALSE, !.current = target]
    <3>1. target \subseteq CurrentRow
      BY CurrentType
    <3>2. base \in Row
      BY <2>2, <3>1 DEF Row
    <3>3. Touched(base) \in Row
      BY <3>2, TouchedType
    <3> DEFINE dirty == pub[p].draft \/ target # row[o].current
               result == IF dirty THEN Touched(base) ELSE base
    <3>4. result \in Row
      BY <3>2, <3>3
    <3>5. next = [result EXCEPT !.indexed = IF written THEN TRUE ELSE @]
      BY DEF PublishedRow
    <3> HIDE DEF next, result
    <3> QED BY <3>4, <3>5 DEF Row
  <2>4. [next EXCEPT !.rev = pub[p].rev] \in Row
    <3> HIDE DEF next
    <3> QED BY <2>1, <2>3 DEF Row
  <2>5. view \in [rev : Nat, shown : SUBSET (CurrentRow \X Summary)]
    BY <2>4, ViewType
  <2>6. [at |-> "written", opp |-> o, next |-> next, view |-> view, loaded |-> row[o].current] \in Publishing
    <3> HIDE DEF next, view
    <3> QED BY <2>1, <2>2, <2>3, <2>5 DEF Publishing, Row
  <2>7. pub' = [pub EXCEPT ![p] = [at |-> "written", opp |-> o, next |-> next, view |-> view,
                                   loaded |-> row[o].current]]
        /\ UNCHANGED <<lock, row, queue, version, cmd, staged, today, changes, lapses>>
    BY <1>2 DEF WritePublished
  <2>8. pub' \in [Publishers -> Publishing]
    <3> HIDE DEF next, view, o
    <3> QED BY <2>6, <2>7
  <2> QED BY <1>0, <2>7, <2>8, Kept
<1>3. CASE CommitPublish(p)
  <2> DEFINE o == pub[p].opp
  <2>1. o \in Opportunity /\ pub[p].next \in Row
    BY <1>3 DEF CommitPublish, Publishing, NoPublish
  <2>2. row' \in [Opportunity -> Row] /\ \A x \in Opportunity \ {o} : row'[x] = row[x]
    BY <1>3, <2>1 DEF CommitPublish
  <2>3. queue' \subseteq Opportunity
    BY <1>3, <2>1 DEF CommitPublish, NewQueue
  <2>4. version' = [x \in Opportunity |-> version'[x]] /\ version'[o] # {}
        /\ \A x \in Opportunity \ {o} : version'[x] = version[x]
    BY <1>3, <2>1 DEF CommitPublish
  <2>5. pub' \in [Publishers -> Publishing]
    BY <1>3 DEF CommitPublish, Publishing
  <2>6. UNCHANGED <<lock, cmd, staged, today, changes, lapses>>
    BY <1>3 DEF CommitPublish
  <2>7. Types'
    BY <2>2, <2>3, <2>4, <2>5, <2>6
  <2>8. PublishedHasVersion'
    BY <2>2, <2>4 DEF PublishedHasVersion
  <2> QED BY <1>0, <2>6, <2>7, <2>8
<1>4. ASSUME NEW retried \in BOOLEAN, AbandonPublish(p, retried) PROVE IndexInv'
  <2>1. pub' \in [Publishers -> Publishing]
    BY <1>4 DEF AbandonPublish, Publishing
  <2> QED BY <1>0, <1>4, <2>1, Kept DEF AbandonPublish
<1> QED BY <1>1, <1>2, <1>3, <1>4 DEF Publish

\* A row whose flags alone change.
LEMMA VersionedType ==
  ASSUME NEW r \in Row
  PROVE  [r EXCEPT !.versioned = TRUE] \in Row /\ [r EXCEPT !.versioned = TRUE].draft = r.draft
BY DEF Row

LEMMA TransformedType ==
  ASSUME NEW r \in Row, NEW change
  PROVE  Transformed(r, change) \in Row
<1>1. CASE "deleted" \in change
  <2>1. [k \in Kinds |-> Absent] \in [Kinds -> Summary]
    BY AbsentType
  <2>2. [r EXCEPT !.here = FALSE, !.current = {}, !.summaries = [k \in Kinds |-> Absent]] \in Row
    BY <2>1 DEF Row
  <2> QED BY <1>1, <2>2, TouchedType DEF Transformed
<1>2. CASE "deleted" \notin change
  <2> DEFINE draft == "draft" \in change
             n == r.rev + 1
             next == [r EXCEPT !.draft = draft, !.rev = n]
  <2>1. draft \in BOOLEAN
    OBVIOUS
  <2>2. n \in Nat
    BY DEF Row
  <2>3. Transformed(r, change) = Touched(next)
    BY <1>2 DEF Transformed
  <2> HIDE DEF draft, n
  <2>4. next \in Row
    BY <2>1, <2>2 DEF Row
  <2> QED BY <2>3, <2>4, TouchedType
<1> QED BY <1>1, <1>2

LEMMA SummaryTransformedType ==
  ASSUME NEW r \in Row, NEW s \in Summary
  PROVE  /\ SummaryTransformed(r, s) \in Row
         /\ SummaryTransformed(r, s).draft = r.draft
         /\ SummaryTransformed(r, s).current \subseteq r.current
<1> DEFINE kept == IF s = Absent THEN { c \in r.current : c.kind # "synopsis" } ELSE r.current
           next == [r EXCEPT !.summaries["synopsis"] = s, !.current = kept]
<1>1. kept \subseteq r.current /\ r.current \subseteq CurrentRow
  BY DEF Row
<1>2. SummaryTransformed(r, s) = Touched(next)
  BY DEF SummaryTransformed
<1> HIDE DEF kept
<1>3. next \in Row /\ next.draft = r.draft /\ next.current = kept
  BY <1>1 DEF Row
<1> HIDE DEF next
<1>4. Touched(next).current = next.current
  BY <1>3 DEF Touched, Row
<1> QED BY <1>1, <1>2, <1>3, <1>4, TouchedType

LEMMA TransformOpportunitiesInv ==
  ASSUME IndexInv, NEW c \in Commands, TransformOpportunities(c)
  PROVE  IndexInv'
<1>1. row' \in [Opportunity -> Row] /\ \A o \in Opportunity \ Legacy : row'[o] = row[o]
  <2>1. \A o \in Opportunity : Transformed(row[o], staged[o].opportunity) \in Row
    BY TransformedType DEF IndexInv, Types, TypeOK
  <2> QED BY <2>1 DEF TransformOpportunities, Changed, IndexInv, Types, TypeOK
<1>2. Deleted \subseteq Legacy
  BY DEF Deleted
<1>3. version' = [o \in Opportunity |-> version'[o]]
      /\ \A o \in Opportunity \ Legacy : version'[o] = version[o]
  BY <1>2 DEF TransformOpportunities
<1>4. queue' \subseteq Opportunity
  BY <1>2, LegacyAssumption DEF TransformOpportunities, IndexInv, Types, TypeOK
<1>5. staged' \in [Legacy -> Staged] /\ UNCHANGED <<lock, pub, today, changes, lapses>>
  BY DEF TransformOpportunities, Staged, IndexInv, Types
<1>6. /\ cmd[c].at # "idle"
      /\ cmd' = [d \in Commands |-> cmd'[d]]
      /\ \A d \in Commands \ {c} : cmd'[d] = cmd[d]
  <2>1. cmd[c].at # "idle"
    BY DEF TransformOpportunities
  <2>2. cmd = [d \in Commands |-> cmd[d]]
    BY DEF IndexInv, Types
  <2> QED BY <2>1, <2>2, Zenon DEF TransformOpportunities, Step
<1>7. lock' \in LockRecord /\ WorkerHoldsLock'
  BY <1>5, <1>6, LockKept
<1>8. today' \in 1 .. MaxDay /\ changes' \in 0 .. MaxChanges /\ pub' \in [Publishers -> Publishing]
  BY <1>5 DEF IndexInv, Types, TypeOK
<1> QED BY <1>1, <1>3, <1>4, <1>5, <1>6, <1>7, <1>8, Kept

\* The rows that the second transformation writes.
LEMMA SummaryRows ==
  ASSUME IndexInv, NEW c \in Commands, TransformSummaries(c)
  PROVE  /\ row' \in [Opportunity -> Row]
         /\ \A o \in Opportunity :
              row'[o].draft = row[o].draft /\ row'[o].current \subseteq row[o].current
<1>1. ASSUME NEW o \in Opportunity
      PROVE  /\ row'[o] \in Row
             /\ row'[o].draft = row[o].draft /\ row'[o].current \subseteq row[o].current
  <2>0. row[o] \in Row
    BY DEF IndexInv, Types, TypeOK
  <2>1. CASE o \in Resummarized
    <3> DEFINE s == CHOOSE s \in staged[o].synopsis : TRUE
    <3>1. s \in Summary
      BY <2>1 DEF Resummarized, IndexInv, Types, Staged
    <3>2. row'[o] = SummaryTransformed(row[o], s)
      BY <2>1 DEF TransformSummaries
    <3> HIDE DEF s
    <3> QED BY <2>0, <3>1, <3>2, SummaryTransformedType
  <2>2. CASE o \notin Resummarized
    BY <2>0, <2>2 DEF TransformSummaries
  <2> QED BY <2>1, <2>2
<1>2. row' = [o \in Opportunity |-> row'[o]]
  BY DEF TransformSummaries
<1> QED BY <1>1, <1>2

LEMMA TransformSummariesInv ==
  ASSUME IndexInv, NEW c \in Commands, TransformSummaries(c)
  PROVE  IndexInv'
<1>1. row' \in [Opportunity -> Row] /\ \A o \in Opportunity : row'[o].draft = row[o].draft
  BY SummaryRows
<1>2. UNCHANGED <<lock, queue, version, pub, today, changes, lapses>>
  BY DEF TransformSummaries
<1>3. staged' \in [Legacy -> Staged]
  BY DEF TransformSummaries, Staged, IndexInv, Types
<1>4. /\ cmd[c].at # "idle"
      /\ cmd' = [d \in Commands |-> cmd'[d]]
      /\ \A d \in Commands \ {c} : cmd'[d] = cmd[d]
  <2>1. cmd[c].at # "idle"
    BY DEF TransformSummaries
  <2>2. cmd = [d \in Commands |-> cmd[d]]
    BY DEF IndexInv, Types
  <2> QED BY <2>1, <2>2, Zenon DEF TransformSummaries, Step
<1>5. lock' \in LockRecord /\ WorkerHoldsLock'
  BY <1>2, <1>4, LockKept
<1>6. /\ queue' \subseteq Opportunity /\ today' \in 1 .. MaxDay /\ changes' \in 0 .. MaxChanges
      /\ pub' \in [Publishers -> Publishing] /\ version' = [o \in Opportunity |-> version'[o]]
  BY <1>2 DEF IndexInv, Types, TypeOK
<1> QED BY <1>1, <1>2, <1>3, <1>4, <1>5, <1>6, Kept

LEMMA SetCurrentInv ==
  ASSUME IndexInv, NEW c \in Commands, SetCurrent(c)
  PROVE  IndexInv'
<1>1. row' \in [Opportunity -> Row] /\ \A o \in Opportunity : row'[o].draft = row[o].draft
  <2>1. ASSUME NEW o \in Opportunity, NEW loaded
        PROVE  LET r == Touched([row[o] EXCEPT !.current = NewCurrent(@, loaded, Target(c, o))])
               IN r \in Row /\ r.draft = row[o].draft
    <3> DEFINE current == NewCurrent(row[o].current, loaded, Target(c, o))
               r == [row[o] EXCEPT !.current = current]
    <3>1. row[o] \in Row
      BY DEF IndexInv, Types, TypeOK
    <3>2. Target(c, o) \subseteq CurrentRow
      BY CurrentType DEF Target
    <3>3. current \subseteq CurrentRow
      BY <3>1, <3>2 DEF NewCurrent, Row
    <3>4. r \in Row /\ r.draft = row[o].draft
      <4> HIDE DEF current
      <4> QED BY <3>1, <3>3 DEF Row
    <3>5. r = [row[o] EXCEPT !.current = NewCurrent(@, loaded, Target(c, o))]
      OBVIOUS
    <3> HIDE DEF r
    <3> QED BY <3>4, <3>5, TouchedType
  <2> QED BY <2>1 DEF SetCurrent, IndexInv, Types, TypeOK
<1>2. queue' \subseteq Opportunity
  BY DEF SetCurrent
<1>3. UNCHANGED <<lock, version, pub, staged, today, changes, lapses>>
  BY DEF SetCurrent
<1>4. /\ cmd[c].at # "idle"
      /\ cmd' = [d \in Commands |-> cmd'[d]]
      /\ \A d \in Commands \ {c} : cmd'[d] = cmd[d]
  <2>1. cmd[c].at # "idle"
    BY DEF SetCurrent
  <2>2. cmd = [d \in Commands |-> cmd[d]]
    BY DEF IndexInv, Types
  <2> QED BY <2>1, <2>2, Zenon DEF SetCurrent
<1>5. lock' \in LockRecord /\ WorkerHoldsLock'
  BY <1>3, <1>4, LockKept
<1>6. /\ today' \in 1 .. MaxDay /\ changes' \in 0 .. MaxChanges
      /\ pub' \in [Publishers -> Publishing] /\ staged' \in [Legacy -> Staged]
      /\ version' = [o \in Opportunity |-> version'[o]]
  BY <1>3 DEF IndexInv, Types, TypeOK
<1> QED BY <1>1, <1>2, <1>3, <1>4, <1>5, <1>6, Kept

LEMMA StoreVersionsInv ==
  ASSUME IndexInv, NEW c \in Commands, StoreVersions(c)
  PROVE  IndexInv'
<1>1. row' \in [Opportunity -> Row] /\ \A o \in Opportunity : row'[o].draft = row[o].draft
  BY VersionedType DEF StoreVersions, IndexInv, Types, TypeOK
<1>2. version' = [o \in Opportunity |-> version'[o]]
      /\ \A o \in Opportunity : version[o] # {} => version'[o] # {}
  BY DEF StoreVersions
<1>3. UNCHANGED <<lock, queue, pub, staged, today, changes, lapses>>
  BY DEF StoreVersions
<1>4. /\ cmd[c].at # "idle"
      /\ cmd' = [d \in Commands |-> cmd'[d]]
      /\ \A d \in Commands \ {c} : cmd'[d] = cmd[d]
  <2>1. cmd[c].at # "idle"
    BY DEF StoreVersions
  <2>2. cmd = [d \in Commands |-> cmd[d]]
    BY DEF IndexInv, Types
  <2> QED BY <2>1, <2>2, Zenon DEF StoreVersions
<1>5. lock' \in LockRecord /\ WorkerHoldsLock'
  BY <1>3, <1>4, LockKept
<1>6. /\ queue' \subseteq Opportunity /\ today' \in 1 .. MaxDay /\ changes' \in 0 .. MaxChanges
      /\ pub' \in [Publishers -> Publishing] /\ staged' \in [Legacy -> Staged]
  BY <1>3 DEF IndexInv, Types, TypeOK
<1> QED BY <1>1, <1>2, <1>4, <1>5, <1>6, Kept

LEMMA CommitLoadInv ==
  ASSUME IndexInv, NEW c \in Commands, CommitLoad(c)
  PROVE  IndexInv'
<1>1. row' \in [Opportunity -> Row] /\ \A o \in Opportunity : row'[o].draft = row[o].draft
  BY MarkedType DEF CommitLoad
<1>2. queue' \subseteq Opportunity
  BY DEF CommitLoad, IndexInv, Types, TypeOK
<1>3. UNCHANGED <<lock, version, pub, staged, today, changes, lapses>>
  BY DEF CommitLoad
<1>4. /\ cmd[c].at # "idle"
      /\ cmd' = [d \in Commands |-> cmd'[d]]
      /\ \A d \in Commands \ {c} : cmd'[d] = cmd[d]
  <2>1. cmd[c].at # "idle"
    BY DEF CommitLoad
  <2>2. cmd = [d \in Commands |-> cmd[d]]
    BY DEF IndexInv, Types
  <2> QED BY <2>1, <2>2, Zenon DEF CommitLoad
<1>5. lock' \in LockRecord /\ WorkerHoldsLock'
  BY <1>3, <1>4, LockKept
<1>6. /\ today' \in 1 .. MaxDay /\ changes' \in 0 .. MaxChanges
      /\ pub' \in [Publishers -> Publishing] /\ staged' \in [Legacy -> Staged]
      /\ version' = [o \in Opportunity |-> version'[o]]
  BY <1>3 DEF IndexInv, Types, TypeOK
<1> QED BY <1>1, <1>2, <1>3, <1>4, <1>5, <1>6, Kept

\* A step that leaves the tables alone and keeps the lock is enough.
LEMMA TablesAlone ==
  ASSUME IndexInv, UNCHANGED <<row, queue, version, pub, staged, today, changes>>,
         lock' \in LockRecord, WorkerHoldsLock',
         cmd' = [d \in Commands |-> cmd'[d]]
  PROVE  IndexInv'
<1>1. /\ row' \in [Opportunity -> Row] /\ queue' \subseteq Opportunity
      /\ version' = [o \in Opportunity |-> version'[o]]
      /\ pub' \in [Publishers -> Publishing] /\ staged' \in [Legacy -> Staged]
      /\ today' \in 1 .. MaxDay /\ changes' \in 0 .. MaxChanges
  BY DEF IndexInv, Types, TypeOK
<1> QED BY <1>1, Kept

\* The steps of a run that only reads, or writes only to the index.
LEMMA ReadingInv ==
  ASSUME IndexInv, NEW c \in Commands,
         \/ TransformFails(c) \/ ReadAll(c) \/ SetCurrentFails(c)
         \/ ReadDue(c) \/ LoadRecords(c) \/ LoadFails(c)
         \/ \E confirmed \in BOOLEAN : ProcessDeleteQueue(c, confirmed)
         \/ ReadChanged(c)
  PROVE  IndexInv'
<1>0. cmd = [d \in Commands |-> cmd[d]]
  BY DEF IndexInv, Types
<1>1. /\ cmd[c].at # "idle"
      /\ UNCHANGED <<lock, row, queue, version, pub, staged, today, changes, lapses>>
  BY DEF TransformFails, ReadAll, SetCurrentFails, ReadDue, LoadRecords, LoadFails,
         ProcessDeleteQueue, ReadChanged
<1>2. /\ cmd' = [d \in Commands |-> cmd'[d]]
      /\ \A d \in Commands \ {c} : cmd'[d] = cmd[d]
  <2>1. CASE TransformFails(c)
    BY <2>1, <1>0, Zenon DEF TransformFails, Step
  <2>2. CASE ReadAll(c)
    BY <2>2, <1>0, Zenon DEF ReadAll
  <2>3. CASE SetCurrentFails(c)
    BY <2>3, <1>0, Zenon DEF SetCurrentFails
  <2>4. CASE ReadDue(c)
    BY <2>4, <1>0, Zenon DEF ReadDue
  <2>5. CASE LoadRecords(c)
    BY <2>5, <1>0, Zenon DEF LoadRecords
  <2>6. CASE LoadFails(c)
    BY <2>6, <1>0, Zenon DEF LoadFails
  <2>7. ASSUME NEW confirmed \in BOOLEAN, ProcessDeleteQueue(c, confirmed)
        PROVE  /\ cmd' = [d \in Commands |-> cmd'[d]]
               /\ \A d \in Commands \ {c} : cmd'[d] = cmd[d]
    BY <2>7, <1>0, Zenon DEF ProcessDeleteQueue
  <2>8. CASE ReadChanged(c)
    BY <2>8, <1>0, Zenon DEF ReadChanged
  <2> QED BY <2>1, <2>2, <2>3, <2>4, <2>5, <2>6, <2>7, <2>8
<1>3. lock' \in LockRecord /\ WorkerHoldsLock'
  BY <1>1, <1>2, LockKept
<1> QED BY <1>1, <1>2, <1>3, TablesAlone

\* Starting takes a lock that nobody who works holds.
LEMMA StartInv ==
  ASSUME IndexInv, NEW c \in Commands, StartCommand(c)
  PROVE  IndexInv'
<1>1. /\ cmd' = [d \in Commands |-> cmd'[d]]
      /\ \A d \in Commands \ {c} : cmd'[d] = cmd[d]
  <2>1. cmd = [d \in Commands |-> cmd[d]]
    BY DEF IndexInv, Types
  <2> QED BY <2>1, Zenon DEF StartCommand, Step
<1>2. /\ lock.by = {} \/ lock.expired
      /\ lock' = [by |-> {c}, expired |-> FALSE]
      /\ lapses \subseteq lapses'
      /\ UNCHANGED <<row, queue, version, pub, staged, today, changes>>
  BY DEF StartCommand, TakeLock, Lapse
<1>3. WorkerHoldsLock'
  <2>1. "overrun" \in lapses \/ \A d \in Commands : cmd[d].at = "idle"
    BY <1>2 DEF IndexInv, WorkerHoldsLock
  <2> QED BY <1>1, <1>2, <2>1 DEF WorkerHoldsLock
<1>4. lock' \in LockRecord
  BY <1>2 DEF LockRecord
<1> QED BY <1>1, <1>2, <1>3, <1>4, TablesAlone

\* A run that ends or dies holds nothing any more that another could need.
LEMMA StopInv ==
  ASSUME IndexInv, NEW c \in Commands, ExitCommand(c) \/ CommandCrash(c)
  PROVE  IndexInv'
<1>1. /\ cmd' = [cmd EXCEPT ![c] = Idle]
      /\ cmd[c].at # "idle"
      /\ lock' = lock \/ lock' = IF lock.by = {c} THEN Unlocked ELSE lock
      /\ UNCHANGED <<row, queue, version, pub, staged, today, changes, lapses>>
  BY DEF ExitCommand, CommandCrash, Unlock
<1>2. /\ cmd' = [d \in Commands |-> cmd'[d]]
      /\ cmd'[c] = Idle
      /\ \A d \in Commands \ {c} : cmd'[d] = cmd[d]
  <2>1. cmd = [d \in Commands |-> cmd[d]]
    BY DEF IndexInv, Types
  <2> QED BY <1>1, <2>1
<1>3. lock' \in LockRecord
  <2>1. Unlocked \in LockRecord
    BY DEF Unlocked, LockRecord
  <2>2. lock \in LockRecord
    BY DEF IndexInv, Types, TypeOK
  <2>3. lock' = lock \/ lock' = Unlocked
    BY <1>1
  <2> QED BY <2>1, <2>2, <2>3
<1>4. WorkerHoldsLock'
  <2>1. "overrun" \in lapses \/ \A d \in Commands : cmd'[d].at = "idle"
    <3>1. "overrun" \in lapses \/ \A d \in Commands \ {c} : cmd[d].at = "idle"
      BY <1>1 DEF IndexInv, WorkerHoldsLock
    <3> QED BY <1>2, <3>1 DEF Idle
  <2> QED BY <1>1, <2>1 DEF WorkerHoldsLock
<1> QED BY <1>1, <1>2, <1>3, <1>4, TablesAlone

LEMMA LockExpiresInv ==
  ASSUME IndexInv, LockExpires
  PROVE  IndexInv'
<1>1. UNCHANGED <<row, queue, version, pub, staged, today, changes, cmd>>
      /\ lock' = [lock EXCEPT !.expired = TRUE]
      /\ ("overrun" \in lapses' \/ \A c \in lock.by : cmd[c].at = "idle")
      /\ lapses \subseteq lapses'
      /\ lock \in LockRecord
      /\ cmd = [d \in Commands |-> cmd[d]]
  BY DEF LockExpires, LeaseEnds, Lapse, IndexInv, Types, TypeOK
<1>2. lock' \in LockRecord
  BY <1>1 DEF LockRecord
<1>3. WorkerHoldsLock'
  BY <1>1 DEF IndexInv, WorkerHoldsLock, LockRecord
<1> QED BY <1>1, <1>2, <1>3, TablesAlone

LEMMA CommandInv ==
  ASSUME IndexInv, NEW c \in Commands, Command(c) \/ CommandCrash(c)
  PROVE  IndexInv'
BY StartInv, TransformOpportunitiesInv, TransformSummariesInv, SetCurrentInv, CommitLoadInv,
   StoreVersionsInv, ReadingInv, StopInv
   DEF Command

LEMMA RefreshInv ==
  ASSUME IndexInv, Refresh \/ RefreshFails \/ RefreshCrash
  PROVE  IndexInv'
<1>1. row' \in [Opportunity -> Row] /\ \A o \in Opportunity : row'[o].draft = row[o].draft
  <2>1. row' = row \/ row' = Marked(row, refresh.marked)
    BY DEF Refresh, StartRefresh, FillIndex, SwapAlias, EndRefresh, RefreshFails, RefreshCrash
  <2> QED BY <2>1, MarkedType DEF IndexInv, Types, TypeOK
<1>2. UNCHANGED <<lock, queue, version, cmd, pub, staged, today, changes>> /\ lapses \subseteq lapses'
  BY DEF Refresh, StartRefresh, FillIndex, SwapAlias, EndRefresh, RefreshFails, RefreshCrash, Lapse
<1>3. WorkerHoldsLock'
  BY <1>2 DEF IndexInv, WorkerHoldsLock
<1> QED BY <1>1, <1>2, <1>3, Kept DEF IndexInv, Types, TypeOK

LEMMA LegacyInv ==
  ASSUME IndexInv, NEW o \in Opportunity, LegacyChange(o)
  PROVE  IndexInv'
<1>1. staged' \in [Legacy -> Staged]
  <2>1. [staged[o] EXCEPT !.opportunity = {"deleted"}] \in Staged
    BY DEF LegacyChange, IndexInv, Types, Staged
  <2>2. \A is \in {"draft", "published"}, synopsis \in Choices \cup {Absent} :
          [opportunity |-> {is}, synopsis |-> {synopsis}] \in Staged
    BY ChoicesAssumption, AbsentType DEF Staged
  <2> QED BY <2>1, <2>2 DEF LegacyChange, IndexInv, Types
<1>2. changes' \in 0 .. MaxChanges
  BY MaxChangesAssumption DEF LegacyChange, IndexInv, Types, TypeOK
<1>3. UNCHANGED <<lock, row, queue, version, cmd, pub, today, lapses>>
  BY DEF LegacyChange
<1>4. WorkerHoldsLock'
  BY <1>3 DEF IndexInv, WorkerHoldsLock
<1> QED BY <1>1, <1>2, <1>3, <1>4, Kept DEF IndexInv, Types, TypeOK

LEMMA DayInv ==
  ASSUME IndexInv, DayPasses \/ UNCHANGED vars
  PROVE  IndexInv'
<1>1. today' \in 1 .. MaxDay
  BY MaxDayAssumption DEF DayPasses, vars, IndexInv, Types, TypeOK
<1>2. UNCHANGED <<lock, row, queue, version, cmd, pub, staged, changes, lapses>>
  BY DEF DayPasses, vars
<1>3. WorkerHoldsLock'
  BY <1>2 DEF IndexInv, WorkerHoldsLock
<1> QED BY <1>1, <1>2, <1>3, Kept DEF IndexInv, Types, TypeOK

LEMMA StepInv == IndexInv /\ [Next]_vars => IndexInv'
BY GrantorInv, PublishInv, LegacyInv, CommandInv, LockExpiresInv, RefreshInv, DayInv DEF Next

-----------------------------------------------------------------------------
(* What holds in every reachable state.                                    *)

\* The inductive invariant: types, the lock's, and the version's part of it.
THEOREM IndexCorrect == Spec => []IndexInv
<1> QED BY InitInv, StepInv, PTL DEF Spec

\* Opportunities, the lock, the queue and the day keep their types, whatever the
\* workflow, the command and the refresh write, and whatever fails.
THEOREM IndexTypes == Spec => []TypeOK
<1>1. IndexInv => TypeOK
  BY DEF IndexInv, Types
<1> QED BY <1>1, IndexCorrect, PTL

\* Unless a run outlives its lease, two runs of load-transform never work at once,
\* however many there are and wherever they die.
THEOREM OneCommandAtOnce == Spec => []OneCommand
<1>1. IndexInv => OneCommand
  <2> SUFFICES ASSUME IndexInv, "overrun" \notin lapses, NEW c \in Commands, NEW d \in Commands,
                      cmd[c].at # "idle", cmd[d].at # "idle"
               PROVE  c = d
    BY DEF OneCommand
  <2>1. lock.by = {c} /\ lock.by = {d}
    BY DEF IndexInv, WorkerHoldsLock
  <2> QED BY <2>1
<1> QED BY <1>1, IndexCorrect, PTL

\* A grantor's opportunity is published together with a version of it, and no
\* later step of the command takes the version away.
THEOREM PublishedKeepsVersion == Spec => []PublishedHasVersion
<1>1. IndexInv => PublishedHasVersion
  BY DEF IndexInv
<1> QED BY <1>1, IndexCorrect, PTL

-----------------------------------------------------------------------------
(* One current summary, and the delete queue, while no opportunity has had   *)
(* two publish requests waiting and no run has outlived its lease: what has  *)
(* lapsed stays known, so that each invariant below holds until then.        *)

LEMMA LapsesStay == [Next]_vars => lapses \subseteq lapses'
<1> SUFFICES ASSUME [Next]_vars
             PROVE  lapses \subseteq lapses'
  OBVIOUS
<1>1. CASE Grantor
  BY <1>1 DEF Grantor, UpdateOpportunity, PublishOpportunity, SaveSummary, Edit, Lapse
<1>2. ASSUME NEW p \in Publishers, Publish(p) \/ \E retried \in BOOLEAN : AbandonPublish(p, retried)
      PROVE  lapses \subseteq lapses'
  BY <1>2 DEF Publish, StartPublish, WritePublished, CommitPublish, AbandonPublish
<1>3. ASSUME NEW c \in Commands, Command(c) \/ CommandCrash(c)
      PROVE  lapses \subseteq lapses'
  BY <1>3 DEF Command, CommandCrash, StartCommand, TransformOpportunities, TransformFails, TransformSummaries,
              ReadAll, SetCurrent, SetCurrentFails, ReadDue, LoadRecords, LoadFails, ProcessDeleteQueue, CommitLoad,
              ReadChanged, StoreVersions, ExitCommand, Lapse
<1>4. CASE Refresh \/ RefreshFails \/ RefreshCrash
  BY <1>4 DEF Refresh, StartRefresh, FillIndex, SwapAlias, EndRefresh, RefreshFails, RefreshCrash, Lapse
<1>5. CASE LockExpires \/ DayPasses \/ UNCHANGED vars \/ \E o \in Opportunity : LegacyChange(o)
  BY <1>5 DEF LockExpires, DayPasses, LegacyChange, vars, Lapse
<1> QED BY <1>1, <1>2, <1>3, <1>4, <1>5 DEF Next

One(S) == \A a, b \in S : a = b

\* A request waits for a grantor's draft; the one thread that handles it is the
\* only one on that opportunity.
RequestsKnown ==
  /\ requests \in [Opportunity -> {0, 1}]
  /\ \A o \in Opportunity : requests[o] = 1 => o \notin Legacy /\ row[o].draft
  /\ \A p \in Publishers : pub[p].at # "idle" => requests[pub[p].opp] = 1
  /\ \A p, q \in Publishers :
       pub[p].at # "idle" /\ pub[q].at # "idle" /\ pub[p].opp = pub[q].opp => p = q

\* A grantor's draft has never been shown.
DraftsHidden ==
  \A o \in Opportunity \ Legacy : row[o].draft => row[o].current = {} /\ o \notin queue

CurrentOne == \A o \in Opportunity : One(row[o].current)

\* What a publish transaction found and will leave.
WrittenKnown ==
  \A p \in Publishers : pub[p].at = "written" =>
    pub[p].loaded = {} /\ ~pub[p].next.draft /\ One(pub[p].next.current)

\* What the run read of an opportunity is so still, but for one that was a draft:
\* it may have been published since, and the run finds nothing to do there.
SeenKnown ==
  \A c \in Commands : cmd[c].at = "determined" =>
    \A o \in Opportunity \cap DOMAIN cmd[c].seen :
      /\ \/ cmd[c].seen[o].current = row[o].current
         \/ o \notin Legacy /\ cmd[c].seen[o].draft /\ cmd[c].seen[o].current = {}
      /\ o \notin Legacy /\ row[o].draft => cmd[c].seen[o].draft

CommandShape == \A c \in Commands : DOMAIN cmd[c] = DOMAIN Idle

\* QueuedHasNoCurrent, whatever has lapsed.
QueueHidden == \A o \in queue : row[o].current = {}

CurrentInv ==
  /\ CommandShape
  /\ RequestsKnown
  /\ DraftsHidden
  /\ CurrentOne
  /\ QueueHidden
  /\ WrittenKnown
  /\ SeenKnown

\* The full refresh has the night to itself.
NightApart == refresh.at = "idle" \/ \A c \in Commands : cmd[c].at = "idle"

\* The document of an entry about to be cleared is gone.
PurgeKnown ==
  \A c \in Commands : cmd[c].at = "purged" =>
    \A o \in cmd[c].purge : o \in queue => live[o] = {}

QueueInv ==
  /\ live = [o \in Opportunity |-> live[o]]
  /\ NightApart
  /\ PurgeKnown

LEMMA InitCurrentInv == Init => CurrentInv /\ QueueInv
<1> SUFFICES ASSUME Init
             PROVE  CurrentInv /\ QueueInv
  OBVIOUS
<1>1. \A o \in Opportunity : row[o].current = {}
  BY DEF Init
<1> QED
  BY <1>1 DEF Init, Idle, NoPublish, NoRefresh, CurrentInv, CommandShape, One, RequestsKnown,
              DraftsHidden, CurrentOne, QueueHidden, WrittenKnown, SeenKnown, QueueInv, NightApart,
              PurgeKnown

-----------------------------------------------------------------------------
(* What the steps are made of, once more.                                   *)

LEMMA TargetOne ==
  ASSUME NEW draft, NEW summaries, NEW d
  PROVE  /\ One(CurrentAndStatus(draft, summaries, d))
         /\ draft => CurrentAndStatus(draft, summaries, d) = {}
BY DEF CurrentAndStatus, One, Kinds

LEMMA OneAtWork ==
  ASSUME IndexInv, "overrun" \notin lapses, NEW c \in Commands, NEW d \in Commands,
         cmd[c].at # "idle", cmd[d].at # "idle"
  PROVE  c = d
<1>1. lock.by = {c} /\ lock.by = {d}
  BY DEF IndexInv, WorkerHoldsLock
<1> QED BY <1>1

\* A run that moves is the only one at work, or the first.
LEMMA OthersIdle ==
  ASSUME IndexInv, "overrun" \notin lapses, NEW c \in Commands, Command(c) \/ CommandCrash(c)
  PROVE  \A d \in Commands \ {c} : cmd[d].at = "idle"
<1>1. CASE cmd[c].at # "idle"
  BY <1>1, OneAtWork
<1>2. CASE cmd[c].at = "idle"
  <2>1. StartCommand(c)
    BY <1>2 DEF Command, CommandCrash, TransformOpportunities, TransformFails, TransformSummaries, ReadAll,
                SetCurrent, SetCurrentFails, ReadDue,
                LoadRecords, LoadFails, ProcessDeleteQueue, CommitLoad, ReadChanged, StoreVersions, ExitCommand
  <2> QED BY <2>1 DEF StartCommand, TakeLock, IndexInv, WorkerHoldsLock
<1> QED BY <1>1, <1>2

\* Only reading puts a run before its writes, only the delete queue before its
\* commit.
LEMMA CommandMoves ==
  ASSUME IndexInv, CommandShape, NEW c \in Commands, Command(c) \/ CommandCrash(c)
  PROVE  /\ \A d \in Commands \ {c} : cmd'[d] = cmd[d]
         /\ CommandShape'
         /\ cmd'[c].at = "determined" => ReadAll(c)
         /\ cmd'[c].at = "purged" => \E confirmed \in BOOLEAN : ProcessDeleteQueue(c, confirmed)
<1> DEFINE Moves ==
      /\ \A d \in Commands \ {c} : cmd'[d] = cmd[d]
      /\ DOMAIN cmd'[c] = DOMAIN Idle
      /\ cmd'[c].at \notin {"determined", "purged"}
<1>0. cmd = [d \in Commands |-> cmd[d]] /\ DOMAIN cmd[c] = DOMAIN Idle
  BY DEF IndexInv, Types, CommandShape
<1>1. ASSUME StartCommand(c) \/ TransformOpportunities(c) \/ TransformFails(c) \/ TransformSummaries(c)
      PROVE  Moves
  BY <1>0, <1>1 DEF StartCommand, TransformOpportunities, TransformFails, TransformSummaries, Step, Idle
<1>2. ASSUME SetCurrentFails(c) \/ LoadFails(c) \/ ExitCommand(c) \/ CommandCrash(c)
      PROVE  Moves
  BY <1>0, <1>2 DEF SetCurrentFails, LoadFails, ExitCommand, CommandCrash, Idle
<1>3. ASSUME SetCurrent(c)
      PROVE  Moves
  BY <1>0, <1>3 DEF SetCurrent, Idle
<1>4. ASSUME ReadDue(c)
      PROVE  Moves
  BY <1>0, <1>4 DEF ReadDue, Idle
<1>5. ASSUME LoadRecords(c)
      PROVE  Moves
  BY <1>0, <1>5 DEF LoadRecords, Idle
<1>6. ASSUME CommitLoad(c)
      PROVE  Moves
  BY <1>0, <1>6 DEF CommitLoad, Idle
<1>7. ASSUME ReadChanged(c)
      PROVE  Moves
  BY <1>0, <1>7 DEF ReadChanged, Idle
<1>8. ASSUME StoreVersions(c)
      PROVE  Moves
  BY <1>0, <1>8 DEF StoreVersions, Idle
<1>9. ASSUME ReadAll(c)
      PROVE  /\ \A d \in Commands \ {c} : cmd'[d] = cmd[d]
             /\ DOMAIN cmd'[c] = DOMAIN Idle
             /\ cmd'[c].at = "determined"
  BY <1>0, <1>9 DEF ReadAll, Idle
<1>10. ASSUME NEW confirmed \in BOOLEAN, ProcessDeleteQueue(c, confirmed)
       PROVE  /\ \A d \in Commands \ {c} : cmd'[d] = cmd[d]
              /\ DOMAIN cmd'[c] = DOMAIN Idle
              /\ cmd'[c].at = "purged"
  BY <1>0, <1>10 DEF ProcessDeleteQueue, Idle
<1>11. /\ \A d \in Commands \ {c} : cmd'[d] = cmd[d]
       /\ DOMAIN cmd'[c] = DOMAIN Idle
       /\ cmd'[c].at = "determined" => ReadAll(c)
       /\ cmd'[c].at = "purged" => \E confirmed \in BOOLEAN : ProcessDeleteQueue(c, confirmed)
  BY <1>1, <1>2, <1>3, <1>4, <1>5, <1>6, <1>7, <1>8, <1>9, <1>10 DEF Command
<1> QED BY <1>11 DEF CommandShape

\* What publishing leaves is shown if it can be, and no draft.
LEMMA PublishedRowIs ==
  ASSUME NEW p, NEW written \in BOOLEAN, row[pub[p].opp] \in Row
  PROVE  /\ PublishedRow(p, written).draft = FALSE
         /\ PublishedRow(p, written).current = CurrentAndStatus(FALSE, row[pub[p].opp].summaries, today)
<1> DEFINE o == pub[p].opp
           target == CurrentAndStatus(FALSE, row[o].summaries, today)
           base == [row[o] EXCEPT !.draft = FALSE, !.current = target]
           result == IF pub[p].draft \/ target # row[o].current THEN Touched(base) ELSE base
<1>1. target \subseteq CurrentRow
  BY CurrentType
<1>2. base \in Row /\ base.draft = FALSE /\ base.current = target
  <2> HIDE DEF target
  <2> QED BY <1>1 DEF Row
<1>3. result \in Row /\ result.draft = FALSE /\ result.current = target
  <2> HIDE DEF target, base
  <2> QED BY <1>2 DEF Touched, Row
<1>4. PublishedRow(p, written) = [result EXCEPT !.indexed = IF written THEN TRUE ELSE @]
  BY DEF PublishedRow
<1> HIDE DEF target, base, result
<1> QED BY <1>3, <1>4 DEF Row, target

LEMMA TransformedCurrent ==
  ASSUME NEW r \in Row, NEW change
  PROVE  /\ Transformed(r, change).current \subseteq r.current
         /\ "deleted" \in change => Transformed(r, change).current = {}
BY DEF Transformed, Touched, Row

-----------------------------------------------------------------------------
(* One current summary.                                                     *)

\* A step that changes no current summary and no draft flag, and queues nothing.
LEMMA SameCurrent ==
  ASSUME IndexInv, CurrentInv, CommandShape',
         \A o \in Opportunity : row'[o].draft = row[o].draft /\ row'[o].current = row[o].current,
         queue' \subseteq queue,
         UNCHANGED <<requests, pub>>,
         \A c \in Commands : cmd'[c].at = "determined" => cmd'[c] = cmd[c]
  PROVE  CurrentInv'
<1> USE DEF CurrentInv
<1>1. \A p \in Publishers : pub[p].at # "idle" => pub[p].opp \in Opportunity
  BY DEF IndexInv, Types, Publishing, NoPublish
<1>2. RequestsKnown'
  BY <1>1 DEF RequestsKnown
<1>3. queue \subseteq Opportunity
  BY DEF IndexInv, Types, TypeOK
<1>4. DraftsHidden' /\ CurrentOne' /\ QueueHidden'
  BY <1>3 DEF DraftsHidden, CurrentOne, QueueHidden
<1>5. WrittenKnown'
  BY DEF WrittenKnown
<1>6. SeenKnown'
  BY DEF SeenKnown
<1> QED BY <1>2, <1>4, <1>5, <1>6

LEMMA GrantorCurrent ==
  ASSUME IndexInv, CurrentInv, "two_requests" \notin lapses', Grantor
  PROVE  CurrentInv'
<1> SUFFICES ASSUME NEW o \in Opportunity,
                    \/ UpdateOpportunity(o)
                    \/ PublishOpportunity(o)
                    \/ \E kind \in Kinds, summary \in Choices : SaveSummary(o, kind, summary)
             PROVE  CurrentInv'
  BY DEF Grantor
<1>0. row \in [Opportunity -> Row]
  BY DEF IndexInv, Types, TypeOK
<1>1. ASSUME NEW edited, edited.draft = row[o].draft, edited.current = row[o].current,
             DOMAIN edited = DOMAIN row[o], Edit(o, edited)
      PROVE  CurrentInv'
  <2>1. Touched(edited).draft = edited.draft /\ Touched(edited).current = edited.current
    BY <1>0, <1>1 DEF Touched, Row
  <2>2. \A x \in Opportunity : row'[x].draft = row[x].draft /\ row'[x].current = row[x].current
    BY <1>0, <1>1, <2>1 DEF Edit
  <2> QED BY <1>1, <2>2, SameCurrent DEF Edit, CurrentInv, CommandShape
<1>2. CASE UpdateOpportunity(o)
  <2> DEFINE edited == [row[o] EXCEPT !.rev = @ + 1]
  <2>1. edited.draft = row[o].draft /\ edited.current = row[o].current /\ DOMAIN edited = DOMAIN row[o]
    BY <1>0 DEF Row
  <2> QED BY <1>1, <1>2, <2>1 DEF UpdateOpportunity
<1>3. ASSUME NEW kind \in Kinds, NEW summary \in Choices, SaveSummary(o, kind, summary)
      PROVE  CurrentInv'
  <2> DEFINE edited == [row[o] EXCEPT !.summaries[kind] = summary]
  <2>1. edited.draft = row[o].draft /\ edited.current = row[o].current /\ DOMAIN edited = DOMAIN row[o]
    BY <1>0 DEF Row
  <2> QED BY <1>1, <1>3, <2>1 DEF SaveSummary
<1>4. CASE PublishOpportunity(o)
  <2>1. /\ o \notin Legacy /\ row[o].draft /\ ~(requests[o] > 0)
        /\ requests' = [requests EXCEPT ![o] = @ + 1]
        /\ UNCHANGED <<row, queue, cmd, pub, staged>>
    BY <1>4 DEF PublishOpportunity, Lapse
  <2>2. requests[o] = 0
    BY <2>1 DEF CurrentInv, RequestsKnown
  <2>3. requests' \in [Opportunity -> {0, 1}] /\ requests'[o] = 1
        /\ \A x \in Opportunity \ {o} : requests'[x] = requests[x]
    BY <2>1, <2>2 DEF CurrentInv, RequestsKnown
  <2>4. \A p \in Publishers : pub[p].at # "idle" => pub[p].opp \in Opportunity
    BY DEF IndexInv, Types, Publishing, NoPublish
  <2>5. RequestsKnown'
    BY <2>1, <2>2, <2>3, <2>4 DEF CurrentInv, RequestsKnown
  <2> QED BY <2>1, <2>5 DEF CurrentInv, CommandShape, DraftsHidden, CurrentOne, QueueHidden,
                            WrittenKnown, SeenKnown
<1> QED BY <1>2, <1>3, <1>4

\* No second thread takes up an opportunity that has one request.
LEMMA StartPublishCurrent ==
  ASSUME IndexInv, CurrentInv, NEW p \in Publishers, NEW o \in Opportunity, StartPublish(p, o)
  PROVE  CurrentInv'
<1> USE DEF CurrentInv
<1>1. /\ pub[p].at = "idle" /\ Cardinality(Handled(o)) < requests[o]
      /\ pub' = [pub EXCEPT ![p] = [at |-> "loaded", opp |-> o, draft |-> row[o].draft, rev |-> row[o].rev]]
      /\ UNCHANGED <<row, queue, cmd, requests, staged>>
  BY DEF StartPublish
<1>2. /\ pub'[p] = [at |-> "loaded", opp |-> o, draft |-> row[o].draft, rev |-> row[o].rev]
      /\ \A q \in Publishers \ {p} : pub'[q] = pub[q]
  BY <1>1 DEF IndexInv, Types
<1>3. Handled(o) = {} /\ requests[o] = 1
  <2>1. requests[o] \in {0, 1}
    BY DEF RequestsKnown
  <2>2. ASSUME NEW q \in Handled(o)
        PROVE  FALSE
    <3>1. Handled(o) = {q}
      BY <2>2 DEF Handled, RequestsKnown
    <3>2. Cardinality(Handled(o)) = 1
      BY <3>1, FS_Singleton
    <3> QED BY <1>1, <2>1, <3>2
  <2>3. Handled(o) = {}
    BY <2>2
  <2>4. Cardinality(Handled(o)) = 0
    BY <2>3, FS_EmptySet
  <2> QED BY <1>1, <2>1, <2>3, <2>4
<1>4. RequestsKnown'
  BY <1>1, <1>2, <1>3 DEF RequestsKnown, Handled
<1>5. WrittenKnown'
  BY <1>1, <1>2 DEF WrittenKnown
<1> QED BY <1>1, <1>4, <1>5 DEF CommandShape, DraftsHidden, CurrentOne, QueueHidden, SeenKnown

LEMMA WritePublishedCurrent ==
  ASSUME IndexInv, CurrentInv, NEW p \in Publishers, NEW written \in BOOLEAN, WritePublished(p, written)
  PROVE  CurrentInv'
<1> USE DEF CurrentInv
<1> DEFINE o == pub[p].opp
           next == PublishedRow(p, written)
           view == View([next EXCEPT !.rev = pub[p].rev])
           after == [at |-> "written", opp |-> o, next |-> next, view |-> view, loaded |-> row[o].current]
<1>1. pub[p].at = "loaded" /\ pub' = [pub EXCEPT ![p] = after]
      /\ UNCHANGED <<row, queue, cmd, requests, staged>>
  BY DEF WritePublished
<1>2. o \in Opportunity /\ row[o] \in Row /\ o \notin Legacy /\ row[o].draft
  BY <1>1 DEF IndexInv, Types, TypeOK, Publishing, NoPublish, RequestsKnown
<1>3. ~next.draft /\ One(next.current)
  <2>1. /\ next.draft = FALSE
        /\ next.current = CurrentAndStatus(FALSE, row[o].summaries, today)
    BY <1>2, PublishedRowIs
  <2>2. One(CurrentAndStatus(FALSE, row[o].summaries, today))
    BY TargetOne
  <2> HIDE DEF next
  <2> QED BY <2>1, <2>2
<1>4. row[o].current = {}
  BY <1>2 DEF DraftsHidden
<1>5. /\ after.at = "written" /\ after.opp = o /\ after.loaded = {}
      /\ ~after.next.draft /\ One(after.next.current)
  BY <1>3, <1>4
<1> HIDE DEF after
<1>6. pub'[p] = after /\ \A q \in Publishers \ {p} : pub'[q] = pub[q]
  BY <1>1 DEF IndexInv, Types
<1>7. RequestsKnown'
  BY <1>1, <1>5, <1>6 DEF RequestsKnown
<1>8. WrittenKnown'
  BY <1>5, <1>6 DEF WrittenKnown
<1> QED BY <1>1, <1>7, <1>8 DEF CommandShape, DraftsHidden, CurrentOne, QueueHidden, SeenKnown

\* The opportunity was a draft until now: no run means to change it.
LEMMA CommitPublishCurrent ==
  ASSUME IndexInv, CurrentInv, NEW p \in Publishers, CommitPublish(p)
  PROVE  CurrentInv' /\ queue' \subseteq queue /\ pub[p].opp \notin queue
<1> USE DEF CurrentInv
<1> DEFINE o == pub[p].opp
           next == pub[p].next
<1>1. /\ pub[p].at = "written"
      /\ row' = [row EXCEPT ![o] = next]
      /\ queue' = NewQueue(o, pub[p].loaded, next.current)
      /\ requests' = [requests EXCEPT ![o] = @ - 1]
      /\ pub' = [pub EXCEPT ![p] = NoPublish]
      /\ UNCHANGED <<cmd, staged>>
  BY DEF CommitPublish
<1>2. o \in Opportunity /\ o \notin Legacy /\ row[o].draft /\ requests[o] = 1
  BY <1>1 DEF IndexInv, Types, Publishing, NoPublish, RequestsKnown
<1>3. row[o].current = {} /\ o \notin queue
  BY <1>2 DEF DraftsHidden
<1>4. pub[p].loaded = {} /\ ~next.draft /\ One(next.current)
  BY <1>1 DEF WrittenKnown
<1>5. row'[o] = next /\ \A x \in Opportunity \ {o} : row'[x] = row[x]
  BY <1>1, <1>2 DEF IndexInv, Types, TypeOK
<1>6. queue' \subseteq queue
  BY <1>1, <1>4 DEF NewQueue
<1>7. /\ requests' \in [Opportunity -> {0, 1}] /\ requests'[o] = 0
      /\ \A x \in Opportunity \ {o} : requests'[x] = requests[x]
  BY <1>1, <1>2 DEF RequestsKnown
<1>8. pub'[p].at = "idle" /\ \A q \in Publishers \ {p} : pub'[q] = pub[q]
  BY <1>1 DEF IndexInv, Types, NoPublish
<1>9. RequestsKnown'
  <2>1. \A q \in Publishers \ {p} : pub[q].at # "idle" => pub[q].opp \in Opportunity \ {o}
    BY <1>1 DEF RequestsKnown, IndexInv, Types, Publishing, NoPublish
  <2> QED BY <1>5, <1>7, <1>8, <2>1 DEF RequestsKnown
<1>10. DraftsHidden' /\ CurrentOne'
  BY <1>4, <1>5, <1>6 DEF DraftsHidden, CurrentOne
<1>11. QueueHidden'
  BY <1>3, <1>5, <1>6 DEF QueueHidden, IndexInv, Types, TypeOK
<1>12. WrittenKnown'
  BY <1>8 DEF WrittenKnown
<1>13. SeenKnown'
  BY <1>1, <1>2, <1>3, <1>4, <1>5 DEF SeenKnown
<1> QED BY <1>1, <1>3, <1>6, <1>9, <1>10, <1>11, <1>12, <1>13 DEF CommandShape

LEMMA AbandonCurrent ==
  ASSUME IndexInv, CurrentInv, NEW p \in Publishers, NEW retried \in BOOLEAN, AbandonPublish(p, retried)
  PROVE  CurrentInv'
<1> USE DEF CurrentInv
<1> DEFINE o == pub[p].opp
<1>1. /\ pub[p].at # "idle"
      /\ pub' = [pub EXCEPT ![p] = NoPublish]
      /\ requests' = requests \/ requests' = [requests EXCEPT ![o] = @ - 1]
      /\ UNCHANGED <<row, queue, cmd, staged>>
  BY DEF AbandonPublish
<1>2. o \in Opportunity /\ requests[o] = 1
  BY <1>1 DEF IndexInv, Types, Publishing, NoPublish, RequestsKnown
<1>3. /\ requests' \in [Opportunity -> {0, 1}]
      /\ \A x \in Opportunity \ {o} : requests'[x] = requests[x]
  BY <1>1, <1>2 DEF RequestsKnown
<1>4. pub'[p].at = "idle" /\ \A q \in Publishers \ {p} : pub'[q] = pub[q]
  BY <1>1 DEF IndexInv, Types, NoPublish
<1>5. \A q \in Publishers \ {p} : pub[q].at # "idle" => pub[q].opp \in Opportunity \ {o}
  BY <1>1 DEF RequestsKnown, IndexInv, Types, Publishing, NoPublish
<1>6. RequestsKnown'
  BY <1>1, <1>2, <1>3, <1>4, <1>5 DEF RequestsKnown
<1>7. WrittenKnown'
  BY <1>4 DEF WrittenKnown
<1> QED BY <1>1, <1>6, <1>7 DEF CommandShape, DraftsHidden, CurrentOne, QueueHidden, SeenKnown

LEMMA TransformCurrent ==
  ASSUME IndexInv, CurrentInv, NEW c \in Commands, TransformOpportunities(c),
         CommandShape', \A d \in Commands : cmd'[d].at # "determined"
  PROVE  CurrentInv'
<1> USE DEF CurrentInv
<1>1. /\ row' = [o \in Opportunity |->
                   IF o \in Changed THEN Transformed(row[o], staged[o].opportunity) ELSE row[o]]
      /\ queue' = queue \cup Deleted
      /\ UNCHANGED <<pub, requests>>
  BY DEF TransformOpportunities
<1>2. Changed \subseteq Legacy /\ Deleted \subseteq Changed
  BY DEF Changed, Deleted
<1>3. ASSUME NEW o \in Opportunity
      PROVE  /\ o \notin Changed => row'[o] = row[o]
             /\ row'[o].current \subseteq row[o].current
             /\ o \in Deleted => row'[o].current = {}
  <2>1. CASE o \notin Changed
    BY <1>1, <1>2, <2>1
  <2>2. CASE o \in Changed
    <3>1. row'[o] = Transformed(row[o], staged[o].opportunity) /\ row[o] \in Row
      BY <1>1, <2>2 DEF IndexInv, Types, TypeOK
    <3>2. o \in Deleted => "deleted" \in staged[o].opportunity
      BY DEF Deleted
    <3> QED BY <2>2, <3>1, <3>2, TransformedCurrent
  <2> QED BY <2>1, <2>2
<1>5. RequestsKnown'
  <2>1. \A p \in Publishers : pub[p].at # "idle" => pub[p].opp \in Opportunity
    BY DEF IndexInv, Types, Publishing, NoPublish
  <2> QED BY <1>1, <1>2, <1>3, <2>1 DEF RequestsKnown
<1>6. DraftsHidden' /\ CurrentOne'
  BY <1>1, <1>2, <1>3 DEF DraftsHidden, CurrentOne, One
<1>7. QueueHidden'
  <2> SUFFICES ASSUME NEW o \in queue'
               PROVE  row'[o].current = {}
    BY DEF QueueHidden
  <2>1. o \in Opportunity
    BY <1>1, <1>2, LegacyAssumption DEF IndexInv, Types, TypeOK
  <2>2. CASE o \in Deleted
    BY <1>3, <2>1, <2>2
  <2>3. CASE o \notin Deleted
    BY <1>1, <1>3, <2>1, <2>3 DEF QueueHidden
  <2> QED BY <2>2, <2>3
<1>8. WrittenKnown'
  BY <1>1 DEF WrittenKnown
<1> QED BY <1>5, <1>6, <1>7, <1>8 DEF SeenKnown

LEMMA SummariesCurrent ==
  ASSUME IndexInv, CurrentInv, NEW c \in Commands, TransformSummaries(c),
         CommandShape', \A d \in Commands : cmd'[d].at # "determined"
  PROVE  CurrentInv'
<1> USE DEF CurrentInv
<1>1. \A o \in Opportunity : row'[o].draft = row[o].draft /\ row'[o].current \subseteq row[o].current
  BY SummaryRows
<1>2. UNCHANGED <<queue, pub, requests>>
  BY DEF TransformSummaries
<1>3. queue \subseteq Opportunity
  BY DEF IndexInv, Types, TypeOK
<1>4. \A p \in Publishers : pub[p].at # "idle" => pub[p].opp \in Opportunity
  BY DEF IndexInv, Types, Publishing, NoPublish
<1>5. RequestsKnown'
  BY <1>1, <1>2, <1>4 DEF RequestsKnown
<1>6. DraftsHidden' /\ CurrentOne' /\ QueueHidden'
  BY <1>1, <1>2, <1>3 DEF DraftsHidden, CurrentOne, One, QueueHidden
<1>7. WrittenKnown'
  BY <1>2 DEF WrittenKnown
<1> QED BY <1>5, <1>6, <1>7 DEF SeenKnown

LEMMA ReadAllCurrent ==
  ASSUME IndexInv, CurrentInv, "overrun" \notin lapses, NEW c \in Commands, ReadAll(c),
         CommandShape', \A d \in Commands \ {c} : cmd[d].at = "idle" /\ cmd'[d] = cmd[d]
  PROVE  CurrentInv'
<1> USE DEF CurrentInv
<1>1. /\ cmd' = [cmd EXCEPT ![c].at = "determined", ![c].day = today,
               ![c].seen = [o \in { o \in Opportunity : row[o].here } |-> row[o]]]
      /\ UNCHANGED <<row, queue, pub, requests, staged>>
  BY DEF ReadAll
<1>2. cmd = [d \in Commands |-> cmd[d]] /\ DOMAIN cmd[c] = DOMAIN Idle
  BY DEF IndexInv, Types, CommandShape
<1>3. cmd'[c].seen = [o \in { o \in Opportunity : row[o].here } |-> row[o]]
  BY <1>1, <1>2 DEF Idle
<1>4. \A o \in Opportunity \cap DOMAIN cmd'[c].seen : cmd'[c].seen[o] = row'[o]
  BY <1>1, <1>3
<1>5. \A d \in Commands : cmd'[d].at = "determined" => d = c
  OBVIOUS
<1>6. SeenKnown'
  <2> SUFFICES ASSUME NEW o \in Opportunity \cap DOMAIN cmd'[c].seen
               PROVE  /\ cmd'[c].seen[o].current = row'[o].current
                      /\ row'[o].draft => cmd'[c].seen[o].draft
    BY <1>5 DEF SeenKnown
  <2> QED BY <1>4
<1> QED BY <1>1, <1>6 DEF RequestsKnown, DraftsHidden, CurrentOne, QueueHidden, WrittenKnown

\* What the task redetermines it read as it still is, and a grantor's draft it
\* leaves alone.
LEMMA RedeterminedKnown ==
  ASSUME CurrentInv, NEW c \in Commands, cmd[c].at = "determined",
         NEW o \in Opportunity, o \in Redetermined(c)
  PROVE  /\ cmd[c].seen[o].current = row[o].current
         /\ One(Target(c, o)) /\ Target(c, o) # row[o].current
         /\ o \notin Legacy => ~row[o].draft
<1>1. o \in DOMAIN cmd[c].seen /\ cmd[c].seen[o].current # Target(c, o)
  BY DEF Redetermined
<1>2. One(Target(c, o)) /\ (cmd[c].seen[o].draft => Target(c, o) = {})
  BY TargetOne DEF Target
<1>3. cmd[c].seen[o].current = row[o].current
  BY <1>1, <1>2 DEF CurrentInv, SeenKnown
<1>4. o \notin Legacy /\ row[o].draft => FALSE
  BY <1>1, <1>2, <1>3 DEF CurrentInv, SeenKnown, DraftsHidden
<1> QED BY <1>1, <1>2, <1>3, <1>4

\* The rows that the task writes, and the queue with them.
LEMMA SetCurrentRows ==
  ASSUME IndexInv, CurrentInv, NEW c \in Commands, SetCurrent(c)
  PROVE  /\ \A o \in Opportunity \ Redetermined(c) : row'[o] = row[o] /\ (o \in queue' <=> o \in queue)
         /\ \A o \in Opportunity \cap Redetermined(c) :
              /\ row'[o].draft = row[o].draft /\ row'[o].current = Target(c, o)
              /\ o \in queue' <=> o \in NewQueue(o, row[o].current, Target(c, o))
         /\ queue' \subseteq Opportunity
<1> DEFINE seen == cmd[c].seen
           Written(o) == [row[o] EXCEPT !.current = NewCurrent(@, seen[o].current, Target(c, o))]
<1>1. /\ cmd[c].at = "determined"
      /\ row' = [o \in Opportunity |-> IF o \in Redetermined(c) THEN Touched(Written(o)) ELSE row[o]]
      /\ queue' = { o \in Opportunity :
                     o \in IF o \in Redetermined(c) THEN NewQueue(o, seen[o].current, Target(c, o)) ELSE queue }
  BY DEF SetCurrent
<1>2. ASSUME NEW o \in Opportunity \cap Redetermined(c)
      PROVE  /\ row'[o].draft = row[o].draft /\ row'[o].current = Target(c, o)
             /\ o \in queue' <=> o \in NewQueue(o, row[o].current, Target(c, o))
  <2>1. seen[o].current = row[o].current
    BY <1>1, RedeterminedKnown
  <2>2. NewCurrent(row[o].current, seen[o].current, Target(c, o)) = Target(c, o)
    BY <2>1 DEF NewCurrent
  <2>3. row[o] \in Row
    BY DEF IndexInv, Types, TypeOK
  <2>4. Touched(Written(o)).draft = row[o].draft /\ Touched(Written(o)).current = Target(c, o)
    BY <2>2, <2>3 DEF Touched, Row
  <2>5. row'[o] = Touched(Written(o))
    BY <1>1
  <2>6. o \in queue' <=> o \in NewQueue(o, seen[o].current, Target(c, o))
    BY <1>1
  <2> QED BY <2>1, <2>4, <2>5, <2>6
<1> QED BY <1>1, <1>2

LEMMA SetCurrentCurrent ==
  ASSUME IndexInv, CurrentInv, NEW c \in Commands, SetCurrent(c),
         CommandShape', \A d \in Commands : cmd'[d].at # "determined"
  PROVE  CurrentInv'
<1> USE DEF CurrentInv
<1> DEFINE S == Redetermined(c)
<1>1. cmd[c].at = "determined" /\ UNCHANGED <<pub, requests, staged>>
  BY DEF SetCurrent
<1>2. /\ \A o \in Opportunity \ S : row'[o] = row[o] /\ (o \in queue' <=> o \in queue)
      /\ \A o \in Opportunity \cap S :
           /\ row'[o].draft = row[o].draft /\ row'[o].current = Target(c, o)
           /\ o \in queue' <=> o \in NewQueue(o, row[o].current, Target(c, o))
      /\ queue' \subseteq Opportunity
  BY SetCurrentRows
<1>3. \A o \in Opportunity \cap S :
        /\ One(Target(c, o)) /\ Target(c, o) # row[o].current
        /\ o \notin Legacy => ~row[o].draft
  BY <1>1, RedeterminedKnown
<1> HIDE DEF S
<1>4. \A o \in Opportunity : row'[o].draft = row[o].draft
  BY <1>2
<1>5. RequestsKnown'
  <2>1. \A p \in Publishers : pub[p].at # "idle" => pub[p].opp \in Opportunity
    BY DEF IndexInv, Types, Publishing, NoPublish
  <2> QED BY <1>1, <1>4, <2>1 DEF RequestsKnown
<1>6. DraftsHidden' /\ CurrentOne'
  BY <1>2, <1>3, <1>4 DEF DraftsHidden, CurrentOne
<1>7. QueueHidden'
  <2> SUFFICES ASSUME NEW o \in Opportunity, o \in queue'
               PROVE  row'[o].current = {}
    BY <1>2 DEF QueueHidden
  <2>1. CASE o \notin S
    BY <1>2, <2>1 DEF QueueHidden
  <2>2. CASE o \in S
    BY <1>2, <1>3, <2>2 DEF QueueHidden, NewQueue
  <2> QED BY <2>1, <2>2
<1>8. WrittenKnown'
  BY <1>1 DEF WrittenKnown
<1> QED BY <1>5, <1>6, <1>7, <1>8 DEF SeenKnown

\* The other steps of a run change flags, documents and versions.
LEMMA CommandCurrent ==
  ASSUME IndexInv, CurrentInv, "overrun" \notin lapses, NEW c \in Commands, Command(c) \/ CommandCrash(c)
  PROVE  CurrentInv'
<1>1. /\ \A d \in Commands \ {c} : cmd[d].at = "idle" /\ cmd'[d] = cmd[d]
      /\ CommandShape'
      /\ cmd'[c].at = "determined" => ReadAll(c)
  BY CommandMoves, OthersIdle DEF CurrentInv
<1>2. CASE ReadAll(c)
  BY <1>1, <1>2, ReadAllCurrent
<1>3. ASSUME ~ReadAll(c)
      PROVE  \A d \in Commands : cmd'[d].at # "determined"
  BY <1>1, <1>3
<1>4. CASE TransformOpportunities(c)
  <2>1. ~ReadAll(c)
    BY <1>4 DEF TransformOpportunities, ReadAll
  <2> QED BY <1>1, <1>3, <1>4, <2>1, TransformCurrent
<1>7. CASE TransformSummaries(c)
  <2>1. ~ReadAll(c)
    BY <1>7 DEF TransformSummaries, ReadAll
  <2> QED BY <1>1, <1>3, <1>7, <2>1, SummariesCurrent
<1>5. CASE SetCurrent(c)
  <2>1. ~ReadAll(c)
    BY <1>5 DEF SetCurrent, ReadAll
  <2> QED BY <1>1, <1>3, <1>5, <2>1, SetCurrentCurrent
<1>6. CASE ~(ReadAll(c) \/ TransformOpportunities(c) \/ TransformSummaries(c) \/ SetCurrent(c))
  <2>1. \A o \in Opportunity : row'[o].draft = row[o].draft /\ row'[o].current = row[o].current
    <3>1. row \in [Opportunity -> Row]
      BY DEF IndexInv, Types, TypeOK
    <3>2. CASE CommitLoad(c)
      BY <3>1, <3>2 DEF CommitLoad, Marked, Row
    <3>3. CASE StoreVersions(c)
      BY <3>1, <3>3 DEF StoreVersions, Row
    <3>4. CASE row' = row
      BY <3>4
    <3> QED BY <1>6, <3>2, <3>3, <3>4
            DEF Command, CommandCrash, StartCommand, TransformFails, SetCurrentFails, ReadDue, LoadRecords,
                LoadFails, ProcessDeleteQueue, ReadChanged, ExitCommand
  <2>2. queue' \subseteq queue /\ UNCHANGED <<requests, pub>>
    BY <1>6 DEF Command, CommandCrash, StartCommand, TransformFails, SetCurrentFails, ReadDue, LoadRecords,
                LoadFails, ProcessDeleteQueue, CommitLoad, ReadChanged, StoreVersions, ExitCommand
  <2> QED BY <1>1, <1>3, <1>6, <2>1, <2>2, SameCurrent
<1> QED BY <1>2, <1>4, <1>5, <1>6, <1>7

LEMMA RefreshCurrent ==
  ASSUME IndexInv, CurrentInv, Refresh \/ RefreshFails \/ RefreshCrash
  PROVE  CurrentInv'
<1>1. row \in [Opportunity -> Row]
  BY DEF IndexInv, Types, TypeOK
<1>2. row' = row \/ row' = Marked(row, refresh.marked)
  BY DEF Refresh, StartRefresh, FillIndex, SwapAlias, EndRefresh, RefreshFails, RefreshCrash
<1>3. \A o \in Opportunity : row'[o].draft = row[o].draft /\ row'[o].current = row[o].current
  BY <1>1, <1>2 DEF Marked, Row
<1>4. UNCHANGED <<queue, cmd, requests, pub, staged>>
  BY DEF Refresh, StartRefresh, FillIndex, SwapAlias, EndRefresh, RefreshFails, RefreshCrash
<1> QED BY <1>3, <1>4, SameCurrent DEF CurrentInv, CommandShape

LEMMA LegacyCurrent ==
  ASSUME IndexInv, CurrentInv, NEW o \in Opportunity, LegacyChange(o)
  PROVE  CurrentInv'
BY SameCurrent DEF LegacyChange, CurrentInv, CommandShape

LEMMA StepCurrent ==
  ASSUME IndexInv, CurrentInv, InTurn', [Next]_vars
  PROVE  CurrentInv'
<1>0. "overrun" \notin lapses /\ "two_requests" \notin lapses'
  BY LapsesStay DEF InTurn
<1>1. CASE Grantor
  BY <1>0, <1>1, GrantorCurrent
<1>2. ASSUME NEW p \in Publishers, Publish(p) \/ \E retried \in BOOLEAN : AbandonPublish(p, retried)
      PROVE  CurrentInv'
  BY <1>2, StartPublishCurrent, WritePublishedCurrent, CommitPublishCurrent, AbandonCurrent DEF Publish
<1>3. ASSUME NEW o \in Opportunity, LegacyChange(o)
      PROVE  CurrentInv'
  BY <1>3, LegacyCurrent
<1>4. ASSUME NEW c \in Commands, Command(c) \/ CommandCrash(c)
      PROVE  CurrentInv'
  BY <1>0, <1>4, CommandCurrent
<1>5. CASE LockExpires \/ DayPasses \/ UNCHANGED vars
  BY <1>5, SameCurrent DEF LockExpires, DayPasses, vars, CurrentInv, CommandShape
<1>6. CASE Refresh \/ RefreshFails \/ RefreshCrash
  BY <1>6, RefreshCurrent
<1> QED BY <1>1, <1>2, <1>3, <1>4, <1>5, <1>6 DEF Next

-----------------------------------------------------------------------------
(* The delete queue.                                                        *)

Forgets == \A o \in queue : o \notin queue' => live[o] = {} \/ row'[o].current # {}

\* Whoever has nothing to do with the queue or the index.
LEMMA QueueAlone ==
  ASSUME QueueInv, queue' \subseteq queue, UNCHANGED <<live, cmd>>, refresh' = refresh \/ NightApart'
  PROVE  QueueInv'
BY DEF QueueInv, NightApart, PurgeKnown

LEMMA PublishQueue ==
  ASSUME IndexInv, CurrentInv, QueueInv, NEW p \in Publishers,
         Publish(p) \/ \E retried \in BOOLEAN : AbandonPublish(p, retried)
  PROVE  QueueInv' /\ Forgets
<1>1. ASSUME \/ \E o \in Opportunity : StartPublish(p, o)
             \/ \E retried \in BOOLEAN : AbandonPublish(p, retried)
      PROVE  QueueInv' /\ Forgets
  BY <1>1, QueueAlone DEF StartPublish, AbandonPublish, Forgets
<1>2. ASSUME NEW written \in BOOLEAN, WritePublished(p, written)
      PROVE  QueueInv' /\ Forgets
  <2> DEFINE o == pub[p].opp
  <2>1. /\ pub[p].at = "loaded" /\ UNCHANGED <<queue, cmd, refresh>>
        /\ live' = live \/ \E view : live' = [live EXCEPT ![o] = {view}]
    BY <1>2 DEF WritePublished
  <2>2. o \in Opportunity /\ o \notin queue
    BY <2>1 DEF IndexInv, Types, Publishing, NoPublish, CurrentInv, RequestsKnown, DraftsHidden
  <2>3. queue \subseteq Opportunity
    BY DEF IndexInv, Types, TypeOK
  <2>4. live' = [x \in Opportunity |-> live'[x]] /\ \A x \in queue : live'[x] = live[x]
    BY <2>1, <2>2, <2>3 DEF QueueInv
  <2> QED BY <2>1, <2>4 DEF QueueInv, NightApart, PurgeKnown, Forgets
<1>3. CASE CommitPublish(p)
  <2>1. UNCHANGED <<live, cmd, refresh>> /\ queue' \subseteq queue /\ pub[p].opp \notin queue
    BY <1>3, CommitPublishCurrent DEF CommitPublish
  <2>2. Forgets
    BY <1>3, <2>1 DEF Forgets, CommitPublish, NewQueue
  <2> QED BY <2>1, <2>2, QueueAlone
<1> QED BY <1>1, <1>2, <1>3 DEF Publish

\* A run has the index and the queue to itself, but for what is published.
LEMMA CommandQueue ==
  ASSUME IndexInv, CurrentInv, QueueInv, "overrun" \notin lapses, lapses' = {},
         NEW c \in Commands, Command(c) \/ CommandCrash(c)
  PROVE  QueueInv' /\ Forgets
<1>1. /\ \A d \in Commands \ {c} : cmd[d].at = "idle" /\ cmd'[d] = cmd[d]
      /\ cmd'[c].at = "purged" => \E confirmed \in BOOLEAN : ProcessDeleteQueue(c, confirmed)
  BY CommandMoves, OthersIdle DEF CurrentInv
<1>2. cmd = [d \in Commands |-> cmd[d]] /\ DOMAIN cmd[c] = DOMAIN Idle /\ queue \subseteq Opportunity
  BY DEF IndexInv, Types, TypeOK, CurrentInv, CommandShape
<1>3. NightApart'
  <2>1. refresh' = refresh
    BY DEF Command, CommandCrash, StartCommand, TransformOpportunities, TransformFails, TransformSummaries,
           ReadAll, SetCurrent, SetCurrentFails, ReadDue, LoadRecords, LoadFails, ProcessDeleteQueue, CommitLoad,
           ReadChanged, StoreVersions, ExitCommand
  <2>2. cmd[c].at # "idle" \/ refresh.at = "idle"
    <3>1. CASE StartCommand(c)
      BY <3>1 DEF StartCommand, Lapse
    <3>2. CASE ~StartCommand(c)
      BY <3>2 DEF Command, CommandCrash, TransformOpportunities, TransformFails, TransformSummaries, ReadAll,
                  SetCurrent, SetCurrentFails, ReadDue, LoadRecords, LoadFails, ProcessDeleteQueue, CommitLoad,
                  ReadChanged, StoreVersions, ExitCommand
    <3> QED BY <3>1, <3>2
  <2> QED BY <2>1, <2>2 DEF QueueInv, NightApart
<1>4. live' = [o \in Opportunity |-> live'[o]]
  <2>1. CASE LoadRecords(c)
    BY <2>1 DEF LoadRecords, Upsert
  <2>2. ASSUME NEW confirmed \in BOOLEAN, ProcessDeleteQueue(c, confirmed)
        PROVE  live' = [o \in Opportunity |-> live'[o]]
    BY <2>2 DEF ProcessDeleteQueue, QueueInv
  <2>3. CASE live' = live
    BY <2>3 DEF QueueInv
  <2> QED BY <2>1, <2>2, <2>3
          DEF Command, CommandCrash, StartCommand, TransformOpportunities, TransformFails, TransformSummaries,
              ReadAll, SetCurrent, SetCurrentFails, ReadDue, LoadFails, CommitLoad, ReadChanged, StoreVersions, ExitCommand
<1>5. PurgeKnown'
  <2> SUFFICES ASSUME NEW confirmed \in BOOLEAN, ProcessDeleteQueue(c, confirmed)
               PROVE  \A o \in cmd'[c].purge : o \in queue' => live'[o] = {}
    BY <1>1 DEF PurgeKnown
  <2>1. cmd'[c].purge = Cleared(confirmed) /\ queue' = queue
    BY <1>2 DEF ProcessDeleteQueue, Idle
  <2>2. confirmed => \A o \in queue : live'[o] = {}
    BY <1>2 DEF ProcessDeleteQueue
  <2> QED BY <2>1, <2>2 DEF Cleared
<1>6. Forgets
  <2>1. CASE TransformOpportunities(c)
    BY <2>1 DEF TransformOpportunities, Forgets
  <2>2. CASE SetCurrent(c)
    BY <1>2, <2>2, SetCurrentRows DEF Forgets, NewQueue
  <2>3. CASE CommitLoad(c)
    BY <2>3 DEF CommitLoad, Forgets, QueueInv, PurgeKnown
  <2>4. CASE queue' = queue
    BY <2>4 DEF Forgets
  <2> QED BY <2>1, <2>2, <2>3, <2>4
          DEF Command, CommandCrash, StartCommand, TransformFails, TransformSummaries, ReadAll,
              SetCurrentFails, ReadDue, LoadRecords,
              LoadFails, ProcessDeleteQueue, ReadChanged, StoreVersions, ExitCommand
<1> QED BY <1>3, <1>4, <1>5, <1>6 DEF QueueInv

LEMMA RefreshQueue ==
  ASSUME QueueInv, lapses' = {}, Refresh \/ RefreshFails \/ RefreshCrash
  PROVE  QueueInv' /\ Forgets
<1>1. UNCHANGED <<queue, cmd>>
  BY DEF Refresh, StartRefresh, FillIndex, SwapAlias, EndRefresh, RefreshFails, RefreshCrash
<1>2. NightApart'
  BY <1>1 DEF QueueInv, NightApart, NoRefresh, Lapse, Refresh, StartRefresh, FillIndex, SwapAlias, EndRefresh,
              RefreshFails, RefreshCrash
<1>3. CASE SwapAlias
  <2>1. \A c \in Commands : cmd[c].at = "idle"
    BY <1>3 DEF SwapAlias, QueueInv, NightApart
  <2>2. live' = [o \in Opportunity |-> live'[o]]
    BY <1>3 DEF SwapAlias, Upsert
  <2> QED BY <1>1, <1>2, <2>1, <2>2 DEF QueueInv, PurgeKnown, Forgets
<1>4. CASE live' = live
  BY <1>1, <1>2, <1>4, QueueAlone DEF Forgets
<1> QED BY <1>3, <1>4 DEF Refresh, StartRefresh, FillIndex, EndRefresh, RefreshFails, RefreshCrash

LEMMA StepQueue ==
  ASSUME IndexInv, CurrentInv, QueueInv, lapses' = {}, [Next]_vars
  PROVE  QueueInv' /\ Forgets
<1>1. CASE Grantor \/ LockExpires \/ DayPasses \/ UNCHANGED vars \/ \E o \in Opportunity : LegacyChange(o)
  <2>1. UNCHANGED <<queue, live, cmd, refresh>>
    BY <1>1 DEF Grantor, UpdateOpportunity, PublishOpportunity, SaveSummary, Edit, LockExpires, DayPasses, vars,
                LegacyChange
  <2> QED BY <2>1, QueueAlone DEF Forgets
<1>2. CASE \E p \in Publishers : Publish(p) \/ \E retried \in BOOLEAN : AbandonPublish(p, retried)
  BY <1>2, PublishQueue
<1>3. CASE \E c \in Commands : Command(c) \/ CommandCrash(c)
  <2>1. "overrun" \notin lapses
    BY LapsesStay
  <2> QED BY <1>3, <2>1, CommandQueue
<1>4. CASE Refresh \/ RefreshFails \/ RefreshCrash
  BY <1>4, RefreshQueue
<1> QED BY <1>1, <1>2, <1>3, <1>4 DEF Next

-----------------------------------------------------------------------------

LEMMA CurrentCorrect == Spec => [](InTurn => CurrentInv)
<1>1. Init => CurrentInv
  BY InitCurrentInv
<1>2. IndexInv /\ (InTurn => CurrentInv) /\ [Next]_vars => (InTurn => CurrentInv)'
  <2>1. [Next]_vars /\ InTurn' => InTurn
    BY LapsesStay DEF InTurn
  <2> QED BY <2>1, StepCurrent
<1> QED BY <1>1, <1>2, IndexCorrect, PTL DEF Spec

\* The publish workflow and SetCurrentOpportunitiesTask, in any overlap of any
\* number of opportunities, leave each with at most one current summary, until
\* one has two publish requests at once or a run outlives its lock.
THEOREM OneCurrentSummary == Spec => []OneCurrent
<1>1. (InTurn => CurrentInv) => OneCurrent
  <2> SUFFICES ASSUME CurrentInv, NEW o \in Opportunity
               PROVE  Cardinality(row[o].current) <= 1
    BY DEF OneCurrent
  <2>1. CASE row[o].current = {}
    BY <2>1, FS_EmptySet
  <2>2. ASSUME NEW c \in row[o].current
        PROVE  Cardinality(row[o].current) <= 1
    <3>1. row[o].current = {c}
      BY <2>2 DEF CurrentInv, CurrentOne, One
    <3>2. Cardinality({c}) = 1
      BY FS_Singleton
    <3> QED BY <3>1, <3>2
  <2> QED BY <2>1, <2>2
<1> QED BY <1>1, CurrentCorrect, PTL

\* What is queued for removal from the index is not shown, until then.
THEOREM QueuedNotShown == Spec => []QueuedHasNoCurrent
<1>1. (InTurn => CurrentInv) => QueuedHasNoCurrent
  BY DEF QueuedHasNoCurrent, CurrentInv, QueueHidden
<1> QED BY <1>1, CurrentCorrect, PTL

\* Up to the first lapse, a command beside the full refresh among them, an entry
\* leaves the queue only when its document is gone from the index or the
\* opportunity is shown again.
THEOREM QueueForgetsInTime == Spec => QueueForgets
<1> DEFINE Inv == lapses = {} => QueueInv
           Forgetting == lapses' = {} => Forgets
<1>1. Init => Inv
  BY InitCurrentInv
<1>2. IndexInv /\ (InTurn => CurrentInv) /\ Inv /\ [Next]_vars => Inv' /\ Forgetting
  <2> SUFFICES ASSUME IndexInv, InTurn => CurrentInv, Inv, [Next]_vars, lapses' = {}
               PROVE  QueueInv' /\ Forgets
    OBVIOUS
  <2>1. lapses = {}
    BY LapsesStay
  <2>2. CurrentInv /\ QueueInv
    BY <2>1 DEF InTurn
  <2> QED BY <2>2, StepQueue
<1>3. Spec => [][Forgetting]_vars
  <2> HIDE DEF Inv, Forgetting
  <2> QED BY <1>1, <1>2, IndexCorrect, CurrentCorrect, PTL DEF Spec
<1> QED BY <1>3 DEF QueueForgets, Forgets
================================================================================
