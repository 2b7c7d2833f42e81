-------------------------- MODULE NotificationsProofs --------------------------
(***************************************************************************)
(* Safety of Notifications, for any users, texts, close dates and failures: *)
(* nothing is told twice, no mark moves without its mail, and no new       *)
(* opportunity is passed over.                                             *)
(***************************************************************************)
EXTENDS Notifications, FiniteSetTheorems, WellFoundedInduction, TLAPS

\* What is sent to each user of a set.
About == UNION { [S -> SUBSET Time] : S \in SUBSET User }

Job ==
  {Idle}
    \cup [at : {"start", "closing", "organization"}]
    \cup [at : {"change"}, todo : SUBSET User, about : About, sent : SUBSET User,
          silent : SUBSET User, fresh : SUBSET User, read : Nat]
    \cup [at : {"reminder", "org"}, todo : SUBSET User, about : About, sent : SUBSET User]
    \cup [at : {"mark"}, rows : SUBSET Time]

Queueing ==
  {Idle}
    \cup [at : {"read"}, created : Time]
    \cup [at : {"queue", "finish"}, created : Time, new : SUBSET Time, to : SUBSET User, passed : SUBSET Time]

\* A table of at most one row.
OneOf(S) == {{}} \cup { {s} : s \in S }

Types ==
  /\ now \in 0..MaxTime /\ lastDone \in 0..now /\ shown \in Text
  /\ version \subseteq Version /\ storing \in OneOf(Version)
  /\ saved \in [User -> OneOf(SavedRow)]
  /\ disabled \subseteq User /\ remindFrom \in CloseDays \cup {0}
  /\ reminded \in [User -> SUBSET Time]
  /\ orgSave \in OneOf(OrgRow)
  /\ mails \subseteq Mail /\ missed \subseteq Time
  /\ faults \in 0..MaxFaults
  /\ job \in Job /\ queueJob \in Queueing

\* No timestamp lies ahead, and versions commit in the order of theirs.
Clock ==
  /\ \A v \in version \cup storing : v.created <= now
  /\ \A v \in version, s \in storing : v.created < s.created
  /\ \A u \in User : \A s \in saved[u] : s.notified <= now
  /\ \A s \in orgSave : s.at <= now
  /\ \A k \in mails : \A t \in k.about : t <= now
  /\ queueJob # Idle => lastDone < queueJob.created /\ queueJob.created <= now

Sending == job.at \in {"change", "reminder", "org"}

\* What a run of the daily job knows stays true while requests overtake it.
JobInv ==
  /\ Sending =>
       /\ job.todo \cup job.sent \subseteq DOMAIN job.about
       /\ \A u \in DOMAIN job.about : \A t \in job.about[u] : t <= now
       /\ \A u \in job.todo : IsNews(job.at, u, job.about[u])
  /\ job.at = "change" =>
       /\ job.read <= now
       /\ \A u \in DOMAIN job.about : job.read \in job.about[u] /\ job.about[u] \subseteq Created
       /\ \A u \in job.sent : \E k \in mails : k.kind = "change" /\ u \in k.to /\ k.about = job.about[u]
       /\ \A u \in DOMAIN job.about \cup job.fresh : saved[u] # {}
       /\ \A u \in job.fresh : Notified(u) < job.read
       /\ \A s \in storing : job.read < s.created
       /\ \A u \in DOMAIN job.about, t \in Created :
            Notified(u) <= t /\ t <= job.read => t \in job.about[u]
  /\ job.at = "org" =>
       \A u \in DOMAIN job.about : \A s \in orgSave : s.at \in job.about[u] => s.processed
  /\ job.at = "mark" => \A t \in job.rows : t <= now

\* What went out is remembered, or its run is still under way.
Remembered(k, u) ==
  /\ k.kind = "change" =>
       \/ job.at = "change" /\ u \in job.sent /\ k.about = job.about[u]
       \/ saved[u] # {} /\ \A t \in k.about : t \in Created /\ t < Notified(u)
  /\ k.kind = "reminder" =>
       \/ job.at = "reminder" /\ u \in job.sent /\ k.about = job.about[u]
       \/ \E t \in reminded[u] : \A x \in k.about : x <= t
  /\ k.kind = "new" =>
       \/ queueJob.at = "finish" /\ k.about = queueJob.new
       \/ \A x \in k.about : x < lastDone

MailInv ==
  /\ \A k \in mails : ~k.lost => \A u \in k.to : Remembered(k, u)
  /\ \A k \in mails : k.kind = "org" =>
       /\ \A s \in orgSave : s.at \in k.about => s.processed
       /\ job.at = "mark" => k.about \cap job.rows = {}

\* The new opportunity was queued before the run that finishes saw it as passed.
QueueInv ==
  /\ queueJob.at \in {"queue", "finish"} => \A t \in queueJob.new : t < queueJob.created
  /\ queueJob.at = "queue" =>
       /\ \A u \in User : IsNews("new", u, queueJob.new)
       /\ Seen # {} /\ queueJob.new = {Earliest(Seen)}
  /\ queueJob.at = "finish" /\ Seen # {} =>
       LET first == Earliest(Seen)
       IN first < queueJob.created /\ first \notin missed \cup queueJob.passed
            => \E m \in mails : m.kind = "new" /\ first \in m.about
  /\ \A s \in storing :
       \/ s.created \in missed
       \/ /\ lastDone <= s.created
          /\ queueJob.at \in {"queue", "finish"} =>
               s.created \in queueJob.passed \/ queueJob.created <= s.created

MailingInv == Types /\ Clock /\ JobInv /\ MailInv /\ QueueInv /\ NewNotMissed

-----------------------------------------------------------------------------
(* First and last times, and the one row of a user.                        *)

LEMMA Least ==
  ASSUME NEW S, S \subseteq Nat, S # {}
  PROVE  \E m \in S : \A n \in S : m <= n
<1>1. PICK x \in S : \A y \in S : ~ (<<y, x>> \in OpToRel(<, Nat))
  BY NatLessThanWellFounded, WFMin
<1>2. \A y \in S : ~(y < x)
  BY <1>1 DEF OpToRel
<1> QED BY <1>2

LEMMA Greatest ==
  ASSUME NEW k \in Nat, NEW S, S \subseteq 0..k, S # {}
  PROVE  \E m \in S : \A n \in S : n <= m
<1> DEFINE T == { k - n : n \in S }
<1>1. T # {}
  OBVIOUS
<1>2. T \subseteq Nat
  <2>1. \A n \in S : n \in 0..k
    OBVIOUS
  <2>2. \A n \in 0..k : k - n \in Nat
    OBVIOUS
  <2> QED BY <2>1, <2>2
<1>3. PICK m \in T : \A n \in T : m <= n
  <2> HIDE DEF T
  <2> QED BY <1>1, <1>2, Least
<1>4. PICK x \in S : m = k - x
  BY <1>3
<1>5. ASSUME NEW n \in S PROVE n <= x
  <2>1. k - x <= k - n
    BY <1>3, <1>4
  <2>2. n \in 0..k /\ x \in 0..k
    OBVIOUS
  <2> QED BY <2>1, <2>2
<1> QED BY <1>5

LEMMA EarliestIs ==
  ASSUME NEW S, S \subseteq Nat, S # {}
  PROVE  Earliest(S) \in S /\ \A t \in S : Earliest(S) <= t
<1>1. \E m \in S : \A n \in S : m <= n
  BY Least
<1> QED BY <1>1 DEF Earliest

LEMMA LatestIs ==
  ASSUME NEW k \in Nat, NEW S, S \subseteq 0..k, S # {}
  PROVE  Latest(S) \in S /\ \A t \in S : t <= Latest(S)
<1>1. \E m \in S : \A n \in S : n <= m
  BY Greatest
<1> QED BY <1>1 DEF Latest

\* The times of the versions.
LEMMA CreatedTimes ==
  ASSUME MailingInv
  PROVE  /\ now \in Nat /\ Created \subseteq Nat /\ Created \subseteq 0..now
         /\ Created # {} <=> version # {}
         /\ 0 \notin Created
         /\ Seen \subseteq Created
BY BoundsAssumption DEF MailingInv, Types, Clock, Created, Seen, Version, Time

LEMMA SeenSame ==
  ASSUME UNCHANGED version
  PROVE  Created' = Created /\ Seen' = Seen /\ Earliest(Seen)' = Earliest(Seen)
BY DEF Created, Seen, Earliest

LEMMA RowOf ==
  ASSUME saved \in [User -> OneOf(SavedRow)], NEW u \in User, saved[u] # {}
  PROVE  \E s \in SavedRow : saved[u] = {s} /\ Notified(u) = s.notified
BY DEF OneOf, Notified

LEMMA SingleRow ==
  ASSUME NEW S, NEW s \in S
  PROVE  {s} \in OneOf(S)
BY DEF OneOf

LEMMA InitInv == Init => MailingInv
<1> SUFFICES ASSUME Init PROVE MailingInv
  OBVIOUS
<1> USE BoundsAssumption DEF Init
<1>1. Types
  BY DEF Types, OneOf, Job, Queueing
<1>2. Clock /\ JobInv /\ MailInv /\ QueueInv /\ NewNotMissed
  BY DEF Clock, JobInv, MailInv, QueueInv, NewNotMissed, Seen, Sending, Idle
<1> QED BY <1>1, <1>2 DEF MailingInv

\* Clock readings only grow: what lay behind now lies behind any later time.
LEMMA TimeGrows ==
  ASSUME MailingInv, NEW n \in Nat, now <= n
  PROVE  /\ \A v \in version \cup storing : v.created <= n
         /\ \A u \in User : \A s \in saved[u] : s.notified <= n
         /\ \A s \in orgSave : s.at <= n
         /\ \A k \in mails : \A t \in k.about : t <= n
         /\ queueJob # Idle => queueJob.created <= n
         /\ Sending => \A u \in DOMAIN job.about : \A t \in job.about[u] : t <= n
         /\ job.at = "change" => job.read <= n
         /\ job.at = "mark" => \A t \in job.rows : t <= n
<1>0. now \in Nat
  BY BoundsAssumption DEF MailingInv, Types
<1>1. \A v \in version \cup storing : v.created \in Nat /\ v.created <= now
  BY DEF MailingInv, Types, Clock, OneOf, Version, Time
<1>2. \A u \in User : \A s \in saved[u] : s.notified \in Nat /\ s.notified <= now
  BY DEF MailingInv, Types, Clock, OneOf, SavedRow, Time
<1>3. \A s \in orgSave : s.at \in Nat /\ s.at <= now
  BY DEF MailingInv, Types, Clock, OneOf, OrgRow, Time
<1>4. \A k \in mails : \A t \in k.about : t \in Nat /\ t <= now
  BY DEF MailingInv, Types, Clock, Mail, Time
<1>5. queueJob # Idle => queueJob.created \in Nat /\ queueJob.created <= now
  BY DEF MailingInv, Types, Clock, Queueing, Time
<1>6. Sending => \A u \in DOMAIN job.about : \A t \in job.about[u] : t \in Nat /\ t <= now
  <2>1. Sending => job.about \in About
    BY DEF MailingInv, Types, Job, Sending, Idle
  <2>2. Sending => \A u \in DOMAIN job.about : \A t \in job.about[u] : t \in Nat
    BY <2>1 DEF About, Time
  <2> QED BY <2>2 DEF MailingInv, JobInv
<1>7. job.at = "change" => job.read \in Nat /\ job.read <= now
  BY DEF MailingInv, Types, Job, Idle, JobInv
<1>8. job.at = "mark" => \A t \in job.rows : t \in Nat /\ t <= now
  BY DEF MailingInv, Types, Job, Idle, JobInv, Time
<1> QED BY <1>0, <1>1, <1>2, <1>3, <1>4, <1>5, <1>6, <1>7, <1>8

-----------------------------------------------------------------------------
(* Requests.                                                               *)

\* A request may add a row with a new timestamp, and change the rest of a row; it
\* takes no mark away.
LEMMA RequestInv ==
  ASSUME MailingInv,
         UNCHANGED <<version, reminded, job, queueJob, lastDone, mails, missed, faults>>,
         now' \in now..MaxTime,
         storing' \in OneOf(Version),
         \A s \in storing' : s \in storing \/ (now < now' /\ s.created = now'),
         saved' \in [User -> OneOf(SavedRow)],
         \A u \in User : saved[u] # {} => saved'[u] # {} /\ Notified(u)' = Notified(u),
         \A u \in User : \A s \in saved'[u] : s.notified <= now',
         orgSave' \in OneOf(OrgRow),
         \A s \in orgSave' : s \in orgSave \/ (now < now' /\ s.at = now'),
         shown' \in Text, disabled' \subseteq User, remindFrom' \in CloseDays \cup {0}
  PROVE  MailingInv'
<1>0. now \in Nat /\ now' \in Nat /\ now <= now' /\ lastDone \in Nat /\ lastDone <= now
  BY BoundsAssumption DEF MailingInv, Types
<1>1. Types'
  BY <1>0, BoundsAssumption DEF MailingInv, Types
<1>t. /\ \A v \in version \cup storing : v.created <= now'
      /\ \A s \in orgSave : s.at <= now'
      /\ \A k \in mails : \A t \in k.about : t <= now'
      /\ queueJob # Idle => queueJob.created <= now'
      /\ Sending => \A u \in DOMAIN job.about : \A t \in job.about[u] : t <= now'
      /\ job.at = "change" => job.read <= now'
      /\ job.at = "mark" => \A t \in job.rows : t <= now'
  BY <1>0, TimeGrows
<1>n. /\ \A v \in version : v.created <= now /\ v.created \in Nat
      /\ queueJob # Idle => queueJob.created <= now /\ queueJob.created \in Nat
  BY DEF MailingInv, Types, Clock, Version, Time, Queueing
<1>2. Clock'
  <2>1. \A v \in version \cup storing' : v.created <= now'
    BY <1>0, <1>t
  <2>2. \A s \in orgSave' : s.at <= now'
    BY <1>0, <1>t
  <2>3. \A v \in version, s \in storing' : v.created < s.created
    BY <1>0, <1>n DEF MailingInv, Clock
  <2> QED BY <1>t, <2>1, <2>2, <2>3 DEF MailingInv, Clock
<1>3. JobInv'
  <2>1. job.at = "org" => \A u \in DOMAIN job.about : \A s \in orgSave' : s.at \in job.about[u] => s.processed
    <3>1. job.at = "org" => \A u \in DOMAIN job.about : \A t \in job.about[u] : t \in Nat /\ t <= now
      <4>1. job.at = "org" => job.about \in About
        BY DEF MailingInv, Types, Job, Idle
      <4>2. job.at = "org" => \A u \in DOMAIN job.about : \A t \in job.about[u] : t \in Nat
        BY <4>1 DEF About, Time
      <4> QED BY <4>2 DEF MailingInv, JobInv, Sending
    <3> QED BY <1>0, <3>1 DEF MailingInv, JobInv
  <2>2. job.at = "change" =>
          /\ \A u \in DOMAIN job.about \cup job.fresh : saved'[u] # {}
          /\ \A u \in job.fresh : Notified(u)' < job.read
    <3>1. job.at = "change" => DOMAIN job.about \subseteq User /\ job.fresh \subseteq User
      <4>1. job.at = "change" => job.about \in About /\ job.fresh \subseteq User
        BY DEF MailingInv, Types, Job, Idle
      <4> QED BY <4>1 DEF About
    <3> QED BY <3>1 DEF MailingInv, JobInv
  <2>3. Created' = Created /\ (Sending' <=> Sending)
        /\ \A kind, u, about : IsNews(kind, u, about)' <=> IsNews(kind, u, about)
    BY DEF Created, Sending, IsNews
  <2>4. job.at = "change" =>
          /\ \A s \in storing' : job.read < s.created
          /\ \A u \in DOMAIN job.about, t \in Created :
               Notified(u)' <= t /\ t <= job.read => t \in job.about[u]
    <3>1. job.at = "change" => DOMAIN job.about \subseteq User /\ job.read \in Nat /\ job.read <= now
      <4>1. job.at = "change" => job.about \in About /\ job.read \in Nat
        BY DEF MailingInv, Types, Job, Idle
      <4> QED BY <4>1 DEF About, MailingInv, JobInv
    <3>2. job.at = "change" => \A u \in DOMAIN job.about : Notified(u)' = Notified(u)
      BY <3>1 DEF MailingInv, JobInv
    <3>3. job.at = "change" => \A s \in storing' : job.read < s.created
      BY <1>0, <3>1 DEF MailingInv, JobInv
    <3> QED BY <3>2, <3>3 DEF MailingInv, JobInv
  <2> QED BY <1>t, <2>1, <2>2, <2>3, <2>4 DEF MailingInv, JobInv
<1>4. MailInv'
  <2>1. ASSUME NEW k \in mails, NEW u \in k.to, Remembered(k, u) PROVE Remembered(k, u)'
    <3>1. u \in User
      BY DEF MailingInv, Types, Mail
    <3>2. Created' = Created
      BY DEF Created
    <3> QED BY <2>1, <3>1, <3>2 DEF Remembered
  <2>2. ASSUME NEW k \in mails, NEW s \in orgSave', k.kind = "org", s.at \in k.about PROVE s.processed
    <3>1. \A t \in k.about : t \in Nat /\ t <= now
      BY DEF MailingInv, Types, Clock, Mail, Time
    <3>2. s \in orgSave
      BY <1>0, <2>2, <3>1
    <3> QED BY <2>2, <3>2 DEF MailingInv, MailInv
  <2> QED BY <2>1, <2>2 DEF MailingInv, MailInv
<1>5. NewNotMissed'
  BY SeenSame DEF MailingInv, NewNotMissed
<1>6. QueueInv'
  <2>1. \A s \in storing' :
          \/ s.created \in missed
          \/ /\ lastDone <= s.created
             /\ queueJob.at \in {"queue", "finish"} =>
                  s.created \in queueJob.passed \/ queueJob.created <= s.created
    <3>1. queueJob.at \in {"queue", "finish"} => queueJob # Idle
      BY DEF Idle
    <3>2. \A s \in storing' : now < now' /\ s.created = now' =>
            /\ lastDone <= s.created
            /\ queueJob.at \in {"queue", "finish"} => queueJob.created <= s.created
      BY <1>0, <1>n, <3>1
    <3>3. \A s \in storing' : s \in storing =>
            \/ s.created \in missed
            \/ /\ lastDone <= s.created
               /\ queueJob.at \in {"queue", "finish"} =>
                    s.created \in queueJob.passed \/ queueJob.created <= s.created
      BY DEF MailingInv, QueueInv
    <3> QED BY <3>2, <3>3
  <2>2. \A u, about : IsNews("new", u, about)' <=> IsNews("new", u, about)
    BY DEF IsNews
  <2> QED BY <2>1, <2>2, SeenSame DEF MailingInv, QueueInv
<1> QED BY <1>1, <1>2, <1>3, <1>4, <1>5, <1>6 DEF MailingInv

\* What a request finds.
LEMMA Found ==
  ASSUME MailingInv
  PROVE  /\ now \in Nat /\ now \in now..MaxTime /\ MaxRequest \in Nat /\ MaxRequest <= MaxTime /\ MaxTime \in Nat
         /\ storing \in OneOf(Version)
         /\ saved \in [User -> OneOf(SavedRow)]
         /\ \A u \in User : \A s \in saved[u] : s.notified <= now
         /\ orgSave \in OneOf(OrgRow)
         /\ shown \in Text /\ disabled \subseteq User /\ remindFrom \in CloseDays \cup {0}
BY BoundsAssumption DEF MailingInv, Types, Clock

LEMMA StoreVersionInv ==
  ASSUME MailingInv, StoreVersion PROVE MailingInv'
<1>1. now' = now + 1 /\ now' \in now..MaxTime /\ now < now' /\ now' \in Time
  BY Found DEF StoreVersion, Stamp, Time
<1>2. [created |-> now + 1, text |-> shown] \in Version
  BY <1>1, Found DEF Version
<1>3. storing' \in OneOf(Version) /\ \A s \in storing' : now < now' /\ s.created = now'
  BY <1>1, <1>2 DEF StoreVersion, OneOf
<1>4. \A u \in User : saved'[u] = saved[u] /\ Notified(u)' = Notified(u)
  BY DEF StoreVersion, Notified
<1>5. \A u \in User : \A s \in saved'[u] : s.notified <= now'
  <2>1. now' \in Nat
    BY <1>1, Found
  <2> QED BY <1>1, <1>4, <2>1, TimeGrows
<1> QED BY <1>1, <1>3, <1>4, <1>5, Found, RequestInv DEF StoreVersion

LEMMA SaveInv ==
  ASSUME MailingInv, NEW u \in User, Save(u) PROVE MailingInv'
<1>0. now' \in Nat /\ now <= now' /\ now' <= MaxTime
  BY Found DEF Save, Stamp
<1>1. ASSUME NEW v \in User
      PROVE  /\ saved'[v] \in OneOf(SavedRow)
             /\ saved[v] # {} => saved'[v] # {} /\ Notified(v)' = Notified(v)
             /\ \A s \in saved'[v] : s.notified <= now'
  <2>1. CASE v # u
    <3>1. saved'[v] = saved[v]
      BY <2>1, Found DEF Save
    <3> QED BY <1>0, <3>1, Found, TimeGrows DEF Notified
  <2>2. CASE v = u /\ saved[u] = {}
    <3>1. now' = now + 1 /\ saved'[v] = {[active |-> TRUE, notified |-> now + 1]}
      BY <2>2, Found DEF Save, Stamp
    <3>2. [active |-> TRUE, notified |-> now + 1] \in SavedRow
      BY <1>0, <3>1, Found DEF SavedRow, Time
    <3>3. saved'[v] \in OneOf(SavedRow)
      BY <3>1, <3>2, SingleRow
    <3>4. \A s \in saved'[v] : s.notified <= now'
      BY <1>0, <3>1
    <3> QED BY <2>2, <3>3, <3>4
  <2>3. CASE v = u /\ saved[u] # {}
    <3>1. PICK s \in SavedRow : saved[u] = {s}
      BY <2>3, Found, RowOf
    <3>2. saved'[v] = { [r EXCEPT !.active = TRUE] : r \in saved[u] } /\ now' = now
      BY <2>3, Found DEF Save
    <3>3. saved'[v] = {[s EXCEPT !.active = TRUE]}
      BY <3>1, <3>2
    <3>4. [s EXCEPT !.active = TRUE] \in SavedRow /\ [s EXCEPT !.active = TRUE].notified = s.notified
      BY DEF SavedRow
    <3> QED BY <2>3, <3>1, <3>2, <3>3, <3>4, Found DEF OneOf, Notified
  <2> QED BY <2>1, <2>2, <2>3
<1>2. saved' \in [User -> OneOf(SavedRow)]
  <2>1. \E f : saved' = [saved EXCEPT ![u] = f]
    BY DEF Save
  <2>2. saved' = [v \in User |-> saved'[v]]
    BY <2>1, Found
  <2> QED BY <1>1, <2>2
<1> QED BY <1>0, <1>1, <1>2, Found, RequestInv DEF Save

LEMMA UnsaveInv ==
  ASSUME MailingInv, NEW u \in User, Unsave(u) PROVE MailingInv'
<1>1. ASSUME NEW v \in User
      PROVE  /\ saved'[v] \in OneOf(SavedRow)
             /\ saved[v] # {} => saved'[v] # {} /\ Notified(v)' = Notified(v)
             /\ \A s \in saved'[v] : s.notified <= now
  <2>1. CASE v # u
    <3>1. saved'[v] = saved[v]
      BY <2>1, Found DEF Unsave
    <3> QED BY <3>1, Found DEF Notified
  <2>2. CASE v = u
    <3>1. PICK s \in SavedRow : saved[u] = {s}
      BY Found, RowOf DEF Unsave
    <3>2. saved'[v] = { [r EXCEPT !.active = FALSE] : r \in saved[u] }
      BY <2>2, Found DEF Unsave
    <3>3. saved'[v] = {[s EXCEPT !.active = FALSE]}
      BY <3>1, <3>2
    <3>4. [s EXCEPT !.active = FALSE] \in SavedRow /\ [s EXCEPT !.active = FALSE].notified = s.notified
      BY DEF SavedRow
    <3> QED BY <2>2, <3>1, <3>3, <3>4, Found DEF OneOf, Notified
  <2> QED BY <2>1, <2>2
<1>2. saved' \in [User -> OneOf(SavedRow)]
  <2>1. \E f : saved' = [saved EXCEPT ![u] = f]
    BY DEF Unsave
  <2>2. saved' = [v \in User |-> saved'[v]]
    BY <2>1, Found
  <2> QED BY <1>1, <2>2
<1> QED BY <1>1, <1>2, Found, RequestInv DEF Unsave

\* The requests on what is shown, preferences, dates and the organization's row.
LEMMA OtherRequestInv ==
  ASSUME MailingInv,
         \/ \E text \in Text : Change(text)
         \/ \E u \in User : SetPreference(u)
         \/ \E day \in CloseDays : SetCloseDate(day)
         \/ SaveForOrganization \/ UnsaveForOrganization
  PROVE  MailingInv'
<1>0. UNCHANGED <<version, storing, saved, reminded, job, queueJob, lastDone, mails, missed, faults>>
  BY DEF Change, SetPreference, SetCloseDate, SaveForOrganization, UnsaveForOrganization
<1>1. now' \in now..MaxTime /\ now' \in Nat /\ now <= now'
  BY Found DEF Change, SetPreference, SetCloseDate, SaveForOrganization, UnsaveForOrganization, Stamp
<1>2. shown' \in Text /\ disabled' \subseteq User /\ remindFrom' \in CloseDays \cup {0}
  BY Found DEF Change, SetPreference, SetCloseDate, SaveForOrganization, UnsaveForOrganization
<1>3. orgSave' \in OneOf(OrgRow) /\ \A s \in orgSave' : s \in orgSave \/ (now < now' /\ s.at = now')
  <2>1. CASE SaveForOrganization
    <3>1. now' = now + 1 /\ orgSave' = {[at |-> now + 1, processed |-> FALSE]} /\ now + 1 \in Time
      BY <2>1, Found DEF SaveForOrganization, Stamp, Time
    <3>2. [at |-> now + 1, processed |-> FALSE] \in OrgRow
      BY <3>1 DEF OrgRow
    <3>3. orgSave' \in OneOf(OrgRow)
      BY <3>1, <3>2, SingleRow
    <3>4. now < now'
      BY <3>1, Found
    <3> QED BY <3>1, <3>3, <3>4
  <2>2. CASE UnsaveForOrganization
    BY <2>2 DEF UnsaveForOrganization, OneOf
  <2>3. CASE orgSave' = orgSave
    BY <2>3, Found
  <2> QED BY <2>1, <2>2, <2>3 DEF Change, SetPreference, SetCloseDate
<1>4. /\ saved' \in [User -> OneOf(SavedRow)]
      /\ \A u \in User : saved[u] # {} => saved'[u] # {} /\ Notified(u)' = Notified(u)
      /\ \A u \in User : \A s \in saved'[u] : s.notified <= now'
  BY <1>0, <1>1, Found, TimeGrows DEF Notified
<1> QED BY <1>0, <1>1, <1>2, <1>3, <1>4, Found, RequestInv

\* A commit: what was first stays first, for versions commit in order.
LEMMA EndStoreInv ==
  ASSUME MailingInv, NEW commits \in BOOLEAN, EndStore(commits) PROVE MailingInv'
<1>0. now \in Nat /\ lastDone \in Nat
  BY BoundsAssumption DEF MailingInv, Types
<1>1. /\ UNCHANGED <<now, shown, saved, disabled, remindFrom, reminded, orgSave, job, queueJob, lastDone, mails, missed, faults>>
      /\ storing' = {} /\ storing # {}
      /\ version \subseteq version' /\ version' \subseteq version \cup storing
  BY DEF EndStore
<1>2. PICK s \in Version : storing = {s}
  BY <1>1 DEF MailingInv, Types, OneOf
<1>3. Types'
  BY <1>1, <1>2 DEF MailingInv, Types, OneOf
<1>4. Clock'
  BY <1>1 DEF MailingInv, Clock
<1>5. /\ Created \subseteq Created' /\ Created' \subseteq Created \cup {s.created}
      /\ Seen \subseteq Seen' /\ Seen' \subseteq Seen \cup {s.created}
  BY <1>1, <1>2 DEF Created, Seen
<1>6. JobInv'
  <2>1. \A kind, u, about : IsNews(kind, u, about)' <=> IsNews(kind, u, about)
    BY <1>1 DEF IsNews
  <2>2. \A u : Notified(u)' = Notified(u)
    BY <1>1 DEF Notified
  <2>3. job.at = "change" =>
          \A u \in DOMAIN job.about, t \in Created' :
            Notified(u) <= t /\ t <= job.read => t \in job.about[u]
    <3>1. job.at = "change" => job.read \in Nat /\ job.read < s.created /\ s.created \in Nat
      BY <1>2 DEF MailingInv, Types, Job, Idle, JobInv, Version, Time
    <3>2. job.at = "change" => ~(s.created <= job.read)
      BY <3>1
    <3> QED BY <1>5, <3>2 DEF MailingInv, JobInv
  <2> QED BY <1>1, <1>5, <2>1, <2>2, <2>3 DEF MailingInv, JobInv, Sending
<1>7. MailInv'
  <2>1. ASSUME NEW k \in mails, NEW u \in k.to, Remembered(k, u) PROVE Remembered(k, u)'
    BY <1>1, <1>5, <2>1 DEF Remembered, Notified
  <2> QED BY <1>1, <2>1 DEF MailingInv, MailInv
<1>s. s.created \in Nat /\ Seen \subseteq Nat /\ Seen' \subseteq Nat
  <2>1. s.created \in Nat /\ Seen \subseteq Nat
    BY CreatedTimes DEF Version, Time
  <2> QED BY <1>5, <2>1
<1>8. Seen # {} => Seen' # {} /\ Earliest(Seen)' = Earliest(Seen)
  <2> SUFFICES ASSUME Seen # {} PROVE Seen' # {} /\ Earliest(Seen)' = Earliest(Seen)
    OBVIOUS
  <2>1. Earliest(Seen) \in Seen /\ \A t \in Seen : Earliest(Seen) <= t
    BY <1>s, EarliestIs
  <2>2. \A t \in Seen : t < s.created
    BY <1>2, CreatedTimes DEF MailingInv, Clock, Created
  <2> DEFINE e == Earliest(Seen)
  <2>3. e \in Seen' /\ e \in Nat /\ \A t \in Seen' : e <= t
    <3>1. e \in Seen /\ e \in Nat /\ \A t \in Seen : e <= t
      BY <1>s, <2>1
    <3>2. e <= s.created
      <4> HIDE DEF e
      <4> QED BY <1>s, <2>2, <3>1
    <3> HIDE DEF e
    <3> QED BY <1>5, <3>1, <3>2
  <2>4. Earliest(Seen)' \in Seen' /\ \A t \in Seen' : Earliest(Seen)' <= t
    BY <2>3 DEF Earliest
  <2>5. Earliest(Seen)' = e
    <3> HIDE DEF e
    <3>1. \A x, y \in Nat : x <= y /\ y <= x => x = y
      OBVIOUS
    <3>2. Earliest(Seen)' \in Nat
      BY <1>s, <2>4
    <3> QED BY <2>3, <2>4, <3>1, <3>2
  <2> QED BY <2>3, <2>5
<1>n. Seen = {} /\ Seen' # {} => Earliest(Seen)' = s.created
  <2> SUFFICES ASSUME Seen = {}, Seen' # {} PROVE Earliest(Seen)' = s.created
    OBVIOUS
  <2>1. Seen' = {s.created}
    BY <1>5
  <2> QED BY <1>s, <2>1, EarliestIs DEF Earliest
<1>9. NewNotMissed'
  <2>1. CASE Seen = {}
    <3>1. s.created \in missed \/ lastDone <= s.created
      BY <1>2 DEF MailingInv, QueueInv
    <3> QED BY <1>0, <1>1, <1>n, <1>s, <2>1, <3>1 DEF NewNotMissed
  <2>2. CASE Seen # {}
    BY <1>1, <1>8, <2>2 DEF MailingInv, NewNotMissed
  <2> QED BY <2>1, <2>2
<1>10. QueueInv'
  <2>1. ASSUME queueJob.at = "finish", Seen' # {}, Earliest(Seen)' < queueJob.created,
               Earliest(Seen)' \notin missed \cup queueJob.passed
        PROVE  \E m \in mails : m.kind = "new" /\ Earliest(Seen)' \in m.about
    <3>1. queueJob.created \in Nat
      BY <2>1 DEF MailingInv, Types, Queueing, Idle, Time
    <3>2. CASE Seen = {}
      <4>1. s.created \in missed \cup queueJob.passed \/ queueJob.created <= s.created
        BY <1>2, <2>1 DEF MailingInv, QueueInv
      <4> QED BY <1>n, <1>s, <2>1, <3>1, <3>2, <4>1
    <3>3. CASE Seen # {}
      BY <1>8, <2>1, <3>3 DEF MailingInv, QueueInv
    <3> QED BY <3>2, <3>3
  <2>2. \A u \in User : \A about : IsNews("new", u, about)' <=> IsNews("new", u, about)
    BY <1>1 DEF IsNews
  <2>3. queueJob.at = "queue" => Seen' # {} /\ queueJob.new = {Earliest(Seen)'}
    BY <1>8 DEF MailingInv, QueueInv
  <2> QED BY <1>1, <2>1, <2>2, <2>3 DEF MailingInv, QueueInv
<1> QED BY <1>3, <1>4, <1>6, <1>7, <1>9, <1>10 DEF MailingInv

-----------------------------------------------------------------------------
(* The daily job.                                                          *)

\* What the job of the moment looks like.
LEMMA JobIs ==
  ASSUME job \in Job
  PROVE  /\ job.at = "change" => job \in [at : {"change"}, todo : SUBSET User, about : About, sent : SUBSET User,
                                          silent : SUBSET User, fresh : SUBSET User, read : Nat]
         /\ job.at \in {"reminder", "org"} => job \in [at : {"reminder", "org"}, todo : SUBSET User, about : About, sent : SUBSET User]
         /\ job.at = "mark" => job \in [at : {"mark"}, rows : SUBSET Time]
BY DEF Job, Idle

LEMMA AboutIs ==
  ASSUME NEW S \in SUBSET User, NEW f \in [S -> SUBSET Time]
  PROVE  f \in About
BY DEF About

LEMMA AboutOf ==
  ASSUME NEW f \in About
  PROVE  DOMAIN f \subseteq User /\ \A u \in DOMAIN f : f[u] \in SUBSET Time
BY DEF About

\* The mails of a kind stay, but that some of them may be lost.
Kept(kind) ==
  /\ \A k \in mails' : k.kind = kind =>
       \E m \in mails : m.kind = kind /\ m.to = k.to /\ m.about = k.about /\ (m.lost => k.lost)
  /\ \A m \in mails : m.kind = kind =>
       \E k \in mails' : k.kind = kind /\ k.to = m.to /\ k.about = m.about

LEMMA KeptWhole ==
  ASSUME NEW kind, mails \subseteq mails', \A k \in mails' : k \in mails \/ k.kind # kind
  PROVE  Kept(kind)
BY DEF Kept

\* What a failed run sent is lost, and the rest is as it was.
LEMMA Losing ==
  ASSUME mails \subseteq Mail, NEW S \in SUBSET mails, mails' = Lose(S)
  PROVE  /\ mails' \subseteq Mail
         /\ \A k \in mails' : k \in mails \ S \/ k.lost
         /\ \A k \in mails' : \E m \in mails : m.kind = k.kind /\ m.to = k.to /\ m.about = k.about
         /\ \A kind : Kept(kind)
<1> DEFINE L(m) == [m EXCEPT !.lost = TRUE]
<1>1. \A m \in Mail : L(m) \in Mail /\ L(m).lost /\ L(m).kind = m.kind /\ L(m).to = m.to /\ L(m).about = m.about
  BY DEF Mail
<1>2. /\ \A k \in mails' : k \in mails \ S \/ \E m \in S : k = L(m)
      /\ \A m \in mails : m \in mails' \/ L(m) \in mails'
  BY DEF Lose
<1> HIDE DEF L
<1>3. \A k \in mails' : k \in mails \ S \/ (k \in Mail /\ k.lost)
  BY <1>1, <1>2
<1>4. \A k \in mails' : \E m \in mails : m.kind = k.kind /\ m.to = k.to /\ m.about = k.about /\ (m.lost => k.lost)
  BY <1>1, <1>2
<1>5. \A m \in mails : \E k \in mails' : k.kind = m.kind /\ k.to = m.to /\ k.about = m.about
  BY <1>1, <1>2
<1>6. \A kind : Kept(kind)
  BY <1>4, <1>5 DEF Kept
<1> QED BY <1>3, <1>4, <1>6

LEMMA NewsKept ==
  ASSUME NEW kind, Kept(kind), NEW u, NEW about, IsNews(kind, u, about)
  PROVE  IsNews(kind, u, about)'
BY DEF Kept, IsNews

\* The daily job leaves the other one's obligations alone.
LEMMA QueueKept ==
  ASSUME MailingInv,
         UNCHANGED <<version, storing, queueJob, lastDone, missed>>,
         Kept("new")
  PROVE  QueueInv' /\ NewNotMissed'
<1>1. Seen' = Seen /\ Earliest(Seen)' = Earliest(Seen)
  BY DEF Seen, Earliest
<1>2. \A u, about : IsNews("new", u, about) => IsNews("new", u, about)'
  BY NewsKept
<1>3. \A t : (\E m \in mails : m.kind = "new" /\ t \in m.about) => \E m \in mails' : m.kind = "new" /\ t \in m.about
  BY DEF Kept
<1> QED BY <1>1, <1>2, <1>3 DEF MailingInv, QueueInv, NewNotMissed

\* A step that only moves the job on, at a place that keeps no mail in hand.
LEMMA MoveOn ==
  ASSUME MailingInv,
         UNCHANGED <<now, shown, version, storing, saved, disabled, remindFrom, reminded, orgSave,
                     queueJob, lastDone, mails, missed, faults>>,
         job.at \notin {"change", "reminder"},
         job' \in Job, JobInv',
         job'.at = "mark" => \A k \in mails : k.kind = "org" => k.about \cap job'.rows = {}
  PROVE  MailingInv'
<1>1. Types' /\ Clock'
  BY DEF MailingInv, Types, Clock
<1>2. MailInv'
  <2>1. ASSUME NEW k \in mails, NEW u \in k.to, Remembered(k, u) PROVE Remembered(k, u)'
    BY <2>1 DEF Remembered, Created, Notified
  <2> QED BY <2>1 DEF MailingInv, MailInv
<1>3. QueueInv' /\ NewNotMissed'
  BY QueueKept, KeptWhole
<1> QED BY <1>1, <1>2, <1>3 DEF MailingInv

LEMMA StartEndInv ==
  ASSUME MailingInv, StartJob \/ EndJob PROVE MailingInv'
<1>1. job' = [at |-> "start"] \/ job' = Idle
  BY DEF StartJob, EndJob
<1>2. job' \in Job /\ JobInv' /\ job'.at # "mark"
  BY <1>1 DEF Job, JobInv, Sending, Idle
<1>3. job.at \notin {"change", "reminder"}
  BY DEF StartJob, EndJob, Idle
<1> QED BY <1>2, <1>3, MoveOn DEF StartJob, EndJob

\* Whoever is collected has had no mail on what is new: all mails since the last crash
\* are on versions before the mark, and those are known.
LEMMA CollectChangesInv ==
  ASSUME MailingInv, CollectChanges PROVE MailingInv'
<1> DEFINE changed == { u \in User : Changed(u) }
           silent == changed \cap disabled
           fresh == { u \in changed \ silent : Prior(u) = {} }
           todo == { u \in changed \ (silent \cup fresh) : Unknown(u) # {} }
           read == Latest(Created \cup {0})
           about == [u \in todo |-> Unknown(u)]
<1>0. now \in Nat /\ Created \subseteq 0..now /\ Created \subseteq Nat /\ (Created # {} <=> version # {}) /\ Created \subseteq Time
  <2>1. Created \subseteq Time
    BY DEF MailingInv, Types, Created, Version
  <2> QED BY <2>1, CreatedTimes
<1>1. job' = [at |-> "change", todo |-> todo, about |-> about, sent |-> {},
              silent |-> silent, fresh |-> fresh, read |-> read]
  BY DEF CollectChanges
<1>2. read \in Created \cup {0} /\ \A t \in Created : t <= read
  <2>1. Created \cup {0} \subseteq 0..now /\ Created \cup {0} # {}
    BY <1>0
  <2> QED BY <1>0, <2>1, LatestIs
<1>3. read \in Nat /\ read <= now
  <2>1. \A t \in Created \cup {0} : t \in Nat /\ t <= now
    BY <1>0
  <2> HIDE DEF read
  <2> QED BY <1>2, <2>1
<1>4. \A u \in todo : Unknown(u) \in SUBSET Time /\ Unknown(u) \subseteq Created
  BY <1>0 DEF Unknown
<1>5. todo \in SUBSET User /\ silent \in SUBSET User /\ fresh \in SUBSET User
  OBVIOUS
<1>6. about \in About
  <2>1. about \in [todo -> SUBSET Time]
    BY <1>4
  <2> QED BY <1>5, <2>1, AboutIs
<1>7. job' \in Job
  <2> HIDE DEF todo, silent, fresh, read, about
  <2> QED BY <1>1, <1>3, <1>5, <1>6 DEF Job
<1>8. ASSUME NEW u \in todo
      PROVE  /\ IsNews("change", u, Unknown(u))
             /\ read \in Unknown(u)
             /\ saved[u] # {}
             /\ \A x \in Created : Notified(u) <= x => x \in Unknown(u)
  <2>1. u \in User /\ Changed(u) /\ Prior(u) # {} /\ Unknown(u) # {}
    OBVIOUS
  <2>2. Prior(u) \subseteq 0..now /\ Prior(u) \subseteq Created
    BY <1>0 DEF Prior
  <2>3. Latest(Prior(u)) \in Prior(u) /\ \A t \in Prior(u) : t <= Latest(Prior(u))
    BY <1>0, <2>1, <2>2, LatestIs
  <2>4. Latest(Prior(u)) \in Nat
    BY <1>0, <2>2, <2>3
  <2>5. Unknown(u) = { t \in Created : t > Latest(Prior(u)) }
    BY <2>1 DEF Unknown
  <2>6. PICK t \in Created : t > Latest(Prior(u))
    BY <2>1, <2>5
  <2>7. read > Latest(Prior(u)) /\ read # 0
    BY <1>0, <1>2, <1>3, <2>4, <2>6
  <2>8. read \in Unknown(u)
    BY <1>2, <2>5, <2>7
  <2>9. ASSUME NEW k \in mails, k.kind = "change", u \in k.to, k.about \cap Unknown(u) # {}
        PROVE  k.lost
    <3>2. ASSUME ~k.lost PROVE FALSE
      <4>1. Remembered(k, u)
        BY <2>9, <3>2 DEF MailingInv, MailInv
      <4>2. \A x \in k.about : x \in Created /\ x < Notified(u)
        BY <2>9, <4>1 DEF Remembered, CollectChanges
      <4>3. k.about \subseteq Prior(u)
        BY <4>2 DEF Prior
      <4>4. PICK x \in k.about : x \in Created /\ x > Latest(Prior(u))
        BY <2>5, <2>9
      <4>5. x <= Latest(Prior(u))
        BY <2>3, <4>3, <4>4
      <4> QED BY <1>0, <2>4, <4>4, <4>5
    <3> QED BY <3>2
  <2>10. IsNews("change", u, Unknown(u))
    BY <2>9 DEF IsNews
  <2>11. saved[u] # {}
    BY <2>1 DEF Changed, Active
  <2>12. ASSUME NEW c \in Created, Notified(u) <= c PROVE c \in Unknown(u)
    <3>1. \E s \in SavedRow : Notified(u) = s.notified
      BY <2>11, RowOf DEF MailingInv, Types
    <3>2. Notified(u) \in Nat
      BY <3>1 DEF SavedRow, Time
    <3>3. Latest(Prior(u)) < Notified(u)
      BY <2>3 DEF Prior
    <3>4. \A x, y, z \in Nat : x < y /\ y <= z => z > x
      OBVIOUS
    <3>5. c \in Nat
      BY <1>0
    <3>6. c > Latest(Prior(u))
      BY <2>4, <2>12, <3>2, <3>3, <3>4, <3>5
    <3> QED BY <2>5, <3>6
  <2> QED BY <2>8, <2>10, <2>11, <2>12
<1>9. ASSUME NEW u \in fresh PROVE saved[u] # {} /\ Notified(u) < read
  <2>1. u \in User /\ Changed(u)
    OBVIOUS
  <2>2. saved[u] # {} /\ version # {} /\ Notified(u) < Latest(Created)
    BY <2>1 DEF Changed, Active
  <2>3. Notified(u) \in Nat
    <3>1. \E s \in SavedRow : Notified(u) = s.notified
      BY <2>1, <2>2, RowOf DEF MailingInv, Types
    <3> QED BY <3>1 DEF SavedRow, Time
  <2>4. Latest(Created) \in Created
    BY <1>0, <2>2, LatestIs
  <2>5. Latest(Created) <= read /\ Latest(Created) \in Nat
    BY <1>0, <1>2, <2>4
  <2>6. \A x, y, z \in Nat : x < y /\ y <= z => x < z
    OBVIOUS
  <2> QED BY <1>3, <2>2, <2>3, <2>5, <2>6
<1>10. JobInv'
  <2> HIDE DEF todo, silent, fresh, read
  <2>1. /\ job'.at = "change" /\ job'.todo = todo /\ job'.sent = {} /\ job'.about = about
        /\ job'.fresh = fresh /\ job'.read = read
    BY <1>1
  <2>2. UNCHANGED <<now, shown, version, saved, orgSave, mails>>
    BY DEF CollectChanges
  <2>3. \A u \in todo : \A t \in about[u] : t <= now
    <3>1. \A t \in Created : t <= now
      BY <1>0
    <3> QED BY <1>4, <3>1
  <2>4. \A kind, u, S : IsNews(kind, u, S)' <=> IsNews(kind, u, S)
    BY <2>2 DEF IsNews
  <2>5. Created' = Created /\ \A u : Notified(u)' = Notified(u)
    BY <2>2 DEF Created, Notified
  <2>6. DOMAIN about = todo /\ \A u \in todo : about[u] = Unknown(u)
    OBVIOUS
  <2>7. \A s \in storing : read < s.created
    BY <1>2 DEF MailingInv, Types, OneOf, Clock, Created, Version, Time
  <2>8. storing' = storing
    BY DEF CollectChanges
  <2> HIDE DEF about
  <2> QED BY <1>3, <1>4, <1>8, <1>9, <2>1, <2>2, <2>3, <2>4, <2>5, <2>6, <2>7, <2>8 DEF JobInv, Sending
<1>11. job.at \notin {"change", "reminder"} /\ job'.at # "mark"
  BY <1>1 DEF CollectChanges
<1> QED BY <1>7, <1>10, <1>11, MoveOn DEF CollectChanges

\* One user of the loop is done with.
LEMMA Shape ==
  ASSUME job \in Job, Sending, NEW T \in SUBSET User, NEW S \in SUBSET User,
         job' = [job EXCEPT !.todo = T, !.sent = S]
  PROVE  /\ job' \in Job /\ job'.at = job.at /\ job'.about = job.about
         /\ job'.todo = T /\ job'.sent = S
         /\ job.at = "change" => job'.read = job.read /\ job'.fresh = job.fresh
<1>1. CASE job.at = "change"
  <2>1. job \in [at : {"change"}, todo : SUBSET User, about : About, sent : SUBSET User,
                 silent : SUBSET User, fresh : SUBSET User, read : Nat]
    BY <1>1, JobIs
  <2>2. job' \in [at : {"change"}, todo : SUBSET User, about : About, sent : SUBSET User,
                  silent : SUBSET User, fresh : SUBSET User, read : Nat]
    BY <2>1
  <2>3. job' \in Job
    BY <2>2 DEF Job
  <2> QED BY <2>1, <2>3
<1>2. CASE job.at \in {"reminder", "org"}
  <2>1. job \in [at : {"reminder", "org"}, todo : SUBSET User, about : About, sent : SUBSET User]
    BY <1>2, JobIs
  <2>2. job' \in [at : {"reminder", "org"}, todo : SUBSET User, about : About, sent : SUBSET User]
    BY <2>1
  <2>3. job' \in Job
    BY <2>2 DEF Job
  <2> QED BY <1>2, <2>1, <2>3
<1> QED BY <1>1, <1>2 DEF Sending

LEMMA SendingSets ==
  ASSUME job \in Job, Sending
  PROVE  job.todo \in SUBSET User /\ job.sent \in SUBSET User /\ job.about \in About
BY JobIs DEF Sending

LEMMA SendFailsInv ==
  ASSUME MailingInv, NEW u \in User, SendFails(u) PROVE MailingInv'
<1>1. Sending /\ job \in Job /\ job.todo \in SUBSET User /\ job.sent \in SUBSET User
  BY SendingSets DEF SendFails, Sending, MailingInv, Types
<1>2. job' = [job EXCEPT !.todo = job.todo \ {u}, !.sent = job.sent]
  <2>1. \/ job \in [at : {"change"}, todo : SUBSET User, about : About, sent : SUBSET User,
                    silent : SUBSET User, fresh : SUBSET User, read : Nat]
        \/ job \in [at : {"reminder", "org"}, todo : SUBSET User, about : About, sent : SUBSET User]
    BY <1>1, JobIs DEF Sending
  <2>2. job' = [job EXCEPT !.todo = job.todo \ {u}]
    BY DEF SendFails
  <2> QED BY <2>1, <2>2
<1>3. /\ job' \in Job /\ job'.at = job.at /\ job'.about = job.about
      /\ job'.todo = job.todo \ {u} /\ job'.sent = job.sent
      /\ job.at = "change" => job'.read = job.read /\ job'.fresh = job.fresh
  BY <1>1, <1>2, Shape
<1>4. /\ UNCHANGED <<now, shown, version, storing, saved, disabled, remindFrom, reminded, orgSave, queueJob, lastDone, mails, missed>>
      /\ faults' = faults + 1 /\ faults' <= MaxFaults
  BY BoundsAssumption DEF SendFails, Fault, MailingInv, Types
<1>5. Types' /\ Clock'
  <2>1. faults' \in 0..MaxFaults
    BY <1>4, BoundsAssumption DEF MailingInv, Types
  <2> QED BY <1>3, <1>4, <2>1 DEF MailingInv, Types, Clock
<1>6. JobInv'
  <2>1. Created' = Created /\ (\A v : Notified(v)' = Notified(v))
        /\ (\A kind, v, S : IsNews(kind, v, S)' <=> IsNews(kind, v, S))
        /\ (Sending' <=> Sending)
    BY <1>3, <1>4 DEF Created, Notified, IsNews, Sending
  <2>2. \A v \in job'.todo : IsNews(job.at, v, job.about[v])'
    <3>1. \A v \in job'.todo : IsNews(job.at, v, job.about[v])
      BY <1>1, <1>3 DEF MailingInv, JobInv
    <3> QED BY <1>3, <1>4, <3>1 DEF IsNews
  <2>3. job'.at # "mark" /\ job'.todo \cup job'.sent \subseteq DOMAIN job'.about
    BY <1>1, <1>3 DEF MailingInv, JobInv, Sending
  <2>4. job.at = "change" =>
          /\ job'.read <= now
          /\ \A v \in DOMAIN job'.about : job'.read \in job'.about[v] /\ job'.about[v] \subseteq Created
          /\ \A v \in job'.sent : \E k \in mails : k.kind = "change" /\ v \in k.to /\ k.about = job'.about[v]
          /\ \A v \in DOMAIN job'.about \cup job'.fresh : saved[v] # {}
          /\ \A v \in job'.fresh : Notified(v) < job'.read
          /\ \A s \in storing : job'.read < s.created
          /\ \A v \in DOMAIN job'.about, t \in Created :
               Notified(v) <= t /\ t <= job'.read => t \in job'.about[v]
    BY <1>3 DEF MailingInv, JobInv
  <2>5. \A v \in DOMAIN job'.about : \A t \in job'.about[v] : t <= now
    BY <1>1, <1>3 DEF MailingInv, JobInv
  <2>6. job.at = "org" =>
          \A v \in DOMAIN job'.about : \A s \in orgSave : s.at \in job'.about[v] => s.processed
    BY <1>3 DEF MailingInv, JobInv
  <2> QED BY <1>3, <1>4, <2>1, <2>2, <2>3, <2>4, <2>5, <2>6 DEF JobInv
<1>7. MailInv'
  <2>1. ASSUME NEW k \in mails, NEW v \in k.to, Remembered(k, v) PROVE Remembered(k, v)'
    BY <1>3, <1>4, <2>1 DEF Remembered, Created, Notified
  <2>2. job'.at # "mark"
    BY <1>1, <1>3 DEF Sending
  <2> QED BY <1>4, <2>1, <2>2 DEF MailingInv, MailInv
<1>8. QueueInv' /\ NewNotMissed'
  BY <1>4, QueueKept, KeptWhole
<1> QED BY <1>5, <1>6, <1>7, <1>8 DEF MailingInv

\* The mail is new to its user, and to nobody else.
LEMMA SendInv ==
  ASSUME MailingInv, NEW u \in User, Send(u) PROVE MailingInv'
<1> DEFINE mail == [kind |-> job.at, to |-> {u}, about |-> job.about[u], lost |-> FALSE]
<1>1. Sending /\ job \in Job /\ job.todo \in SUBSET User /\ job.sent \in SUBSET User /\ job.about \in About
  BY SendingSets DEF Send, Sending, MailingInv, Types
<1>2. job' = [job EXCEPT !.todo = job.todo \ {u}, !.sent = job.sent \cup {u}]
  BY DEF Send
<1>3. /\ job' \in Job /\ job'.at = job.at /\ job'.about = job.about
      /\ job'.todo = job.todo \ {u} /\ job'.sent = job.sent \cup {u}
      /\ job.at = "change" => job'.read = job.read /\ job'.fresh = job.fresh
  <2>1. job.todo \ {u} \in SUBSET User /\ job.sent \cup {u} \in SUBSET User
    BY <1>1
  <2> QED BY <1>1, <1>2, <2>1, Shape
<1>4. /\ UNCHANGED <<now, shown, version, storing, saved, disabled, remindFrom, reminded, orgSave, queueJob, lastDone, missed, faults>>
      /\ mails' = mails \cup {mail}
  BY DEF Send
<1>5. u \in job.todo /\ u \in DOMAIN job.about /\ job.about[u] \in SUBSET Time
  <2>1. u \in job.todo
    BY DEF Send
  <2>2. u \in DOMAIN job.about
    BY <1>1, <2>1 DEF MailingInv, JobInv
  <2> QED BY <1>1, <2>1, <2>2, AboutOf
<1>6. mail \in Mail
  <2>1. job.at \in {"change", "reminder", "org", "new"}
    BY <1>1 DEF Sending
  <2> QED BY <1>5, <2>1 DEF Mail
<1>7. \A t \in job.about[u] : t <= now
  BY <1>1, <1>5 DEF MailingInv, JobInv
<1>m. mail.kind = job.at /\ mail.to = {u} /\ mail.about = job.about[u] /\ ~mail.lost
  OBVIOUS
<1> HIDE DEF mail
<1>8. Types' /\ Clock'
  <2>1. Types'
    BY <1>3, <1>4, <1>6 DEF MailingInv, Types
  <2>2. Clock'
    BY <1>4, <1>7, <1>m DEF MailingInv, Clock
  <2> QED BY <2>1, <2>2
<1>9. JobInv'
  <2>1. ASSUME NEW v, v # u, NEW kind, NEW S, IsNews(kind, v, S) PROVE IsNews(kind, v, S)'
    BY <1>4, <1>m, <2>1 DEF IsNews
  <2>2. Created' = Created /\ (\A v : Notified(v)' = Notified(v)) /\ (Sending' <=> Sending)
    BY <1>3, <1>4 DEF Created, Notified, Sending
  <2>3. \A v \in job'.todo : IsNews(job.at, v, job.about[v])'
    BY <1>1, <1>3, <2>1 DEF MailingInv, JobInv
  <2>4. job.at = "change" =>
          \A v \in job'.sent : \E k \in mails' : k.kind = "change" /\ v \in k.to /\ k.about = job.about[v]
    BY <1>3, <1>4, <1>m DEF MailingInv, JobInv
  <2>5. job'.at # "mark" /\ job'.todo \cup job'.sent \subseteq DOMAIN job'.about
    BY <1>1, <1>3, <1>5 DEF MailingInv, JobInv, Sending
  <2>6. job.at = "change" =>
          /\ job'.read <= now
          /\ \A v \in DOMAIN job'.about : job'.read \in job'.about[v] /\ job'.about[v] \subseteq Created
          /\ \A v \in DOMAIN job'.about \cup job'.fresh : saved[v] # {}
          /\ \A v \in job'.fresh : Notified(v) < job'.read
          /\ \A s \in storing : job'.read < s.created
          /\ \A v \in DOMAIN job'.about, t \in Created :
               Notified(v) <= t /\ t <= job'.read => t \in job'.about[v]
    BY <1>3 DEF MailingInv, JobInv
  <2>7. \A v \in DOMAIN job'.about : \A t \in job'.about[v] : t <= now
    BY <1>1, <1>3 DEF MailingInv, JobInv
  <2>8. job.at = "org" =>
          \A v \in DOMAIN job'.about : \A s \in orgSave : s.at \in job'.about[v] => s.processed
    BY <1>3 DEF MailingInv, JobInv
  <2> QED BY <1>3, <1>4, <2>2, <2>3, <2>4, <2>5, <2>6, <2>7, <2>8 DEF JobInv
<1>10. MailInv'
  <2>1. ASSUME NEW k \in mails, NEW v \in k.to, Remembered(k, v) PROVE Remembered(k, v)'
    BY <1>3, <1>4, <2>1 DEF Remembered, Created, Notified
  <2>2. ASSUME NEW k, k = mail PROVE \A v \in k.to : Remembered(k, v)'
    BY <1>1, <1>3, <1>m, <2>2 DEF Remembered, Sending
  <2>3. mail.kind = "org" => \A s \in orgSave : s.at \in mail.about => s.processed
    BY <1>5, <1>m DEF MailingInv, JobInv
  <2>4. job'.at # "mark"
    BY <1>1, <1>3 DEF Sending
  <2> QED BY <1>4, <1>m, <2>1, <2>2, <2>3, <2>4 DEF MailingInv, MailInv
<1>11. QueueInv' /\ NewNotMissed'
  <2>1. mail.kind # "new"
    BY <1>1, <1>m DEF Sending
  <2> QED BY <1>4, <2>1, QueueKept, KeptWhole
<1> QED BY <1>8, <1>9, <1>10, <1>11 DEF MailingInv

\* A commit of the daily job: marks of users move forward, and the loop is over.
LEMMA CommitInv ==
  ASSUME MailingInv, Sending,
         UNCHANGED <<shown, version, storing, disabled, remindFrom, orgSave, queueJob, lastDone, mails, missed, faults>>,
         now' \in now..MaxTime,
         job' \in {[at |-> "closing"], [at |-> "organization"]},
         saved' \in [User -> OneOf(SavedRow)],
         reminded' \in [User -> SUBSET Time],
         \A u \in User : \A s \in saved'[u] : s.notified <= now',
         \A u \in User : saved[u] # {} => saved'[u] # {} /\ Notified(u) <= Notified(u)',
         job.at = "change" => \A u \in job.sent : saved'[u] # {} /\ Notified(u)' > now,
         \A u \in User : reminded[u] \subseteq reminded'[u],
         job.at = "reminder" => \A u \in job.sent : \E t \in reminded'[u] : t > now
  PROVE  MailingInv'
<1>0. now \in Nat /\ now' \in Nat /\ now <= now' /\ lastDone \in Nat
  BY BoundsAssumption DEF MailingInv, Types
<1>1. Types'
  <2>1. job' \in Job
    BY DEF Job
  <2> QED BY <1>0, <2>1, BoundsAssumption DEF MailingInv, Types
<1>2. Clock'
  <2>1. /\ \A v \in version \cup storing : v.created <= now'
        /\ \A s \in orgSave : s.at <= now'
        /\ \A k \in mails : \A t \in k.about : t <= now'
        /\ queueJob # Idle => queueJob.created <= now'
    BY <1>0, TimeGrows
  <2> QED BY <2>1 DEF MailingInv, Clock
<1>3. JobInv' /\ job'.at \notin {"mark", "change", "reminder"}
  BY DEF JobInv, Sending
<1>4. MailInv'
  <2>1. ASSUME NEW k \in mails, NEW u \in k.to, Remembered(k, u) PROVE Remembered(k, u)'
    <3>1. u \in User /\ k.about \subseteq Time /\ \A x \in k.about : x \in Nat /\ x <= now
      BY DEF MailingInv, Types, Mail, Time, Clock
    <3>2. Created' = Created /\ Created \subseteq Nat
      <4>1. Created \subseteq Nat
        BY CreatedTimes
      <4> QED BY <4>1 DEF Created
    <3>3. \A v \in User : saved'[v] # {} => Notified(v)' \in Nat
      BY DEF OneOf, Notified, SavedRow, Time
    <3>4. \A v \in User : saved[v] # {} => Notified(v) \in Nat
      <4>1. saved \in [User -> OneOf(SavedRow)]
        BY DEF MailingInv, Types
      <4>2. ASSUME NEW v \in User, saved[v] # {} PROVE Notified(v) \in Nat
        <5>1. PICK s \in SavedRow : Notified(v) = s.notified
          BY <4>1, <4>2, RowOf
        <5> QED BY <5>1 DEF SavedRow, Time
      <4> QED BY <4>2
    <3>5. k.kind = "change" => saved'[u] # {} /\ \A t \in k.about : t \in Created /\ t < Notified(u)'
      <4>1. CASE k.kind = "change" /\ job.at = "change" /\ u \in job.sent /\ k.about = job.about[u]
        <5>1. k.about \subseteq Created
          BY <4>1 DEF MailingInv, JobInv, Sending
        <5> QED BY <1>0, <3>1, <3>3, <4>1, <5>1
      <4>2. CASE saved[u] # {} /\ \A t \in k.about : t \in Created /\ t < Notified(u)
        <5>1. saved'[u] # {} /\ Notified(u) <= Notified(u)' /\ Notified(u) \in Nat /\ Notified(u)' \in Nat
          BY <3>1, <3>3, <3>4, <4>2
        <5>2. \A x, y, z \in Nat : x < y /\ y <= z => x < z
          OBVIOUS
        <5> QED BY <3>1, <4>2, <5>1, <5>2
      <4> QED BY <2>1, <4>1, <4>2 DEF Remembered
    <3>6. k.kind = "reminder" => \E t \in reminded'[u] : \A x \in k.about : x <= t
      <4>1. CASE k.kind = "reminder" /\ job.at = "reminder" /\ u \in job.sent
        <5>1. PICK t \in reminded'[u] : t > now
          BY <4>1
        <5>2. t \in Nat
          BY <3>1 DEF Time
        <5> QED BY <1>0, <3>1, <5>1, <5>2
      <4>2. CASE \E t \in reminded[u] : \A x \in k.about : x <= t
        BY <3>1, <4>2
      <4> QED BY <2>1, <4>1, <4>2 DEF Remembered
    <3> QED BY <2>1, <3>2, <3>5, <3>6 DEF Remembered
  <2> QED BY <1>3, <2>1 DEF MailingInv, MailInv
<1>5. QueueInv' /\ NewNotMissed'
  BY QueueKept, KeptWhole
<1> QED BY <1>1, <1>2, <1>3, <1>4, <1>5 DEF MailingInv

\* A user's row with its mark set.
LEMMA MarkRow ==
  ASSUME saved \in [User -> OneOf(SavedRow)], NEW u \in User, NEW n \in Time,
         saved'[u] = { [s EXCEPT !.notified = n] : s \in saved[u] }
  PROVE  /\ saved'[u] \in OneOf(SavedRow)
         /\ \A s \in saved'[u] : s.notified = n
         /\ saved[u] # {} => saved'[u] # {} /\ Notified(u)' = n
<1>1. CASE saved[u] = {}
  BY <1>1 DEF OneOf
<1>2. CASE saved[u] # {}
  <2>1. PICK s \in SavedRow : saved[u] = {s}
    BY <1>2, RowOf
  <2> DEFINE r == [s EXCEPT !.notified = n]
  <2>2. saved'[u] = {r}
    BY <2>1
  <2>3. r \in SavedRow /\ r.notified = n
    BY DEF SavedRow
  <2> HIDE DEF r
  <2>4. saved'[u] \in OneOf(SavedRow)
    BY <2>2, <2>3, SingleRow
  <2> QED BY <2>2, <2>3, <2>4 DEF Notified
<1> QED BY <1>1, <1>2

\* A user's row with its mark left.
LEMMA KeepRow ==
  ASSUME saved \in [User -> OneOf(SavedRow)], NEW u \in User,
         saved'[u] = { [s EXCEPT !.notified = s.notified] : s \in saved[u] }
  PROVE  saved'[u] = saved[u]
<1>1. \A s \in saved[u] : [s EXCEPT !.notified = s.notified] = s
  <2>1. \A s \in saved[u] : s \in SavedRow
    BY DEF OneOf
  <2> QED BY <2>1 DEF SavedRow
<1> QED BY <1>1

\* Each user's row after the marks on changes.
LEMMA ChangeMarks ==
  ASSUME CommitChanges, NEW u \in User
  PROVE  /\ u \in ToMark => saved'[u] = { [s EXCEPT !.notified = now + 1] : s \in saved[u] }
         /\ u \notin ToMark /\ u \in job.fresh => saved'[u] = { [s EXCEPT !.notified = job.read] : s \in saved[u] }
         /\ u \notin ToMark /\ u \notin job.fresh => saved'[u] = { [s EXCEPT !.notified = s.notified] : s \in saved[u] }
BY DEF CommitChanges

LEMMA CommitChangesInv ==
  ASSUME MailingInv, CommitChanges PROVE MailingInv'
<1>0. now \in Nat /\ MaxTime \in Nat /\ now <= MaxTime /\ saved \in [User -> OneOf(SavedRow)]
      /\ job \in Job /\ Sending /\ reminded \in [User -> SUBSET Time]
  BY BoundsAssumption DEF MailingInv, Types, CommitChanges, Sending
<1>1. now' \in now..MaxTime /\ (ToMark # {} => now' = now + 1 /\ now + 1 \in Time)
  BY <1>0 DEF CommitChanges, Stamp, Time
<1>2. job.sent \subseteq ToMark
  BY DEF ToMark
<1>3. \A u \in job.fresh : u \in User /\ saved[u] # {} /\ Notified(u) < job.read /\ job.read <= now /\ job.read \in Nat
  <2>1. job.fresh \subseteq User /\ job.read \in Nat
    BY <1>0, JobIs DEF CommitChanges
  <2> QED BY <2>1 DEF MailingInv, JobInv, CommitChanges
<1>4. ASSUME NEW u \in User
      PROVE  /\ saved'[u] \in OneOf(SavedRow)
             /\ \A s \in saved'[u] : s.notified <= now'
             /\ saved[u] # {} => saved'[u] # {} /\ Notified(u) <= Notified(u)'
             /\ u \in ToMark /\ saved[u] # {} => saved'[u] # {} /\ Notified(u)' > now
  <2>1. saved[u] # {} => Notified(u) \in Time /\ Notified(u) <= now
    <3>1. saved[u] # {} => \E s \in SavedRow : saved[u] = {s} /\ Notified(u) = s.notified
      BY <1>0, RowOf
    <3> QED BY <3>1 DEF MailingInv, Clock, SavedRow
  <2>2. CASE u \in ToMark
    <3>1. saved'[u] = { [s EXCEPT !.notified = now + 1] : s \in saved[u] } /\ now + 1 \in Time /\ now' = now + 1
      BY <1>1, <2>2, ChangeMarks
    <3> DEFINE n == now + 1
    <3>2. n \in Time /\ n > now /\ n <= now' /\ n \in Nat
      BY <1>0, <3>1
    <3>3. saved'[u] = { [s EXCEPT !.notified = n] : s \in saved[u] }
      BY <3>1
    <3> HIDE DEF n
    <3>4. /\ saved'[u] \in OneOf(SavedRow)
          /\ \A s \in saved'[u] : s.notified = n
          /\ saved[u] # {} => saved'[u] # {} /\ Notified(u)' = n
      BY <1>0, <3>2, <3>3, MarkRow
    <3>5. saved[u] # {} => Notified(u) <= n
      BY <1>0, <2>1, <3>2 DEF Time
    <3> QED BY <3>2, <3>4, <3>5
  <2>3. CASE u \notin ToMark /\ u \in job.fresh
    <3>1. Notified(u) < job.read /\ job.read <= now /\ job.read \in Nat /\ Notified(u) \in Time /\ Notified(u) \in Nat
      BY <1>3, <2>1, <2>3 DEF Time
    <3>2. job.read \in Time
      BY <1>0, <3>1 DEF Time
    <3>3. /\ saved'[u] \in OneOf(SavedRow)
          /\ \A s \in saved'[u] : s.notified = job.read
          /\ saved[u] # {} => saved'[u] # {} /\ Notified(u)' = job.read
      BY <1>0, <2>3, <3>2, ChangeMarks, MarkRow
    <3>4. job.read <= now'
      BY <1>0, <1>1, <3>1
    <3> QED BY <2>3, <3>1, <3>3, <3>4
  <2>4. CASE u \notin ToMark /\ u \notin job.fresh
    <3>1. saved'[u] = saved[u]
      BY <1>0, <2>4, ChangeMarks, KeepRow
    <3>2. Notified(u)' = Notified(u)
      BY <3>1 DEF Notified
    <3>3. \A s \in saved'[u] : s.notified <= now'
      BY <1>0, <1>1, <3>1, TimeGrows
    <3> QED BY <1>0, <2>1, <2>4, <3>1, <3>2, <3>3 DEF Time
  <2> QED BY <2>2, <2>3, <2>4
<1>5. saved' \in [User -> OneOf(SavedRow)]
  <2>1. saved' = [u \in User |-> saved'[u]]
    BY DEF CommitChanges
  <2> QED BY <1>4, <2>1
<1>6. \A u \in job.sent : u \in User /\ saved[u] # {}
  <2>1. job.sent \subseteq User /\ job.sent \subseteq DOMAIN job.about
    BY <1>0, SendingSets DEF MailingInv, JobInv
  <2> QED BY <2>1 DEF MailingInv, JobInv, CommitChanges
<1>7. UNCHANGED <<shown, version, storing, disabled, remindFrom, reminded, orgSave, queueJob, lastDone, mails, missed, faults>>
      /\ job' = [at |-> "closing"] /\ job.at = "change"
  BY DEF CommitChanges
<1> QED BY <1>0, <1>1, <1>2, <1>4, <1>5, <1>6, <1>7, CommitInv

LEMMA ClosingMarks ==
  ASSUME CommitClosing, NEW u \in User
  PROVE  /\ u \in job.sent => saved'[u] = { [s EXCEPT !.notified = now + 1] : s \in saved[u] }
         /\ u \notin job.sent => saved'[u] = { [s EXCEPT !.notified = s.notified] : s \in saved[u] }
BY DEF CommitClosing

LEMMA CommitClosingInv ==
  ASSUME MailingInv, CommitClosing PROVE MailingInv'
<1>0. now \in Nat /\ MaxTime \in Nat /\ now <= MaxTime /\ saved \in [User -> OneOf(SavedRow)]
      /\ job \in Job /\ Sending /\ reminded \in [User -> SUBSET Time]
  BY BoundsAssumption DEF MailingInv, Types, CommitClosing, Sending
<1>1. now' \in now..MaxTime /\ (job.sent # {} => now' = now + 1 /\ now + 1 \in Time)
  BY <1>0 DEF CommitClosing, Stamp, Time
<1>4. ASSUME NEW u \in User
      PROVE  /\ saved'[u] \in OneOf(SavedRow)
             /\ \A s \in saved'[u] : s.notified <= now'
             /\ saved[u] # {} => saved'[u] # {} /\ Notified(u) <= Notified(u)'
  <2>1. saved[u] # {} => Notified(u) \in Time /\ Notified(u) <= now
    <3>1. saved[u] # {} => \E s \in SavedRow : saved[u] = {s} /\ Notified(u) = s.notified
      BY <1>0, RowOf
    <3> QED BY <3>1 DEF MailingInv, Clock, SavedRow
  <2>2. CASE u \in job.sent
    <3>1. saved'[u] = { [s EXCEPT !.notified = now + 1] : s \in saved[u] } /\ now + 1 \in Time /\ now' = now + 1
      BY <1>1, <2>2, ClosingMarks
    <3> DEFINE n == now + 1
    <3>2. n \in Time /\ n > now /\ n <= now' /\ n \in Nat
      BY <1>0, <3>1
    <3>3. saved'[u] = { [s EXCEPT !.notified = n] : s \in saved[u] }
      BY <3>1
    <3> HIDE DEF n
    <3>4. /\ saved'[u] \in OneOf(SavedRow)
          /\ \A s \in saved'[u] : s.notified = n
          /\ saved[u] # {} => saved'[u] # {} /\ Notified(u)' = n
      BY <1>0, <3>2, <3>3, MarkRow
    <3>5. saved[u] # {} => Notified(u) <= n
      BY <1>0, <2>1, <3>2 DEF Time
    <3> QED BY <3>2, <3>4, <3>5
  <2>4. CASE u \notin job.sent
    <3>1. saved'[u] = saved[u]
      BY <1>0, <2>4, ClosingMarks, KeepRow
    <3>2. Notified(u)' = Notified(u)
      BY <3>1 DEF Notified
    <3>3. \A s \in saved'[u] : s.notified <= now'
      BY <1>0, <1>1, <3>1, TimeGrows
    <3> QED BY <1>0, <2>1, <3>1, <3>2, <3>3 DEF Time
  <2> QED BY <2>2, <2>4
<1>5. saved' \in [User -> OneOf(SavedRow)]
  <2>1. saved' = [u \in User |-> saved'[u]]
    BY DEF CommitClosing
  <2> QED BY <1>4, <2>1
<1>6. \A u \in User : reminded'[u] = IF u \in job.sent THEN reminded[u] \cup {now + 1} ELSE reminded[u]
  BY DEF CommitClosing
<1>7. reminded' \in [User -> SUBSET Time] /\ \A u \in User : reminded[u] \subseteq reminded'[u]
  <2>1. reminded' = [u \in User |-> reminded'[u]]
    BY DEF CommitClosing
  <2>2. \A u \in User : reminded'[u] \in SUBSET Time
    BY <1>0, <1>1, <1>6
  <2> QED BY <1>6, <2>1, <2>2
<1>8. \A u \in job.sent : \E t \in reminded'[u] : t > now
  <2>1. job.sent \subseteq User
    BY <1>0, SendingSets
  <2>2. now + 1 > now
    BY <1>0
  <2> QED BY <1>6, <2>1, <2>2
<1>9. UNCHANGED <<shown, version, storing, disabled, remindFrom, orgSave, queueJob, lastDone, mails, missed, faults>>
      /\ job' = [at |-> "organization"] /\ job.at = "reminder"
  BY DEF CommitClosing
<1> QED BY <1>0, <1>1, <1>4, <1>5, <1>7, <1>8, <1>9, CommitInv

\* Whoever is to be reminded has had no reminder since the close date is near.
LEMMA CollectClosingInv ==
  ASSUME MailingInv, CollectClosing PROVE MailingInv'
<1> DEFINE todo == { u \in User : Closing(u) }
           about == [u \in todo |-> {remindFrom}]
<1>1. job' = [at |-> "reminder", todo |-> todo, about |-> about, sent |-> {}]
  BY DEF CollectClosing, Mailing
<1>0. /\ now \in Nat /\ now <= MaxTime /\ MaxTime \in Nat /\ remindFrom \in Nat
      /\ UNCHANGED <<now, shown, version, storing, saved, disabled, remindFrom, reminded, orgSave,
                     queueJob, lastDone, mails, missed, faults>>
  BY BoundsAssumption DEF MailingInv, Types, CollectClosing
<1>2. todo \in SUBSET User
  OBVIOUS
<1>3. \A u \in todo : remindFrom \in Time /\ remindFrom <= now
  BY <1>0 DEF Closing, Time
<1>4. about \in About /\ DOMAIN about = todo /\ \A u \in todo : about[u] = {remindFrom}
  <2>1. about \in [todo -> SUBSET Time]
    BY <1>3
  <2> QED BY <1>2, <2>1, AboutIs
<1>5. ASSUME NEW u \in todo PROVE IsNews("reminder", u, {remindFrom})
  <2>1. ASSUME NEW k \in mails, k.kind = "reminder", u \in k.to, remindFrom \in k.about
        PROVE  k.lost
    <3>2. ASSUME ~k.lost PROVE FALSE
      <4>1. Remembered(k, u)
        BY <2>1, <3>2 DEF MailingInv, MailInv
      <4>2. PICK t \in reminded[u] : remindFrom <= t
        BY <2>1, <4>1 DEF Remembered, CollectClosing
      <4>3. t < remindFrom /\ t \in Nat
        BY <4>2 DEF Closing, MailingInv, Types, Time
      <4> QED BY <1>0, <4>2, <4>3
    <3> QED BY <3>2
  <2> QED BY <2>1 DEF IsNews
<1> HIDE DEF todo, about
<1>6. job' \in Job
  BY <1>1, <1>2, <1>4 DEF Job
<1>7. JobInv'
  <2>1. \A kind, u, S : IsNews(kind, u, S)' <=> IsNews(kind, u, S)
    BY <1>0 DEF IsNews
  <2> QED BY <1>0, <1>1, <1>3, <1>4, <1>5, <2>1 DEF JobInv, Sending
<1>8. job.at \notin {"change", "reminder"} /\ job'.at # "mark"
  BY <1>1 DEF CollectClosing
<1> QED BY <1>0, <1>6, <1>7, <1>8, MoveOn

LEMMA ReadOrganizationInv ==
  ASSUME MailingInv, ReadOrganization PROVE MailingInv'
<1> DEFINE rows == { s.at : s \in Unprocessed }
<1>0. UNCHANGED <<now, shown, version, storing, saved, disabled, remindFrom, reminded, orgSave,
                  queueJob, lastDone, mails, missed, faults>>
      /\ job' = [at |-> "mark", rows |-> rows] /\ job.at = "organization"
  BY DEF ReadOrganization
<1>1. rows \subseteq Time /\ \A t \in rows : t <= now
  BY DEF MailingInv, Types, OneOf, OrgRow, Clock, Unprocessed
<1>2. ASSUME NEW k \in mails, k.kind = "org" PROVE k.about \cap rows = {}
  BY <1>2 DEF MailingInv, MailInv, Types, OneOf, Unprocessed
<1> HIDE DEF rows
<1>3. job' \in Job /\ JobInv'
  BY <1>0, <1>1 DEF Job, JobInv, Sending
<1> QED BY <1>0, <1>2, <1>3, MoveOn

\* No row that is about to be marked has been told of.
LEMMA MarkOrganizationInv ==
  ASSUME MailingInv, MarkOrganization PROVE MailingInv'
<1> DEFINE todo == IF job.rows = {} THEN {} ELSE User
           about == [u \in todo |-> job.rows]
<1>0. UNCHANGED <<now, shown, version, storing, saved, disabled, remindFrom, reminded,
                  queueJob, lastDone, mails, missed, faults>>
      /\ job.at = "mark" /\ job.rows \in SUBSET Time /\ \A t \in job.rows : t <= now
  BY JobIs DEF MarkOrganization, MailingInv, Types, JobInv
<1>1. job' = [at |-> "org", todo |-> todo, about |-> about, sent |-> {}]
  BY DEF MarkOrganization, Mailing
<1>2. todo \in SUBSET User
  OBVIOUS
<1>3. about \in About /\ DOMAIN about = todo /\ \A u \in todo : about[u] = job.rows /\ job.rows # {}
  <2>1. about \in [todo -> SUBSET Time]
    BY <1>0
  <2> QED BY <1>2, <2>1, AboutIs
<1>4. /\ orgSave' \in OneOf(OrgRow)
      /\ \A s \in orgSave' : s.at <= now
      /\ job.rows # {} => \A s \in orgSave' : s.processed
      /\ job.rows = {} => orgSave' = orgSave
  <2>1. CASE orgSave = {} \/ job.rows = {}
    <3>1. orgSave' = orgSave
      BY <2>1 DEF MarkOrganization
    <3> QED BY <2>1, <3>1 DEF MailingInv, Types, Clock
  <2>2. CASE orgSave # {} /\ job.rows # {}
    <3>1. PICK s \in OrgRow : orgSave = {s}
      BY <2>2 DEF MailingInv, Types, OneOf
    <3>2. orgSave' = {[s EXCEPT !.processed = TRUE]}
      BY <2>2, <3>1 DEF MarkOrganization
    <3>3. [s EXCEPT !.processed = TRUE] \in OrgRow /\ [s EXCEPT !.processed = TRUE].processed
          /\ [s EXCEPT !.processed = TRUE].at = s.at
      BY DEF OrgRow
    <3>4. s.at <= now
      BY <3>1 DEF MailingInv, Clock
    <3>5. orgSave' \in OneOf(OrgRow)
      BY <3>2, <3>3, SingleRow
    <3> QED BY <2>2, <3>2, <3>3, <3>4, <3>5
  <2> QED BY <2>1, <2>2
<1> HIDE DEF todo, about
<1>5. job' \in Job
  BY <1>1, <1>2, <1>3 DEF Job
<1>6. Types'
  BY <1>0, <1>4, <1>5 DEF MailingInv, Types
<1>7. Clock'
  BY <1>0, <1>4 DEF MailingInv, Clock
<1>8. JobInv'
  <2>1. \A k \in mails : k.kind = "org" => k.about \cap job.rows = {}
    BY <1>0 DEF MailingInv, MailInv
  <2>2. \A u \in todo : \A k \in mails : k.kind = "org" => k.about \cap about[u] = {}
    BY <1>3, <2>1
  <2>3. job'.at = "org" /\ job'.todo = todo /\ job'.about = about /\ job'.sent = {}
    BY <1>1
  <2> QED BY <1>0, <1>3, <1>4, <2>2, <2>3 DEF JobInv, Sending, IsNews
<1>9. MailInv'
  <2>1. ASSUME NEW k \in mails, NEW u \in k.to, Remembered(k, u) PROVE Remembered(k, u)'
    BY <1>0, <2>1 DEF Remembered, Created, Notified
  <2>2. ASSUME NEW k \in mails, k.kind = "org", NEW s \in orgSave', s.at \in k.about PROVE s.processed
    BY <1>4, <2>2 DEF MailingInv, MailInv
  <2> QED BY <1>0, <1>1, <2>1, <2>2 DEF MailingInv, MailInv
<1>10. QueueInv' /\ NewNotMissed'
  BY <1>0, QueueKept, KeptWhole
<1> QED BY <1>6, <1>7, <1>8, <1>9, <1>10 DEF MailingInv

\* A stopped run is forgotten, and what it had not recorded is lost.
LEMMA JobCrashInv ==
  ASSUME MailingInv, JobCrash PROVE MailingInv'
<1>0. /\ UNCHANGED <<now, shown, version, storing, saved, disabled, remindFrom, reminded, orgSave, queueJob, lastDone, missed>>
      /\ job' = Idle /\ faults' \in 0..MaxFaults /\ mails' = Lose(Unrecorded)
  BY BoundsAssumption DEF JobCrash, Fault, MailingInv, Types
<1>1. /\ mails' \subseteq Mail
      /\ \A k \in mails' : k \in mails \ Unrecorded \/ k.lost
      /\ \A k \in mails' : \E m \in mails : m.kind = k.kind /\ m.to = k.to /\ m.about = k.about
      /\ \A kind : Kept(kind)
  <2>1. Unrecorded \in SUBSET mails
    BY DEF Unrecorded
  <2> QED BY <1>0, <2>1, Losing DEF MailingInv, Types
<1>2. Types'
  BY <1>0, <1>1 DEF MailingInv, Types, Job
<1>3. Clock'
  BY <1>0, <1>1 DEF MailingInv, Clock
<1>4. JobInv'
  BY <1>0 DEF JobInv, Sending, Idle
<1>5. MailInv'
  <2>1. ASSUME NEW k \in mails', ~k.lost, NEW u \in k.to PROVE Remembered(k, u)'
    <3>1. k \in mails \ Unrecorded
      BY <1>1, <2>1
    <3>2. Remembered(k, u)
      BY <2>1, <3>1 DEF MailingInv, MailInv
    <3>3. \A kind \in {"change", "reminder"} :
            k.kind = kind => ~(job.at = kind /\ u \in job.sent /\ k.about = job.about[u])
      BY <2>1, <3>1 DEF Unrecorded
    <3> QED BY <1>0, <3>2, <3>3 DEF Remembered, Created, Notified
  <2>2. ASSUME NEW k \in mails', k.kind = "org" PROVE \A s \in orgSave : s.at \in k.about => s.processed
    BY <1>1, <2>2 DEF MailingInv, MailInv
  <2> QED BY <1>0, <2>1, <2>2 DEF MailInv, Idle
<1>6. QueueInv' /\ NewNotMissed'
  BY <1>0, <1>1, QueueKept
<1> QED BY <1>2, <1>3, <1>4, <1>5, <1>6 DEF MailingInv

-----------------------------------------------------------------------------
(* The job on new opportunities.                                           *)

\* What the daily job knows does not depend on the other one.
LEMMA JobKept ==
  ASSUME MailingInv,
         UNCHANGED <<version, storing, saved, orgSave, job>>,
         now' \in now..MaxTime,
         Kept("change"), Kept("reminder"), Kept("org")
  PROVE  JobInv'
<1>0. now' \in Nat /\ now <= now'
  BY BoundsAssumption DEF MailingInv, Types
<1>1. /\ Sending => \A u \in DOMAIN job.about : \A t \in job.about[u] : t <= now'
      /\ job.at = "change" => job.read <= now'
      /\ job.at = "mark" => \A t \in job.rows : t <= now'
  BY <1>0, TimeGrows
<1>2. Created' = Created /\ (\A u : Notified(u)' = Notified(u)) /\ (Sending' <=> Sending)
  BY DEF Created, Notified, Sending
<1>3. Sending => \A u \in job.todo : IsNews(job.at, u, job.about[u])'
  <2>1. ASSUME NEW u \in job.todo, NEW kind \in {"change", "reminder", "org"}, job.at = kind
        PROVE  IsNews(job.at, u, job.about[u])'
    <3>1. IsNews(kind, u, job.about[u])
      BY <2>1 DEF MailingInv, JobInv, Sending
    <3>2. \A S : IsNews(kind, u, S) => IsNews(kind, u, S)'
      BY NewsKept
    <3> QED BY <2>1, <3>1, <3>2 DEF IsNews
  <2> QED BY <2>1 DEF Sending
<1>4. job.at = "change" =>
        \A u \in job.sent : \E k \in mails' : k.kind = "change" /\ u \in k.to /\ k.about = job.about[u]
  BY DEF MailingInv, JobInv, Kept
<1> QED BY <1>1, <1>2, <1>3, <1>4 DEF MailingInv, JobInv

LEMMA StartQueueInv ==
  ASSUME MailingInv, StartQueue PROVE MailingInv'
<1>0. /\ UNCHANGED <<shown, version, storing, saved, disabled, remindFrom, reminded, orgSave, job, lastDone, mails, missed, faults>>
      /\ queueJob = Idle /\ queueJob' = [at |-> "read", created |-> now + 1] /\ now' = now + 1
      /\ now' \in now..MaxTime /\ now' \in Time /\ now' \in Nat /\ now <= now' /\ lastDone \in Nat /\ lastDone <= now /\ now \in Nat
  BY BoundsAssumption DEF StartQueue, Stamp, MailingInv, Types, Time
<1>1. Types'
  BY <1>0, BoundsAssumption DEF MailingInv, Types, Queueing
<1>2. Clock'
  <2>1. /\ \A v \in version \cup storing : v.created <= now'
        /\ \A u \in User : \A s \in saved[u] : s.notified <= now'
        /\ \A s \in orgSave : s.at <= now'
        /\ \A k \in mails : \A t \in k.about : t <= now'
    BY <1>0, TimeGrows
  <2>2. lastDone < queueJob'.created /\ queueJob'.created <= now'
    BY <1>0
  <2> QED BY <1>0, <2>1, <2>2 DEF MailingInv, Clock
<1>3. JobInv'
  BY <1>0, JobKept, KeptWhole
<1>4. MailInv'
  <2>1. ASSUME NEW k \in mails, NEW u \in k.to, Remembered(k, u) PROVE Remembered(k, u)'
    BY <1>0, <2>1 DEF Remembered, Created, Notified, Idle
  <2> QED BY <1>0, <2>1 DEF MailingInv, MailInv
<1>5. QueueInv' /\ NewNotMissed'
  <2>1. Seen' = Seen /\ Earliest(Seen)' = Earliest(Seen)
    BY <1>0, SeenSame
  <2> QED BY <1>0, <2>1 DEF MailingInv, QueueInv, NewNotMissed
<1> QED BY <1>1, <1>2, <1>3, <1>4, <1>5 DEF MailingInv

\* What is in the window was not in an earlier one; what lies before it was, or is missed.
LEMMA ReadNewInv ==
  ASSUME MailingInv, NEW willing \in SUBSET User, ReadNew(willing) PROVE MailingInv'
<1> DEFINE new == IF willing = {} THEN {} ELSE NewInWindow
           passed == PassedOver(willing)
           at == IF new = {} THEN "finish" ELSE "queue"
<1>0. /\ UNCHANGED <<now, shown, version, storing, saved, disabled, remindFrom, reminded, orgSave, job, lastDone, mails, missed, faults>>
      /\ queueJob.at = "read"
      /\ now \in Nat /\ now \in now..MaxTime /\ lastDone \in Nat
  BY BoundsAssumption DEF ReadNew, MailingInv, Types
<1>1. queueJob \in [at : {"read"}, created : Time] /\ queueJob.created \in Nat /\ queueJob # Idle
  BY <1>0 DEF MailingInv, Types, Queueing, Idle, Time
<1>2. Seen \subseteq Time /\ Seen \subseteq Nat
  <2>1. Seen \subseteq Time
    BY DEF MailingInv, Types, Seen, Version
  <2> QED BY <2>1, CreatedTimes
<1>3. passed \in SUBSET Time
  BY <1>2 DEF PassedOver, MailingInv, Types, OneOf, Version
<1>4. /\ new \in SUBSET Time
      /\ \A t \in new : t \in Seen /\ WindowStart <= t /\ t < queueJob.created /\ t = Earliest(Seen)
      /\ new # {} => new = NewInWindow
  BY <1>2 DEF NewInWindow, InWindow
<1>5. queueJob' = [at |-> at, created |-> queueJob.created, new |-> new, to |-> willing, passed |-> passed]
  BY DEF ReadNew
<1>a. at \in {"queue", "finish"} /\ (at = "finish" <=> new = {})
  OBVIOUS
<1> HIDE DEF at
<1>6. queueJob' \in Queueing /\ queueJob'.created = queueJob.created /\ queueJob'.at = at
      /\ queueJob'.new = new /\ queueJob'.passed = passed
  <2>1. queueJob.created \in Time
    BY <1>1
  <2> HIDE DEF new, passed
  <2> QED BY <1>3, <1>4, <1>5, <1>a, <2>1 DEF Queueing
<1>7. Types'
  BY <1>0, <1>6 DEF MailingInv, Types
<1>8. Clock'
  BY <1>0, <1>1, <1>6 DEF MailingInv, Clock
<1>9. JobInv'
  BY <1>0, JobKept, KeptWhole
<1>10. MailInv'
  <2>1. ASSUME NEW k \in mails, NEW u \in k.to, Remembered(k, u) PROVE Remembered(k, u)'
    BY <1>0, <2>1 DEF Remembered, Created, Notified
  <2> QED BY <1>0, <2>1 DEF MailingInv, MailInv
<1>11. WindowStart \in Nat /\ (lastDone # 0 => WindowStart = lastDone)
  BY <1>0, <1>1, BoundsAssumption DEF WindowStart
<1>12. ASSUME NEW k \in mails, k.kind = "new", NEW u \in k.to, k.about \cap new # {}
       PROVE  k.lost
  <2>1. k.about \subseteq Time
    BY DEF MailingInv, Types, Mail
  <2>2. ASSUME ~k.lost PROVE FALSE
    <3>1. \A x \in k.about : x < lastDone
      BY <1>0, <1>12, <2>2 DEF MailingInv, MailInv, Remembered
    <3>2. PICK x \in k.about : WindowStart <= x
      BY <1>4, <1>12
    <3>3. x \in Nat /\ x < lastDone
      BY <2>1, <3>1 DEF Time
    <3> QED BY <1>0, <1>11, <3>2, <3>3
  <2> QED BY <2>2
<1>13. ASSUME new = {}, Seen # {}, Earliest(Seen) < queueJob.created, Earliest(Seen) \notin missed \cup passed
       PROVE  \E m \in mails : m.kind = "new" /\ Earliest(Seen) \in m.about
  <2>1. Earliest(Seen) \in Seen /\ Earliest(Seen) \in Nat
    BY <1>2, <1>13, EarliestIs
  <2>2. Earliest(Seen) < WindowStart
    <3>1. ASSUME WindowStart <= Earliest(Seen) PROVE FALSE
      <4>1. InWindow(Earliest(Seen))
        BY <1>13, <3>1 DEF InWindow
      <4>2. shown \in Visible /\ willing # {}
        BY <1>13, <2>1, <4>1 DEF PassedOver
      <4>3. Earliest(Seen) \in NewInWindow
        BY <2>1, <4>1, <4>2 DEF NewInWindow
      <4> QED BY <1>13, <4>2, <4>3
    <3> QED BY <1>11, <2>1, <3>1
  <2>3. lastDone # 0
    BY <1>13, <2>1, <2>2 DEF PassedOver
  <2>4. Earliest(Seen) < lastDone /\ Earliest(Seen) \notin missed
    BY <1>11, <1>13, <2>2, <2>3
  <2> QED BY <1>13, <2>4 DEF MailingInv, NewNotMissed
<1>14. QueueInv'
  <2>1. Seen' = Seen /\ Earliest(Seen)' = Earliest(Seen)
    BY <1>0, SeenSame
  <2>2. \A s \in storing :
          \/ s.created \in missed
          \/ /\ lastDone <= s.created
             /\ s.created \in passed \/ queueJob.created <= s.created
    <3>1. \A s \in storing : s.created \in Nat
      BY DEF MailingInv, Types, OneOf, Version, Time
    <3>2. \A s \in storing : s.created < queueJob.created => s.created \in passed
      BY DEF PassedOver
    <3>3. \A s \in storing : s.created \in missed \/ lastDone <= s.created
      BY DEF MailingInv, QueueInv
    <3> QED BY <1>1, <3>1, <3>2, <3>3
  <2>3. \A u : \A k \in mails : k.kind = "new" /\ u \in k.to /\ k.about \cap new # {} => k.lost
    BY <1>12
  <2>4. new # {} => Seen # {} /\ new = {Earliest(Seen)}
    BY <1>4
  <2> HIDE DEF new, passed
  <2>5. at = "queue" => \A u \in User : IsNews("new", u, queueJob.new)'
    BY <1>0, <1>6, <2>3 DEF IsNews
  <2>6. at = "finish" /\ Seen # {} /\ Earliest(Seen) < queueJob.created /\ Earliest(Seen) \notin missed \cup passed
          => \E m \in mails : m.kind = "new" /\ Earliest(Seen) \in m.about
    BY <1>13, <1>a
  <2>7. \A t \in new : t < queueJob.created
    BY <1>4
  <2> QED BY <1>0, <1>6, <1>a, <2>1, <2>2, <2>4, <2>5, <2>6, <2>7 DEF QueueInv
<1>15. NewNotMissed'
  BY <1>0, SeenSame DEF MailingInv, NewNotMissed
<1> QED BY <1>7, <1>8, <1>9, <1>10, <1>14, <1>15 DEF MailingInv

LEMMA QueueNewInv ==
  ASSUME MailingInv, QueueNew PROVE MailingInv'
<1> DEFINE mail == [kind |-> "new", to |-> queueJob.to, about |-> queueJob.new, lost |-> FALSE]
<1>0. /\ UNCHANGED <<now, shown, version, storing, saved, disabled, remindFrom, reminded, orgSave, job, lastDone, missed, faults>>
      /\ queueJob.at = "queue" /\ queueJob' = [queueJob EXCEPT !.at = "finish"]
      /\ mails' = mails \cup {mail}
      /\ now \in Nat /\ now \in now..MaxTime /\ lastDone \in Nat
  BY BoundsAssumption DEF QueueNew, MailingInv, Types
<1>1. /\ queueJob \in [at : {"queue", "finish"}, created : Time, new : SUBSET Time, to : SUBSET User, passed : SUBSET Time]
      /\ queueJob # Idle
  BY <1>0 DEF MailingInv, Types, Queueing, Idle
<1>2. /\ mail \in Mail /\ queueJob' \in Queueing /\ queueJob'.at = "finish"
      /\ queueJob'.created = queueJob.created /\ queueJob'.new = queueJob.new /\ queueJob'.passed = queueJob.passed
  BY <1>0, <1>1 DEF Mail, Queueing
<1>3. Types'
  BY <1>0, <1>2 DEF MailingInv, Types
<1>4. \A t \in queueJob.new : t < queueJob.created /\ t <= now
  <2>1. \A t \in queueJob.new : t < queueJob.created
    BY <1>0 DEF MailingInv, QueueInv
  <2>2. queueJob.created <= now
    BY <1>1 DEF MailingInv, Clock
  <2> QED BY <1>0, <1>1, <2>1, <2>2 DEF Time
<1>m. mail.kind = "new" /\ mail.about = queueJob.new
  OBVIOUS
<1> HIDE DEF mail
<1>5. Clock'
  BY <1>0, <1>1, <1>2, <1>4, <1>m DEF MailingInv, Clock, Idle
<1>6. JobInv'
  BY <1>0, <1>m, JobKept, KeptWhole
<1>7. MailInv'
  <2>1. ASSUME NEW k \in mails, NEW u \in k.to, Remembered(k, u) PROVE Remembered(k, u)'
    BY <1>0, <2>1 DEF Remembered, Created, Notified
  <2>2. ASSUME NEW k, k = mail PROVE \A u \in k.to : Remembered(k, u)'
    BY <1>2, <1>m, <2>2 DEF Remembered
  <2> QED BY <1>0, <1>m, <2>1, <2>2 DEF MailingInv, MailInv
<1>8. QueueInv' /\ NewNotMissed'
  <2>1. Seen' = Seen /\ Earliest(Seen)' = Earliest(Seen)
    BY <1>0, SeenSame
  <2>2. Earliest(Seen) \in mail.about /\ mail \in mails'
    BY <1>0, <1>m DEF MailingInv, QueueInv
  <2>3. \A m \in mails : m \in mails'
    BY <1>0
  <2>4. NewNotMissed'
    BY <1>0, <2>1, <2>3 DEF MailingInv, NewNotMissed
  <2> QED BY <1>0, <1>2, <1>m, <2>1, <2>2, <2>4 DEF MailingInv, QueueInv
<1> QED BY <1>3, <1>5, <1>6, <1>7, <1>8 DEF MailingInv

LEMMA CompleteQueueInv ==
  ASSUME MailingInv, CompleteQueue PROVE MailingInv'
<1>0. /\ UNCHANGED <<now, shown, version, storing, saved, disabled, remindFrom, reminded, orgSave, job, mails, faults>>
      /\ queueJob.at = "finish" /\ queueJob' = Idle /\ lastDone' = queueJob.created
      /\ missed' = missed \cup queueJob.passed
      /\ now \in Nat /\ now \in now..MaxTime /\ lastDone \in Nat
  BY BoundsAssumption DEF CompleteQueue, MailingInv, Types
<1>1. queueJob.created \in Nat /\ lastDone < queueJob.created /\ queueJob.created <= now /\ queueJob.passed \subseteq Time
  BY <1>0 DEF MailingInv, Types, Clock, Queueing, Idle, Time
<1>2. Types' /\ Clock'
  BY <1>0, <1>1 DEF MailingInv, Types, Clock, Queueing
<1>3. JobInv'
  BY <1>0, JobKept, KeptWhole
<1>4. MailInv'
  <2>1. ASSUME NEW k \in mails, NEW u \in k.to, Remembered(k, u) PROVE Remembered(k, u)'
    <3>1. \A x \in k.about : x \in Nat
      BY DEF MailingInv, Types, Mail, Time
    <3>2. k.kind = "new" => \A x \in k.about : x < queueJob.created
      BY <1>0, <1>1, <2>1, <3>1 DEF Remembered, MailingInv, QueueInv
    <3> QED BY <1>0, <2>1, <3>2 DEF Remembered, Created, Notified
  <2> QED BY <1>0, <2>1 DEF MailingInv, MailInv
<1>5. QueueInv' /\ NewNotMissed'
  <2>1. Seen' = Seen /\ Earliest(Seen)' = Earliest(Seen)
    BY <1>0, SeenSame
  <2> QED BY <1>0, <2>1 DEF MailingInv, QueueInv, NewNotMissed, Idle
<1> QED BY <1>2, <1>3, <1>4, <1>5 DEF MailingInv

LEMMA QueueCrashInv ==
  ASSUME MailingInv, QueueCrash PROVE MailingInv'
<1>0. /\ UNCHANGED <<now, shown, version, storing, saved, disabled, remindFrom, reminded, orgSave, job, lastDone, missed>>
      /\ queueJob' = Idle /\ faults' \in 0..MaxFaults /\ mails' = Lose(Uncompleted) /\ now \in now..MaxTime
  BY BoundsAssumption DEF QueueCrash, Fault, MailingInv, Types
<1>1. /\ mails' \subseteq Mail
      /\ \A k \in mails' : k \in mails \ Uncompleted \/ k.lost
      /\ \A k \in mails' : \E m \in mails : m.kind = k.kind /\ m.to = k.to /\ m.about = k.about
      /\ \A kind : Kept(kind)
  <2>1. Uncompleted \in SUBSET mails
    BY DEF Uncompleted
  <2> QED BY <1>0, <2>1, Losing DEF MailingInv, Types
<1>2. Types'
  BY <1>0, <1>1 DEF MailingInv, Types, Queueing
<1>3. Clock'
  BY <1>0, <1>1 DEF MailingInv, Clock
<1>4. JobInv'
  BY <1>0, <1>1, JobKept
<1>5. MailInv'
  <2>1. ASSUME NEW k \in mails', ~k.lost, NEW u \in k.to PROVE Remembered(k, u)'
    <3>1. k \in mails \ Uncompleted
      BY <1>1, <2>1
    <3>2. Remembered(k, u)
      BY <2>1, <3>1 DEF MailingInv, MailInv
    <3>3. k.kind = "new" => ~(queueJob.at = "finish" /\ k.about = queueJob.new)
      BY <3>1 DEF Uncompleted
    <3> QED BY <1>0, <3>2, <3>3 DEF Remembered, Created, Notified
  <2>2. ASSUME NEW k \in mails', k.kind = "org"
        PROVE  /\ \A s \in orgSave : s.at \in k.about => s.processed
               /\ job.at = "mark" => k.about \cap job.rows = {}
    BY <1>1, <2>2 DEF MailingInv, MailInv
  <2> QED BY <1>0, <2>1, <2>2 DEF MailInv
<1>6. QueueInv' /\ NewNotMissed'
  <2>1. Seen' = Seen /\ Earliest(Seen)' = Earliest(Seen)
    BY <1>0, SeenSame
  <2>2. \A t : (\E m \in mails : m.kind = "new" /\ t \in m.about) => \E m \in mails' : m.kind = "new" /\ t \in m.about
    BY <1>1 DEF Kept
  <2> QED BY <1>0, <2>1, <2>2 DEF MailingInv, QueueInv, NewNotMissed, Idle
<1> QED BY <1>2, <1>3, <1>4, <1>5, <1>6 DEF MailingInv

-----------------------------------------------------------------------------
(* The theorems.                                                           *)

LEMMA StepInv == MailingInv /\ [Next]_vars => MailingInv'
<1> SUFFICES ASSUME MailingInv, [Next]_vars PROVE MailingInv'
  OBVIOUS
<1>1. CASE UNCHANGED vars
  <2>1. Types' /\ Clock' /\ JobInv' /\ MailInv'
    BY <1>1 DEF vars, MailingInv, Types, Clock, JobInv, MailInv, Remembered, IsNews, Sending, Created, Notified
  <2>2. QueueInv' /\ NewNotMissed'
    BY <1>1, QueueKept, KeptWhole DEF vars
  <2> QED BY <2>1, <2>2 DEF MailingInv
<1>2. CASE Request
  BY <1>2, StoreVersionInv, EndStoreInv, SaveInv, UnsaveInv, OtherRequestInv DEF Request
<1>3. CASE DailyJob
  BY <1>3, StartEndInv, CollectChangesInv, CommitChangesInv, SendInv, CollectClosingInv,
     CommitClosingInv, ReadOrganizationInv, MarkOrganizationInv DEF DailyJob
<1>4. CASE QueueJob
  BY <1>4, StartQueueInv, ReadNewInv, QueueNewInv, CompleteQueueInv DEF QueueJob
<1>5. CASE (\E u \in User : SendFails(u)) \/ JobCrash \/ QueueCrash
  BY <1>5, SendFailsInv, JobCrashInv, QueueCrashInv
<1> QED BY <1>1, <1>2, <1>3, <1>4, <1>5 DEF Next

\* What the jobs know of their mails, and what was sent of the past, is always as the
\* invariant says.
THEOREM MailingCorrect == Spec => []MailingInv
<1> QED BY InitInv, StepInv, PTL DEF Spec

\* Rows, mails and versions are what the tables hold, with no second row for a user.
THEOREM MailTypes == Spec => []TypeOK
<1>1. MailingInv => TypeOK
  <2> SUFFICES ASSUME MailingInv PROVE TypeOK
    OBVIOUS
  <2>1. ASSUME NEW S, NEW T, T \in OneOf(S) PROVE T \subseteq S /\ Cardinality(T) <= 1
    <3>1. CASE T = {}
      BY <3>1, FS_EmptySet
    <3>2. CASE \E s \in S : T = {s}
      BY <3>2, FS_Singleton
    <3> QED BY <2>1, <3>1, <3>2 DEF OneOf
  <2>2. storing \subseteq Version /\ orgSave \subseteq OrgRow /\ Cardinality(orgSave) <= 1
    BY <2>1 DEF MailingInv, Types
  <2>3. saved \in [User -> SUBSET SavedRow] /\ \A u \in User : Cardinality(saved[u]) <= 1
    <3>1. saved \in [User -> OneOf(SavedRow)]
      BY DEF MailingInv, Types
    <3>2. \A u \in User : saved[u] \subseteq SavedRow /\ Cardinality(saved[u]) <= 1
      BY <2>1, <3>1
    <3> QED BY <3>1, <3>2
  <2> QED BY <2>2, <2>3 DEF MailingInv, Types, TypeOK
<1> QED BY <1>1, MailingCorrect, PTL

\* A new opportunity visible before the start of a completed run was queued, however
\* many runs failed before, unless its version committed late, is older than the first
\* window, or a completed run found it hidden again or nobody who wants to hear of it.
THEOREM NewQueued == Spec => []NewNotMissed
<1>1. MailingInv => NewNotMissed
  BY DEF MailingInv
<1> QED BY <1>1, MailingCorrect, PTL

\* Nobody is sent the same news twice, but for a run that failed before it recorded
\* the mail it had sent.
THEOREM NothingTwice == Spec => NoneTwice
<1>1. ASSUME MailingInv, [Next]_vars
      PROVE  [/\ \A u \in User : Send(u) => IsNews(job.at, u, job.about[u])
              /\ QueueNew => \A u \in queueJob.to : IsNews("new", u, queueJob.new)]_vars
  <2>1. ASSUME NEW u \in User, Send(u) PROVE IsNews(job.at, u, job.about[u])
    BY <1>1, <2>1 DEF Send, MailingInv, JobInv, Sending
  <2>2. ASSUME QueueNew, NEW u \in queueJob.to PROVE IsNews("new", u, queueJob.new)
    <3>1. u \in User
      BY <1>1, <2>2 DEF QueueNew, MailingInv, Types, Queueing, Idle
    <3> QED BY <1>1, <2>2, <3>1 DEF QueueNew, MailingInv, QueueInv
  <2> QED BY <2>1, <2>2
<1> QED BY <1>1, MailingCorrect, PTL DEF Spec, NoneTwice

\* Whatever moves a user's mark, each version between the old mark and what the run has
\* read was told in a mail, but for the mark of a reminder and for users who turned mail
\* off or knew no version.
THEOREM MarkedWhenTold == Spec => MarksFollowMail
<1> DEFINE Step == \A u \in User : saved[u] # {} /\ Notified(u)' # Notified(u) =>
                     \/ job.at = "reminder" /\ u \in job.sent
                     \/ job.at = "change" /\ u \in job.silent \cup job.fresh
                     \/ /\ job.at = "change"
                        /\ \A t \in Created : Notified(u) <= t /\ t <= job.read => Told(u, t)
<1>1. ASSUME MailingInv, [Next]_vars PROVE [Step]_vars
  <2> SUFFICES ASSUME NEW u \in User, saved[u] # {}, Notified(u)' # Notified(u)
               PROVE  \/ job.at = "reminder" /\ u \in job.sent
                      \/ job.at = "change" /\ u \in job.silent \cup job.fresh
                      \/ /\ job.at = "change"
                         /\ \A t \in Created : Notified(u) <= t /\ t <= job.read => Told(u, t)
    OBVIOUS
  <2>0. saved \in [User -> OneOf(SavedRow)]
    BY <1>1 DEF MailingInv, Types
  <2>1. CASE CommitClosing
    <3>1. u \in job.sent
      BY <2>0, <2>1, ClosingMarks, KeepRow DEF Notified
    <3> QED BY <2>1, <3>1 DEF CommitClosing
  <2>2. CASE CommitChanges
    <3>1. u \in ToMark \/ u \in job.fresh
      BY <2>0, <2>2, ChangeMarks, KeepRow DEF Notified
    <3>2. job.sent \subseteq DOMAIN job.about /\ job.at = "change"
      BY <1>1, <2>2 DEF CommitChanges, MailingInv, JobInv, Sending
    <3>3. ASSUME u \in job.sent, NEW t \in Created, Notified(u) <= t, t <= job.read PROVE Told(u, t)
      <4>1. t \in job.about[u]
        BY <1>1, <3>2, <3>3 DEF MailingInv, JobInv
      <4>2. \E k \in mails : k.kind = "change" /\ u \in k.to /\ k.about = job.about[u]
        BY <1>1, <3>2, <3>3 DEF MailingInv, JobInv
      <4> QED BY <4>1, <4>2 DEF Told
    <3> QED BY <3>1, <3>2, <3>3 DEF ToMark
  <2>3. CASE Save(u) \/ Unsave(u)
    <3>1. PICK s \in SavedRow : saved[u] = {s} /\ Notified(u) = s.notified
      BY <2>0, RowOf
    <3>2. \E b \in BOOLEAN : saved'[u] = {[s EXCEPT !.active = b]}
      <4>1. \E b \in BOOLEAN : saved'[u] = { [r EXCEPT !.active = b] : r \in saved[u] }
        BY <2>0, <2>3 DEF Save, Unsave
      <4> QED BY <3>1, <4>1
    <3>3. Notified(u)' = s.notified
      BY <3>2 DEF Notified, SavedRow
    <3> QED BY <3>1, <3>3
  <2>4. CASE \E v \in User : v # u /\ (Save(v) \/ Unsave(v))
    BY <2>0, <2>4 DEF Save, Unsave, Notified
  <2>5. CASE UNCHANGED saved
    BY <2>5 DEF Notified
  <2>6. \/ CommitClosing \/ CommitChanges \/ UNCHANGED saved
        \/ \E v \in User : Save(v) \/ Unsave(v)
    BY <1>1 DEF Next, Request, DailyJob, QueueJob, vars, Change, StoreVersion, EndStore, SetPreference, SetCloseDate,
       SaveForOrganization, UnsaveForOrganization, StartJob, CollectChanges, Send, CollectClosing,
       ReadOrganization, MarkOrganization, EndJob, StartQueue, ReadNew, QueueNew, CompleteQueue,
       SendFails, JobCrash, QueueCrash
  <2> QED BY <2>1, <2>2, <2>3, <2>4, <2>5, <2>6
<1> QED BY <1>1, MailingCorrect, PTL DEF Spec, MarksFollowMail
================================================================================
