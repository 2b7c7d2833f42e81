----------------------------- MODULE Notifications -----------------------------
(***************************************************************************)
(* E-mail about one opportunity: the daily email-notifications job (changed *)
(* saved opportunities, closing reminders, opportunities saved for an      *)
(* organization, one after the other) and the job that queues the message  *)
(* on new opportunities.  Mail leaves while the transaction that will       *)
(* record it is open; timestamps are taken before the commit that shows    *)
(* them.                                                                   *)
(***************************************************************************)
EXTENDS Naturals, FiniteSets

CONSTANTS
  User,       \* users; all are members of the organization
  Text,       \* what a message on changes can tell apart in a version
  Visible,    \* the texts whose status is forecasted or posted
  CloseDays,  \* the days on which the reminders of a close date may begin, 0 for no date
  Lookback,   \* how far back the first window on new opportunities reaches
  MaxRequest, \* bound: the latest timestamp that anyone but the daily job takes
  MaxTime,    \* bound: the latest timestamp of all
  MaxFaults   \* bound: failed sends and stopped processes

ASSUME BoundsAssumption ==
  /\ Lookback \in Nat /\ MaxFaults \in Nat
  /\ Visible \subseteq Text
  /\ CloseDays \subseteq Nat
  /\ MaxTime \in Nat /\ MaxRequest \in 0..MaxTime

VARIABLES
  now,        \* the latest timestamp; no two are equal
  shown,      \* what the opportunity and its current summary say now
  version,    \* opportunity_version, as others see it
  storing,    \* the version of an open transaction, {} or one
  saved,      \* user_saved_opportunity: {} or one row each
  disabled,   \* the users who turned mail on saved opportunities off
  remindFrom, \* two weeks before the close date, 0 with none ahead
  reminded,   \* user_opportunity_notification_log, by created_at
  orgSave,    \* organization_saved_opportunity, {} or one row
  job,        \* the run of email-notifications
  queueJob,   \* the run of new-opportunity-notification
  lastDone,   \* created_at of its last completed run, 0 before there is one
  mails,      \* history: what was sent or queued
  missed,     \* history: versions a completed run of it passed over
  faults

vars == <<now, shown, version, storing, saved, disabled, remindFrom, reminded, orgSave,
          job, queueJob, lastDone, mails, missed, faults>>

-----------------------------------------------------------------------------

Time == 1..MaxTime

Version == [created : Time, text : Text]

SavedRow == [active : BOOLEAN, notified : Time]
OrgRow == [at : Time, processed : BOOLEAN]

Mail == [kind : {"change", "reminder", "org", "new"}, to : SUBSET User, about : SUBSET Time,
         lost : BOOLEAN]

Latest(S) == CHOOSE t \in S : \A s \in S : s <= t
Earliest(S) == CHOOSE t \in S : \A s \in S : t <= s

Created == { v.created : v \in version }
TextAt(t) == (CHOOSE v \in version : v.created = t).text

Stamp(bound) == now < bound /\ now' = now + 1
Fault == faults < MaxFaults /\ faults' = faults + 1

Idle == [at |-> "idle"]

Init ==
  /\ now = 0
  /\ shown \in Text
  /\ version = {}
  /\ storing = {}
  /\ saved = [u \in User |-> {}]
  /\ disabled = {}
  /\ remindFrom = 0
  /\ reminded = [u \in User |-> {}]
  /\ orgSave = {}
  /\ job = Idle
  /\ queueJob = Idle
  /\ lastDone = 0
  /\ mails = {}
  /\ missed = {}
  /\ faults = 0

-----------------------------------------------------------------------------
(* The requests and the stored versions.                                   *)

\* An edit or the day changes the opportunity, or publishes it; its version follows.
Change(text) ==
  /\ shown # text
  /\ shown' = text
  /\ UNCHANGED <<now, version, storing, saved, disabled, remindFrom, reminded, orgSave, job, queueJob, lastDone, mails, missed, faults>>

StoreVersion ==
  /\ storing = {}
  /\ Stamp(MaxRequest)
  /\ storing' = {[created |-> now + 1, text |-> shown]}
  /\ UNCHANGED <<shown, version, saved, disabled, remindFrom, reminded, orgSave, job, queueJob, lastDone, mails, missed, faults>>

\* The transaction commits, or not.
EndStore(commits) ==
  /\ storing # {}
  /\ version' = IF commits THEN version \cup storing ELSE version
  /\ storing' = {}
  /\ UNCHANGED <<now, shown, saved, disabled, remindFrom, reminded, orgSave, job, queueJob, lastDone, mails, missed, faults>>

\* A row that was deleted comes back as it was.
Save(u) ==
  /\ \A s \in saved[u] : ~s.active
  /\ IF saved[u] = {}
     THEN Stamp(MaxRequest) /\ saved' = [saved EXCEPT ![u] = {[active |-> TRUE, notified |-> now + 1]}]
     ELSE UNCHANGED now /\ saved' = [saved EXCEPT ![u] = { [s EXCEPT !.active = TRUE] : s \in @ }]
  /\ UNCHANGED <<shown, version, storing, disabled, remindFrom, reminded, orgSave, job, queueJob, lastDone, mails, missed, faults>>

Unsave(u) ==
  /\ \E s \in saved[u] : s.active
  /\ saved' = [saved EXCEPT ![u] = { [s EXCEPT !.active = FALSE] : s \in @ }]
  /\ UNCHANGED <<now, shown, version, storing, disabled, remindFrom, reminded, orgSave, job, queueJob, lastDone, mails, missed, faults>>

SetPreference(u) ==
  /\ disabled' = IF u \in disabled THEN disabled \ {u} ELSE disabled \cup {u}
  /\ UNCHANGED <<now, shown, version, storing, saved, remindFrom, reminded, orgSave, job, queueJob, lastDone, mails, missed, faults>>

\* The close date becomes known, is moved, or passes (no date is near any more).
SetCloseDate(day) ==
  /\ remindFrom # day
  /\ remindFrom' = day
  /\ UNCHANGED <<now, shown, version, storing, saved, disabled, reminded, orgSave, job, queueJob, lastDone, mails, missed, faults>>

SaveForOrganization ==
  /\ orgSave = {}
  /\ Stamp(MaxRequest)
  /\ orgSave' = {[at |-> now + 1, processed |-> FALSE]}
  /\ UNCHANGED <<shown, version, storing, saved, disabled, remindFrom, reminded, job, queueJob, lastDone, mails, missed, faults>>

UnsaveForOrganization ==
  /\ orgSave # {}
  /\ orgSave' = {}
  /\ UNCHANGED <<now, shown, version, storing, saved, disabled, remindFrom, reminded, job, queueJob, lastDone, mails, missed, faults>>

-----------------------------------------------------------------------------
(* The daily job: one task after the other, each with a loop of sends.     *)

Mailing(kind, todo, about) == [at |-> kind, todo |-> todo, about |-> about, sent |-> {}]

Active(u) == \E s \in saved[u] : s.active
Notified(u) == (CHOOSE s \in saved[u] : TRUE).notified

\* The tracked opportunity has a later version than the user was told of.
Changed(u) == Active(u) /\ version # {} /\ Notified(u) < Latest(Created)

\* Mutant: the version to compare with is the latest, whatever the user knows.
LatestVersion(u) == Created

\* The versions the user knew of: the last is the one to compare with.
Prior(u) == { t \in Created : t < Notified(u) }

\* The versions a message is about: those since the last known, when the latest of
\* them differs from it in what a message tells.
Unknown(u) ==
  IF TextAt(Latest(Prior(u))) = TextAt(Latest(Created)) THEN {}
  ELSE { t \in Created : t > Latest(Prior(u)) }

StartJob ==
  /\ job = Idle
  /\ job' = [at |-> "start"]
  /\ UNCHANGED <<now, shown, version, storing, saved, disabled, remindFrom, reminded, orgSave, queueJob, lastDone, mails, missed, faults>>

\* Users who knew no version get no mail now, nor do those with mail turned off.
CollectChanges ==
  LET changed == { u \in User : Changed(u) }
      silent == changed \cap disabled
      fresh == { u \in changed \ silent : Prior(u) = {} }
      todo == { u \in changed \ (silent \cup fresh) : Unknown(u) # {} }
  IN /\ job.at = "start"
     /\ job' = [at |-> "change", todo |-> todo, about |-> [u \in todo |-> Unknown(u)], sent |-> {},
                 silent |-> silent, fresh |-> fresh, read |-> Latest(Created \cup {0})]
     /\ UNCHANGED <<now, shown, version, storing, saved, disabled, remindFrom, reminded, orgSave, queueJob, lastDone, mails, missed, faults>>

Send(u) ==
  /\ job.at \in {"change", "reminder", "org"} /\ u \in job.todo
  /\ mails' = mails \cup {[kind |-> job.at, to |-> {u}, about |-> job.about[u], lost |-> FALSE]}
  /\ job' = [job EXCEPT !.todo = @ \ {u}, !.sent = @ \cup {u}]
  /\ UNCHANGED <<now, shown, version, storing, saved, disabled, remindFrom, reminded, orgSave, queueJob, lastDone, missed, faults>>

\* Logged, and the loop goes on.
SendFails(u) ==
  /\ Fault
  /\ job.at \in {"change", "reminder", "org"} /\ u \in job.todo
  /\ job' = [job EXCEPT !.todo = @ \ {u}]
  /\ UNCHANGED <<now, shown, version, storing, saved, disabled, remindFrom, reminded, orgSave, queueJob, lastDone, mails, missed>>

\* Mutant: all for whom there was a mail are marked, sent or not.
AllMarked == DOMAIN job.about \cup job.silent

\* Users marked once the mail is out.
ToMark == job.sent \cup job.silent

CommitChanges ==
  /\ job.at = "change" /\ job.todo = {}
  /\ IF ToMark = {} THEN UNCHANGED now ELSE Stamp(MaxTime)
  /\ saved' = [u \in User |->
       { [s EXCEPT !.notified = IF u \in ToMark THEN now + 1
                                ELSE IF u \in job.fresh THEN job.read
                                ELSE @] : s \in saved[u] }]
  /\ job' = [at |-> "closing"]
  /\ UNCHANGED <<shown, version, storing, disabled, remindFrom, reminded, orgSave, queueJob, lastDone, mails, missed, faults>>

\* The close date is near, and no reminder was recorded since it is.
Closing(u) ==
  /\ Active(u)
  /\ remindFrom # 0 /\ remindFrom <= now
  /\ \A t \in reminded[u] : t < remindFrom

CollectClosing ==
  LET todo == { u \in User : Closing(u) }
  IN /\ job.at = "closing"
     /\ job' = Mailing("reminder", todo, [u \in todo |-> {remindFrom}])
     /\ UNCHANGED <<now, shown, version, storing, saved, disabled, remindFrom, reminded, orgSave, queueJob, lastDone, mails, missed, faults>>

\* A reminder counts as notice of changes, too.
CommitClosing ==
  /\ job.at = "reminder" /\ job.todo = {}
  /\ IF job.sent = {} THEN UNCHANGED now ELSE Stamp(MaxTime)
  /\ saved' = [u \in User |->
       { [s EXCEPT !.notified = IF u \in job.sent THEN now + 1 ELSE @] : s \in saved[u] }]
  /\ reminded' = [u \in User |-> IF u \in job.sent THEN reminded[u] \cup {now + 1} ELSE reminded[u]]
  /\ job' = [at |-> "organization"]
  /\ UNCHANGED <<shown, version, storing, disabled, remindFrom, orgSave, queueJob, lastDone, mails, missed, faults>>

Unprocessed == { s \in orgSave : ~s.processed }

ReadOrganization ==
  /\ job.at = "organization"
  /\ job' = [at |-> "mark", rows |-> { s.at : s \in Unprocessed }]
  /\ UNCHANGED <<now, shown, version, storing, saved, disabled, remindFrom, reminded, orgSave, queueJob, lastDone, mails, missed, faults>>

\* The rows are marked, those saved since they were read with them, and the mark
\* is committed before any mail leaves.
MarkOrganization ==
  /\ job.at = "mark"
  /\ orgSave' = IF job.rows = {} THEN orgSave ELSE { [s EXCEPT !.processed = TRUE] : s \in orgSave }
  /\ job' = LET todo == IF job.rows = {} THEN {} ELSE User
            IN Mailing("org", todo, [u \in todo |-> job.rows])
  /\ UNCHANGED <<now, shown, version, storing, saved, disabled, remindFrom, reminded, queueJob, lastDone, mails, missed, faults>>

EndJob ==
  /\ job.at = "org" /\ job.todo = {}
  /\ job' = Idle
  /\ UNCHANGED <<now, shown, version, storing, saved, disabled, remindFrom, reminded, orgSave, queueJob, lastDone, mails, missed, faults>>

\* The mails of the run that its open transaction was to record.
Unrecorded ==
  IF job.at \in {"change", "reminder"}
  THEN { m \in mails : m.kind = job.at /\ \E u \in m.to \cap job.sent : m.about = job.about[u] }
  ELSE {}

Lose(S) == (mails \ S) \cup { [m EXCEPT !.lost = TRUE] : m \in S }

\* What the open transaction did is undone; the mail is out.
JobCrash ==
  /\ Fault
  /\ job # Idle
  /\ job' = Idle
  /\ mails' = Lose(Unrecorded)
  /\ UNCHANGED <<now, shown, version, storing, saved, disabled, remindFrom, reminded, orgSave, queueJob, lastDone, missed>>

-----------------------------------------------------------------------------
(* The job on new opportunities: its own log row, one transaction that     *)
(* reads the window and queues, and the row's completion.                   *)

StartQueue ==
  /\ queueJob = Idle
  /\ Stamp(MaxRequest)
  /\ queueJob' = [at |-> "read", created |-> now + 1]
  /\ UNCHANGED <<shown, version, storing, saved, disabled, remindFrom, reminded, orgSave, job, lastDone, mails, missed, faults>>

WindowStart ==
  IF lastDone # 0 THEN lastDone
  ELSE IF queueJob.created > Lookback THEN queueJob.created - Lookback ELSE 0

\* The versions the public could see; the first of them makes an opportunity new.
Seen == { v.created : v \in { x \in version : x.text \in Visible } }

InWindow(t) == WindowStart <= t /\ t < queueJob.created

\* Mutant: the window always reaches back as far as the first.
AnyRecent ==
  { t \in Seen : /\ shown \in Visible /\ t = Earliest(Seen)
                 /\ t < queueJob.created /\ queueJob.created <= t + Lookback }

\* New: the first visible version is in the window, and the opportunity still visible.
NewInWindow == { t \in Seen : shown \in Visible /\ t = Earliest(Seen) /\ InWindow(t) }

\* What the run leaves behind and no later one will look at: a version whose
\* transaction is open, one from before the first window, one that is hidden by now
\* or that nobody wants to hear of.
PassedOver(willing) ==
  { v.created : v \in { x \in storing : x.created < queueJob.created } }
    \cup { t \in Seen : lastDone = 0 /\ t < WindowStart }
    \cup { t \in Seen : (shown \notin Visible \/ willing = {}) /\ InWindow(t) }

\* The run reads the window and who has opted in; it ends early without either.
ReadNew(willing) ==
  LET new == IF willing = {} THEN {} ELSE NewInWindow
  IN /\ queueJob.at = "read"
     /\ queueJob' = [at |-> IF new = {} THEN "finish" ELSE "queue", created |-> queueJob.created,
                      new |-> new, to |-> willing, passed |-> PassedOver(willing)]
     /\ UNCHANGED <<now, shown, version, storing, saved, disabled, remindFrom, reminded, orgSave, job, lastDone, mails, missed, faults>>

\* The rows of all users commit together.
QueueNew ==
  /\ queueJob.at = "queue"
  /\ mails' = mails \cup {[kind |-> "new", to |-> queueJob.to, about |-> queueJob.new, lost |-> FALSE]}
  /\ queueJob' = [queueJob EXCEPT !.at = "finish"]
  /\ UNCHANGED <<now, shown, version, storing, saved, disabled, remindFrom, reminded, orgSave, job, lastDone, missed, faults>>

CompleteQueue ==
  /\ queueJob.at = "finish"
  /\ lastDone' = queueJob.created
  /\ missed' = missed \cup queueJob.passed
  /\ queueJob' = Idle
  /\ UNCHANGED <<now, shown, version, storing, saved, disabled, remindFrom, reminded, orgSave, job, mails, faults>>

\* What the run queued is sent though the run never completes.
Uncompleted ==
  IF queueJob.at = "finish" THEN { m \in mails : m.kind = "new" /\ m.about = queueJob.new } ELSE {}

\* Mutant: a window starts where the last run of all ended, completed or not.
FailureCounts ==
  /\ Fault
  /\ queueJob # Idle
  /\ queueJob' = Idle
  /\ mails' = Lose(Uncompleted)
  /\ lastDone' = queueJob.created
  /\ UNCHANGED <<now, shown, version, storing, saved, disabled, remindFrom, reminded, orgSave, job, missed>>

\* The run failed, or its process stopped: its row is never completed.
QueueCrash ==
  /\ Fault
  /\ queueJob # Idle
  /\ queueJob' = Idle
  /\ mails' = Lose(Uncompleted)
  /\ UNCHANGED <<now, shown, version, storing, saved, disabled, remindFrom, reminded, orgSave, job, lastDone, missed>>

-----------------------------------------------------------------------------

Request ==
  \/ \E text \in Text : Change(text)
  \/ StoreVersion
  \/ \E commits \in BOOLEAN : EndStore(commits)
  \/ \E u \in User : Save(u) \/ Unsave(u) \/ SetPreference(u)
  \/ \E day \in CloseDays : SetCloseDate(day)
  \/ SaveForOrganization \/ UnsaveForOrganization

DailyJob ==
  \/ StartJob \/ CollectChanges \/ CommitChanges
  \/ \E u \in User : Send(u)
  \/ CollectClosing \/ CommitClosing
  \/ ReadOrganization \/ MarkOrganization \/ EndJob

QueueJob ==
  \/ StartQueue \/ QueueNew \/ CompleteQueue
  \/ \E willing \in SUBSET User : ReadNew(willing)

Next ==
  \/ Request \/ DailyJob \/ QueueJob
  \/ \E u \in User : SendFails(u)
  \/ JobCrash \/ QueueCrash

Spec == Init /\ [][Next]_vars

\* The schedule starts the daily job again and again, and a run goes on.
FairSpec == Spec /\ WF_vars(DailyJob)

-----------------------------------------------------------------------------
(* Properties.                                                             *)

\* Rows, mails and versions are what the tables hold.
TypeOK ==
  /\ now \in 0..MaxTime /\ lastDone \in 0..now /\ shown \in Text
  /\ version \subseteq Version /\ storing \subseteq Version
  /\ saved \in [User -> SUBSET SavedRow] /\ \A u \in User : Cardinality(saved[u]) <= 1
  /\ disabled \subseteq User /\ remindFrom \in CloseDays \cup {0}
  /\ reminded \in [User -> SUBSET Time]
  /\ orgSave \subseteq OrgRow /\ Cardinality(orgSave) <= 1
  /\ mails \subseteq Mail /\ missed \subseteq Time
  /\ faults \in 0..MaxFaults

\* The user has had no mail on any of it, but from a run that failed with it out.
IsNews(kind, u, about) ==
  \A m \in mails : m.kind = kind /\ u \in m.to /\ m.about \cap about # {} => m.lost

\* Nobody is sent the same news twice, whatever changes while a run is under way,
\* unless the run that sent it failed before it recorded that; the news of what is
\* saved for an organization is recorded first and so never told twice.
NoneTwice ==
  [][/\ \A u \in User : Send(u) => IsNews(job.at, u, job.about[u])
     /\ QueueNew => \A u \in queueJob.to : IsNews("new", u, queueJob.new)]_vars

Told(u, t) == \E m \in mails : m.kind = "change" /\ u \in m.to /\ t \in m.about

\* When a user's mark moves, each version between the old mark and what the run has
\* read was told to the user in a mail on changes.  The exceptions: a closing reminder
\* moves the mark as well; so does a run for those who turned mail off or knew no
\* version.  A version stored after the run has read is passed untold.
MarksFollowMail ==
  [][\A u \in User : saved[u] # {} /\ Notified(u)' # Notified(u) =>
       \/ job.at = "reminder" /\ u \in job.sent
       \/ job.at = "change" /\ u \in job.silent \cup job.fresh
       \/ /\ job.at = "change"
          /\ \A t \in Created : Notified(u) <= t /\ t <= job.read => Told(u, t)]_vars

\* A new opportunity whose first visible version lies before the start of a completed
\* run was queued, however many runs failed before.  The exceptions: that version
\* committed late, is older than the first window, or was in the window of a completed
\* run that found the opportunity hidden again or nobody opted in.
NewNotMissed ==
  Seen # {} =>
    LET first == Earliest(Seen)
    IN first < lastDone /\ first \notin missed
         => \E m \in mails : m.kind = "new" /\ first \in m.about

\* Before the next run reads: the latest version, not passed by the mark, reads
\* differently from all that a user who saved an earlier one knows.
Owed(u, t) ==
  /\ job.at \in {"idle", "start"}
  /\ Active(u) /\ u \notin disabled
  /\ \E v \in version : v.created < Notified(u)
  /\ t \in Created /\ t = Latest(Created) /\ t > Notified(u)
  /\ \A v \in version : v.created < Notified(u) => v.text # TextAt(t)

\* Such a version is told to the user in the end, though sends fail and runs stop,
\* unless a reminder of a later time stands for it, the user gives up the opportunity
\* or its mail, or a still later version takes its place.
ChangesDelivered ==
  \A u \in User, t \in 1..MaxRequest :
    Owed(u, t) ~>
      \/ Told(u, t)
      \/ \E r \in reminded[u] : r > t
      \/ ~Active(u) \/ u \in disabled
      \/ \E s \in Created : s > t

\* Once a run has moved the mark of a user who knew no version to the time of the
\* latest, the next change is collected for that user.
NextChangeTold ==
  [][CollectChanges => \A u \in User \ disabled :
       Changed(u) /\ Notified(u) \in Created /\ TextAt(Notified(u)) # TextAt(Latest(Created))
         => u \in job'.todo]_vars
================================================================================
