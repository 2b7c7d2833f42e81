# TLA+ models of the Simpler Grants API

This directory models the parts of `api/src` whose correctness depends on the
order in which processes, threads, transactions, mails and files act. Six
subsystems are modelled:

- the **workflow service**, where award recommendations are reviewed by events
  that the API queues and background threads apply to a state machine stored in
  the database;
- the **submission pipeline**, from the submit endpoint to the submission
  package;
- **opportunities, their search index and their versions**: publishing, editing,
  the load-transform command under its job lock, the nightly full refresh;
- the **file pipeline**: presigned upload, virus scan in a Lambda function,
  callback to the API, attachment;
- **SAM.gov extracts and organizations**: the task that loads entities, and the
  memberships that logins, invitations and administrators change beside it;
- the **notifications**: the daily e-mail job and the job that queues messages on
  new opportunities.

## The system

| Component | State it keeps | Operations | What is hard | What makes it correct |
|---|---|---|---|---|
| Award recommendation review (`workflow/state_machine/award_recommendation_review_state_machine.py`, `workflow/processor`) | `workflow` row, `workflow_approval` rows, the award recommendation's status | start, eight approvals (approve / requires modification), start of the GMS review, start and end of a revision | approvals over several rounds; three tables that must agree | status, valid approvals and `is_active` belong to the state; no stage skipped; nobody locked out |
| Workflow service (`workflow/manager`, `workflow/handler`) | SQS queue and dead letter queue, threads of each manager, `workflow_event_history`, `workflow_audit` | ingest, fetch a batch, a thread per message, store, delete | threads of a batch on one workflow, redelivery, timeouts, crashes, failed deletes | an event is applied once, stored before its message goes, all or nothing |
| Application submission (`services/applications/submit_application.py`, `submission_consumer`, `task/apply`) | application status, submissions, the same SQS queue | submit, edit, consume, hourly task | message lost or handled by the wrong consumer; consumer against task; submit against edit | one submission per submitted application, none lost |
| Opportunities, current summaries, search index (`search/backend`, `task/opportunities`, `services/opportunities_grantor_v1`, the publish workflow) | summaries, `current_opportunity_summary`, change audit, index behind an alias, delete queue, versions | edit, publish, transform legacy changes, set current summaries, incremental and full refresh, store versions | reads long before the write; index written before the commit; one session's stale objects; a swap that drops what was written meanwhile | one current summary; the index converges; a removal is not forgotten; what is published has a version |
| Task job lock (`task/task_job_lock.py`) | `job_lock` row | take, expire, release | a holder that stops, or outlives its lease | one command at a time |
| File upload and scan (`services/files`, attachment services, the scanner `infra/modules/clamav/src/scan.py`) | `pending_file` row, scan record in DynamoDB, objects in S3, retries and dead letters of the scanner | presign, upload, scan, call back, stream the result, attach, delete | three stores without a transaction among them; events delivered twice, attempts retried, callbacks that commit late; moves that are two calls | only clean files attached; no file lost; the uploader is told the truth |
| SAM.gov extracts (`task/sam_extracts`) | `sam_extract_file`, `sam_gov_entity` | fetch, load in batches, deactivate, link, clean up | a run that stops within an extract; skipped days | the table follows SAM.gov |
| Organizations (`services/organizations_v1`, `services/users`) | organizations, members and roles, invitations | first login, invite, accept, reject, remove, change roles, link | overlapping requests that check and then write | accepted invitations are memberships; the point of contact administers |
| Notifications (`task/notifications`) | `last_notified_at` of saved opportunities, reminder log, `notification_processed_at` of organization saves, job rows | changes, closing reminders, organization saves, new opportunities | mail leaves inside a transaction that may fail; marks are times, not versions | nothing twice, nothing marked that was not sent, nothing new passed over |

The listing endpoints, XML and PDF generation, the SOAP proxy, the copy of the
legacy database, the front end and analytics are listed in `PROJECT.json` with the
reason each is left out.

The parts interact by SQS messages (API to managers and consumers), by rows
(everything else), by objects in S3, and by nothing in memory: two threads of
one manager share no more than two managers do. The database is PostgreSQL under
READ COMMITTED through SQLAlchemy sessions with `expire_on_commit=False`
(`adapters/db/client.py`): an object read in one transaction of a session keeps
its values in the next. A session's `UPDATE` names only the columns whose value
differs from the one it loaded, so a transaction may leave the columns another
has written. The submission consumer and the workflow manager are configured
with the same queue (`SQSConfig.workflow_queue_url`). The deployed service runs
the consumer (`infra/api/service/workflow.tf`); the models let both run.

## Modules

| Module | Models |
|---|---|
| `ReviewMachine` | The transition table, allowed responses, status handlers and the handler's checks, as operators. Shared by the two specifications. |
| `AwardRecReview` | The abstract review: one event at a time, each seeing all earlier ones. |
| `WorkflowService` | The detailed service: API, queue, managers, threads, transactions. |
| `ApplicationLifecycle` | The contract with an applicant about one application: edit, submit, accept with one package. |
| `SubmissionPipeline` | Requests, the shared queue, the consumers' threads, the hourly task and the row locks among them. `Contract(a)` is its instance of the contract for application `a`. |
| `CurrentOpportunity` | Which summary is shown on a day, and with which status. |
| `TaskJobLock` | The lock row: a lease that is not renewed. |
| `OpportunityIndex` | Opportunities, the publish workflow, load-transform and the full refresh. Composes the two above. |
| `PendingFiles` | A file from its presigned upload through the scanner's deliveries to an attachment. |
| `SamExtracts` | SAM.gov and the task that follows it. |
| `Organizations` | Members and invitations, composed with `SamExtracts`. |
| `Notifications` | The daily job's three mailings, and the job on new opportunities. |
| `...Proofs` | Theorems of the module they are named after. |
| `MC...` | Constant values and symmetry for TLC. |

Each module has definitions marked *Mutant*: a plausible mistake in the code,
none of which is part of a specification.

Three modules have a history variable: `raced` (`WorkflowService`), `overlaps`
(a field of a request in `SubmissionPipeline`), `lapses` (`OpportunityIndex`).
Each records that something has happened that nobody wants and the code does not
rule out: two transactions of one workflow open at once, two requests for one
application open at once, a command that outlives its lock. No guard reads one,
but for the bound `Lapses`. They let a property say what holds *until* that
happens, in a specification in which it does happen; the section on departures
says what follows when it has.

## State and code

### Workflow service

`workflow`, `approvals`, `audits`, `history` and `status` are the tables
`workflow`, `workflow_approval`, `workflow_audit`, `workflow_event_history` and
the status column of `award_recommendation`. One award recommendation is
modelled; `FirstWorkflow` is a workflow that may already be under way, and a
start event creates the workflow that bears its event's id. `queue` and
`receives` are SQS's view of each message: not sent, visible, in flight,
deleted, dead-lettered. `pc[p][e]` is where manager `p`'s thread for event `e`
is, `view` what its transaction has read and `gave_up` whether the manager has
stopped waiting for it. `raced` are the workflows of which two transactions have
been open at once (`AlsoOpen`).

`_handle_event` is three steps: `Begin` (the history row is inserted by the
first autoflush, the workflow and the award recommendation are read, the
handler's checks are made), `RunMachine` (the transition's callbacks read the
approvals), `Commit`. Under READ COMMITTED these are the statements whose
relative order other transactions can tell; `UPDATE`s wait for a row lock
another transaction holds, so their effect is that of the order of commits.
`is_active` is written only on the way into the end (`IsActiveAfter`). The insert
of an `event_id` that an open transaction has inserted waits (`HistoryKeyFree`),
and fails once that one has committed. A request for modification reads the rows
it invalidates in `RunMachine`.

A non-retryable error rolls back and stores the history row as failed in a
second transaction (`StoreFailure`). Everything else that goes wrong is `Fail`:
roll back, keep the message. `Crash` drops the threads and their transactions.

### Submission pipeline

`status`, `form`, `submissions` and `submits` are `application_status`, the
response of the application's forms (one, named by the edit that left it), the
`application_submission` rows (the form each package holds) and the number of
`APPLICATION_SUBMITTED` rows in `application_audit`. `history` is the workflow's
event history, which the consumer should leave to the manager. A request also
notes whether another one of its application was open when it began
(`overlaps`); `Overlapped` are the applications of which that is so.

A request is `Validate` (its reads, in `db_session.begin()`), `Write` (the first
flush, after which it holds row locks), `QueueSubmission` (for a submit, before
the commit and not part of it) and a commit, or `Abort`. The row locks are
PostgreSQL's:

| Statement | Lock on the application row | Waits for |
|---|---|---|
| `UPDATE application` (a submit) | FOR NO KEY UPDATE | another UPDATE, FOR UPDATE |
| `INSERT application_audit` (every request) | FOR KEY SHARE, by the foreign key | FOR UPDATE |
| the consumer's `SELECT ... FOR UPDATE NOWAIT` | FOR UPDATE | nothing: fails |
| the task's `SELECT ... FOR UPDATE SKIP LOCKED` | FOR UPDATE | nothing: skips the row |

An edit and a submit do not exclude each other, but either excludes a builder
once it has written (`CanUpdate`, `CanEdit`, `CanLock`). A builder reads the
status and the forms under its lock, so one atomic step at its commit
(`BuildSubmission`, `CommitBatch`) shows all it does to others.

A consumer takes a batch, a thread per message; `HandleMessage` is the thread up
to the build. `FinishBatch` comes when every thread has ended, because the
executor's `with` block waits even for those it has given up on; what the threads
it waited for reported decides what is deleted, and any delete may fail. A crash
of the consumer forgets the batch and its transactions.

A run of the task fetches a batch, builds what it can and commits all of it at
once; `Unbuildable` are applications whose build always raises, and any other
may fail at any time.

### Opportunities and the index

`row[o]` is an opportunity with its summaries, its `current_opportunity_summary`
rows (`current`) and the two flags of its `opportunity_change_audit` row
(`indexed`, `versioned`). A database trigger clears both flags on every change
(`Touched`) and so locks the audit row to the end of the transaction: `Locked`
says which opportunities a transaction has written, and who writes one waits.
`rev` stands for the columns a document shows apart from the summaries. `live`
is the index behind the alias, `version` the latest version, `queue` the delete
queue.

`cmd[c]` is a run of load-transform, step by step: `TransformOpportunities` and
`TransformSummaries` (a transaction each, as in
`AbstractTransformSubTask.run_subtask`; `staged[o]` is what the legacy system has
left for either), `ReadAll` / `SetCurrent` (the decision is taken on
the rows read, and the write adds to the rows as they are then),
`ReadDue` / `LoadRecords` / `ProcessDeleteQueue` / `CommitLoad` (documents are
written in the transaction that marks them), `ReadChanged` / `StoreVersions`. A
session's identity map survives its commits: a document may show what the
session read in an earlier step (`Held`). `CurrentFails` is the primary or
foreign key that a stale decision breaks. `TakeLock` and `Unlock` are
`TaskJobLock`; the lease is not renewed. `lapses` remembers a command that
outlived it (`"overrun"`), one that ran beside a full refresh
(`"beside_refresh"`, which the schedules are to prevent: load-transform at hours 1
to 23, the full refresh at 00:30), and a second publish request while one waits
(`"two_requests"`). The constant `Lapses` bounds which of them may happen; in a
proof it is any set.

The publish workflow is one transaction of a workflow thread: `StartPublish` (the
opportunity is loaded), `WritePublished` (the flag flushed, the document sent to
the index), `CommitPublish` or `AbandonPublish`. Delivery of its events is that of
`WorkflowService`. The full refresh reads, fills a new index, swaps the alias and
then commits its marks; when it fails before the swap it commits them all the
same (`RefreshFails`), because `BaseTask` records the failed job in the session
that holds them.

### Files

`row`, `record` and `objects` are the row in Postgres, the scan record in
DynamoDB and the objects in S3: three stores, changed by separate calls. The
scanner is the Lambda function that is deployed, `infra/modules/clamav/src/scan.py`.
(`local_file_scanner.py` is a mock for `ENVIRONMENT=local`; it is not modelled.)

`scan[d]` is a delivery of one of S3's events: its file, the retries Lambda has
left, and where its handler is. An upload causes one, so does a second use of the
same URL, and S3 may deliver an event again (`Redeliver`). The handler is

| Step | scan.py |
|---|---|
| `StartScan`: look for the source; a missing one was scanned earlier and is skipped | 173-214 |
| `MarkInProgress`: write `in_progress` to the record, whatever it says | 217 |
| `CopyScanned`: download, scan, copy to the scanned or the infected prefix, send the report | 221-232 |
| the API's answer | 232 |
| `WriteRecord`: write the verdict to the record | 233 |
| `DeleteUnscanned`: delete the source | 236 |

Whatever raises, or stops the function (`ScanFails`), makes Lambda try again
`Retries` times (`Retried`); the last failure leaves the payload in the dead letter
queue, from where an operator may `Replay` it. The report is a request to the API
(`callback`, one for each attempt): `ReadRow`, `CheckObject` (422 without the
object), `CommitStatus`. The scanner waits for it, but not for ever: the request of
an attempt that timed out may commit during a later one, or after the file has
become an attachment. `Updated` writes the columns that differ from those the
session read. The request that attaches a file (three services do so in the same
way) reads the row, moves the object by a copy and a delete, and commits. `told`
is what the uploader's stream has sent.

Abstractions. A file uploaded twice is the same, and two scans of it agree:
`Verdict` is a function of the file, infected also if it is too large to scan. The
metadata the scanner reads is always there, because the presigned policy asks for
it. The scanner's role may not list the bucket, so S3 may answer 403 for a missing
source; that is a failed attempt which changes nothing. The scan record is written
before the row commits; one without a row has an id nobody was given, and both are
one step, `CreatePresignedUpload`. A replay is the same delivery again, with its
retries restored, when the requests of its earlier attempts have ended.

### SAM.gov and organizations

`registry` is SAM.gov, `published` the extract of each day: a monthly one with
all active registrations, or a daily one with those changed and those gone.
`file` is `sam_extract_file` by day, `entity` the table. A run of the task is
`Fetch`, `ListPending`, then for each extract in order its batches
(`LoadBatch`; one entity each) and `FinishExtract`, then `ReadLinks` /
`CommitLinks` of `Organizations`, then `CleanUp`; it may fail at any point.

A request of a user reads and checks (`Login`, `Remove`, `UpdateRoles`,
`Invite`, `Respond`) and commits later; keys that the database checks at the
commit decide whether it succeeds (`LinkFails`, the conditions of `CommitAccept`
and `CommitMember`). `"admin"` is every role with `MANAGE_ORG_MEMBERS`.

### Notifications

`now` is the latest timestamp; `shown` is what the opportunity and its current
summary say now, `version` what others see of `opportunity_version`, `storing` the
one whose transaction is open, its time already taken. `Visible` are the texts
with which an opportunity can be found. `saved[u]` is the user's row with
`last_notified_at`. A run of the daily job does its tasks one after the other:
changes (`CollectChanges`, a `Send` for each user, `CommitChanges`), closing
reminders, opportunities saved for the organization (`ReadOrganization`,
`MarkOrganization`, which commits *before* the mails). Requests overtake it
anywhere. `JobCrash` undoes the open transaction and not the mail; the mails that
transaction was to record are `lost` to the database, and no others.

`queueJob` is the other job: its log row is created by `StartQueue`, the window is
read by `ReadNew`, the messages commit with `QueueNew`, and `CompleteQueue`
finishes the row, where the next window starts. `ReadNew` finds the opportunity if
its first visible version is in the window *and* it can be found now
(`get_opportunities.py:71`, `:82`), and queues for nobody if nobody has opted in
(`new_opportunity_notification.py:115`); what a window has passed by for either
reason is in `missed` once the run completes.

### External code

SQS (`Reappear`, `DeadLetter`) is modelled from how the code and
`infra/modules/sqs-queue` use it: a standard queue with a visibility timeout and
a redrive policy. The browser's upload and S3's events (`Upload`, `Redeliver`),
Lambda's retries, SAM.gov
(`NextDay` and its parts), the passing of a close date (`SetCloseDate`) and the
schedules are external too, and as free as their use in the code allows.

## What TLC checks

| Run | Instance | Question |
|---|---|---|
| `review` | 3 users, all events | Over any number of rounds: status, approvals and activity belong to the state; no reviewer is locked out; the end is reached only fully approved. |
| `concurrent` | 2 managers, batches of 2, 2 events, 2 deliveries each | What the event history guarantees under every interleaving: stored before deleted, applied once, all or nothing, final; an ended workflow stays inactive. Until two transactions of a workflow overlap, its audit trail is an unbroken chain and the service implements `AwardRecReview` (refinement mapping: the rows of the one workflow there is, approvals that are valid). |
| `settles` | 1 manager, batches of 2, 2 events, fair | Every visible message is deleted or dead-lettered in the end. |
| `submit` | 1 application, 2 overlapping submits, 1 workflow event, 1 consumer with batches of 2, 2 deliveries, 1 task | Duplicates, crashes, timeouts, failed sends and deletes: never two packages for one submit; accepted means packaged; a submit's message is deleted only when the package exists. |
| `lifecycle` | 2 applications, 2 submits, 1 edit, 1 delivery, task batches of 2 | For every application, until two of its requests overlap: the pipeline implements `ApplicationLifecycle`, and the accepted application has one package with the forms it holds. |
| `accepted` | 2 applications (one unbuildable), 2 submits, 1 delivery, task batch of 2, fair | A submitted application is accepted in the end. |
| `index` | a grantor's and a legacy opportunity, 2 commands, 1 publisher, 3 edits, 1 failure, 2 days, no lapse | One command works at a time; one current summary; a queued removal is neither shown nor forgotten. |
| `index_live` | 1 opportunity, 1 command, 1 publisher, 2 publish requests at once, 1 edit, 1 failure, 2 days, fair | The index, the current summary and the delete queue converge once edits end. |
| `files` | 2 files (one infected), 2 deliveries of 2 attempts each and replays, 2 requests, 1 failure | Only clean files are attached, every attachment has its object, no upload is lost, the uploader is told the truth, a file whose deliveries have ended is settled. |
| `organizations` | 1 entity, 2 users, 3 days (monthly extracts on the first and third), 3 requests, 1 invitation, 1 failed run, fair | The table follows SAM.gov; accepted means joined; the contact administers in the end; every extract is loaded in the end. |
| `notifications` | 1 user, a text with which the opportunity is found and one with which it is not, 3 timestamps for requests, 6 in all, 2 failures, fair | Nothing twice; a mark moves past a change with the mail, or for one of three named reasons; no new opportunity passed over by failed runs; a change that is owed is told. |
| `notifications_next` | the same, 4 timestamps, no failure | *Violated*: a user who saved before the first version is told of the change after it (see the findings below). |

### Bounds

*Workflow.* Two events are enough for a race of two transactions, two managers
for one message handled twice at once, two deliveries for a redelivery after a
crash, a timeout or a failed delete. A review that starts in `pending_executive_approval` has every
kind of next step. `BatchSize` (10 in the code) and `MaxReceives` (3) are bounds
of the system itself, smaller here; `EventId` bounds the events sent.

*Pipeline.* Two threads of one batch, each with a submit of the same
application, contend as two consumers with two deliveries would (the proofs are
for any number of consumers); a second application matters where a batch of the
task has more than one element. `TaskBatch` (25), `MaxBatches` (100) and
`BatchSize` (10) are the system's bounds; `SubmitId`, `EditId` and `EventId`
bound the requests and events. In `accepted`, `TaskBatch` is above the number of
unbuildable applications.

*Index.* Three edits are enough to publish, to withdraw and to show again while
a command is between its read and its write; two commands for a takeover of a
lock; two days for a summary whose date is reached between two runs. The
`MaxFaults` failure may be a crash, an index that does not answer or a lost
commit. `TestOpportunity` is empty in both runs; its documents are never written.
`index` has no lapse, since three of its properties promise nothing after one;
`index_live`, whose properties do, has two requests at once.

*Files.* Two deliveries are a second upload or a duplicate event. With two attempts
each, a callback can be late by an attempt. The failure may stop a scan, a callback
or a request at any point; beside it an attempt fails by itself when the other
delivery has taken the source, or a request the object the API looks for, so that
both attempts of a delivery can fail and the dead letter be replayed. Two requests
at a file with a verdict contend for it. Proofs cover any numbers of all these.

*Organizations.* Three requests are two administrators acting on each other
beside a login; three days have a monthly extract, a daily one, and a monthly
one that makes up for a missed day. Proofs cover more days, entities and users.

*Notifications.* Two versions and a save, in any order, take the three
timestamps; the other three are the job's marks. Two failures are a failed send
and a crash, or two crashes. Proofs cover more.

Symmetry permutes event ids and managers, requests in the pipeline's safety
runs, commands, and deliveries and attachment requests: no definition orders or
names them. Liveness runs use none. `organizations`, where
users are alike, names the first point of contact instead.

`CHECK_DEADLOCK FALSE` wherever the bounded behaviours end (requests, messages,
days and faults are finite in number).

### Fairness

*Workflow.* Each manager goes on fetching and finishing, each thread takes its
next step (database statements return or raise), SQS ends a visibility timeout
and moves an exhausted message. Nothing obliges a user to send, a process not to
crash, a statement not to fail or a delete to succeed. Weak fairness is enough:
a thread that is enabled stays enabled until it steps, but for one waiting on
another's history row, which can happen only as often as the message is
delivered.

*Pipeline.* Open requests go on, consumers fetch and finish, their threads end,
SQS moves messages on, and the schedule starts the task. Strong fairness is asked
of the commit of a batch (not every hourly run is lost) and of the build of one
application by the task unless it is `Unbuildable`. Both are assumptions about
S3, the PDF service and ECS, which fail for a time and not for ever. Sends may
all be lost and the consumer may fail every time: the task is the only thing
relied on.

*Index.* Schedules start the command and the refresh again and again, and each
goes on; strong fairness because both wait for row locks that are taken and
freed, and for each other (the schedules keep load-transform to hours 1 to 23 and
the full refresh to 00:30). A lease ends (weakly fair).
`QueueDrains` needs a command that ends: within its bound on failures, the index
answers.

*Organizations.* The task runs daily and a run goes on: weak fairness of all its
steps together. Failures are bounded; requests are not obliged to anything.

*Notifications.* The same for the daily job. The job on new opportunities is
under no fairness.

## Where the code departs from what is written about it

Behaviours that the actions allow, met while modelling. One has a run of its own,
`notifications_next`. Where another would break a property, the property's condition,
named here, excepts it.

Workflow service:

- Two threads of one batch read the workflow in `pending_executive_approval`.
  The approval commits (`end`, inactive), then the request for modification
  commits `pending_revision_start`; it read `is_active` as true and leaves the
  column alone. The workflow is inactive in a state that is not final, although
  `workflow_models.py:29` says it is active until it reaches an end state. The
  race the other way round leaves an approval valid in a revision. The audit trail
  then is no chain: `raced`.
- The start endpoint checks rows that change only when a worker handles the
  start event (`start_award_recommendation_review_workflow.py:46`), and the
  worker's check is off for this type: two overlapping starts make two reviews
  (`Intact` asks for one).
- A thread that outlives its timeout commits, where the comment at
  `workflow_manager.py:58` says it rolls back. An event whose message was not
  deleted after its non-retryable error conflicts with its own history row at
  every redelivery and is dead-lettered, where the redrive guide says such events
  do not go.

Submission pipeline:

- An edit that was validated before the submit commits after it
  (`submit_application.py:45`): the package may not be what the applicant sees.
  The second of two overlapping submits may commit after the first was accepted
  and set the status back, and a second package is built for it. `Overlapped`
  records it.
- The consumer deletes workflow events it cannot parse from the queue the two
  share (`submission_consumer.py:69`).
- The task's `LIMIT` has no `ORDER BY` and failed applications stay submitted
  (`create_application_submission_task.py:127`): a batch's worth of them keeps
  the others out.

Opportunities and index:

- Two publish requests for one opportunity, an edit and a change of day between
  them can leave two current rows, or one for an opportunity that is queued for
  removal (`"two_requests"` in `lapses`).
- The lease of twenty minutes is not renewed: a slow command and the one that
  takes over may both work (`"overrun"`). Were the full refresh to run
  beside a command, an entry could leave the delete queue with its document
  restored by the swap (`"beside_refresh"`).
- A legacy opportunity whose delete entry exists already fails every later
  transformation (`transform_opportunity.py:84`), and with it the command: the
  queue and the current summaries stand still. `index_live` has no legacy
  opportunity for that reason.
- Edits between the read and the mark of `store_opportunity_version_task.py:115`
  get no version, and no later run makes one; the index is healed by the full
  refresh, versions are not.
- A deleted legacy summary takes the current row with it without queueing the
  removal (`opportunity_models.py:322`); the daily decision, which finds no row
  to compare, repairs only what is shown.

Files:

- A duplicate delivery that finds the source just before the first one deletes it
  marks the record `in_progress` (`scan.py:217`) after the first has written its
  verdict (`:233`); its download fails, and the retry finds the source missing and
  skips it. The record says `in_progress` for good, although `scan.py:25-26` and
  `:38-39` call the writes idempotent and the duplicate a no-op, and
  `file-upload-and-scanning.md:30` says that scanning is happening. An uploader who
  opens the stream then waits in vain; the row is right. `ScansSettle` therefore
  speaks of the record only of a file delivered once.
- One pending file can become two attachments, by two requests that overlap or by
  a late callback that says "complete" after "processed", where
  `create_application_attachment_from_pending_file.py:37` says it is not stored
  twice and `file-upload-and-scanning.md:34` that it is no longer available; the
  limit of attachments is counted without a lock (`:49`).
- A commit that fails after the move leaves a row that names a place with no
  object (`pending_file_handling_domain_specific.py:121`): the file is there, but
  no later request can use it. The object of an attachment is deleted before its
  row (`delete_award_recommendation_attachment.py:34`).
- The stream reads metadata where the row says the object is
  (`stream_file_scan_results.py:171`) and breaks off once a request moved it.

SAM.gov and organizations:

- A deactivation in a daily extract that was never fetched before the next
  monthly one is never applied (`fetch_sam_extracts.py:108`); the second disjunct
  of `EntityFollowsRegistry`. A failing download undoes the whole fetch (`:45`).
- The check for the last administrator takes no lock
  (`remove_user_from_organization.py:53`) and a change of roles makes no such
  check: an organization can be without one until the task links its contact.
- Two invitations of one user can overlap (`create_organization_invitation.py:92`);
  a member who accepted one and was removed can never be invited again (`:94`).

Notifications:

- A user who saved before the first version gets no mail on it, and the mark is set
  to that version's time (`opportunity_notifcation.py:227`), "so the next change
  produces a proper diff" (`:216`). But what a user knows are the versions with a
  time *before* the mark (`:362`), so the second version is treated as the first was
  and its change is passed over in silence: `notifications_next` finds
  `NextChangeTold` violated. `Owed` asks for a version before the mark.
- A version whose time is taken before a run reads and which commits after it, or
  one stored between a run's read and its mark, is older than the mark and never
  mailed (`opportunity_notifcation.py:123`, `:736`). A closing reminder moves the mark too
  (`closing_date_notification.py:211`), over a change whose mail had failed.
  `MarksFollowMail` names both exceptions, `Owed` begins when no run is between its
  read and its mark, and `ChangesDelivered` lets a later reminder take the place of
  the mail.
- A save of the organization between the read and the `UPDATE` is marked and not
  mailed (`org_saved_opportunity_notification.py:149`, `:171`); a crash after the
  mark loses the mail (`:282`).
- Mail sent in a transaction that fails is sent again (`base_notification.py:118`):
  `NoneTwice` excepts it. The reset mode returns after the first user.
- A version that commits late is before the window of the next run
  (`new_opportunity_notification.py:162`), and an opportunity that is hidden again
  when the next run completes is never announced: `missed` in `NewNotMissed`.

## What is proved

For every value of the constants, from the named assumptions of the modules and
no others; TLC evaluates those on every run. Sets of users, events, managers,
opportunities, files and so on are arbitrary, infinite ones included. No theorem
has a hypothesis besides: every one is of the form `Spec => ...` for the
specification that TLC runs, with all its overlaps. Where a property holds only
until something has happened, it says so by a history variable, and that variable
is kept by the specification.

| Theorem | Promises | Until |
|---|---|---|
| `AuditTrailHolds` | the audit rows of a workflow are an unbroken chain | two transactions of that workflow have been open at once (`raced`) |
| `ReviewImplemented` | each step is one of `AwardRecReview` or none | any two of a workflow have, or a second review was started (`Intact`) |
| `LifecycleImplemented`, `OnePackageHolds` | the contract of an application | two requests for that application have been open at once (`Overlapped`) |
| `OneCommandAtOnce` | one run of load-transform at work | a run has outlived its lease (`"overrun"`) |
| `OneCurrentSummary`, `QueuedNotShown` | one current row; none for what is queued for removal | that, or a second publish request (`InTurn`) |
| `QueueForgetsInTime` | an entry leaves the delete queue when its document has | one of these, or a full refresh beside a command |

**`AwardRecReviewProofs`.** `StatusFollowsState`, `ApprovalsCoverStages` and
`ActiveUntilEnd` say of a state what the tables hold in it, by way of `Passed`
(the approvals a state has behind it) and `StatusOf`. They are inductive
together and not apart: which row an approval adds is known only because the
valid approvals are those of the stages passed, and that an inactive workflow
takes no event only because activity follows the state. `ReviewInv` is their
conjunction with one approval per stage. Every action of the review is a
`Handle` of a well-formed event (`StepHandlesEvent`), so the preservation is
proved once, over three facts of the transition table (`ApprovalAdvances`,
`StepKeepsStages`, `StatusAdvances`). From it: `StagesCovered`,
`NoReviewerLockedOut`, `StatusFollows`, `TypesCorrect`, and the action property
`StepsCorrect`.

**`WorkflowServiceProofs`.** None of `StoredBeforeDelete`, `AppliedOnce` and
`EffectsMatchHistory` is inductive. `ServiceInv` adds what they rest on:

- `OpenTransactions`: an event that an open transaction handles is not stored,
  and no second transaction handles it. This is the work of the history table's
  primary key. Without it a commit could append a second audit row.
- `ReportedIsStored`: a thread returns "success" or "non-retryable" only once
  the history has the event. A delete, whose time is the end of the batch,
  looks at nothing else.
- `SentBeforeHandled`: only sent events have threads or rows, so sending one
  changes the content of no event in use.
- `CreatedByStart`: the workflow of a start event exists only once that event
  is stored, so the commit of a start never meets an earlier row.

`ServiceCorrect` is `Spec => []ServiceInv`, one lemma per action; the steps that
leave the tables alone share `TablesUnchanged`, `QueueStep` and `ThreadsStep`.
`TypesCorrect`, `DeletedIsStored`, `EventsAppliedOnce` and `EventsAllOrNothing`
are its conjuncts. `HistoryStays` follows from `OpenTransactions` (a commit
writes only the row of an event not stored yet), and `FinishedStays` from the
column `is_active` being written only on the way into the end.

`TrailInv` says what the threads of a workflow know until it is raced:

- `OneTransaction`: two open transactions are of different workflows or of a raced
  one. `Begin` is the only step that opens one, and there `raced` is extended.
- `ViewsAreCurrent`: the state and approvals such a transaction has read are still
  in the tables, and its checks still pass; what it will revoke is exactly what is
  valid. Any other thread that commits meanwhile does so for another workflow,
  and `RevokesOwn` and `IdsAreOwn` say that this leaves the approvals alone.
- `AuditedExists`: only a workflow that exists has audit rows, so a start begins a
  chain and does not continue one.

With `AuditTrailUnbroken` they are inductive beside `ServiceInv` (`TrailCorrect`):
the row a commit appends has as its source the state it read, which is the target
of the latest row because the view is current. `ReviewImplemented` adds
`RefinementInv`: every event that was sent is a step of the review it names
(`StepsAreSent`), a transaction that can commit in an intact review has read the
status that is still there (`StatusIsCurrent`), and the mapped rows satisfy
`AwardRecReview`'s own `ReviewInv`. Only `Commit` writes the mapped tables
(`WhoWrites`); if the review is intact after it, it was before (`IntactBefore`),
and the view stood for the tables, so the step is the machine's `Handle` of that
event (`CommitHandles`), hence a disjunct of its `Next` (`HandledIsStep`); every
other step stutters (`StepImplements`). The preservation lemma of
`AwardRecReviewProofs` carries the invariant across (`ReviewStepKeeps`;
`SameMachine` says that the two modules name one transition table). What is proved
is `ImplementsReview`: `ReviewInv` in every intact state, and `[Review!Next]` for
every step into one.

**`SubmissionPipelineProofs`.** `PackagePerSubmit` and `DeletedIsBuilt` are not
inductive. `PipelineInv` adds:

- `BuilderHoldsSubmitted` and `BatchHoldsSubmitted`: a row lock has one holder
  among all threads and runs, and its application is still submitted. Without
  this a commit could append a second package or find nothing to accept.
- `BuilderExcludesWriters`: while a package is built no request has written to
  its application. Without it the commit of a submit could change a status that
  a builder has read.
- `SentForApplication`: a message in use was sent, so its request has an
  application and never changes it.
- `ReportedIsBuilt`: what a thread reports as handled has a package, which is all
  the deletes look at.
- `BatchesLeft`: for the type of `task`.

`PipelineCorrect` is `Spec => []PipelineInv`; steps that start no build share
`NoBuildStep`, those of an open request `RequestStep`, and the two commits of
packages `AcceptKeepsPackages`. `TypeCorrect`, `NoSecondPackage`,
`AcceptedOnlyWithPackage` and `NoSubmitForgotten` are its conjuncts.

`LifecycleImplemented` is the refinement, for each application as long as it is
not in `Overlapped`, whatever befalls the others. It needs one more invariant,
`OpenIsAlone`: an open request of such an application is the only one, and the
application is in progress. Then `CommitEdit` is `Edit`, `CommitSubmit` is
`Submit`, `BuildSubmission` accepts one application and `CommitBatch` a set of
them (`AcceptRefines`); every other step stutters (`KeepsContract`).
`OnePackageHolds` follows from the contract alone (`ContractKeepsPackage`). The
condition cannot be dropped: the edit beside a submit, above, is a counterexample.

**`OpportunityIndexProofs`.** `IndexInv` is the types of tables, publish
transactions and staged changes, `WorkerHoldsLock` (until one has outlived its
lease, a run that works is the holder of record and its lease has not ended), and
`PublishedHasVersion`: whatever a grantor published has a version, since the flag
and the version are written in one step, `CommitPublish`, and only the deletion of
a legacy opportunity takes a version away. `OneCommandAtOnce` follows from the
second: a record names one holder, and `TakeLock` needs an ended lease.

`OneCurrent` and `QueuedHasNoCurrent` relate what two processes write from what
they read earlier. `CurrentInv` adds:

- `RequestsKnown`: a request waits for a grantor's draft, and one thread handles
  it. So a publish transaction finds a draft, whatever happened since.
- `DraftsHidden`: a grantor's draft has no current summary and is not queued; it
  never becomes a draft again.
- `WrittenKnown`: a transaction that has written found nothing current and leaves
  at most one row, of no draft.
- `SeenKnown`: what the task read as current still is, or the opportunity was a
  draft that has been published since; of a draft the task makes nothing, so it
  writes only rows that it knows (`RedeterminedKnown`).
- `QueueHidden`, `CommandShape`: what is queued is not shown, and the fields of a
  run's record.

It holds in every state without the two lapses (`CurrentCorrect`), and lapses are
never taken back (`LapsesStay`), so that a state without them has only such states
before it.

`QueueForgets` speaks of a document that was deleted a step before its entry is
cleared. `PurgeKnown` says that it is still gone: another command is excluded by
the lock, the swap of a full refresh by `NightApart`, and a publish transaction,
which may write to the index before it commits, concerns a draft, whose entry
cannot be in the queue.

**`PendingFilesProofs`.** The properties relate stores that change at different
times, so `FilesInv` says what each scan, callback and request may rely on in
between:

- `RowsKnown`: a row is as it was created, or has the verdict of its file and the
  place for it.
- `ScansKnown`: a scan reports only what it has copied, and goes on to the record
  and the delete only when the row has had the verdict (`Safe`, `Reported`).
- `CallsKnown`: what a callback has read was a row of its file, however old. This
  is why a late commit writes a verdict and its place, and never takes one back.
- `RequestsKnown`: a request works on a clean file, from the place its row named.
- `AttachedThere`: from the copy to the deletion the object of an attachment is at
  its place, which nobody else touches.
- `SourceKept`: the source is deleted only when the file is elsewhere and the row
  has the verdict; while it is there, a delivery is waiting, at work or dead.
- `RecordsTrue`: a verdict in the record or the stream is the file's, and the row
  has had it.
- `OneDelivery`: a file delivered once keeps its source until its record has the
  verdict.

`InfectedNeverAttached`, `AttachmentsHaveFiles`, `UploadsSurvive`, `ToldAfterRow`
and `ScansEndSettled` follow from them, for any number of deliveries, retries,
replays and failures.

**`SamExtractsProofs`.** `LoadInv` says that extracts are loaded in order
(whatever is pending is later than whatever is loaded; what was skipped lies
before a monthly one), that a row is the last loaded record of its entity or
already that of the extract under way (`AsLoaded`, `Ahead`), and that the
registry is what the extracts up to today add up to, a monthly one repeating
every active registration. So when nothing is pending and today's is loaded, a
row that differs from the registry differs in a deactivation that lies on a day
without a file. The proof extends `Organizations`, whose two steps of the task
leave the table alone.

**`OrganizationsProofs`.** `AcceptedJoined`: a flag of acceptance is set by
`CommitAccept` alone, with the membership, and a rejection that overlaps does not
outrank it. `TypesCorrect` is `TypeOK`, which is not inductive: a request and the
task write at their commit what they looked up when they began. `MemberInv` says
that these are users and entities still (`LinkTyped`), and `LoadInv` of the proofs
above gives the types of the extracts.

**`NotificationsProofs`.** The properties speak of one step, and rest on what a
run has read long before. `MailingInv` adds:

- `Clock`: no timestamp lies ahead of `now`, and versions commit in the order of
  their times (one open transaction at a time).
- `JobInv`: what a run has collected was news to its users then and still is for
  those to be sent to; `job.read` belongs to every mail it sends; each user it
  counts as sent to has that mail; requests take no row and no mark away.
- `MailInv` (`Remembered`): every mail that is not lost is recalled by the
  run that sent it, or by the mark or reminder that its commit left: the versions
  it was about are older than the user's mark, the reminder's date than the log
  row, the new opportunity than the last completed window. This is why the next
  run cannot collect it again; a crash excuses only the mails whose record was in
  the transaction it undid.
- `QueueInv`: before a run finishes, the first version lies behind its window only
  if it was queued, or passed over or missed; and an open version transaction is
  later than the window, or counted as one of these.

`MailingCorrect` is `Spec => []MailingInv`; the requests share `RequestInv`, the
steps that collect share `MoveOn`, the two commits of marks `CommitInv`, and
either job is kept by `QueueKept` or `JobKept` from the other one's steps.
`NothingTwice` and `MarkedWhenTold` are action properties from `JobInv`,
`QueueInv` and the form of the marks; `NewQueued` and `MailTypes` are conjuncts.

The type invariants of all modules and the inductive invariants are proved for
every instance; no run but `organizations` repeats one.

## What is only model-checked

All liveness (`Settled`, `SubmittedIsAccepted`, `Converges`, `CurrentFollows`,
`QueueDrains`, `ContactAdministers`, `Loaded`, `ChangesDelivered`), which is out
of the prover's reach. Every invariant, action property and refinement that a
passing run checks is also a theorem. No module is recursive.

## Not modelled

Messages that do not parse, approval e-mails and their order with the commit,
metrics, maintenance mode, the agency check of a user's privileges (the worker
trusts the API's), user rows that disappear, and start events through the generic
endpoint, which only an internal testing privilege allows. The prototype state
machine drives no domain object, and no configuration asks for more than one
approval, so that its count under concurrency has no consequence.

In the pipeline: a message whose application does not exist (none is deleted), the
audit row of a rejected submit, the content of the package and its files in S3 (a
rollback leaves a file that no row names), changes of an application's name,
attachments and users, and the retention period of the queue.

In the index: the copy of the legacy tables before the transformations, agencies and
attachments in a document, the index of agencies, batches within a step (a step is
the whole set; its failure is any part of it that is undone or committed as in
the code). In the files: ClamAV itself, the local mock of the scanner, the
uploader's form and its limits, and the two services that attach in the same way as
the one the model follows. In organizations: requests to join, expired
registrations (they change nothing), and roles below the one that manages members.
In notifications: opportunities of a test agency, saved searches (they are updated
even if their mail fails, `search_notification.py:92`), suppressed addresses, the
wording, and the processor that would send what is queued, which does not exist yet.

Read endpoints keep no state. Login with its external protocol, XML and PDF
generation, the SOAP proxy, the front end, analytics and the rest of `infra` are out
of what TLC can say something about: pure conversion, other systems, configuration
or presentation.

## Plan

What could follow: requests to join an organization
beside invitations; saved searches and suppressed addresses beside the daily job.
