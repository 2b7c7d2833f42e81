----------------------------- MODULE PendingFiles -----------------------------
(***************************************************************************)
(* A file on its way from a presigned upload through the virus scan to an  *)
(* attachment.  The pending_file row (Postgres), the scan record           *)
(* (DynamoDB) and the objects (S3) change in separate calls: those of the  *)
(* scanner's Lambda, started by each event S3 delivers and again by each   *)
(* retry, those of its callback to the API, and those of the requests that *)
(* make attachments.                                                       *)
(***************************************************************************)
EXTENDS Naturals, FiniteSets

CONSTANTS
  File,            \* pending files
  Infected,        \* those the scanner quarantines: a virus, or too large to scan
  Delivery,        \* deliveries of S3's events to the scanner; their number is a bound
  Retries,         \* how often Lambda tries a failed delivery again
  Request,         \* requests that turn a pending file into an attachment
  MaxAttachments,  \* max_attachments_per_application
  MaxFaults        \* bound: failed calls and stopped processes

ASSUME InfectedAssumption == Infected \subseteq File
ASSUME PlaceAssumption == Request \cap {"unscanned", "scanned", "infected"} = {}
ASSUME BoundsAssumption == Retries \in Nat /\ MaxAttachments \in Nat /\ MaxFaults \in Nat

VARIABLES
  row,         \* pending_file, {} or one row each
  record,      \* the scan record's status, "none" before there is one
  objects,     \* the objects in S3
  scan,        \* each delivery: its file, the retries it has left, where its scan is
  callback,    \* the scanner's request to the API, for each attempt of a delivery
  request,
  attachment,  \* the attachment of each request: "none", "live" or "deleted"
  told,        \* the status the uploader's stream sent last
  faults       \* failures so far

vars == <<row, record, objects, scan, callback, request, attachment, told, faults>>

-----------------------------------------------------------------------------

Status == {"pending", "in_progress", "complete", "infected", "processed"}
Terminal == {"complete", "infected"}

\* An object: its place, a prefix of the scan bucket or the path of a request's
\* attachment, and the file it holds.
Object == [place : {"unscanned", "scanned", "infected"} \cup Request, file : File]

Unscanned(f) == [place |-> "unscanned", file |-> f]
Attached(r, f) == [place |-> r, file |-> f]

PendingFile == [status : Status, at : Object]

\* What the scanner finds, and where it copies the file for that.
Verdict(f) == IF f \in Infected THEN "infected" ELSE "complete"
TerminalLocation(f) == [place |-> IF f \in Infected THEN "infected" ELSE "scanned", file |-> f]

\* A session writes only the columns that differ from those it read.
Updated(f, read, new) ==
  { [status |-> IF new.status # read.status THEN new.status ELSE current.status,
     at     |-> IF new.at # read.at THEN new.at ELSE current.at] : current \in row[f] }

Resting == [at |-> "idle"]
Unused == [at |-> "unused"]

Fault == faults < MaxFaults /\ faults' = faults + 1

Init ==
  /\ row = [f \in File |-> {}]
  /\ record = [f \in File |-> "none"]
  /\ objects = {}
  /\ scan = [d \in Delivery |-> Unused]
  /\ callback = [d \in Delivery |-> [n \in 0..Retries |-> Resting]]
  /\ request = [r \in Request |-> Resting]
  /\ attachment = [r \in Request |-> "none"]
  /\ told = [f \in File |-> "none"]
  /\ faults = 0

-----------------------------------------------------------------------------
(* The upload.                                                             *)

\* The row, and the scan record written before it commits: one that stays without
\* a row has an id that nobody was given.
CreatePresignedUpload(f) ==
  /\ row[f] = {}
  /\ row' = [row EXCEPT ![f] = {[status |-> "pending", at |-> Unscanned(f)]}]
  /\ record' = [record EXCEPT ![f] = "pending"]
  /\ UNCHANGED <<objects, scan, callback, request, attachment, told, faults>>

Deliveries(f) == { d \in Delivery : scan[d] # Unused /\ scan[d].file = f }

Deliver(d, f) ==
  /\ scan[d] = Unused
  /\ scan' = [scan EXCEPT ![d] = [at |-> "waiting", file |-> f, left |-> Retries]]

\* The client has the URL now that the row is committed, and may use it again; S3
\* tells the scanner of every object created.
Upload(d, f) ==
  /\ row[f] # {}
  /\ objects' = objects \cup {Unscanned(f)}
  /\ Deliver(d, f)
  /\ UNCHANGED <<row, record, callback, request, attachment, told, faults>>

\* An event is delivered at least once.
Redeliver(d, f) ==
  /\ Deliveries(f) # {}
  /\ Deliver(d, f)
  /\ UNCHANGED <<row, record, objects, callback, request, attachment, told, faults>>

\* An operator sends the payload of a dead letter to the scanner again, long after
\* the requests of its last tries.
Replay(d) ==
  /\ scan[d].at = "dead"
  /\ callback[d] = [n \in 0..Retries |-> Resting]
  /\ scan' = [scan EXCEPT ![d] = [at |-> "waiting", file |-> scan[d].file, left |-> Retries]]
  /\ UNCHANGED <<row, record, objects, callback, request, attachment, told, faults>>

-----------------------------------------------------------------------------
(* The scanner.                                                            *)

To(d, at) == [scan EXCEPT ![d] = [scan[d] EXCEPT !.at = at]]

\* Mutant: the handler does not raise what went wrong.
Swallowed(d) == To(d, "done")

\* An invocation that raises, or is stopped, is tried again; the payload of the
\* last try goes to the dead-letter queue.
Retried(d) ==
  [scan EXCEPT ![d] = IF scan[d].left > 0
                      THEN [at |-> "waiting", file |-> scan[d].file, left |-> scan[d].left - 1]
                      ELSE [scan[d] EXCEPT !.at = "dead"]]

\* An object that is gone was scanned by an earlier delivery.
StartScan(d) ==
  /\ scan[d].at = "waiting"
  /\ scan' = To(d, IF Unscanned(scan[d].file) \in objects THEN "mark" ELSE "done")
  /\ UNCHANGED <<row, record, objects, callback, request, attachment, told, faults>>

\* Whatever the record says by now.
MarkInProgress(d) ==
  /\ scan[d].at = "mark"
  /\ record' = [record EXCEPT ![scan[d].file] = "in_progress"]
  /\ scan' = To(d, "copy")
  /\ UNCHANGED <<row, objects, callback, request, attachment, told, faults>>

Call(d, n, to) == [callback EXCEPT ![d] = [callback[d] EXCEPT ![n] = to]]

\* Mutant: the file is moved, and its first half is the delete.
DeleteBeforeCopy(d) ==
  /\ scan[d].at = "copy"
  /\ objects' = objects \ {Unscanned(scan[d].file)}
  /\ scan' = To(d, "report")
  /\ callback' = Call(d, scan[d].left, [at |-> "select"])
  /\ UNCHANGED <<row, record, request, attachment, told, faults>>

\* Mutant: the uploader is told before the API is.
CopyAndRecord(d) ==
  /\ scan[d].at = "copy"
  /\ Unscanned(scan[d].file) \in objects
  /\ objects' = objects \cup {TerminalLocation(scan[d].file)}
  /\ record' = [record EXCEPT ![scan[d].file] = Verdict(scan[d].file)]
  /\ scan' = To(d, "report")
  /\ callback' = Call(d, scan[d].left, [at |-> "select"])
  /\ UNCHANGED <<row, request, attachment, told, faults>>

\* The download, the copy and the sending of the report.  Download and copy fail
\* when another delivery has done its work and deleted the source.
CopyScanned(d) ==
  LET f == scan[d].file
  IN /\ scan[d].at = "copy"
     /\ IF Unscanned(f) \in objects
        THEN /\ objects' = objects \cup {TerminalLocation(f)}
             /\ scan' = To(d, "report")
             /\ callback' = Call(d, scan[d].left, [at |-> "select"])
        ELSE /\ scan' = Retried(d)
             /\ UNCHANGED <<objects, callback>>
     /\ UNCHANGED <<row, record, request, attachment, told, faults>>

\* The answer of the API reaches a scanner that still waits for it.
Heard(d, n) == scan[d].at = "report" /\ scan[d].left = n

\* update_pending_file_scan_status, in a session of the API: the row ...
ReadRow(d, n) ==
  /\ callback[d][n].at = "select"
  /\ \E p \in row[scan[d].file] : callback' = Call(d, n, [at |-> "check", read |-> p])
  /\ UNCHANGED <<row, record, objects, scan, request, attachment, told, faults>>

\* ... the object, without which it refuses (422) ...
CheckObject(d, n) ==
  /\ callback[d][n].at = "check"
  /\ IF TerminalLocation(scan[d].file) \in objects
     THEN /\ callback' = Call(d, n, [at |-> "commit", read |-> callback[d][n].read])
          /\ UNCHANGED scan
     ELSE /\ callback' = Call(d, n, Resting)
          /\ scan' = IF Heard(d, n) THEN Retried(d) ELSE scan
  /\ UNCHANGED <<row, record, objects, request, attachment, told, faults>>

\* ... and the commit.
CommitStatus(d, n) ==
  LET f == scan[d].file
  IN /\ callback[d][n].at = "commit"
     /\ row' = [row EXCEPT ![f] = Updated(f, callback[d][n].read,
                                          [status |-> Verdict(f), at |-> TerminalLocation(f)])]
     /\ callback' = Call(d, n, Resting)
     /\ scan' = IF Heard(d, n) THEN To(d, "record") ELSE scan
     /\ UNCHANGED <<record, objects, request, attachment, told, faults>>

\* The request does not reach the API, or fails there.
CallbackFails(d, n) ==
  /\ Fault
  /\ callback[d][n] # Resting
  /\ callback' = Call(d, n, Resting)
  /\ scan' = IF Heard(d, n) THEN Retried(d) ELSE scan
  /\ UNCHANGED <<row, record, objects, request, attachment, told>>

WriteRecord(d) ==
  /\ scan[d].at = "record"
  /\ record' = [record EXCEPT ![scan[d].file] = Verdict(scan[d].file)]
  /\ scan' = To(d, "delete")
  /\ UNCHANGED <<row, objects, callback, request, attachment, told, faults>>

\* Its answer may be lost.
DeleteUnscanned(d) ==
  /\ scan[d].at = "delete"
  /\ objects' = objects \ {Unscanned(scan[d].file)}
  /\ \/ scan' = To(d, "done") /\ UNCHANGED faults
     \/ scan' = Retried(d) /\ Fault
  /\ UNCHANGED <<row, record, callback, request, attachment, told>>

\* A call of the scanner fails, or the scanner is stopped; one that gives up
\* waiting for the API leaves its request running there.
ScanFails(d) ==
  /\ Fault
  /\ scan[d].at \in {"mark", "copy", "report", "record", "delete"}
  /\ scan' = Retried(d)
  /\ UNCHANGED <<row, record, objects, callback, request, attachment, told>>

-----------------------------------------------------------------------------
(* The uploader's stream.                                                  *)

\* A stream ends with the scan, and the uploader may open another.  A complete
\* scan is reported with the file's size and path, which needs the object where
\* the row says it is; without it the stream breaks off.
Poll(f) ==
  /\ record[f] # "none"
  /\ told[f] # record[f]
  /\ record[f] = "complete" => \E p \in row[f] : p.at \in objects
  /\ told' = [told EXCEPT ![f] = record[f]]
  /\ UNCHANGED <<row, record, objects, scan, callback, request, attachment, faults>>

-----------------------------------------------------------------------------
(* The requests.                                                           *)

Live == { r \in Request : attachment[r] = "live" }

\* Mutant: any scan that ended will do.
Scanned(p) == p.status \in Terminal

\* validate_file_scan_complete
Usable(p) == p.status = "complete"

\* The file is read where the row says it is.
StartAttach(r, f) ==
  /\ request[r].at = "idle" /\ attachment[r] = "none"
  /\ Cardinality(Live) < MaxAttachments
  /\ \E p \in row[f] :
       /\ Usable(p)
       /\ p.at \in objects
       /\ request' = [request EXCEPT ![r] = [at |-> "copy", file |-> f, read |-> p]]
  /\ UNCHANGED <<row, record, objects, scan, callback, attachment, told, faults>>

Attach(r, at) == [request EXCEPT ![r] = [at |-> at, file |-> @.file, read |-> @.read]]

\* Mutant: a source that is gone is no error.
CopyWhatThereIs(r) ==
  /\ request[r].at = "copy"
  /\ objects' = objects \cup { Attached(r, o.file) : o \in objects \cap {request[r].read.at} }
  /\ request' = Attach(r, "delete")
  /\ UNCHANGED <<row, record, scan, callback, attachment, told, faults>>

CopyAttached(r) ==
  /\ request[r].at = "copy"
  /\ IF request[r].read.at \in objects
     THEN /\ objects' = objects \cup {Attached(r, request[r].file)}
          /\ request' = Attach(r, "delete")
     ELSE /\ UNCHANGED objects
          /\ request' = [request EXCEPT ![r] = Resting]
  /\ UNCHANGED <<row, record, scan, callback, attachment, told, faults>>

DeleteScanned(r) ==
  /\ request[r].at = "delete"
  /\ objects' = objects \ {request[r].read.at}
  /\ request' = Attach(r, "commit")
  /\ UNCHANGED <<row, record, scan, callback, attachment, told, faults>>

\* The attachment's row and the status "processed" commit after the move.
CommitAttach(r) ==
  LET f == request[r].file
  IN /\ request[r].at = "commit"
     /\ attachment' = [attachment EXCEPT ![r] = "live"]
     /\ row' = [row EXCEPT ![f] = Updated(f, request[r].read, [request[r].read EXCEPT !.status = "processed"])]
     /\ request' = [request EXCEPT ![r] = [at |-> "done", file |-> f]]
     /\ UNCHANGED <<record, objects, scan, callback, told, faults>>

AttachFails(r) ==
  /\ Fault
  /\ request[r].at \in {"copy", "delete", "commit"}
  /\ request' = [request EXCEPT ![r] = Resting]
  /\ UNCHANGED <<row, record, objects, scan, callback, attachment, told>>

\* The object goes first, then the row is marked.
DeleteFile(r) ==
  /\ request[r].at = "done" /\ attachment[r] = "live"
  /\ objects' = objects \ {Attached(r, request[r].file)}
  /\ request' = [request EXCEPT ![r] = [at |-> "dropped", file |-> @.file]]
  /\ UNCHANGED <<row, record, scan, callback, attachment, told, faults>>

CommitDelete(r) ==
  /\ request[r].at = "dropped"
  /\ attachment[r] = "live"
  /\ attachment' = [attachment EXCEPT ![r] = "deleted"]
  /\ UNCHANGED <<row, record, objects, scan, callback, request, told, faults>>

-----------------------------------------------------------------------------

Next ==
  \/ \E f \in File :
       \/ CreatePresignedUpload(f) \/ Poll(f)
       \/ \E d \in Delivery : Upload(d, f) \/ Redeliver(d, f)
  \/ \E d \in Delivery :
       \/ Replay(d) \/ StartScan(d) \/ MarkInProgress(d) \/ CopyScanned(d)
       \/ \E n \in 0..Retries :
            ReadRow(d, n) \/ CheckObject(d, n) \/ CommitStatus(d, n) \/ CallbackFails(d, n)
       \/ WriteRecord(d) \/ DeleteUnscanned(d) \/ ScanFails(d)
  \/ \E r \in Request :
       \/ \E f \in File : StartAttach(r, f)
       \/ CopyAttached(r) \/ DeleteScanned(r) \/ CommitAttach(r) \/ AttachFails(r)
       \/ DeleteFile(r) \/ CommitDelete(r)

Spec == Init /\ [][Next]_vars

-----------------------------------------------------------------------------

\* A pending file has one row; scan records, objects, attachments and the
\* stream's last word are of their types.
TypeOK ==
  /\ row \in [File -> SUBSET PendingFile]
  /\ \A f \in File : \A p, q \in row[f] : p = q
  /\ record \in [File -> Status \cup {"none"}]
  /\ objects \subseteq Object
  /\ attachment \in [Request -> {"none", "live", "deleted"}]
  /\ told \in [File -> Status \cup {"none"}]

\* No overlap of scans, retries, late callbacks and requests makes an attachment
\* of a file that the scanner quarantines.
OnlyCleanAttached ==
  \A o \in objects : o.place \in Request => o.file \notin Infected

\* The object of every attachment is there, unless its deletion has begun.
HasFile ==
  \A r \in Live : request[r].at # "dropped" => Attached(r, request[r].file) \in objects

\* Whatever fails between the calls of a scan or of a move, an uploaded file is
\* never gone until somebody deletes an attachment made of it.
NothingLost ==
  \A f \in File : Deliveries(f) # {} =>
    \/ \E o \in objects : o.file = f
    \/ \E r \in Request : request[r].at = "dropped" /\ request[r].file = f

\* An uploader is told of a verdict only when the row has it: from then on the
\* file can be used, or has been, or never will be.  However late the callbacks
\* of failed attempts commit.
ToldTruly ==
  \A f \in File : told[f] \in Terminal =>
    \E p \in row[f] : p.status \in {told[f], "processed"}

\* Once the deliveries of a file have ended and none of them in the dead-letter
\* queue, through whatever failures and retries, nothing of it is left to scan
\* and its row has the verdict.  So has its scan record if the event came only
\* once.  (A second delivery may mark the file as in progress after the verdict
\* of the first and then find it gone.)
ScansSettle ==
  \A f \in File :
    /\ Deliveries(f) # {}
    /\ \A d \in Deliveries(f) : scan[d].at = "done"
    => /\ Unscanned(f) \notin objects
       /\ \E p \in row[f] : p.status \in {Verdict(f), "processed"}
       /\ \A d \in Delivery : Deliveries(f) = {d} => record[f] = Verdict(f)
================================================================================
