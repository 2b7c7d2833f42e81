-------------------------- MODULE PendingFilesProofs --------------------------
(***************************************************************************)
(* Safety of PendingFiles, for any files, deliveries, retries and          *)
(* requests.  The invariant says of each scan, each callback and each      *)
(* request what it may rely on between two of its calls.                   *)
(***************************************************************************)
EXTENDS PendingFiles, TLAPS

ScanState ==
  {Unused}
    \cup [at : {"waiting", "mark", "copy", "report", "record", "delete", "done", "dead"},
          file : File, left : 0..Retries]

CallState ==
  {Resting} \cup [at : {"select"}] \cup [at : {"check", "commit"}, read : PendingFile]

RequestState ==
  {Resting}
    \cup [at : {"copy", "delete", "commit"}, file : File, read : PendingFile]
    \cup [at : {"done", "dropped"}, file : File]

Types ==
  /\ TypeOK
  /\ scan \in [Delivery -> ScanState]
  /\ callback \in [Delivery -> [0..Retries -> CallState]]
  /\ request \in [Request -> RequestState]

\* What a row of f may say: it is as created, or has the verdict and its place.
Known(f, p) ==
  \/ p = [status |-> "pending", at |-> Unscanned(f)]
  \/ /\ p.at = TerminalLocation(f)
     /\ p.status = Verdict(f) \/ (p.status = "processed" /\ f \notin Infected)

RowsKnown == \A f \in File : \A p \in row[f] : Known(f, p)

\* The row of f has had the verdict.
Reported(f) == row[f] # {} /\ \A p \in row[f] : p.status # "pending"

\* f has been copied away from where it was uploaded, or attached and then deleted.
Safe(f) ==
  \/ \E o \in objects : o.file = f /\ o.place # "unscanned"
  \/ \E r \in Request : request[r].at = "dropped" /\ request[r].file = f

\* A scan goes on only after what it has reported and copied.
ScansKnown ==
  \A d \in Delivery : scan[d] # Unused =>
    /\ row[scan[d].file] # {}
    /\ scan[d].at \in {"report", "record", "delete"} => Safe(scan[d].file)
    /\ scan[d].at \in {"record", "delete"} => Reported(scan[d].file)

\* What a callback has read is a row of its file, and old at worst.
CallsKnown ==
  \A d \in Delivery, n \in 0..Retries : callback[d][n] # Resting =>
    /\ scan[d] # Unused
    /\ callback[d][n].at \in {"check", "commit"} =>
         /\ Known(scan[d].file, callback[d][n].read)
         /\ callback[d][n].read.status # "pending" => Reported(scan[d].file)

\* A request works on a clean file, from where the scan has put it.
RequestsKnown ==
  \A r \in Request :
    /\ request[r].at # "idle" => request[r].file \notin Infected
    /\ request[r].at \in {"copy", "delete", "commit"} =>
         /\ request[r].read = [status |-> "complete", at |-> TerminalLocation(request[r].file)]
         /\ Reported(request[r].file)

\* An attachment's object is there from its copy to its deletion.
AttachedThere ==
  \A r \in Request :
    /\ request[r].at \in {"delete", "commit", "done"} => Attached(r, request[r].file) \in objects
    /\ attachment[r] = "live" => request[r].at \in {"done", "dropped"}

\* The source goes last, when the file is elsewhere and the row has the verdict;
\* while it is there, somebody is to scan it.
SourceKept ==
  \A f \in File :
    /\ Deliveries(f) # {} /\ Unscanned(f) \notin objects => Safe(f) /\ Reported(f)
    /\ Unscanned(f) \in objects => \E d \in Deliveries(f) : scan[d].at # "done"

\* The record and the stream repeat the verdict only.
RecordsTrue ==
  \A f \in File :
    /\ record[f] \in Terminal => record[f] = Verdict(f) /\ Reported(f)
    /\ told[f] \in Terminal => told[f] = Verdict(f) /\ Reported(f)

\* A file delivered once has its source until the record has the verdict.
OneDelivery ==
  \A f \in File, d \in Delivery : Deliveries(f) = {d} =>
    /\ scan[d].at \in {"delete", "done"} => record[f] = Verdict(f)
    /\ Unscanned(f) \notin objects =>
         record[f] = Verdict(f) /\ scan[d].at \in {"waiting", "done", "dead"}

FilesInv ==
  /\ Types
  /\ RowsKnown
  /\ ScansKnown
  /\ CallsKnown
  /\ RequestsKnown
  /\ OnlyCleanAttached
  /\ AttachedThere
  /\ SourceKept
  /\ RecordsTrue
  /\ OneDelivery

-----------------------------------------------------------------------------

USE DEF Resting, Unused

LEMMA InitInv == Init => FilesInv
<1> SUFFICES ASSUME Init PROVE FilesInv
  OBVIOUS
<1>1. Types
  BY DEF Init, Types, TypeOK, ScanState, CallState, RequestState, Status
<1> QED
  BY <1>1 DEF Init, FilesInv, RowsKnown, ScansKnown, CallsKnown, RequestsKnown, OnlyCleanAttached,
     AttachedThere, SourceKept, RecordsTrue, OneDelivery, Deliveries, Terminal

\* A file is uploaded as what the scanner has not seen, and its verdict is final.
LEMMA Places ==
  ASSUME NEW f \in File
  PROVE  /\ TerminalLocation(f) \in Object /\ Unscanned(f) \in Object
         /\ TerminalLocation(f).file = f
         /\ TerminalLocation(f).place \in {"scanned", "infected"}
         /\ Verdict(f) \in Terminal
         /\ Verdict(f) = "complete" <=> f \notin Infected
BY DEF TerminalLocation, Unscanned, Object, Verdict, Terminal

LEMMA AttachedApart ==
  ASSUME NEW r \in Request, NEW f \in File
  PROVE  \A g \in File : Attached(r, f) # Unscanned(g) /\ Attached(r, f) # TerminalLocation(g)
BY PlaceAssumption DEF Attached, Unscanned, TerminalLocation

\* A step of one scan: its delivery stays what it is, and the others as they are.
Moves(d, to) ==
  /\ scan[d] # Unused
  /\ scan' \in [Delivery -> ScanState]
  /\ \A e \in Delivery : e # d => scan'[e] = scan[e]
  /\ scan'[d] # Unused /\ scan'[d].file = scan[d].file /\ scan'[d].at \in to

Steps == {"waiting", "mark", "copy", "report", "record", "delete", "done", "dead"}

LEMMA ToMoves ==
  ASSUME Types, NEW d \in Delivery, scan[d].at # "unused", NEW at \in Steps, scan' = To(d, at)
  PROVE  Moves(d, {at})
BY DEF Types, ScanState, To, Moves, Steps

LEMMA RetriedMoves ==
  ASSUME Types, NEW d \in Delivery, scan[d].at # "unused", scan' = Retried(d)
  PROVE  Moves(d, {"waiting", "dead"})
<1>1. scan[d] \in [at : Steps, file : File, left : 0..Retries]
  BY DEF Types, ScanState, Steps
<1>2. CASE scan[d].left > 0
  <2>1. scan[d].left - 1 \in 0..Retries
    BY <1>1, <1>2, BoundsAssumption
  <2> QED BY <1>1, <1>2, <2>1 DEF Types, ScanState, Retried, Moves, Steps
<1>3. CASE ~ (scan[d].left > 0)
  BY <1>1, <1>3 DEF Types, ScanState, Retried, Moves, Steps
<1> QED BY <1>2, <1>3

LEMMA MovedDeliveries ==
  ASSUME Types, NEW d \in Delivery, NEW to, Moves(d, to)
  PROVE  \A f \in File : Deliveries(f)' = Deliveries(f)
BY DEF Moves, Deliveries

\* While a source stays, a scan of it that is not over stays, or becomes another.
LEMMA SourceStep ==
  ASSUME Types, SourceKept, NEW d \in Delivery, NEW to, Moves(d, to),
         scan'[d].at = "done" => Unscanned(scan[d].file) \notin objects',
         \A f \in File :
           /\ Unscanned(f) \in objects' => Unscanned(f) \in objects
           /\ Safe(f) => Safe(f)'
           /\ Reported(f) => Reported(f)'
           /\ Unscanned(f) \in objects \ objects' => Safe(f)' /\ Reported(f)'
  PROVE  SourceKept'
<1>1. \A f \in File : Deliveries(f)' = Deliveries(f)
  BY MovedDeliveries
<1> SUFFICES ASSUME NEW f \in File
             PROVE  /\ Deliveries(f) # {} /\ Unscanned(f) \notin objects' => Safe(f)' /\ Reported(f)'
                    /\ Unscanned(f) \in objects' => \E e \in Deliveries(f) : scan'[e].at # "done"
  BY <1>1 DEF SourceKept, Unscanned
<1>2. Deliveries(f) # {} /\ Unscanned(f) \notin objects' => Safe(f)' /\ Reported(f)'
  BY DEF SourceKept
<1>3. ASSUME Unscanned(f) \in objects'
      PROVE  \E e \in Deliveries(f) : scan'[e].at # "done"
  <2>1. PICK e \in Deliveries(f) : scan[e].at # "done"
    BY <1>3 DEF SourceKept
  <2>2. CASE e = d
    <3>1. scan[d].file = f
      BY <2>1, <2>2 DEF Deliveries
    <3> QED BY <1>3, <2>1, <2>2, <3>1
  <2>3. CASE e # d
    <3>1. scan'[e] = scan[e]
      BY <2>1, <2>3 DEF Moves, Deliveries
    <3> QED BY <2>1, <3>1
  <2> QED BY <2>2, <2>3
<1> QED BY <1>2, <1>3

-----------------------------------------------------------------------------
(* The upload.                                                             *)

LEMMA CreateStep ==
  ASSUME FilesInv, NEW f \in File, CreatePresignedUpload(f)
  PROVE  FilesInv'
<1> USE DEF FilesInv
<1> DEFINE new == [status |-> "pending", at |-> Unscanned(f)]
<1>1. /\ row[f] = {} /\ row' = [row EXCEPT ![f] = {new}]
      /\ record' = [record EXCEPT ![f] = "pending"]
      /\ UNCHANGED <<objects, scan, callback, request, attachment, told, faults>>
  BY DEF CreatePresignedUpload
<1>2. new \in PendingFile /\ Known(f, new)
  BY Places DEF PendingFile, Status, Known
<1> HIDE DEF new
<1>3. Types'
  BY <1>1, <1>2 DEF Types, TypeOK, Status
<1>4. \A g \in File : Reported(g) => g # f /\ Reported(g)'
  BY <1>1 DEF Reported, Types, TypeOK
<1>5. \A g \in File : Deliveries(g)' = Deliveries(g) /\ (Safe(g) => Safe(g)')
  BY <1>1 DEF Deliveries, Safe
<1>6. RowsKnown'
  BY <1>1, <1>2 DEF RowsKnown, Types, TypeOK, Known, Verdict, TerminalLocation
<1>7. \A d \in Delivery : scan[d] # Unused => scan[d].file \in File /\ scan[d].file # f
  BY <1>1 DEF ScansKnown, Types, ScanState
<1>8. ScansKnown'
  BY <1>1, <1>4, <1>5, <1>7 DEF ScansKnown, Types, TypeOK
<1>9. CallsKnown'
  BY <1>1, <1>4, <1>7 DEF CallsKnown, Known
<1>10. RequestsKnown'
  <2>1. \A r \in Request : request[r].at # "idle" => request[r].file \in File
    BY DEF Types, RequestState
  <2> QED BY <1>1, <1>4, <2>1 DEF RequestsKnown
<1>11. SourceKept'
  BY <1>1, <1>4, <1>5 DEF SourceKept
<1>12. RecordsTrue'
  BY <1>1, <1>4 DEF RecordsTrue, Types, TypeOK, Terminal
<1>13. OneDelivery'
  <2>1. \A g \in File, d \in Delivery : Deliveries(g) = {d} => record'[g] = record[g]
    BY <1>1, <1>7 DEF Deliveries, Types, TypeOK
  <2> QED BY <1>1, <1>5, <2>1 DEF OneDelivery, Verdict, Unscanned
<1> QED
  BY <1>1, <1>3, <1>6, <1>8, <1>9, <1>10, <1>11, <1>12, <1>13 DEF OnlyCleanAttached, AttachedThere

\* A new delivery of a file that has a row, and whose source is there or went
\* after an earlier one.
LEMMA DeliverStep ==
  ASSUME FilesInv, NEW d \in Delivery, NEW f \in File, Upload(d, f) \/ Redeliver(d, f)
  PROVE  FilesInv'
<1> USE DEF FilesInv
<1> DEFINE new == [at |-> "waiting", file |-> f, left |-> Retries]
<1>1. /\ scan[d] = Unused /\ scan' = [scan EXCEPT ![d] = new]
      /\ objects' \in {objects, objects \cup {Unscanned(f)}}
      /\ UNCHANGED <<row, record, callback, request, attachment, told, faults>>
  BY DEF Upload, Redeliver, Deliver
<1>2. new \in ScanState /\ new # Unused /\ new.file = f /\ new.at = "waiting"
  BY BoundsAssumption DEF ScanState
<1>3. row[f] # {}
  BY DEF Upload, Redeliver, Deliveries, ScansKnown, Types, ScanState
<1> HIDE DEF new
<1>4. Types'
  BY <1>1, <1>2, Places DEF Types, TypeOK
<1>5. /\ \A g \in File : g # f => Deliveries(g)' = Deliveries(g)
      /\ Deliveries(f)' = Deliveries(f) \cup {d} /\ d \notin Deliveries(f)
  BY <1>1, <1>2 DEF Deliveries, Types
<1>6. \A g \in File : (Safe(g) => Safe(g)') /\ (Reported(g)' <=> Reported(g))
  BY <1>1 DEF Safe, Reported
<1>7. \A e \in Delivery : e # d => scan'[e] = scan[e]
  BY <1>1 DEF Types
<1>8. scan'[d] = new
  BY <1>1 DEF Types
<1>9. ScansKnown'
  <2>1. \A e \in Delivery : scan[e] # Unused => scan[e].file \in File
    BY DEF Types, ScanState
  <2> QED BY <1>1, <1>2, <1>3, <1>6, <1>7, <1>8, <2>1 DEF ScansKnown
<1>10. CallsKnown'
  <2>1. \A e \in Delivery, n \in 0..Retries : callback[e][n] # Resting => e # d
    BY <1>1 DEF CallsKnown
  <2>2. \A e \in Delivery : scan[e] # Unused => scan[e].file \in File
    BY DEF Types, ScanState
  <2> QED BY <1>1, <1>6, <1>7, <2>1, <2>2 DEF CallsKnown, Known
<1>11. RequestsKnown'
  BY <1>1 DEF RequestsKnown, Reported
<1>12. OnlyCleanAttached' /\ AttachedThere'
  BY <1>1, PlaceAssumption DEF OnlyCleanAttached, AttachedThere, Unscanned
<1>13. SourceKept'
  <2> SUFFICES ASSUME NEW g \in File
               PROVE  /\ Deliveries(g)' # {} /\ Unscanned(g) \notin objects' => Safe(g)' /\ Reported(g)'
                      /\ Unscanned(g) \in objects' => \E e \in Deliveries(g)' : scan'[e].at # "done"
    BY DEF SourceKept, Unscanned
  <2>1. CASE g = f
    <3>1. d \in Deliveries(f)' /\ scan'[d].at # "done"
      BY <1>2, <1>5, <1>8
    <3>2. Deliveries(f) = {} => Unscanned(f) \in objects'
      BY DEF Upload, Redeliver
    <3> QED BY <1>1, <1>6, <2>1, <3>1, <3>2 DEF SourceKept
  <2>2. CASE g # f
    <3>1. Unscanned(g) \in objects' => Unscanned(g) \in objects
      BY <1>1, <2>2 DEF Unscanned
    <3>2. Deliveries(g)' = Deliveries(g) /\ d \notin Deliveries(g)
      BY <1>1, <1>5, <2>2 DEF Deliveries
    <3>3. (Deliveries(g) # {} /\ Unscanned(g) \notin objects') => (Safe(g)' /\ Reported(g)')
      BY <1>1, <1>6, <2>2 DEF SourceKept, Unscanned
    <3> QED BY <1>7, <3>1, <3>2, <3>3 DEF SourceKept, Deliveries
  <2> QED BY <2>1, <2>2
<1>14. RecordsTrue'
  BY <1>1, <1>6 DEF RecordsTrue
<1>15. OneDelivery'
  <2> SUFFICES ASSUME NEW g \in File, NEW e \in Delivery, Deliveries(g)' = {e}
               PROVE  /\ scan'[e].at \in {"delete", "done"} => record[g] = Verdict(g)
                      /\ Unscanned(g) \notin objects' =>
                           record[g] = Verdict(g) /\ scan'[e].at \in {"waiting", "done", "dead"}
    BY <1>1 DEF OneDelivery, Unscanned, Verdict
  <2>1. CASE g = f
    <3>1. Deliveries(f) = {} /\ e = d
      BY <1>5, <2>1
    <3>2. Unscanned(f) \in objects'
      BY <3>1 DEF Upload, Redeliver
    <3> QED BY <1>2, <1>8, <2>1, <3>1, <3>2
  <2>2. CASE g # f
    <3>1. Deliveries(g) = {e} /\ e # d
      BY <1>1, <1>5, <2>2 DEF Deliveries
    <3>2. Unscanned(g) \in objects => Unscanned(g) \in objects'
      BY <1>1
    <3> QED BY <1>7, <3>1, <3>2 DEF OneDelivery
  <2> QED BY <2>1, <2>2
<1> QED
  BY <1>4, <1>9, <1>10, <1>11, <1>12, <1>13, <1>14, <1>15, <1>1 DEF RowsKnown, Known

LEMMA PollStep ==
  ASSUME FilesInv, NEW f \in File, Poll(f)
  PROVE  FilesInv'
<1> USE DEF FilesInv
<1>1. /\ told' = [told EXCEPT ![f] = record[f]]
      /\ UNCHANGED <<row, record, objects, scan, callback, request, attachment, faults>>
  BY DEF Poll
<1>2. Types' /\ RecordsTrue'
  BY <1>1 DEF Types, TypeOK, RecordsTrue, Reported
<1> QED
  BY <1>1, <1>2 DEF RowsKnown, ScansKnown, CallsKnown, RequestsKnown, OnlyCleanAttached, AttachedThere,
     SourceKept, OneDelivery, Deliveries, Safe, Reported, Known

-----------------------------------------------------------------------------
(* The scanner.                                                            *)

\* What no step of a scan alone can disturb.
LEMMA ScanOnly ==
  ASSUME FilesInv, NEW d \in Delivery, NEW to, Moves(d, to),
         UNCHANGED <<row, objects, callback, request, attachment, told>>
  PROVE  /\ scan[d].file \in File
         /\ \A f \in File : /\ Deliveries(f)' = Deliveries(f)
                            /\ Safe(f)' <=> Safe(f)
                            /\ Reported(f)' <=> Reported(f)
         /\ RowsKnown' /\ CallsKnown' /\ RequestsKnown' /\ OnlyCleanAttached' /\ AttachedThere'
<1> USE DEF FilesInv
<1>1. \A e \in Delivery : /\ scan[e] # Unused => scan[e].file \in File
                          /\ scan'[e] # Unused <=> scan[e] # Unused
                          /\ scan[e] # Unused => scan'[e].file = scan[e].file
  BY DEF Types, ScanState, Moves
<1>2. \A f \in File : /\ Deliveries(f)' = Deliveries(f)
                      /\ Safe(f)' <=> Safe(f)
                      /\ Reported(f)' <=> Reported(f)
  BY MovedDeliveries DEF Safe, Reported
<1>3. scan[d].file \in File
  BY <1>1 DEF Moves
<1>4. RowsKnown' /\ RequestsKnown' /\ OnlyCleanAttached' /\ AttachedThere'
  BY DEF RowsKnown, Known, RequestsKnown, Reported, OnlyCleanAttached, AttachedThere
<1>5. CallsKnown'
  BY <1>1, <1>2 DEF CallsKnown, Known
<1> QED BY <1>2, <1>3, <1>4, <1>5

\* A scan that goes back, or ends, keeps nothing that others rely on.
LEMMA ScanBackStep ==
  ASSUME FilesInv, NEW d \in Delivery, NEW to \in SUBSET {"waiting", "dead", "mark"}, Moves(d, to),
         UNCHANGED <<row, record, objects, callback, request, attachment, told>>,
         scan'[d].at = "mark" => Unscanned(scan[d].file) \in objects
  PROVE  FilesInv'
<1> USE DEF FilesInv
<1>1. /\ scan[d].file \in File
      /\ \A f \in File : /\ Deliveries(f)' = Deliveries(f)
                         /\ Safe(f)' <=> Safe(f)
                         /\ Reported(f)' <=> Reported(f)
      /\ RowsKnown' /\ CallsKnown' /\ RequestsKnown' /\ OnlyCleanAttached' /\ AttachedThere'
  BY ScanOnly
<1>2. /\ \A e \in Delivery : e # d => scan'[e] = scan[e]
      /\ scan[d] # Unused /\ scan'[d].file = scan[d].file
      /\ scan'[d].at \in {"waiting", "dead", "mark"}
  BY DEF Moves
<1>3. Types'
  BY DEF Types, TypeOK, Moves
<1>4. ScansKnown'
  <2>1. \A e \in Delivery : scan[e] # Unused => scan[e].file \in File
    BY DEF Types, ScanState
  <2> QED BY <1>1, <1>2, <2>1 DEF ScansKnown
<1>5. SourceKept'
  BY <1>1, <1>2, SourceStep DEF Unscanned
<1>6. RecordsTrue'
  BY <1>1 DEF RecordsTrue, Verdict
<1>7. OneDelivery'
  <2> SUFFICES ASSUME NEW f \in File, NEW e \in Delivery, Deliveries(f) = {e}
               PROVE  /\ scan'[e].at \in {"delete", "done"} => record[f] = Verdict(f)
                      /\ Unscanned(f) \notin objects =>
                           record[f] = Verdict(f) /\ scan'[e].at \in {"waiting", "done", "dead"}
    BY <1>1 DEF OneDelivery, Unscanned, Verdict
  <2>1. e = d => f = scan[d].file
    BY DEF Deliveries
  <2> QED BY <1>2, <2>1 DEF OneDelivery
<1> QED BY <1>1, <1>3, <1>4, <1>5, <1>6, <1>7

LEMMA StartScanStep ==
  ASSUME FilesInv, NEW d \in Delivery, StartScan(d)
  PROVE  FilesInv'
<1> USE DEF FilesInv
<1> DEFINE f == scan[d].file
<1>1. scan[d].at = "waiting" /\ UNCHANGED <<row, record, objects, callback, request, attachment, told, faults>>
  BY DEF StartScan
<1>2. CASE Unscanned(f) \in objects
  <2>1. Moves(d, {"mark"})
    BY <1>1, <1>2, ToMoves DEF StartScan, Steps
  <2>2. {"mark"} \in SUBSET {"waiting", "dead", "mark"}
    OBVIOUS
  <2> QED BY <1>1, <1>2, <2>1, <2>2, ScanBackStep
<1>3. CASE Unscanned(f) \notin objects
  <2>1. Moves(d, {"done"})
    BY <1>1, <1>3, ToMoves DEF StartScan, Steps
  <2>2. /\ f \in File
        /\ \A g \in File : /\ Deliveries(g)' = Deliveries(g)
                           /\ Safe(g)' <=> Safe(g)
                           /\ Reported(g)' <=> Reported(g)
        /\ RowsKnown' /\ CallsKnown' /\ RequestsKnown' /\ OnlyCleanAttached' /\ AttachedThere'
    BY <1>1, <2>1, ScanOnly
  <2>3. /\ \A e \in Delivery : e # d => scan'[e] = scan[e]
        /\ scan[d] # Unused /\ scan'[d].file = f /\ scan'[d].at = "done"
    BY <2>1 DEF Moves
  <2>4. Types'
    BY <1>1, <2>1 DEF Types, TypeOK, Moves
  <2>5. ScansKnown'
    <3>1. \A e \in Delivery : scan[e] # Unused => scan[e].file \in File
      BY DEF Types, ScanState
    <3> QED BY <1>1, <2>2, <2>3, <3>1 DEF ScansKnown
  <2>6. SourceKept'
    BY <1>1, <1>3, <2>1, <2>2, SourceStep DEF Unscanned
  <2>7. RecordsTrue'
    BY <1>1, <2>2 DEF RecordsTrue, Verdict
  <2>8. OneDelivery'
    <3> SUFFICES ASSUME NEW g \in File, NEW e \in Delivery, Deliveries(g) = {e}
                 PROVE  /\ scan'[e].at \in {"delete", "done"} => record[g] = Verdict(g)
                        /\ Unscanned(g) \notin objects =>
                             record[g] = Verdict(g) /\ scan'[e].at \in {"waiting", "done", "dead"}
      BY <1>1, <2>2 DEF OneDelivery, Unscanned, Verdict
    <3>1. e = d => g = f
      BY DEF Deliveries
    <3> QED BY <1>3, <2>3, <3>1 DEF OneDelivery
  <2> QED BY <2>2, <2>4, <2>5, <2>6, <2>7, <2>8
<1> QED BY <1>2, <1>3

\* A failure, a retry and a replay.
LEMMA ScanEndsStep ==
  ASSUME FilesInv, NEW d \in Delivery, ScanFails(d) \/ Replay(d)
  PROVE  FilesInv'
<1>1. CASE ScanFails(d)
  <2>1. Moves(d, {"waiting", "dead"})
    BY <1>1, RetriedMoves DEF ScanFails, FilesInv
  <2>2. {"waiting", "dead"} \in SUBSET {"waiting", "dead", "mark"} /\ scan'[d].at # "mark"
    BY <2>1 DEF Moves
  <2> QED BY <1>1, <2>1, <2>2, ScanBackStep DEF ScanFails
<1>2. CASE Replay(d)
  <2>1. scan[d] \in [at : Steps, file : File, left : 0..Retries]
    BY <1>2 DEF Replay, FilesInv, Types, ScanState, Steps
  <2>2. Moves(d, {"waiting"})
    BY <1>2, <2>1, BoundsAssumption DEF Replay, FilesInv, Types, ScanState, Moves, Steps
  <2>3. {"waiting"} \in SUBSET {"waiting", "dead", "mark"} /\ scan'[d].at # "mark"
    BY <2>2 DEF Moves
  <2> QED BY <1>2, <2>2, <2>3, ScanBackStep DEF Replay
<1> QED BY <1>1, <1>2

\* A late mark loses a verdict only where another delivery has written it.
LEMMA MarkInProgressStep ==
  ASSUME FilesInv, NEW d \in Delivery, MarkInProgress(d)
  PROVE  FilesInv'
<1> USE DEF FilesInv
<1> DEFINE f == scan[d].file
<1>1. /\ scan[d].at = "mark" /\ record' = [record EXCEPT ![f] = "in_progress"]
      /\ UNCHANGED <<row, objects, callback, request, attachment, told, faults>>
  BY DEF MarkInProgress
<1>2. Moves(d, {"copy"})
  BY <1>1, ToMoves DEF MarkInProgress, Steps
<1>3. /\ f \in File
      /\ \A g \in File : /\ Deliveries(g)' = Deliveries(g)
                         /\ Safe(g)' <=> Safe(g)
                         /\ Reported(g)' <=> Reported(g)
      /\ RowsKnown' /\ CallsKnown' /\ RequestsKnown' /\ OnlyCleanAttached' /\ AttachedThere'
  BY <1>1, <1>2, ScanOnly
<1>4. /\ \A e \in Delivery : e # d => scan'[e] = scan[e]
      /\ scan[d] # Unused /\ scan'[d].file = f /\ scan'[d].at = "copy"
  BY <1>2 DEF Moves
<1>5. Types'
  BY <1>1, <1>2 DEF Types, TypeOK, Moves, Status
<1>6. ScansKnown'
  <2>1. \A e \in Delivery : scan[e] # Unused => scan[e].file \in File
    BY DEF Types, ScanState
  <2> QED BY <1>1, <1>3, <1>4, <2>1 DEF ScansKnown
<1>7. SourceKept'
  BY <1>1, <1>2, <1>3, <1>4, SourceStep DEF Unscanned
<1>8. RecordsTrue'
  BY <1>1, <1>3 DEF RecordsTrue, Verdict, Types, TypeOK, Terminal
<1>9. OneDelivery'
  <2> SUFFICES ASSUME NEW g \in File, NEW e \in Delivery, Deliveries(g) = {e}
               PROVE  /\ scan'[e].at \in {"delete", "done"} => record'[g] = Verdict(g)
                      /\ Unscanned(g) \notin objects =>
                           record'[g] = Verdict(g) /\ scan'[e].at \in {"waiting", "done", "dead"}
    BY <1>1, <1>3 DEF OneDelivery, Unscanned, Verdict
  <2>1. CASE e = d
    <3>1. g = f
      BY <2>1 DEF Deliveries
    <3>2. Unscanned(g) \in objects
      BY <1>1, <2>1 DEF OneDelivery
    <3> QED BY <1>4, <2>1, <3>2
  <2>2. CASE e # d
    <3>1. d \in Deliveries(f) /\ g # f
      BY <1>4, <2>2 DEF Deliveries
    <3>2. record'[g] = record[g]
      BY <1>1, <3>1 DEF Types, TypeOK
    <3> QED BY <1>4, <2>2, <3>2 DEF OneDelivery
  <2> QED BY <2>1, <2>2
<1> QED BY <1>3, <1>5, <1>6, <1>7, <1>8, <1>9

LEMMA WriteRecordStep ==
  ASSUME FilesInv, NEW d \in Delivery, WriteRecord(d)
  PROVE  FilesInv'
<1> USE DEF FilesInv
<1> DEFINE f == scan[d].file
<1>1. /\ scan[d].at = "record" /\ record' = [record EXCEPT ![f] = Verdict(f)]
      /\ UNCHANGED <<row, objects, callback, request, attachment, told, faults>>
  BY DEF WriteRecord
<1>2. Moves(d, {"delete"})
  BY <1>1, ToMoves DEF WriteRecord, Steps
<1>3. /\ f \in File
      /\ \A g \in File : /\ Deliveries(g)' = Deliveries(g)
                         /\ Safe(g)' <=> Safe(g)
                         /\ Reported(g)' <=> Reported(g)
      /\ RowsKnown' /\ CallsKnown' /\ RequestsKnown' /\ OnlyCleanAttached' /\ AttachedThere'
  BY <1>1, <1>2, ScanOnly
<1>4. /\ \A e \in Delivery : e # d => scan'[e] = scan[e]
      /\ scan[d] # Unused /\ scan'[d].file = f /\ scan'[d].at = "delete"
  BY <1>2 DEF Moves
<1>5. Types'
  BY <1>1, <1>2, <1>3, Places DEF Types, TypeOK, Moves, Status, Terminal
<1>6. ScansKnown'
  <2>1. \A e \in Delivery : scan[e] # Unused => scan[e].file \in File
    BY DEF Types, ScanState
  <2> QED BY <1>1, <1>3, <1>4, <2>1 DEF ScansKnown
<1>7. SourceKept'
  BY <1>1, <1>2, <1>3, <1>4, SourceStep DEF Unscanned
<1>8. RecordsTrue'
  <2>1. Reported(f)
    BY <1>1, <1>4 DEF ScansKnown
  <2> QED BY <1>1, <1>3, <2>1 DEF RecordsTrue, Verdict, Types, TypeOK
<1>9. OneDelivery'
  <2> SUFFICES ASSUME NEW g \in File, NEW e \in Delivery, Deliveries(g) = {e}
               PROVE  /\ scan'[e].at \in {"delete", "done"} => record'[g] = Verdict(g)
                      /\ Unscanned(g) \notin objects =>
                           record'[g] = Verdict(g) /\ scan'[e].at \in {"waiting", "done", "dead"}
    BY <1>1, <1>3 DEF OneDelivery, Unscanned, Verdict
  <2>1. CASE e = d
    <3>1. g = f
      BY <2>1 DEF Deliveries
    <3>2. Unscanned(g) \in objects
      BY <1>1, <2>1 DEF OneDelivery
    <3>3. record'[g] = Verdict(g)
      BY <1>1, <1>3, <3>1 DEF Types, TypeOK
    <3> QED BY <1>4, <2>1, <3>2, <3>3
  <2>2. CASE e # d
    <3>1. d \in Deliveries(f) /\ g # f
      BY <1>4, <2>2 DEF Deliveries
    <3>2. record'[g] = record[g]
      BY <1>1, <3>1 DEF Types, TypeOK
    <3> QED BY <1>4, <2>2, <3>2 DEF OneDelivery
  <2> QED BY <2>1, <2>2
<1> QED BY <1>3, <1>5, <1>6, <1>7, <1>8, <1>9

LEMMA CopyScannedStep ==
  ASSUME FilesInv, NEW d \in Delivery, CopyScanned(d)
  PROVE  FilesInv'
<1> USE DEF FilesInv
<1> DEFINE f == scan[d].file
<1>1. scan[d].at = "copy" /\ UNCHANGED <<row, record, request, attachment, told, faults>>
  BY DEF CopyScanned
<1>2. scan[d] \in [at : Steps, file : File, left : 0..Retries]
  BY <1>1 DEF Types, ScanState, Steps
<1>3. CASE Unscanned(f) \notin objects
  <2>1. scan' = Retried(d) /\ UNCHANGED <<objects, callback>>
    BY <1>3 DEF CopyScanned
  <2>2. Moves(d, {"waiting", "dead"})
    BY <1>1, <2>1, RetriedMoves
  <2>3. {"waiting", "dead"} \in SUBSET {"waiting", "dead", "mark"} /\ scan'[d].at # "mark"
    BY <2>2 DEF Moves
  <2> QED BY <1>1, <2>1, <2>2, <2>3, ScanBackStep
<1>4. CASE Unscanned(f) \in objects
  <2> DEFINE n == scan[d].left
  <2>1. /\ objects' = objects \cup {TerminalLocation(f)}
        /\ callback' = Call(d, n, [at |-> "select"])
        /\ scan' = To(d, "report")
    BY <1>4 DEF CopyScanned
  <2>2. Moves(d, {"report"})
    BY <1>1, <2>1, ToMoves DEF Steps
  <2>3. /\ \A e \in Delivery : e # d => scan'[e] = scan[e]
        /\ scan[d] # Unused /\ scan'[d] # Unused /\ scan'[d].file = f /\ scan'[d].at = "report"
    BY <2>2 DEF Moves
  <2>15. /\ TerminalLocation(f).file = f /\ TerminalLocation(f).place \in {"scanned", "infected"}
         /\ \A g \in File : TerminalLocation(f) # Unscanned(g)
    BY DEF TerminalLocation, Unscanned
  <2>4. \A g \in File : /\ Deliveries(g)' = Deliveries(g)
                        /\ Safe(g) => Safe(g)'
                        /\ Reported(g)' <=> Reported(g)
                        /\ Unscanned(g) \in objects' <=> Unscanned(g) \in objects
    <3>1. \A g \in File : Deliveries(g)' = Deliveries(g)
      BY <2>2, MovedDeliveries
    <3>2. \A g \in File : (Safe(g) => Safe(g)') /\ (Reported(g)' <=> Reported(g))
      BY <1>1, <2>1 DEF Safe, Reported
    <3>3. \A g \in File : Unscanned(g) \in objects' <=> Unscanned(g) \in objects
      BY <2>1, <2>15
    <3> QED BY <3>1, <3>2, <3>3
  <2>5. \A g \in File : g = f => Safe(g)'
    <3>1. \E o \in objects' : o.file = f /\ o.place # "unscanned"
      BY <2>1, <2>15
    <3> QED BY <3>1 DEF Safe
  <2>6. Types'
    <3>1. callback' \in [Delivery -> [0..Retries -> CallState]]
      BY <1>2, <2>1 DEF Call, Types, CallState
    <3> QED BY <1>1, <1>2, <2>1, <2>2, <3>1, Places DEF Types, TypeOK, Moves
  <2>7. \A e \in Delivery : scan[e] # Unused => scan[e].file \in File
    BY DEF Types, ScanState
  <2>8. RowsKnown' /\ RequestsKnown'
    BY <1>1 DEF RowsKnown, Known, RequestsKnown, Reported
  <2>9. ScansKnown'
    BY <1>1, <1>2, <2>3, <2>4, <2>5, <2>7 DEF ScansKnown
  <2>10. CallsKnown'
    <3>1. \A e \in Delivery, k \in 0..Retries :
            callback'[e][k] = callback[e][k] \/ (e = d /\ callback'[e][k] = [at |-> "select"])
      BY <1>2, <2>1 DEF Call, Types
    <3>2. \A e \in Delivery : scan[e] # Unused => scan'[e] # Unused /\ scan'[e].file = scan[e].file
      BY <2>3
    <3> QED BY <2>3, <2>4, <2>7, <3>1, <3>2 DEF CallsKnown, Known
  <2>11. OnlyCleanAttached' /\ AttachedThere'
    BY <1>1, <1>2, <2>1, Places, PlaceAssumption DEF OnlyCleanAttached, AttachedThere
  <2>12. SourceKept'
    BY <2>2, <2>3, <2>4, SourceStep
  <2>13. RecordsTrue'
    BY <1>1, <2>4 DEF RecordsTrue, Verdict
  <2>14. OneDelivery'
    <3> SUFFICES ASSUME NEW g \in File, NEW e \in Delivery, Deliveries(g) = {e}
                 PROVE  /\ scan'[e].at \in {"delete", "done"} => record[g] = Verdict(g)
                        /\ Unscanned(g) \notin objects =>
                             record[g] = Verdict(g) /\ scan'[e].at \in {"waiting", "done", "dead"}
      BY <1>1, <2>4 DEF OneDelivery, Unscanned, Verdict
    <3>1. e = d => g = f
      BY DEF Deliveries
    <3> QED BY <1>4, <2>3, <3>1 DEF OneDelivery
  <2> QED BY <2>6, <2>8, <2>9, <2>10, <2>11, <2>12, <2>13, <2>14
<1> QED BY <1>3, <1>4

\* The source is deleted when nobody needs it.
LEMMA DeleteUnscannedStep ==
  ASSUME FilesInv, NEW d \in Delivery, DeleteUnscanned(d)
  PROVE  FilesInv'
<1> USE DEF FilesInv
<1> DEFINE f == scan[d].file
<1>1. /\ scan[d].at = "delete" /\ objects' = objects \ {Unscanned(f)}
      /\ scan' = To(d, "done") \/ scan' = Retried(d)
      /\ UNCHANGED <<row, record, callback, request, attachment, told>>
  BY DEF DeleteUnscanned
<1>2. Moves(d, {"waiting", "dead", "done"})
  BY <1>1, ToMoves, RetriedMoves DEF Steps, Moves
<1>3. /\ \A e \in Delivery : e # d => scan'[e] = scan[e]
      /\ scan[d] # Unused /\ scan'[d] # Unused /\ scan'[d].file = f
      /\ scan'[d].at \in {"waiting", "dead", "done"}
  BY <1>2 DEF Moves
<1>4. \A e \in Delivery : scan[e] # Unused => scan[e].file \in File
  BY DEF Types, ScanState
<1>5. f \in File /\ Safe(f) /\ Reported(f)
  BY <1>1, <1>3, <1>4 DEF ScansKnown
<1>6. \A g \in File : /\ Deliveries(g)' = Deliveries(g)
                      /\ Safe(g) => Safe(g)'
                      /\ Reported(g)' <=> Reported(g)
                      /\ Unscanned(g) \in objects' <=> (Unscanned(g) \in objects /\ g # f)
  BY <1>1, <1>2, MovedDeliveries DEF Safe, Reported, Unscanned
<1>7. Types'
  BY <1>1, <1>2 DEF Types, TypeOK, Moves
<1>8. RowsKnown' /\ RequestsKnown' /\ OnlyCleanAttached'
  BY <1>1 DEF RowsKnown, Known, RequestsKnown, Reported, OnlyCleanAttached
<1>9. AttachedThere'
  <2>1. \A r \in Request : request[r].at \in {"delete", "commit", "done"} => request[r].file \in File
    BY DEF Types, RequestState
  <2>2. \A r \in Request, g \in File : Attached(r, g) # Unscanned(f)
    BY <1>5, AttachedApart
  <2> QED BY <1>1, <2>1, <2>2 DEF AttachedThere
<1>10. ScansKnown'
  BY <1>1, <1>3, <1>4, <1>6 DEF ScansKnown
<1>11. CallsKnown'
  <2>1. \A e \in Delivery : scan[e] # Unused => scan'[e] # Unused /\ scan'[e].file = scan[e].file
    BY <1>3
  <2> QED BY <1>1, <1>4, <1>6, <2>1 DEF CallsKnown, Known
<1>12. SourceKept'
  BY <1>2, <1>3, <1>5, <1>6, SourceStep
<1>13. RecordsTrue'
  BY <1>1, <1>6 DEF RecordsTrue, Verdict
<1>14. OneDelivery'
  <2> SUFFICES ASSUME NEW g \in File, NEW e \in Delivery, Deliveries(g) = {e}
               PROVE  /\ scan'[e].at \in {"delete", "done"} => record[g] = Verdict(g)
                      /\ Unscanned(g) \notin objects' =>
                           record[g] = Verdict(g) /\ scan'[e].at \in {"waiting", "done", "dead"}
    BY <1>1, <1>6 DEF OneDelivery, Unscanned, Verdict
  <2>1. CASE e = d
    <3>1. record[g] = Verdict(g)
      BY <1>1, <2>1 DEF OneDelivery
    <3> QED BY <1>3, <2>1, <3>1
  <2>2. CASE e # d
    <3>1. d \in Deliveries(f) /\ g # f
      BY <1>3, <2>2 DEF Deliveries
    <3> QED BY <1>3, <1>6, <2>2, <3>1 DEF OneDelivery
  <2> QED BY <2>1, <2>2
<1> QED BY <1>7, <1>8, <1>9, <1>10, <1>11, <1>12, <1>13, <1>14

-----------------------------------------------------------------------------
(* The scanner's callback to the API.                                      *)

\* What no step of a callback that leaves the row alone can disturb, and what
\* such a step leaves to be shown.
LEMMA CallOnly ==
  ASSUME FilesInv, NEW d \in Delivery, NEW n \in 0..Retries, NEW c \in CallState,
         callback[d][n] # Resting, callback' = Call(d, n, c),
         UNCHANGED <<row, record, objects, request, attachment, told>>,
         c.at \in {"check", "commit"} =>
           /\ Known(scan[d].file, c.read)
           /\ c.read.status # "pending" => Reported(scan[d].file),
         scan' = scan \/ (Heard(d, n) /\ scan' = Retried(d))
  PROVE  FilesInv'
<1> USE DEF FilesInv
<1>1. scan[d] # Unused
  BY DEF CallsKnown
<1>2. callback' \in [Delivery -> [0..Retries -> CallState]]
  BY DEF Call, Types
<1>3. \A e \in Delivery, k \in 0..Retries :
        callback'[e][k] = callback[e][k] \/ (e = d /\ callback'[e][k] = c)
  BY DEF Call, Types
<1>4. \A e \in Delivery : scan[e] # Unused => scan[e].file \in File
  BY DEF Types, ScanState
<1>5. CASE scan' = scan
  <2>1. Types'
    BY <1>2, <1>5 DEF Types, TypeOK
  <2>2. CallsKnown'
    BY <1>1, <1>3, <1>4, <1>5 DEF CallsKnown, Known, Reported
  <2> QED
    BY <1>5, <2>1, <2>2 DEF RowsKnown, Known, ScansKnown, RequestsKnown, OnlyCleanAttached, AttachedThere,
       SourceKept, RecordsTrue, OneDelivery, Deliveries, Safe, Reported
<1>6. CASE Heard(d, n) /\ scan' = Retried(d)
  <2>1. Moves(d, {"waiting", "dead"})
    BY <1>6, RetriedMoves DEF Heard
  <2>2. /\ \A e \in Delivery : e # d => scan'[e] = scan[e]
        /\ scan[d] # Unused /\ scan'[d] # Unused /\ scan'[d].file = scan[d].file
        /\ scan'[d].at \in {"waiting", "dead"}
    BY <2>1 DEF Moves
  <2>3. Types'
    BY <1>2, <2>1 DEF Types, TypeOK, Moves
  <2>4. \A g \in File : /\ Deliveries(g)' = Deliveries(g)
                        /\ Safe(g)' <=> Safe(g)
                        /\ Reported(g)' <=> Reported(g)
    BY <2>1, MovedDeliveries DEF Safe, Reported
  <2>5. RowsKnown' /\ RequestsKnown' /\ OnlyCleanAttached' /\ AttachedThere'
    BY DEF RowsKnown, Known, RequestsKnown, Reported, OnlyCleanAttached, AttachedThere
  <2>6. ScansKnown'
    BY <1>4, <2>2, <2>4 DEF ScansKnown
  <2>7. CallsKnown'
    <3>1. \A e \in Delivery : scan[e] # Unused => scan'[e] # Unused /\ scan'[e].file = scan[e].file
      BY <2>2
    <3> SUFFICES ASSUME NEW e \in Delivery, NEW k \in 0..Retries, callback'[e][k] # Resting
                 PROVE  /\ scan'[e] # Unused
                        /\ callback'[e][k].at \in {"check", "commit"} =>
                             /\ Known(scan'[e].file, callback'[e][k].read)
                             /\ callback'[e][k].read.status # "pending" => Reported(scan[e].file)'
      BY DEF CallsKnown, Known
    <3>2. CASE callback'[e][k] = callback[e][k]
      BY <1>4, <2>4, <3>1, <3>2 DEF CallsKnown
    <3>3. CASE e = d /\ callback'[e][k] = c
      BY <1>1, <1>4, <2>2, <2>4, <3>3
    <3> QED BY <1>3, <3>2, <3>3
  <2>8. SourceKept'
    BY <2>1, <2>2, <2>4, SourceStep DEF Unscanned
  <2>9. RecordsTrue'
    BY <2>4 DEF RecordsTrue, Verdict
  <2>10. OneDelivery'
    <3> SUFFICES ASSUME NEW g \in File, NEW e \in Delivery, Deliveries(g) = {e}
                 PROVE  /\ scan'[e].at \in {"delete", "done"} => record[g] = Verdict(g)
                        /\ Unscanned(g) \notin objects =>
                             record[g] = Verdict(g) /\ scan'[e].at \in {"waiting", "done", "dead"}
      BY <2>4 DEF OneDelivery, Unscanned, Verdict
    <3> QED BY <2>2 DEF OneDelivery
  <2> QED BY <2>3, <2>5, <2>6, <2>7, <2>8, <2>9, <2>10
<1> QED BY <1>5, <1>6

LEMMA QuietCallSteps ==
  ASSUME FilesInv, NEW d \in Delivery, NEW n \in 0..Retries,
         ReadRow(d, n) \/ CheckObject(d, n) \/ CallbackFails(d, n)
  PROVE  FilesInv'
<1>1. Resting \in CallState /\ Resting.at \notin {"check", "commit"}
  BY DEF CallState
<1>2. CASE ReadRow(d, n)
  <2>1. PICK p \in row[scan[d].file] : callback' = Call(d, n, [at |-> "check", read |-> p])
    BY <1>2 DEF ReadRow
  <2>2. callback[d][n] # Resting /\ UNCHANGED <<row, record, objects, scan, request, attachment, told>>
    BY <1>2 DEF ReadRow
  <2>3. scan[d].file \in File
    BY <2>2 DEF FilesInv, CallsKnown, Types, ScanState
  <2>4. /\ Known(scan[d].file, p) /\ p \in PendingFile
        /\ p.status # "pending" => Reported(scan[d].file)
    BY <2>1, <2>3 DEF FilesInv, RowsKnown, Types, TypeOK, Reported
  <2>5. [at |-> "check", read |-> p] \in CallState
    BY <2>4 DEF CallState
  <2> QED BY <2>1, <2>2, <2>4, <2>5, CallOnly
<1>3. CASE CheckObject(d, n)
  <2> DEFINE now == callback[d][n]
  <2>0. now \in CallState /\ now.at = "check"
    BY <1>3 DEF CheckObject, FilesInv, Types
  <2>1. /\ now \in [at : {"check", "commit"}, read : PendingFile]
        /\ UNCHANGED <<row, record, objects, request, attachment, told>>
    BY <1>3, <2>0 DEF CheckObject, CallState
  <2> DEFINE c == [at |-> "commit", read |-> callback[d][n].read]
  <2>2. /\ callback[d][n] # Resting
        /\ Known(scan[d].file, callback[d][n].read)
        /\ callback[d][n].read.status # "pending" => Reported(scan[d].file)
    BY <2>1 DEF FilesInv, CallsKnown
  <2>3. c \in CallState
    BY <2>1 DEF CallState
  <2>4. CASE TerminalLocation(scan[d].file) \in objects
    BY <1>3, <2>1, <2>2, <2>3, <2>4, CallOnly DEF CheckObject
  <2>5. CASE TerminalLocation(scan[d].file) \notin objects
    BY <1>1, <1>3, <2>1, <2>2, <2>5, CallOnly DEF CheckObject
  <2> QED BY <2>4, <2>5
<1>4. CASE CallbackFails(d, n)
  BY <1>1, <1>4, CallOnly DEF CallbackFails
<1> QED BY <1>2, <1>3, <1>4

\* Column by column, a session leaves a row with the verdict, or one processed.
LEMMA ReportedRow ==
  ASSUME NEW f \in File, RowsKnown, NEW read, Known(f, read), read.status # "pending" => Reported(f),
         NEW p \in Updated(f, read, [status |-> Verdict(f), at |-> TerminalLocation(f)])
  PROVE  Known(f, p) /\ p.status # "pending" /\ p \in [status : {Verdict(f), "processed"}, at : {TerminalLocation(f)}]
<1> DEFINE new == [status |-> Verdict(f), at |-> TerminalLocation(f)]
<1>1. PICK c \in row[f] :
        p = [status |-> IF new.status # read.status THEN new.status ELSE c.status,
             at     |-> IF new.at # read.at THEN new.at ELSE c.at]
  BY DEF Updated
<1>2. Known(f, c)
  BY DEF RowsKnown
<1>3. Verdict(f) \in Terminal /\ TerminalLocation(f) # Unscanned(f)
  BY DEF Verdict, Terminal, TerminalLocation, Unscanned
<1>4. CASE read.status = "pending"
  BY <1>1, <1>3, <1>4 DEF Known, Terminal
<1>5. CASE read.status # "pending"
  <2>1. c.status # "pending"
    BY <1>5 DEF Reported
  <2>2. read.at = TerminalLocation(f) /\ c.at = TerminalLocation(f)
    BY <1>2, <1>5, <2>1 DEF Known
  <2> QED BY <1>1, <1>2, <1>3, <2>1, <2>2 DEF Known, Terminal
<1> QED BY <1>4, <1>5

LEMMA CommitStatusStep ==
  ASSUME FilesInv, NEW d \in Delivery, NEW n \in 0..Retries, CommitStatus(d, n)
  PROVE  FilesInv'
<1> USE DEF FilesInv
<1> DEFINE f == scan[d].file
           read == callback[d][n].read
           new == [status |-> Verdict(f), at |-> TerminalLocation(f)]
<1>0. callback[d][n] \in CallState /\ callback[d][n].at = "commit"
  BY DEF CommitStatus, Types
<1>1. /\ callback[d][n] \in [at : {"check", "commit"}, read : PendingFile]
      /\ row' = [row EXCEPT ![f] = Updated(f, read, new)]
      /\ callback' = Call(d, n, Resting)
      /\ scan' = IF Heard(d, n) THEN To(d, "record") ELSE scan
      /\ UNCHANGED <<record, objects, request, attachment, told, faults>>
  BY <1>0 DEF CommitStatus, CallState
<1>2. \A e \in Delivery : scan[e] # Unused => scan[e].file \in File /\ row[scan[e].file] # {}
  BY DEF Types, ScanState, ScansKnown
<1>3. /\ scan[d] # Unused /\ f \in File /\ row[f] # {}
      /\ Known(f, read)
      /\ read.status # "pending" => Reported(f)
  BY <1>1, <1>2 DEF CallsKnown
<1>4. \A p \in row'[f] : Known(f, p) /\ p.status # "pending" /\ p \in PendingFile
  <2>1. row'[f] = Updated(f, read, new)
    BY <1>1, <1>3 DEF Types, TypeOK
  <2>2. ASSUME NEW p \in row'[f] PROVE Known(f, p) /\ p.status # "pending" /\ p \in PendingFile
    <3>1. /\ Known(f, p) /\ p.status # "pending"
          /\ p \in [status : {Verdict(f), "processed"}, at : {TerminalLocation(f)}]
      BY <1>3, <2>1, <2>2, ReportedRow
    <3>2. Verdict(f) \in Status /\ TerminalLocation(f) \in Object
      BY <1>3, Places DEF Terminal, Status
    <3> QED BY <3>1, <3>2 DEF PendingFile, Status
  <2> QED BY <2>2
<1>5. row'[f] # {} /\ \A p, q \in row'[f] : p = q
  <2>1. row'[f] = Updated(f, read, new)
    BY <1>1, <1>3 DEF Types, TypeOK
  <2>2. \A p, q \in row[f] : p = q
    BY <1>3 DEF Types, TypeOK
  <2> QED BY <1>3, <2>1, <2>2 DEF Updated
<1>6. \A g \in File : g # f => row'[g] = row[g]
  BY <1>1 DEF Types, TypeOK
<1>7. \A g \in File : (Reported(g) => Reported(g)') /\ (g = f => Reported(g)') /\ (Safe(g)' <=> Safe(g))
  BY <1>1, <1>4, <1>5, <1>6 DEF Reported, Safe
<1>8. callback' \in [Delivery -> [0..Retries -> CallState]]
  BY <1>1 DEF Call, Types, CallState
<1>9. row' \in [File -> SUBSET PendingFile] /\ \A g \in File : \A p, q \in row'[g] : p = q
  BY <1>1, <1>3, <1>4, <1>5, <1>6 DEF Types, TypeOK
<1>10. RowsKnown'
  BY <1>3, <1>4, <1>6 DEF RowsKnown, Known, Unscanned, TerminalLocation, Verdict
<1>11. RequestsKnown'
  <2>1. \A r \in Request : request[r].at # "idle" => request[r].file \in File
    BY DEF Types, RequestState
  <2> QED BY <1>1, <1>7, <2>1 DEF RequestsKnown, TerminalLocation
<1>12. OnlyCleanAttached' /\ AttachedThere' /\ RecordsTrue'
  BY <1>1, <1>7 DEF OnlyCleanAttached, AttachedThere, RecordsTrue, Verdict
<1>13. \A e \in Delivery, k \in 0..Retries :
         callback'[e][k] # Resting => callback'[e][k] = callback[e][k]
  BY <1>1 DEF Call, Types
<1> HIDE DEF new
<1>14. CASE scan' = scan
  <2>1. Types'
    BY <1>1, <1>8, <1>9, <1>14 DEF Types, TypeOK
  <2>2. \A g \in File : Deliveries(g)' = Deliveries(g)
    BY <1>14 DEF Deliveries
  <2>3. ScansKnown' /\ CallsKnown'
    BY <1>2, <1>5, <1>6, <1>7, <1>13, <1>14 DEF ScansKnown, CallsKnown, Known
  <2>4. SourceKept'
    BY <1>1, <1>7, <1>14, <2>2 DEF SourceKept, Unscanned
  <2>5. OneDelivery'
    BY <1>1, <1>14, <2>2 DEF OneDelivery, Unscanned, Verdict
  <2> QED BY <1>10, <1>11, <1>12, <2>1, <2>3, <2>4, <2>5
<1>15. CASE scan' # scan
  <2>1. Heard(d, n) /\ scan' = To(d, "record")
    BY <1>1, <1>15
  <2>2. scan[d].at = "report"
    BY <2>1 DEF Heard
  <2>3. Moves(d, {"record"})
    BY <2>1, <2>2, ToMoves DEF Steps
  <2>4. /\ \A e \in Delivery : e # d => scan'[e] = scan[e]
        /\ scan'[d] # Unused /\ scan'[d].file = f /\ scan'[d].at = "record"
    BY <2>3 DEF Moves
  <2>5. Types'
    BY <1>1, <1>8, <1>9, <2>3 DEF Types, TypeOK, Moves
  <2>6. \A g \in File : Deliveries(g)' = Deliveries(g)
    BY <2>3, MovedDeliveries
  <2>7. ScansKnown'
    BY <1>2, <1>3, <1>5, <1>6, <1>7, <2>2, <2>4 DEF ScansKnown
  <2>8. CallsKnown'
    <3>1. \A e \in Delivery : scan[e] # Unused => scan'[e] # Unused /\ scan'[e].file = scan[e].file
      BY <1>3, <2>4
    <3> SUFFICES ASSUME NEW e \in Delivery, NEW k \in 0..Retries, callback'[e][k] # Resting
                 PROVE  /\ scan'[e] # Unused
                        /\ callback'[e][k].at \in {"check", "commit"} =>
                             /\ Known(scan'[e].file, callback'[e][k].read)
                             /\ callback'[e][k].read.status # "pending" => Reported(scan[e].file)'
      BY DEF CallsKnown, Known
    <3>2. callback'[e][k] = callback[e][k]
      BY <1>13
    <3> QED BY <1>2, <1>7, <3>1, <3>2 DEF CallsKnown
  <2>9. SourceKept'
    BY <1>1, <1>7, <2>3, <2>4, SourceStep DEF Unscanned
  <2>10. OneDelivery'
    <3> SUFFICES ASSUME NEW g \in File, NEW e \in Delivery, Deliveries(g) = {e}
                 PROVE  /\ scan'[e].at \in {"delete", "done"} => record[g] = Verdict(g)
                        /\ Unscanned(g) \notin objects =>
                             record[g] = Verdict(g) /\ scan'[e].at \in {"waiting", "done", "dead"}
      BY <1>1, <2>6 DEF OneDelivery, Unscanned, Verdict
    <3> QED BY <2>2, <2>4 DEF OneDelivery
  <2> QED BY <1>10, <1>11, <1>12, <2>5, <2>7, <2>8, <2>9, <2>10
<1> QED BY <1>14, <1>15

-----------------------------------------------------------------------------
(* The requests.                                                           *)

\* What is left to show of a step of a request that leaves the row alone.
LEMMA RequestOnly ==
  ASSUME FilesInv, UNCHANGED <<row, record, scan, callback, told>>,
         Types', RequestsKnown', OnlyCleanAttached', AttachedThere',
         \A f \in File : /\ Safe(f) => Safe(f)'
                         /\ Unscanned(f) \in objects' <=> Unscanned(f) \in objects
  PROVE  FilesInv'
<1> USE DEF FilesInv
<1>1. \A d \in Delivery : scan[d] # Unused => scan[d].file \in File
  BY DEF Types, ScanState
<1>2. \A f \in File : /\ Deliveries(f)' = Deliveries(f)
                      /\ Reported(f)' <=> Reported(f)
  BY DEF Deliveries, Reported
<1>3. RowsKnown' /\ RecordsTrue'
  BY <1>2 DEF RowsKnown, Known, RecordsTrue, Verdict
<1>4. ScansKnown' /\ CallsKnown'
  BY <1>1, <1>2 DEF ScansKnown, CallsKnown, Known
<1>5. SourceKept'
  BY <1>2 DEF SourceKept, Unscanned
<1>6. OneDelivery'
  <2> SUFFICES ASSUME NEW f \in File, NEW d \in Delivery, Deliveries(f) = {d}
               PROVE  /\ scan[d].at \in {"delete", "done"} => record[f] = Verdict(f)
                      /\ Unscanned(f) \notin objects' =>
                           record[f] = Verdict(f) /\ scan[d].at \in {"waiting", "done", "dead"}
    BY <1>2 DEF OneDelivery, Unscanned, Verdict
  <2> QED BY DEF OneDelivery
<1> QED BY <1>3, <1>4, <1>5, <1>6

\* The request's file, and its attachment's place, are of no other kind.
LEMMA RequestTypes ==
  ASSUME FilesInv, NEW r \in Request, request[r].at # "idle"
  PROVE  /\ request[r].file \in File \ Infected
         /\ Attached(r, request[r].file) \in Object
         /\ \A f \in File : Attached(r, request[r].file) # Unscanned(f)
         /\ Attached(r, request[r].file).file = request[r].file
         /\ Attached(r, request[r].file).place = r
<1>1. request[r] \in RequestState
  BY DEF FilesInv, Types
<1>2. request[r].file \in File
  BY <1>1 DEF RequestState
<1>3. request[r].file \notin Infected
  BY DEF FilesInv, RequestsKnown
<1> QED BY <1>2, <1>3, AttachedApart DEF Attached, Object

LEMMA StartAttachStep ==
  ASSUME FilesInv, NEW r \in Request, NEW f \in File, StartAttach(r, f)
  PROVE  FilesInv'
<1> USE DEF FilesInv
<1>1. PICK p \in row[f] :
        /\ Usable(p)
        /\ request' = [request EXCEPT ![r] = [at |-> "copy", file |-> f, read |-> p]]
  BY DEF StartAttach
<1>2. /\ request[r].at = "idle" /\ attachment[r] = "none"
      /\ UNCHANGED <<row, record, objects, scan, callback, attachment, told, faults>>
  BY DEF StartAttach
<1>3. /\ p \in PendingFile /\ Known(f, p) /\ p.status = "complete"
      /\ \A q \in row[f] : q = p
  BY <1>1 DEF Types, TypeOK, RowsKnown, Usable
<1>4. /\ f \notin Infected /\ p = [status |-> "complete", at |-> TerminalLocation(f)]
      /\ Reported(f)
  BY <1>1, <1>3 DEF Known, PendingFile, Verdict, Reported
<1>5. Types'
  BY <1>1, <1>2, <1>3 DEF Types, TypeOK, RequestState
<1>6. RequestsKnown'
  BY <1>1, <1>2, <1>4 DEF RequestsKnown, Types, Reported, TerminalLocation
<1>7. AttachedThere'
  BY <1>1, <1>2 DEF AttachedThere, Types
<1>8. \A g \in File : Safe(g) => Safe(g)'
  BY <1>1, <1>2 DEF Safe, Types
<1> QED
  BY <1>2, <1>5, <1>6, <1>7, <1>8, RequestOnly DEF OnlyCleanAttached

LEMMA CopyAttachedStep ==
  ASSUME FilesInv, NEW r \in Request, CopyAttached(r)
  PROVE  FilesInv'
<1> USE DEF FilesInv
<1> DEFINE f == request[r].file
<1>1. request[r] \in [at : {"copy", "delete", "commit"}, file : File, read : PendingFile]
  BY DEF CopyAttached, Types, RequestState
<1>2. CASE request[r].read.at \in objects
  <2>1. /\ request[r].at = "copy"
        /\ objects' = objects \cup {Attached(r, f)}
        /\ request' = [request EXCEPT ![r] = [at |-> "delete", file |-> f, read |-> request[r].read]]
        /\ UNCHANGED <<row, record, scan, callback, attachment, told, faults>>
    BY <1>1, <1>2 DEF CopyAttached, Attach
  <2>2. /\ f \in File \ Infected
        /\ Attached(r, f) \in Object
        /\ \A g \in File : Attached(r, f) # Unscanned(g)
        /\ Attached(r, f).file = f
    BY <2>1, RequestTypes
  <2>3. Types'
    BY <1>1, <2>1, <2>2 DEF Types, TypeOK, RequestState
  <2>4. RequestsKnown'
    BY <1>1, <2>1 DEF RequestsKnown, Types, Reported, TerminalLocation
  <2>5. OnlyCleanAttached'
    BY <2>1, <2>2 DEF OnlyCleanAttached
  <2>6. AttachedThere'
    BY <1>1, <2>1 DEF AttachedThere, Types
  <2>7. \A g \in File : /\ Safe(g) => Safe(g)'
                        /\ Unscanned(g) \in objects' <=> Unscanned(g) \in objects
    BY <1>1, <2>1, <2>2 DEF Safe, Types
  <2> QED
    BY <2>1, <2>3, <2>4, <2>5, <2>6, <2>7, RequestOnly
<1>3. CASE request[r].read.at \notin objects
  <2>1. /\ request[r].at = "copy"
        /\ request' = [request EXCEPT ![r] = Resting]
        /\ UNCHANGED <<row, record, objects, scan, callback, attachment, told, faults>>
    BY <1>3 DEF CopyAttached, Attach
  <2>2. Types'
    BY <2>1 DEF Types, TypeOK, RequestState
  <2>3. RequestsKnown' /\ AttachedThere'
    BY <2>1 DEF RequestsKnown, AttachedThere, Types, Reported, TerminalLocation
  <2>4. \A g \in File : Safe(g) => Safe(g)'
    BY <2>1 DEF Safe, Types
  <2> QED
    BY <2>1, <2>2, <2>3, <2>4, RequestOnly DEF OnlyCleanAttached
<1> QED BY <1>2, <1>3

\* The attachment's object is there by now.
LEMMA DeleteScannedStep ==
  ASSUME FilesInv, NEW r \in Request, DeleteScanned(r)
  PROVE  FilesInv'
<1> USE DEF FilesInv
<1> DEFINE f == request[r].file
           old == request[r].read.at
<1>1. /\ request[r] \in [at : {"copy", "delete", "commit"}, file : File, read : PendingFile]
      /\ request[r].at = "delete"
  BY DEF DeleteScanned, Types, RequestState
<1>2. /\ objects' = objects \ {old}
      /\ request' = [request EXCEPT ![r] = [at |-> "commit", file |-> f, read |-> request[r].read]]
      /\ UNCHANGED <<row, record, scan, callback, attachment, told, faults>>
  BY <1>1 DEF DeleteScanned, Attach
<1>3. f \in File /\ old = TerminalLocation(f) /\ old.file = f
  <2>1. request[r].read = [status |-> "complete", at |-> TerminalLocation(f)]
    BY <1>1 DEF RequestsKnown
  <2> QED BY <1>1, <2>1, Places
<1>4. /\ \A q \in Request, g \in File : Attached(q, g) # old
      /\ \A g \in File : Unscanned(g) # old
  BY <1>3, AttachedApart, Places DEF Unscanned
<1>5. Attached(r, f) \in objects' /\ Attached(r, f).file = f /\ Attached(r, f).place # "unscanned"
  BY <1>1, <1>2, <1>3, <1>4, PlaceAssumption DEF AttachedThere, Attached
<1>6. Types'
  BY <1>1, <1>2 DEF Types, TypeOK, RequestState
<1>7. RequestsKnown'
  BY <1>1, <1>2 DEF RequestsKnown, Types, Reported, TerminalLocation
<1>8. OnlyCleanAttached'
  BY <1>2 DEF OnlyCleanAttached
<1>9. AttachedThere'
  <2> SUFFICES ASSUME NEW q \in Request
               PROVE  /\ request'[q].at \in {"delete", "commit", "done"} => Attached(q, request'[q].file) \in objects'
                      /\ attachment[q] = "live" => request'[q].at \in {"done", "dropped"}
    BY <1>2 DEF AttachedThere
  <2>1. request[q].at \in {"delete", "commit", "done"} => request[q].file \in File
    BY DEF Types, RequestState
  <2> QED BY <1>1, <1>2, <1>4, <2>1 DEF AttachedThere, Types
<1>10. \A g \in File : Safe(g) => Safe(g)'
  <2> SUFFICES ASSUME NEW g \in File, Safe(g) PROVE Safe(g)'
    OBVIOUS
  <2>1. CASE g = f
    BY <1>5, <2>1 DEF Safe
  <2>2. CASE g # f
    BY <1>1, <1>2, <1>3, <2>2 DEF Safe, Types
  <2> QED BY <2>1, <2>2
<1>11. \A g \in File : Unscanned(g) \in objects' <=> Unscanned(g) \in objects
  BY <1>2, <1>4
<1> QED
  BY <1>2, <1>6, <1>7, <1>8, <1>9, <1>10, <1>11, RequestOnly

\* The row keeps the verdict's place, and is processed from now on.
LEMMA CommitAttachStep ==
  ASSUME FilesInv, NEW r \in Request, CommitAttach(r)
  PROVE  FilesInv'
<1> USE DEF FilesInv
<1> DEFINE f == request[r].file
           old == request[r].read
           new == [status |-> "processed", at |-> TerminalLocation(f)]
<1>1. /\ request[r] \in [at : {"copy", "delete", "commit"}, file : File, read : PendingFile]
      /\ request[r].at = "commit"
  BY DEF CommitAttach, Types, RequestState
<1>2. /\ f \in File \ Infected /\ Reported(f)
      /\ old = [status |-> "complete", at |-> TerminalLocation(f)]
      /\ new = [old EXCEPT !.status = "processed"]
  BY <1>1 DEF RequestsKnown
<1>3. /\ row' = [row EXCEPT ![f] = Updated(f, old, new)]
      /\ attachment' = [attachment EXCEPT ![r] = "live"]
      /\ request' = [request EXCEPT ![r] = [at |-> "done", file |-> f]]
      /\ UNCHANGED <<record, objects, scan, callback, told, faults>>
  BY <1>2 DEF CommitAttach
<1>4. Updated(f, old, new) = { [status |-> "processed", at |-> c.at] : c \in row[f] }
  BY <1>2 DEF Updated
<1>5. \A c \in row[f] : c.at = TerminalLocation(f) /\ c \in PendingFile
  BY <1>1, <1>2 DEF RowsKnown, Known, Reported, Types, TypeOK
<1>6. row'[f] = { [status |-> "processed", at |-> c.at] : c \in row[f] }
  BY <1>1, <1>3, <1>4 DEF Types, TypeOK
<1>7. \A p \in row'[f] : p = new /\ p \in PendingFile
  BY <1>5, <1>6 DEF PendingFile, Status
<1>8. \A g \in File : g # f => row'[g] = row[g]
  BY <1>3 DEF Types, TypeOK
<1>9. row' \in [File -> SUBSET PendingFile] /\ \A g \in File : \A p, q \in row'[g] : p = q
  BY <1>1, <1>3, <1>7, <1>8 DEF Types, TypeOK
<1>10. row'[f] # {} /\ \A p \in row'[f] : Known(f, p) /\ p.status # "pending"
  <2>0. PICK c \in row[f] : TRUE
    BY <1>2 DEF Reported
  <2>1. row'[f] # {}
    <3>1. [status |-> "processed", at |-> c.at] \in row'[f]
      BY <1>6, <2>0
    <3> QED BY <3>1
  <2>2. \A p \in row'[f] : p.at = TerminalLocation(f) /\ p.status = "processed"
    BY <1>7
  <2> QED BY <1>2, <2>1, <2>2 DEF Known
<1> HIDE DEF new
<1>11. /\ \A g \in File : Deliveries(g)' = Deliveries(g)
       /\ \A g \in File : Reported(g) => Reported(g)'
       /\ \A g \in File : Safe(g) => Safe(g)'
  BY <1>1, <1>3, <1>8, <1>10 DEF Deliveries, Reported, Safe, Types
<1>12. Types'
  BY <1>1, <1>3, <1>9 DEF Types, TypeOK, RequestState
<1>13. RowsKnown'
  BY <1>8, <1>10 DEF RowsKnown, Known, Unscanned, TerminalLocation, Verdict
<1>14. ScansKnown' /\ CallsKnown'
  <2>1. \A d \in Delivery : scan[d] # Unused => scan[d].file \in File
    BY DEF Types, ScanState
  <2> QED BY <1>3, <1>8, <1>10, <1>11, <2>1 DEF ScansKnown, CallsKnown, Known
<1>15. RequestsKnown'
  <2>1. \A q \in Request : request[q].at # "idle" => request[q].file \in File
    BY DEF Types, RequestState
  <2>2. \A q \in Request : q # r => request'[q] = request[q]
    BY <1>3 DEF Types
  <2>3. request'[r] = [at |-> "done", file |-> f]
    BY <1>3 DEF Types
  <2> QED BY <1>2, <1>11, <2>1, <2>2, <2>3 DEF RequestsKnown, TerminalLocation
<1>16. AttachedThere' /\ OnlyCleanAttached'
  BY <1>1, <1>3 DEF AttachedThere, OnlyCleanAttached, Types, TypeOK
<1>17. SourceKept' /\ RecordsTrue' /\ OneDelivery'
  BY <1>3, <1>11 DEF SourceKept, RecordsTrue, OneDelivery, Unscanned, Verdict
<1> QED
  BY <1>12, <1>13, <1>14, <1>15, <1>16, <1>17

\* A request that fails forgets; what it did to the objects stays.
LEMMA AttachFailsStep ==
  ASSUME FilesInv, NEW r \in Request, AttachFails(r)
  PROVE  FilesInv'
<1> USE DEF FilesInv
<1>1. /\ request[r].at \in {"copy", "delete", "commit"}
      /\ request' = [request EXCEPT ![r] = Resting]
      /\ UNCHANGED <<row, record, objects, scan, callback, attachment, told>>
  BY DEF AttachFails
<1>2. Types'
  BY <1>1 DEF Types, TypeOK, RequestState
<1>3. RequestsKnown' /\ AttachedThere'
  BY <1>1 DEF RequestsKnown, AttachedThere, Types, Reported, TerminalLocation
<1>4. \A g \in File : Safe(g) => Safe(g)'
  BY <1>1 DEF Safe, Types
<1> QED
  BY <1>1, <1>2, <1>3, <1>4, RequestOnly DEF OnlyCleanAttached

LEMMA DeleteFileStep ==
  ASSUME FilesInv, NEW r \in Request, DeleteFile(r)
  PROVE  FilesInv'
<1> USE DEF FilesInv
<1> DEFINE f == request[r].file
<1>1. /\ request[r].at = "done"
      /\ objects' = objects \ {Attached(r, f)}
      /\ request' = [request EXCEPT ![r] = [at |-> "dropped", file |-> f]]
      /\ UNCHANGED <<row, record, scan, callback, attachment, told, faults>>
  BY DEF DeleteFile
<1>2. /\ f \in File \ Infected
      /\ \A g \in File : Attached(r, f) # Unscanned(g)
      /\ Attached(r, f).file = f
  BY <1>1, RequestTypes
<1>3. Types'
  BY <1>1, <1>2 DEF Types, TypeOK, RequestState
<1>4. RequestsKnown'
  BY <1>1, <1>2 DEF RequestsKnown, Types, Reported, TerminalLocation
<1>5. OnlyCleanAttached'
  BY <1>1 DEF OnlyCleanAttached
<1>6. AttachedThere'
  BY <1>1 DEF AttachedThere, Types, Attached
<1>7. \A g \in File : /\ Safe(g) => Safe(g)'
                      /\ Unscanned(g) \in objects' <=> Unscanned(g) \in objects
  BY <1>1, <1>2 DEF Safe, Types
<1> QED
  BY <1>1, <1>3, <1>4, <1>5, <1>6, <1>7, RequestOnly

LEMMA CommitDeleteStep ==
  ASSUME FilesInv, NEW r \in Request, CommitDelete(r)
  PROVE  FilesInv'
<1> USE DEF FilesInv
<1>1. /\ attachment' = [attachment EXCEPT ![r] = "deleted"]
      /\ UNCHANGED <<row, record, objects, scan, callback, request, told, faults>>
  BY DEF CommitDelete
<1>2. Types'
  BY <1>1 DEF Types, TypeOK
<1>3. AttachedThere' /\ RequestsKnown'
  BY <1>1 DEF AttachedThere, RequestsKnown, Types, TypeOK, Reported, TerminalLocation
<1>4. \A g \in File : Safe(g) => Safe(g)'
  BY <1>1 DEF Safe
<1> QED
  BY <1>1, <1>2, <1>3, <1>4, RequestOnly DEF OnlyCleanAttached

-----------------------------------------------------------------------------

LEMMA StepInv == FilesInv /\ [Next]_vars => FilesInv'
<1> SUFFICES ASSUME FilesInv, [Next]_vars PROVE FilesInv'
  OBVIOUS
<1>1. ASSUME NEW f \in File,
             \/ CreatePresignedUpload(f) \/ Poll(f)
             \/ \E d \in Delivery : Upload(d, f) \/ Redeliver(d, f)
      PROVE  FilesInv'
  BY <1>1, CreateStep, PollStep, DeliverStep
<1>2. ASSUME NEW d \in Delivery,
             \/ Replay(d) \/ StartScan(d) \/ MarkInProgress(d) \/ CopyScanned(d)
             \/ WriteRecord(d) \/ DeleteUnscanned(d) \/ ScanFails(d)
      PROVE  FilesInv'
  BY <1>2, ScanEndsStep, StartScanStep, MarkInProgressStep, CopyScannedStep, WriteRecordStep,
     DeleteUnscannedStep
<1>3. ASSUME NEW d \in Delivery, NEW n \in 0..Retries,
             ReadRow(d, n) \/ CheckObject(d, n) \/ CommitStatus(d, n) \/ CallbackFails(d, n)
      PROVE  FilesInv'
  BY <1>3, QuietCallSteps, CommitStatusStep
<1>4. ASSUME NEW r \in Request,
             \/ \E f \in File : StartAttach(r, f)
             \/ CopyAttached(r) \/ DeleteScanned(r) \/ CommitAttach(r) \/ AttachFails(r)
             \/ DeleteFile(r) \/ CommitDelete(r)
      PROVE  FilesInv'
  BY <1>4, StartAttachStep, CopyAttachedStep, DeleteScannedStep, CommitAttachStep, AttachFailsStep,
     DeleteFileStep, CommitDeleteStep
<1>5. CASE UNCHANGED vars
  <2>1. Types' /\ AttachedThere' /\ OnlyCleanAttached'
    BY <1>5 DEF vars, FilesInv, Types, TypeOK, AttachedThere, OnlyCleanAttached
  <2>2. RequestsKnown' /\ \A f \in File : Safe(f) => Safe(f)'
    BY <1>5 DEF vars, FilesInv, RequestsKnown, Reported, TerminalLocation, Safe
  <2> QED BY <1>5, <2>1, <2>2, RequestOnly DEF vars
<1> QED BY <1>1, <1>2, <1>3, <1>4, <1>5 DEF Next

\* What scans, callbacks, requests, rows, records and objects may rely on of each
\* other holds in every reachable state, whatever fails, is retried or overlaps.
THEOREM FilesCorrect == Spec => []FilesInv
BY InitInv, StepInv, PTL DEF Spec

\* A pending file has one row; records, objects and attachments are of their types.
THEOREM FileTypes == Spec => []TypeOK
<1>1. FilesInv => TypeOK
  BY DEF FilesInv, Types
<1> QED BY <1>1, FilesCorrect, PTL

\* No file that the scanner quarantines is ever at the place of an attachment.
THEOREM InfectedNeverAttached == Spec => []OnlyCleanAttached
<1>1. FilesInv => OnlyCleanAttached
  BY DEF FilesInv
<1> QED BY <1>1, FilesCorrect, PTL

\* An attachment's object is there until its deletion begins.
THEOREM AttachmentsHaveFiles == Spec => []HasFile
<1>1. FilesInv => HasFile
  BY DEF FilesInv, AttachedThere, HasFile, Live
<1> QED BY <1>1, FilesCorrect, PTL

\* An uploaded file is somewhere until an attachment made of it is deleted.
THEOREM UploadsSurvive == Spec => []NothingLost
<1>1. FilesInv => NothingLost
  BY DEF FilesInv, SourceKept, Safe, NothingLost, Unscanned
<1> QED BY <1>1, FilesCorrect, PTL

\* An uploader hears of a verdict after the row has it, and the row keeps it.
THEOREM ToldAfterRow == Spec => []ToldTruly
<1>1. ASSUME FilesInv PROVE ToldTruly
  <2> SUFFICES ASSUME NEW f \in File, told[f] \in Terminal
               PROVE  \E p \in row[f] : p.status \in {told[f], "processed"}
    BY DEF ToldTruly
  <2>1. told[f] = Verdict(f) /\ Reported(f)
    BY <1>1 DEF FilesInv, RecordsTrue
  <2> QED BY <1>1, <2>1 DEF FilesInv, RowsKnown, Known, Reported
<1> QED BY <1>1, FilesCorrect, PTL

\* When all deliveries of a file are done, its source is gone and its row has the
\* verdict; so has the record, if the event came only once.
THEOREM ScansEndSettled == Spec => []ScansSettle
<1>1. ASSUME FilesInv PROVE ScansSettle
  <2> SUFFICES ASSUME NEW f \in File, Deliveries(f) # {}, \A d \in Deliveries(f) : scan[d].at = "done"
               PROVE  /\ Unscanned(f) \notin objects
                      /\ \E p \in row[f] : p.status \in {Verdict(f), "processed"}
                      /\ \A d \in Delivery : Deliveries(f) = {d} => record[f] = Verdict(f)
    BY DEF ScansSettle
  <2>1. Unscanned(f) \notin objects /\ Reported(f)
    BY <1>1 DEF FilesInv, SourceKept
  <2>2. \E p \in row[f] : p.status \in {Verdict(f), "processed"}
    BY <1>1, <2>1 DEF FilesInv, RowsKnown, Known, Reported
  <2>3. \A d \in Delivery : Deliveries(f) = {d} => record[f] = Verdict(f)
    BY <1>1 DEF FilesInv, OneDelivery
  <2> QED BY <2>1, <2>2, <2>3
<1> QED BY <1>1, FilesCorrect, PTL

================================================================================
