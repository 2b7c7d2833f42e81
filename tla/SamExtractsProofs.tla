--------------------------- MODULE SamExtractsProofs ---------------------------
(***************************************************************************)
(* sam_gov_entity follows SAM.gov, for any entities, users, days with a    *)
(* monthly extract, overlapping requests and failing runs of the task.     *)
(*                                                                         *)
(* The argument: an extract is loaded after all before it that ever will   *)
(* be, so a row shows the last record loaded, or already that of the       *)
(* extract being loaded; what was never fetched lies before a monthly      *)
(* extract, which repeats every registration that was still active.        *)
(***************************************************************************)
EXTENDS Organizations, WellFoundedInduction, TLAPS

Record(e, d) == published[d].records[e]
Recorded(e, d) == Record(e, d) # {}
Ended(e, d) == e \in published[d].gone

\* The last record of e up to day n is that of day d.
LastRecord(e, d, n) == d \in 1..n /\ Recorded(e, d) /\ \A x \in d + 1 .. n : ~Recorded(e, x)

Inactive(rows) == { [r EXCEPT !.active = FALSE] : r \in rows }

\* What SAM.gov has published by now.
Extracts ==
  /\ day \in Day
  /\ published \in [Day -> Extract]
  /\ registry \in [Entity -> SUBSET Registration]
  /\ \A d \in Day : d > day => published[d] = Nothing
  /\ \A m \in Monthly : published[m].gone = {}
  /\ \A e \in Entity, d \in Day : \A r \in Record(e, d) :
       r.active /\ r.updated <= d /\ Record(e, d) = {r} /\ ~Ended(e, d)

\* A later record is the same, with no deactivation in between, or has a later date.
RecordsGrow ==
  \A e \in Entity, a, b \in Day : a < b /\ Recorded(e, a) /\ Recorded(e, b) =>
    \/ Record(e, a) = Record(e, b) /\ \A x \in a..b : ~Ended(e, x)
    \/ \A r \in Record(e, a), s \in Record(e, b) : r.updated < s.updated

\* The registry is what was published last, and so is each monthly extract.
RegistryPublished ==
  \A e \in Entity :
    /\ (\A d \in 1..day : ~Recorded(e, d)) => registry[e] = {}
    /\ \A d \in 1..day : LastRecord(e, d, day) =>
         IF \E x \in d..day : Ended(e, x) THEN registry[e] = Inactive(Record(e, d))
         ELSE registry[e] = Record(e, d)
    /\ \A m \in Monthly, d \in Day : m <= day /\ d < m /\ LastRecord(e, d, m) =>
         \E x \in d..m : Ended(e, x)

IsLoaded(d) == file[d] \in {"completed", "deleted"}

\* Extracts are loaded in order, and those passed over lie before a monthly one.
FilesInOrder ==
  /\ file \in [Day -> {"none", "pending", "completed", "deleted"}]
  /\ \A d \in Day : d > day => file[d] = "none"
  /\ \A a, b \in Day : file[a] = "pending" /\ IsLoaded(b) => b < a
  /\ \A a, b \in Day : a < b /\ file[a] = "none" /\ file[b] # "none" =>
       \E m \in Monthly : a < m /\ m <= b

\* The row is what the loaded extracts make of it.
AsLoaded(e) ==
  \/ entity[e] = {} /\ \A d \in Day : IsLoaded(d) => ~Recorded(e, d)
  \/ \E d \in Day :
       /\ IsLoaded(d) /\ Recorded(e, d)
       /\ \A x \in Day : x > d /\ IsLoaded(x) => ~Recorded(e, x)
       /\ IF \E x \in Day : x > d /\ IsLoaded(x) /\ Ended(e, x) THEN entity[e] = Inactive(Record(e, d))
          ELSE entity[e] = Record(e, d)

\* The row is that of the next extract, which a run has begun to load.
Ahead(e) ==
  \E f \in Pending : (\A p \in Pending : f <= p) /\ Recorded(e, f) /\ entity[e] = Record(e, f)

TaskInv ==
  /\ task.at = "load" =>
       LET f == First(Pending)
       IN /\ task.queue = Pending /\ Pending # {}
          /\ \A e \in task.todo : e \in Entity /\ Recorded(e, f)
          /\ \A e \in Entity \ task.todo : Recorded(e, f) => entity[e] = Record(e, f)
  /\ task.at \in {"link", "commit", "clean"} => Pending = {}

LoadInv ==
  /\ Extracts /\ RecordsGrow /\ RegistryPublished
  /\ FilesInOrder
  /\ entity = [e \in Entity |-> entity[e]]
  /\ \A e \in Entity : AsLoaded(e) \/ Ahead(e)
  /\ TaskInv

-----------------------------------------------------------------------------
(* First and last days.                                                    *)

LEMMA Least ==
  ASSUME NEW S, S \subseteq Nat, S # {}
  PROVE  \E m \in S : \A n \in S : m <= n
<1>1. PICK x \in S : \A y \in S : ~ (<<y, x>> \in OpToRel(<, Nat))
  BY NatLessThanWellFounded, WFMin
<1>2. \A y \in S : ~(y < x)
  BY <1>1 DEF OpToRel
<1> QED BY <1>2

LEMMA Greatest ==
  ASSUME NEW k \in Nat, NEW S, S \subseteq 0..k, S # {}
  PROVE  \E m \in S : \A n \in S : n <= m
<1> DEFINE T == { k - n : n \in S }
<1>1. T # {}
  OBVIOUS
<1>2. T \subseteq Nat
  <2>1. \A n \in S : n \in 0..k
    OBVIOUS
  <2>2. \A n \in 0..k : k - n \in Nat
    OBVIOUS
  <2> QED BY <2>1, <2>2
<1>3. PICK m \in T : \A n \in T : m <= n
  <2> HIDE DEF T
  <2> QED BY <1>1, <1>2, Least
<1>4. PICK x \in S : m = k - x
  BY <1>3
<1>5. ASSUME NEW n \in S PROVE n <= x
  <2>1. k - x <= k - n
    BY <1>3, <1>4
  <2>2. n \in 0..k /\ x \in 0..k
    OBVIOUS
  <2> QED BY <2>1, <2>2
<1> QED BY <1>5

LEMMA FirstIs ==
  ASSUME NEW S, S \subseteq Nat, S # {}
  PROVE  First(S) \in S /\ \A n \in S : First(S) <= n
<1>1. \E m \in S : \A n \in S : m <= n
  BY Least
<1> QED BY <1>1 DEF First

\* Either nothing is recorded of e, or there is a last record.
LEMMA LastRecordExists ==
  ASSUME LoadInv, NEW e \in Entity
  PROVE  (\A d \in 1..day : ~Recorded(e, d)) \/ \E d \in 1..day : LastRecord(e, d, day)
<1> DEFINE S == { d \in 1..day : Recorded(e, d) }
<1>1. day \in Nat
  BY DaysAssumption DEF LoadInv, Extracts, Day
<1>2. CASE S = {}
  BY <1>2
<1>3. CASE S # {}
  <2>1. S \subseteq 0..day
    BY <1>1
  <2>2. PICK d \in S : \A n \in S : n <= d
    <3> HIDE DEF S
    <3> QED BY <1>1, <1>3, <2>1, Greatest
  <2>3. d \in 1..day /\ Recorded(e, d)
    BY <2>2
  <2>4. \A x \in d + 1 .. day : ~Recorded(e, x)
    <3> SUFFICES ASSUME NEW x \in d + 1 .. day, Recorded(e, x) PROVE FALSE
      OBVIOUS
    <3>1. x \in 1..day /\ ~(x <= d)
      BY <1>1, <2>3
    <3>2. x \in S
      BY <3>1
    <3> QED BY <2>2, <3>1, <3>2
  <2> QED BY <2>3, <2>4 DEF LastRecord
<1> QED BY <1>2, <1>3

-----------------------------------------------------------------------------
(* The first day.                                                          *)

LEMMA InitInv == Init => LoadInv
<1> SUFFICES ASSUME Init PROVE LoadInv
  OBVIOUS
<1> USE DEF Init, SamInit
<1>0. MaxDay \in Nat /\ 1 \in Day /\ Day \subseteq Nat
  BY DaysAssumption DEF Day
<1>1. registry \in [Entity -> SUBSET Registration]
      /\ \A e \in Entity : \A r \in registry[e] : r.active /\ r.updated = 0 /\ registry[e] = {r}
  <2>1. ASSUME NEW e \in Entity
        PROVE  /\ registry[e] \in SUBSET Registration
               /\ \A r \in registry[e] : r.active /\ r.updated = 0 /\ registry[e] = {r}
    <3>1. registry[e] = {} \/ \E u \in User : registry[e] = {[updated |-> 0, active |-> TRUE, poc |-> u]}
      OBVIOUS
    <3>2. ASSUME NEW u \in User PROVE [updated |-> 0, active |-> TRUE, poc |-> u] \in Registration
      BY <1>0 DEF Registration
    <3>3. CASE registry[e] = {}
      BY <3>3
    <3>4. ASSUME NEW u \in User, registry[e] = {[updated |-> 0, active |-> TRUE, poc |-> u]}
          PROVE  /\ registry[e] \in SUBSET Registration
                 /\ \A r \in registry[e] : r.active /\ r.updated = 0 /\ registry[e] = {r}
      <4>1. registry[e] \in SUBSET Registration
        BY <3>2, <3>4
      <4>2. ASSUME NEW r \in registry[e] PROVE r.active /\ r.updated = 0 /\ registry[e] = {r}
        <5>1. r = [updated |-> 0, active |-> TRUE, poc |-> u]
          BY <3>4
        <5> QED BY <3>4, <5>1
      <4> QED BY <4>1, <4>2
    <3> QED BY <3>1, <3>3, <3>4
  <2>2. registry = [e \in Entity |-> registry[e]]
    OBVIOUS
  <2> QED BY <2>1, <2>2
<1>2. /\ \A d \in Day \ {1} : published[d] = Nothing
      /\ published[1] = [records |-> registry, gone |-> {}]
  BY <1>0
<1>3. published \in [Day -> Extract]
  BY <1>1 DEF Extract, Nothing
<1>4. /\ \A e \in Entity : Record(e, 1) = registry[e] /\ ~Ended(e, 1)
      /\ \A e \in Entity, d \in Day \ {1} : Record(e, d) = {} /\ ~Ended(e, d)
  <2>1. \A e \in Entity : Record(e, 1) = registry[e] /\ ~Ended(e, 1)
    BY <1>2 DEF Record, Ended
  <2>2. ASSUME NEW e \in Entity, NEW d \in Day \ {1} PROVE Record(e, d) = {} /\ ~Ended(e, d)
    <3>1. published[d] = Nothing
      BY <1>2
    <3> QED BY <3>1, Zenon DEF Record, Ended, Nothing
  <2> QED BY <2>1, <2>2
<1>5. Extracts
  <2>1. \A d \in Day : d > day => published[d] = Nothing
    BY <1>0, <1>2
  <2>2. \A m \in Monthly : published[m].gone = {}
    BY <1>2, DaysAssumption DEF Nothing, Day
  <2>3. \A e \in Entity, d \in Day : \A r \in Record(e, d) :
          r.active /\ r.updated <= d /\ Record(e, d) = {r} /\ ~Ended(e, d)
    BY <1>0, <1>1, <1>4
  <2> QED BY <1>0, <1>1, <1>3, <2>1, <2>2, <2>3 DEF Extracts
<1>6. RecordsGrow
  BY <1>0, <1>4 DEF RecordsGrow, Recorded
<1>7. RegistryPublished
  <2>1. 1..day = {1}
    OBVIOUS
  <2>2. \A e \in Entity : Recorded(e, 1) \/ registry[e] = {}
    BY <1>4 DEF Recorded
  <2>3. \A m \in Monthly : m <= day => \A d \in Day : ~(d < m)
    BY <1>0, DaysAssumption DEF Day
  <2> QED BY <1>4, <2>1, <2>2, <2>3 DEF RegistryPublished
<1>8. FilesInOrder
  BY DEF FilesInOrder, IsLoaded
<1>9. /\ \A e \in Entity : AsLoaded(e)
      /\ entity = [e \in Entity |-> entity[e]]
  BY DEF AsLoaded, IsLoaded
<1>10. TaskInv
  BY DEF TaskInv, Asleep
<1> QED BY <1>5, <1>6, <1>7, <1>8, <1>9, <1>10 DEF LoadInv

-----------------------------------------------------------------------------
(* A day passes at SAM.gov.                                                *)

\* What the extract of day n says of e, and what it makes of the registry.
Said(e, n) ==
  LET records == published'[n].records[e]
      ended == e \in published'[n].gone
  IN \/ /\ n \notin Monthly /\ records = {} /\ ~ended
        /\ registry'[e] = registry[e]
     \/ /\ n \notin Monthly /\ ~ended
        /\ \E r \in Registration : r.active /\ r.updated = n /\ records = {r} /\ registry'[e] = {r}
     \/ /\ n \notin Monthly /\ records = {} /\ ended
        /\ registry'[e] = Inactive(registry[e])
     \/ /\ n \in Monthly /\ ~ended
        /\ records = { r \in registry[e] : r.active }
        /\ registry'[e] = registry[e]

LEMMA NewExtract ==
  ASSUME LoadInv, NEW changed \in SUBSET Entity, NEW gone \in SUBSET Entity, changed \cap gone = {},
         NextDay(changed, gone), NEW n \in Nat, n = day + 1
  PROVE  /\ n \in Day /\ day' = n
         /\ published' \in [Day -> Extract]
         /\ registry' \in [Entity -> SUBSET Registration]
         /\ \A d \in Day \ {n} : published'[d] = published[d]
         /\ n \in Monthly => published'[n].gone = {}
         /\ \A e \in Entity : Said(e, n)
<1>1. n \in Day /\ day' = n
  BY DaysAssumption DEF NextDay, LoadInv, Extracts, Day
<1>2. published \in [Day -> Extract] /\ registry \in [Entity -> SUBSET Registration]
  BY DEF LoadInv, Extracts
<1>3. CASE n \in Monthly
  <2> DEFINE records == [e \in Entity |-> { r \in registry[e] : r.active }]
             new == [records |-> records, gone |-> {}]
  <2>1. published' = [published EXCEPT ![n] = new] /\ registry' = registry
    BY <1>3 DEF NextDay
  <2>2. new \in Extract
    <3>1. records \in [Entity -> SUBSET Registration]
      BY <1>2
    <3> HIDE DEF records
    <3> QED BY <3>1 DEF Extract
  <2>3. new.gone = {} /\ \A e \in Entity : new.records[e] = { r \in registry[e] : r.active }
    OBVIOUS
  <2> HIDE DEF new
  <2>4. published'[n] = new
    BY <1>1, <1>2, <2>1
  <2>5. \A e \in Entity : Said(e, n)
    BY <1>3, <2>1, <2>3, <2>4 DEF Said
  <2> QED BY <1>1, <1>2, <2>1, <2>2, <2>3, <2>4, <2>5
<1>4. CASE n \notin Monthly
  <2>1. PICK poc \in [changed -> User] :
          /\ registry' = [e \in Entity |->
               IF e \in changed THEN Update(poc[e])
               ELSE IF e \in gone THEN Deactivated(e) ELSE registry[e]]
          /\ published' = [published EXCEPT ![n] =
               [records |-> [e \in Entity |-> IF e \in changed THEN Update(poc[e]) ELSE {}],
                gone |-> gone]]
    BY <1>4 DEF NextDay
  <2> DEFINE records == [e \in Entity |-> IF e \in changed THEN Update(poc[e]) ELSE {}]
             new == [records |-> records, gone |-> gone]
  <2>2. ASSUME NEW e \in changed
        PROVE  \E r \in Registration : r.active /\ r.updated = n /\ Update(poc[e]) = {r}
    <3> DEFINE r == [updated |-> n, active |-> TRUE, poc |-> poc[e]]
    <3>1. r \in Registration /\ r.active /\ r.updated = n
      BY <1>1, DaysAssumption DEF Registration, Day
    <3>2. Update(poc[e]) = {r}
      BY DEF Update
    <3> HIDE DEF r
    <3> QED BY <3>1, <3>2
  <2>3. \A e \in Entity : Deactivated(e) = Inactive(registry[e]) /\ Deactivated(e) \in SUBSET Registration
    <3>1. ASSUME NEW r \in Registration PROVE [r EXCEPT !.active = FALSE] \in Registration
      BY DEF Registration
    <3> QED BY <1>2, <3>1 DEF Deactivated, Inactive
  <2>4. new \in Extract
    <3>1. records \in [Entity -> SUBSET Registration]
      BY <2>2
    <3> HIDE DEF records
    <3> QED BY <3>1 DEF Extract
  <2>5. registry' \in [Entity -> SUBSET Registration]
    <3>1. ASSUME NEW e \in Entity
          PROVE  (IF e \in changed THEN Update(poc[e])
                  ELSE IF e \in gone THEN Deactivated(e) ELSE registry[e]) \in SUBSET Registration
      BY <1>2, <2>2, <2>3
    <3> QED BY <2>1, <3>1
  <2>6. new.gone = gone /\ \A e \in Entity : new.records[e] = IF e \in changed THEN Update(poc[e]) ELSE {}
    OBVIOUS
  <2>7. published' = [published EXCEPT ![n] = new]
    BY <2>1
  <2> HIDE DEF new
  <2>8. published'[n] = new
    BY <1>1, <1>2, <2>7
  <2>9. ASSUME NEW e \in Entity PROVE Said(e, n)
    <3>1. CASE e \in changed
      BY <1>4, <2>1, <2>2, <2>6, <2>8, <3>1 DEF Said
    <3>2. CASE e \in gone
      <4>1. registry'[e] = Inactive(registry[e]) /\ new.records[e] = {} /\ e \in new.gone
        BY <2>1, <2>3, <2>6, <3>2
      <4> QED BY <1>4, <2>8, <4>1 DEF Said
    <3>3. CASE e \notin changed /\ e \notin gone
      BY <1>4, <2>1, <2>6, <2>8, <3>3 DEF Said
    <3> QED BY <3>1, <3>2, <3>3
  <2>10. published' \in [Day -> Extract] /\ \A d \in Day \ {n} : published'[d] = published[d]
    BY <1>1, <1>2, <2>4, <2>7
  <2> QED BY <1>1, <1>4, <2>5, <2>9, <2>10
<1> QED BY <1>3, <1>4

\* A registration ends once.
LEMMA InactiveOnce ==
  ASSUME NEW rows, rows \subseteq Registration
  PROVE  Inactive(Inactive(rows)) = Inactive(rows)
<1>1. ASSUME NEW r \in Registration
      PROVE  [[r EXCEPT !.active = FALSE] EXCEPT !.active = FALSE] = [r EXCEPT !.active = FALSE]
  BY DEF Registration
<1>2. Inactive(Inactive(rows)) \subseteq Inactive(rows)
  <2> SUFFICES ASSUME NEW r \in rows
               PROVE  [[r EXCEPT !.active = FALSE] EXCEPT !.active = FALSE] \in Inactive(rows)
    BY DEF Inactive
  <2> QED BY <1>1 DEF Inactive
<1>3. Inactive(rows) \subseteq Inactive(Inactive(rows))
  <2> SUFFICES ASSUME NEW r \in rows PROVE [r EXCEPT !.active = FALSE] \in Inactive(Inactive(rows))
    BY DEF Inactive
  <2>1. [r EXCEPT !.active = FALSE] \in Inactive(rows)
    BY DEF Inactive
  <2> HIDE DEF Inactive
  <2>2. [[r EXCEPT !.active = FALSE] EXCEPT !.active = FALSE] \in Inactive(Inactive(rows))
    BY <2>1 DEF Inactive
  <2> QED BY <1>1, <2>2
<1> QED BY <1>2, <1>3

\* What a monthly extract repeats of e: its last record, unless that has ended.
LEMMA MonthlyRepeats ==
  ASSUME LoadInv, NEW e \in Entity
  PROVE  \/ registry[e] = {} /\ \A d \in 1..day : ~Recorded(e, d)
         \/ \E d \in 1..day :
              /\ LastRecord(e, d, day)
              /\ \/ /\ \E x \in d..day : Ended(e, x)
                    /\ registry[e] = Inactive(Record(e, d))
                    /\ { r \in registry[e] : r.active } = {}
                 \/ /\ \A x \in d..day : ~Ended(e, x)
                    /\ registry[e] = Record(e, d)
                    /\ { r \in registry[e] : r.active } = Record(e, d)
<1>1. CASE \A d \in 1..day : ~Recorded(e, d)
  BY <1>1 DEF LoadInv, RegistryPublished
<1>2. ASSUME NEW d \in 1..day, LastRecord(e, d, day)
      PROVE  \/ /\ \E x \in d..day : Ended(e, x)
                /\ registry[e] = Inactive(Record(e, d))
                /\ { r \in registry[e] : r.active } = {}
             \/ /\ \A x \in d..day : ~Ended(e, x)
                /\ registry[e] = Record(e, d)
                /\ { r \in registry[e] : r.active } = Record(e, d)
  <2>0. d \in Day
    BY DaysAssumption DEF LoadInv, Extracts, Day
  <2>1. \A r \in Record(e, d) : r.active /\ r \in Registration
    <3>1. published[d].records[e] \in SUBSET Registration
      BY <2>0 DEF LoadInv, Extracts, Extract
    <3> QED BY <2>0, <3>1 DEF LoadInv, Extracts, Record
  <2>2. CASE \E x \in d..day : Ended(e, x)
    <3>1. registry[e] = Inactive(Record(e, d))
      BY <1>2, <2>2 DEF LoadInv, RegistryPublished
    <3>2. \A r \in Inactive(Record(e, d)) : ~r.active
      <4>1. \A r \in Registration : ~[r EXCEPT !.active = FALSE].active
        BY DEF Registration
      <4> QED BY <2>1, <4>1 DEF Inactive
    <3> QED BY <2>2, <3>1, <3>2
  <2>3. CASE \A x \in d..day : ~Ended(e, x)
    <3>1. registry[e] = Record(e, d)
      BY <1>2, <2>3 DEF LoadInv, RegistryPublished
    <3> QED BY <2>1, <2>3, <3>1
  <2> QED BY <2>2, <2>3
<1> QED BY <1>1, <1>2, LastRecordExists

LEMMA DayPublishes ==
  ASSUME LoadInv, NEW changed \in SUBSET Entity, NEW gone \in SUBSET Entity, changed \cap gone = {},
         NextDay(changed, gone)
  PROVE  Extracts' /\ RecordsGrow' /\ RegistryPublished'
<1>0. day + 1 \in Nat /\ MaxDay \in Nat
  BY DaysAssumption DEF LoadInv, Extracts, Day
<1> SUFFICES ASSUME NEW n \in Nat, n = day + 1
             PROVE  Extracts' /\ RecordsGrow' /\ RegistryPublished'
  BY <1>0
<1>1. /\ n \in Day /\ day' = n
      /\ published' \in [Day -> Extract]
      /\ registry' \in [Entity -> SUBSET Registration]
      /\ \A d \in Day \ {n} : published'[d] = published[d]
      /\ n \in Monthly => published'[n].gone = {}
      /\ \A e \in Entity : Said(e, n)
  BY NewExtract
<1>2. /\ day \in Day /\ day \in Nat /\ n - 1 = day
      /\ Day \subseteq Nat /\ Monthly \subseteq Day
      /\ \A d \in Day : d < n <=> d \in 1..day
      /\ 1..n = 1..day \cup {n} /\ n \notin 1..day /\ 1..day \subseteq Day
  BY DaysAssumption DEF LoadInv, Extracts, Day
<1>3. \A e \in Entity, d \in Day \ {n} : (Record(e, d)' = Record(e, d)) /\ (Ended(e, d)' <=> Ended(e, d))
  BY <1>1 DEF Record, Ended
<1>4. \A e \in Entity :
        Record(e, n)' = published'[n].records[e] /\ (Ended(e, n)' <=> e \in published'[n].gone)
  BY DEF Record, Ended
<1>5. ASSUME NEW e \in Entity, NEW r \in Record(e, n)'
      PROVE  r.active /\ r.updated <= n /\ Record(e, n)' = {r} /\ ~Ended(e, n)'
  <2>1. CASE n \notin Monthly
    BY <1>1, <1>4, <1>5, <2>1 DEF Said
  <2>2. CASE n \in Monthly
    <3>1. Record(e, n)' = { s \in registry[e] : s.active } /\ ~Ended(e, n)'
      BY <1>1, <1>4, <2>2 DEF Said
    <3>2. PICK d \in 1..day : { s \in registry[e] : s.active } = Record(e, d)
      BY <1>5, <3>1, MonthlyRepeats
    <3>3. d \in Day /\ d < n
      BY <1>2
    <3>4. r.active /\ r.updated <= d /\ Record(e, d) = {r}
      BY <1>5, <3>1, <3>2, <3>3 DEF LoadInv, Extracts
    <3>5. r.updated \in Nat
      <4>1. r \in Registration
        BY <3>3, <3>4 DEF LoadInv, Extracts, Extract, Record
      <4> QED BY <4>1, <1>0 DEF Registration
    <3> QED BY <1>2, <3>1, <3>2, <3>3, <3>4, <3>5
  <2> QED BY <2>1, <2>2
<1>6. Extracts'
  <2>1. day' \in Day
    BY <1>1
  <2>2. ASSUME NEW d \in Day, d > day' PROVE published'[d] = Nothing
    <3>1. d # n /\ d > day
      BY <1>1, <1>2, <2>2
    <3> QED BY <1>1, <3>1 DEF LoadInv, Extracts
  <2>3. \A m \in Monthly : published'[m].gone = {}
    BY <1>1, <1>2 DEF LoadInv, Extracts
  <2>4. ASSUME NEW e \in Entity, NEW d \in Day, NEW r \in Record(e, d)'
        PROVE  r.active /\ r.updated <= d /\ Record(e, d)' = {r} /\ ~Ended(e, d)'
    <3>1. CASE d = n
      BY <1>5, <2>4, <3>1
    <3>2. CASE d # n
      BY <1>3, <2>4, <3>2 DEF LoadInv, Extracts
    <3> QED BY <3>1, <3>2
  <2> QED BY <1>1, <2>1, <2>2, <2>3, <2>4 DEF Extracts
<1>7. RecordsGrow'
  <2>1. ASSUME NEW e \in Entity, NEW a \in Day, NEW b \in Day, a < b, Recorded(e, a)', Recorded(e, b)'
        PROVE  \/ Record(e, a)' = Record(e, b)' /\ \A x \in a..b : ~Ended(e, x)'
               \/ \A r \in Record(e, a)', s \in Record(e, b)' : r.updated < s.updated
    <3>0. \A d \in Day \ {n} : Recorded(e, d)' <=> Recorded(e, d)
      BY <1>3 DEF Recorded
    <3>1. CASE a # n /\ b # n /\ n \notin a..b
      <4>1. \A x \in a..b : x \in Day \ {n}
        BY <1>0, <1>2, <3>1 DEF Day
      <4>2. \/ Record(e, a) = Record(e, b) /\ \A x \in a..b : ~Ended(e, x)
            \/ \A r \in Record(e, a), s \in Record(e, b) : r.updated < s.updated
        BY <2>1, <3>0, <3>1 DEF LoadInv, RecordsGrow
      <4> QED BY <1>3, <3>1, <4>1, <4>2
    <3>2. CASE b > n
      <4>1. published[b] = Nothing
        BY <1>2, <3>2 DEF LoadInv, Extracts
      <4>2. Record(e, b) = {}
        <5>1. Nothing.records[e] = {}
          BY DEF Nothing
        <5> QED BY <4>1, <5>1 DEF Record
      <4>3. b # n
        BY <1>2, <3>2
      <4> QED BY <2>1, <3>0, <4>2, <4>3 DEF Recorded
    <3>3. CASE b = n
      <4>1. a \in 1..day /\ Recorded(e, a) /\ a \in Day \ {n}
        BY <1>2, <2>1, <3>0, <3>3
      <4>2. CASE n \notin Monthly
        <5>1. \A s \in Record(e, n)' : s.updated = n
          BY <1>1, <1>4, <2>1, <4>2 DEF Said
        <5>2. \A r \in Record(e, a) : r.updated <= a /\ r \in Registration
          BY <4>1 DEF LoadInv, Extracts, Extract, Record
        <5>3. \A r \in Record(e, a) : r.updated < n
          BY <1>0, <1>2, <2>1, <3>3, <5>2 DEF Registration
        <5> QED BY <1>3, <3>3, <4>1, <5>1, <5>3
      <4>3. CASE n \in Monthly
        <5>1. Record(e, n)' = { s \in registry[e] : s.active } /\ ~Ended(e, n)'
          BY <1>1, <1>4, <4>3 DEF Said
        <5>2. PICK d \in 1..day : /\ LastRecord(e, d, day)
                                   /\ \A x \in d..day : ~Ended(e, x)
                                   /\ Record(e, n)' = Record(e, d)
          BY <2>1, <3>3, <5>1, MonthlyRepeats DEF Recorded
        <5>3. \A x \in d..n : ~Ended(e, x)'
          BY <1>2, <1>3, <5>1, <5>2
        <5>4. CASE a = d
          BY <1>3, <3>3, <4>1, <5>2, <5>3, <5>4
        <5>5. CASE a # d
          <6>1. a < d /\ d \in Day /\ d # n
            BY <1>2, <4>1, <5>2, <5>5 DEF LastRecord
          <6>2. \/ Record(e, a) = Record(e, d) /\ \A x \in a..d : ~Ended(e, x)
                \/ \A r \in Record(e, a), s \in Record(e, d) : r.updated < s.updated
            BY <4>1, <5>2, <6>1 DEF LoadInv, RecordsGrow, LastRecord
          <6>3. CASE Record(e, a) = Record(e, d) /\ \A x \in a..d : ~Ended(e, x)
            <7>1. ASSUME NEW x \in a..n PROVE ~Ended(e, x)'
              <8>1. CASE x \in d..n
                BY <5>3, <8>1
              <8>2. CASE x \notin d..n
                <9>1. x \in a..d /\ x \in Day \ {n}
                  BY <1>2, <4>1, <6>1, <8>2 DEF Day
                <9> QED BY <1>3, <6>3, <9>1
              <8> QED BY <8>1, <8>2
            <7> QED BY <1>3, <3>3, <4>1, <5>2, <6>3, <7>1
          <6>4. CASE \A r \in Record(e, a), s \in Record(e, d) : r.updated < s.updated
            BY <1>3, <3>3, <4>1, <5>2, <6>4
          <6> QED BY <6>2, <6>3, <6>4
        <5> QED BY <5>4, <5>5
      <4> QED BY <4>2, <4>3
    <3>4. b < n => n \notin a..b /\ a # n /\ b # n
      BY <1>2, <2>1
    <3> QED BY <1>2, <3>1, <3>2, <3>3, <3>4
  <2> QED BY <2>1 DEF RecordsGrow
<1>8. ASSUME NEW e \in Entity, NEW d \in 1..day, NEW c \in 1..day, LastRecord(e, d, day), LastRecord(e, c, day)
      PROVE  c = d
  BY <1>2, <1>8 DEF LastRecord
<1>9. ASSUME NEW e \in Entity, NEW d \in Day, NEW m \in Nat, m < n, LastRecord(e, d, m)'
      PROVE  LastRecord(e, d, m)
  <2>1. d \in 1..m /\ d \in Day \ {n}
    BY <1>9 DEF LastRecord
  <2>2. \A x \in d + 1 .. m : x \in Day \ {n}
    BY <1>0, <1>1, <1>9, <2>1 DEF Day
  <2> QED BY <1>3, <1>9, <2>1, <2>2 DEF LastRecord, Recorded
<1>10. ASSUME NEW e \in Entity, NEW d \in Day, d < n, LastRecord(e, d, n)'
       PROVE  d \in 1..day /\ LastRecord(e, d, day) /\ ~Recorded(e, n)'
  <2>1. d \in 1..day /\ n \in d + 1 .. n /\ d # n
    BY <1>2, <1>10
  <2>2. \A x \in d + 1 .. day : x \in d + 1 .. n /\ x \in Day \ {n}
    BY <1>1, <1>2, <2>1 DEF Day
  <2>3. Recorded(e, d)' /\ \A x \in d + 1 .. n : ~Recorded(e, x)'
    BY <1>10 DEF LastRecord
  <2> QED BY <1>3, <2>1, <2>2, <2>3 DEF LastRecord, Recorded
<1>11. ASSUME NEW e \in Entity
       PROVE  (\A d \in 1..n : ~Recorded(e, d)') => registry'[e] = {}
  <2> SUFFICES ASSUME \A d \in 1..n : ~Recorded(e, d)' PROVE registry'[e] = {}
    OBVIOUS
  <2>1. published'[n].records[e] = {} /\ \A d \in 1..day : ~Recorded(e, d)
    BY <1>2, <1>3, <1>4 DEF Recorded
  <2>2. registry[e] = {}
    BY <2>1 DEF LoadInv, RegistryPublished
  <2>3. Inactive({}) = {}
    BY DEF Inactive
  <2> QED BY <1>1, <2>1, <2>2, <2>3 DEF Said
<1>12. ASSUME NEW e \in Entity, NEW d \in 1..n, LastRecord(e, d, n)'
       PROVE  IF \E x \in d..n : Ended(e, x)' THEN registry'[e] = Inactive(Record(e, d)')
              ELSE registry'[e] = Record(e, d)'
  <2>1. CASE d = n
    <3>1. Recorded(e, n)' /\ Record(e, n)' # {}
      BY <1>12, <2>1 DEF LastRecord, Recorded
    <3>2. ~Ended(e, n)' /\ d..n = {n}
      BY <1>2, <1>5, <2>1, <3>1
    <3>3. registry'[e] = Record(e, n)'
      <4>1. CASE n \notin Monthly
        BY <1>1, <1>4, <3>1, <4>1 DEF Said
      <4>2. CASE n \in Monthly
        <5>1. registry'[e] = registry[e] /\ Record(e, n)' = { r \in registry[e] : r.active }
          BY <1>1, <1>4, <4>2 DEF Said
        <5> QED BY <3>1, <5>1, MonthlyRepeats
      <4> QED BY <4>1, <4>2
    <3> QED BY <2>1, <3>2, <3>3
  <2>2. CASE d # n
    <3>0. d \in Day /\ d < n
      BY <1>2, <2>2
    <3>1. d \in 1..day /\ LastRecord(e, d, day) /\ ~Recorded(e, n)'
      BY <1>10, <1>12, <3>0
    <3>2. IF \E x \in d..day : Ended(e, x) THEN registry[e] = Inactive(Record(e, d))
          ELSE registry[e] = Record(e, d)
      BY <3>1 DEF LoadInv, RegistryPublished
    <3>3. Record(e, d)' = Record(e, d)
      BY <1>3, <2>2, <3>0
    <3>4. d..n = d..day \cup {n} /\ \A x \in d..day : x \in Day \ {n}
      BY <1>1, <1>2, <3>1 DEF Day
    <3>5. (\E x \in d..n : Ended(e, x)') <=> (\E x \in d..day : Ended(e, x)) \/ Ended(e, n)'
      BY <1>3, <3>4
    <3>6. CASE Ended(e, n)'
      <4>1. registry'[e] = Inactive(registry[e])
        BY <1>1, <1>4, <3>6 DEF Said
      <4>2. Inactive(Inactive(Record(e, d))) = Inactive(Record(e, d))
        <5>1. Record(e, d) \subseteq Registration
          BY <3>0 DEF LoadInv, Extracts, Extract, Record
        <5> QED BY <5>1, InactiveOnce
      <4> QED BY <3>2, <3>3, <3>5, <3>6, <4>1, <4>2
    <3>7. CASE ~Ended(e, n)'
      <4>1. registry'[e] = registry[e]
        BY <1>1, <1>4, <3>1, <3>7 DEF Said, Recorded
      <4> QED BY <3>2, <3>3, <3>5, <3>7, <4>1
    <3> QED BY <3>6, <3>7
  <2> QED BY <2>1, <2>2
<1>13. ASSUME NEW e \in Entity, NEW m \in Monthly, NEW d \in Day, m <= n, d < m, LastRecord(e, d, m)'
       PROVE  \E x \in d..m : Ended(e, x)'
  <2>1. CASE m # n
    <3>1. m < n /\ m <= day /\ m \in Nat
      BY <1>2, <1>13, <2>1
    <3>2. PICK x \in d..m : Ended(e, x)
      BY <1>9, <1>13, <3>1 DEF LoadInv, RegistryPublished
    <3>3. x \in Day \ {n}
      BY <1>0, <1>1, <1>2, <1>13, <3>1 DEF Day
    <3> QED BY <1>3, <3>2, <3>3
  <2>2. CASE m = n
    <3>1. d \in 1..day /\ LastRecord(e, d, day) /\ ~Recorded(e, n)'
      BY <1>10, <1>13, <2>2
    <3>2. Record(e, n)' = { r \in registry[e] : r.active } /\ Record(e, n)' = {}
      BY <1>1, <1>4, <2>2, <3>1 DEF Said, Recorded
    <3>3. PICK c \in 1..day :
            /\ LastRecord(e, c, day)
            /\ \/ \E x \in c..day : Ended(e, x)
               \/ { r \in registry[e] : r.active } = Record(e, c)
      BY <3>1, MonthlyRepeats DEF LastRecord
    <3>4. c = d
      BY <1>8, <3>1, <3>3
    <3>5. PICK x \in d..day : Ended(e, x)
      BY <3>2, <3>3, <3>4 DEF LastRecord, Recorded
    <3>6. x \in d..m /\ x \in Day \ {n}
      BY <1>1, <1>2, <2>2, <3>1, <3>5 DEF Day
    <3> QED BY <1>3, <3>5, <3>6
  <2> QED BY <2>1, <2>2
<1>14. RegistryPublished'
  <2>1. ASSUME NEW e \in Entity, NEW d \in 1..n, LastRecord(e, d, n)'
        PROVE  IF \E x \in d..n : Ended(e, x)' THEN registry'[e] = Inactive(Record(e, d))'
               ELSE registry'[e] = Record(e, d)'
    <3>1. Inactive(Record(e, d))' = Inactive(Record(e, d)')
      BY DEF Inactive
    <3> QED BY <1>12, <2>1, <3>1
  <2> QED BY <1>1, <1>11, <1>13, <2>1 DEF RegistryPublished
<1> QED BY <1>6, <1>7, <1>14

LEMMA PendingFirst ==
  ASSUME LoadInv, Pending # {}
  PROVE  /\ First(Pending) \in Pending /\ First(Pending) \in Day
         /\ \A p \in Pending : First(Pending) <= p
<1>1. Pending \subseteq Nat /\ Pending \subseteq Day
  BY DEF Pending, Day
<1> QED BY <1>1, FirstIs

\* The new extract concerns neither what is loaded nor what is on file.
LEMMA DayInv ==
  ASSUME LoadInv, NEW changed \in SUBSET Entity, NEW gone \in SUBSET Entity, changed \cap gone = {},
         NextDay(changed, gone)
  PROVE  LoadInv'
<1>0. day + 1 \in Nat /\ day \in Nat /\ Day \subseteq Nat
  BY DaysAssumption DEF LoadInv, Extracts, Day
<1> SUFFICES ASSUME NEW n \in Nat, n = day + 1
             PROVE  LoadInv'
  BY <1>0
<1>1. /\ n \in Day /\ day' = n
      /\ \A d \in Day \ {n} : published'[d] = published[d]
  BY NewExtract
<1>2. UNCHANGED <<entity, file, task>>
  BY DEF NextDay
<1>3. \A e \in Entity, d \in Day \ {n} : (Record(e, d)' = Record(e, d)) /\ (Ended(e, d)' <=> Ended(e, d))
                                      /\ (Recorded(e, d)' <=> Recorded(e, d))
  BY <1>1 DEF Record, Ended, Recorded
<1>4. file[n] = "none" /\ (\A d \in Day : IsLoaded(d) => d # n) /\ (\A d \in Pending : d # n /\ d \in Day)
  BY <1>0, <1>1 DEF LoadInv, FilesInOrder, IsLoaded, Pending
<1>5. Pending' = Pending /\ \A d \in Day : IsLoaded(d)' <=> IsLoaded(d)
  BY <1>2 DEF Pending, IsLoaded
<1>6. FilesInOrder'
  <2>1. \A d \in Day : d > day' => file'[d] = "none"
    BY <1>0, <1>1, <1>2 DEF LoadInv, FilesInOrder
  <2> QED BY <1>2, <1>5, <2>1 DEF LoadInv, FilesInOrder
<1>7. ASSUME NEW e \in Entity PROVE AsLoaded(e)' \/ Ahead(e)'
  <2>1. CASE Ahead(e)
    <3>1. PICK f \in Pending : (\A p \in Pending : f <= p) /\ Recorded(e, f) /\ entity[e] = Record(e, f)
      BY <2>1 DEF Ahead
    <3> QED BY <1>2, <1>3, <1>4, <1>5, <3>1 DEF Ahead
  <2>2. CASE entity[e] = {} /\ \A d \in Day : IsLoaded(d) => ~Recorded(e, d)
    BY <1>2, <1>3, <1>4, <1>5, <2>2 DEF AsLoaded
  <2>3. ASSUME NEW d \in Day,
               /\ IsLoaded(d) /\ Recorded(e, d)
               /\ \A x \in Day : x > d /\ IsLoaded(x) => ~Recorded(e, x)
               /\ IF \E x \in Day : x > d /\ IsLoaded(x) /\ Ended(e, x) THEN entity[e] = Inactive(Record(e, d))
                  ELSE entity[e] = Record(e, d)
        PROVE  AsLoaded(e)'
    <3>1. /\ IsLoaded(d)' /\ Recorded(e, d)' /\ Record(e, d)' = Record(e, d)
          /\ \A x \in Day : x > d /\ IsLoaded(x)' => ~Recorded(e, x)'
          /\ (\E x \in Day : x > d /\ IsLoaded(x)' /\ Ended(e, x)')
               <=> \E x \in Day : x > d /\ IsLoaded(x) /\ Ended(e, x)
      BY <1>3, <1>4, <1>5, <2>3
    <3>2. Inactive(Record(e, d))' = Inactive(Record(e, d))
      BY <3>1 DEF Inactive
    <3> QED BY <1>2, <2>3, <3>1, <3>2 DEF AsLoaded
  <2> QED BY <2>1, <2>2, <2>3 DEF LoadInv, AsLoaded
<1>8. TaskInv'
  <2>1. CASE task.at = "load"
    <3> DEFINE f == First(Pending)
    <3>1. f \in Day \ {n} /\ First(Pending)' = f
      BY <1>4, <1>5, <2>1, PendingFirst DEF LoadInv, TaskInv, First
    <3>2. \A e \in Entity : (Recorded(e, f)' <=> Recorded(e, f)) /\ (Record(e, f)' = Record(e, f))
      BY <1>1, <3>1 DEF Recorded, Record
    <3> QED BY <1>2, <1>3, <1>5, <2>1, <3>1, <3>2 DEF LoadInv, TaskInv, Recorded, Record
  <2>2. CASE task.at # "load"
    BY <1>2, <1>5, <2>2 DEF LoadInv, TaskInv
  <2> QED BY <2>1, <2>2
<1> QED BY <1>2, <1>6, <1>7, <1>8, DayPublishes DEF LoadInv

-----------------------------------------------------------------------------
(* The task.                                                               *)

LEMMA TableInv ==
  ASSUME LoadInv, UNCHANGED <<day, registry, published>>,
         FilesInOrder', TaskInv',
         entity' = [e \in Entity |-> entity'[e]],
         \A e \in Entity : AsLoaded(e)' \/ Ahead(e)'
  PROVE  LoadInv'
<1>1. Extracts'
  BY DEF LoadInv, Extracts, Record, Ended
<1>2. RecordsGrow'
  BY DEF LoadInv, RecordsGrow, Recorded, Record, Ended
<1>3. RegistryPublished'
  BY DEF LoadInv, RegistryPublished, LastRecord, Recorded, Record, Ended, Inactive
<1> QED BY <1>1, <1>2, <1>3 DEF LoadInv

\* A step that loads nothing and forgets nothing.
LEMMA RowsStay ==
  ASSUME LoadInv, UNCHANGED <<published, entity>>,
         \A d \in Day : IsLoaded(d)' <=> IsLoaded(d),
         \A f \in Pending : (\A p \in Pending : f <= p) => f \in Pending' /\ \A p \in Pending' : f <= p
  PROVE  \A e \in Entity : AsLoaded(e)' \/ Ahead(e)'
<1>1. \A e \in Entity : Ahead(e) => Ahead(e)'
  BY DEF Ahead, Recorded, Record
<1>2. \A e \in Entity : AsLoaded(e) => AsLoaded(e)'
  BY DEF AsLoaded, Recorded, Record, Ended, Inactive
<1> QED BY <1>1, <1>2 DEF LoadInv

LEMMA LastMonthly ==
  ASSUME LoadInv
  PROVE  LET M == Last({ d \in Monthly : d <= day })
         IN M \in Monthly /\ M <= day /\ \A m \in Monthly : m <= day => m <= M
<1> DEFINE S == { d \in Monthly : d <= day }
<1>1. day \in Nat /\ 1 \in S /\ S \subseteq 0..day
  BY DaysAssumption DEF LoadInv, Extracts, Day
<1>2. \E m \in S : \A n \in S : n <= m
  <2> HIDE DEF S
  <2> QED BY <1>1, Greatest
<1>3. \A m \in S : \A n \in S : n <= m <=> m >= n
  BY <1>1
<1>4. Last(S) \in S /\ \A n \in S : Last(S) >= n
  <2> HIDE DEF S
  <2> QED BY <1>2, <1>3 DEF Last
<1>5. \A n \in S : n <= Last(S)
  BY <1>3, <1>4
<1> QED BY <1>4, <1>5

LEMMA FetchInv ==
  ASSUME LoadInv, Fetch
  PROVE  LoadInv'
<1>0. day \in Nat /\ Day \subseteq Nat /\ Monthly \subseteq Day /\ day \in Day
  BY DaysAssumption DEF LoadInv, Extracts, Day
<1>1. PICK M \in Monthly : M <= day /\ (\A m \in Monthly : m <= day => m <= M) /\ Wanted = M..day
  BY LastMonthly DEF Wanted
<1>2. /\ UNCHANGED <<day, registry, published, entity>>
      /\ file' = [d \in Day |-> IF d \in M..day /\ file[d] = "none" THEN "pending" ELSE file[d]]
      /\ task' = [at |-> "list"]
  BY <1>1 DEF Fetch
<1>3. /\ file \in [Day -> {"none", "pending", "completed", "deleted"}]
      /\ \A d \in Day : d > day => file[d] = "none"
      /\ \A a, b \in Day : file[a] = "pending" /\ IsLoaded(b) => b < a
      /\ \A a, b \in Day : a < b /\ file[a] = "none" /\ file[b] # "none" =>
           \E m \in Monthly : a < m /\ m <= b
  BY DEF LoadInv, FilesInOrder
<1>4. \A d \in Day : IsLoaded(d)' <=> IsLoaded(d)
  BY <1>2, <1>3 DEF IsLoaded
\* What is fetched now is later than everything on file.
<1>5. ASSUME NEW a \in Day, a \in M..day, file[a] = "none", NEW b \in Day, file[b] # "none"
      PROVE  b < a
  <2>1. b <= day
    BY <1>0, <1>3, <1>5
  <2>2. ~(a < b)
    <3> SUFFICES ASSUME a < b PROVE FALSE
      OBVIOUS
    <3>1. PICK m \in Monthly : a < m /\ m <= b
      BY <1>3, <1>5
    <3>2. m <= M
      BY <1>0, <1>1, <2>1, <3>1
    <3> QED BY <1>0, <1>5, <3>1, <3>2
  <2>3. a # b
    BY <1>5
  <2> QED BY <1>0, <2>2, <2>3
<1>6. FilesInOrder'
  <2>1. file' \in [Day -> {"none", "pending", "completed", "deleted"}]
    BY <1>2, <1>3
  <2>2. \A d \in Day : d > day' => file'[d] = "none"
    BY <1>0, <1>1, <1>2, <1>3
  <2>3. ASSUME NEW a \in Day, NEW b \in Day, file'[a] = "pending", IsLoaded(b)'
        PROVE  b < a
    <3>1. IsLoaded(b) /\ file[b] # "none"
      BY <1>4, <2>3 DEF IsLoaded
    <3>2. CASE file[a] = "pending"
      BY <1>3, <3>1, <3>2
    <3>3. CASE file[a] # "pending"
      <4>1. a \in M..day /\ file[a] = "none"
        BY <1>2, <2>3, <3>3
      <4> QED BY <1>5, <3>1, <4>1
    <3> QED BY <3>2, <3>3
  <2>4. ASSUME NEW a \in Day, NEW b \in Day, a < b, file'[a] = "none", file'[b] # "none"
        PROVE  \E m \in Monthly : a < m /\ m <= b
    <3>1. file[a] = "none" /\ a \notin M..day
      BY <1>2, <2>4
    <3>2. CASE file[b] # "none"
      BY <1>3, <2>4, <3>1, <3>2
    <3>3. CASE file[b] = "none"
      <4>1. b \in M..day
        BY <1>2, <2>4, <3>3
      <4>2. a < M /\ M <= b
        BY <1>0, <2>4, <3>1, <4>1
      <4> QED BY <4>2
    <3> QED BY <3>2, <3>3
  <2> QED BY <2>1, <2>2, <2>3, <2>4 DEF FilesInOrder
<1>7. ASSUME NEW f \in Pending, \A p \in Pending : f <= p
      PROVE  f \in Pending' /\ \A p \in Pending' : f <= p
  <2>1. f \in Pending' /\ f \in Day /\ file[f] # "none"
    BY <1>2, <1>7 DEF Pending
  <2>2. ASSUME NEW p \in Pending' PROVE f <= p
    <3>1. p \in Pending \/ (p \in Day /\ p \in M..day /\ file[p] = "none")
      BY <1>2, <2>2 DEF Pending
    <3>2. CASE p \in Pending
      BY <1>7, <3>2
    <3>3. CASE p \in Day /\ p \in M..day /\ file[p] = "none"
      <4>1. f < p
        BY <1>5, <2>1, <3>3
      <4> QED BY <1>0, <2>1, <3>3, <4>1
    <3> QED BY <3>1, <3>2, <3>3
  <2> QED BY <2>1, <2>2
<1>8. \A e \in Entity : AsLoaded(e)' \/ Ahead(e)'
  BY <1>2, <1>4, <1>7, RowsStay
<1>9. TaskInv'
  BY <1>2 DEF TaskInv
<1> QED BY <1>2, <1>6, <1>8, <1>9, TableInv DEF LoadInv

\* The steps that only begin, end or abandon something.
LEMMA OtherTaskInv ==
  ASSUME LoadInv, ListPending \/ CleanUp \/ TaskFails \/ ReadLinks \/ CommitLinks \/ UNCHANGED samVars
  PROVE  LoadInv'
<1>1. UNCHANGED <<day, registry, published, entity>>
  BY DEF ListPending, CleanUp, TaskFails, ReadLinks, CommitLinks, samVars
<1>2. CASE UNCHANGED file
  <2>1. FilesInOrder' /\ Pending' = Pending /\ \A d \in Day : IsLoaded(d)' <=> IsLoaded(d)
    BY <1>1, <1>2 DEF LoadInv, FilesInOrder, IsLoaded, Pending
  <2>2. \A e \in Entity : AsLoaded(e)' \/ Ahead(e)'
    BY <1>1, <2>1, RowsStay
  <2>3. TaskInv'
    <3>1. CASE ListPending
      <4>1. task' = Loading(Pending)
        BY <3>1 DEF ListPending
      <4>2. CASE Pending = {}
        BY <2>1, <4>1, <4>2 DEF Loading, TaskInv
      <4>3. CASE Pending # {}
        <5>1. /\ task'.at = "load" /\ task'.queue = Pending
              /\ task'.todo = { e \in Entity : published[First(Pending)].records[e] # {} }
          BY <4>1, <4>3 DEF Loading
        <5>2. First(Pending)' = First(Pending)
          BY <2>1 DEF First
        <5> QED BY <1>1, <2>1, <4>3, <5>1, <5>2 DEF TaskInv, Recorded, Record
      <4> QED BY <4>2, <4>3
    <3>2. CASE UNCHANGED task
      <4>1. First(Pending)' = First(Pending)
        BY <2>1 DEF First
      <4> QED BY <1>1, <2>1, <3>2, <4>1 DEF LoadInv, TaskInv, Recorded, Record
    <3>3. CASE TaskFails \/ CleanUp
      BY <3>3 DEF TaskFails, CleanUp, Asleep, TaskInv
    <3>4. CASE ReadLinks
      BY <2>1, <3>4 DEF ReadLinks, TaskInv, LoadInv
    <3>5. CASE CommitLinks
      BY <2>1, <3>5 DEF CommitLinks, TaskInv, LoadInv, Asleep
    <3> QED BY <3>1, <3>2, <3>3, <3>4, <3>5 DEF samVars
  <2> QED BY <1>1, <2>1, <2>2, <2>3, TableInv DEF LoadInv
<1>3. CASE CleanUp
  <2>1. Pending = {}
    BY <1>3 DEF CleanUp, LoadInv, TaskInv
  <2>2. /\ file' = [d \in Day |-> IF d + KeepDays < day /\ file[d] # "none" THEN "deleted" ELSE file[d]]
        /\ task' = Asleep
    BY <1>3 DEF CleanUp
  <2>3. file \in [Day -> {"none", "pending", "completed", "deleted"}] /\ \A d \in Day : file[d] # "pending"
    BY <2>1 DEF LoadInv, FilesInOrder, Pending
  <2>4. /\ file' \in [Day -> {"none", "pending", "completed", "deleted"}]
        /\ \A d \in Day : (file'[d] = "none" <=> file[d] = "none") /\ file'[d] # "pending"
                         /\ (IsLoaded(d)' <=> IsLoaded(d))
    BY <2>2, <2>3 DEF IsLoaded
  <2>5. FilesInOrder'
    BY <1>1, <2>4 DEF LoadInv, FilesInOrder
  <2>6. \A e \in Entity : AsLoaded(e)' \/ Ahead(e)'
    BY <1>1, <2>1, <2>4, RowsStay
  <2>7. TaskInv'
    BY <2>2 DEF Asleep, TaskInv
  <2> QED BY <1>1, <2>5, <2>6, <2>7, TableInv DEF LoadInv
<1> QED BY <1>2, <1>3 DEF ListPending, TaskFails, ReadLinks, CommitLinks, samVars

\* Whatever the row was, after its batch it is that of the extract.
LEMMA BatchLoads ==
  ASSUME LoadInv, NEW e \in Entity, LoadBatch(e)
  PROVE  entity'[e] = Record(e, First(Pending))
<1> DEFINE f == First(Pending)
<1>0. /\ task.at = "load" /\ task.queue = Pending /\ e \in task.todo
      /\ f \in Pending /\ f \in Day /\ (\A p \in Pending : f <= p)
      /\ Recorded(e, f)
      /\ Day \subseteq Nat /\ Pending \subseteq Nat
  BY PendingFirst, DaysAssumption DEF LoadBatch, LoadInv, TaskInv, Day, Pending
<1>1. entity'[e] = IF \A r \in Record(e, f) : Newer(entity[e], r) THEN Record(e, f) ELSE entity[e]
  BY <1>0 DEF LoadBatch, LoadInv, Record
<1> SUFFICES entity'[e] = Record(e, f)
  OBVIOUS
<1> HIDE DEF f
<1>2. CASE entity[e] = {}
  BY <1>1, <1>2 DEF Newer
<1>3. CASE entity[e] = Record(e, f)
  BY <1>1, <1>3
<1>4. ASSUME NEW d \in Day,
             /\ IsLoaded(d) /\ Recorded(e, d)
             /\ IF \E x \in Day : x > d /\ IsLoaded(x) /\ Ended(e, x) THEN entity[e] = Inactive(Record(e, d))
                ELSE entity[e] = Record(e, d)
      PROVE  entity'[e] = Record(e, f)
  <2>1. \A x \in Day : IsLoaded(x) => x < f
    BY <1>0 DEF LoadInv, FilesInOrder, Pending
  <2>2. CASE Record(e, d) = Record(e, f) /\ \A x \in d..f : ~Ended(e, x)
    <3>1. \A x \in Day : x > d /\ IsLoaded(x) => x \in d..f
      BY <1>0, <2>1 DEF Day
    <3>2. entity[e] = Record(e, d)
      BY <1>4, <2>2, <3>1
    <3> QED BY <1>1, <2>2, <3>2
  <2>3. CASE \A r \in Record(e, d), s \in Record(e, f) : r.updated < s.updated
    <3>1. \A r \in Record(e, d) : r \in Registration
      BY DEF LoadInv, Extracts, Extract, Record
    <3>2. \A r \in Record(e, f) : r \in Registration
      BY <1>0 DEF LoadInv, Extracts, Extract, Record
    <3>3. \A s \in entity[e] : \E r \in Record(e, d) : s.updated = r.updated
      <4>1. \A r \in Registration : [r EXCEPT !.active = FALSE].updated = r.updated
        BY DEF Registration
      <4>2. CASE entity[e] = Inactive(Record(e, d))
        <5>1. \A s \in Inactive(Record(e, d)) : \E r \in Record(e, d) : s.updated = r.updated
          BY <3>1, <4>1 DEF Inactive
        <5> QED BY <4>2, <5>1
      <4>3. CASE entity[e] = Record(e, d)
        BY <4>3
      <4> QED BY <1>4, <4>2, <4>3
    <3>4. \A r \in Record(e, f), s \in entity[e] : r.updated > s.updated
      <4> SUFFICES ASSUME NEW r \in Record(e, f), NEW s \in entity[e] PROVE r.updated > s.updated
        OBVIOUS
      <4>1. PICK t \in Record(e, d) : s.updated = t.updated
        BY <3>3
      <4>2. t.updated < r.updated
        BY <2>3
      <4>3. t.updated \in Nat /\ r.updated \in Nat
        BY <3>1, <3>2, DaysAssumption DEF Registration
      <4> QED BY <4>1, <4>2, <4>3
    <3> QED BY <1>1, <3>4 DEF Newer
  <2> QED BY <1>0, <1>4, <2>1, <2>2, <2>3 DEF LoadInv, RecordsGrow
<1>5. Ahead(e) => entity[e] = Record(e, f)
  <2> SUFFICES ASSUME Ahead(e) PROVE entity[e] = Record(e, f)
    OBVIOUS
  <2>1. PICK g \in Pending : (\A p \in Pending : g <= p) /\ entity[e] = Record(e, g)
    BY DEF Ahead
  <2>2. g = f
    BY <1>0, <2>1
  <2> QED BY <2>1, <2>2
<1> QED BY <1>2, <1>3, <1>4, <1>5 DEF LoadInv, AsLoaded

LEMMA LoadBatchInv ==
  ASSUME LoadInv, NEW e \in Entity, LoadBatch(e)
  PROVE  LoadInv'
<1> DEFINE f == First(Pending)
<1>1. /\ UNCHANGED <<day, registry, published, file>>
      /\ task' = [at |-> "load", queue |-> task.queue, todo |-> task.todo \ {e}]
      /\ entity' = [x \in Entity |-> entity'[x]]
      /\ \A x \in Entity \ {e} : entity'[x] = entity[x]
  BY DEF LoadBatch, Remaining, LoadInv
<1>2. /\ task.queue = Pending /\ Pending # {}
      /\ (\A x \in task.todo : x \in Entity /\ Recorded(x, f))
      /\ (\A x \in Entity \ task.todo : Recorded(x, f) => entity[x] = Record(x, f))
      /\ Recorded(e, f)
  BY DEF LoadBatch, LoadInv, TaskInv
<1>3. f \in Pending /\ \A p \in Pending : f <= p
  BY <1>2, PendingFirst
<1>4. entity'[e] = Record(e, f)
  BY BatchLoads
<1>5. Pending' = Pending /\ First(Pending)' = f /\ \A d \in Day : IsLoaded(d)' <=> IsLoaded(d)
  BY <1>1 DEF Pending, First, IsLoaded
<1>6. FilesInOrder'
  BY <1>1, <1>5 DEF LoadInv, FilesInOrder
<1>7. TaskInv'
  <2>1. \A x \in Entity : (Recorded(x, f)' <=> Recorded(x, f)) /\ Record(x, f)' = Record(x, f)
    BY <1>1, <1>5 DEF Recorded, Record
  <2>2. \A x \in Entity \ task'.todo : Recorded(x, f) => entity'[x] = Record(x, f)
    BY <1>1, <1>2, <1>4
  <2>3. \A x \in task'.todo : x \in Entity /\ Recorded(x, f)
    BY <1>1, <1>2
  <2>4. task'.at = "load" /\ task'.queue = Pending
    BY <1>1, <1>2
  <2> HIDE DEF f
  <2> QED BY <1>1, <1>2, <1>5, <2>2, <2>3, <2>4 DEF TaskInv, Recorded, Record
<1>8. ASSUME NEW x \in Entity PROVE AsLoaded(x)' \/ Ahead(x)'
  <2>1. CASE x = e
    <3>1. entity'[x] = published[f].records[x] /\ published[f].records[x] # {}
      BY <1>2, <1>4, <2>1 DEF Recorded, Record
    <3> HIDE DEF f
    <3> QED BY <1>1, <1>3, <1>5, <3>1 DEF Ahead, Recorded, Record
  <2>2. CASE x # e
    <3>1. entity'[x] = entity[x]
      BY <1>1, <2>2
    <3>2. Ahead(x) => Ahead(x)'
      BY <1>1, <1>5, <3>1 DEF Ahead, Recorded, Record
    <3>3. AsLoaded(x) => AsLoaded(x)'
      BY <1>1, <1>5, <3>1 DEF AsLoaded, Recorded, Record, Ended, Inactive
    <3> QED BY <3>2, <3>3 DEF LoadInv
  <2> QED BY <2>1, <2>2
<1> QED BY <1>1, <1>6, <1>7, <1>8, TableInv

LEMMA FinishExtractInv ==
  ASSUME LoadInv, FinishExtract
  PROVE  LoadInv'
<1>0. PICK f \in Day : f = First(Pending) /\ f \in Pending /\ \A p \in Pending : f <= p
  BY PendingFirst DEF FinishExtract, LoadInv, TaskInv
<1>1. /\ UNCHANGED <<day, registry, published>>
      /\ entity' = [e \in Entity |-> IF Ended(e, f) THEN Inactive(entity[e]) ELSE entity[e]]
      /\ file' = [file EXCEPT ![f] = "completed"]
      /\ task' = Loading(Pending \ {f})
      /\ \A e \in Entity : Recorded(e, f) => entity[e] = Record(e, f)
  BY <1>0 DEF FinishExtract, LoadInv, TaskInv, Ended, Inactive
<1>2. /\ file \in [Day -> {"none", "pending", "completed", "deleted"}]
      /\ \A d \in Day : d > day => file[d] = "none"
      /\ \A a, b \in Day : file[a] = "pending" /\ IsLoaded(b) => b < a
      /\ \A a, b \in Day : a < b /\ file[a] = "none" /\ file[b] # "none" =>
           \E m \in Monthly : a < m /\ m <= b
  BY DEF LoadInv, FilesInOrder
<1>3. /\ \A d \in Day : IsLoaded(d)' <=> IsLoaded(d) \/ d = f
      /\ Pending' = Pending \ {f}
      /\ file[f] = "pending" /\ ~IsLoaded(f)
      /\ Day \subseteq Nat
  BY <1>0, <1>1, <1>2, DaysAssumption DEF IsLoaded, Pending, Day
<1>4. FilesInOrder'
  <2>1. file' \in [Day -> {"none", "pending", "completed", "deleted"}]
        /\ (\A d \in Day : file'[d] = "none" <=> file[d] = "none")
    BY <1>1, <1>2, <1>3
  <2>2. ASSUME NEW a \in Day, NEW b \in Day, file'[a] = "pending", IsLoaded(b)'
        PROVE  b < a
    <3>1. a \in Pending /\ a # f /\ file[a] = "pending"
      BY <1>1, <1>2, <2>2 DEF Pending
    <3>2. CASE b = f
      BY <1>0, <1>3, <3>1, <3>2
    <3>3. CASE b # f
      BY <1>2, <1>3, <2>2, <3>1, <3>3
    <3> QED BY <3>2, <3>3
  <2> QED BY <1>1, <1>2, <2>1, <2>2 DEF FilesInOrder
<1>5. \A x \in Day : IsLoaded(x) => x < f
  BY <1>2, <1>3
<1>6. \A e \in Entity, d \in Day : (Record(e, d)' = Record(e, d)) /\ (Recorded(e, d)' <=> Recorded(e, d))
                                /\ (Ended(e, d)' <=> Ended(e, d))
  BY <1>1 DEF Record, Recorded, Ended
<1>7. ASSUME NEW e \in Entity PROVE AsLoaded(e)'
  <2>1. CASE Recorded(e, f)
    <3>1. ~Ended(e, f)
      BY <2>1 DEF LoadInv, Extracts, Recorded
    <3>2. entity'[e] = Record(e, f)
      BY <1>1, <2>1, <3>1
    <3>3. \A x \in Day : ~(x > f /\ IsLoaded(x)')
      BY <1>3, <1>5
    <3>4. IsLoaded(f)' /\ Recorded(e, f)' /\ Record(e, f)' = Record(e, f)
      BY <1>3, <1>6, <2>1
    <3> QED BY <3>2, <3>3, <3>4 DEF AsLoaded
  <2>2. CASE ~Recorded(e, f)
    <3>0. ~Ahead(e)
      BY <1>0, <1>3, <2>2 DEF Ahead, Pending
    <3>1. CASE entity[e] = {} /\ \A d \in Day : IsLoaded(d) => ~Recorded(e, d)
      <4>1. entity'[e] = {}
        BY <1>1, <3>1 DEF Inactive
      <4> QED BY <1>3, <1>6, <2>2, <3>1, <4>1 DEF AsLoaded
    <3>2. ASSUME NEW d \in Day,
                 /\ IsLoaded(d) /\ Recorded(e, d)
                 /\ \A x \in Day : x > d /\ IsLoaded(x) => ~Recorded(e, x)
                 /\ IF \E x \in Day : x > d /\ IsLoaded(x) /\ Ended(e, x) THEN entity[e] = Inactive(Record(e, d))
                    ELSE entity[e] = Record(e, d)
          PROVE  AsLoaded(e)'
      <4>1. /\ IsLoaded(d)' /\ Recorded(e, d)' /\ Record(e, d)' = Record(e, d)
            /\ \A x \in Day : x > d /\ IsLoaded(x)' => ~Recorded(e, x)'
        BY <1>3, <1>6, <2>2, <3>2
      <4>2. d < f
        BY <1>5, <3>2
      <4>3. CASE Ended(e, f)
        <5>1. \E x \in Day : x > d /\ IsLoaded(x)' /\ Ended(e, x)'
          BY <1>3, <1>6, <4>2, <4>3
        <5>2. Record(e, d) \subseteq Registration
          BY DEF LoadInv, Extracts, Extract, Record
        <5>3. entity'[e] = Inactive(Record(e, d))
          BY <1>1, <3>2, <4>3, <5>2, InactiveOnce
        <5>4. Inactive(Record(e, d))' = Inactive(Record(e, d))
          BY <4>1 DEF Inactive
        <5> QED BY <4>1, <5>1, <5>3, <5>4 DEF AsLoaded
      <4>4. CASE ~Ended(e, f)
        <5>1. entity'[e] = entity[e]
          BY <1>1, <4>4
        <5>2. (\E x \in Day : x > d /\ IsLoaded(x)' /\ Ended(e, x)')
                <=> \E x \in Day : x > d /\ IsLoaded(x) /\ Ended(e, x)
          BY <1>3, <1>6, <4>4
        <5>3. Inactive(Record(e, d))' = Inactive(Record(e, d))
          BY <4>1 DEF Inactive
        <5> QED BY <3>2, <4>1, <5>1, <5>2, <5>3 DEF AsLoaded
      <4> QED BY <4>3, <4>4
    <3>3. AsLoaded(e)
      BY <3>0 DEF LoadInv
    <3> QED BY <3>1, <3>2, <3>3 DEF AsLoaded
  <2> QED BY <2>1, <2>2
<1>8. TaskInv'
  <2>1. CASE Pending \ {f} = {}
    BY <1>1, <1>3, <2>1 DEF Loading, TaskInv
  <2>2. CASE Pending \ {f} # {}
    <3>1. /\ task'.at = "load" /\ task'.queue = Pending'
          /\ task'.todo = { e \in Entity : published'[First(Pending')].records[e] # {} }
      BY <1>1, <1>3, <2>2 DEF Loading
    <3>2. First(Pending)' = First(Pending')
      BY DEF First
    <3> QED BY <1>3, <2>2, <3>1, <3>2 DEF TaskInv, Recorded, Record
  <2> QED BY <2>1, <2>2
<1> QED BY <1>1, <1>4, <1>7, <1>8, TableInv

LEMMA StepInv == LoadInv /\ [Next]_vars => LoadInv'
<1> SUFFICES ASSUME LoadInv, [Next]_vars PROVE LoadInv'
  OBVIOUS
<1>1. ASSUME NEW changed \in SUBSET Entity, NEW gone \in SUBSET Entity,
             changed \cap gone = {}, NextDay(changed, gone)
      PROVE  LoadInv'
  BY <1>1, DayInv
<1>2. CASE Fetch
  BY <1>2, FetchInv
<1>3. ASSUME NEW e \in Entity, LoadBatch(e) PROVE LoadInv'
  BY <1>3, LoadBatchInv
<1>4. CASE FinishExtract
  BY <1>4, FinishExtractInv
<1>5. CASE ListPending \/ CleanUp \/ TaskFails \/ ReadLinks \/ CommitLinks \/ UNCHANGED samVars
  BY <1>5, OtherTaskInv
<1>6. ASSUME NEW q \in Request, Start(q) \/ Commit(q) PROVE UNCHANGED samVars
  BY <1>6 DEF Start, Commit, Login, Remove, UpdateRoles, Invite, Respond, Started,
              CommitLogin, CommitMember, CommitInvite, CommitAccept, CommitReject
<1>7. ASSUME NEW i \in 1..MaxInvitations, Expire(i) PROVE UNCHANGED samVars
  BY <1>7 DEF Expire
<1>8. CASE SamNext
  BY <1>1, <1>2, <1>3, <1>4, <1>5, <1>8 DEF SamNext, SamTask
<1> QED BY <1>5, <1>6, <1>7, <1>8 DEF Next, vars

-----------------------------------------------------------------------------
(* The table and the registry.                                             *)

\* A last record that was never fetched lies before a monthly extract, which would
\* have repeated it had it not ended; and the end was not fetched either.
LEMMA MissedRecord ==
  ASSUME LoadInv, file[day] # "none", NEW e \in Entity, NEW d \in 1..day,
         LastRecord(e, d, day), file[d] = "none"
  PROVE  \E x \in 1..day : Missed(x) /\ Ended(e, x)
<1> DEFINE S == { x \in Day : d < x /\ x <= day /\ Ended(e, x) }
<1>0. /\ day \in Day /\ Day \subseteq Nat /\ Monthly \subseteq Day /\ 1..day \subseteq Day /\ d \in Day
      /\ MaxDay \in Nat
  BY DaysAssumption DEF LoadInv, Extracts, Day
\* Every monthly extract after the record has a deactivation before it.
<1>1. ASSUME NEW m \in Monthly, d < m, m <= day
      PROVE  \E x \in S : x < m
  <2>1. \A x \in d + 1 .. m : x \in d + 1 .. day
    BY <1>0, <1>1
  <2>2. LastRecord(e, d, m)
    BY <1>0, <1>1, <2>1 DEF LastRecord
  <2>3. PICK x \in d..m : Ended(e, x)
    BY <1>0, <1>1, <2>2 DEF LoadInv, RegistryPublished
  <2>4. x # m
    BY <1>1, <2>3 DEF LoadInv, Extracts, Ended
  <2>5. x # d
    BY <1>0, <2>3 DEF LoadInv, Extracts, LastRecord, Recorded
  <2>6. x \in Day /\ d < x /\ x < m /\ x <= day
    BY <1>0, <1>1, <2>3, <2>4, <2>5 DEF Day
  <2> QED BY <2>3, <2>6
<1>2. S # {}
  <2>1. d < day
    BY <1>0
  <2>2. PICK m \in Monthly : d < m /\ m <= day
    BY <1>0, <2>1 DEF LoadInv, FilesInOrder
  <2> QED BY <1>1, <2>2
<1>3. S \subseteq Nat
  BY <1>0
<1>4. PICK x \in S : \A y \in S : x <= y
  <2> HIDE DEF S
  <2> QED BY <1>2, <1>3, Least
<1>5. file[x] = "none"
  <2> SUFFICES ASSUME file[x] # "none" PROVE FALSE
    OBVIOUS
  <2>1. PICK m \in Monthly : d < m /\ m <= x
    BY <1>0, <1>4 DEF LoadInv, FilesInOrder
  <2>2. m <= day
    BY <1>0, <1>4, <2>1
  <2>3. PICK y \in S : y < m
    BY <1>1, <2>1, <2>2
  <2> QED BY <1>0, <1>3, <1>4, <2>1, <2>3
<1> QED BY <1>0, <1>4, <1>5 DEF Missed, Day

\* The table holds what SAM.gov has, for any entities, users, monthly extracts and
\* failures; where it does not, the deactivation was in an extract never fetched.
THEOREM TableFollows == Spec => []EntityFollowsRegistry
<1>1. LoadInv => EntityFollowsRegistry
  <2> SUFFICES ASSUME LoadInv, Pending = {}, file[day] # "none", NEW e \in Entity
               PROVE  entity[e] = registry[e] \/ \E x \in 1..day : Missed(x) /\ Ended(e, x)
    BY DEF EntityFollowsRegistry, Ended
  <2>0. /\ day \in Day /\ Day \subseteq Nat /\ 1..day \subseteq Day
        /\ \A x \in Day : IsLoaded(x) => x \in 1..day
        /\ \A x \in Day : IsLoaded(x) \/ file[x] = "none"
    BY DaysAssumption DEF LoadInv, Extracts, FilesInOrder, IsLoaded, Pending, Day
  <2>1. CASE \A d \in 1..day : ~Recorded(e, d)
    <3>1. registry[e] = {}
      BY <2>1 DEF LoadInv, RegistryPublished
    <3>2. AsLoaded(e)
      BY DEF LoadInv, Ahead
    <3>3. entity[e] = {}
      BY <2>0, <2>1, <3>2 DEF AsLoaded
    <3> QED BY <3>1, <3>3
  <2>2. ASSUME NEW d \in 1..day, LastRecord(e, d, day)
        PROVE  entity[e] = registry[e] \/ \E x \in 1..day : Missed(x) /\ Ended(e, x)
    <3>1. CASE file[d] = "none"
      BY <2>2, <3>1, MissedRecord
    <3>2. CASE IsLoaded(d)
      <4>0. d \in Day /\ Recorded(e, d) /\ \A x \in d + 1 .. day : ~Recorded(e, x)
        BY <2>0, <2>2 DEF LastRecord
      <4>1. PICK c \in Day :
              /\ IsLoaded(c) /\ Recorded(e, c)
              /\ \A x \in Day : x > c /\ IsLoaded(x) => ~Recorded(e, x)
              /\ IF \E x \in Day : x > c /\ IsLoaded(x) /\ Ended(e, x) THEN entity[e] = Inactive(Record(e, c))
                 ELSE entity[e] = Record(e, c)
        BY <3>2, <4>0 DEF LoadInv, AsLoaded, Ahead
      <4>2. c = d
        <5>1. c \in 1..day
          BY <2>0, <4>1
        <5>2. ~(c > d)
          BY <2>0, <4>0, <4>1, <5>1
        <5>3. ~(d > c)
          BY <3>2, <4>0, <4>1
        <5> QED BY <2>0, <4>0, <5>1, <5>2, <5>3
      <4>3. IF \E x \in d..day : Ended(e, x) THEN registry[e] = Inactive(Record(e, d))
            ELSE registry[e] = Record(e, d)
        BY <2>2 DEF LoadInv, RegistryPublished
      <4>4. CASE \E x \in Day : x > d /\ IsLoaded(x) /\ Ended(e, x)
        <5>1. \E x \in d..day : Ended(e, x)
          BY <2>0, <4>4
        <5> QED BY <4>1, <4>2, <4>3, <4>4, <5>1
      <4>5. CASE ~\E x \in Day : x > d /\ IsLoaded(x) /\ Ended(e, x)
        <5>1. entity[e] = Record(e, d)
          BY <4>1, <4>2, <4>5
        <5>2. ASSUME NEW x \in d..day, Ended(e, x) PROVE x \in 1..day /\ Missed(x)
          <6>1. ~Ended(e, d)
            BY <4>0 DEF LoadInv, Extracts, Recorded
          <6>2. x > d /\ x \in 1..day /\ x \in Day
            BY <2>0, <4>0, <5>2, <6>1
          <6> QED BY <2>0, <4>5, <5>2, <6>2 DEF Missed
        <5> QED BY <4>3, <5>1, <5>2
      <4> QED BY <4>4, <4>5
    <3> QED BY <2>0, <3>1, <3>2
  <2> QED BY <2>1, <2>2, LastRecordExists
<1>2. Spec => []LoadInv
  BY InitInv, StepInv, PTL DEF Spec
<1> QED BY <1>1, <1>2, PTL
================================================================================
