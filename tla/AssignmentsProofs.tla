------------------------- MODULE AssignmentsProofs -------------------------
(***************************************************************************)
(* Proofs about the target state in the cloud database, for every number   *)
(* of administrators, devices, groups, definitions and requests, on both   *)
(* databases, whatever the tables hold at first.                           *)
(***************************************************************************)
EXTENDS Assignments, SequenceTheorems, WellFoundedInduction, TLAPS

-----------------------------------------------------------------------------
(* The inductive invariant.                                                *)

(* What a request holds refers to rows of one table; the row a PUT has     *)
(* inserted is later than the one it is about to supersede.                *)
RequestTyped(c) ==
  LET r == req[c] IN
  /\ r.pc \in {"idle", "post", "insert", "supersede", "delete"}
  /\ r.pc # "idle" => r.table \in Table
  /\ r.pc \in {"post", "insert"} => r.body \in Body(r.table)
  /\ r.pc = "post" =>
       r.old \subseteq {i \in Ids(r.table) : SameKey(r.table, db[r.table][i], r.body)}
  /\ r.pc \in {"insert", "supersede", "delete"} => r.id \in Ids(r.table)
  /\ r.pc = "supersede" => r.new \in Ids(r.table) /\ r.id < r.new

(* What an answer holds, and is still to look up, is one config of each    *)
(* application ...                                                         *)
OneOfEach(S) == \A i, j \in S : SameApplication(i, j) => i = j

(* ... and, in SQLite, nothing by way of the group that the first seen     *)
(* assignments give the device itself.                                     *)
DirectFirst(d, S, seen) ==
  setting.backend = "sqlite" =>
    \A i \in S : ~IsDirect(i) =>
      \A j \in Applies(d, d) :
        j <= seen /\ Definition(j) \in Active("defs") => ~SameApplication(i, j)

(* The list of an application's assignments still has all that apply to    *)
(* the device directly, among those there were.                            *)
ListIsComplete(d, a) ==
  /\ a.all \subseteq Ids("asgs")
  /\ \A j \in Applies(d, d) : j <= a.seen => j \in a.all

(* The one OS assignment to look up is the target at the moment of the     *)
(* list unless its version was gone, and then it is still gone.            *)
OsTarget(a) ==
  setting.area = "os" =>
    \/ a.pc = "answered" /\ a.served = a.target
    \/ /\ a.pc = "lookup" /\ a.served = {}
       /\ \E k \in Ids("asgs") :
            /\ a.todo = {k}
            /\ a.target \subseteq {k}
            /\ Definition(k) \in Active("defs") => a.target = {k}

AnswerTyped(d, a) ==
  /\ a.pc \in AskPC
  /\ a.pc \in {"dedup", "lookup", "answered"} => a.seen \in 0..Len(db["asgs"])
  /\ a.pc = "dedup" => setting.area = "apps" /\ ListIsComplete(d, a)
  /\ a.pc \in {"lookup", "answered"} =>
       /\ a.todo \cup a.served \subseteq Ids("asgs")
       /\ a.todo = {} <=> a.pc = "answered"
       /\ OneOfEach(a.todo \cup a.served)
       /\ DirectFirst(d, a.todo \cup a.served, a.seen)
       /\ OsTarget(a)

AskTyped(d) == AnswerTyped(d, ask[d])

Invariant ==
  /\ TypeOK
  /\ DOMAIN req = Client /\ DOMAIN ask = Device
  /\ \A c \in Client : RequestTyped(c)
  /\ \A d \in Device : AskTyped(d)

-----------------------------------------------------------------------------
(* Sequences of rows.                                                      *)

(* A set of natural numbers that is not empty has a least element.         *)
LEMMA LeastElement ==
  ASSUME NEW S \in SUBSET Nat, S # {}
  PROVE  \E m \in S : \A n \in S : m <= n
<1>1. PICK m \in S : \A n \in S : ~(<<n, m>> \in OpToRel(<, Nat))
  BY NatLessThanWellFounded, WFMin
<1>2. \A n \in S : ~(n < m)
  BY <1>1 DEF OpToRel
<1>3. QED
  BY <1>2

LEMMA SettingTyped ==
  ASSUME TypeOK
  PROVE  /\ setting.area \in {"os", "apps"}
         /\ setting.backend \in {"postgres", "sqlite"}
         /\ setting.requests \in Nat
BY SettingAssumption DEF TypeOK

LEMMA RowsTyped ==
  ASSUME TypeOK, NEW t \in Table
  PROVE  /\ db[t] \in Seq(RowType)
         /\ Len(db[t]) \in Nat
         /\ Ids(t) = 1..Len(db[t])
         /\ \A i \in Ids(t) : db[t][i] \in RowType
<1>1. db[t] \in Seq(RowType)
  BY DEF TypeOK
<1>2. QED
  BY <1>1, LenProperties, ElementOfSeq DEF Ids

LEMMA BodyIsARow ==
  ASSUME TypeOK, NEW t \in Table, NEW x \in Body(t)
  PROVE  /\ Row(x) \in RowType
         /\ Row(x).ref = x.ref /\ Row(x).owner = x.owner
         /\ Row(x).deleted = FALSE /\ Row(x).by = 0
         /\ t = "asgs" => x.ref \in Ids("defs")
<1>1. /\ x.ref \in Name \cup App \cup Nat
      /\ x.owner \in Owner \cup {NoOwner}
      /\ t = "asgs" => x.ref \in Ids("defs")
  BY RowsTyped DEF Body, Table
<1>2. QED
  BY <1>1 DEF Row, RowType

(* A row whose bookkeeping changes.                                        *)
LEMMA RowEdited ==
  ASSUME NEW r \in RowType, NEW n \in Nat
  PROVE  /\ [r EXCEPT !.by = n] \in RowType
         /\ [r EXCEPT !.by = n].ref = r.ref /\ [r EXCEPT !.by = n].owner = r.owner
         /\ [r EXCEPT !.by = n].deleted = r.deleted /\ [r EXCEPT !.by = n].by = n
         /\ [r EXCEPT !.deleted = TRUE] \in RowType
         /\ [r EXCEPT !.deleted = TRUE].ref = r.ref
         /\ [r EXCEPT !.deleted = TRUE].owner = r.owner
         /\ [r EXCEPT !.deleted = TRUE].deleted = TRUE
         /\ [r EXCEPT !.deleted = TRUE].by = r.by
BY DEF RowType

-----------------------------------------------------------------------------
(* What the four statements that write do to the tables.                   *)

LEMMA PostWrites ==
  ASSUME TypeOK, NEW c \in Client, RequestTyped(c), PostCommit(c)
  PROVE  LET t == req[c].table
             new == Len(db[t]) + 1
         IN /\ t \in Table /\ req[c].body \in Body(t)
            /\ DOMAIN db' = Table
            /\ \A u \in Table : u # t => db'[u] = db[u]
            /\ db'[t] \in Seq(RowType) /\ Len(db'[t]) = new
            /\ \A i \in Ids(t) : db'[t][i] = IF i \in req[c].old
                                             THEN [db[t][i] EXCEPT !.by = new]
                                             ELSE db[t][i]
            /\ db'[t][new] = Row(req[c].body)
<1> DEFINE t == req[c].table
           new == Len(db[t]) + 1
           marked == [i \in Ids(t) |-> IF i \in req[c].old
                                       THEN [db[t][i] EXCEPT !.by = new]
                                       ELSE db[t][i]]
<1>1. t \in Table /\ req[c].body \in Body(t)
  BY DEF RequestTyped, PostCommit
<1>2. db' = [db EXCEPT ![t] = Append(marked, Row(req[c].body))]
  BY DEF PostCommit
<1>3. /\ db \in [Table -> Seq(RowType)]
      /\ Len(db[t]) \in Nat /\ Ids(t) = 1..Len(db[t])
      /\ \A i \in Ids(t) : db[t][i] \in RowType
      /\ Row(req[c].body) \in RowType
  BY <1>1, RowsTyped, BodyIsARow DEF TypeOK
<1>4. marked \in Seq(RowType) /\ Len(marked) = Len(db[t])
  <2>1. new \in Nat
    BY <1>3
  <2>2. \A i \in 1..Len(db[t]) : marked[i] \in RowType
    BY <2>1, <1>3, RowEdited
  <2>3. marked \in [1..Len(db[t]) -> RowType]
    BY <1>3, <2>2
  <2>4. marked \in Seq(RowType)
    BY <1>3, <2>3
  <2>5. QED
    BY <1>3, <2>3, <2>4, LenProperties
<1> HIDE DEF marked
<1>5. /\ Append(marked, Row(req[c].body)) \in Seq(RowType)
      /\ Len(Append(marked, Row(req[c].body))) = new
      /\ \A i \in 1..Len(db[t]) : Append(marked, Row(req[c].body))[i] = marked[i]
      /\ Append(marked, Row(req[c].body))[new] = Row(req[c].body)
  BY <1>3, <1>4, AppendProperties
<1>6. \A i \in Ids(t) : marked[i] = IF i \in req[c].old
                                    THEN [db[t][i] EXCEPT !.by = new]
                                    ELSE db[t][i]
  BY DEF marked
<1> HIDE DEF t, new
<1>7. db'[t] = Append(marked, Row(req[c].body)) /\ DOMAIN db' = Table
      /\ \A u \in Table : u # t => db'[u] = db[u]
  BY <1>1, <1>2, <1>3
<1>8. QED
  BY <1>1, <1>3, <1>5, <1>6, <1>7 DEF t, new

LEMMA PutWrites ==
  ASSUME TypeOK, NEW c \in Client, RequestTyped(c), PutInsert(c)
  PROVE  LET t == req[c].table
             new == Len(db[t]) + 1
         IN /\ t \in Table /\ req[c].body \in Body(t)
            /\ DOMAIN db' = Table
            /\ \A u \in Table : u # t => db'[u] = db[u]
            /\ db'[t] \in Seq(RowType) /\ Len(db'[t]) = new
            /\ \A i \in Ids(t) : db'[t][i] = db[t][i]
            /\ db'[t][new] = Row(req[c].body)
<1> DEFINE t == req[c].table
<1>1. t \in Table /\ req[c].body \in Body(t)
  BY DEF RequestTyped, PutInsert
<1>2. db' = [db EXCEPT ![t] = Append(db[t], Row(req[c].body))]
  BY DEF PutInsert
<1>3. /\ db \in [Table -> Seq(RowType)] /\ db[t] \in Seq(RowType)
      /\ Len(db[t]) \in Nat /\ Ids(t) = 1..Len(db[t])
      /\ Row(req[c].body) \in RowType
  BY <1>1, RowsTyped, BodyIsARow DEF TypeOK
<1> HIDE DEF t
<1>4. /\ Append(db[t], Row(req[c].body)) \in Seq(RowType)
      /\ Len(Append(db[t], Row(req[c].body))) = Len(db[t]) + 1
      /\ \A i \in 1..Len(db[t]) : Append(db[t], Row(req[c].body))[i] = db[t][i]
      /\ Append(db[t], Row(req[c].body))[Len(db[t]) + 1] = Row(req[c].body)
  BY <1>3, AppendProperties
<1>5. db'[t] = Append(db[t], Row(req[c].body)) /\ DOMAIN db' = Table
      /\ \A u \in Table : u # t => db'[u] = db[u]
  BY <1>1, <1>2, <1>3
<1>6. QED
  BY <1>1, <1>3, <1>4, <1>5 DEF t

(* A supersession and a deletion change the bookkeeping of one row.        *)
LEMMA MarkWrites ==
  ASSUME TypeOK, NEW t \in Table, NEW id \in Ids(t), NEW r \in RowType,
         db' = [db EXCEPT ![t] = [db[t] EXCEPT ![id] = r]]
  PROVE  /\ DOMAIN db' = Table
         /\ \A u \in Table : u # t => db'[u] = db[u]
         /\ db'[t] \in Seq(RowType) /\ Len(db'[t]) = Len(db[t])
         /\ \A i \in Ids(t) : db'[t][i] = IF i = id THEN r ELSE db[t][i]
<1>1. db \in [Table -> Seq(RowType)] /\ db[t] \in Seq(RowType) /\ Ids(t) = 1..Len(db[t])
  BY RowsTyped DEF TypeOK
<1>2. /\ [db[t] EXCEPT ![id] = r] \in Seq(RowType)
      /\ Len([db[t] EXCEPT ![id] = r]) = Len(db[t])
      /\ \A i \in 1..Len(db[t]) : [db[t] EXCEPT ![id] = r][i] = IF i = id THEN r ELSE db[t][i]
  BY <1>1, ExceptSeq
<1>3. QED
  BY <1>1, <1>2

-----------------------------------------------------------------------------
(* Every step keeps the history of both tables.                            *)

RowKept(t, i) ==
  /\ db'[t][i].ref = db[t][i].ref /\ db'[t][i].owner = db[t][i].owner
  /\ IsActive(db'[t][i]) => IsActive(db[t][i])
  /\ db'[t][i].by # db[t][i].by => i < db'[t][i].by /\ db'[t][i].by <= Len(db'[t])

TableKept(t) ==
  /\ Len(db[t]) <= Len(db'[t])
  /\ \A i \in Ids(t) : RowKept(t, i)

TablesTyped ==
  /\ db \in [Table -> Seq(RowType)]
  /\ \A i \in Ids("asgs") : Definition(i) \in Ids("defs")

Kept ==
  /\ setting' = setting
  /\ \A t \in Table : TableKept(t)
  /\ TablesTyped'

LEMMA KeptByUnchanged ==
  ASSUME TypeOK, UNCHANGED <<setting, db>>
  PROVE  Kept
BY RowsTyped DEF Kept, TableKept, RowKept, TablesTyped, TypeOK, Ids, Definition, IsActive

(* The references of assignments hold when every old row keeps what it     *)
(* refers to and no table shrinks.                                         *)
LEMMA ReferencesHold ==
  ASSUME TypeOK, DOMAIN db' = Table,
         \A t \in Table : db'[t] \in Seq(RowType) /\ TableKept(t),
         \A i \in Ids("asgs")' : i \notin Ids("asgs") => db'["asgs"][i].ref \in Ids("defs"),
         db' = [t \in Table |-> db'[t]]
  PROVE  TablesTyped'
<1>1. db' \in [Table -> Seq(RowType)]
  OBVIOUS
<1>2. Ids("defs") \subseteq Ids("defs")'
  <2>1. Ids("defs")' = 1..Len(db'["defs"]) /\ Len(db'["defs"]) \in Nat
    BY LenProperties DEF Ids, Table
  <2>2. Ids("defs") = 1..Len(db["defs"]) /\ Len(db["defs"]) \in Nat
    BY RowsTyped DEF Table
  <2>3. QED
    BY <2>1, <2>2 DEF TableKept, Table
<1>3. ASSUME NEW i \in Ids("asgs")' PROVE Definition(i)' \in Ids("defs")'
  <2>1. CASE i \in Ids("asgs")
    BY <2>1, <1>2 DEF TypeOK, TableKept, RowKept, Definition, Table
  <2>2. CASE i \notin Ids("asgs")
    BY <2>2, <1>2 DEF Definition
  <2>3. QED
    BY <2>1, <2>2
<1>4. QED
  BY <1>1, <1>3 DEF TablesTyped

LEMMA KeptByPost ==
  ASSUME TypeOK, NEW c \in Client, RequestTyped(c), PostCommit(c)
  PROVE  Kept
<1> DEFINE t == req[c].table
           new == Len(db[t]) + 1
<1>1. /\ t \in Table /\ req[c].body \in Body(t)
      /\ DOMAIN db' = Table
      /\ \A u \in Table : u # t => db'[u] = db[u]
      /\ db'[t] \in Seq(RowType) /\ Len(db'[t]) = new
      /\ \A i \in Ids(t) : db'[t][i] = IF i \in req[c].old
                                       THEN [db[t][i] EXCEPT !.by = new]
                                       ELSE db[t][i]
      /\ db'[t][new] = Row(req[c].body)
  BY PostWrites
<1>2. db' = [u \in Table |-> db'[u]] /\ setting' = setting
  BY DEF PostCommit, TypeOK
<1> HIDE DEF t
<1>3. ASSUME NEW u \in Table PROVE db'[u] \in Seq(RowType) /\ TableKept(u)
  <2>1. CASE u # t
    BY <2>1, <1>1, RowsTyped DEF TableKept, RowKept, IsActive
  <2>2. CASE u = t
    <3>1. Len(db[t]) \in Nat /\ Ids(t) = 1..Len(db[t]) /\ \A i \in Ids(t) : db[t][i] \in RowType
      BY <1>1, RowsTyped
    <3>2. ASSUME NEW i \in Ids(t) PROVE RowKept(t, i)
      <4>1. CASE i \in req[c].old
        <5>1. new \in Nat
          BY <3>1
        <5> HIDE DEF new
        <5>2. /\ [db[t][i] EXCEPT !.by = new].by = new
              /\ [db[t][i] EXCEPT !.by = new].ref = db[t][i].ref
              /\ [db[t][i] EXCEPT !.by = new].owner = db[t][i].owner
          BY <5>1, <3>1, RowEdited
        <5>3. db'[t][i] = [db[t][i] EXCEPT !.by = new] /\ Len(db'[t]) = new
          BY <4>1, <1>1
        <5>4. i \in Nat /\ i < new /\ new # 0
          BY <3>1 DEF new
        <5>5. QED
          BY <5>1, <5>2, <5>3, <5>4 DEF RowKept, IsActive
      <4>2. CASE i \notin req[c].old
        BY <4>2, <1>1 DEF RowKept
      <4>3. QED
        BY <4>1, <4>2
    <3>3. QED
      BY <2>2, <3>1, <3>2, <1>1 DEF TableKept
  <2>3. QED
    BY <2>1, <2>2
<1>4. \A i \in Ids("asgs")' : i \notin Ids("asgs") => db'["asgs"][i].ref \in Ids("defs")
  <2>1. CASE t = "asgs"
    <3>1. DOMAIN db'[t] = 1..new /\ Ids(t) = 1..Len(db[t]) /\ Len(db[t]) \in Nat
      BY <1>1, RowsTyped, LenProperties
    <3>2. Row(req[c].body).ref \in Ids("defs")
      BY <2>1, <1>1, BodyIsARow
    <3>3. QED
      BY <2>1, <3>1, <3>2, <1>1 DEF Ids
  <2>2. CASE t # "asgs"
    BY <2>2, <1>1 DEF Ids, Table
  <2>3. QED
    BY <2>1, <2>2
<1>5. TablesTyped'
  BY <1>1, <1>2, <1>3, <1>4, ReferencesHold
<1>6. QED
  BY <1>2, <1>3, <1>5 DEF Kept

LEMMA KeptByPut ==
  ASSUME TypeOK, NEW c \in Client, RequestTyped(c), PutInsert(c)
  PROVE  Kept
<1> DEFINE t == req[c].table
           new == Len(db[t]) + 1
<1>1. /\ t \in Table /\ req[c].body \in Body(t)
      /\ DOMAIN db' = Table
      /\ \A u \in Table : u # t => db'[u] = db[u]
      /\ db'[t] \in Seq(RowType) /\ Len(db'[t]) = new
      /\ \A i \in Ids(t) : db'[t][i] = db[t][i]
      /\ db'[t][new] = Row(req[c].body)
  BY PutWrites
<1>2. db' = [u \in Table |-> db'[u]] /\ setting' = setting
  BY DEF PutInsert, TypeOK
<1> HIDE DEF t
<1>3. ASSUME NEW u \in Table PROVE db'[u] \in Seq(RowType) /\ TableKept(u)
  <2>1. CASE u # t
    BY <2>1, <1>1, RowsTyped DEF TableKept, RowKept, IsActive
  <2>2. CASE u = t
    BY <2>2, <1>1, RowsTyped DEF TableKept, RowKept, IsActive
  <2>3. QED
    BY <2>1, <2>2
<1>4. \A i \in Ids("asgs")' : i \notin Ids("asgs") => db'["asgs"][i].ref \in Ids("defs")
  <2>1. CASE t = "asgs"
    <3>1. DOMAIN db'[t] = 1..new /\ Ids(t) = 1..Len(db[t]) /\ Len(db[t]) \in Nat
      BY <1>1, RowsTyped, LenProperties
    <3>2. Row(req[c].body).ref \in Ids("defs")
      BY <2>1, <1>1, BodyIsARow
    <3>3. QED
      BY <2>1, <3>1, <3>2, <1>1 DEF Ids
  <2>2. CASE t # "asgs"
    BY <2>2, <1>1 DEF Ids, Table
  <2>3. QED
    BY <2>1, <2>2
<1>5. TablesTyped'
  BY <1>1, <1>2, <1>3, <1>4, ReferencesHold
<1>6. QED
  BY <1>2, <1>3, <1>5 DEF Kept

(* A row whose bookkeeping says that it is no longer active, and, when it  *)
(* names a successor, a later one.                                         *)
LEMMA KeptByMark ==
  ASSUME TypeOK, NEW t \in Table, NEW id \in Ids(t), NEW r \in RowType,
         db' = [db EXCEPT ![t] = [db[t] EXCEPT ![id] = r]], setting' = setting,
         r.ref = db[t][id].ref, r.owner = db[t][id].owner, ~IsActive(r),
         r.by # db[t][id].by => id < r.by /\ r.by <= Len(db[t])
  PROVE  Kept
<1>1. /\ DOMAIN db' = Table
      /\ \A u \in Table : u # t => db'[u] = db[u]
      /\ db'[t] \in Seq(RowType) /\ Len(db'[t]) = Len(db[t])
      /\ \A i \in Ids(t) : db'[t][i] = IF i = id THEN r ELSE db[t][i]
  BY MarkWrites
<1>2. db' = [u \in Table |-> db'[u]]
  BY DEF TypeOK
<1>3. ASSUME NEW u \in Table PROVE db'[u] \in Seq(RowType) /\ TableKept(u)
  <2>1. CASE u # t
    BY <2>1, <1>1, RowsTyped DEF TableKept, RowKept, IsActive
  <2>2. CASE u = t
    BY <2>2, <1>1, RowsTyped DEF TableKept, RowKept
  <2>3. QED
    BY <2>1, <2>2
<1>4. Ids("asgs")' = Ids("asgs")
  <2>1. "asgs" \in Table /\ db'["asgs"] \in Seq(RowType) /\ Len(db'["asgs"]) = Len(db["asgs"])
    BY <1>1, <1>3 DEF Table
  <2>2. QED
    BY <2>1, RowsTyped, LenProperties DEF Ids
<1>5. TablesTyped'
  BY <1>1, <1>2, <1>3, <1>4, ReferencesHold
<1>6. QED
  BY <1>3, <1>5 DEF Kept

LEMMA KeptBySupersede ==
  ASSUME TypeOK, NEW c \in Client, RequestTyped(c), PutSupersede(c)
  PROVE  Kept
<1> DEFINE t == req[c].table
           id == req[c].id
           r == [db[t][id] EXCEPT !.by = req[c].new]
<1>1. t \in Table /\ id \in Ids(t) /\ req[c].new \in Ids(t) /\ id < req[c].new
  BY DEF RequestTyped, PutSupersede
<1>2. db[t][id] \in RowType /\ Ids(t) = 1..Len(db[t]) /\ Len(db[t]) \in Nat
  BY <1>1, RowsTyped
<1>3. req[c].new \in Nat /\ 1 <= req[c].new /\ req[c].new <= Len(db[t])
  BY <1>1, <1>2
<1>4. r \in RowType /\ r.ref = db[t][id].ref /\ r.owner = db[t][id].owner /\ r.by = req[c].new
  BY <1>2, <1>3, RowEdited
<1>5. ~IsActive(r)
  BY <1>3, <1>4 DEF IsActive
<1>6. db' = [db EXCEPT ![t] = [db[t] EXCEPT ![id] = r]] /\ setting' = setting
  BY <1>1, <1>2 DEF PutSupersede, TypeOK
<1> HIDE DEF t, id, r
<1>7. QED
  BY <1>1, <1>3, <1>4, <1>5, <1>6, KeptByMark

LEMMA KeptByDelete ==
  ASSUME TypeOK, NEW c \in Client, RequestTyped(c), DeleteMark(c)
  PROVE  Kept
<1> DEFINE t == req[c].table
           id == req[c].id
           r == [db[t][id] EXCEPT !.deleted = TRUE]
<1>1. t \in Table /\ id \in Ids(t)
  BY DEF RequestTyped, DeleteMark
<1>2. db[t][id] \in RowType
  BY <1>1, RowsTyped
<1>3. r \in RowType /\ r.ref = db[t][id].ref /\ r.owner = db[t][id].owner
      /\ r.deleted = TRUE /\ r.by = db[t][id].by
  BY <1>2, RowEdited
<1>4. ~IsActive(r)
  BY <1>3 DEF IsActive
<1>5. db' = [db EXCEPT ![t] = [db[t] EXCEPT ![id] = r]] /\ setting' = setting
  BY <1>1, <1>2 DEF DeleteMark, TypeOK
<1> HIDE DEF t, id, r
<1>6. QED
  BY <1>1, <1>3, <1>4, <1>5, KeptByMark

LEMMA KeptByNext == Invariant /\ [Next]_vars => Kept
<1> SUFFICES ASSUME Invariant, [Next]_vars PROVE Kept
  OBVIOUS
<1> USE DEF Invariant
<1>1. ASSUME NEW c \in Client, PostCommit(c) PROVE Kept
  BY <1>1, KeptByPost
<1>2. ASSUME NEW c \in Client, PutInsert(c) PROVE Kept
  BY <1>2, KeptByPut
<1>3. ASSUME NEW c \in Client, PutSupersede(c) PROVE Kept
  BY <1>3, KeptBySupersede
<1>4. ASSUME NEW c \in Client, DeleteMark(c) PROVE Kept
  BY <1>4, KeptByDelete
<1>5. CASE UNCHANGED <<setting, db>>
  BY <1>5, KeptByUnchanged
<1>6. ASSUME NEW c \in Client,
             \/ PostBegin(c) \/ PostRefused(c) \/ PutFind(c) \/ PutRefused(c)
             \/ DeleteFind(c) \/ Abandon(c)
      PROVE  UNCHANGED <<setting, db>>
  BY <1>6 DEF PostBegin, PostRefused, PutFind, PutRefused, DeleteFind, Abandon
<1>7. ASSUME NEW d \in Device,
             \/ AskAuth(d) \/ AskListOs(d) \/ AskListApps(d) \/ AskDedup(d) \/ AskLookup(d)
             \/ MoveDevice(d)
      PROVE  UNCHANGED <<setting, db>>
  BY <1>7 DEF AskAuth, AskListOs, AskListApps, AskDedup, AskLookup, AskGoto, MoveDevice
<1>8. CASE UNCHANGED vars
  BY <1>8, <1>5 DEF vars
<1>9. QED
  BY <1>1, <1>2, <1>3, <1>4, <1>5, <1>6, <1>7, <1>8 DEF Next

(* What Kept says of a row that existed before the step.                   *)
LEMMA KeptRows ==
  ASSUME TypeOK, Kept
  PROVE  /\ \A t \in Table : Ids(t) \subseteq Ids(t)'
         /\ \A t \in Table : \A i \in Ids(t) :
              /\ db'[t][i].ref = db[t][i].ref /\ db'[t][i].owner = db[t][i].owner
              /\ i \in Active(t)' => i \in Active(t)
         /\ \A i \in Ids("asgs") :
              /\ Definition(i)' = Definition(i) /\ IsDirect(i)' = IsDirect(i)
              /\ Definition(i) \in Ids("defs")
<1>1. ASSUME NEW t \in Table PROVE Ids(t) \subseteq Ids(t)'
  <2>1. Ids(t) = 1..Len(db[t]) /\ Len(db[t]) \in Nat
    BY RowsTyped
  <2>2. Ids(t)' = 1..Len(db'[t]) /\ Len(db'[t]) \in Nat
    BY LenProperties DEF Kept, TablesTyped, Ids
  <2>3. QED
    BY <2>1, <2>2 DEF Kept, TableKept
<1>2. ASSUME NEW t \in Table, NEW i \in Ids(t)
      PROVE  /\ db'[t][i].ref = db[t][i].ref /\ db'[t][i].owner = db[t][i].owner
             /\ i \in Active(t)' => i \in Active(t)
  BY DEF Kept, TableKept, RowKept, Active
<1>3. ASSUME NEW i \in Ids("asgs")
      PROVE  /\ Definition(i)' = Definition(i) /\ IsDirect(i)' = IsDirect(i)
             /\ Definition(i) \in Ids("defs")
  BY <1>2 DEF Definition, IsDirect, TypeOK, Table
<1>4. QED
  BY <1>1, <1>2, <1>3

-----------------------------------------------------------------------------
(* The requests of administrators.                                         *)

LEMMA BodiesStay ==
  ASSUME TypeOK, Kept, NEW t \in Table, NEW x \in Body(t)
  PROVE  x \in Body(t)'
<1>1. setting' = setting /\ Ids("defs") \subseteq Ids("defs")'
  BY KeptRows DEF Kept, Table
<1>2. QED
  BY <1>1 DEF Body

LEMMA RequestStays ==
  ASSUME TypeOK, Kept, NEW c \in Client, RequestTyped(c), req'[c] = req[c]
  PROVE  RequestTyped(c)'
<1> DEFINE r == req[c]
<1>1. \A t \in Table : Ids(t) \subseteq Ids(t)'
  BY KeptRows
<1>2. \A t \in Table : \A x \in Body(t) : x \in Body(t)'
  BY BodiesStay
<1>3. ASSUME r.pc = "post"
      PROVE  r.old \subseteq {i \in DOMAIN db'[r.table] : SameKey(r.table, db[r.table][i], r.body)'}
  <2>1. r.table \in Table
    BY <1>3 DEF RequestTyped
  <2>2. setting' = setting
    BY DEF Kept
  <2>3. ASSUME NEW i \in r.old
        PROVE  i \in DOMAIN db'[r.table] /\ SameKey(r.table, db[r.table][i], r.body)'
    <3>1. i \in Ids(r.table) /\ SameKey(r.table, db[r.table][i], r.body)
      BY <1>3, <2>3 DEF RequestTyped
    <3>2. db'[r.table][i].ref = db[r.table][i].ref /\ db'[r.table][i].owner = db[r.table][i].owner
      BY <2>1, <3>1, KeptRows
    <3>3. i \in DOMAIN db'[r.table]
      BY <2>1, <3>1, <1>1 DEF Ids
    <3>4. QED
      BY <2>2, <3>1, <3>2, <3>3 DEF SameKey
  <2>4. QED
    BY <2>3
<1>4. QED
  BY <1>1, <1>2, <1>3 DEF RequestTyped, Ids

LEMMA OthersStay ==
  ASSUME Invariant, Kept, NEW c \in Client, NEW s, req' = [req EXCEPT ![c] = s],
         req'[c] = s => RequestTyped(c)'
  PROVE  DOMAIN req' = Client /\ \A k \in Client : RequestTyped(k)'
<1>1. DOMAIN req' = Client /\ req'[c] = s /\ \A k \in Client \ {c} : req'[k] = req[k]
  BY DEF Invariant
<1>2. \A k \in Client \ {c} : RequestTyped(k)'
  BY <1>1, RequestStays DEF Invariant
<1>3. QED
  BY <1>1, <1>2

LEMMA RespondTyped ==
  ASSUME Invariant, Kept, NEW c \in Client, Respond(c)
  PROVE  DOMAIN req' = Client /\ \A k \in Client : RequestTyped(k)'
<1>1. req'[c] = Idle => RequestTyped(c)'
  BY DEF RequestTyped, Idle
<1>2. QED
  BY <1>1, OthersStay DEF Respond

LEMMA RequestsByNext ==
  Invariant /\ [Next]_vars => DOMAIN req' = Client /\ \A k \in Client : RequestTyped(k)'
<1> SUFFICES ASSUME Invariant, [Next]_vars
             PROVE  DOMAIN req' = Client /\ \A k \in Client : RequestTyped(k)'
  OBVIOUS
<1> DEFINE Goal == DOMAIN req' = Client /\ \A k \in Client : RequestTyped(k)'
<1>1. Kept /\ TypeOK
  BY KeptByNext DEF Invariant
<1>2. ASSUME NEW c \in Client, PostBegin(c) PROVE Goal
  <2>1. PICK t \in Table : \E x \in Body(t) :
          req' = [req EXCEPT ![c] =
                    [pc |-> "post", table |-> t, body |-> x, old |-> Holders(t, x)]]
    BY <1>2 DEF PostBegin
  <2>2. PICK x \in Body(t) :
          req' = [req EXCEPT ![c] =
                    [pc |-> "post", table |-> t, body |-> x, old |-> Holders(t, x)]]
    BY <2>1
  <2> DEFINE s == [pc |-> "post", table |-> t, body |-> x, old |-> Holders(t, x)]
  <2>3. setting' = setting /\ db' = db
    BY <1>2 DEF PostBegin
  <2>4. Holders(t, x) \subseteq {i \in Ids(t) : SameKey(t, db[t][i], x)}
    BY DEF Holders, Active
  <2>5. x \in Body(t)'
    BY <1>1, BodiesStay
  <2>6. s.pc = "post" /\ s.table = t /\ s.body = x /\ s.old = Holders(t, x)
    OBVIOUS
  <2> HIDE DEF s
  <2>7. req'[c] = s => RequestTyped(c)'
    BY <2>3, <2>4, <2>5, <2>6 DEF RequestTyped, Ids, SameKey
  <2>8. QED
    BY <1>1, <2>2, <2>7, OthersStay DEF s
<1>3. ASSUME NEW c \in Client, PutFind(c) PROVE Goal
  <2>1. PICK t \in Table : \E i \in Active(t), x \in Body(t) :
          req' = [req EXCEPT ![c] = [pc |-> "insert", table |-> t, id |-> i, body |-> x]]
    BY <1>3 DEF PutFind
  <2>2. PICK i \in Active(t), x \in Body(t) :
          req' = [req EXCEPT ![c] = [pc |-> "insert", table |-> t, id |-> i, body |-> x]]
    BY <2>1
  <2>3. i \in Ids(t) /\ Ids(t) \subseteq Ids(t)' /\ x \in Body(t)'
    BY <1>1, BodiesStay, KeptRows DEF Active
  <2> DEFINE s == [pc |-> "insert", table |-> t, id |-> i, body |-> x]
  <2>4. s.pc = "insert" /\ s.table = t /\ s.id = i /\ s.body = x
    OBVIOUS
  <2> HIDE DEF s
  <2>5. req'[c] = s => RequestTyped(c)'
    BY <2>3, <2>4 DEF RequestTyped, Ids
  <2>6. QED
    BY <1>1, <2>2, <2>5, OthersStay DEF s
<1>4. ASSUME NEW c \in Client, PutInsert(c) PROVE Goal
  <2> DEFINE t == req[c].table
             new == Len(db[t]) + 1
             s == [pc |-> "supersede", table |-> t, id |-> req[c].id, new |-> new]
  <2>1. RequestTyped(c) /\ req[c].pc = "insert"
    BY <1>4 DEF Invariant, PutInsert
  <2>2. t \in Table /\ req[c].id \in Ids(t)
    BY <2>1 DEF RequestTyped
  <2>3. db'[t] \in Seq(RowType) /\ Len(db'[t]) = new
    BY <1>1, <1>4, <2>1, PutWrites
  <2>4. Len(db[t]) \in Nat /\ Ids(t) = 1..Len(db[t]) /\ DOMAIN db'[t] = 1..new
    BY <1>1, <2>2, <2>3, RowsTyped, LenProperties
  <2>5. req[c].id \in DOMAIN db'[t] /\ new \in DOMAIN db'[t] /\ req[c].id < new
    BY <2>2, <2>4
  <2>6. s.pc = "supersede" /\ s.table = t /\ s.id = req[c].id /\ s.new = new
    OBVIOUS
  <2>7. req' = [req EXCEPT ![c] = s]
    BY <1>4 DEF PutInsert
  <2> HIDE DEF t, new, s
  <2>8. req'[c] = s => RequestTyped(c)'
    BY <2>2, <2>5, <2>6 DEF RequestTyped, Ids
  <2>9. QED
    BY <1>1, <2>7, <2>8, OthersStay
<1>5. ASSUME NEW c \in Client, DeleteFind(c) PROVE Goal
  <2>1. PICK t \in Table : \E i \in Active(t) :
          req' = [req EXCEPT ![c] = [pc |-> "delete", table |-> t, id |-> i]]
    BY <1>5 DEF DeleteFind
  <2>2. PICK i \in Active(t) :
          req' = [req EXCEPT ![c] = [pc |-> "delete", table |-> t, id |-> i]]
    BY <2>1
  <2>3. i \in Ids(t) /\ Ids(t) \subseteq Ids(t)'
    BY <1>1, KeptRows DEF Active
  <2> DEFINE s == [pc |-> "delete", table |-> t, id |-> i]
  <2>4. s.pc = "delete" /\ s.table = t /\ s.id = i
    OBVIOUS
  <2> HIDE DEF s
  <2>5. req'[c] = s => RequestTyped(c)'
    BY <2>3, <2>4 DEF RequestTyped, Ids
  <2>6. QED
    BY <1>1, <2>2, <2>5, OthersStay DEF s
<1>6. ASSUME NEW c \in Client,
             \/ PostCommit(c) \/ PostRefused(c) \/ PutRefused(c) \/ PutSupersede(c)
             \/ DeleteMark(c) \/ Abandon(c)
      PROVE  Goal
  <2>1. Respond(c)
    BY <1>6 DEF PostCommit, PostRefused, PutRefused, PutSupersede, DeleteMark, Abandon
  <2>2. QED
    BY <1>1, <2>1, RespondTyped
<1>7. CASE UNCHANGED req
  BY <1>1, <1>7, RequestStays DEF Invariant
<1>8. ASSUME NEW d \in Device,
             \/ AskAuth(d) \/ AskListOs(d) \/ AskListApps(d) \/ AskDedup(d) \/ AskLookup(d)
             \/ MoveDevice(d)
      PROVE  Goal
  BY <1>7, <1>8 DEF AskAuth, AskListOs, AskListApps, AskDedup, AskLookup, AskGoto, MoveDevice
<1>9. CASE UNCHANGED vars
  BY <1>7, <1>9 DEF vars
<1>10. QED
  BY <1>2, <1>3, <1>4, <1>5, <1>6, <1>8, <1>9 DEF Next

(* The connection, the groups and the counters.                            *)

ConnectionTyped ==
  /\ conn \in Client \cup {Free}
  /\ \A c \in Client : conn = c <=> req[c].pc = "post"

LEMMA ConnectionByNext == Invariant /\ [Next]_vars => ConnectionTyped'
<1> SUFFICES ASSUME Invariant, [Next]_vars PROVE ConnectionTyped'
  OBVIOUS
<1> USE DEF ConnectionTyped
<1>1. ConnectionTyped /\ DOMAIN req = Client /\ Free \notin Client
  BY ClientAssumption DEF Invariant, TypeOK
<1>2. ASSUME NEW c \in Client, PostBegin(c) PROVE ConnectionTyped'
  <2>1. conn = Free /\ conn' = c /\ req'[c].pc = "post"
        /\ \A k \in Client \ {c} : req'[k] = req[k]
    BY <1>1, <1>2 DEF PostBegin, Receive
  <2>2. QED
    BY <1>1, <2>1
<1>3. ASSUME NEW c \in Client, PostCommit(c) \/ PostRefused(c) PROVE ConnectionTyped'
  <2>1. conn = c /\ conn' = Free /\ req'[c].pc = "idle"
        /\ \A k \in Client \ {c} : req'[k] = req[k]
    BY <1>1, <1>3 DEF PostCommit, PostRefused, Respond, Idle
  <2>2. QED
    BY <1>1, <2>1
<1>4. ASSUME NEW c \in Client,
             \/ PutFind(c) \/ PutInsert(c) \/ PutRefused(c) \/ PutSupersede(c)
             \/ DeleteFind(c) \/ DeleteMark(c)
      PROVE  ConnectionTyped'
  <2>1. conn = Free /\ conn' = conn /\ req'[c].pc # "post"
        /\ \A k \in Client \ {c} : req'[k] = req[k]
    <3>1. CASE PutFind(c) \/ DeleteFind(c)
      BY <1>1, <3>1 DEF PutFind, DeleteFind, Receive
    <3>2. CASE PutInsert(c)
      BY <1>1, <3>2 DEF PutInsert
    <3>3. CASE PutRefused(c) \/ PutSupersede(c) \/ DeleteMark(c)
      BY <1>1, <3>3 DEF PutRefused, PutSupersede, DeleteMark, Respond, Idle
    <3>4. QED
      BY <1>4, <3>1, <3>2, <3>3
  <2>2. QED
    BY <1>1, <2>1
<1>5. ASSUME NEW c \in Client, Abandon(c) PROVE ConnectionTyped'
  <2>1. conn' = (IF conn = c THEN Free ELSE conn) /\ req'[c].pc = "idle"
        /\ \A k \in Client \ {c} : req'[k] = req[k]
    BY <1>1, <1>5 DEF Abandon, Respond, Idle
  <2>2. QED
    BY <1>1, <2>1
<1>6. CASE UNCHANGED <<conn, req>>
  BY <1>1, <1>6
<1>7. ASSUME NEW d \in Device,
             \/ AskAuth(d) \/ AskListOs(d) \/ AskListApps(d) \/ AskDedup(d) \/ AskLookup(d)
             \/ MoveDevice(d)
      PROVE  ConnectionTyped'
  BY <1>6, <1>7 DEF AskAuth, AskListOs, AskListApps, AskDedup, AskLookup, AskGoto, MoveDevice
<1>8. CASE UNCHANGED vars
  BY <1>6, <1>8 DEF vars
<1>9. QED
  BY <1>2, <1>3, <1>4, <1>5, <1>7, <1>8 DEF Next

CountersTyped ==
  /\ groupOf \in [Device -> Group \cup {NoOwner}]
  /\ requests \in 0..setting.requests /\ events \in 0..MaxEvents

LEMMA CountersByNext == Invariant /\ [Next]_vars => CountersTyped'
<1> SUFFICES ASSUME Invariant, [Next]_vars PROVE CountersTyped'
  OBVIOUS
<1> USE DEF CountersTyped
<1>1. CountersTyped /\ setting.requests \in Nat /\ MaxEvents \in Nat
  BY SettingTyped, BoundAssumption DEF Invariant, TypeOK
<1>2. setting' = setting
  BY KeptByNext DEF Kept
<1>3. ASSUME NEW c \in Client, PostBegin(c) \/ PutFind(c) \/ DeleteFind(c) PROVE CountersTyped'
  BY <1>1, <1>2, <1>3 DEF PostBegin, PutFind, DeleteFind, Receive
<1>4. ASSUME NEW c \in Client, Abandon(c) PROVE CountersTyped'
  BY <1>1, <1>2, <1>4 DEF Abandon, Respond
<1>5. ASSUME NEW d \in Device, MoveDevice(d) PROVE CountersTyped'
  BY <1>1, <1>2, <1>5 DEF MoveDevice
<1>6. CASE UNCHANGED <<groupOf, requests, events>>
  BY <1>1, <1>2, <1>6
<1>7. ASSUME NEW c \in Client,
             \/ PostCommit(c) \/ PostRefused(c) \/ PutInsert(c) \/ PutRefused(c)
             \/ PutSupersede(c) \/ DeleteMark(c)
      PROVE  CountersTyped'
  BY <1>6, <1>7 DEF PostCommit, PostRefused, PutInsert, PutRefused, PutSupersede, DeleteMark,
                    Respond
<1>8. ASSUME NEW d \in Device,
             \/ AskAuth(d) \/ AskListOs(d) \/ AskListApps(d) \/ AskDedup(d) \/ AskLookup(d)
      PROVE  CountersTyped'
  BY <1>6, <1>8 DEF AskAuth, AskListOs, AskListApps, AskDedup, AskLookup, AskGoto
<1>9. CASE UNCHANGED vars
  BY <1>6, <1>9 DEF vars
<1>10. QED
  BY <1>3, <1>4, <1>5, <1>7, <1>8, <1>9 DEF Next

-----------------------------------------------------------------------------
(* The order of assignments, and what it makes of a list of them.          *)

LEMMA BeforeIsAnOrder ==
  /\ \A i, j \in Nat : Before(i, j) /\ Before(j, i) => i = j
  /\ \A i \in Nat : Before(i, i)
<1>1. ASSUME NEW i \in Nat, NEW j \in Nat, Before(i, j), Before(j, i) PROVE i = j
  <2>1. CASE IsDirect(i) = IsDirect(j)
    BY <1>1, <2>1 DEF Before
  <2>2. CASE IsDirect(i) # IsDirect(j)
    <3>1. IsDirect(i) = (setting.backend = "sqlite") /\ IsDirect(j) = (setting.backend = "sqlite")
      BY <1>1, <2>2 DEF Before
    <3>2. QED
      BY <2>2, <3>1
  <2>3. QED
    BY <2>1, <2>2
<1>2. QED
  BY <1>1 DEF Before

(* In SQLite what is direct comes first.                                   *)
LEMMA DirectComesFirst ==
  ASSUME NEW i, NEW j, setting.backend = "sqlite", ~IsDirect(i), IsDirect(j)
  PROVE  ~Before(i, j)
BY DEF Before, IsDirect

LEMMA FirstIsLeast ==
  ASSUME NEW S \in SUBSET Nat, S # {}
  PROVE  First(S) \in S /\ \A j \in S : Before(First(S), j)
<1> DEFINE front == {i \in S : IsDirect(i) = (setting.backend = "sqlite")}
<1>1. SUFFICES \E i \in S : \A j \in S : Before(i, j)
  BY DEF First
<1>2. CASE front # {}
  <2>1. PICK m \in front : \A n \in front : m <= n
    BY <1>2, LeastElement
  <2>2. ASSUME NEW j \in S PROVE Before(m, j)
    <3>1. CASE j \in front
      BY <2>1, <3>1 DEF Before
    <3>2. CASE j \notin front
      BY <2>1, <3>2 DEF Before, IsDirect
    <3>3. QED
      BY <3>1, <3>2
  <2>3. QED
    BY <2>1, <2>2
<1>3. CASE front = {}
  <2>1. PICK m \in S : \A n \in S : m <= n
    BY LeastElement
  <2>2. ASSUME NEW j \in S PROVE Before(m, j)
    BY <1>3, <2>1 DEF Before, IsDirect
  <2>3. QED
    BY <2>1, <2>2
<1>4. QED
  BY <1>2, <1>3

-----------------------------------------------------------------------------
(* The requests of devices, while administrators edit the tables.          *)

LEMMA SameApplicationStays ==
  ASSUME TypeOK, Kept, NEW i \in Ids("asgs"), NEW j \in Ids("asgs")
  PROVE  SameApplication(i, j)' <=> SameApplication(i, j)
<1>1. /\ Definition(i)' = Definition(i) /\ Definition(i) \in Ids("defs")
      /\ Definition(j)' = Definition(j) /\ Definition(j) \in Ids("defs")
  BY KeptRows
<1>2. \A k \in Ids("defs") : db'["defs"][k].ref = db["defs"][k].ref
  BY KeptRows DEF Table
<1>3. setting' = setting
  BY DEF Kept
<1>4. QED
  BY <1>1, <1>2, <1>3 DEF SameApplication

LEMMA OneOfEachStays ==
  ASSUME TypeOK, Kept, NEW S \in SUBSET Ids("asgs"), OneOfEach(S)
  PROVE  OneOfEach(S)'
BY SameApplicationStays DEF OneOfEach

(* Nothing that was listed comes to apply later.                           *)
LEMMA AppliesStays ==
  ASSUME TypeOK, Kept, NEW d, NEW n \in 0..Len(db["asgs"])
  PROVE  /\ \A j \in Applies(d, d)' : j <= n => j \in Applies(d, d) /\ j \in Ids("asgs")
         /\ n \in 0..Len(db'["asgs"])
<1>1. "asgs" \in Table
  BY DEF Table
<1>2. Ids("asgs") = 1..Len(db["asgs"]) /\ Len(db["asgs"]) \in Nat
  BY <1>1, RowsTyped
<1>3. Ids("asgs")' = 1..Len(db'["asgs"]) /\ Len(db'["asgs"]) \in Nat
  BY <1>1, LenProperties DEF Kept, TablesTyped, Ids
<1>4. Len(db["asgs"]) <= Len(db'["asgs"])
  BY <1>1 DEF Kept, TableKept
<1>5. ASSUME NEW j \in Applies(d, d)', j <= n
      PROVE  j \in Applies(d, d) /\ j \in Ids("asgs")
  <2>1. j \in Active("asgs")' /\ j \in Ids("asgs")'
    BY DEF Applies, Active
  <2>2. j \in Ids("asgs")
    BY <1>2, <1>3, <1>5, <2>1
  <2>3. j \in Active("asgs") /\ db'["asgs"][j].owner = db["asgs"][j].owner
    BY <1>1, <2>1, <2>2, KeptRows
  <2>4. QED
    BY <2>2, <2>3 DEF Applies
<1>6. QED
  BY <1>2, <1>3, <1>4, <1>5

LEMMA DefinitionsStayGone ==
  ASSUME TypeOK, Kept, NEW i \in Ids("asgs"), Definition(i)' \in Active("defs")'
  PROVE  Definition(i) \in Active("defs")
BY KeptRows DEF Table

LEMMA DirectFirstStays ==
  ASSUME TypeOK, Kept, NEW d, NEW S \in SUBSET Ids("asgs"), NEW n \in 0..Len(db["asgs"]),
         DirectFirst(d, S, n)
  PROVE  DirectFirst(d, S, n)'
<1> SUFFICES ASSUME setting'.backend = "sqlite", NEW i \in S, ~IsDirect(i)',
                    NEW j \in Applies(d, d)', j <= n, Definition(j)' \in Active("defs")'
             PROVE  ~SameApplication(i, j)'
  BY DEF DirectFirst
<1>1. setting.backend = "sqlite" /\ ~IsDirect(i)
  BY KeptRows DEF Kept
<1>2. j \in Applies(d, d) /\ j \in Ids("asgs")
  BY AppliesStays
<1>3. Definition(j) \in Active("defs")
  BY <1>2, DefinitionsStayGone
<1>4. ~SameApplication(i, j)
  BY <1>1, <1>2, <1>3 DEF DirectFirst
<1>5. QED
  BY <1>2, <1>4, SameApplicationStays

LEMMA AskStays ==
  ASSUME TypeOK, Kept, NEW d \in Device, AskTyped(d), ask'[d] = ask[d]
  PROVE  AskTyped(d)'
<1> DEFINE a == ask[d]
<1>1. Ids("asgs") \subseteq Ids("asgs")' /\ setting' = setting
  BY KeptRows DEF Table, Kept
<1>2. ASSUME a.pc \in {"dedup", "lookup", "answered"}
      PROVE  a.seen \in 0..Len(db'["asgs"])
  BY <1>2, AppliesStays DEF AskTyped, AnswerTyped
<1>3. ASSUME a.pc = "dedup" PROVE ListIsComplete(d, ask[d])'
  <2>1. a.seen \in 0..Len(db["asgs"]) /\ ListIsComplete(d, a)
    BY <1>3 DEF AskTyped, AnswerTyped
  <2>2. \A j \in Applies(d, d)' : j <= a.seen => j \in a.all
    BY <2>1, AppliesStays DEF ListIsComplete
  <2>3. a.all \subseteq Ids("asgs")'
    BY <1>1, <2>1 DEF ListIsComplete
  <2>4. QED
    BY <2>2, <2>3 DEF ListIsComplete
<1>4. ASSUME a.pc \in {"lookup", "answered"}
      PROVE  /\ OneOfEach(ask[d].todo \cup ask[d].served)'
             /\ DirectFirst(d, ask[d].todo \cup ask[d].served, ask[d].seen)'
             /\ OsTarget(ask[d])'
  <2>1. /\ a.seen \in 0..Len(db["asgs"]) /\ a.todo \cup a.served \in SUBSET Ids("asgs")
        /\ OneOfEach(a.todo \cup a.served)
        /\ DirectFirst(d, a.todo \cup a.served, a.seen)
        /\ OsTarget(a)
    BY <1>4 DEF AskTyped, AnswerTyped
  <2> DEFINE S == a.todo \cup a.served
  <2>2. \A T \in SUBSET Ids("asgs") : OneOfEach(T) => OneOfEach(T)'
    BY OneOfEachStays
  <2>3. \A T \in SUBSET Ids("asgs") : \A n \in 0..Len(db["asgs"]) :
          DirectFirst(d, T, n) => DirectFirst(d, T, n)'
    BY DirectFirstStays
  <2>4. OneOfEach(ask[d].todo \cup ask[d].served)'
    BY <2>1, <2>2
  <2>5. DirectFirst(d, ask[d].todo \cup ask[d].served, ask[d].seen)'
    BY <2>1, <2>3
  <2>6. OsTarget(ask[d])'
    <3>1. \A k \in Ids("asgs") : Definition(k)' \in Active("defs")' => Definition(k) \in Active("defs")
      BY DefinitionsStayGone
    <3>2. QED
      BY <2>1, <3>1, <1>1 DEF OsTarget
  <2>7. QED
    BY <2>4, <2>5, <2>6
<1>5. QED
  BY <1>1, <1>2, <1>3, <1>4 DEF AskTyped, AnswerTyped

-----------------------------------------------------------------------------
(* The steps of a device's request.  None of them writes to the tables.    *)

LEMMA AskMoves ==
  ASSUME NEW d \in Device, NEW s, DOMAIN ask = Device, AskGoto(d, s), AnswerTyped(d, s)
  PROVE  AskTyped(d)'
<1>1. ask'[d] = s /\ setting' = setting /\ db' = db
  BY DEF AskGoto
<1>2. AnswerTyped(d, s)'
  BY <1>1 DEF AnswerTyped, OneOfEach, DirectFirst, ListIsComplete, OsTarget, SameApplication,
              IsDirect, Definition, Applies, Active, Ids
<1>3. QED
  BY <1>1, <1>2 DEF AskTyped

(* Answered or going on, a lookup keeps the history of the list.           *)
LEMMA LookupTyped ==
  ASSUME NEW d \in Device, NEW a, NEW todo, NEW served,
         a.seen \in 0..Len(db["asgs"]),
         todo \cup served \subseteq Ids("asgs"),
         OneOfEach(todo \cup served),
         DirectFirst(d, todo \cup served, a.seen),
         OsTarget(Lookup(a, todo, served))
  PROVE  AnswerTyped(d, Lookup(a, todo, served))
<1> DEFINE s == Lookup(a, todo, served)
<1>1. /\ s.pc = (IF todo = {} THEN "answered" ELSE "lookup")
      /\ s.todo = todo /\ s.served = served /\ s.seen = a.seen
  BY DEF Lookup
<1>2. OsTarget(s)
  OBVIOUS
<1> HIDE DEF s
<1>3. AnswerTyped(d, s)
  BY <1>1, <1>2 DEF AnswerTyped, AskPC
<1>4. QED
  BY <1>3 DEF s

LEMMA AppliesIsAList ==
  ASSUME TypeOK, NEW d, NEW g
  PROVE  /\ Applies(d, g) \in SUBSET Ids("asgs") /\ Applies(d, g) \in SUBSET Nat
         /\ Applies(d, d) \subseteq Applies(d, g)
         /\ d \in Device => \A i \in Applies(d, d) : IsDirect(i)
<1>1. Ids("asgs") \subseteq Nat
  BY RowsTyped DEF Table
<1>2. QED
  BY <1>1 DEF Applies, Active, IsDirect

LEMMA ListOsTyped ==
  ASSUME Invariant, NEW d \in Device, AskListOs(d)
  PROVE  AskTyped(d)'
<1> DEFINE all == Applies(d, ask[d].group)
           k == First(all)
           a == Listed(d)
<1>1. TypeOK /\ DOMAIN ask = Device /\ setting.area = "os"
  BY DEF Invariant, AskListOs
<1>2. all \in SUBSET Ids("asgs") /\ all \in SUBSET Nat
      /\ Applies(d, d) \subseteq all /\ \A i \in Applies(d, d) : IsDirect(i)
  BY <1>1, AppliesIsAList
<1>3. CASE all = {}
  <2>1. AskGoto(d, [pc |-> "failed"])
    BY <1>3 DEF AskListOs
  <2>2. AnswerTyped(d, [pc |-> "failed"])
    BY DEF AnswerTyped, AskPC
  <2>3. QED
    BY <1>1, <2>1, <2>2, AskMoves
<1>4. CASE all # {}
  <2>1. AskGoto(d, Lookup(a, {k}, {}))
    BY <1>4 DEF AskListOs
  <2>2. k \in all /\ \A j \in all : Before(k, j)
    BY <1>2, <1>4, FirstIsLeast
  <2>3. a.seen = Len(db["asgs"]) /\ a.target = TargetOf(d, ask[d].group)
    BY DEF Listed
  <2>4. Len(db["asgs"]) \in Nat
    BY <1>1, RowsTyped DEF Table
  <2>5. a.seen \in 0..Len(db["asgs"])
    BY <2>3, <2>4
  <2>6. DirectFirst(d, {k} \cup {}, a.seen)
    <3> SUFFICES ASSUME setting.backend = "sqlite", ~IsDirect(k), NEW j \in Applies(d, d)
                 PROVE  FALSE
      BY DEF DirectFirst
    <3>1. ~Before(k, j)
      BY <1>2, DirectComesFirst
    <3>2. QED
      BY <3>1, <2>2, <1>2
  <2>7. OneOfEach({k} \cup {})
    BY DEF OneOfEach
  <2>8. OsTarget(Lookup(a, {k}, {}))
    <3>1. a.target = {i \in all : i = k /\ Definition(i) \in Active("defs")}
      BY <1>1, <2>3 DEF TargetOf
    <3>2. a.target \subseteq {k} /\ (Definition(k) \in Active("defs") => a.target = {k})
      BY <3>1, <2>2
    <3>3. k \in Ids("asgs")
      BY <1>2, <2>2
    <3> HIDE DEF k, a
    <3>4. Lookup(a, {k}, {}).pc = "lookup" /\ Lookup(a, {k}, {}).todo = {k}
          /\ Lookup(a, {k}, {}).served = {} /\ Lookup(a, {k}, {}).target = a.target
      BY DEF Lookup
    <3>5. QED
      BY <3>2, <3>3, <3>4 DEF OsTarget
  <2>9. {k} \cup {} \subseteq Ids("asgs")
    BY <1>2, <2>2
  <2> HIDE DEF k, a
  <2>10. AnswerTyped(d, Lookup(a, {k}, {}))
    BY <2>5, <2>6, <2>7, <2>8, <2>9, LookupTyped
  <2>11. QED
    BY <1>1, <2>1, <2>10, AskMoves
<1>5. QED
  BY <1>3, <1>4

LEMMA ListAppsTyped ==
  ASSUME Invariant, NEW d \in Device, AskListApps(d)
  PROVE  AskTyped(d)'
<1> DEFINE all == Applies(d, ask[d].group)
           s == [pc |-> "dedup", all |-> all, target |-> Listed(d).target, seen |-> Listed(d).seen]
<1>1. TypeOK /\ DOMAIN ask = Device /\ setting.area = "apps" /\ AskGoto(d, s)
  BY DEF Invariant, AskListApps
<1>2. all \in SUBSET Ids("asgs") /\ Applies(d, d) \subseteq all
  BY <1>1, AppliesIsAList
<1>3. Listed(d).seen = Len(db["asgs"])
  BY DEF Listed
<1>4. Len(db["asgs"]) \in Nat
  BY <1>1, RowsTyped DEF Table
<1>5. s.pc = "dedup" /\ s.all = all /\ s.seen \in 0..Len(db["asgs"])
  BY <1>3, <1>4
<1> HIDE DEF s
<1>6. AnswerTyped(d, s)
  BY <1>1, <1>2, <1>5 DEF AnswerTyped, ListIsComplete, AskPC
<1>7. QED
  BY <1>1, <1>6, AskMoves

(* Of each application there is one winner, and in SQLite it is direct     *)
(* when anything direct is live.                                           *)
LEMMA WinnersAreSingle ==
  ASSUME NEW S \in SUBSET Nat
  PROVE  OneOfEach(Winners(S))
<1>1. SUFFICES ASSUME NEW i \in Winners(S), NEW j \in Winners(S), SameApplication(i, j)
               PROVE  i = j
  BY DEF OneOfEach
<1>2. SameApplication(j, i)
  BY <1>1 DEF SameApplication
<1>3. i \in Nat /\ j \in Nat /\ Before(i, j) /\ Before(j, i)
  BY <1>1, <1>2 DEF Winners
<1>4. QED
  BY <1>3, BeforeIsAnOrder

LEMMA DedupTyped ==
  ASSUME Invariant, NEW d \in Device, AskDedup(d)
  PROVE  AskTyped(d)'
<1> DEFINE a == ask[d]
           W == Winners(a.all)
<1>1. TypeOK /\ DOMAIN ask = Device /\ a.pc = "dedup" /\ AskGoto(d, Lookup(a, W, {}))
  BY DEF Invariant, AskDedup
<1>2. /\ a.seen \in 0..Len(db["asgs"]) /\ setting.area = "apps"
      /\ ListIsComplete(d, a)
  BY <1>1 DEF Invariant, AskTyped, AnswerTyped
<1>3. W \subseteq a.all /\ a.all \subseteq Ids("asgs") /\ a.all \subseteq Nat
  <2>1. Ids("asgs") \subseteq Nat
    BY <1>1, RowsTyped DEF Table
  <2>2. QED
    BY <1>2, <2>1 DEF ListIsComplete, Winners
<1>4. OneOfEach(W)
  BY <1>3, WinnersAreSingle
<1>5. DirectFirst(d, W, a.seen)
  <2> SUFFICES ASSUME setting.backend = "sqlite", NEW i \in W, ~IsDirect(i),
                      NEW j \in Applies(d, d), j <= a.seen, Definition(j) \in Active("defs"),
                      SameApplication(i, j)
               PROVE  FALSE
    BY DEF DirectFirst
  <2>1. j \in a.all /\ IsDirect(j)
    BY <1>1, <1>2, AppliesIsAList DEF ListIsComplete
  <2>2. Before(i, j)
    BY <2>1 DEF Winners
  <2>3. QED
    BY <2>1, <2>2, DirectComesFirst
<1>6. OsTarget(Lookup(a, W, {}))
  BY <1>2 DEF OsTarget
<1>7. W \cup {} = W
  OBVIOUS
<1> HIDE DEF W, a
<1>8. AnswerTyped(d, Lookup(a, W, {}))
  BY <1>2, <1>3, <1>4, <1>5, <1>6, <1>7, LookupTyped
<1>9. QED
  BY <1>1, <1>8, AskMoves

LEMMA PartsKeepWhatHolds ==
  ASSUME NEW d, NEW n, NEW S, NEW T \in SUBSET S
  PROVE  /\ OneOfEach(S) => OneOfEach(T)
         /\ DirectFirst(d, S, n) => DirectFirst(d, T, n)
BY DEF OneOfEach, DirectFirst

LEMMA LookupStepTyped ==
  ASSUME Invariant, NEW d \in Device, AskLookup(d)
  PROVE  AskTyped(d)'
<1> DEFINE a == ask[d]
           i == First(a.todo)
           rest == a.todo \ {i}
           found == Definition(i) \in Active("defs")
<1>1. TypeOK /\ DOMAIN ask = Device /\ a.pc = "lookup"
  BY DEF Invariant, AskLookup
<1>2. AskGoto(d, IF found THEN Lookup(a, rest, a.served \cup {i})
                 ELSE IF setting.area = "os" THEN [pc |-> "failed"]
                 ELSE Lookup(a, rest, a.served))
  BY DEF AskLookup
<1>3. /\ a.seen \in 0..Len(db["asgs"])
      /\ a.todo \cup a.served \subseteq Ids("asgs") /\ a.todo # {}
      /\ OneOfEach(a.todo \cup a.served)
      /\ DirectFirst(d, a.todo \cup a.served, a.seen)
      /\ OsTarget(a)
  BY <1>1 DEF Invariant, AskTyped, AnswerTyped
<1>4. i \in a.todo
  <2>1. a.todo \in SUBSET Nat
    BY <1>1, <1>3, RowsTyped DEF Table
  <2>2. QED
    BY <1>3, <2>1, FirstIsLeast
<1>5. CASE found
  <2> DEFINE served == a.served \cup {i}
  <2>1. rest \cup served = a.todo \cup a.served
    BY <1>4
  <2>2. OsTarget(Lookup(a, rest, served))
    <3> SUFFICES ASSUME setting.area = "os"
                 PROVE  Lookup(a, rest, served).pc = "answered"
                        /\ Lookup(a, rest, served).served = Lookup(a, rest, served).target
      BY DEF OsTarget
    <3>1. PICK k \in Ids("asgs") : /\ a.todo = {k} /\ a.served = {}
                                   /\ Definition(k) \in Active("defs") => a.target = {k}
      BY <1>1, <1>3 DEF OsTarget
    <3>2. i = k /\ rest = {} /\ served = {k} /\ a.target = {k}
      BY <1>4, <1>5, <3>1
    <3> HIDE DEF a, rest, served
    <3>3. QED
      BY <3>2 DEF Lookup
  <2>3. AskGoto(d, Lookup(a, rest, served))
    BY <1>2, <1>5
  <2> HIDE DEF a, i, rest, served
  <2>4. AnswerTyped(d, Lookup(a, rest, served))
    BY <1>3, <2>1, <2>2, LookupTyped
  <2>5. QED
    BY <1>1, <2>3, <2>4, AskMoves
<1>6. CASE ~found /\ setting.area = "os"
  <2>1. AskGoto(d, [pc |-> "failed"])
    BY <1>2, <1>6
  <2>2. AnswerTyped(d, [pc |-> "failed"])
    BY DEF AnswerTyped, AskPC
  <2>3. QED
    BY <1>1, <2>1, <2>2, AskMoves
<1>7. CASE ~found /\ setting.area # "os"
  <2>1. AskGoto(d, Lookup(a, rest, a.served))
    BY <1>2, <1>7
  <2>2. rest \cup a.served \in SUBSET (a.todo \cup a.served)
    OBVIOUS
  <2>3. OsTarget(Lookup(a, rest, a.served))
    BY <1>7 DEF OsTarget
  <2>4. rest \cup a.served \subseteq Ids("asgs")
    BY <1>3, <2>2
  <2> HIDE DEF a, i, rest
  <2>5. OneOfEach(rest \cup a.served) /\ DirectFirst(d, rest \cup a.served, a.seen)
    BY <1>3, <2>2, PartsKeepWhatHolds
  <2>6. AnswerTyped(d, Lookup(a, rest, a.served))
    BY <1>3, <2>3, <2>4, <2>5, LookupTyped
  <2>7. QED
    BY <1>1, <2>1, <2>6, AskMoves
<1>8. QED
  BY <1>5, <1>6, <1>7

LEMMA AsksByNext ==
  Invariant /\ [Next]_vars => DOMAIN ask' = Device /\ \A d \in Device : AskTyped(d)'
<1> SUFFICES ASSUME Invariant, [Next]_vars
             PROVE  DOMAIN ask' = Device /\ \A d \in Device : AskTyped(d)'
  OBVIOUS
<1> DEFINE Goal == DOMAIN ask' = Device /\ \A d \in Device : AskTyped(d)'
<1>1. Kept /\ TypeOK /\ DOMAIN ask = Device /\ \A d \in Device : AskTyped(d)
  BY KeptByNext DEF Invariant
<1>2. ASSUME NEW d \in Device,
             \/ AskAuth(d) \/ AskListOs(d) \/ AskListApps(d) \/ AskDedup(d) \/ AskLookup(d)
      PROVE  Goal
  <2>1. AskTyped(d)'
    <3>1. CASE AskAuth(d)
      <4>1. AnswerTyped(d, [pc |-> "list", group |-> groupOf[d]])
        BY DEF AnswerTyped, AskPC
      <4>2. AskGoto(d, [pc |-> "list", group |-> groupOf[d]])
        BY <3>1 DEF AskAuth
      <4>3. QED
        BY <1>1, <4>1, <4>2, AskMoves
    <3>2. QED
      BY <1>2, <3>1, ListOsTyped, ListAppsTyped, DedupTyped, LookupStepTyped
  <2>2. DOMAIN ask' = Device /\ \A e \in Device \ {d} : ask'[e] = ask[e]
    BY <1>1, <1>2 DEF AskAuth, AskListOs, AskListApps, AskDedup, AskLookup, AskGoto
  <2>3. \A e \in Device \ {d} : AskTyped(e)'
    BY <1>1, <2>2, AskStays
  <2>4. QED
    BY <2>1, <2>2, <2>3
<1>3. CASE UNCHANGED ask
  BY <1>1, <1>3, AskStays
<1>4. ASSUME NEW c \in Client,
             \/ PostBegin(c) \/ PostCommit(c) \/ PostRefused(c)
             \/ PutFind(c) \/ PutInsert(c) \/ PutRefused(c) \/ PutSupersede(c)
             \/ DeleteFind(c) \/ DeleteMark(c) \/ Abandon(c)
      PROVE  Goal
  BY <1>3, <1>4 DEF PostBegin, PostCommit, PostRefused, PutFind, PutInsert, PutRefused,
                    PutSupersede, DeleteFind, DeleteMark, Abandon
<1>5. ASSUME NEW d \in Device, MoveDevice(d) PROVE Goal
  BY <1>3, <1>5 DEF MoveDevice
<1>6. CASE UNCHANGED vars
  BY <1>3, <1>6 DEF vars
<1>7. QED
  BY <1>2, <1>4, <1>5, <1>6 DEF Next

-----------------------------------------------------------------------------
(* The invariant holds.                                                    *)

LEMMA InitInvariant == Init => Invariant
<1> SUFFICES ASSUME Init PROVE Invariant
  OBVIOUS
<1>1. setting \in Setting /\ setting.area \in {"os", "apps"} /\ setting.requests \in Nat
  BY SettingAssumption DEF Init
<1>2. /\ Seed[setting.area] \in
           [Table -> Seq([ref : Name \cup App \cup Nat, owner : Owner \cup {NoOwner},
                          deleted : {FALSE}, by : {0}])]
      /\ \A i \in DOMAIN Seed[setting.area]["asgs"] :
           Seed[setting.area]["asgs"][i].ref \in DOMAIN Seed[setting.area]["defs"]
      /\ HomeGroup \in [Device -> Group \cup {NoOwner}]
  BY <1>1, SeedAssumption
<1>3. db \in [Table -> Seq(RowType)]
  <2>1. [ref : Name \cup App \cup Nat, owner : Owner \cup {NoOwner}, deleted : {FALSE}, by : {0}]
          \subseteq RowType
    <3>1. {FALSE} \subseteq BOOLEAN /\ {0} \subseteq Nat
      OBVIOUS
    <3>2. QED
      BY <3>1, Zenon DEF RowType
  <2>2. \A t \in Table : db[t] \in Seq(RowType)
    BY <1>2, <2>1, SeqMonotonic DEF Init
  <2>3. QED
    BY <1>2, <2>2 DEF Init
<1>4. \A i \in Ids("asgs") : Definition(i) \in Ids("defs")
  BY <1>2 DEF Init, Definition, Ids
<1>5. TypeOK
  BY <1>1, <1>2, <1>3, <1>4, ClientAssumption, BoundAssumption DEF Init, TypeOK, Idle, AskPC
<1>6. \A c \in Client : RequestTyped(c)
  BY DEF Init, Idle, RequestTyped
<1>7. \A d \in Device : AskTyped(d)
  BY DEF Init, Idle, AskTyped, AnswerTyped, AskPC
<1>8. QED
  BY <1>5, <1>6, <1>7 DEF Invariant, Init

LEMMA NextInvariant == Invariant /\ [Next]_vars => Invariant'
<1> SUFFICES ASSUME Invariant, [Next]_vars PROVE Invariant'
  OBVIOUS
<1>1. Kept /\ ConnectionTyped' /\ CountersTyped'
  BY KeptByNext, ConnectionByNext, CountersByNext
<1>2. DOMAIN req' = Client /\ \A c \in Client : RequestTyped(c)'
  BY RequestsByNext
<1>3. DOMAIN ask' = Device /\ \A d \in Device : AskTyped(d)'
  BY AsksByNext
<1>4. setting' \in Setting
  BY <1>1 DEF Kept, Invariant, TypeOK
<1>5. TypeOK'
  BY <1>1, <1>2, <1>3, <1>4 DEF TypeOK, Kept, TablesTyped, ConnectionTyped, CountersTyped,
                                RequestTyped, AskTyped, AnswerTyped
<1>6. QED
  BY <1>2, <1>3, <1>5 DEF Invariant

LEMMA AlwaysInvariant == Spec => []Invariant
BY InitInvariant, NextInvariant, PTL DEF Spec

-----------------------------------------------------------------------------
(* No gap.                                                                 *)

GapStep ==
  \A t \in Table : \A i \in Active(t) :
    \/ Holders(t, db[t][i]) = {} \/ Holders(t, db[t][i])' # {}
    \/ \E c \in Client : req'[c] # req[c] /\ Withdraws(c, t, db[t][i])

(* A row that stays active holds its key; so does another active row of    *)
(* the same key.                                                           *)
LEMMA HeldByActive ==
  ASSUME TypeOK, Kept, NEW t \in Table, NEW i \in Ids(t), NEW j \in DOMAIN db'[t],
         IsActive(db'[t][j]), SameKey(t, db'[t][j], db[t][i])
  PROVE  Holders(t, db[t][i])' # {}
<1>1. db'[t][i].ref = db[t][i].ref /\ db'[t][i].owner = db[t][i].owner /\ setting' = setting
  BY KeptRows DEF Kept
<1>2. SameKey(t, db[t][j], db[t][i])'
  BY <1>1 DEF SameKey
<1>3. j \in Active(t)'
  BY DEF Active, Ids
<1>4. j \in Holders(t, db[t][i])'
  BY <1>2, <1>3 DEF Holders
<1>5. QED
  BY <1>4

LEMMA StillActive ==
  ASSUME TypeOK, Kept, NEW t \in Table, NEW i \in Active(t), Holders(t, db[t][i]) # {},
         db'[t][i] = db[t][i]
  PROVE  Holders(t, db[t][i])' # {}
<1>1. i \in Ids(t) /\ IsActive(db'[t][i]) /\ SameKey(t, db'[t][i], db[t][i])
  BY DEF Active, Holders, SameKey
<1>2. i \in DOMAIN db'[t]
  BY <1>1, KeptRows DEF Ids
<1>3. QED
  BY <1>1, <1>2, HeldByActive

LEMMA GapStepByPost ==
  ASSUME Invariant, Kept, NEW c \in Client, PostCommit(c)
  PROVE  GapStep
<1> DEFINE t == req[c].table
           new == Len(db[t]) + 1
<1>1. TypeOK /\ RequestTyped(c) /\ req[c].pc = "post"
  BY DEF Invariant, PostCommit
<1>2. /\ t \in Table /\ req[c].body \in Body(t)
      /\ \A u \in Table : u # t => db'[u] = db[u]
      /\ db'[t] \in Seq(RowType) /\ Len(db'[t]) = new
      /\ \A i \in Ids(t) : i \notin req[c].old => db'[t][i] = db[t][i]
      /\ db'[t][new] = Row(req[c].body)
  BY <1>1, PostWrites
<1>3. \A i \in req[c].old : i \in Ids(t) /\ SameKey(t, db[t][i], req[c].body)
  BY <1>1 DEF RequestTyped
<1>4. new \in DOMAIN db'[t]
  BY <1>1, <1>2, RowsTyped, LenProperties
<1>5. /\ IsActive(db'[t][new])
      /\ db'[t][new].ref = req[c].body.ref /\ db'[t][new].owner = req[c].body.owner
  <2> DEFINE x == req[c].body
  <2>1. Row(x).deleted = FALSE /\ Row(x).by = 0 /\ Row(x).ref = x.ref /\ Row(x).owner = x.owner
    BY DEF Row
  <2> HIDE DEF t, new, x
  <2>2. QED
    BY <1>2, <2>1 DEF IsActive, x
<1> SUFFICES ASSUME NEW u \in Table, NEW i \in Active(u), Holders(u, db[u][i]) # {}
             PROVE  Holders(u, db[u][i])' # {}
  BY DEF GapStep
<1> HIDE DEF t, new
<1>6. CASE u = t /\ i \in req[c].old
  <2>1. SameKey(t, db'[t][new], db[t][i])
    BY <1>3, <1>5, <1>6 DEF SameKey
  <2>2. QED
    BY <1>1, <1>3, <1>4, <1>5, <1>6, <2>1, HeldByActive
<1>7. CASE u # t \/ i \notin req[c].old
  <2>1. db'[u][i] = db[u][i]
    BY <1>2, <1>7 DEF Active
  <2>2. QED
    BY <1>1, <2>1, StillActive
<1>8. QED
  BY <1>6, <1>7

LEMMA GapStepBySupersede ==
  ASSUME Invariant, Kept, NEW c \in Client, PutSupersede(c)
  PROVE  GapStep
<1> DEFINE t == req[c].table
           id == req[c].id
           n == req[c].new
           r == [db[t][id] EXCEPT !.by = n]
<1>1. TypeOK /\ RequestTyped(c) /\ req[c].pc = "supersede" /\ DOMAIN req = Client
  BY DEF Invariant, PutSupersede
<1>2. t \in Table /\ id \in Ids(t) /\ n \in Ids(t) /\ id < n
  BY <1>1 DEF RequestTyped
<1>3. db[t][id] \in RowType /\ n \in Nat
  BY <1>1, <1>2, RowsTyped
<1>4. db' = [db EXCEPT ![t] = [db[t] EXCEPT ![id] = r]]
  BY <1>1, <1>2, <1>3 DEF PutSupersede, TypeOK
<1>5. req'[c] # req[c]
  <2>1. req'[c].pc = "idle"
    BY <1>1 DEF PutSupersede, Respond, Idle
  <2>2. QED
    BY <1>1, <2>1
<1> SUFFICES ASSUME NEW u \in Table, NEW i \in Active(u), Holders(u, db[u][i]) # {},
                    ~Withdraws(c, u, db[u][i])
             PROVE  Holders(u, db[u][i])' # {}
  BY <1>5 DEF GapStep
<1> HIDE DEF t, id, n, r
<1>6. /\ \A v \in Table : v # t => db'[v] = db[v]
      /\ \A j \in Ids(t) : j # id => db'[t][j] = db[t][j]
  <2>1. db \in [Table -> Seq(RowType)] /\ Ids(t) = DOMAIN db[t]
    BY <1>1 DEF TypeOK, Ids
  <2>2. db'[t] = [db[t] EXCEPT ![id] = r] /\ \A v \in Table : v # t => db'[v] = db[v]
    BY <1>2, <1>4, <2>1
  <2>3. QED
    BY <2>1, <2>2
<1>7. CASE u = t /\ i = id
  <2>1. IsActive(db[t][n]) /\ SameKey(t, db[t][n], db[t][i])
    BY <1>1, <1>7 DEF Withdraws, t, n
  <2>2. id \in Nat
    BY <1>1, <1>2, RowsTyped
  <2>3. db'[t][n] = db[t][n]
    BY <1>2, <1>3, <1>6, <2>2
  <2>4. n \in DOMAIN db'[t]
    BY <1>1, <1>2, KeptRows DEF Ids
  <2>5. QED
    BY <1>1, <1>2, <1>7, <2>1, <2>3, <2>4, HeldByActive
<1>8. CASE u # t \/ i # id
  <2>1. db'[u][i] = db[u][i]
    BY <1>6, <1>8 DEF Active
  <2>2. QED
    BY <1>1, <2>1, StillActive
<1>9. QED
  BY <1>7, <1>8

LEMMA GapStepByNext == Invariant /\ [Next]_vars => GapStep
<1> SUFFICES ASSUME Invariant, [Next]_vars PROVE GapStep
  OBVIOUS
<1>1. Kept /\ TypeOK /\ DOMAIN req = Client
  BY KeptByNext DEF Invariant
<1>2. ASSUME NEW c \in Client, PutInsert(c) PROVE GapStep
  <2>1. RequestTyped(c)
    BY DEF Invariant
  <2>2. \A t \in Table : \A i \in Ids(t) : db'[t][i] = db[t][i]
    <3> DEFINE t == req[c].table
    <3>1. t \in Table /\ (\A u \in Table : u # t => db'[u] = db[u])
          /\ \A i \in Ids(t) : db'[t][i] = db[t][i]
      BY <1>1, <1>2, <2>1, PutWrites
    <3> HIDE DEF t
    <3>2. QED
      BY <3>1
  <2>3. QED
    BY <1>1, <2>2, StillActive DEF GapStep, Active
<1>3. ASSUME NEW c \in Client, DeleteMark(c) PROVE GapStep
  <2>1. req[c].pc = "delete" /\ req'[c].pc = "idle"
    BY <1>1, <1>3 DEF DeleteMark, Respond, Idle
  <2>2. req'[c] # req[c]
    BY <2>1
  <2>3. QED
    BY <2>1, <2>2 DEF GapStep, Withdraws
<1>4. CASE UNCHANGED <<setting, db>>
  BY <1>1, <1>4, StillActive DEF GapStep
<1>5. ASSUME NEW c \in Client,
             \/ PostBegin(c) \/ PostRefused(c) \/ PutFind(c) \/ PutRefused(c)
             \/ DeleteFind(c) \/ Abandon(c)
      PROVE  UNCHANGED <<setting, db>>
  BY <1>5 DEF PostBegin, PostRefused, PutFind, PutRefused, DeleteFind, Abandon
<1>6. ASSUME NEW d \in Device,
             \/ AskAuth(d) \/ AskListOs(d) \/ AskListApps(d) \/ AskDedup(d) \/ AskLookup(d)
             \/ MoveDevice(d)
      PROVE  UNCHANGED <<setting, db>>
  BY <1>6 DEF AskAuth, AskListOs, AskListApps, AskDedup, AskLookup, AskGoto, MoveDevice
<1>7. CASE UNCHANGED vars
  BY <1>4, <1>7 DEF vars
<1>8. QED
  BY <1>1, <1>2, <1>3, <1>4, <1>5, <1>6, <1>7, GapStepByPost, GapStepBySupersede DEF Next

-----------------------------------------------------------------------------
(* The theorems.                                                           *)

(* Rows, connection, requests and answers keep to their types, and every   *)
(* reference from a request or an assignment is to a row that exists       *)
(* (api-server/src/api_v1/db).                                             *)
THEOREM TypeCorrect == Spec => []TypeOK
<1>1. Invariant => TypeOK
  BY DEF Invariant
<1>2. QED
  BY <1>1, AlwaysInvariant, PTL

(* The OS a device is told to run was its target when its assignments were *)
(* listed, although the version is read later, among any number of edits   *)
(* (routes/device/os.rs:11-58).                                            *)
THEOREM OsAnswersAreCurrent == Spec => []OsAnswerIsCurrent
<1>1. Invariant => OsAnswerIsCurrent
  BY DEF Invariant, AskTyped, AnswerTyped, OsTarget, OsAnswerIsCurrent
<1>2. QED
  BY <1>1, AlwaysInvariant, PTL

(* No answer names two configs of one application, however many there are  *)
(* and whatever is edited between the statements that gather them          *)
(* (application_assignments.rs:90).                                        *)
THEOREM AnswersAreUnambiguous == Spec => []OneConfigPerApplication
<1>1. Invariant => OneConfigPerApplication
  BY DEF Invariant, AskTyped, AnswerTyped, OneOfEach, OneConfigPerApplication
<1>2. QED
  BY <1>1, AlwaysInvariant, PTL

(* In SQLite a device's own assignment wins against its group's, also when *)
(* both tables are edited while the answer is gathered                     *)
(* (application_assignments.rs:92, os_assignments.rs:64).                  *)
THEOREM DirectAssignmentsWin == Spec => []DeviceWinsOnSqlite
<1>1. Invariant => DeviceWinsOnSqlite
  <2> SUFFICES ASSUME Invariant, setting.backend = "sqlite", NEW d \in Device,
                      ask[d].pc = "answered", NEW i \in ask[d].served, ~IsDirect(i),
                      NEW j \in Applies(d, d), j <= ask[d].seen,
                      Definition(j) \in Active("defs"), SameApplication(i, j)
               PROVE  FALSE
    BY DEF DeviceWinsOnSqlite, DeviceWins
  <2>1. DirectFirst(d, ask[d].todo \cup ask[d].served, ask[d].seen)
    BY DEF Invariant, AskTyped, AnswerTyped
  <2>2. QED
    BY <2>1 DEF DirectFirst
<1>2. QED
  BY <1>1, AlwaysInvariant, PTL

(* Whatever requests race, the tables are append-only histories: a row     *)
(* keeps what it says, is not revived, and points to a later row when it   *)
(* is replaced (api_v1/db/*.rs).                                           *)
THEOREM HistoryStays == Spec => HistoryIsKept
<1>1. Invariant /\ [Next]_vars =>
        [\A t \in Table : \A i \in Ids(t) :
           /\ Len(db[t]) <= Len(db'[t])
           /\ LET r == db[t][i]
                  r2 == db'[t][i]
              IN /\ r2.ref = r.ref /\ r2.owner = r.owner
                 /\ ~IsActive(r) => ~IsActive(r2)
                 /\ r2.by # r.by => i < r2.by /\ r2.by <= Len(db'[t])]_vars
  BY KeptByNext DEF Kept, TableKept, RowKept
<1>2. QED
  BY <1>1, AlwaysInvariant, PTL DEF Spec, HistoryIsKept

(* Whatever requests race, a key that has an active row keeps one until a  *)
(* request withdraws it (os_assignments.rs:123, :176).                     *)
THEOREM NoGapOpens == Spec => NoGap
<1>1. Invariant /\ [Next]_vars =>
        [\A t \in Table : \A i \in Active(t) :
           \/ Holders(t, db[t][i]) = {} \/ Holders(t, db[t][i])' # {}
           \/ \E c \in Client : req'[c] # req[c] /\ Withdraws(c, t, db[t][i])]_vars
  BY GapStepByNext DEF GapStep
<1>2. QED
  BY <1>1, AlwaysInvariant, PTL DEF Spec, NoGap
=============================================================================
