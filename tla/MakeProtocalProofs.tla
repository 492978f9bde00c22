------------------------- MODULE MakeProtocalProofs -------------------------
(***************************************************************************)
(* Proofs about MakeProtocal: what a run stores is, table by table and row *)
(* by row, the document it was given; no unique column has a value twice,  *)
(* at any time; and it implements Dictionary.                              *)
(***************************************************************************)
EXTENDS MakeProtocal, LoopLemmas

\* The place of a table in Tables.
Rank == [type |-> 1, item |-> 2, field |-> 3, tid |-> 4, package |-> 5]

\* The rows of table t are those of the first n definitions of its section.
HasFirst(t, n) ==
    /\ t \in DOMAIN doc /\ n \in 0..Len(doc[t])
    /\ db[t] = [k \in 1..n |-> RowFor(t, doc[t][k])]
    /\ \A k \in 1..n : doc[t][k].complete

StoredWhole(t) == t \in DOMAIN db /\ HasFirst(t, Len(doc[t]))

\* A table is there only if all before it are whole, also after a run that
\* failed or was killed, and has the rows of a part of its section.
TablesInOrder ==
    /\ db = [t \in DOMAIN db |-> db[t]]
    /\ \A t \in DOMAIN db :
          /\ t \in TableNames
          /\ doc \in Docs
          /\ \A s \in TableNames : Rank[s] < Rank[t] => StoredWhole(s)
          /\ t \notin DOMAIN doc => db[t] = <<>>
          /\ t \in DOMAIN doc => \E n \in 0..Len(doc[t]) : HasFirst(t, n)

\* Where the run is.
Progress ==
    /\ pc \in TableNames =>
          /\ doc \in Docs
          /\ \A s \in TableNames : s \in DOMAIN db <=> Rank[s] < Rank[pc] \/ (s = pc /\ at > 0)
          /\ \A s \in TableNames : Rank[s] < Rank[pc] => StoredWhole(s)
          /\ at > 0 => HasFirst(pc, at - 1)
    /\ pc = "finished" => \A s \in TableNames : StoredWhole(s)

\* While packages are stored, tid_model has the tids of those that are.
ModelsNoted ==
    pc = "package" => \A p \in RowsIn("package") : p.tid \in DOMAIN tid_model /\ tid_model[p.tid] = p.model

\* The inductive invariant.
IInv ==
    /\ TypeOK
    /\ TablesInOrder
    /\ Progress
    /\ ModelsNoted
    /\ Unambiguous
    /\ PackagesFitTids

-----------------------------------------------------------------------------
(* The tables and their rows.                                              *)

\* The five tables, their order, and that no ended run looks like one.
LEMMA TableFacts ==
    /\ TableNames = {"type", "item", "field", "tid", "package"}
    /\ Len(Tables) = 5
    /\ \A t \in TableNames : Rank[t] \in 1..5 /\ Tables[Rank[t]] = t
    /\ \A n \in 1..5 : Tables[n] \in TableNames /\ Rank[Tables[n]] = n
    /\ \A t \in TableNames : t \notin Ended
<1>1. Len(Tables) = 5
  BY DEF Tables
<1>2. TableNames = {"type", "item", "field", "tid", "package"}
  <2>1. \A n \in 1..5 : n = 1 \/ n = 2 \/ n = 3 \/ n = 4 \/ n = 5
    OBVIOUS
  <2> QED BY <1>1, <2>1 DEF TableNames, Tables
<1>3. \A t \in TableNames : Rank[t] \in 1..5 /\ Tables[Rank[t]] = t
  BY <1>2 DEF Rank, Tables
<1>4. \A n \in 1..5 : Tables[n] \in TableNames /\ Rank[Tables[n]] = n
  BY <1>2 DEF Rank, Tables
<1>5. \A t \in TableNames : t \notin Ended
  BY <1>2 DEF Ended
<1> QED BY <1>1, <1>2, <1>3, <1>4, <1>5

\* One more row at the end of a list of n.
LEMMA AppendRow ==
    ASSUME NEW n \in Nat, NEW s, s = [k \in 1..n |-> s[k]], NEW x
    PROVE  /\ Append(s, x) = [k \in 1..n + 1 |-> IF k = n + 1 THEN x ELSE s[k]]
           /\ Len(s) = n
<1> DEFINE S == {s[k] : k \in 1..n} \cup {x}
<1>1. s \in Seq(S) /\ x \in S /\ Len(s) = n
  <2>1. s \in [1..n -> S]
    OBVIOUS
  <2>2. s \in Seq(S)
    BY <2>1, IsASeq
  <2> QED BY <2>1, <2>2, LenProperties
<1> HIDE DEF S
<1>2. /\ Append(s, x) \in Seq(S)
      /\ Len(Append(s, x)) = n + 1
      /\ \A i \in 1..n : Append(s, x)[i] = s[i]
      /\ Append(s, x)[n + 1] = x
  BY <1>1, AppendProperties
<1>3. Append(s, x) = [k \in 1..n + 1 |-> Append(s, x)[k]]
  BY <1>2, LenProperties
<1> QED BY <1>1, <1>2, <1>3

\* The length of a section is a number.
LEMMA SectionLength ==
    ASSUME NEW d \in Docs, NEW t \in DOMAIN d
    PROVE  Len(d[t]) \in Nat /\ DOMAIN d[t] = 1..Len(d[t])
BY DocsAssumption, LenProperties

\* The rows of a table that has those of the first n definitions.
LEMMA RowsOfFirst ==
    ASSUME NEW t, NEW n, HasFirst(t, n), n \in Nat
    PROVE  /\ Len(db[t]) = n
           /\ \A k \in 1..n : db[t][k] = RowFor(t, doc[t][k])
           /\ db[t] = [k \in 1..n |-> db[t][k]]
<1>1. db[t] = [k \in 1..n |-> RowFor(t, doc[t][k])]
  BY DEF HasFirst
<1>2. db[t] = [k \in 1..n |-> db[t][k]]
  BY <1>1
<1>3. Len(db[t]) = n
  BY <1>2, AppendRow
<1> QED BY <1>1, <1>2, <1>3

-----------------------------------------------------------------------------
(* The invariant holds at first and is kept by every step.                 *)

\* There is no file at first.
LEMMA InitIInv == Init => IInv
<1> SUFFICES ASSUME Init PROVE IInv
  OBVIOUS
<1>1. /\ db = Nothing /\ doc = Nothing /\ pc = "none" /\ at = 0 /\ tid_model = Nothing
      /\ DOMAIN db = {} /\ DOMAIN tid_model = {}
  BY DEF Init, Nothing
<1>2. pc \notin TableNames
  BY <1>1, TableFacts
<1>3. TypeOK
  BY <1>1, <1>2 DEF TypeOK, Ended
<1>4. TablesInOrder
  <2>1. db = [t \in DOMAIN db |-> db[t]]
    BY <1>1 DEF Nothing
  <2> QED BY <1>1, <2>1 DEF TablesInOrder
<1>5. Progress /\ ModelsNoted /\ Unambiguous /\ PackagesFitTids
  BY <1>1, <1>2 DEF Progress, ModelsNoted, Unambiguous, PackagesFitTids, RowsIn
<1> QED BY <1>3, <1>4, <1>5 DEF IInv

\* What is stored stays sound while it stays.
LEMMA UnchangedStore ==
    ASSUME TablesInOrder, Unambiguous, PackagesFitTids, UNCHANGED <<db, doc>>
    PROVE  /\ TablesInOrder' /\ Unambiguous' /\ PackagesFitTids'
           /\ \A t : StoredWhole(t)' <=> StoredWhole(t)
           /\ \A t, n : HasFirst(t, n)' <=> HasFirst(t, n)
           /\ \A t : RowsIn(t)' = RowsIn(t)
<1>1. \A t, n : HasFirst(t, n)' <=> HasFirst(t, n)
  BY DEF HasFirst
<1>2. \A t : StoredWhole(t)' <=> StoredWhole(t)
  BY <1>1 DEF StoredWhole
<1>3. \A t : RowsIn(t)' = RowsIn(t)
  BY DEF RowsIn
<1>4. TablesInOrder'
  BY <1>1, <1>2 DEF TablesInOrder
<1>5. Unambiguous'
  BY DEF Unambiguous
<1>6. PackagesFitTids'
  BY <1>3 DEF PackagesFitTids
<1> QED BY <1>1, <1>2, <1>3, <1>4, <1>5, <1>6

\* A run ends, and what it has stored stays.
LEMMA StopIInv ==
    ASSUME IInv, UNCHANGED <<db, doc>>, pc' \in {"failed", "killed"}, at' \in Nat,
           tid_model' \in {tid_model, Nothing}
    PROVE  IInv'
<1>1. TablesInOrder' /\ Unambiguous' /\ PackagesFitTids' /\ RowsIn("package")' = RowsIn("package")
  BY UnchangedStore DEF IInv
<1>2. pc' \notin TableNames /\ pc' \in Ended /\ pc' # "finished" /\ pc' # "package"
  BY TableFacts DEF Ended
<1>3. TypeOK'
  <2>1. DOMAIN tid_model' \subseteq DOMAIN tid_model
    BY DEF Nothing
  <2> QED BY <1>1, <1>2, <2>1 DEF TypeOK, IInv
<1>4. Progress' /\ ModelsNoted'
  BY <1>2 DEF Progress, ModelsNoted
<1> QED BY <1>1, <1>3, <1>4 DEF IInv

\* A run begins with no table, or with the file as it was.
LEMMA BeginIInv == IInv /\ Begin => IInv'
<1> SUFFICES ASSUME IInv, Begin PROVE IInv'
  OBVIOUS
<1>1. CASE pc' = "failed" /\ UNCHANGED <<doc, db>>
  BY <1>1, StopIInv DEF Begin
<1>2. CASE pc' \in {Tables[1], "failed"} /\ doc' \in Docs /\ db' = Nothing
  <2>1. /\ db' = Nothing /\ doc' \in Docs /\ pc' \in {"type", "failed"} /\ at' = 0
        /\ tid_model' = Nothing /\ DOMAIN db' = {} /\ DOMAIN tid_model' = {}
    BY <1>2 DEF Begin, Nothing, Tables
  <2>2. /\ pc' = "type" \/ pc' \notin TableNames
        /\ pc' \in TableNames \cup Ended /\ pc' # "finished" /\ pc' # "package"
    BY <2>1, TableFacts DEF Ended
  <2>3. TypeOK'
    BY <2>1, <2>2 DEF TypeOK
  <2>4. TablesInOrder'
    <3>1. db' = [t \in DOMAIN db' |-> db'[t]]
      BY <2>1 DEF Nothing
    <3> QED BY <2>1, <3>1 DEF TablesInOrder
  <2>5. Progress'
    <3>1. \A s \in TableNames : ~(Rank[s] < Rank["type"])
      BY TableFacts DEF Rank
    <3> QED BY <2>1, <2>2, <3>1 DEF Progress
  <2>6. ModelsNoted' /\ Unambiguous' /\ PackagesFitTids'
    BY <2>1, <2>2 DEF ModelsNoted, Unambiguous, PackagesFitTids, RowsIn
  <2> QED BY <2>3, <2>4, <2>5, <2>6 DEF IInv
<1> QED BY <1>1, <1>2 DEF Begin

\* A run that fails or is killed leaves the tables as they are.
LEMMA ThrowIInv == IInv /\ (Throw \/ Killed) => IInv'
<1> SUFFICES ASSUME IInv, Throw \/ Killed PROVE IInv'
  OBVIOUS
<1>1. UNCHANGED <<db, doc, at, tid_model>> /\ pc' \in {"failed", "killed"}
  BY DEF Throw, Killed
<1> QED BY <1>1, StopIInv DEF IInv, TypeOK

\* The table after pc.
LEMMA TableAfter ==
    ASSUME NEW c \in TableNames, NEW n, n = CHOOSE m \in 1..Len(Tables) : Tables[m] = c
    PROVE  n = Rank[c]
<1>1. Rank[c] \in 1..Len(Tables) /\ Tables[Rank[c]] = c
  BY TableFacts
<1>2. n \in 1..Len(Tables) /\ Tables[n] = c
  BY <1>1
<1> QED BY <1>2, TableFacts

\* A table is left when all of its section is stored.
LEMMA NextTableIInv == IInv /\ NextTable => IInv'
<1> SUFFICES ASSUME IInv, NextTable PROVE IInv'
  OBVIOUS
<1>1. /\ pc \in TableNames /\ at > 0 /\ at = Len(doc[pc]) + 1 /\ at' = 0
      /\ UNCHANGED <<db, doc, tid_model>>
  BY DEF NextTable, Filling
<1>2. pc' = IF Rank[pc] = 5 THEN "finished" ELSE Tables[Rank[pc] + 1]
  <2> DEFINE n == CHOOSE m \in 1..Len(Tables) : Tables[m] = pc
  <2>1. pc' = IF n = Len(Tables) THEN "finished" ELSE Tables[n + 1]
    BY DEF NextTable
  <2>2. n = Rank[pc]
    BY <1>1, TableAfter
  <2> HIDE DEF n
  <2> QED BY <2>1, <2>2, TableFacts
<1>3. /\ TablesInOrder' /\ Unambiguous' /\ PackagesFitTids'
      /\ \A t : StoredWhole(t)' <=> StoredWhole(t)
      /\ RowsIn("package")' = RowsIn("package")
  BY <1>1, UnchangedStore DEF IInv
<1>4. /\ doc \in Docs
      /\ \A s \in TableNames : s \in DOMAIN db <=> Rank[s] <= Rank[pc]
      /\ \A s \in TableNames : Rank[s] <= Rank[pc] => StoredWhole(s)
  <2>1. /\ doc \in Docs
        /\ \A s \in TableNames : s \in DOMAIN db <=> Rank[s] < Rank[pc] \/ (s = pc /\ at > 0)
        /\ \A s \in TableNames : Rank[s] < Rank[pc] => StoredWhole(s)
        /\ HasFirst(pc, at - 1)
    BY <1>1 DEF IInv, Progress
  <2>2. StoredWhole(pc)
    <3>1. Len(doc[pc]) \in Nat
      BY <2>1, SectionLength DEF HasFirst
    <3> QED BY <1>1, <2>1, <3>1 DEF StoredWhole
  <2>3. \A s \in TableNames : Rank[s] = Rank[pc] => s = pc
    BY <1>1, TableFacts
  <2> QED BY <1>1, <2>1, <2>2, <2>3, TableFacts
<1>5. CASE Rank[pc] = 5
  <2>1. pc' = "finished" /\ pc' \notin TableNames /\ pc' \in Ended
    BY <1>2, <1>5, TableFacts DEF Ended
  <2>2. Progress'
    BY <1>3, <1>4, <1>5, <2>1, TableFacts DEF Progress
  <2>3. TypeOK' /\ ModelsNoted'
    BY <1>1, <1>3, <2>1 DEF TypeOK, ModelsNoted, IInv
  <2> QED BY <1>3, <2>2, <2>3 DEF IInv
<1>6. CASE Rank[pc] # 5
  <2>1. pc' \in TableNames /\ pc' \notin Ended /\ Rank[pc'] = Rank[pc] + 1
    BY <1>1, <1>2, <1>6, TableFacts
  <2>2. Progress'
    <3>1. \A s \in TableNames : Rank[s] < Rank[pc'] <=> Rank[s] <= Rank[pc]
      BY <1>1, <2>1, TableFacts
    <3>2. pc' # "finished"
      BY <2>1 DEF Ended
    <3> QED BY <1>1, <1>3, <1>4, <2>1, <3>1, <3>2 DEF Progress
  <2>3. TypeOK'
    BY <1>1, <1>3, <2>1 DEF TypeOK, IInv
  <2>4. ModelsNoted'
    <3>1. CASE pc' = "package"
      <4>1. ~(Rank["package"] <= Rank[pc]) /\ "package" \in TableNames
        BY <1>1, <2>1, <3>1, TableFacts
      <4>2. RowsIn("package") = {}
        BY <1>4, <4>1 DEF RowsIn
      <4> QED BY <1>3, <4>2 DEF ModelsNoted
    <3> QED BY <3>1 DEF ModelsNoted
  <2> QED BY <1>3, <2>2, <2>3, <2>4 DEF IInv
<1> QED BY <1>5, <1>6

\* A new table is empty, and the last of the ones there are.
LEMMA CreateIInv == IInv /\ CreateTable => IInv'
<1> SUFFICES ASSUME IInv, CreateTable PROVE IInv'
  OBVIOUS
<1> PICK c : c = pc
  OBVIOUS
<1>1. /\ c \in TableNames /\ at = 0
      /\ db' = [t \in DOMAIN db \cup {c} |-> IF t = c THEN <<>> ELSE db[t]]
      /\ UNCHANGED <<doc, tid_model>>
      /\ \/ c \in DOMAIN doc /\ at' = 1 /\ pc' = c
         \/ c \notin DOMAIN doc /\ pc' = "failed" /\ at' = 0
  BY DEF CreateTable, Filling
<1>2. /\ DOMAIN db' = DOMAIN db \cup {c} /\ db'[c] = <<>>
      /\ \A t \in DOMAIN db : t # c => db'[t] = db[t]
      /\ db' = [t \in DOMAIN db' |-> db'[t]]
  BY <1>1
<1>3. /\ doc \in Docs /\ c \notin DOMAIN db
      /\ \A s \in TableNames : s \in DOMAIN db <=> Rank[s] < Rank[c]
      /\ \A s \in TableNames : Rank[s] < Rank[c] => StoredWhole(s)
  <2>1. ~(Rank[c] < Rank[c]) /\ ~(at > 0)
    BY <1>1, TableFacts
  <2> QED BY <1>1, <2>1 DEF IInv, Progress
<1>4. /\ \A t \in DOMAIN db : \A n : HasFirst(t, n) => HasFirst(t, n)'
      /\ \A t \in DOMAIN db : StoredWhole(t) => StoredWhole(t)'
  <2>1. \A t \in DOMAIN db : db'[t] = db[t] /\ t \in DOMAIN db'
    BY <1>2, <1>3
  <2>2. \A t \in DOMAIN db : \A n : HasFirst(t, n) => HasFirst(t, n)'
    BY <1>1, <2>1 DEF HasFirst
  <2> QED BY <1>1, <2>1, <2>2 DEF StoredWhole
<1>5. \A t : RowsIn(t)' = RowsIn(t)
  <2> SUFFICES ASSUME NEW t PROVE RowsIn(t)' = RowsIn(t)
    OBVIOUS
  <2>1. CASE t = c
    <3>1. {db'[t][n] : n \in 1..Len(db'[t])} = {}
      BY <1>2, <2>1
    <3> QED BY <1>2, <1>3, <2>1, <3>1 DEF RowsIn
  <2>2. CASE t # c
    BY <1>2, <2>2 DEF RowsIn
  <2> QED BY <2>1, <2>2
<1>6. c \in DOMAIN doc => HasFirst(c, 0)' /\ Len(doc[c]) \in Nat
  <2> SUFFICES ASSUME c \in DOMAIN doc PROVE HasFirst(c, 0)' /\ Len(doc[c]) \in Nat
    OBVIOUS
  <2>1. Len(doc[c]) \in Nat
    BY <1>3, SectionLength
  <2>2. db'[c] = [k \in 1..0 |-> RowFor(c, doc[c][k])]
    BY <1>2
  <2> QED BY <1>1, <2>1, <2>2 DEF HasFirst
<1>7. TablesInOrder'
  <2>1. ASSUME NEW t \in DOMAIN db'
        PROVE  /\ t \in TableNames
               /\ doc' \in Docs
               /\ \A s \in TableNames : Rank[s] < Rank[t] => StoredWhole(s)'
               /\ t \notin DOMAIN doc' => db'[t] = <<>>
               /\ t \in DOMAIN doc' => \E n \in 0..Len(doc'[t]) : HasFirst(t, n)'
    <3>1. CASE t = c
      <4>1. \A s \in TableNames : Rank[s] < Rank[t] => StoredWhole(s)'
        BY <1>3, <1>4, <3>1 DEF StoredWhole
      <4>2. t \in DOMAIN doc' => \E n \in 0..Len(doc'[t]) : HasFirst(t, n)'
        BY <1>1, <1>6, <3>1
      <4> QED BY <1>1, <1>2, <1>3, <3>1, <4>1, <4>2
    <3>2. CASE t \in DOMAIN db
      <4>1. /\ t \in TableNames
            /\ \A s \in TableNames : Rank[s] < Rank[t] => StoredWhole(s)
            /\ t \notin DOMAIN doc => db[t] = <<>>
            /\ t \in DOMAIN doc => \E n \in 0..Len(doc[t]) : HasFirst(t, n)
        BY <3>2 DEF IInv, TablesInOrder
      <4>2. \A s \in TableNames : Rank[s] < Rank[t] => StoredWhole(s)'
        BY <1>4, <4>1 DEF StoredWhole
      <4>3. t \in DOMAIN doc' => \E n \in 0..Len(doc'[t]) : HasFirst(t, n)'
        BY <1>1, <1>4, <3>2, <4>1
      <4> QED BY <1>1, <1>2, <1>3, <3>2, <4>1, <4>2, <4>3
    <3> QED BY <1>2, <3>1, <3>2
  <2> QED BY <1>2, <2>1 DEF TablesInOrder
<1>8. Unambiguous'
  <2>1. Len(db'[c]) = 0
    BY <1>2
  <2>2. \A t \in DOMAIN db' : t = c \/ (t \in DOMAIN db /\ db'[t] = db[t])
    BY <1>2
  <2> QED BY <2>1, <2>2 DEF IInv, Unambiguous
<1>9. PackagesFitTids'
  BY <1>5 DEF IInv, PackagesFitTids
<1>10. CASE c \in DOMAIN doc
  <2>1. at' = 1 /\ pc' = c
    BY <1>1, <1>10
  <2>2. TypeOK'
    BY <1>1, <1>2, <1>5, <1>6, <1>10, <2>1 DEF IInv, TypeOK
  <2>3. Progress'
    <3>1. \A s \in TableNames : s \in DOMAIN db' <=> Rank[s] < Rank[c] \/ s = c
      BY <1>2, <1>3
    <3>2. \A s \in TableNames : Rank[s] < Rank[c] => StoredWhole(s)'
      BY <1>3, <1>4 DEF StoredWhole
    <3>3. c # "finished"
      BY <1>1, TableFacts
    <3>4. HasFirst(c, at - 1)'
      BY <1>6, <1>10, <2>1 DEF HasFirst
    <3> QED BY <1>1, <1>3, <2>1, <3>1, <3>2, <3>3, <3>4 DEF Progress, HasFirst
  <2>4. ModelsNoted'
    <3>1. c = "package" => RowsIn("package") = {}
      BY <1>3 DEF RowsIn
    <3> QED BY <1>5, <2>1, <3>1 DEF ModelsNoted
  <2> QED BY <1>7, <1>8, <1>9, <2>2, <2>3, <2>4 DEF IInv
<1>11. CASE c \notin DOMAIN doc
  <2>1. at' = 0 /\ pc' = "failed" /\ pc' \notin TableNames
    BY <1>1, <1>11, TableFacts
  <2>2. TypeOK'
    BY <1>1, <1>2, <1>5, <2>1 DEF IInv, TypeOK, Ended
  <2>3. Progress' /\ ModelsNoted'
    BY <2>1 DEF Progress, ModelsNoted
  <2> QED BY <1>7, <1>8, <1>9, <2>2, <2>3 DEF IInv
<1> QED BY <1>10, <1>11

\* What an INSERT does: table c gets the row r of definition number a.
Inserted(c, a, r) ==
    /\ c = pc /\ a = at /\ r = RowFor(c, doc[c][a])
    /\ c \in TableNames /\ c \in DOMAIN db /\ doc \in Docs
    /\ a \in 1..Len(doc[c]) /\ HasFirst(c, a - 1)
    /\ DOMAIN db' = DOMAIN db /\ db' = [t \in DOMAIN db' |-> db'[t]]
    /\ \A t \in DOMAIN db : t # c => db'[t] = db[t]
    /\ Len(db[c]) = a - 1 /\ Len(db'[c]) = a
    /\ \A k \in 1..a - 1 : db'[c][k] = db[c][k]
    /\ db'[c][a] = r
    /\ \A n : HasFirst(c, n)' <=> n = a
    /\ MayInsert(c, doc[c][a])
    /\ pc' = c /\ at' = a + 1 /\ doc' = doc

\* What an INSERT does.
LEMMA InsertEffect ==
    ASSUME IInv, Insert
    PROVE  \E c, a, r : Inserted(c, a, r)
<1> PICK c, a, r : c = pc /\ a = at /\ r = RowFor(c, doc[c][a])
  OBVIOUS
<1>1. /\ c \in TableNames /\ a > 0 /\ a <= Len(doc[c])
      /\ MayInsert(c, doc[c][a])
      /\ db' = [db EXCEPT ![c] = Append(@, r)]
      /\ pc' = c /\ at' = a + 1 /\ doc' = doc
  BY DEF Insert, AtDefinition, Filling
<1>2. doc \in Docs /\ c \in DOMAIN db /\ HasFirst(c, a - 1) /\ c \in DOMAIN doc
  BY <1>1 DEF IInv, Progress, HasFirst
<1>3. Len(doc[c]) \in Nat /\ a \in 1..Len(doc[c]) /\ a - 1 \in Nat
  <2>1. a \in Nat
    BY DEF IInv, TypeOK
  <2>2. Len(doc[c]) \in Nat
    BY <1>2, SectionLength
  <2> QED BY <1>1, <2>1, <2>2
<1>4. /\ Len(db[c]) = a - 1
      /\ \A k \in 1..a - 1 : db[c][k] = RowFor(c, doc[c][k])
      /\ db[c] = [k \in 1..a - 1 |-> db[c][k]]
  <2> DEFINE n == a - 1
  <2>1. HasFirst(c, n) /\ n \in Nat
    BY <1>2, <1>3
  <2> HIDE DEF n
  <2>2. /\ Len(db[c]) = n
        /\ \A k \in 1..n : db[c][k] = RowFor(c, doc[c][k])
        /\ db[c] = [k \in 1..n |-> db[c][k]]
    BY <2>1, RowsOfFirst
  <2> QED BY <2>2 DEF n
<1>5. Append(db[c], r) = [k \in 1..a |-> IF k = a THEN r ELSE db[c][k]]
  <2>1. (a - 1) + 1 = a
    BY <1>3
  <2> QED BY <1>3, <1>4, <2>1, AppendRow
<1>6. /\ DOMAIN db' = DOMAIN db /\ db' = [t \in DOMAIN db' |-> db'[t]]
      /\ \A t \in DOMAIN db : t # c => db'[t] = db[t]
      /\ db'[c] = [k \in 1..a |-> IF k = a THEN r ELSE db[c][k]]
  <2>1. db = [t \in DOMAIN db |-> db[t]]
    BY DEF IInv, TablesInOrder
  <2> QED BY <1>1, <1>2, <1>5, <2>1
<1>7. db'[c] = [k \in 1..a |-> RowFor(c, doc[c][k])]
  BY <1>3, <1>4, <1>6
<1>8. Len(db'[c]) = a /\ \A k \in 1..a - 1 : db'[c][k] = db[c][k]
  <2>1. db'[c] = [k \in 1..a |-> db'[c][k]]
    BY <1>7
  <2>2. Len(db'[c]) = a
    BY <1>3, <2>1, AppendRow
  <2> QED BY <1>3, <1>6, <2>2
<1>9. \A n : HasFirst(c, n)' <=> n = a
  <2>1. HasFirst(c, a)'
    <3>1. \A k \in 1..a : doc[c][k].complete
      BY <1>1, <1>2, <1>3 DEF HasFirst, MayInsert
    <3> QED BY <1>1, <1>2, <1>3, <1>7, <3>1 DEF HasFirst
  <2>2. ASSUME NEW n, HasFirst(c, n)' PROVE n = a
    <3>1. n \in Nat /\ db'[c] = [k \in 1..n |-> RowFor(c, doc[c][k])]
      BY <1>1, <1>3, <2>2 DEF HasFirst
    <3>2. db'[c] = [k \in 1..n |-> db'[c][k]]
      BY <3>1
    <3> QED BY <1>8, <3>1, <3>2, AppendRow
  <2> QED BY <2>1, <2>2
<1>10. db'[c][a] = r
  BY <1>3, <1>6
<1>11. Inserted(c, a, r)
  BY <1>1, <1>2, <1>3, <1>4, <1>6, <1>8, <1>9, <1>10 DEF Inserted
<1> QED BY <1>11

\* Row n of a table has its own name and numbers.
Differ(t, q, r) ==
    /\ q.name # r.name
    /\ t = "field" => q.fidvalue # r.fidvalue
    /\ t = "tid" => q.value # r.value

\* A row that sqlite takes differs from those that are there.
LEMMA AcceptedDiffers ==
    ASSUME NEW t \in TableNames \ {"type"}, NEW r, Accepts(t, r), NEW q \in RowsIn(t)
    PROVE  Differ(t, q, r)
<1>1. \A c \in UniqueColumns(t) : q[c] # r[c]
  BY DEF Accepts
<1>2. "name" \in UniqueColumns(t)
  BY TableFacts DEF UniqueColumns
<1>3. t = "field" => "fidvalue" \in UniqueColumns(t)
  BY DEF UniqueColumns
<1>4. t = "tid" => "value" \in UniqueColumns(t)
  BY DEF UniqueColumns
<1> QED BY <1>1, <1>2, <1>3, <1>4 DEF Differ

\* An accepted row clashes with none and is the next of its section.
LEMMA InsertIInv == IInv /\ Insert => IInv'
<1> SUFFICES ASSUME IInv, Insert PROVE IInv'
  OBVIOUS
<1> PICK c, a, r : Inserted(c, a, r)
  BY InsertEffect
<1> DEFINE d == doc[c][a]
<1>1. /\ c = pc /\ a = at /\ r = RowFor(c, d)
      /\ c \in TableNames /\ c \in DOMAIN db /\ doc \in Docs
      /\ a \in 1..Len(doc[c]) /\ HasFirst(c, a - 1)
      /\ pc' = c /\ at' = a + 1 /\ doc' = doc
      /\ Len(doc[c]) \in Nat
  BY SectionLength DEF Inserted, HasFirst
<1>2. /\ DOMAIN db' = DOMAIN db /\ db' = [t \in DOMAIN db' |-> db'[t]]
      /\ \A t \in DOMAIN db : t # c => db'[t] = db[t]
      /\ Len(db[c]) = a - 1 /\ Len(db'[c]) = a
      /\ \A k \in 1..a - 1 : db'[c][k] = db[c][k]
      /\ db'[c][a] = r
  BY DEF Inserted
<1>3. \A n : HasFirst(c, n)' <=> n = a
  BY DEF Inserted
<1>4. Accepts(c, r) /\ (c = "package" => PackageChecks(d))
  BY <1>1 DEF Inserted, MayInsert
<1>5. /\ \A t \in DOMAIN db : t # c => \A n : HasFirst(t, n) => HasFirst(t, n)'
      /\ \A t \in DOMAIN db : t # c => (StoredWhole(t) => StoredWhole(t)')
  <2>1. \A t \in DOMAIN db : t # c => \A n : HasFirst(t, n) => HasFirst(t, n)'
    BY <1>1, <1>2 DEF HasFirst
  <2> QED BY <1>1, <1>2, <2>1 DEF StoredWhole
<1>6. RowsIn(c)' = RowsIn(c) \cup {r} /\ \A t : t # c => RowsIn(t)' = RowsIn(t)
  <2>1. RowsIn(c) = {db[c][n] : n \in 1..a - 1} /\ RowsIn(c)' = {db'[c][n] : n \in 1..a}
    BY <1>1, <1>2 DEF RowsIn
  <2>2. {db'[c][n] : n \in 1..a} = {db[c][n] : n \in 1..a - 1} \cup {r}
    <3>1. \A n \in 1..a : n \in 1..a - 1 \/ n = a
      BY <1>1
    <3>2. \A n \in 1..a - 1 : n \in 1..a
      BY <1>1
    <3>3. a \in 1..a
      BY <1>1
    <3>4. ASSUME NEW x, x \in {db'[c][n] : n \in 1..a}
          PROVE  x \in {db[c][n] : n \in 1..a - 1} \cup {r}
      <4>1. PICK n \in 1..a : x = db'[c][n]
        BY <3>4
      <4> QED BY <1>2, <3>1, <4>1
    <3>5. ASSUME NEW x, x \in {db[c][n] : n \in 1..a - 1} \cup {r}
          PROVE  x \in {db'[c][n] : n \in 1..a}
      <4>1. CASE x = r
        BY <1>2, <3>3, <4>1
      <4>2. CASE x \in {db[c][n] : n \in 1..a - 1}
        BY <1>2, <3>2, <4>2
      <4> QED BY <3>5, <4>1, <4>2
    <3> QED BY <3>4, <3>5
  <2>3. \A t : t # c => RowsIn(t)' = RowsIn(t)
    BY <1>2 DEF RowsIn
  <2> QED BY <2>1, <2>2, <2>3
<1>7. /\ \A s \in TableNames : s \in DOMAIN db <=> Rank[s] <= Rank[c]
      /\ \A s \in TableNames : Rank[s] < Rank[c] => StoredWhole(s)
  <2>1. /\ \A s \in TableNames : s \in DOMAIN db <=> Rank[s] < Rank[c] \/ s = c
        /\ \A s \in TableNames : Rank[s] < Rank[c] => StoredWhole(s)
    BY <1>1 DEF IInv, Progress
  <2>2. \A s \in TableNames : Rank[s] = Rank[c] => s = c
    BY <1>1, TableFacts
  <2> QED BY <1>1, <2>1, <2>2, TableFacts
<1>8. TablesInOrder'
  <2>1. ASSUME NEW t \in DOMAIN db'
        PROVE  /\ t \in TableNames
               /\ doc' \in Docs
               /\ \A s \in TableNames : Rank[s] < Rank[t] => StoredWhole(s)'
               /\ t \notin DOMAIN doc' => db'[t] = <<>>
               /\ t \in DOMAIN doc' => \E n \in 0..Len(doc'[t]) : HasFirst(t, n)'
    <3>1. /\ t \in TableNames /\ t \in DOMAIN db
          /\ t \notin DOMAIN doc => db[t] = <<>>
          /\ t \in DOMAIN doc => \E n \in 0..Len(doc[t]) : HasFirst(t, n)
      BY <1>2 DEF IInv, TablesInOrder
    <3>2. \A s \in TableNames : Rank[s] < Rank[t] => StoredWhole(s)'
      <4>1. ASSUME NEW s \in TableNames, Rank[s] < Rank[t] PROVE Rank[s] < Rank[c]
        BY <1>1, <1>7, <3>1, <4>1, TableFacts
      <4>2. \A s \in TableNames : Rank[s] < Rank[c] => StoredWhole(s) /\ s # c /\ s \in DOMAIN db
        BY <1>1, <1>7, TableFacts DEF StoredWhole
      <4> QED BY <1>5, <4>1, <4>2
    <3>3. CASE t = c
      <4>1. c \in DOMAIN doc /\ HasFirst(c, a)' /\ a \in 0..Len(doc[c])
        BY <1>1, <1>3 DEF HasFirst
      <4> QED BY <1>1, <3>1, <3>2, <3>3, <4>1
    <3>4. CASE t # c
      <4>1. t \in DOMAIN doc' => \E n \in 0..Len(doc'[t]) : HasFirst(t, n)'
        BY <1>1, <1>5, <3>1, <3>4
      <4> QED BY <1>1, <1>2, <3>1, <3>2, <3>4, <4>1
    <3> QED BY <3>3, <3>4
  <2> QED BY <1>2, <2>1 DEF TablesInOrder
<1>9. Progress'
  <2>1. \A s \in TableNames : s \in DOMAIN db' <=> Rank[s] < Rank[c] \/ s = c
    BY <1>1, <1>2 DEF IInv, Progress
  <2>2. \A s \in TableNames : Rank[s] < Rank[c] => StoredWhole(s)'
    <3>1. \A s \in TableNames : Rank[s] < Rank[c] => StoredWhole(s) /\ s # c /\ s \in DOMAIN db
      BY <1>1, <1>7, TableFacts DEF StoredWhole
    <3> QED BY <1>5, <3>1
  <2>3. c # "finished"
    BY <1>1, TableFacts DEF Ended
  <2>4. at' - 1 = a /\ at' > 0
    BY <1>1
  <2>5. HasFirst(c, at - 1)'
    <3>1. HasFirst(c, a)'
      BY <1>3
    <3> QED BY <2>4, <3>1 DEF HasFirst
  <2> QED BY <1>1, <2>1, <2>2, <2>3, <2>4, <2>5 DEF Progress, HasFirst
<1>10. Unambiguous'
  <2> SUFFICES ASSUME NEW t \in DOMAIN db' \ {"type"}, NEW n \in 1..Len(db'[t]),
                      NEW m \in 1..Len(db'[t]), n # m
               PROVE  Differ(t, db'[t][n], db'[t][m])
    BY DEF Unambiguous, Differ
  <2>1. CASE t # c
    BY <1>2, <2>1 DEF IInv, Unambiguous, Differ
  <2>2. CASE t = c
    <3>1. n \in 1..a /\ m \in 1..a
      BY <1>2, <2>2
    <3>2. CASE n # a /\ m # a
      <4>1. n \in 1..a - 1 /\ m \in 1..a - 1
        BY <1>1, <3>1, <3>2
      <4> QED BY <1>1, <1>2, <2>2, <4>1 DEF IInv, Unambiguous, Differ
    <3>3. ASSUME NEW k \in 1..a, k # a PROVE Differ(t, db'[t][k], r) /\ Differ(t, r, db'[t][k])
      <4>1. k \in 1..Len(db[c]) /\ db'[t][k] = db[c][k]
        BY <1>1, <1>2, <2>2, <3>3
      <4>2. db[c][k] \in RowsIn(c)
        BY <1>1, <4>1 DEF RowsIn
      <4>3. Differ(c, db[c][k], r)
        BY <1>1, <1>4, <2>2, <4>2, AcceptedDiffers
      <4> QED BY <2>2, <4>1, <4>3 DEF Differ
    <3> QED BY <1>2, <2>2, <3>1, <3>2, <3>3
  <2> QED BY <2>1, <2>2
<1>11. CASE c # "package"
  <2>1. tid_model' = tid_model
    BY <1>1, <1>11 DEF Insert
  <2>2. "package" \notin DOMAIN db /\ RowsIn("package") = {} /\ RowsIn("package")' = {}
    <3>1. ~(Rank["package"] <= Rank[c]) /\ "package" \in TableNames
      BY <1>1, <1>11, TableFacts DEF Rank
    <3>2. "package" \notin DOMAIN db
      BY <1>7, <3>1
    <3> QED BY <1>2, <3>2 DEF RowsIn
  <2>3. TypeOK'
    BY <1>1, <1>2, <2>1, <2>2 DEF IInv, TypeOK
  <2>4. ModelsNoted' /\ PackagesFitTids'
    BY <1>1, <1>11, <2>2 DEF ModelsNoted, PackagesFitTids
  <2> QED BY <1>8, <1>9, <1>10, <2>3, <2>4 DEF IInv
<1>12. CASE c = "package"
  <2>1. tid_model' = IF d.tid \in DOMAIN tid_model THEN tid_model
                     ELSE [t \in DOMAIN tid_model \cup {d.tid} |->
                              IF t = d.tid THEN d.model ELSE tid_model[t]]
    BY <1>1, <1>12 DEF Insert
  <2>2. r.tid = d.tid /\ r.model = d.model
    BY <1>1, <1>12 DEF RowFor
  <2> HIDE DEF d
  <2>3. d.tid \in DOMAIN tid_model => tid_model[d.tid] = d.model
    BY <1>4, <1>12 DEF PackageChecks
  <2>4. /\ DOMAIN tid_model' = DOMAIN tid_model \cup {d.tid}
        /\ tid_model'[d.tid] = d.model
        /\ \A x \in DOMAIN tid_model : tid_model'[x] = tid_model[x]
    <3>1. CASE d.tid \in DOMAIN tid_model
      BY <2>1, <2>3, <3>1
    <3>2. CASE d.tid \notin DOMAIN tid_model
      BY <2>1, <3>2
    <3> QED BY <3>1, <3>2
  <2>5. RowsIn("package")' = RowsIn("package") \cup {r} /\ RowsIn("tid")' = RowsIn("tid")
    BY <1>6, <1>12
  <2>6. TypeOK'
    <3>1. DOMAIN tid_model \subseteq {p.tid : p \in RowsIn("package")}
      BY DEF IInv, TypeOK
    <3>2. DOMAIN tid_model' \subseteq {p.tid : p \in RowsIn("package")'}
      BY <2>2, <2>4, <2>5, <3>1
    <3> QED BY <1>1, <1>2, <3>2 DEF IInv, TypeOK
  <2>7. \A p \in RowsIn("package")' : p.tid \in DOMAIN tid_model' /\ tid_model'[p.tid] = p.model
    <3>1. \A p \in RowsIn("package") : p.tid \in DOMAIN tid_model /\ tid_model[p.tid] = p.model
      BY <1>1, <1>12 DEF IInv, ModelsNoted
    <3> QED BY <2>2, <2>4, <2>5, <3>1
  <2>8. PackagesFitTids'
    <3>1. \E q \in RowsIn("tid") : q.name = r.tid
      BY <1>4, <1>12 DEF Accepts
    <3>2. \A p \in RowsIn("package") : \E q \in RowsIn("tid") : q.name = p.tid
      BY DEF IInv, PackagesFitTids
    <3> QED BY <2>5, <2>7, <3>1, <3>2 DEF PackagesFitTids
  <2> QED BY <1>8, <1>9, <1>10, <2>6, <2>7, <2>8 DEF IInv, ModelsNoted
<1> QED BY <1>11, <1>12

\* Every step keeps the invariant.
LEMMA NextIInv == IInv /\ [Next]_vars => IInv'
<1> SUFFICES ASSUME IInv, [Next]_vars PROVE IInv'
  OBVIOUS
<1>1. CASE UNCHANGED vars
  <2>1. /\ TablesInOrder' /\ Unambiguous' /\ PackagesFitTids' /\ RowsIn("package")' = RowsIn("package")
        /\ \A t : StoredWhole(t)' <=> StoredWhole(t)
        /\ \A t, n : HasFirst(t, n)' <=> HasFirst(t, n)
    BY <1>1, UnchangedStore DEF IInv, vars
  <2> USE <1>1 DEF vars
  <2>2. TypeOK'
    BY <2>1 DEF IInv, TypeOK
  <2>3. Progress'
    BY DEF IInv, Progress, StoredWhole, HasFirst
  <2>4. ModelsNoted'
    BY <2>1 DEF IInv, ModelsNoted
  <2> QED BY <2>1, <2>2, <2>3, <2>4 DEF IInv
<1> QED BY <1>1, BeginIInv, CreateIInv, InsertIInv, ThrowIInv, NextTableIInv DEF Next

-----------------------------------------------------------------------------
(* Numbers.                                                                *)

\* Min of two numbers.
LEMMA LeastOfTwo ==
    ASSUME NEW x \in Nat, NEW y \in Nat
    PROVE  Min({x, y}) = IF x < y THEN x ELSE y
<1>1. \E z \in {x, y} : \A w \in {x, y} : z <= w
  <2>1. CASE x < y
    BY <2>1
  <2>2. CASE ~(x < y)
    BY <2>2
  <2> QED BY <2>1, <2>2
<1>2. Min({x, y}) \in {x, y} /\ \A w \in {x, y} : Min({x, y}) <= w
  BY <1>1 DEF Min
<1> HIDE DEF Min
<1> QED BY <1>2

\* The recursions of Denotes and NumberOf have a solution.
LEMMA WeightExists ==
    ASSUME NEW N \in Nat, NEW b \in Nat
    PROVE  \E f : f = [k \in 0..N |-> IF k = 0 THEN 1 ELSE f[k - 1] * b]
<1> DEFINE g == [n \in 1..N |-> [v \in Nat |-> v * b]]
<1>1. g \in [1..N -> [Nat -> Nat]] /\ \A n \in 1..N, v \in Nat : g[n][v] = v * b
  OBVIOUS
<1> HIDE DEF g
<1>2. PICK f : f \in [0..N -> Nat] /\ f[0] = 1 /\ \A n \in 1..N : f[n] = g[n][f[n - 1]]
  <2>1. IsLoop(N, Nat, 1, g)
    BY <1>1 DEF IsLoop
  <2>2. PICK f : StatesOf(f, N, Nat, 1, g)
    BY <2>1, LoopFunction
  <2> QED BY <2>2 DEF StatesOf
<1>3. \A k \in 0..N : f[k] = IF k = 0 THEN 1 ELSE f[k - 1] * b
  <2> TAKE k \in 0..N
  <2>1. CASE k # 0
    <3>1. k \in 1..N /\ f[k - 1] \in Nat
      BY <1>2, <2>1
    <3> QED BY <1>1, <1>2, <2>1, <3>1
  <2> QED BY <1>2, <2>1
<1>4. f = [k \in 0..N |-> IF k = 0 THEN 1 ELSE f[k - 1] * b]
  BY <1>2, <1>3
<1> QED BY <1>4

\* A sum over a list has its function.
LEMMA SumExists ==
    ASSUME NEW N \in Nat, NEW x \in [1..N -> Nat]
    PROVE  \E f : f = [n \in 0..N |-> IF n = 0 THEN 0 ELSE f[n - 1] + x[n]]
<1> DEFINE g == [n \in 1..N |-> [v \in Nat |-> v + x[n]]]
<1>1. g \in [1..N -> [Nat -> Nat]] /\ \A n \in 1..N, v \in Nat : g[n][v] = v + x[n]
  OBVIOUS
<1> HIDE DEF g
<1>2. PICK f : f \in [0..N -> Nat] /\ f[0] = 0 /\ \A n \in 1..N : f[n] = g[n][f[n - 1]]
  <2>1. IsLoop(N, Nat, 0, g)
    BY <1>1 DEF IsLoop
  <2>2. PICK f : StatesOf(f, N, Nat, 0, g)
    BY <2>1, LoopFunction
  <2> QED BY <2>2 DEF StatesOf
<1>3. \A k \in 0..N : f[k] = IF k = 0 THEN 0 ELSE f[k - 1] + x[k]
  <2> TAKE k \in 0..N
  <2>1. CASE k # 0
    <3>1. k \in 1..N /\ f[k - 1] \in Nat
      BY <1>2, <2>1
    <3> QED BY <1>1, <1>2, <2>1, <3>1
  <2> QED BY <1>2, <2>1
<1>4. f = [k \in 0..N |-> IF k = 0 THEN 0 ELSE f[k - 1] + x[k]]
  BY <1>2, <1>3
<1> QED BY <1>4

\* The loop of NumberOf has its function.
LEMMA ValueExists ==
    ASSUME NEW N \in Nat, NEW b \in Nat, NEW x, \A n \in 1..N : x[n] \in Nat
    PROVE  \E f : f = [n \in 0..N |-> IF n = 0 THEN 0 ELSE Min({IntMax, f[n - 1] * b + x[n]})]
<1> DEFINE M(n, v) == Min({IntMax, v * b + x[n]})
           g == [n \in 1..N |-> [v \in Nat |-> M(n, v)]]
<1>1. \A n \in 1..N, v \in Nat : M(n, v) \in Nat
  <2> TAKE n \in 1..N, v \in Nat
  <2>1. v * b + x[n] \in Nat
    OBVIOUS
  <2> QED BY <2>1, IntMaxAssumption, LeastOfTwo
<1> HIDE DEF M
<1>2. g \in [1..N -> [Nat -> Nat]] /\ \A n \in 1..N, v \in Nat : g[n][v] = M(n, v)
  BY <1>1
<1> HIDE DEF g
<1>3. PICK f : f \in [0..N -> Nat] /\ f[0] = 0 /\ \A n \in 1..N : f[n] = g[n][f[n - 1]]
  <2>1. IsLoop(N, Nat, 0, g)
    BY <1>2 DEF IsLoop
  <2>2. PICK f : StatesOf(f, N, Nat, 0, g)
    BY <2>1, LoopFunction
  <2> QED BY <2>2 DEF StatesOf
<1>4. \A k \in 0..N : f[k] = IF k = 0 THEN 0 ELSE M(k, f[k - 1])
  <2> TAKE k \in 0..N
  <2>1. CASE k # 0
    <3>1. k \in 1..N /\ f[k - 1] \in Nat
      BY <1>3, <2>1
    <3> QED BY <1>2, <1>3, <2>1, <3>1
  <2> QED BY <1>3, <2>1
<1>5. f = [k \in 0..N |-> IF k = 0 THEN 0 ELSE M(k, f[k - 1])]
  BY <1>3, <1>4
<1> QED BY <1>5 DEF M

\* The stream's digit by digit reading of a text, which stops at the largest
\* int, gives the number the text denotes if that is an int.
LEMMA NumberDenotes ==
    ASSUME NEW text, text.digits \in Seq(Nat), IsInt(text)
    PROVE  NumberOf(text) = Denotes(text)
<1> DEFINE digits == text.digits
           len == Len(digits)
           b == Base(text)
           Weight(f) == f = [k \in 0..len |-> IF k = 0 THEN 1 ELSE f[k - 1] * b]
           weight == CHOOSE f : Weight(f)
           Sum(f) == f = [n \in 0..len |-> IF n = 0 THEN 0 ELSE f[n - 1] + digits[n] * weight[len - n]]
           sum == CHOOSE f : Sum(f)
           Value(f) == f = [n \in 0..len |-> IF n = 0 THEN 0
                                             ELSE Min({IntMax, f[n - 1] * b + digits[n]})]
           value == CHOOSE f : Value(f)
<1>1. Denotes(text) = sum[len]
  BY DEF Denotes
<1>2. NumberOf(text) = value[Taken(text)]
  BY DEF NumberOf
<1>3. b \in Nat /\ b >= 1 /\ len \in Nat /\ \A n \in 1..len : digits[n] \in Nat
  BY LenProperties, ElementOfSeq DEF Base
<1>4. Taken(text) = len /\ Denotes(text) <= IntMax
  BY DEF IsInt
<1> HIDE DEF b, digits, len
<1>5. /\ weight[0] = 1
      /\ \A k \in 1..len : weight[k] = weight[k - 1] * b
      /\ \A k \in 0..len : weight[k] \in Nat /\ weight[k] >= 1
  <2>1. Weight(weight)
    BY <1>3, WeightExists
  <2> HIDE DEF weight
  <2>2. weight[0] = 1 /\ \A k \in 1..len : weight[k] = weight[k - 1] * b
    BY <1>3, <2>1
  <2>3. \A k \in 1..len : weight[k - 1] \in Nat \ {0} => weight[k] \in Nat \ {0}
    BY <1>3, <2>2
  <2>4. \A k \in 0..len : weight[k] \in Nat \ {0}
    <3> HIDE DEF Weight
    <3>1. weight[0] \in Nat \ {0}
      BY <2>2
    <3> QED BY <1>3, <2>3, <3>1, LoopInvariant
  <2> QED BY <2>2, <2>4
<1> HIDE DEF weight
<1>6. /\ sum[0] = 0
      /\ \A n \in 1..len : sum[n] = sum[n - 1] + digits[n] * weight[len - n]
      /\ \A n \in 0..len : sum[n] \in Nat
  <2> DEFINE x == [n \in 1..len |-> digits[n] * weight[len - n]]
  <2>1. x \in [1..len -> Nat]
    <3>1. \A n \in 1..len : len - n \in 0..len
      BY <1>3
    <3> QED BY <1>3, <1>5, <3>1
  <2>2. PICK f : f = [n \in 0..len |-> IF n = 0 THEN 0 ELSE f[n - 1] + x[n]]
    <3> HIDE DEF x
    <3> QED BY <1>3, <2>1, SumExists
  <2>3. Sum(f)
    <3>1. \A n \in 0..len : n # 0 => x[n] = digits[n] * weight[len - n]
      BY <1>3
    <3>2. \A n \in 0..len : f[n] = IF n = 0 THEN 0 ELSE f[n - 1] + digits[n] * weight[len - n]
      BY <2>2, <3>1
    <3>3. f = [n \in 0..len |-> f[n]]
      BY <2>2
    <3> QED BY <3>2, <3>3
  <2>4. Sum(sum)
    BY <2>3
  <2> HIDE DEF sum
  <2>5. sum[0] = 0 /\ \A n \in 1..len : sum[n] = sum[n - 1] + x[n]
    BY <1>3, <2>4
  <2>6. \A n \in 1..len : sum[n - 1] \in Nat => sum[n] \in Nat
    BY <1>3, <2>1, <2>5
  <2>7. \A n \in 0..len : sum[n] \in Nat
    <3> HIDE DEF Sum, x
    <3>1. sum[0] \in Nat
      BY <2>5
    <3> QED BY <1>3, <2>6, <3>1, LoopInvariant
  <2> QED BY <2>5, <2>7
<1> HIDE DEF sum
<1>7. /\ value[0] = 0
      /\ \A n \in 1..len : value[n] = Min({IntMax, value[n - 1] * b + digits[n]})
  <2>1. Value(value)
    BY <1>3, ValueExists
  <2> HIDE DEF value
  <2>2. \A n \in 0..len : value[n] = IF n = 0 THEN 0 ELSE Min({IntMax, value[n - 1] * b + digits[n]})
    BY <2>1
  <2> HIDE DEF Value
  <2>3. 0 \in 0..len /\ \A n \in 1..len : n \in 0..len /\ n # 0
    BY <1>3
  <2> QED BY <2>2, <2>3
<1> HIDE DEF value
\* Only more is added.
<1>8. \A n \in 0..len : sum[len - n] <= sum[len]
  <2> DEFINE T == {n \in 0..len : sum[len - n] <= sum[len]}
  <2>1. 0 \in T
    BY <1>3, <1>6
  <2>2. ASSUME NEW n \in 0..len, n \in T, n < len PROVE n + 1 \in T
    <3>1. len - n \in 1..len /\ (len - n) - 1 = len - (n + 1) /\ n + 1 \in 0..len
          /\ len - (n + 1) \in 0..len /\ len - (len - n) \in 0..len
      BY <1>3, <2>2
    <3>2. digits[len - n] * weight[len - (len - n)] \in Nat
      BY <1>3, <1>5, <3>1
    <3>3. sum[len - n] = sum[len - (n + 1)] + digits[len - n] * weight[len - (len - n)]
      BY <1>6, <3>1
    <3>4. sum[len - (n + 1)] <= sum[len - n]
      BY <1>6, <3>1, <3>2, <3>3
    <3>5. sum[len - n] <= sum[len]
      BY <2>2
    <3>6. sum[len - (n + 1)] \in Nat /\ sum[len - n] \in Nat /\ sum[len] \in Nat
      BY <1>3, <1>6, <3>1
    <3> QED BY <3>1, <3>4, <3>5, <3>6
  <2> HIDE DEF T
  <2>3. \A n \in 0..len : n \in T
    BY <1>3, <2>1, <2>2, BoundedInduction
  <2> QED BY <2>3 DEF T
<1>9. \A n \in 0..len : value[n] \in Nat /\ sum[n] = value[n] * weight[len - n]
  <2> DEFINE T == {n \in 0..len : value[n] \in Nat /\ sum[n] = value[n] * weight[len - n]}
  <2>1. 0 \in T
    BY <1>3, <1>5, <1>6, <1>7
  <2>2. ASSUME NEW n \in 0..len, n \in T, n < len PROVE n + 1 \in T
    <3> DEFINE k == len - (n + 1)
               w == weight[k]
               v == value[n] * b + digits[n + 1]
    <3>1. n + 1 \in 1..len /\ n + 1 \in 0..len /\ (n + 1) - 1 = n /\ len - n = k + 1
          /\ k + 1 \in 1..len /\ (k + 1) - 1 = k /\ k \in 0..len
      BY <1>3, <2>2
    <3>2. value[n] \in Nat /\ sum[n] = value[n] * weight[k + 1]
      BY <2>2, <3>1
    <3>3. weight[k + 1] = w * b /\ w \in Nat /\ w >= 1
      BY <1>5, <3>1
    <3>4. sum[n + 1] = sum[n] + digits[n + 1] * w
      BY <1>6, <3>1
    <3>5. value[n + 1] = Min({IntMax, v})
      BY <1>7, <3>1
    <3>6. digits[n + 1] \in Nat
      BY <1>3, <3>1
    <3>7. sum[n + 1] <= IntMax /\ sum[n + 1] \in Nat
      <4>1. sum[len - k] <= sum[len]
        BY <1>8, <3>1
      <4>2. len - k = n + 1
        BY <1>3, <3>1
      <4> QED BY <1>1, <1>3, <1>4, <1>6, <3>1, <4>1, <4>2, IntMaxAssumption
    <3> HIDE DEF w, k
    <3>8. sum[n + 1] = v * w
      <4>1. sum[n + 1] = value[n] * (w * b) + digits[n + 1] * w
        BY <3>2, <3>3, <3>4
      <4> QED BY <1>3, <3>2, <3>3, <3>6, <4>1
    <3>9. v \in Nat
      <4>1. value[n] \in Nat /\ b \in Nat
        BY <1>3, <3>2
      <4>2. value[n] * b \in Nat
        BY <4>1
      <4> QED BY <3>6, <4>2
    <3> HIDE DEF v
    <3>10. v <= IntMax
      <4>1. \A x \in Nat : x >= 1 => v <= v * x
        BY <3>9
      <4> QED BY <3>3, <3>7, <3>8, <3>9, <4>1, IntMaxAssumption
    <3>11. value[n + 1] = v
      BY <3>5, <3>9, <3>10, IntMaxAssumption, LeastOfTwo
    <3> QED BY <3>1, <3>8, <3>9, <3>11 DEF w, k
  <2> HIDE DEF T
  <2>3. \A n \in 0..len : n \in T
    BY <1>3, <2>1, <2>2, BoundedInduction
  <2> QED BY <2>3 DEF T
<1>10. sum[len] = value[len]
  <2>1. len \in 0..len /\ len - len = 0
    BY <1>3
  <2>2. value[len] \in Nat /\ sum[len] = value[len] * weight[0]
    BY <1>9, <2>1
  <2> QED BY <1>5, <2>2
<1> QED BY <1>1, <1>2, <1>4, <1>10

-----------------------------------------------------------------------------
(* Theorems.                                                               *)

\* All of the invariant, at any time.
THEOREM ProtocalInvariant == Spec => []IInv
BY InitIInv, NextIInv, PTL DEF Spec

\* make_protocal's variables keep their types, whatever the documents.
THEOREM ProtocalTypeCorrect == Spec => []TypeOK
<1>1. IInv => TypeOK
  BY DEF IInv
<1> QED BY <1>1, ProtocalInvariant, PTL

\* No number of a field or tid and no name, but a type's, is found twice, in any file
\* that a run leaves, however long its document is.
THEOREM UnambiguousCorrect == Spec => []Unambiguous
<1>1. IInv => Unambiguous
  BY DEF IInv
<1> QED BY <1>1, ProtocalInvariant, PTL

\* Every stored package has its tid, and the packages of a tid one model.
THEOREM PackagesFitTidsCorrect == Spec => []PackagesFitTids
<1>1. IInv => PackagesFitTids
  BY DEF IInv
<1> QED BY <1>1, ProtocalInvariant, PTL

\* What a finished run stored.
LEMMA FinishedStored == IInv => FinishedExact
<1> SUFFICES ASSUME IInv, pc = "finished"
             PROVE  /\ DOMAIN db = TableNames
                    /\ \A t \in TableNames :
                          /\ Len(db[t]) = Len(doc[t])
                          /\ \A n \in 1..Len(db[t]) :
                                LET d == doc[t][n] IN
                                /\ db[t][n].name = d.name
                                /\ t = "field" /\ IsInt(d.fidValue) =>
                                      db[t][n].fidvalue = Denotes(d.fidValue)
                                /\ t = "tid" /\ IsInt(d.value) => db[t][n].value = Denotes(d.value)
  BY DEF FinishedExact
<1>1. \A t \in TableNames : StoredWhole(t)
  BY DEF IInv, Progress
<1>2. DOMAIN db = TableNames
  BY <1>1 DEF StoredWhole, IInv, TypeOK
<1>3. ASSUME NEW t \in TableNames
      PROVE  /\ Len(db[t]) = Len(doc[t]) /\ t \in DOMAIN doc /\ doc \in Docs
             /\ DOMAIN doc[t] = 1..Len(doc[t])
             /\ \A n \in 1..Len(doc[t]) : db[t][n] = RowFor(t, doc[t][n]) /\ doc[t][n].complete
  <2>1. HasFirst(t, Len(doc[t])) /\ t \in DOMAIN db
    BY <1>1 DEF StoredWhole
  <2>2. doc \in Docs
    BY <2>1 DEF IInv, TablesInOrder
  <2>3. t \in DOMAIN doc /\ \A n \in 1..Len(doc[t]) : doc[t][n].complete
    BY <2>1 DEF HasFirst
  <2>4. Len(doc[t]) \in Nat /\ DOMAIN doc[t] = 1..Len(doc[t])
    BY <2>2, <2>3, SectionLength
  <2> QED BY <2>1, <2>2, <2>3, <2>4, RowsOfFirst
<1>4. ASSUME NEW t \in TableNames, NEW n \in 1..Len(db[t])
      PROVE  LET d == doc[t][n] IN
             /\ db[t][n].name = d.name
             /\ t = "field" /\ IsInt(d.fidValue) => db[t][n].fidvalue = Denotes(d.fidValue)
             /\ t = "tid" /\ IsInt(d.value) => db[t][n].value = Denotes(d.value)
  <2> DEFINE d == doc[t][n]
  <2>1. db[t][n] = RowFor(t, d) /\ d.complete
    BY <1>3
  <2>2. /\ t = "field" => d.fidValue.digits \in Seq(Nat)
        /\ t = "tid" => d.value.digits \in Seq(Nat)
    BY <1>3, <2>1, DocsAssumption
  <2> HIDE DEF d
  <2>3. db[t][n].name = d.name
    BY <2>1, TableFacts DEF RowFor
  <2>4. ASSUME t = "field", IsInt(d.fidValue) PROVE db[t][n].fidvalue = Denotes(d.fidValue)
    <3>1. db[t][n].fidvalue = NumberOf(d.fidValue)
      BY <2>1, <2>4 DEF RowFor
    <3>2. NumberOf(d.fidValue) = Denotes(d.fidValue)
      BY <2>2, <2>4, NumberDenotes
    <3> QED BY <3>1, <3>2
  <2>5. ASSUME t = "tid", IsInt(d.value) PROVE db[t][n].value = Denotes(d.value)
    <3>1. db[t][n].value = NumberOf(d.value)
      BY <2>1, <2>5 DEF RowFor
    <3>2. NumberOf(d.value) = Denotes(d.value)
      BY <2>2, <2>5, NumberDenotes
    <3> QED BY <3>1, <3>2
  <2> QED BY <2>3, <2>4, <2>5 DEF d
<1> QED BY <1>2, <1>3, <1>4

\* A run that finishes has stored its document, whole and in order, and every
\* number that is an int under its value: for any documents in any sequence of
\* runs that finish, fail or are killed.
THEOREM FinishedExactCorrect == Spec => []FinishedExact
BY FinishedStored, ProtocalInvariant, PTL

-----------------------------------------------------------------------------
(* The refinement of Dictionary.                                           *)

View == IF CanOpen THEN db ELSE Nothing

\* A document that the package table can be reached with.
Readable(d) == d \in Docs /\ TableNames \ {"package"} \subseteq DOMAIN d

History(d) == [n \in 1..Len(PackagesOf(d)) + 1 |-> Stored(d, n - 1)]

\* The packages of a document are counted.
LEMMA PackagesLength ==
    ASSUME NEW d \in Docs
    PROVE  Len(PackagesOf(d)) \in Nat
<1>1. CASE "package" \in DOMAIN d
  BY <1>1, SectionLength DEF PackagesOf
<1>2. CASE "package" \notin DOMAIN d
  BY <1>2 DEF PackagesOf
<1> QED BY <1>1, <1>2

\* The states of a history.
LEMMA HistoryFacts ==
    ASSUME NEW d, Readable(d)
    PROVE  /\ Len(PackagesOf(d)) \in Nat
           /\ Len(History(d)) = Len(PackagesOf(d)) + 1
           /\ \A n \in 0..Len(PackagesOf(d)) : History(d)[n + 1] = Stored(d, n)
<1>1. Len(PackagesOf(d)) \in Nat
  BY PackagesLength DEF Readable
<1> DEFINE m == Len(PackagesOf(d)) + 1
<1>2. m \in Nat
  BY <1>1
<1>3. History(d) = [n \in 1..m |-> History(d)[n]]
  BY DEF History
<1>4. Len(History(d)) = m
  <2> HIDE DEF m
  <2> QED BY <1>2, <1>3, AppendRow
<1>5. ASSUME NEW n \in 0..Len(PackagesOf(d)) PROVE History(d)[n + 1] = Stored(d, n)
  <2>1. n + 1 \in 1..m /\ (n + 1) - 1 = n
    BY <1>1
  <2> QED BY <2>1 DEF History
<1> QED BY <1>1, <1>4, <1>5

\* The file holds the document as far as its packages are stored.
StoredSoFar ==
    /\ Readable(doc)
    /\ Len(db["package"]) \in 0..Len(PackagesOf(doc))
    /\ db = Stored(doc, Len(db["package"]))

\* It does whenever it can be opened.
LEMMA OpenIsStored == IInv /\ CanOpen => StoredSoFar
<1> SUFFICES ASSUME IInv, CanOpen PROVE StoredSoFar
  OBVIOUS
<1>1. "package" \in DOMAIN db /\ DOMAIN db = TableNames /\ "package" \in TableNames
  BY TableFacts DEF CanOpen
<1>2. /\ doc \in Docs
      /\ \A s \in TableNames : Rank[s] < Rank["package"] => StoredWhole(s)
      /\ "package" \notin DOMAIN doc => db["package"] = <<>>
      /\ "package" \in DOMAIN doc => \E n \in 0..Len(doc["package"]) : HasFirst("package", n)
      /\ db = [t \in TableNames |-> db[t]]
  BY <1>1 DEF IInv, TablesInOrder
<1>3. \A s \in TableNames \ {"package"} : StoredWhole(s) /\ s \in DOMAIN doc
  <2>1. \A s \in TableNames \ {"package"} : Rank[s] < Rank["package"]
    BY TableFacts DEF Rank
  <2> QED BY <1>2, <2>1 DEF StoredWhole, HasFirst
<1>4. Readable(doc)
  BY <1>2, <1>3 DEF Readable
<1> DEFINE n == Len(db["package"])
<1>5. n \in 0..Len(PackagesOf(doc)) /\ db["package"] = [k \in 1..n |-> RowFor("package", PackagesOf(doc)[k])]
  <2>1. CASE "package" \notin DOMAIN doc
    <3>1. db["package"] = <<>> /\ PackagesOf(doc) = <<>>
      BY <1>2, <2>1 DEF PackagesOf
    <3> QED BY <3>1
  <2>2. CASE "package" \in DOMAIN doc
    <3>1. PICK m \in 0..Len(doc["package"]) : HasFirst("package", m)
      BY <1>2, <2>2
    <3>2. Len(doc["package"]) \in Nat
      BY <1>2, <2>2, SectionLength
    <3>3. Len(db["package"]) = m
      <4>1. m \in Nat
        BY <3>1, <3>2
      <4> QED BY <3>1, <4>1, RowsOfFirst
    <3> QED BY <2>2, <3>1, <3>2, <3>3 DEF PackagesOf, HasFirst
  <2> QED BY <2>1, <2>2
<1>6. \A t \in TableNames \ {"package"} : db[t] = [k \in 1..Len(doc[t]) |-> RowFor(t, doc[t][k])]
  BY <1>3 DEF StoredWhole, HasFirst
<1> HIDE DEF n
<1>7. \A t \in TableNames : db[t] = Stored(doc, n)[t]
  <2> TAKE t \in TableNames
  <2>1. CASE t = "package"
    BY <1>5, <2>1 DEF Stored
  <2>2. CASE t # "package"
    BY <1>6, <2>2 DEF Stored
  <2> QED BY <2>1, <2>2
<1>8. Stored(doc, n) = [t \in TableNames |-> Stored(doc, n)[t]]
  BY DEF Stored
<1>9. db = Stored(doc, n)
  BY <1>2, <1>7, <1>8
<1> QED BY <1>4, <1>5, <1>9 DEF n, StoredSoFar

\* A file that can be opened is something.
LEMMA OpenIsSomething == CanOpen => View = db /\ View # Nothing
<1>1. DOMAIN Nothing = {} /\ TableNames # {}
  BY TableFacts DEF Nothing
<1> QED BY <1>1 DEF CanOpen, View

\* Begin takes the file away or leaves it.
LEMMA BeginRefines == Begin => (View' = View \/ Reader!Close)
<1> SUFFICES ASSUME Begin PROVE View' = View \/ Reader!Close
  OBVIOUS
<1>1. CASE db' = db
  BY <1>1 DEF View, CanOpen
<1>2. CASE db' = Nothing
  <2>1. View' = Nothing
    BY <1>2 DEF View
  <2> QED BY <2>1 DEF Reader!Close, View
<1> QED BY <1>1, <1>2 DEF Begin

\* The last of the CREATE TABLEs makes the file one that can be opened.
LEMMA CreateRefines == IInv /\ IInv' /\ CreateTable => (View' = View \/ Reader!Open)
<1> SUFFICES ASSUME IInv, IInv', CreateTable PROVE View' = View \/ Reader!Open
  OBVIOUS
<1> PICK c : c = pc
  OBVIOUS
<1>1. /\ c \in TableNames /\ at = 0 /\ doc' = doc
      /\ db' = [t \in DOMAIN db \cup {c} |-> IF t = c THEN <<>> ELSE db[t]]
  BY DEF CreateTable, Filling
<1>2. \A s \in TableNames : s \in DOMAIN db <=> Rank[s] < Rank[c]
  BY <1>1 DEF IInv, Progress
<1>3. ~CanOpen /\ View = Nothing
  <2>1. c \notin DOMAIN db
    BY <1>1, <1>2, TableFacts
  <2> QED BY <1>1, <2>1 DEF CanOpen, View
<1>4. CASE ~CanOpen'
  BY <1>3, <1>4 DEF View
<1>5. CASE CanOpen'
  <2>1. c = "package"
    <3>1. DOMAIN db' = DOMAIN db \cup {c}
      BY <1>1
    <3>2. "package" \in TableNames /\ Rank["package"] = 5
      BY TableFacts DEF Rank
    <3>3. "package" \notin DOMAIN db
      BY <1>1, <1>2, <3>2, TableFacts
    <3> QED BY <1>5, <3>1, <3>2, <3>3 DEF CanOpen
  <2>2. db'["package"] = <<>> /\ Len(db'["package"]) = 0
    BY <1>1, <2>1
  <2>3. Readable(doc) /\ db' = Stored(doc, 0)
    <3>1. (IInv /\ CanOpen => StoredSoFar)'
      BY OpenIsStored, PTL
    <3>2. StoredSoFar'
      BY <1>5, <3>1
    <3> QED BY <1>1, <2>2, <3>2 DEF StoredSoFar
  <2>4. View' = History(doc)[1]
    <3>1. 0 \in 0..Len(PackagesOf(doc)) /\ 0 + 1 = 1
      BY <2>3, HistoryFacts
    <3>2. History(doc)[1] = Stored(doc, 0)
      BY <2>3, <3>1, HistoryFacts
    <3> QED BY <1>5, <2>3, <3>2 DEF View
  <2>5. View' # Nothing
    <3>1. (CanOpen => View = db /\ View # Nothing)'
      BY OpenIsSomething, PTL
    <3> QED BY <1>5, <3>1
  <2> QED BY <1>3, <2>3, <2>4, <2>5 DEF Reader!Open, View, History, Readable
<1> QED BY <1>4, <1>5

\* An INSERT into a file that can be opened adds the next package.
LEMMA InsertRefines == IInv /\ IInv' /\ Insert => (View' = View \/ Reader!Add)
<1> SUFFICES ASSUME IInv, IInv', Insert PROVE View' = View \/ Reader!Add
  OBVIOUS
<1> PICK c, a, r : Inserted(c, a, r)
  BY InsertEffect
<1>1. /\ c = pc /\ a = at /\ c \in TableNames /\ c \in DOMAIN db /\ DOMAIN db' = DOMAIN db
      /\ Len(db[c]) = a - 1 /\ Len(db'[c]) = a /\ doc' = doc /\ a \in 1..Len(doc[c])
  BY DEF Inserted
<1>2. CASE c # "package"
  <2>1. "package" \in TableNames /\ ~(Rank["package"] < Rank[c])
    BY <1>1, <1>2, TableFacts DEF Rank
  <2>2. "package" \notin DOMAIN db
    BY <1>1, <1>2, <2>1 DEF IInv, Progress
  <2> QED BY <1>1, <2>1, <2>2 DEF CanOpen, View
<1>3. CASE c = "package"
  <2>1. DOMAIN db = TableNames
    <3>1. \A s \in TableNames : Rank[s] < Rank[c] \/ s = c
      BY <1>3, TableFacts DEF Rank
    <3>2. \A s \in TableNames : s \in DOMAIN db
      BY <1>1, <3>1 DEF IInv, Progress
    <3> QED BY <3>2 DEF IInv, TypeOK
  <2>2. CanOpen /\ CanOpen'
    BY <1>1, <2>1 DEF CanOpen
  <2>3. StoredSoFar
    BY <2>2, OpenIsStored
  <2>4. StoredSoFar'
    <3>1. (IInv /\ CanOpen => StoredSoFar)'
      BY OpenIsStored, PTL
    <3> QED BY <2>2, <3>1
  <2>5. Readable(doc) /\ Len(PackagesOf(doc)) \in Nat
    BY <2>3, HistoryFacts DEF StoredSoFar
  <2>6. db = Stored(doc, a - 1) /\ a - 1 \in 0..Len(PackagesOf(doc))
    BY <1>1, <1>3, <2>3 DEF StoredSoFar
  <2>7. db' = Stored(doc, a) /\ a \in 0..Len(PackagesOf(doc))
    BY <1>1, <1>3, <2>4 DEF StoredSoFar
  <2>8. a \in 1..Len(History(doc)) - 1 /\ (a - 1) + 1 = a
    BY <2>5, <2>6, <2>7, HistoryFacts
  <2>9. View = History(doc)[a] /\ View' = History(doc)[a + 1]
    <3>1. View = db /\ View' = db'
      BY <2>2 DEF View
    <3>2. History(doc)[(a - 1) + 1] = Stored(doc, a - 1)
      BY <2>5, <2>6, HistoryFacts
    <3>3. History(doc)[a + 1] = Stored(doc, a)
      BY <2>5, <2>7, HistoryFacts
    <3> QED BY <2>6, <2>7, <2>8, <3>1, <3>2, <3>3
  <2>10. View # Nothing /\ View' # Nothing
    <3>1. (CanOpen => View = db /\ View # Nothing)'
      BY OpenIsSomething, PTL
    <3> QED BY <2>2, <3>1, OpenIsSomething
  <2> QED BY <2>5, <2>8, <2>9, <2>10 DEF Reader!Add, View, History, Readable
<1> QED BY <1>2, <1>3

\* make_protocal implements Dictionary: at any moment the reader sees nothing or
\* one document as far as it is stored, and one document follows another only
\* over nothing.
THEOREM ProtocalRefinesDictionary == Spec => ReaderSeesOneDocument
<1>1. Init => Reader!Init
  <2> SUFFICES ASSUME Init PROVE (IF CanOpen THEN db ELSE Nothing) = Nothing
    BY DEF Reader!Init
  <2> QED BY DEF Init
<1>2. IInv /\ IInv' /\ [Next]_vars => [Reader!Next]_View
  <2> SUFFICES ASSUME IInv, IInv', [Next]_vars PROVE View' = View \/ Reader!Next
    OBVIOUS
  <2>1. CASE UNCHANGED db
    BY <2>1 DEF View, CanOpen
  <2>2. CASE Begin
    BY <2>2, BeginRefines DEF Reader!Next
  <2>3. CASE CreateTable
    BY <2>3, CreateRefines DEF Reader!Next
  <2>4. CASE Insert
    BY <2>4, InsertRefines DEF Reader!Next
  <2> QED BY <2>1, <2>2, <2>3, <2>4 DEF Next, Throw, NextTable, Killed, vars
<1>3. IInv /\ IInv' /\ [Next]_vars => [Reader!Next]_(IF CanOpen THEN db ELSE Nothing)
  BY <1>2 DEF View
<1> QED BY <1>1, <1>3, ProtocalInvariant, PTL DEF Spec, ReaderSeesOneDocument, Reader!Spec
=============================================================================
