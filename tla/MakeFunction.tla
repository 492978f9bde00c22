---------------------------- MODULE MakeFunction ----------------------------
(***************************************************************************)
(* make_function (make_function.cpp) turns the XML description of the      *)
(* functions into the sqlite database that functionif reads.  Unlike       *)
(* make_protocal it works in the file that is there: it drops its tables,  *)
(* creates them again and inserts row by row, every statement committed by *)
(* itself.  A run may fail or be killed between any two of them.           *)
(*                                                                         *)
(* A run is the sequence of its SQL statements.  sqlite and the XML parser *)
(* are external; names and items are atoms.                                *)
(***************************************************************************)
EXTENDS Integers, Sequences, FiniteSets

CONSTANTS
    Docs,       \* documents: sequences of tid nodes, see Node
    Broken      \* texts with a quote, which end the SQL string they stand in

Sections == <<"in_item", "out_item", "result_item">>
TableNames == {"tid_sp", "in_item", "out_item", "result_item"}

IsList(s) == s \in Seq({s[n] : n \in DOMAIN s})

\* A tid node has its name and sp, unless complete is FALSE, and the sections
\* that are there with the texts of their nodes.
ASSUME NodeAssumption ==
    \A d \in Docs :
        /\ IsList(d)
        /\ \A n \in 1..Len(d) :
              /\ d[n].complete \in BOOLEAN
              /\ DOMAIN d[n].items \subseteq TableNames \ {"tid_sp"}
              /\ \A t \in DOMAIN d[n].items : IsList(d[n].items[t])

VARIABLES
    db,         \* the tables that exist, with their rows
    pc,         \* "running", or how the last run ended
    program,    \* the statements of the run
    at          \* the next of them

vars == <<db, pc, program, at>>

Nothing == [t \in {} |-> <<>>]

Ended == {"none", "finished", "failed", "killed"}

-----------------------------------------------------------------------------
(* The statements of a run.                                                *)

\* get and get_child throw for what a node does not have.
Throws == [do |-> "throw", table |-> "", row |-> <<>>]

Drops ==
    [n \in 1..4 |-> [do |-> "drop", row |-> <<>>,
                     table |-> <<"result_item", "out_item", "in_item", "tid_sp">>[n]]]

Creates ==
    [n \in 1..4 |-> [do |-> "create", row |-> <<>>,
                     table |-> <<"tid_sp", "in_item", "out_item", "result_item">>[n]]]

\* Mutant: idx counts on from section to section.
ItemInsertsRunning(node, t) ==
    [n \in 1..Len(node.items[t]) |->
        [do |-> "insert", table |-> t,
         row |-> <<node.name, n + (IF t = "out_item" THEN Len(node.items["in_item"]) ELSE 0),
                   node.items[t][n]>>]]

\* The inner loops: idx counts the items of a section from 1.
ItemInserts(node, t) ==
    [n \in 1..Len(node.items[t]) |->
        [do |-> "insert", table |-> t, row |-> <<node.name, n, node.items[t][n]>>]]

\* One turn of the outer loop.
NodeStatements(node) ==
    LET part(t) == IF t \in DOMAIN node.items THEN ItemInserts(node, t) ELSE <<Throws>> IN
    IF node.complete
    THEN <<[do |-> "insert", table |-> "tid_sp", row |-> <<node.name, node.sp>>]>>
            \o part("in_item") \o part("out_item") \o part("result_item")
    ELSE <<Throws>>

Inserts(d) ==
    LET upto[n \in 0..Len(d)] == IF n = 0 THEN <<>> ELSE upto[n - 1] \o NodeStatements(d[n])
    IN  upto[Len(d)]

Program(d) == Drops \o Creates \o Inserts(d)

-----------------------------------------------------------------------------
(* sqlite.                                                                 *)

\* PRIMARY KEY: tid_name, or tid_name and idx.
Key(t, row) == IF t = "tid_sp" THEN <<row[1]>> ELSE <<row[1], row[2]>>

\* Mutant: tid_name is no key.
ExecutesNoKey(s, b) ==
    CASE s.do = "create" -> s.table \notin DOMAIN b
      [] s.do = "insert" -> s.row[1] \notin Broken /\ s.row[Len(s.row)] \notin Broken
      [] s.do = "throw" -> FALSE
      [] OTHER -> TRUE

\* Statement s does not fail on database b.
Executes(s, b) ==
    CASE s.do = "create" -> s.table \notin DOMAIN b
      [] s.do = "insert" ->
            /\ s.row[1] \notin Broken /\ s.row[Len(s.row)] \notin Broken
            /\ \A n \in 1..Len(b[s.table]) : Key(s.table, b[s.table][n]) # Key(s.table, s.row)
      [] s.do = "throw" -> FALSE
      [] OTHER -> TRUE

\* Mutant: the rows are deleted, the tables stay.
EffectDelete(s, b) ==
    CASE s.do = "drop" -> [t \in DOMAIN b |-> IF t = s.table THEN <<>> ELSE b[t]]
      [] s.do = "create" -> [t \in DOMAIN b \cup {s.table} |-> IF t = s.table THEN <<>> ELSE b[t]]
      [] s.do = "insert" -> [b EXCEPT ![s.table] = Append(@, s.row)]

\* What it leaves.
Effect(s, b) ==
    CASE s.do = "drop" -> [t \in DOMAIN b \ {s.table} |-> b[t]]
      [] s.do = "create" -> [t \in DOMAIN b \cup {s.table} |-> IF t = s.table THEN <<>> ELSE b[t]]
      [] s.do = "insert" -> [b EXCEPT ![s.table] = Append(@, s.row)]

-----------------------------------------------------------------------------
(* main.                                                                   *)

\* One type invariant for the module.
TypeOK ==
    /\ DOMAIN db \subseteq TableNames
    /\ \A t \in DOMAIN db : \A m, n \in 1..Len(db[t]) :
          Key(t, db[t][m]) = Key(t, db[t][n]) => m = n
    /\ pc \in Ended \cup {"running"}
    /\ at \in 1..Len(program) + 1

Init ==
    /\ db = Nothing
    /\ pc = "none"
    /\ program = <<>>
    /\ at = 1

\* read_xml and sqlite3_open, which may fail.
Begin ==
    /\ pc \in Ended
    /\ \/ pc' = "failed" /\ UNCHANGED program
       \/ pc' = "running" /\ \E d \in Docs : program' = Program(d)
    /\ at' = 1
    /\ UNCHANGED db

Running == pc = "running" /\ at <= Len(program)

\* sqlite3_exec of the next statement.
Execute ==
    /\ Running
    /\ Executes(program[at], db)
    /\ db' = Effect(program[at], db)
    /\ at' = at + 1
    /\ UNCHANGED <<pc, program>>

\* An exception; main returns 0 all the same.
Throw ==
    /\ Running
    /\ ~Executes(program[at], db)
    /\ pc' = "failed"
    /\ UNCHANGED <<db, program, at>>

Finish ==
    /\ pc = "running" /\ at = Len(program) + 1
    /\ pc' = "finished"
    /\ UNCHANGED <<db, program, at>>

\* The process is killed, or sqlite fails for a reason of its own.
Killed ==
    /\ pc = "running"
    /\ pc' = "killed"
    /\ UNCHANGED <<db, program, at>>

Next == Begin \/ Execute \/ Throw \/ Finish \/ Killed

Spec == Init /\ [][Next]_vars

-----------------------------------------------------------------------------
(* The reader: functionif's constructor prepares a statement on each of    *)
(* the four tables, and its lookups select by tid, the items by idx.       *)

CanOpen == DOMAIN db = TableNames

\* get_items: the item of row idx of a tid, and how many rows it has.
RowsOf(t, tid) == {n \in 1..Len(db[t]) : db[t][n][1] = tid}

-----------------------------------------------------------------------------
(* Properties.                                                             *)

\* What the tables hold after the first n of the inserts of document d, for each n.
Stored(d) ==
    LET upto[n \in 0..Len(Inserts(d))] ==
            IF n = 0 THEN [t \in TableNames |-> <<>>]
            ELSE LET s == Inserts(d)[n]
                 IN  [t \in TableNames |->
                         IF t = s.table THEN Append(upto[n - 1][t], s.row) ELSE upto[n - 1][t]]
    IN  upto

\* A run that finishes leaves what functionif should answer for its document,
\* whatever was in the file before: for every tid its procedure, and for every
\* section its items, numbered from 1 in the order of the document, and no
\* other tid.
FinishedExact ==
    pc = "finished" =>
        \E d \in Docs :
            /\ program = Program(d)
            /\ CanOpen
            /\ Len(db["tid_sp"]) = Len(d)
            /\ \A k \in 1..Len(d) :
                  /\ db["tid_sp"][k] = <<d[k].name, d[k].sp>>
                  /\ \A s \in 1..Len(Sections) :
                        LET t == Sections[s]
                            items == d[k].items[t] IN
                        /\ Cardinality(RowsOf(t, d[k].name)) = Len(items)
                        /\ \A n \in 1..Len(items) : \E m \in RowsOf(t, d[k].name) :
                              db[t][m] = <<d[k].name, n, items[n]>>

\* make_function implements Dictionary: what functionif can open, at any moment
\* and also after a run that failed or was killed, holds rows of one document
\* only and all of them up to some point of it, and documents are replaced as a
\* whole.
Reader == INSTANCE Dictionary WITH
    view <- IF CanOpen THEN db ELSE Nothing,
    Closed <- Nothing,
    Histories <- {[n \in 1..Len(Inserts(d)) + 1 |-> Stored(d)[n - 1]] : d \in Docs}

ReaderSeesOneDocument == Reader!Spec
=============================================================================
