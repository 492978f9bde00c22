---------------------------- MODULE MakeProtocal ----------------------------
(***************************************************************************)
(* make_protocal (make_protocal.cpp) turns the XML description of the FTD  *)
(* protocol into the sqlite database that ftd_protocalif looks things up   *)
(* in.  It is run again whenever the description changes, over the file    *)
(* that the run before left, which may have failed or have been killed     *)
(* between any two statements: every INSERT is a transaction of its own.   *)
(*                                                                         *)
(* The XML parser and sqlite (its constraints) are external.  Names are    *)
(* atoms; the numbers are the text that stands in the XML.  A document is   *)
(* its definitions: the loops skip every other node.                       *)
(***************************************************************************)
EXTENDS Integers, Sequences, FiniteSetsExt

CONSTANTS
    Docs,       \* XML documents: for each section that is there, its definitions
    IntMax      \* the largest int

\* The tables in the order main fills them, a section of the document each.
Tables == <<"type", "item", "field", "tid", "package">>
TableNames == {Tables[n] : n \in 1..Len(Tables)}

\* A section is a list; the digits of a number that is there are digits.
ASSUME DocsAssumption ==
    \A d \in Docs : \A t \in DOMAIN d :
        /\ t \in TableNames
        /\ d[t] \in Seq({d[t][n] : n \in DOMAIN d[t]})
        /\ \A n \in DOMAIN d[t] : d[t][n].complete =>
              /\ t = "field" => d[t][n].fidValue.digits \in Seq(Nat)
              /\ t = "tid" => d[t][n].value.digits \in Seq(Nat)
ASSUME IntMaxAssumption == IntMax \in Nat

VARIABLES
    db,         \* the file: the tables that were created, with their rows
    doc,        \* the document it was built from
    pc,         \* the table being filled, or how the last run ended
    at,         \* the next definition of its section; 0: table not created yet
    tid_model   \* package_table's map from a tid to its model

vars == <<db, doc, pc, at, tid_model>>

Nothing == [t \in {} |-> <<>>]

Ended == {"none", "finished", "failed", "killed"}

\* The rows of table t, if it was created.
RowsIn(t) == IF t \in DOMAIN db THEN {db[t][n] : n \in 1..Len(db[t])} ELSE {}

\* One type invariant for the module.
TypeOK ==
    /\ DOMAIN db \subseteq TableNames
    /\ doc \in Docs \cup {Nothing}
    /\ pc \in TableNames \cup Ended
    /\ at \in Nat
    /\ at > 0 /\ pc \in TableNames => pc \in DOMAIN db /\ at \in 1..Len(doc[pc]) + 1
    /\ DOMAIN tid_model \subseteq {p.tid : p \in RowsIn("package")}

\* No database yet.
Init ==
    /\ db = Nothing
    /\ doc = Nothing
    /\ pc = "none"
    /\ at = 0
    /\ tid_model = Nothing

-----------------------------------------------------------------------------
(* What is stored for a definition.                                        *)

\* The base a number is read in: std::hex behind 0x, std::oct behind 0.
Base(text) ==
    CASE text.prefix = "0x" -> 16
      [] text.prefix = "0" -> 8
      [] OTHER -> 10

\* How many digits the stream takes: it stops at the first that is none.
Taken(text) ==
    Max({n \in 0..Len(text.digits) : \A k \in 1..n : text.digits[k] < Base(text)})

\* Mutant: 0x is looked for, 0 is not.
NumberOfNoOctal(text) ==
    LET base == IF text.prefix = "0x" THEN 16 ELSE 10
        value[n \in 0..Len(text.digits)] ==
            IF n = 0 THEN 0 ELSE Min({IntMax, value[n - 1] * base + text.digits[n]})
    IN  value[Taken(text)]

\* The int that fidValue and value are read as.  The stream stores the largest
\* int for a number that is too large, and nothing looks at its state.
NumberOf(text) ==
    LET value[n \in 0..Len(text.digits)] ==
            IF n = 0 THEN 0 ELSE Min({IntMax, value[n - 1] * Base(text) + text.digits[n]})
    IN  value[Taken(text)]

\* The row for definition d.  A list is stored as one text, in order.
RowFor(t, d) ==
    CASE t = "type" -> [name |-> d.name, basetype |-> d.baseType, length |-> d.length,
                        precision |-> d.precision, enum |-> d.enumValues]
      [] t = "item" -> [name |-> d.name, type |-> d.type]
      [] t = "field" -> [name |-> d.name, fid |-> d.fid, fidvalue |-> NumberOf(d.fidValue),
                         item_list |-> d.items]
      [] t = "tid" -> [name |-> d.name, value |-> NumberOf(d.value)]
      [] t = "package" -> [name |-> d.name, tid |-> d.tid, model |-> d.model,
                           field_list |-> d.fields]

\* Mutant: numbers may be given twice.
UniqueColumnsNames(t) == IF t = "type" THEN {} ELSE {"name"}

\* The columns of t that hold a value once only.  The type table has none: its
\* column is declared RPIMARY, which sqlite takes for a part of the type.
UniqueColumns(t) ==
    CASE t = "type" -> {}
      [] t = "item" -> {"name"}
      [] t = "field" -> {"name", "fid", "fidvalue"}
      [] t = "tid" -> {"name", "value"}
      [] t = "package" -> {"name"}

\* sqlite takes row r into table t: PRIMARY KEY and UNIQUE, and the foreign key
\* of package, which PRAGMA foreign_keys=1 turns on.
Accepts(t, r) ==
    /\ \A c \in UniqueColumns(t) : \A q \in RowsIn(t) : q[c] # r[c]
    /\ t = "package" => \E q \in RowsIn("tid") : q.name = r.tid

\* SELECT COUNT(*) FROM field WHERE name=?, of which only the number of result
\* rows is looked at: a count is one row, whatever it counts.
check_field_stmt(name) == Len(<<{r \in RowsIn("field") : r.name = name}>>)

\* Mutant: the model of a tid is not compared with the one seen before.
PackageChecksAnyModel(d) ==
    \A n \in 1..Len(d.fields) : check_field_stmt(d.fields[n].name) = 1

\* The checks of package_table itself.
PackageChecks(d) ==
    /\ d.tid \in DOMAIN tid_model => tid_model[d.tid] = d.model
    /\ \A n \in 1..Len(d.fields) : check_field_stmt(d.fields[n].name) = 1

\* No exception: all attributes are there, the checks are passed, and sqlite
\* takes the row.
MayInsert(t, d) ==
    /\ d.complete
    /\ t = "package" => PackageChecks(d)
    /\ Accepts(t, RowFor(t, d))

-----------------------------------------------------------------------------
(* main.                                                                   *)

\* read_xml fails or the old file cannot be removed; or else it is removed, and
\* sqlite opens a new one or fails to.
Begin ==
    /\ pc \in Ended
    /\ \/ pc' = "failed" /\ UNCHANGED <<doc, db>>
       \/ pc' \in {Tables[1], "failed"} /\ doc' \in Docs /\ db' = Nothing
    /\ at' = 0
    /\ tid_model' = Nothing

Filling == pc \in TableNames

\* CREATE TABLE; then get_child throws if the document has no such section.
CreateTable ==
    /\ Filling /\ at = 0
    /\ db' = [t \in DOMAIN db \cup {pc} |-> IF t = pc THEN <<>> ELSE db[t]]
    /\ \/ pc \in DOMAIN doc /\ at' = 1 /\ UNCHANGED pc
       \/ pc \notin DOMAIN doc /\ pc' = "failed" /\ UNCHANGED at
    /\ UNCHANGED <<doc, tid_model>>

AtDefinition == Filling /\ at > 0 /\ at <= Len(doc[pc])

\* One turn of the loop of type_table, item_table, field_table, tid_table or
\* package_table.
Insert ==
    /\ AtDefinition
    /\ LET d == doc[pc][at] IN
          /\ MayInsert(pc, d)
          /\ db' = [db EXCEPT ![pc] = Append(@, RowFor(pc, d))]
          /\ tid_model' = IF pc # "package" \/ d.tid \in DOMAIN tid_model THEN tid_model
                          ELSE [t \in DOMAIN tid_model \cup {d.tid} |->
                                   IF t = d.tid THEN d.model ELSE tid_model[t]]
    /\ at' = at + 1
    /\ UNCHANGED <<doc, pc>>

\* Mutant: the model of a tid is noted before the package is stored.
ThrowNoted ==
    /\ AtDefinition
    /\ ~MayInsert(pc, doc[pc][at])
    /\ pc' = "failed"
    /\ tid_model' = IF pc # "package" THEN tid_model
                    ELSE [t \in DOMAIN tid_model \cup {doc[pc][at].tid} |-> doc[pc][at].model]
    /\ UNCHANGED <<db, doc, at>>

\* Mutant: an exception takes back the rows of its table.
ThrowTakesBack ==
    /\ AtDefinition
    /\ ~MayInsert(pc, doc[pc][at])
    /\ pc' = "failed"
    /\ db' = [db EXCEPT ![pc] = <<>>]
    /\ tid_model' = Nothing
    /\ UNCHANGED <<doc, at>>

\* An exception ends the run; what was inserted stays.
Throw ==
    /\ AtDefinition
    /\ ~MayInsert(pc, doc[pc][at])
    /\ pc' = "failed"
    /\ UNCHANGED <<db, doc, at, tid_model>>

\* The end of a section: on to the next table, or the end of main.
NextTable ==
    /\ Filling /\ at > 0 /\ at = Len(doc[pc]) + 1
    /\ LET n == CHOOSE m \in 1..Len(Tables) : Tables[m] = pc IN
          pc' = IF n = Len(Tables) THEN "finished" ELSE Tables[n + 1]
    /\ at' = 0
    /\ UNCHANGED <<db, doc, tid_model>>

\* The process is killed between two statements, or sqlite fails for a reason
\* of its own (no space).
Killed ==
    /\ Filling
    /\ pc' = "killed"
    /\ UNCHANGED <<db, doc, at, tid_model>>

Next == Begin \/ CreateTable \/ Insert \/ Throw \/ NextTable \/ Killed

Spec == Init /\ [][Next]_vars

-----------------------------------------------------------------------------
(* The reader: ftd_protocalif's constructor prepares statements on all     *)
(* five tables and throws if one is missing.                               *)

CanOpen == DOMAIN db = TableNames

-----------------------------------------------------------------------------
(* Properties.                                                             *)

\* The number a text denotes: each digit times the weight of its place, which is
\* the base times the weight of the place to its right.
Denotes(text) ==
    LET len == Len(text.digits)
        weight[k \in 0..len] == IF k = 0 THEN 1 ELSE weight[k - 1] * Base(text)
        sum[n \in 0..len] ==
            IF n = 0 THEN 0 ELSE sum[n - 1] + text.digits[n] * weight[len - n]
    IN  sum[len]

\* The text is a number of its base that an int can hold.
IsInt(text) == Taken(text) = Len(text.digits) /\ Denotes(text) <= IntMax

\* A run that finishes has stored its document, whole and in order, whatever
\* the runs before it left in the file: each definition has its row, and one
\* with a number is found under that number, whatever notation it was given in.
FinishedExact ==
    pc = "finished" =>
        /\ DOMAIN db = TableNames
        /\ \A t \in TableNames :
              /\ Len(db[t]) = Len(doc[t])
              /\ \A n \in 1..Len(db[t]) :
                    LET d == doc[t][n] IN
                    /\ db[t][n].name = d.name
                    /\ t = "field" /\ IsInt(d.fidValue) => db[t][n].fidvalue = Denotes(d.fidValue)
                    /\ t = "tid" /\ IsInt(d.value) => db[t][n].value = Denotes(d.value)

\* Where ftd_protocalif takes the first row for a key, the columns that are declared
\* unique leave no second one: a number has one field or tid, a name one field,
\* item, tid or package.  At any time, so also in a file that a failed or killed run
\* left.  Types are not in it (their name may stand twice, see UniqueColumns), nor
\* are the packages of a tid, of which there may be many.
Unambiguous ==
    \A t \in DOMAIN db \ {"type"} : \A n, m \in 1..Len(db[t]) :
        n # m => /\ db[t][n].name # db[t][m].name
                 /\ t = "field" => db[t][n].fidvalue # db[t][m].fidvalue
                 /\ t = "tid" => db[t][n].value # db[t][m].value

\* A package can be found from the number in a header, its tid has a row; and
\* the packages of a tid are of one model (dialog or not), however far apart
\* they are in the document.
PackagesFitTids ==
    \A p \in RowsIn("package") :
        /\ \E q \in RowsIn("tid") : q.name = p.tid
        /\ \A q \in RowsIn("package") : p.tid = q.tid => p.model = q.model

\* The packages of a document, which may have no section for them.
PackagesOf(d) == IF "package" \in DOMAIN d THEN d["package"] ELSE <<>>

\* The tables with the first n packages of document d.
Stored(d, n) ==
    [t \in TableNames |->
        IF t = "package" THEN [k \in 1..n |-> RowFor(t, PackagesOf(d)[k])]
                         ELSE [k \in 1..Len(d[t]) |-> RowFor(t, d[t][k])]]

\* make_protocal implements Dictionary: main returns 0 even after an exception,
\* so the server may open the file at any moment, also one that a failed or
\* killed run left.  It then finds the packages of one document in their order,
\* the last ones may be missing, with all types, items, fields and tids.
Reader == INSTANCE Dictionary WITH
    view <- IF CanOpen THEN db ELSE Nothing,
    Closed <- Nothing,
    Histories <- {[n \in 1..Len(PackagesOf(d)) + 1 |-> Stored(d, n - 1)] :
                     d \in {e \in Docs : TableNames \ {"package"} \subseteq DOMAIN e}}

ReaderSeesOneDocument == Reader!Spec
=============================================================================
