----------------------------- MODULE StmtLookup -----------------------------
(***************************************************************************)
(* The lookups of ftd_protocalif and functionif: const member functions    *)
(* that io threads call on shared objects, each of them a fixed sequence   *)
(* of sqlite calls on a prepared statement that the object keeps.  There   *)
(* is no lock around the sequence.                                         *)
(*                                                                         *)
(* sqlite is external, in its default, serialized mode: one call on a      *)
(* statement is atomic, a sequence of calls is not.  A call is one action. *)
(* A lookup's text is parsed on the caller's stack (regular expressions,   *)
(* lexical_cast, strtok) and is left as the value that was read.           *)
(***************************************************************************)
EXTENDS Integers, Sequences

(* A lookup, by its statement, how the key is bound, the columns it reads  *)
(* from a row, and whether it wants one row or all of them.                *)

get_fidname  == [stmt |-> "stmt_fidname_",  key |-> "int",  cols |-> <<"text">>, rows |-> "one"]
get_fidvalue == [stmt |-> "stmt_fidvalue_", key |-> "text", cols |-> <<"int">>,  rows |-> "one"]
get_tidname  == [stmt |-> "stmt_tidname_",  key |-> "int",  cols |-> <<"text">>, rows |-> "one"]

\* get_package_field_list_private, on the statement its caller names.
FieldList(stmt) == [stmt |-> stmt, key |-> "text", cols |-> <<"text">>, rows |-> "one"]

get_package_field_list     == FieldList("stmt_field_list_")
get_req_package_field_list == FieldList("stmt_req_field_list_")
get_rsp_package_field_list == FieldList("stmt_rsp_field_list_")

get_fielditem_list == [stmt |-> "stmt_fielditem_list_", key |-> "text", cols |-> <<"text">>, rows |-> "one"]

\* get_itemtypeinfo reads the item's type name and, unless that is one of the
\* FTD base types, looks the type up with a second statement.
get_itemtypeinfo == [stmt |-> "stmt_item_", key |-> "text", cols |-> <<"text">>, rows |-> "one"]
TypeInfo == [stmt |-> "stmt_type_", key |-> "text",
             cols |-> <<"text", "int", "int", "text">>, rows |-> "one"]

get_sp_name == [stmt |-> "stmt0_", key |-> "text", cols |-> <<"text">>, rows |-> "one"]

\* functionif::get_items, on the statement its caller names.
Items(stmt) == [stmt |-> stmt, key |-> "text", cols |-> <<"text">>, rows |-> "all"]

get_input_items  == Items("stmt1_")
get_output_items == Items("stmt2_")
get_result_items == Items("stmt3_")

\* The member functions, and all statement uses (get_itemtypeinfo has two).
Operations ==
    {get_fidname, get_fidvalue, get_tidname, get_package_field_list,
     get_req_package_field_list, get_rsp_package_field_list,
     get_fielditem_list, get_itemtypeinfo, get_sp_name, get_input_items,
     get_output_items, get_result_items}

Lookups == Operations \cup {TypeInfo}

Stmts == {l.stmt : l \in Lookups}

CONSTANTS
    Workers,    \* the io threads
    NoWorker,   \* nobody's string is bound
    Offered,    \* the member functions they call
    Keys,       \* arguments: fid and tid numbers, names
    NoKey,      \* an unbound parameter, or bytes that are nobody's key
    Values,     \* column values
    BaseTypes,  \* the type names get_itemtypeinfo decodes by itself
    Rows,       \* Rows[stmt][key]: the rows the statement yields, in order
    MaxCalls    \* bound: lookups per thread

ASSUME LookupAssumption ==
    /\ Offered \subseteq Operations
    /\ NoKey \notin Keys /\ NoWorker \notin Workers
    /\ BaseTypes \subseteq Values
    /\ 0 \in Values
    /\ Rows \in [Stmts -> [Keys -> Seq(Seq(Values))]]
    /\ \A l \in Lookups, k \in Keys : \A i \in 1..Len(Rows[l.stmt][k]) :
          Len(Rows[l.stmt][k][i]) = Len(l.cols)
    /\ MaxCalls \in Nat

VARIABLES
    \* the prepared statements
    mode,       \* "ready" (reset), "row" (on a row), "done" (past the last)
    bound,      \* the key bound to the parameter
    binder,     \* the thread whose string the bound key is (SQLITE_STATIC)
    running,    \* the key the current execution was started with
    pos,        \* the row it is on
    \* the threads
    pc,         \* the sqlite call a thread makes next
    op,         \* the lookup it is in
    arg,        \* the argument of the member function
    key,        \* what it binds: arg, or the type name it read first
    out,        \* the complete rows it read
    cur,        \* the columns it read of the row it is in
    ptr,        \* the value column_text pointed at
    valid,      \* that pointer is still valid
    clean,      \* history: nobody else changed a statement we had reset
    calls,      \* how many lookups it began
    crashed     \* the process died in undefined behaviour

stmtVars == <<mode, bound, binder, running, pos>>
threadVars == <<pc, op, arg, key, out, cur, ptr, valid, clean, calls>>
vars == <<stmtVars, threadVars, crashed>>

InCall == {"clear_bindings", "reset", "bind", "step", "column", "copy"}

\* One type invariant for the module.
TypeOK ==
    /\ mode \in [Stmts -> {"ready", "row", "done"}]
    /\ bound \in [Stmts -> Keys \cup {NoKey}]
    /\ binder \in [Stmts -> Workers \cup {NoWorker}]
    /\ running \in [Stmts -> Keys \cup {NoKey}]
    /\ pos \in [Stmts -> Nat]
    /\ pc \in [Workers -> InCall \cup {"idle", "returned", "threw"}]
    /\ op \in [Workers -> Lookups]
    /\ arg \in [Workers -> Keys \cup {NoKey}]
    /\ key \in [Workers -> Keys \cup {NoKey}]
    /\ out \in [Workers -> Seq(Seq(Values))]
    /\ cur \in [Workers -> Seq(Values)]
    /\ ptr \in [Workers -> Values]
    /\ valid \in [Workers -> BOOLEAN]
    /\ clean \in [Workers -> BOOLEAN]
    /\ calls \in [Workers -> 0..MaxCalls]
    /\ crashed \in BOOLEAN

\* The constructors prepared the statements.
Init ==
    /\ mode = [s \in Stmts |-> "ready"]
    /\ bound = [s \in Stmts |-> NoKey]
    /\ binder = [s \in Stmts |-> NoWorker]
    /\ running = [s \in Stmts |-> NoKey]
    /\ pos = [s \in Stmts |-> 0]
    /\ pc = [w \in Workers |-> "idle"]
    /\ op = [w \in Workers |-> get_fidname]
    /\ arg = [w \in Workers |-> NoKey]
    /\ key = [w \in Workers |-> NoKey]
    /\ out = [w \in Workers |-> <<>>]
    /\ cur = [w \in Workers |-> <<>>]
    /\ ptr = [w \in Workers |-> 0]
    /\ valid = [w \in Workers |-> FALSE]
    /\ clean = [w \in Workers |-> FALSE]
    /\ calls = [w \in Workers |-> 0]
    /\ crashed = FALSE

-----------------------------------------------------------------------------
(* A thread in a lookup, and what its sqlite calls do to the others.       *)

At(w, where) == ~crashed /\ pc[w] = where

Goto(w, where) == pc' = [pc EXCEPT ![w] = where]

St(w) == op[w].stmt

\* The statement of w changes under the threads that have already reset it.
Disturbed(w, v) ==
    v # w /\ St(v) = St(w) /\ pc[v] \in {"bind", "step", "column", "copy"}

Disturb(w) == clean' = [v \in Workers |-> clean[v] /\ ~Disturbed(w, v)]

\* step and reset free the text that column_text returned.
FreeText(w) ==
    valid' = [v \in Workers |-> valid[v] /\ ~(Disturbed(w, v) /\ pc[v] = "copy")]

RowsOf(st, k) == IF k \in Keys THEN Rows[st][k] ELSE <<>>

\* A member function is called.
Call(w) ==
    /\ ~crashed /\ pc[w] \notin InCall /\ calls[w] < MaxCalls
    /\ \E f \in Offered, k \in Keys :
          /\ op' = [op EXCEPT ![w] = f]
          /\ arg' = [arg EXCEPT ![w] = k]
          /\ key' = [key EXCEPT ![w] = k]
    /\ out' = [out EXCEPT ![w] = <<>>]
    /\ clean' = [clean EXCEPT ![w] = TRUE]
    /\ calls' = [calls EXCEPT ![w] = @ + 1]
    /\ Goto(w, "clear_bindings")
    /\ UNCHANGED <<stmtVars, cur, ptr, valid, crashed>>

\* sqlite3_clear_bindings: allowed, and OK, in every mode.
clear_bindings(w) ==
    /\ At(w, "clear_bindings")
    /\ bound' = [bound EXCEPT ![St(w)] = NoKey]
    /\ binder' = [binder EXCEPT ![St(w)] = NoWorker]
    /\ Disturb(w)
    /\ Goto(w, "reset")
    /\ UNCHANGED <<mode, running, pos, op, arg, key, out, cur, ptr, valid,
                   calls, crashed>>

\* Mutant: the statement is not reset.
resetForgotten(w) ==
    /\ At(w, "reset")
    /\ Goto(w, "bind")
    /\ UNCHANGED <<stmtVars, op, arg, key, out, cur, ptr, valid, clean, calls,
                   crashed>>

\* sqlite3_reset: OK.  It returns the error of the last step, and what is assumed
\* of sqlite here is that no step fails: a step gives a row or the end.  (One that
\* fails would end a list early, unnoticed, and make the next lookup throw here.)
reset(w) ==
    /\ At(w, "reset")
    /\ mode' = [mode EXCEPT ![St(w)] = "ready"]
    /\ Disturb(w) /\ FreeText(w)
    /\ Goto(w, "bind")
    /\ UNCHANGED <<bound, binder, running, pos, op, arg, key, out, cur, ptr,
                   calls, crashed>>

\* sqlite3_bind_text or sqlite3_bind_int: SQLITE_MISUSE, which the check macro
\* throws as an sqlite_error, unless the statement is reset.
bind(w) ==
    /\ At(w, "bind")
    /\ \/ /\ mode[St(w)] = "ready"
          /\ bound' = [bound EXCEPT ![St(w)] = key[w]]
          /\ binder' = [binder EXCEPT ![St(w)] = w]
          /\ Disturb(w)
          /\ Goto(w, "step")
       \/ /\ mode[St(w)] # "ready"
          /\ Goto(w, "threw")
          /\ UNCHANGED <<bound, binder, clean>>
    /\ UNCHANGED <<mode, running, pos, op, arg, key, out, cur, ptr, valid,
                   calls, crashed>>

\* The string bound to st is gone: its lookup is over.  An int was copied.
Dangling(st) ==
    /\ binder[st] # NoWorker
    /\ LET b == binder[st] IN
          ~(St(b) = st /\ pc[b] \in {"step", "column", "copy"})

\* What an execution of w's statement that begins now may be started with.
Parameter(w) ==
    IF op[w].key = "text" /\ Dangling(St(w)) THEN Keys \cup {NoKey}
                                              ELSE {bound[St(w)]}

\* Mutant: the result of step is not checked.
AdvanceUnchecked(w, k, p) ==
    /\ running' = [running EXCEPT ![St(w)] = k]
    /\ LET row == p <= Len(RowsOf(St(w), k)) IN
          /\ mode' = [mode EXCEPT ![St(w)] = IF row THEN "row" ELSE "done"]
          /\ pos' = [pos EXCEPT ![St(w)] = IF row THEN p ELSE 0]
    /\ Goto(w, "column")

\* The execution goes on to row p of key k, or past the last row.
Advance(w, k, p) ==
    /\ running' = [running EXCEPT ![St(w)] = k]
    /\ \/ /\ p <= Len(RowsOf(St(w), k))
          /\ mode' = [mode EXCEPT ![St(w)] = "row"]
          /\ pos' = [pos EXCEPT ![St(w)] = p]
          /\ Goto(w, "column")
       \/ /\ p > Len(RowsOf(St(w), k))
          /\ mode' = [mode EXCEPT ![St(w)] = "done"]
          /\ pos' = [pos EXCEPT ![St(w)] = 0]
          /\ Goto(w, IF op[w].rows = "all" THEN "returned" ELSE "threw")

\* sqlite3_step: the next row, or a new execution if the statement was reset or
\* has run to its end.  No row ends a list and is an error otherwise.
step(w) ==
    /\ At(w, "step")
    /\ \/ mode[St(w)] = "row" /\ Advance(w, running[St(w)], pos[St(w)] + 1)
       \/ mode[St(w)] # "row" /\ \E k \in Parameter(w) : Advance(w, k, 1)
    /\ Disturb(w) /\ FreeText(w)
    /\ UNCHANGED <<bound, binder, op, arg, key, out, cur, ptr, calls, crashed>>

\* What the code does with column value v: it is added to the row being read;
\* after the last column a list goes back to step, get_itemtypeinfo may go on
\* with the type, and any other lookup returns.
Take(w, v) ==
    LET row == Append(cur[w], v) IN
    \/ /\ Len(row) < Len(op[w].cols)
       /\ cur' = [cur EXCEPT ![w] = row]
       /\ Goto(w, "column")
       /\ UNCHANGED <<op, key, out>>
    \/ /\ Len(row) = Len(op[w].cols)
       /\ cur' = [cur EXCEPT ![w] = <<>>]
       /\ \/ /\ op[w] = get_itemtypeinfo /\ v \notin BaseTypes
             /\ op' = [op EXCEPT ![w] = TypeInfo]
             /\ key' = [key EXCEPT ![w] = IF v \in Keys THEN v ELSE NoKey]
             /\ Goto(w, "clear_bindings")
             /\ UNCHANGED out
          \/ /\ ~(op[w] = get_itemtypeinfo /\ v \notin BaseTypes)
             /\ out' = [out EXCEPT ![w] = Append(@, row)]
             /\ Goto(w, IF op[w].rows = "all" THEN "step" ELSE "returned")
             /\ UNCHANGED <<op, key>>

NextColumn(w) == op[w].cols[Len(cur[w]) + 1]

\* The column the statement of w shows, if it is on a row.
Shown(w) == RowsOf(St(w), running[St(w)])[pos[St(w)]][Len(cur[w]) + 1]

\* Mutant: no row gives no number.
column_intNull(w) ==
    /\ At(w, "column") /\ NextColumn(w) = "int"
    /\ Take(w, IF mode[St(w)] = "row" THEN Shown(w) ELSE NoKey)
    /\ UNCHANGED <<stmtVars, arg, ptr, valid, clean, calls, crashed>>

\* sqlite3_column_int: 0 if there is no row.
column_int(w) ==
    /\ At(w, "column") /\ NextColumn(w) = "int"
    /\ Take(w, IF mode[St(w)] = "row" THEN Shown(w) ELSE 0)
    /\ UNCHANGED <<stmtVars, arg, ptr, valid, clean, calls, crashed>>

\* sqlite3_column_text, on a row.
column_text(w) ==
    /\ At(w, "column") /\ NextColumn(w) = "text"
    /\ mode[St(w)] = "row"
    /\ ptr' = [ptr EXCEPT ![w] = Shown(w)]
    /\ valid' = [valid EXCEPT ![w] = TRUE]
    /\ Goto(w, "copy")
    /\ UNCHANGED <<stmtVars, op, arg, key, out, cur, clean, calls, crashed>>

\* The std::string is built from the pointer.  If another thread stepped or
\* reset the statement, the text is gone, and these may be any bytes.
copy(w) ==
    /\ At(w, "copy")
    /\ \E v \in IF valid[w] THEN {ptr[w]} ELSE Values : Take(w, v)
    /\ ptr' = [ptr EXCEPT ![w] = 0]
    /\ valid' = [valid EXCEPT ![w] = FALSE]
    /\ UNCHANGED <<stmtVars, arg, clean, calls, crashed>>

\* The process dies in w: sqlite reads a bound string that is gone, a
\* std::string is built from the NULL that column_text gives when there is no
\* row, or from text that is gone.
Dies(w) ==
    /\ \/ At(w, "step") /\ mode[St(w)] # "row" /\ op[w].key = "text" /\ Dangling(St(w))
       \/ At(w, "column") /\ NextColumn(w) = "text" /\ mode[St(w)] # "row"
       \/ At(w, "copy") /\ ~valid[w]
    /\ crashed' = TRUE
    /\ UNCHANGED <<stmtVars, threadVars>>

\* Every thread has made its calls, or the process is dead.
Finished ==
    /\ crashed \/ \A w \in Workers : pc[w] \notin InCall /\ calls[w] = MaxCalls
    /\ UNCHANGED vars

Next ==
    \/ \E w \in Workers :
          \/ Call(w) \/ clear_bindings(w) \/ reset(w) \/ bind(w) \/ step(w)
          \/ column_int(w) \/ column_text(w) \/ copy(w) \/ Dies(w)
    \/ Finished

Spec == Init /\ [][Next]_vars

-----------------------------------------------------------------------------
(* Properties.                                                             *)

\* The rows a lookup is to deliver: all of them, or the first.
Wanted(l, k) ==
    LET all == RowsOf(l.stmt, k) IN
    IF l.rows = "all" \/ all = <<>> THEN all ELSE <<all[1]>>

\* What member function f is to return for k; <<>> from a one-row lookup is
\* an exception.
Answer(f, k) ==
    LET type == Wanted(f, k)[1][1] IN
    IF f = get_itemtypeinfo /\ Wanted(f, k) # <<>> /\ type \notin BaseTypes
    THEN Wanted(TypeInfo, IF type \in Keys THEN type ELSE NoKey)
    ELSE Wanted(f, k)

Function(w) == IF op[w] = TypeInfo THEN get_itemtypeinfo ELSE op[w]

\* The outcome of the lookup that w has just ended is the right one.
Correct(w) ==
    /\ pc[w] = "returned" => out[w] = Answer(Function(w), arg[w])
    /\ pc[w] = "threw" => op[w].rows = "one" /\ Answer(Function(w), arg[w]) = <<>>

\* Whatever state earlier lookups (of any thread) left a statement in - on a
\* row, run to its end, with an old key bound, after an exception - the
\* sequence clear_bindings, reset, bind, step, column gives the right answer,
\* as long as no other thread changes the statement in the middle of it.
IsolatedLookupCorrect == \A w \in Workers : clean[w] => Correct(w)

\* The process only dies in a lookup that was interfered with.
CrashOnlyByInterference ==
    crashed => \E w \in Workers : pc[w] \in {"step", "column", "copy"} /\ ~clean[w]

\* Every lookup is right.  It holds for one thread; the tests of ftd_protocalif
\* state it, and the server makes the lookups from several threads.
LookupCorrect == \A w \in Workers : Correct(w)
=============================================================================
