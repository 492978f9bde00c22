-------------------------- MODULE StmtLookupProofs --------------------------
(***************************************************************************)
(* A lookup that nobody interferes with gives the right answer, for every  *)
(* number of threads, every table and every history of earlier lookups,    *)
(* and the process cannot die in it.                                       *)
(***************************************************************************)
EXTENDS StmtLookup, HandlerCopies, SequenceTheorems, TLAPS

\* The shape of the thirteen statement uses.
LEMMA LookupShape ==
    /\ \A l \in Lookups :
          /\ l.stmt \in Stmts
          /\ l.rows \in {"one", "all"}
          /\ l.cols \in Seq({"text", "int"}) /\ Len(l.cols) \in Nat \ {0}
    /\ TypeInfo \in Lookups /\ get_itemtypeinfo \in Lookups
    /\ get_fidname \in Lookups
    /\ Operations \subseteq Lookups
    /\ TypeInfo \notin Operations
    /\ TypeInfo.rows = "one" /\ get_itemtypeinfo.rows = "one"
    /\ Len(get_itemtypeinfo.cols) = 1
  BY DEF Lookups, Operations, Stmts, get_fidname, get_fidvalue, get_tidname,
     get_package_field_list, get_req_package_field_list,
     get_rsp_package_field_list, get_fielditem_list, get_itemtypeinfo, TypeInfo,
     get_sp_name, get_input_items, get_output_items, get_result_items,
     FieldList, Items

\* What a statement yields for a key, bound or not.
LEMMA RowsOfType ==
    ASSUME NEW l \in Lookups, NEW k \in Keys \cup {NoKey}
    PROVE /\ RowsOf(l.stmt, k) \in Seq(Seq(Values))
          /\ Len(RowsOf(l.stmt, k)) \in Nat
          /\ \A i \in 1..Len(RowsOf(l.stmt, k)) :
                /\ RowsOf(l.stmt, k)[i] \in Seq(Values)
                /\ Len(RowsOf(l.stmt, k)[i]) = Len(l.cols)
<1>1. CASE k \in Keys
  <2>1. l.stmt \in Stmts
    BY LookupShape
  <2>2. RowsOf(l.stmt, k) = Rows[l.stmt][k] /\ Rows[l.stmt][k] \in Seq(Seq(Values))
    BY <1>1, <2>1, LookupAssumption DEF RowsOf
  <2>3. \A i \in 1..Len(Rows[l.stmt][k]) : Len(Rows[l.stmt][k][i]) = Len(l.cols)
    BY <1>1, LookupAssumption
  <2> QED
    BY <2>2, <2>3
<1>2. CASE k = NoKey
  BY <1>2, LookupAssumption DEF RowsOf
<1> QED
  BY <1>1, <1>2

-----------------------------------------------------------------------------
(* The inductive invariant, for each thread.                               *)

\* The rows that thread w is after.
Target(w) == RowsOf(St(w), key[w])

\* Where the code is, whatever other threads do: a row is read to its last
\* column, and a one-row lookup ends with its first row.
ShapeInv(w) ==
    /\ pc[w] \notin {"column", "copy"} => cur[w] = <<>>
    /\ pc[w] \in {"column", "copy"} => Len(cur[w]) < Len(op[w].cols)
    /\ pc[w] \in {"clear_bindings", "reset", "bind"} => out[w] = <<>>
    /\ pc[w] \in InCall /\ op[w].rows = "one" => out[w] = <<>>

\* The item's type that the second half of get_itemtypeinfo looks up.
AsKey(v) == IF v \in Keys THEN v ELSE NoKey

ArgInv(w) ==
    /\ op[w] # TypeInfo => key[w] = arg[w]
    /\ clean[w] /\ op[w] = TypeInfo =>
          LET item == RowsOf(get_itemtypeinfo.stmt, arg[w]) IN
          item # <<>> /\ item[1][1] \notin BaseTypes /\ key[w] = AsKey(item[1][1])

\* The rows read so far are the first ones of the target.
ReadSoFar(w) ==
    /\ Len(out[w]) <= Len(Target(w))
    /\ \A i \in 1..Len(out[w]) : out[w][i] = Target(w)[i]

\* The statement is where thread w left it.
Ours(w) ==
    /\ pc[w] = "bind" => mode[St(w)] = "ready"
    /\ pc[w] = "step" =>
          \/ /\ mode[St(w)] = "ready"
             /\ bound[St(w)] = key[w] /\ binder[St(w)] = w /\ out[w] = <<>>
          \/ /\ mode[St(w)] = "row" /\ op[w].rows = "all"
             /\ running[St(w)] = key[w] /\ pos[St(w)] = Len(out[w])
    /\ pc[w] \in {"column", "copy"} =>
          /\ mode[St(w)] = "row" /\ running[St(w)] = key[w]
          /\ pos[St(w)] = Len(out[w]) + 1 /\ pos[St(w)] <= Len(Target(w))
          /\ \A c \in 1..Len(cur[w]) : cur[w][c] = Target(w)[pos[St(w)]][c]
    /\ pc[w] = "copy" => valid[w] /\ ptr[w] = Shown(w)
    /\ pc[w] \in InCall => ReadSoFar(w)

ThreadInv(w) ==
    /\ ShapeInv(w)
    /\ ArgInv(w)
    /\ clean[w] => Ours(w) /\ Correct(w)

\* A statement that is on a row is on a row of what it executes.
OnRow == \A s \in Stmts : mode[s] = "row" => pos[s] \in 1..Len(RowsOf(s, running[s]))

IInv ==
    /\ TypeOK
    /\ OnRow
    /\ \A w \in Workers : ThreadInv(w)
    /\ CrashOnlyByInterference

-----------------------------------------------------------------------------
(* Type correctness.                                                       *)

\* A column that is read from a row is a value.
LEMMA ShownType ==
    ASSUME TypeOK, OnRow, NEW w \in Workers, ShapeInv(w),
           pc[w] = "column", mode[St(w)] = "row"
    PROVE Shown(w) \in Values
<1> DEFINE rows == RowsOf(St(w), running[St(w)])
<1>1. op[w] \in Lookups /\ St(w) \in Stmts /\ St(w) = op[w].stmt
  BY LookupShape DEF TypeOK, St
<1>2. running[St(w)] \in Keys \cup {NoKey}
  BY <1>1 DEF TypeOK
<1>3. /\ pos[St(w)] \in 1..Len(rows)
      /\ rows[pos[St(w)]] \in Seq(Values)
      /\ Len(rows[pos[St(w)]]) = Len(op[w].cols)
  BY <1>1, <1>2, RowsOfType DEF OnRow
<1>4. Len(cur[w]) + 1 \in 1..Len(op[w].cols)
  BY <1>1, LookupShape DEF ShapeInv, TypeOK
<1> QED
  BY <1>3, <1>4 DEF Shown

\* The thread's part of the type invariant after it took a column value.
LEMMA TakeType ==
    ASSUME TypeOK, NEW w \in Workers, NEW v \in Values, Take(w, v)
    PROVE /\ pc' \in [Workers -> InCall \cup {"idle", "returned", "threw"}]
          /\ op' \in [Workers -> Lookups]
          /\ key' \in [Workers -> Keys \cup {NoKey}]
          /\ out' \in [Workers -> Seq(Seq(Values))]
          /\ cur' \in [Workers -> Seq(Values)]
<1>1. Append(cur[w], v) \in Seq(Values) /\ <<>> \in Seq(Values)
  BY DEF TypeOK
<1>2. Append(out[w], Append(cur[w], v)) \in Seq(Seq(Values))
  BY <1>1 DEF TypeOK
<1> DEFINE row == Append(cur[w], v)
<1>3. CASE /\ cur' = [cur EXCEPT ![w] = row]
           /\ Goto(w, "column")
           /\ UNCHANGED <<op, key, out>>
  BY <1>1, <1>3 DEF TypeOK, Goto, InCall
<1>4. CASE /\ cur' = [cur EXCEPT ![w] = <<>>]
           /\ op' = [op EXCEPT ![w] = TypeInfo]
           /\ key' = [key EXCEPT ![w] = IF v \in Keys THEN v ELSE NoKey]
           /\ Goto(w, "clear_bindings")
           /\ UNCHANGED out
  BY <1>1, <1>4, LookupShape DEF TypeOK, Goto, InCall
<1>5. CASE /\ cur' = [cur EXCEPT ![w] = <<>>]
           /\ out' = [out EXCEPT ![w] = Append(@, row)]
           /\ Goto(w, IF op[w].rows = "all" THEN "step" ELSE "returned")
           /\ UNCHANGED <<op, key>>
  BY <1>1, <1>2, <1>5 DEF TypeOK, Goto, InCall
<1> QED
  BY <1>3, <1>4, <1>5 DEF Take

\* The same for a thread that goes on to the next row or ends its lookup.
LEMMA AdvanceType ==
    ASSUME TypeOK, NEW w \in Workers, St(w) \in Stmts,
           NEW k \in Keys \cup {NoKey}, NEW p \in Nat, Advance(w, k, p)
    PROVE /\ running' \in [Stmts -> Keys \cup {NoKey}]
          /\ mode' \in [Stmts -> {"ready", "row", "done"}]
          /\ pos' \in [Stmts -> Nat]
          /\ pc' \in [Workers -> InCall \cup {"idle", "returned", "threw"}]
<1>1. running' \in [Stmts -> Keys \cup {NoKey}]
  BY DEF Advance, TypeOK
<1>2. CASE /\ mode' = [mode EXCEPT ![St(w)] = "row"]
           /\ pos' = [pos EXCEPT ![St(w)] = p]
           /\ Goto(w, "column")
  BY <1>1, <1>2 DEF TypeOK, Goto, InCall
<1>3. CASE /\ mode' = [mode EXCEPT ![St(w)] = "done"]
           /\ pos' = [pos EXCEPT ![St(w)] = 0]
           /\ Goto(w, IF op[w].rows = "all" THEN "returned" ELSE "threw")
  BY <1>1, <1>3 DEF TypeOK, Goto, InCall
<1> QED
  BY <1>2, <1>3 DEF Advance

\* What a step advances with.
LEMMA StepAdvances ==
    ASSUME TypeOK, NEW w \in Workers, step(w)
    PROVE \E k \in Keys \cup {NoKey}, p \in Nat : Advance(w, k, p)
<1>1. St(w) \in Stmts
  BY LookupShape DEF TypeOK, St
<1>2. CASE mode[St(w)] = "row" /\ Advance(w, running[St(w)], pos[St(w)] + 1)
  <2>1. running[St(w)] \in Keys \cup {NoKey} /\ pos[St(w)] + 1 \in Nat
    BY <1>1 DEF TypeOK
  <2> QED
    BY <1>2, <2>1
<1>3. CASE mode[St(w)] # "row" /\ \E k \in Parameter(w) : Advance(w, k, 1)
  <2>1. Parameter(w) \subseteq Keys \cup {NoKey}
    BY <1>1 DEF Parameter, TypeOK
  <2> QED
    BY <1>3, <2>1
<1> QED
  BY <1>2, <1>3 DEF step

\* Every call leaves the statements and the threads well typed.
LEMMA TypeStep ==
    ASSUME TypeOK, OnRow, \A w \in Workers : ShapeInv(w), [Next]_vars
    PROVE TypeOK'
<1> USE DEF stmtVars, threadVars
<1>0. \A w \in Workers : St(w) \in Stmts
  BY LookupShape DEF St, TypeOK
<1>1. ASSUME NEW w \in Workers, Call(w) PROVE TypeOK'
  <2>1. Offered \subseteq Lookups /\ MaxCalls \in Nat
    BY LookupAssumption, LookupShape
  <2> QED
    BY <1>1, <2>1 DEF Call, TypeOK, Goto, InCall
<1>2. ASSUME NEW w \in Workers, clear_bindings(w) PROVE TypeOK'
  BY <1>0, <1>2 DEF clear_bindings, Disturb, TypeOK, Goto, InCall
<1>3. ASSUME NEW w \in Workers, reset(w) PROVE TypeOK'
  BY <1>0, <1>3 DEF reset, Disturb, FreeText, TypeOK, Goto, InCall
<1>4. ASSUME NEW w \in Workers, bind(w) PROVE TypeOK'
  <2>1. CASE /\ bound' = [bound EXCEPT ![St(w)] = key[w]]
             /\ binder' = [binder EXCEPT ![St(w)] = w]
             /\ Disturb(w) /\ Goto(w, "step")
    <3>1. UNCHANGED <<mode, running, pos, op, arg, key, out, cur, ptr, valid,
                      calls, crashed>>
      BY <1>4 DEF bind
    <3>2. key[w] \in Keys \cup {NoKey}
      BY DEF TypeOK
    <3> QED
      BY <1>0, <2>1, <3>1, <3>2 DEF Disturb, TypeOK, Goto, InCall
  <2>2. CASE Goto(w, "threw") /\ UNCHANGED <<bound, binder, clean>>
    BY <1>4, <2>2 DEF bind, TypeOK, Goto, InCall
  <2> QED
    BY <1>4, <2>1, <2>2 DEF bind
<1>5. ASSUME NEW w \in Workers, step(w) PROVE TypeOK'
  <2>1. /\ running' \in [Stmts -> Keys \cup {NoKey}]
        /\ mode' \in [Stmts -> {"ready", "row", "done"}]
        /\ pos' \in [Stmts -> Nat]
        /\ pc' \in [Workers -> InCall \cup {"idle", "returned", "threw"}]
    BY <1>0, <1>5, StepAdvances, AdvanceType
  <2>2. /\ Disturb(w) /\ FreeText(w)
        /\ UNCHANGED <<bound, binder, op, arg, key, out, cur, ptr, calls, crashed>>
    BY <1>5 DEF step
  <2> QED
    BY <2>1, <2>2 DEF Disturb, FreeText, TypeOK
<1>6. ASSUME NEW w \in Workers, column_int(w) PROVE TypeOK'
  <2>1. \E v \in Values : Take(w, v)
    BY <1>6, LookupAssumption, ShownType DEF column_int, At
  <2>2. UNCHANGED <<stmtVars, arg, ptr, valid, clean, calls, crashed>>
    BY <1>6 DEF column_int
  <2> QED
    BY <2>1, <2>2, TakeType DEF TypeOK
<1>7. ASSUME NEW w \in Workers, column_text(w) PROVE TypeOK'
  <2>1. Shown(w) \in Values
    BY <1>7, ShownType DEF column_text, At
  <2> QED
    BY <1>7, <2>1 DEF column_text, TypeOK, Goto, InCall
<1>8. ASSUME NEW w \in Workers, copy(w) PROVE TypeOK'
  <2>1. \E v \in Values : Take(w, v)
    BY <1>8 DEF copy, TypeOK
  <2>2. /\ ptr' = [ptr EXCEPT ![w] = 0] /\ valid' = [valid EXCEPT ![w] = FALSE]
        /\ UNCHANGED <<stmtVars, arg, clean, calls, crashed>>
    BY <1>8 DEF copy
  <2> QED
    BY <2>1, <2>2, TakeType, LookupAssumption DEF TypeOK
<1>9. ASSUME NEW w \in Workers, Dies(w) PROVE TypeOK'
  BY <1>9 DEF Dies, TypeOK
<1>10. CASE UNCHANGED vars
  BY <1>10 DEF vars, TypeOK
<1> QED
  BY <1>1, <1>2, <1>3, <1>4, <1>5, <1>6, <1>7, <1>8, <1>9, <1>10 DEF Next, Finished

-----------------------------------------------------------------------------
(* Threads that do not move.                                               *)

\* What thread v's call leaves of thread u.
SameThread(u) ==
    /\ pc'[u] = pc[u] /\ op'[u] = op[u] /\ arg'[u] = arg[u] /\ key'[u] = key[u]
    /\ out'[u] = out[u] /\ cur'[u] = cur[u] /\ ptr'[u] = ptr[u]

SameStmt(s) ==
    /\ mode'[s] = mode[s] /\ bound'[s] = bound[s] /\ binder'[s] = binder[s]
    /\ running'[s] = running[s] /\ pos'[s] = pos[s]

\* A thread that is not disturbed keeps its invariant, and one that is
\* disturbed is no longer clean.
LEMMA Bystander ==
    ASSUME NEW u \in Workers, ThreadInv(u), SameThread(u),
           clean'[u] => clean[u],
           clean'[u] /\ pc[u] \in {"bind", "step", "column", "copy"} =>
               SameStmt(St(u)) /\ valid'[u] = valid[u]
    PROVE ThreadInv(u)'
<1>1. ShapeInv(u)'
  BY DEF ThreadInv, ShapeInv, SameThread
<1>2. ArgInv(u)'
  BY DEF ThreadInv, ArgInv, SameThread, RowsOf
<1>3. ASSUME clean'[u] PROVE Correct(u)'
  BY <1>3 DEF ThreadInv, SameThread, Correct, Answer, Function, Wanted, RowsOf
<1>4. ASSUME clean'[u] PROVE Ours(u)'
  <2>1. Ours(u)
    BY <1>4 DEF ThreadInv
  <2>2. St(u)' = St(u) /\ Target(u)' = Target(u)
    BY DEF SameThread, St, Target, RowsOf
  <2>3. ReadSoFar(u) => ReadSoFar(u)'
    BY <2>2 DEF ReadSoFar, SameThread
  <2>4. CASE pc[u] \in {"bind", "step", "column", "copy"}
    <3>1. SameStmt(St(u)) /\ valid'[u] = valid[u]
      BY <1>4, <2>4
    <3>2. Shown(u)' = Shown(u)
      BY <2>2, <3>1 DEF Shown, RowsOf, SameThread, SameStmt
    <3> QED
      BY <2>1, <2>2, <2>3, <3>1, <3>2 DEF Ours, SameThread, SameStmt
  <2>5. CASE pc[u] \notin {"bind", "step", "column", "copy"}
    BY <2>1, <2>2, <2>3, <2>5 DEF Ours, SameThread
  <2> QED
    BY <2>4, <2>5
<1> QED
  BY <1>1, <1>2, <1>3, <1>4 DEF ThreadInv

\* Every call of v leaves the others as Bystander needs them.
LEMMA Bystanders ==
    ASSUME TypeOK, \A w \in Workers : ThreadInv(w), NEW v \in Workers,
           \/ Call(v) \/ clear_bindings(v) \/ reset(v) \/ bind(v) \/ step(v)
           \/ column_int(v) \/ column_text(v) \/ copy(v) \/ Dies(v)
    PROVE \A u \in Workers \ {v} : ThreadInv(u)'
<1> SUFFICES ASSUME NEW u \in Workers, u # v PROVE ThreadInv(u)'
  OBVIOUS
<1> DEFINE Kept == /\ SameThread(u)
                   /\ clean'[u] => clean[u]
                   /\ clean'[u] /\ pc[u] \in {"bind", "step", "column", "copy"} =>
                         SameStmt(St(u)) /\ valid'[u] = valid[u]
<1> USE DEF stmtVars, threadVars
<1>0. /\ ThreadInv(u)
      /\ St(u) \in Stmts /\ St(v) \in Stmts
  BY LookupShape DEF St, TypeOK
<1>1. CASE Call(v)
  <2>1. Kept
    BY <1>1 DEF Call, TypeOK, Goto, SameThread, SameStmt
  <2> QED
    BY <1>0, <2>1, Bystander
<1>2. CASE clear_bindings(v)
  <2>1. Kept
    BY <1>0, <1>2 DEF clear_bindings, Disturb, Disturbed, TypeOK, Goto, SameThread,
       SameStmt
  <2> QED
    BY <1>0, <2>1, Bystander
<1>3. CASE reset(v)
  <2>1. Kept
    BY <1>0, <1>3 DEF reset, Disturb, Disturbed, FreeText, TypeOK, Goto, SameThread,
       SameStmt
  <2> QED
    BY <1>0, <2>1, Bystander
<1>4. CASE bind(v)
  <2>1. CASE /\ bound' = [bound EXCEPT ![St(v)] = key[v]]
             /\ binder' = [binder EXCEPT ![St(v)] = v]
             /\ Disturb(v) /\ Goto(v, "step")
    <3>1. UNCHANGED <<mode, running, pos, op, arg, key, out, cur, ptr, valid,
                      calls, crashed>>
      BY <1>4 DEF bind
    <3>2. Kept
      BY <1>0, <2>1, <3>1 DEF Disturb, Disturbed, TypeOK, Goto, SameThread, SameStmt
    <3> QED
      BY <1>0, <3>2, Bystander
  <2>2. CASE Goto(v, "threw") /\ UNCHANGED <<bound, binder, clean>>
    <3>1. Kept
      BY <1>4, <2>2 DEF bind, TypeOK, Goto, SameThread, SameStmt
    <3> QED
      BY <1>0, <3>1, Bystander
  <2> QED
    BY <1>4, <2>1, <2>2 DEF bind
<1>5. CASE step(v)
  <2>1. PICK k \in Keys \cup {NoKey}, p \in Nat : Advance(v, k, p)
    BY <1>5, StepAdvances
  <2>2. \A s \in Stmts : s # St(v) =>
           mode'[s] = mode[s] /\ running'[s] = running[s] /\ pos'[s] = pos[s]
    BY <1>0, <2>1 DEF Advance, TypeOK
  <2>3. pc'[u] = pc[u]
    BY <2>1 DEF Advance, Goto, TypeOK
  <2>4. /\ Disturb(v) /\ FreeText(v)
        /\ UNCHANGED <<bound, binder, op, arg, key, out, cur, ptr, calls, crashed>>
    BY <1>5 DEF step
  <2>5. Kept
    BY <1>0, <2>2, <2>3, <2>4 DEF Disturb, Disturbed, FreeText, TypeOK, SameThread,
       SameStmt
  <2> QED
    BY <1>0, <2>5, Bystander
<1>6. ASSUME NEW c, Take(v, c) PROVE /\ pc'[u] = pc[u] /\ op'[u] = op[u]
                                     /\ key'[u] = key[u] /\ out'[u] = out[u]
                                     /\ cur'[u] = cur[u]
  BY <1>6 DEF Take, Goto, TypeOK
<1>7. CASE column_int(v)
  <2>1. Kept
    BY <1>6, <1>7 DEF column_int, SameThread, SameStmt
  <2> QED
    BY <1>0, <2>1, Bystander
<1>8. CASE column_text(v)
  <2>1. Kept
    BY <1>8 DEF column_text, Goto, TypeOK, SameThread, SameStmt
  <2> QED
    BY <1>0, <2>1, Bystander
<1>9. CASE copy(v)
  <2>1. PICK c \in IF valid[v] THEN {ptr[v]} ELSE Values : Take(v, c)
    BY <1>9 DEF copy
  <2>2. Kept
    BY <1>6, <1>9, <2>1 DEF copy, TypeOK, SameThread, SameStmt
  <2> QED
    BY <1>0, <2>2, Bystander
<1>10. CASE Dies(v)
  <2>1. Kept
    BY <1>10 DEF Dies, SameThread, SameStmt
  <2> QED
    BY <1>0, <2>1, Bystander
<1> QED
  BY <1>1, <1>2, <1>3, <1>4, <1>5, <1>7, <1>8, <1>9, <1>10

-----------------------------------------------------------------------------
(* The thread that moves.                                                  *)

\* A clean lookup that is over but for its last row, or has no row, delivers
\* what the member function is to return: the chain of get_itemtypeinfo ends
\* at the type the item names.
LEMMA AnswerIsWanted ==
    ASSUME TypeOK, NEW w \in Workers, ArgInv(w), clean[w],
           op[w] = get_itemtypeinfo =>
               Target(w) = <<>> \/ Target(w)[1][1] \in BaseTypes
    PROVE Answer(Function(w), arg[w]) = Wanted(op[w], key[w])
<1>0. /\ get_itemtypeinfo # TypeInfo
      /\ TypeInfo.rows = "one" /\ get_itemtypeinfo.rows = "one"
  BY LookupShape DEF Operations
<1>1. CASE op[w] = TypeInfo
  <2> DEFINE item == RowsOf(get_itemtypeinfo.stmt, arg[w])
  <2>1. item # <<>> /\ item[1][1] \notin BaseTypes /\ key[w] = AsKey(item[1][1])
    BY <1>1 DEF ArgInv
  <2>2. Function(w) = get_itemtypeinfo
    BY <1>1 DEF Function
  <2>3. Wanted(get_itemtypeinfo, arg[w]) = <<item[1]>>
    BY <1>0, <2>1 DEF Wanted
  <2> QED
    BY <1>1, <2>1, <2>2, <2>3 DEF Answer, AsKey
<1>2. CASE op[w] = get_itemtypeinfo
  <2>1. Function(w) = op[w] /\ key[w] = arg[w]
    BY <1>0, <1>2 DEF Function, ArgInv
  <2>2. Target(w) = RowsOf(get_itemtypeinfo.stmt, arg[w])
    BY <1>2, <2>1 DEF Target, St
  <2>3. CASE Target(w) = <<>>
    BY <1>2, <2>1, <2>2, <2>3 DEF Answer, Wanted
  <2>4. CASE Target(w) # <<>> /\ Target(w)[1][1] \in BaseTypes
    <3>1. Wanted(get_itemtypeinfo, arg[w]) = <<Target(w)[1]>>
      BY <1>0, <2>2, <2>4 DEF Wanted
    <3> QED
      BY <1>2, <2>1, <2>4, <3>1 DEF Answer
  <2> QED
    BY <1>2, <2>3, <2>4
<1>3. CASE op[w] # TypeInfo /\ op[w] # get_itemtypeinfo
  BY <1>3 DEF Function, Answer, ArgInv
<1> QED
  BY <1>1, <1>2, <1>3

\* The type of the rows a thread is after, before and after a step.
LEMMA TargetType ==
    ASSUME NEW w \in Workers
    PROVE /\ TypeOK =>
              /\ Target(w) \in Seq(Seq(Values)) /\ Len(Target(w)) \in Nat
              /\ \A i \in 1..Len(Target(w)) :
                    Target(w)[i] \in Seq(Values) /\ Len(Target(w)[i]) = Len(op[w].cols)
          /\ TypeOK' => Len(Target(w)') \in Nat
  BY RowsOfType DEF Target, St, TypeOK

\* A member function begins: nothing is read yet.
LEMMA CallOwn ==
    ASSUME TypeOK, TypeOK', NEW w \in Workers, ThreadInv(w), Call(w)
    PROVE ThreadInv(w)'
<1>1. PICK f \in Offered, k \in Keys :
         /\ op' = [op EXCEPT ![w] = f]
         /\ arg' = [arg EXCEPT ![w] = k]
         /\ key' = [key EXCEPT ![w] = k]
  BY DEF Call
<1>2. op'[w] # TypeInfo /\ key'[w] = arg'[w]
  BY <1>1, LookupShape, LookupAssumption DEF TypeOK
<1>3. pc'[w] = "clear_bindings" /\ out'[w] = <<>> /\ cur'[w] = <<>>
  BY DEF Call, TypeOK, Goto, ThreadInv, ShapeInv, InCall
<1>4. Len(Target(w)') \in Nat
  BY TargetType
<1>5. ReadSoFar(w)'
  BY <1>3, <1>4 DEF ReadSoFar
<1> QED
  BY <1>2, <1>3, <1>5 DEF ThreadInv, ShapeInv, ArgInv, Ours, Correct

\* clear_bindings and reset change no more of the thread than where it is.
LEMMA ClearOwn ==
    ASSUME TypeOK, NEW w \in Workers, ThreadInv(w), clear_bindings(w)
    PROVE ThreadInv(w)'
<1>1. /\ op'[w] = op[w] /\ arg'[w] = arg[w] /\ key'[w] = key[w]
      /\ out'[w] = out[w] /\ cur'[w] = cur[w] /\ clean'[w] = clean[w]
      /\ pc[w] = "clear_bindings" /\ pc'[w] = "reset"
  BY DEF clear_bindings, Disturb, Disturbed, At, Goto, TypeOK
<1>2. Target(w)' = Target(w)
  BY <1>1 DEF Target, St, RowsOf
<1>3. ArgInv(w)'
  BY <1>1 DEF ThreadInv, ArgInv, RowsOf
<1> QED
  BY <1>1, <1>2, <1>3 DEF ThreadInv, ShapeInv, Ours, Correct, ReadSoFar, InCall

\* After its reset the statement is the thread's own, unless one interferes.
LEMMA ResetOwn ==
    ASSUME TypeOK, NEW w \in Workers, ThreadInv(w), reset(w)
    PROVE ThreadInv(w)'
<1>1. /\ op'[w] = op[w] /\ arg'[w] = arg[w] /\ key'[w] = key[w]
      /\ out'[w] = out[w] /\ cur'[w] = cur[w] /\ clean'[w] = clean[w]
      /\ pc[w] = "reset" /\ pc'[w] = "bind"
  BY DEF reset, Disturb, Disturbed, At, Goto, TypeOK
<1>2. Target(w)' = Target(w) /\ St(w)' = St(w) /\ St(w) \in Stmts
  BY <1>1, LookupShape DEF Target, St, RowsOf, TypeOK
<1>3. ArgInv(w)'
  BY <1>1 DEF ThreadInv, ArgInv, RowsOf
<1>4. mode'[St(w)] = "ready"
  BY <1>2 DEF reset, TypeOK
<1> QED
  BY <1>1, <1>2, <1>3, <1>4 DEF ThreadInv, ShapeInv, Ours, Correct, ReadSoFar, InCall

\* bind finds the statement reset if nobody interfered.
LEMMA BindOwn ==
    ASSUME TypeOK, NEW w \in Workers, ThreadInv(w), bind(w)
    PROVE ThreadInv(w)'
<1>1. /\ op'[w] = op[w] /\ arg'[w] = arg[w] /\ key'[w] = key[w]
      /\ out'[w] = out[w] /\ cur'[w] = cur[w] /\ clean'[w] = clean[w]
      /\ pc[w] = "bind" /\ mode' = mode
  BY DEF bind, Disturb, Disturbed, At, TypeOK
<1>2. Target(w)' = Target(w) /\ St(w)' = St(w) /\ St(w) \in Stmts
  BY <1>1, LookupShape DEF Target, St, RowsOf, TypeOK
<1>3. ArgInv(w)'
  BY <1>1 DEF ThreadInv, ArgInv, RowsOf
<1>4. CASE mode[St(w)] = "ready"
  <2>1. bound'[St(w)] = key[w] /\ binder'[St(w)] = w /\ pc'[w] = "step"
    BY <1>2, <1>4 DEF bind, TypeOK, Goto
  <2> QED
    BY <1>1, <1>2, <1>3, <1>4, <2>1
    DEF ThreadInv, ShapeInv, Ours, Correct, ReadSoFar, InCall
<1>5. CASE mode[St(w)] # "ready"
  <2>1. pc'[w] = "threw" /\ ~clean[w]
    BY <1>1, <1>5 DEF bind, TypeOK, Goto, ThreadInv, Ours
  <2> QED
    BY <1>1, <1>3, <2>1 DEF ThreadInv, ShapeInv, InCall
<1> QED
  BY <1>4, <1>5

\* A clean thread steps to the row after the ones it has read: its own key is
\* bound and alive at the first step, its own execution is on a row after that.
LEMMA CleanStep ==
    ASSUME TypeOK, NEW w \in Workers, ThreadInv(w), step(w), clean[w]
    PROVE Advance(w, key[w], Len(out[w]) + 1)
<1>0. pc[w] = "step" /\ Ours(w)
  BY DEF step, At, ThreadInv
<1>1. CASE mode[St(w)] = "ready"
  <2>1. bound[St(w)] = key[w] /\ binder[St(w)] = w /\ Len(out[w]) = 0
    BY <1>0, <1>1 DEF Ours
  <2>2. ~Dangling(St(w))
    BY <1>0, <2>1 DEF Dangling
  <2>3. Parameter(w) = {key[w]}
    BY <2>1, <2>2 DEF Parameter
  <2>4. \E k \in Parameter(w) : Advance(w, k, 1)
    BY <1>1 DEF step
  <2> QED
    BY <2>1, <2>3, <2>4
<1>2. CASE mode[St(w)] = "row"
  <2>1. running[St(w)] = key[w] /\ pos[St(w)] = Len(out[w])
    BY <1>0, <1>2 DEF Ours
  <2> QED
    BY <1>2, <2>1 DEF step
<1> QED
  BY <1>0, <1>1, <1>2 DEF Ours

\* step: on to the next row, or the end of the lookup with all rows read.
LEMMA StepOwn ==
    ASSUME TypeOK, NEW w \in Workers, ThreadInv(w), step(w)
    PROVE ThreadInv(w)'
<1>0. op[w] \in Lookups /\ St(w) = op[w].stmt /\ St(w) \in Stmts
  BY LookupShape DEF St, TypeOK
<1>1. /\ op'[w] = op[w] /\ arg'[w] = arg[w] /\ key'[w] = key[w]
      /\ out'[w] = out[w] /\ cur'[w] = cur[w] /\ clean'[w] = clean[w]
      /\ pc[w] = "step"
  BY DEF step, Disturb, Disturbed, At, TypeOK
<1>2. Target(w)' = Target(w) /\ St(w)' = St(w)
  BY <1>1 DEF Target, St, RowsOf
<1>3. ArgInv(w)'
  BY <1>1 DEF ThreadInv, ArgInv, RowsOf
<1>4. /\ pc'[w] \in {"column", "returned", "threw"}
      /\ cur[w] = <<>> /\ (op[w].rows = "one" => out[w] = <<>>)
  <2>1. PICK k \in Keys \cup {NoKey}, p \in Nat : Advance(w, k, p)
    BY StepAdvances
  <2> QED
    BY <1>1, <2>1 DEF Advance, Goto, TypeOK, ThreadInv, ShapeInv, InCall
<1>5. ShapeInv(w)'
  BY <1>0, <1>1, <1>4, LookupShape DEF ShapeInv
<1>6. ASSUME clean[w] PROVE Ours(w)' /\ Correct(w)'
  <2>1. /\ Advance(w, key[w], Len(out[w]) + 1)
        /\ RowsOf(St(w), key[w]) = Target(w)
        /\ ReadSoFar(w) /\ ArgInv(w)
    BY <1>1, <1>6, CleanStep DEF Target, ThreadInv, Ours, InCall
  <2>2. CASE Len(out[w]) + 1 <= Len(Target(w))
    <3>1. /\ mode'[St(w)] = "row" /\ running'[St(w)] = key[w]
          /\ pos'[St(w)] = Len(out[w]) + 1 /\ pc'[w] = "column"
      BY <1>0, <2>1, <2>2, TargetType DEF Advance, Goto, TypeOK
    <3> QED
      BY <1>1, <1>2, <1>4, <2>1, <2>2, <3>1 DEF Ours, Correct, ReadSoFar
  <2>3. CASE Len(out[w]) + 1 > Len(Target(w))
    <3>1. Len(out[w]) = Len(Target(w))
      BY <2>1, <2>3, TargetType DEF ReadSoFar, TypeOK
    <3>2. out[w] = Target(w)
      BY <2>1, <3>1, TargetType, SeqEqual DEF ReadSoFar, TypeOK
    <3>3. pc'[w] = IF op[w].rows = "all" THEN "returned" ELSE "threw"
      BY <2>1, <2>3, TargetType DEF Advance, Goto, TypeOK
    <3>4. op[w].rows = "one" => Target(w) = <<>>
      BY <1>4, <3>2
    <3>5. Wanted(op[w], key[w]) = Target(w)
      BY <1>0, <3>4, LookupShape DEF Wanted, Target
    <3>6. Answer(Function(w), arg[w]) = Target(w)
      BY <1>6, <2>1, <3>4, <3>5, AnswerIsWanted, LookupShape
    <3>7. Answer(Function(w)', arg'[w]) = Answer(Function(w), arg[w])
      BY <1>1 DEF Function
    <3>8. CASE op[w].rows = "all"
      BY <1>1, <3>2, <3>3, <3>6, <3>7, <3>8 DEF Correct, Ours, InCall
    <3>9. CASE op[w].rows = "one"
      BY <1>1, <3>3, <3>4, <3>6, <3>7, <3>9 DEF Correct, Ours, InCall
    <3> QED
      BY <1>0, <3>8, <3>9, LookupShape
  <2> QED
    BY <2>2, <2>3, TargetType DEF TypeOK
<1> QED
  BY <1>1, <1>3, <1>5, <1>6 DEF ThreadInv

\* Taking the column the statement shows.  The last column completes the row;
\* then a list goes on, get_itemtypeinfo may go on with the type, and any other
\* lookup is over with the right answer.
LEMMA TakeOwn ==
    ASSUME TypeOK, TypeOK', NEW w \in Workers, ThreadInv(w), NEW v \in Values,
           pc[w] \in {"column", "copy"}, Take(w, v), clean[w] => v = Shown(w),
           UNCHANGED <<stmtVars, arg, clean>>
    PROVE ThreadInv(w)'
<1> DEFINE row == Append(cur[w], v)
<1> USE DEF stmtVars
<1>0. /\ op[w] \in Lookups /\ St(w) = op[w].stmt /\ St(w) \in Stmts
      /\ Len(op[w].cols) \in Nat \ {0} /\ op[w].rows \in {"one", "all"}
  BY LookupShape DEF St, TypeOK
<1>1. /\ cur[w] \in Seq(Values) /\ out[w] \in Seq(Seq(Values))
      /\ Len(cur[w]) \in Nat /\ Len(out[w]) \in Nat /\ Len(cur[w]) < Len(op[w].cols)
      /\ row \in Seq(Values) /\ Len(row) = Len(cur[w]) + 1
      /\ row[Len(cur[w]) + 1] = v /\ \A c \in 1..Len(cur[w]) : row[c] = cur[w][c]
  BY DEF TypeOK, ThreadInv, ShapeInv
<1> HIDE DEF row
<1>2. op[w].rows = "one" => out[w] = <<>> /\ Len(out[w]) = 0
  BY DEF ThreadInv, ShapeInv, InCall
<1>3. ASSUME clean[w]
      PROVE /\ mode[St(w)] = "row" /\ running[St(w)] = key[w]
            /\ pos[St(w)] = Len(out[w]) + 1 /\ pos[St(w)] <= Len(Target(w))
            /\ ReadSoFar(w)
            /\ \A c \in 1..Len(row) : row[c] = Target(w)[pos[St(w)]][c]
  <2>1. /\ mode[St(w)] = "row" /\ running[St(w)] = key[w]
        /\ pos[St(w)] = Len(out[w]) + 1 /\ pos[St(w)] <= Len(Target(w))
        /\ \A c \in 1..Len(cur[w]) : cur[w][c] = Target(w)[pos[St(w)]][c]
        /\ ReadSoFar(w)
    BY <1>3 DEF ThreadInv, Ours, InCall
  <2>2. v = Target(w)[pos[St(w)]][Len(cur[w]) + 1]
    BY <1>3, <2>1 DEF Shown, Target
  <2>3. \A c \in 1..Len(row) : c \in 1..Len(cur[w]) \/ c = Len(cur[w]) + 1
    BY <1>1
  <2> QED
    BY <1>1, <2>1, <2>2, <2>3
<1>4. CASE /\ Len(row) < Len(op[w].cols)
           /\ cur' = [cur EXCEPT ![w] = row]
           /\ Goto(w, "column")
           /\ UNCHANGED <<op, key, out>>
  <2>1. cur'[w] = row /\ pc'[w] = "column"
    BY <1>4 DEF Goto, TypeOK
  <2>2. St(w)' = St(w) /\ Target(w)' = Target(w) /\ ArgInv(w)'
    BY <1>4 DEF St, Target, RowsOf, ThreadInv, ArgInv
  <2>3. ShapeInv(w)'
    BY <1>2, <1>4, <2>1 DEF ShapeInv
  <2>4. clean[w] => Ours(w)' /\ Correct(w)'
    BY <1>3, <1>4, <2>1, <2>2 DEF Ours, Correct, ReadSoFar
  <2> QED
    BY <2>2, <2>3, <2>4 DEF ThreadInv
<1>5. CASE /\ Len(row) = Len(op[w].cols)
           /\ cur' = [cur EXCEPT ![w] = <<>>]
           /\ op[w] = get_itemtypeinfo /\ v \notin BaseTypes
           /\ op' = [op EXCEPT ![w] = TypeInfo]
           /\ key' = [key EXCEPT ![w] = IF v \in Keys THEN v ELSE NoKey]
           /\ Goto(w, "clear_bindings")
           /\ UNCHANGED out
  <2>1. /\ cur'[w] = <<>> /\ pc'[w] = "clear_bindings" /\ op'[w] = TypeInfo
        /\ key'[w] = AsKey(v) /\ out'[w] = <<>>
    BY <1>2, <1>5, LookupShape DEF Goto, TypeOK, AsKey
  <2>2. ShapeInv(w)'
    BY <2>1 DEF ShapeInv
  <2>3. ASSUME clean[w]
        PROVE LET item == RowsOf(get_itemtypeinfo.stmt, arg[w]) IN
              item # <<>> /\ item[1][1] = v
    <3>1. key[w] = arg[w]
      BY <1>5, LookupShape DEF ThreadInv, ArgInv, Operations
    <3>2. RowsOf(get_itemtypeinfo.stmt, arg[w]) = Target(w)
      BY <1>0, <1>5, <3>1 DEF Target
    <3>3. Len(cur[w]) = 0 /\ pos[St(w)] = 1 /\ Len(Target(w)) >= 1
      <4>1. op[w].rows = "one" /\ Len(op[w].cols) = 1
        BY <1>5, LookupShape
      <4>2. Len(cur[w]) = 0 /\ Len(out[w]) = 0
        BY <1>1, <1>2, <4>1
      <4> QED
        BY <1>3, <2>3, <4>2, TargetType
    <3>4. Target(w)[1][1] = v
      BY <1>1, <1>3, <2>3, <3>3
    <3> QED
      BY <3>2, <3>3, <3>4
  <2>4. ArgInv(w)'
    BY <1>5, <2>1, <2>3 DEF ArgInv, RowsOf
  <2>5. Ours(w)' /\ Correct(w)'
    BY <2>1, TargetType DEF Ours, Correct, ReadSoFar
  <2> QED
    BY <2>2, <2>4, <2>5 DEF ThreadInv
<1>6. CASE /\ Len(row) = Len(op[w].cols)
           /\ cur' = [cur EXCEPT ![w] = <<>>]
           /\ ~(op[w] = get_itemtypeinfo /\ v \notin BaseTypes)
           /\ out' = [out EXCEPT ![w] = Append(@, row)]
           /\ Goto(w, IF op[w].rows = "all" THEN "step" ELSE "returned")
           /\ UNCHANGED <<op, key>>
  <2>1. /\ cur'[w] = <<>> /\ out'[w] = Append(out[w], row)
        /\ pc'[w] = IF op[w].rows = "all" THEN "step" ELSE "returned"
    BY <1>6 DEF Goto, TypeOK
  <2>2. St(w)' = St(w) /\ Target(w)' = Target(w) /\ ArgInv(w)'
    BY <1>6 DEF St, Target, RowsOf, ThreadInv, ArgInv
  <2>3. ShapeInv(w)'
    BY <1>0, <1>6, <2>1 DEF ShapeInv, InCall
  <2>4. ASSUME clean[w] PROVE row = Target(w)[pos[St(w)]]
    <3>1. pos[St(w)] \in 1..Len(Target(w))
      BY <1>1, <1>3, <2>4, TargetType
    <3>2. Target(w)[pos[St(w)]] \in Seq(Values) /\ Len(Target(w)[pos[St(w)]]) = Len(row)
      BY <1>6, <3>1, TargetType
    <3> QED
      BY <1>1, <1>3, <2>4, <3>2, SeqEqual
  <2>5. ASSUME clean[w], op[w].rows = "all" PROVE Ours(w)' /\ Correct(w)'
    <3>1. Len(out'[w]) = Len(out[w]) + 1 /\ out'[w][Len(out[w]) + 1] = row
          /\ \A i \in 1..Len(out[w]) : out'[w][i] = out[w][i]
      BY <1>1, <2>1
    <3>2. ReadSoFar(w)'
      <4>1. Len(out'[w]) = pos[St(w)] /\ pos[St(w)] <= Len(Target(w))
        BY <1>3, <2>5, <3>1
      <4>2. \A i \in 1..Len(out'[w]) : out'[w][i] = Target(w)[i]
        <5>1. Len(out[w]) \in Nat /\ pos[St(w)] = Len(out[w]) + 1
          BY <1>1, <1>3, <2>5, <3>1, <4>1, LenProperties
        <5>2. \A i \in 1..Len(out[w]) : out[w][i] = Target(w)[i]
          BY <1>3, <2>5 DEF ReadSoFar
        <5>3. out'[w][Len(out[w]) + 1] = Target(w)[Len(out[w]) + 1]
          BY <2>4, <2>5, <3>1, <5>1
        <5>4. \A i \in 1..Len(out'[w]) : i \in 1..Len(out[w]) \/ i = Len(out[w]) + 1
          BY <3>1, <5>1
        <5> QED BY <3>1, <5>2, <5>3, <5>4
      <4>3. Len(out'[w]) <= Len(Target(w)')
        BY <2>2, <4>1
      <4>4. \A i \in 1..Len(out'[w]) : out'[w][i] = Target(w)'[i]
        BY <2>2, <4>2
      <4> QED
        BY <4>3, <4>4 DEF ReadSoFar
    <3> QED
      BY <1>3, <1>6, <2>1, <2>2, <2>5, <3>1, <3>2 DEF Ours, Correct
  <2>6. ASSUME clean[w], op[w].rows = "one" PROVE Ours(w)' /\ Correct(w)'
    <3>1. out'[w] = <<Target(w)[1]>> /\ Target(w) # <<>> /\ pos[St(w)] = 1
      <4>1. pos[St(w)] = 1 /\ 1 <= Len(Target(w)) /\ Target(w) # <<>>
        BY <1>2, <1>3, <2>6, TargetType
      <4>2. out'[w] = <<row>> /\ row = Target(w)[1]
        <5>1. row = Target(w)[1]
          BY <2>4, <2>6, <4>1
        <5>2. out'[w] = Append(<<>>, row)
          BY <1>2, <2>1, <2>6
        <5> QED
          BY <5>1, <5>2
      <4> QED
        BY <4>1, <4>2
    <3>2. Wanted(op[w], key[w]) = <<Target(w)[1]>>
      BY <1>0, <2>6, <3>1 DEF Wanted, Target
    <3>3. op[w] = get_itemtypeinfo => Target(w)[1][1] \in BaseTypes
      BY <1>1, <1>3, <1>6, <2>6, <3>1, LookupShape
    <3>4. Answer(Function(w), arg[w]) = <<Target(w)[1]>>
      BY <2>6, <3>2, <3>3, AnswerIsWanted DEF ThreadInv
    <3>5. Answer(Function(w)', arg'[w]) = Answer(Function(w), arg[w])
      BY <1>6 DEF Function
    <3> QED
      BY <2>1, <2>6, <3>1, <3>4, <3>5 DEF Ours, Correct, InCall
  <2> QED
    BY <1>0, <2>2, <2>3, <2>5, <2>6 DEF ThreadInv
<1> QED
  BY <1>4, <1>5, <1>6 DEF Take, row

\* column_text shows a clean thread the next column of its row.
LEMMA ColumnTextOwn ==
    ASSUME TypeOK, NEW w \in Workers, ThreadInv(w), column_text(w)
    PROVE ThreadInv(w)'
<1>1. /\ op'[w] = op[w] /\ arg'[w] = arg[w] /\ key'[w] = key[w]
      /\ out'[w] = out[w] /\ cur'[w] = cur[w] /\ clean'[w] = clean[w]
      /\ pc[w] = "column" /\ pc'[w] = "copy" /\ ptr'[w] = Shown(w) /\ valid'[w]
      /\ UNCHANGED stmtVars
  BY DEF column_text, At, Goto, TypeOK
<1>2. St(w)' = St(w) /\ Target(w)' = Target(w) /\ Shown(w)' = Shown(w) /\ ArgInv(w)'
  BY <1>1 DEF St, Target, Shown, RowsOf, ThreadInv, ArgInv, stmtVars
<1>3. ShapeInv(w)'
  BY <1>1 DEF ThreadInv, ShapeInv, InCall
<1>4. clean[w] => Ours(w)' /\ Correct(w)'
  BY <1>1, <1>2 DEF ThreadInv, Ours, Correct, ReadSoFar, InCall, stmtVars
<1> QED
  BY <1>1, <1>2, <1>3, <1>4 DEF ThreadInv

-----------------------------------------------------------------------------
(* The invariant is inductive.                                             *)

\* Only step moves a statement to a row, and only to one that is there.
LEMMA OnRowStep ==
    ASSUME TypeOK, OnRow, [Next]_vars
    PROVE OnRow'
<1> USE DEF stmtVars, threadVars
<1>1. CASE UNCHANGED <<mode, running, pos>>
  BY <1>1 DEF OnRow, RowsOf
<1>2. ASSUME NEW w \in Workers, reset(w) PROVE OnRow'
  BY <1>2 DEF reset, OnRow, RowsOf, TypeOK
<1>3. ASSUME NEW w \in Workers, step(w) PROVE OnRow'
  <2>1. St(w) \in Stmts
    BY LookupShape DEF St, TypeOK
  <2>2. ASSUME NEW k \in Keys \cup {NoKey}, NEW p \in Nat, p >= 1, Advance(w, k, p)
        PROVE OnRow'
    <3> SUFFICES ASSUME NEW s \in Stmts, mode'[s] = "row"
                 PROVE pos'[s] \in 1..Len(RowsOf(s, running'[s]))
      BY DEF OnRow, RowsOf
    <3>1. CASE s # St(w)
      BY <2>1, <2>2, <3>1 DEF Advance, OnRow, TypeOK
    <3>2. CASE s = St(w)
      <4>1. /\ pos'[s] = p /\ running'[s] = k /\ p <= Len(RowsOf(s, k))
        BY <2>1, <2>2, <3>2 DEF Advance, TypeOK
      <4>2. op[w] \in Lookups /\ s = op[w].stmt
        BY <3>2 DEF St, TypeOK
      <4>3. Len(RowsOf(s, k)) \in Nat
        BY <4>2, RowsOfType
      <4> QED
        BY <2>2, <4>1, <4>3
    <3> QED
      BY <3>1, <3>2
  <2>3. CASE mode[St(w)] = "row" /\ Advance(w, running[St(w)], pos[St(w)] + 1)
    <3>1. running[St(w)] \in Keys \cup {NoKey} /\ pos[St(w)] \in Nat
      BY <2>1 DEF TypeOK
    <3> QED
      BY <2>2, <2>3, <3>1
  <2>4. CASE mode[St(w)] # "row" /\ \E k \in Parameter(w) : Advance(w, k, 1)
    <3>1. Parameter(w) \subseteq Keys \cup {NoKey}
      BY <2>1 DEF Parameter, TypeOK
    <3> QED
      BY <2>2, <2>4, <3>1
  <2> QED
    BY <1>3, <2>3, <2>4 DEF step
<1> QED
  BY <1>1, <1>2, <1>3 DEF Next, vars, Call, clear_bindings, bind, column_int,
     column_text, copy, Dies, Finished

\* All threads keep their invariant, the one that moves and the bystanders.
LEMMA ThreadStep ==
    ASSUME IInv, TypeOK', [Next]_vars
    PROVE \A w \in Workers : ThreadInv(w)'
<1> USE DEF stmtVars, threadVars
<1>1. ASSUME NEW w \in Workers,
             \/ Call(w) \/ clear_bindings(w) \/ reset(w) \/ bind(w) \/ step(w)
             \/ column_int(w) \/ column_text(w) \/ copy(w) \/ Dies(w)
      PROVE \A u \in Workers : ThreadInv(u)'
  <2>0. TypeOK /\ OnRow /\ ThreadInv(w)
    BY DEF IInv
  <2>1. \A u \in Workers \ {w} : ThreadInv(u)'
    BY <1>1, Bystanders DEF IInv
  <2>2. CASE Call(w) \/ clear_bindings(w) \/ reset(w) \/ bind(w) \/ step(w)
             \/ column_text(w)
    BY <2>0, <2>1, <2>2, CallOwn, ClearOwn, ResetOwn, BindOwn, StepOwn, ColumnTextOwn
  <2>3. CASE column_int(w)
    <3>1. pc[w] = "column"
      BY <2>3 DEF column_int, At
    <3>2. \E v \in Values : Take(w, v) /\ (clean[w] => v = Shown(w))
      <4>1. clean[w] => mode[St(w)] = "row"
        BY <2>0, <3>1 DEF ThreadInv, Ours
      <4>2. mode[St(w)] = "row" => Shown(w) \in Values
        BY <2>0, <3>1, ShownType DEF ThreadInv
      <4> QED
        BY <2>3, <4>1, <4>2, LookupAssumption DEF column_int
    <3> QED
      BY <2>0, <2>1, <2>3, <3>1, <3>2, TakeOwn DEF column_int
  <2>4. CASE copy(w)
    <3>1. pc[w] = "copy"
      BY <2>4 DEF copy, At
    <3>2. \E v \in Values : Take(w, v) /\ (clean[w] => v = Shown(w))
      <4>1. clean[w] => valid[w] /\ ptr[w] = Shown(w)
        BY <2>0, <3>1 DEF ThreadInv, Ours
      <4>2. ptr[w] \in Values
        BY <2>0 DEF TypeOK
      <4> QED
        BY <2>4, <4>1, <4>2 DEF copy
    <3> QED
      BY <2>0, <2>1, <2>4, <3>1, <3>2, TakeOwn DEF copy
  <2>5. CASE Dies(w)
    <3>1. SameThread(w) /\ clean' = clean /\ valid' = valid /\ SameStmt(St(w))
      BY <2>5 DEF Dies, SameThread, SameStmt
    <3>2. ThreadInv(w)'
      BY <2>0, <3>1, Bystander
    <3> QED
      BY <2>1, <3>2
  <2> QED
    BY <1>1, <2>2, <2>3, <2>4, <2>5
<1>2. CASE UNCHANGED vars
  <2> SUFFICES ASSUME NEW w \in Workers PROVE ThreadInv(w)'
    OBVIOUS
  <2>1. SameThread(w) /\ clean' = clean /\ valid' = valid /\ SameStmt(St(w))
    BY <1>2 DEF vars, SameThread, SameStmt
  <2> QED
    BY <2>1, Bystander DEF IInv
<1> QED
  BY <1>1, <1>2 DEF Next, Finished

\* The process dies only in a thread that was disturbed: a clean one has its
\* string bound, is on a row when it reads a column, and its text is valid.
LEMMA CrashStep ==
    ASSUME IInv, [Next]_vars
    PROVE CrashOnlyByInterference'
<1> USE DEF stmtVars, threadVars
<1>1. ASSUME NEW w \in Workers, Dies(w) PROVE CrashOnlyByInterference'
  <2>1. ThreadInv(w) /\ pc[w] \in {"step", "column", "copy"}
    BY <1>1 DEF IInv, Dies, At
  <2>2. ASSUME clean[w] PROVE FALSE
    <3>1. Ours(w)
      BY <2>1, <2>2 DEF ThreadInv
    <3>2. ~(pc[w] = "copy" /\ ~valid[w])
      BY <3>1 DEF Ours
    <3>3. ~(pc[w] = "column" /\ mode[St(w)] # "row")
      BY <3>1 DEF Ours
    <3>4. ~(pc[w] = "step" /\ mode[St(w)] # "row" /\ Dangling(St(w)))
      BY <3>1 DEF Ours, Dangling
    <3> QED
      BY <1>1, <3>2, <3>3, <3>4 DEF Dies, At
  <2> QED
    BY <1>1, <2>1, <2>2 DEF Dies, CrashOnlyByInterference
<1>2. CASE UNCHANGED vars
  BY <1>2 DEF IInv, vars, CrashOnlyByInterference
<1>3. CASE ~crashed /\ crashed' = crashed
  BY <1>3 DEF CrashOnlyByInterference
<1> QED
  BY <1>1, <1>2, <1>3 DEF Next, Finished, Call, clear_bindings, reset, bind, step,
     column_int, column_text, copy, At

\* The constructors prepare the statements; no thread is in a lookup.
LEMMA InitIInv == Init => IInv
<1> SUFFICES ASSUME Init PROVE IInv
  OBVIOUS
<1>1. TypeOK
  <2>1. 0 \in Values /\ get_fidname \in Lookups /\ MaxCalls \in Nat
    BY LookupAssumption, LookupShape
  <2>2. <<>> \in Seq(Values) /\ <<>> \in Seq(Seq(Values))
    BY EmptySeq
  <2>3. /\ out \in [Workers -> Seq(Seq(Values))]
        /\ cur \in [Workers -> Seq(Values)]
    BY <2>2 DEF Init
  <2>4. op \in [Workers -> Lookups] /\ ptr \in [Workers -> Values]
        /\ calls \in [Workers -> 0..MaxCalls]
    BY <2>1 DEF Init
  <2>5. /\ mode \in [Stmts -> {"ready", "row", "done"}]
        /\ bound \in [Stmts -> Keys \cup {NoKey}]
        /\ binder \in [Stmts -> Workers \cup {NoWorker}]
        /\ running \in [Stmts -> Keys \cup {NoKey}]
        /\ pos \in [Stmts -> Nat]
    BY DEF Init
  <2>6. /\ pc \in [Workers -> InCall \cup {"idle", "returned", "threw"}]
        /\ arg \in [Workers -> Keys \cup {NoKey}]
        /\ key \in [Workers -> Keys \cup {NoKey}]
        /\ valid \in [Workers -> BOOLEAN] /\ clean \in [Workers -> BOOLEAN]
        /\ crashed \in BOOLEAN
    BY DEF Init
  <2> QED
    BY <2>3, <2>4, <2>5, <2>6 DEF TypeOK
<1>2. OnRow /\ CrashOnlyByInterference
  BY DEF Init, OnRow, CrashOnlyByInterference
<1>3. ASSUME NEW w \in Workers PROVE ThreadInv(w)
  <2>1. /\ pc[w] = "idle" /\ cur[w] = <<>> /\ ~clean[w]
        /\ op[w] = get_fidname /\ key[w] = arg[w]
    BY <1>3 DEF Init
  <2>2. op[w] # TypeInfo
    BY <2>1, LookupShape DEF Operations
  <2> QED
    BY <2>1, <2>2 DEF ThreadInv, ShapeInv, ArgInv, InCall
<1> QED
  BY <1>1, <1>2, <1>3 DEF IInv

\* Every call of a statement keeps the invariant.
LEMMA NextIInv == IInv /\ [Next]_vars => IInv'
<1> SUFFICES ASSUME IInv, [Next]_vars PROVE IInv'
  OBVIOUS
<1>1. TypeOK'
  BY TypeStep DEF IInv, ThreadInv
<1>2. OnRow'
  BY OnRowStep DEF IInv
<1>3. \A w \in Workers : ThreadInv(w)'
  BY <1>1, ThreadStep
<1>4. CrashOnlyByInterference'
  BY CrashStep
<1> QED
  BY <1>1, <1>2, <1>3, <1>4 DEF IInv

-----------------------------------------------------------------------------

\* The invariant holds in every reachable state.
THEOREM LookupInvariant == Spec => []IInv
  BY InitIInv, NextIInv, PTL DEF Spec

\* Statements and threads keep their types, whatever the interference.
THEOREM LookupTypeCorrect == Spec => []TypeOK
  BY LookupInvariant, PTL DEF IInv

\* A lookup that no other thread interferes with returns the right rows, or
\* throws exactly when there is none, whatever was done with its statement
\* before.
THEOREM IsolatedLookups == Spec => []IsolatedLookupCorrect
<1>1. IInv => IsolatedLookupCorrect
  BY DEF IInv, ThreadInv, IsolatedLookupCorrect
<1> QED
  BY <1>1, LookupInvariant, PTL

\* The process only dies in a lookup that was interfered with.
THEOREM CrashesAreInterference == Spec => []CrashOnlyByInterference
  BY LookupInvariant, PTL DEF IInv

\* Nobody interferes with the only thread, so all its lookups are right: what
\* the tests of ftd_protocalif and functionif see.
THEOREM SingleThreadCorrect ==
    ASSUME \A u, v \in Workers : u = v
    PROVE Spec => []LookupCorrect
<1> DEFINE Undisturbed == \A w \in Workers : pc[w] # "idle" => clean[w]
<1>1. Init => Undisturbed
  BY DEF Init
<1>2. TypeOK /\ Undisturbed /\ [Next]_vars => Undisturbed'
  <2> SUFFICES ASSUME TypeOK, Undisturbed, [Next]_vars, NEW w \in Workers,
                      pc'[w] # "idle"
               PROVE clean'[w]
    OBVIOUS
  <2> USE DEF stmtVars, threadVars
  <2>1. CASE UNCHANGED vars
    BY <2>1 DEF vars
  <2>2. CASE Call(w)
    BY <2>2 DEF Call, TypeOK
  <2>3. CASE pc[w] # "idle" /\ (UNCHANGED clean \/ Disturb(w))
    BY <2>3 DEF Disturb, Disturbed
  <2> QED
    BY <2>1, <2>2, <2>3 DEF Next, Finished, clear_bindings, reset, bind, step,
       column_int, column_text, copy, Dies, At
<1>3. IInv /\ Undisturbed => LookupCorrect
  BY DEF IInv, ThreadInv, LookupCorrect, Correct
<1>4. IInv => TypeOK
  BY DEF IInv
<1> HIDE DEF Undisturbed
<1> QED
  BY <1>1, <1>2, <1>3, <1>4, LookupInvariant, PTL DEF Spec

-----------------------------------------------------------------------------
(* HandlerCopies: who owns the statements, and until when they are there.  *)

\* The types of the variables; who is where when.
Types ==
    /\ class \in DOMAIN Classes
    /\ db \in {"null", "open", "zombie", "closed"}
    /\ stmt \in [Prepared -> {"null", "prepared", "finalized"}]
    /\ proc \in {"constructor", "thrown", "main", "server", "run", "end", "dead"}
    /\ live \subseteq Holders
    /\ sharing \in {"alone", "copied", "dropped"}
    /\ undefined \in BOOLEAN

\* As the constructor leaves it.
Intact == db = "open" /\ \A s \in Prepared : stmt[s] = "prepared"

\* As release leaves it, however often it was called.
Released ==
    /\ \A s \in Prepared : stmt[s] = IF s \in Forgotten THEN "prepared" ELSE "finalized"
    /\ db = IF Forgotten = {} THEN "closed" ELSE "zombie"

\* While the constructor runs there is one object, of which nobody knows.
Constructing ==
    proc = "constructor" =>
        /\ live = {} /\ sharing = "alone" /\ ~undefined
        /\ db \in {"null", "open"}
        /\ \A s \in Prepared : stmt[s] # "finalized"

Thrown == proc = "thrown" => live = {} /\ sharing = "alone" /\ ~undefined /\ NothingLeft

\* Afterwards the object is intact until a holder of it is destroyed.
Built ==
    proc \notin {"constructor", "thrown"} =>
        /\ sharing = "alone" =>
              /\ ~undefined
              /\ \/ live = {"main"} /\ proc \in {"main", "end"} /\ Intact
                 \/ live = {} /\ proc = "end" /\ Released
        /\ sharing = "copied" => "main" \in live /\ proc \in {"server", "run", "end"} /\ Intact
        /\ sharing = "dropped" => proc # "main" /\ Released

\* The inductive invariant.
CopiesIInv == Types /\ Constructing /\ Thrown /\ Built

-----------------------------------------------------------------------------
(* The statements and release.                                             *)

\* The statements of the constructor are the places of its list.
LEMMA StatementPlaces ==
    ASSUME class \in DOMAIN Classes
    PROVE  /\ Len(Classes[class].prepared) \in Nat
           /\ \A n \in 1..Len(Classes[class].prepared) : Classes[class].prepared[n] \in Prepared
           /\ \A s \in Prepared : \E n \in 1..Len(Classes[class].prepared) : s = Classes[class].prepared[n]
<1> DEFINE p == Classes[class].prepared
<1>1. p \in Seq(Range(p))
  BY ClassesAssumption
<1>2. Len(p) \in Nat /\ DOMAIN p = 1..Len(p)
  BY <1>1, LenProperties
<1> QED BY <1>2 DEF Prepared, Range

\* Only a class whose release names all statements closes with sqlite3_close.
LEMMA CloseForgetsNothing ==
    ASSUME class \in DOMAIN Classes, Forgotten # {}
    PROVE  Classes[class].close # "close"
BY ClassesAssumption DEF Forgotten, Prepared

\* release finalizes the statements it names and only those.
LEMMA FinalizedFacts ==
    ASSUME Types
    PROVE  /\ Finalized \in [Prepared -> {"null", "prepared", "finalized"}]
           /\ \A s \in Prepared : Finalized[s] = "prepared" <=> s \in Forgotten /\ stmt[s] = "prepared"
           /\ \A s \in Prepared : stmt[s] # "null" /\ s \notin Forgotten => Finalized[s] = "finalized"
BY DEF Types, Finalized, Forgotten

\* What it leaves of the connection.
LEMMA ReleaseCloses ==
    ASSUME Types, release, UNCHANGED class
    PROVE  /\ stmt' = Finalized
           /\ Prepared' = Prepared /\ Forgotten' = Forgotten
           /\ db' = IF \E s \in Forgotten : stmt[s] = "prepared" THEN "zombie" ELSE "closed"
<1>1. Prepared' = Prepared /\ Forgotten' = Forgotten
  BY DEF Prepared, Forgotten
<1>2. stmt' = Finalized /\ db' = Closed(Finalized)
  BY DEF release
<1>3. CASE \E s \in Forgotten : stmt[s] = "prepared"
  <2>1. Classes[class].close # "close"
    BY <1>3, CloseForgetsNothing DEF Types
  <2>2. \E s \in Prepared : Finalized[s] = "prepared"
    BY <1>3, FinalizedFacts DEF Forgotten
  <2> QED BY <1>1, <1>2, <1>3, <2>1, <2>2 DEF Closed
<1>4. CASE ~ \E s \in Forgotten : stmt[s] = "prepared"
  <2>1. \A s \in Prepared : Finalized[s] # "prepared"
    BY <1>4, FinalizedFacts
  <2> QED BY <1>1, <1>2, <1>4, <2>1 DEF Closed
<1> QED BY <1>3, <1>4

\* It makes the same of an object that is intact and of one it was called for
\* before.
LEMMA ReleaseReleases ==
    ASSUME Types, release, UNCHANGED class, Intact \/ Released
    PROVE  Released' /\ stmt' \in [Prepared' -> {"null", "prepared", "finalized"}]
           /\ db' \in {"zombie", "closed"}
<1>1. \A s \in Forgotten : stmt[s] = "prepared"
  BY DEF Intact, Released, Forgotten
<1>2. \A s \in Prepared : stmt[s] # "null"
  BY DEF Intact, Released
<1>3. \A s \in Prepared : Finalized[s] = IF s \in Forgotten THEN "prepared" ELSE "finalized"
  BY <1>1, <1>2, FinalizedFacts
<1>4. db' = IF Forgotten = {} THEN "closed" ELSE "zombie"
  BY <1>1, ReleaseCloses
<1>5. stmt' = Finalized /\ Prepared' = Prepared /\ Forgotten' = Forgotten
  BY ReleaseCloses
<1>6. Released'
  BY <1>3, <1>4, <1>5 DEF Released
<1> QED BY <1>4, <1>5, <1>6, FinalizedFacts

-----------------------------------------------------------------------------
(* The invariant holds at first and is kept by every step.                 *)

\* The constructor begins with nothing open.
LEMMA CopiesInitIInv == CopiesInit => CopiesIInv
<1> SUFFICES ASSUME CopiesInit PROVE CopiesIInv
  OBVIOUS
<1> USE DEF CopiesInit
<1>1. Types
  BY DEF Types
<1>2. Constructing
  BY DEF Constructing
<1> QED BY <1>1, <1>2 DEF CopiesIInv, Thrown, Built

\* An exception in the constructor.
LEMMA FailIInv ==
    ASSUME CopiesIInv, proc = "constructor", Fail
    PROVE  CopiesIInv'
<1>1. /\ release /\ proc' = "thrown" /\ UNCHANGED <<class, live, sharing, undefined>>
      /\ Types /\ live = {} /\ sharing = "alone" /\ ~undefined
  BY DEF Fail, CopiesIInv, Constructing
<1>2. /\ stmt' = Finalized /\ Prepared' = Prepared /\ Forgotten' = Forgotten
      /\ db' = IF \E s \in Forgotten : stmt[s] = "prepared" THEN "zombie" ELSE "closed"
  BY <1>1, ReleaseCloses
<1>3. \A s \in Prepared : Finalized[s] = "prepared" <=> s \in Forgotten /\ stmt[s] = "prepared"
  BY <1>1, FinalizedFacts
<1>4. Types'
  <2>1. stmt' \in [Prepared' -> {"null", "prepared", "finalized"}]
    BY <1>1, <1>2, FinalizedFacts
  <2> QED BY <1>1, <1>2, <2>1 DEF Types, Holders
<1>5. NothingLeft'
  <2>1. Forgotten \subseteq Prepared
    BY DEF Forgotten
  <2>2. CASE \E s \in Forgotten : stmt[s] = "prepared"
    BY <1>1, <1>2, <1>3, <2>1, <2>2 DEF NothingLeft
  <2>3. CASE ~ \E s \in Forgotten : stmt[s] = "prepared"
    BY <1>1, <1>2, <1>3, <2>3 DEF NothingLeft
  <2> QED BY <2>2, <2>3
<1> QED BY <1>1, <1>4, <1>5 DEF CopiesIInv, Constructing, Thrown, Built

\* The steps of the constructor that succeed.
LEMMA ConstructorIInv ==
    CopiesIInv /\ (Open \/ Constructed \/ \E n \in 1..Len(Classes[class].prepared) : Prepare(n)) => CopiesIInv'
<1>1. ASSUME CopiesIInv, Open PROVE CopiesIInv'
  <2>1. Types'
    BY <1>1 DEF Open, CopiesIInv, Types, Prepared, Holders
  <2> QED BY <1>1, <2>1 DEF Open, CopiesIInv, Constructing, Thrown, Built, Prepared
<1>2. ASSUME CopiesIInv, NEW n \in 1..Len(Classes[class].prepared), Prepare(n) PROVE CopiesIInv'
  <2>1. /\ proc = "constructor" /\ db = "open"
        /\ stmt' = [stmt EXCEPT ![Classes[class].prepared[n]] = "prepared"]
        /\ UNCHANGED <<class, db, proc, live, sharing, undefined>>
    BY <1>2 DEF Prepare, Unprepared
  <2>2. Types'
    BY <1>2, <2>1 DEF CopiesIInv, Types, Prepared, Holders
  <2> QED BY <1>2, <2>1, <2>2 DEF CopiesIInv, Types, Constructing, Thrown, Built, Prepared
<1>3. ASSUME CopiesIInv, Constructed PROVE CopiesIInv'
  <2>1. /\ proc = "constructor" /\ db = "open" /\ proc' = "main" /\ live' = {"main"}
        /\ UNCHANGED <<class, db, stmt, sharing, undefined>>
        /\ sharing = "alone" /\ ~undefined
    BY <1>3 DEF Constructed, Unprepared, CopiesIInv, Constructing
  <2>2. \A s \in Prepared : stmt[s] = "prepared"
    <3> DEFINE p == Classes[class].prepared
    <3>1. Len(p) \in Nat /\ \A s \in Prepared : \E k \in 1..Len(p) : s = p[k]
      BY <1>3, StatementPlaces DEF CopiesIInv, Types
    <3>2. \A k \in 1..Len(p) : k < Len(p) + 1
      BY <3>1
    <3>3. \A k \in 1..Len(p) : stmt[p[k]] = "prepared"
      BY <1>3, <3>2 DEF Constructed, Unprepared
    <3> QED BY <3>1, <3>3
  <2>3. Intact'
    BY <2>1, <2>2 DEF Intact, Prepared
  <2>4. Types'
    BY <1>3, <2>1 DEF CopiesIInv, Types, Prepared, Holders
  <2> QED BY <2>1, <2>3, <2>4 DEF CopiesIInv, Constructing, Thrown, Built
<1> QED BY <1>1, <1>2, <1>3

\* A copy is destroyed, or made and destroyed.
LEMMA DropIInv ==
    ASSUME CopiesIInv, release, UNCHANGED class, live' \subseteq Holders,
           proc \in {"server", "run", "end"},
           sharing' = IF sharing = "alone" THEN "alone" ELSE "dropped",
           undefined' = (undefined \/ Gone),
           proc' \in {proc} \cup (IF Gone THEN {"dead"} ELSE {}),
           sharing = "alone" => "main" \in live /\ live' = {}
    PROVE  CopiesIInv'
<1>1. Types /\ Built
  BY DEF CopiesIInv
<1>2. Intact \/ Released
  BY <1>1 DEF Built, Types
<1>3. Released' /\ stmt' \in [Prepared' -> {"null", "prepared", "finalized"}] /\ db' \in {"zombie", "closed"}
  BY <1>1, <1>2, ReleaseReleases
<1>4. Types'
  BY <1>1, <1>3 DEF Types, Holders, Gone
<1>5. Built'
  <2>1. CASE sharing = "alone"
    <3>1. Intact /\ proc = "end" /\ ~undefined
      BY <1>1, <2>1 DEF Built
    <3>2. ~Gone
      BY <3>1 DEF Intact, Gone
    <3> QED BY <1>3, <2>1, <3>1, <3>2 DEF Built
  <2>2. CASE sharing # "alone"
    BY <1>3, <2>2 DEF Built
  <2> QED BY <2>1, <2>2
<1> QED BY <1>4, <1>5 DEF CopiesIInv, Constructing, Thrown

\* Steps that leave the handles alone.
LEMMA HandlesKept ==
    ASSUME UNCHANGED <<class, db, stmt>>
    PROVE  /\ Prepared' = Prepared /\ Forgotten' = Forgotten
           /\ Intact' <=> Intact
           /\ Released' <=> Released
BY DEF Prepared, Forgotten, Intact, Released

\* Every step keeps the invariant.
LEMMA CopiesNextIInv == CopiesIInv /\ [CopiesNext]_copiesVars => CopiesIInv'
<1> SUFFICES ASSUME CopiesIInv, [CopiesNext]_copiesVars PROVE CopiesIInv'
  OBVIOUS
<1>1. CASE OpenFails \/ \E n \in 1..Len(Classes[class].prepared) : PrepareFails(n)
  BY <1>1, FailIInv DEF OpenFails, PrepareFails, Unprepared
<1>2. CASE BindAndPass
  <2>1. /\ proc = "main" /\ proc' = "server" /\ sharing' = "copied"
        /\ live' = live \cup Temporaries \cup {"server"}
        /\ UNCHANGED <<class, db, stmt, undefined>>
    BY <1>2 DEF BindAndPass
  <2>2. Intact /\ "main" \in live
    BY <2>1 DEF CopiesIInv, Types, Built
  <2>3. Types'
    BY <2>1, HandlesKept DEF CopiesIInv, Types, Holders
  <2> QED BY <2>1, <2>2, <2>3, HandlesKept DEF CopiesIInv, Constructing, Thrown, Built
<1>3. ASSUME NEW s \in Sessions, NewSession(s) PROVE CopiesIInv'
  <2>1. /\ proc \in {"server", "run"} /\ live' = live \cup {s} /\ release /\ UNCHANGED class
        /\ sharing' = IF sharing = "alone" THEN "alone" ELSE "dropped"
        /\ undefined' = (undefined \/ Gone)
        /\ proc' \in {proc} \cup (IF Gone THEN {"dead"} ELSE {})
    BY <1>3 DEF NewSession
  <2>2. live' \subseteq Holders
    BY <2>1 DEF CopiesIInv, Types, Holders
  <2>3. sharing # "alone"
    BY <2>1 DEF CopiesIInv, Built
  <2> QED BY <2>1, <2>2, <2>3, DropIInv
<1>4. ASSUME NEW o, NEW next \in {"server", "run", "end"}, proc = next, Destroy(o, next),
             next = "end" => (o = "main" => live = {o})
      PROVE  CopiesIInv'
  <2>1. /\ o \in live /\ live' = live \ {o} /\ release /\ UNCHANGED class
        /\ sharing' = IF sharing = "alone" THEN "alone" ELSE "dropped"
        /\ undefined' = (undefined \/ Gone)
        /\ proc' \in {proc} \cup (IF Gone THEN {"dead"} ELSE {})
    BY <1>4 DEF Destroy
  <2>2. live' \subseteq Holders
    BY <2>1 DEF CopiesIInv, Types
  <2>3. sharing = "alone" => "main" \in live /\ live' = {}
    BY <1>4, <2>1 DEF CopiesIInv, Built
  <2> QED BY <1>4, <2>1, <2>2, <2>3, DropIInv
<1>5. CASE \E t \in Temporaries : DropTemporary(t)
  BY <1>4, <1>5 DEF DropTemporary
<1>6. CASE \E s \in Sessions : SessionFreed(s)
  BY <1>4, <1>6 DEF SessionFreed
<1>7. CASE \E o \in Holders : DropLocal(o)
  BY <1>4, <1>7 DEF DropLocal
<1>8. CASE Run
  <2>1. /\ proc = "server" /\ proc' = "run" /\ live \cap Sessions # {} /\ live \cap Temporaries = {}
        /\ UNCHANGED <<class, db, stmt, live, sharing, undefined>>
    BY <1>8 DEF Run
  <2>2. Types'
    BY <2>1, HandlesKept DEF CopiesIInv, Types, Holders
  <2> QED BY <2>1, <2>2, HandlesKept DEF CopiesIInv, Constructing, Thrown, Built
<1>9. CASE End
  <2>1. /\ proc \in {"main", "run"} /\ proc' = "end"
        /\ UNCHANGED <<class, db, stmt, live, sharing, undefined>>
    BY <1>9 DEF End
  <2>2. Types'
    BY <2>1, HandlesKept DEF CopiesIInv, Types, Holders
  <2> QED BY <2>1, <2>2, HandlesKept DEF CopiesIInv, Constructing, Thrown, Built
<1>10. ASSUME NEW s \in Prepared, Lookup(s) PROVE CopiesIInv'
  <2>1. /\ proc \in {"main", "run"}
        /\ undefined' = (undefined \/ stmt[s] # "prepared")
        /\ proc' \in {proc} \cup (IF stmt[s] # "prepared" THEN {"dead"} ELSE {})
        /\ UNCHANGED <<class, db, stmt, live, sharing>>
    BY <1>10 DEF Lookup, Users
  <2>2. Types'
    BY <2>1, HandlesKept DEF CopiesIInv, Types, Holders
  <2>3. CASE sharing = "alone"
    <3>1. Intact /\ live = {"main"} /\ ~undefined
      BY <2>1, <2>3 DEF CopiesIInv, Built
    <3>2. proc' = proc /\ ~undefined'
      BY <2>1, <3>1 DEF Intact
    <3> QED BY <2>1, <2>2, <2>3, <3>1, <3>2, HandlesKept DEF CopiesIInv, Constructing, Thrown, Built
  <2>4. CASE sharing # "alone"
    <3>1. \/ sharing = "dropped" /\ Released /\ proc = "run"
          \/ sharing = "copied" /\ Intact /\ "main" \in live /\ proc = "run" /\ proc' = proc
      BY <2>1, <2>4 DEF CopiesIInv, Types, Built, Intact
    <3> QED BY <2>1, <2>2, <3>1, HandlesKept DEF CopiesIInv, Constructing, Thrown, Built
  <2> QED BY <2>3, <2>4
<1>11. CASE UNCHANGED copiesVars
  <2> USE <1>11 DEF copiesVars
  <2>1. Types'
    BY HandlesKept DEF CopiesIInv, Types, Holders
  <2>2. NothingLeft' <=> NothingLeft
    BY DEF NothingLeft, Prepared, Forgotten
  <2> QED BY <2>1, <2>2, HandlesKept DEF CopiesIInv, Constructing, Thrown, Built
<1> QED BY <1>1, <1>2, <1>3, <1>5, <1>6, <1>7, <1>8, <1>9, <1>10, <1>11, ConstructorIInv DEF CopiesNext, Over

-----------------------------------------------------------------------------
(* Theorems.                                                               *)

\* All of the invariant, at any time.
THEOREM CopiesInvariant == CopiesSpec => []CopiesIInv
BY CopiesInitIInv, CopiesNextIInv, PTL DEF CopiesSpec

\* A constructor that fails, and a program that ends, leave nothing behind but
\* what release forgets: for any class with any number of statements, wherever
\* its constructor fails, and any number of copies.
THEOREM NothingLeftCorrect == CopiesSpec => []NothingLeft
<1>1. CopiesIInv => NothingLeft
  <2> SUFFICES ASSUME CopiesIInv, proc = "end", live = {} PROVE NothingLeft
    BY DEF CopiesIInv, Thrown, NothingLeft
  <2>1. Released
    BY DEF CopiesIInv, Built, Types
  <2>2. Forgotten \subseteq Prepared
    BY DEF Forgotten
  <2> QED BY <2>1, <2>2 DEF Released, NothingLeft
<1> QED BY <1>1, CopiesInvariant, PTL

\* Every lookup has its statement until the first holder is destroyed.
THEOREM WholeUntilDroppedCorrect == CopiesSpec => []WholeUntilDropped
<1>1. CopiesIInv => WholeUntilDropped
  BY DEF CopiesIInv, Types, Constructing, Thrown, Built, Intact, WholeUntilDropped
<1> QED BY <1>1, CopiesInvariant, PTL

\* Nothing undefined happens to an object that was never copied.
THEOREM AloneDefinedCorrect == CopiesSpec => []AloneDefined
<1>1. CopiesIInv => AloneDefined
  BY DEF CopiesIInv, Types, Constructing, Thrown, Built, AloneDefined
<1> QED BY <1>1, CopiesInvariant, PTL
=============================================================================
