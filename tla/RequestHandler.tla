--------------------------- MODULE RequestHandler ---------------------------
(***************************************************************************)
(* request_handle_fuc (dcserver.cpp) on several io threads: a parsed       *)
(* request goes through dbconnpool::invoke (dbconnpool.cpp), which calls   *)
(* the tid's stored procedure over the thread's own MySQL connection and   *)
(* writes what it gives into the request's variable, and is serialized.    *)
(* No thread catches an exception: one that leaves a handler, and every    *)
(* use of a null pointer, ends the process.                                *)
(*                                                                         *)
(* MySQL and its client library are external: a connection that has a      *)
(* result waiting, or further results to read, refuses the next query.     *)
(* What the code looks up in its two databases is constant here, as they   *)
(* may describe it: make_protocal and make_function check little.          *)
(***************************************************************************)
EXTENDS FtdcVariable, FiniteSets

CONSTANTS
    Workers,        \* the io threads
    Functions,      \* by tid: the literals of its in, out and result items
    Response,       \* by tid: the fields of its response, see RspField
    Items,          \* the item names whose type get_itemtypeinfo finds
    Typed,          \* of them, those whose base type get_ftd_item_type knows
    Requests,       \* parsed requests: a tid and its variable
    Values,         \* column values
    Null,           \* a column that is NULL
    NoValue,        \* a null itemvalue_ptr
    Tables,         \* result sets: a number of columns and rows of them
    StatusResults,  \* how many results may follow the rows of a CALL
    MaxRequests     \* bound: requests per thread

NoResult == [columns |-> 0, rows |-> <<>>]

\* A field of a package; its name may have no row in the table of the fields.
RspField == [name : STRING, minoccur : Nat, maxoccur : Nat, defined : BOOLEAN, items : SUBSET STRING]

Columns == Seq(Values \cup {Null})

\* ftdc_path: a literal is f[n].i or f.i, as tokens; any other names nothing.
ftdc_path(literal) ==
    CASE Len(literal) = 6 -> [fid |-> literal[1], idx |-> literal[3], item |-> literal[6]]
      [] Len(literal) = 3 -> [fid |-> literal[1], idx |-> 0, item |-> literal[3]]
      [] OTHER -> [fid |-> "", idx |-> 0, item |-> ""]

\* The variable of a request is as parse_ftdc_content leaves it: the fields of
\* the response are the ones it may hold, each occurrence with all its items, and
\* an item has a null pointer if its base type is unknown.
ASSUME HandlerAssumption ==
    /\ DOMAIN Functions \subseteq DOMAIN Response
    /\ \A t \in DOMAIN Functions :
          /\ IsVector(Functions[t].outs) /\ IsVector(Functions[t].results)
          /\ \A n \in 1..Len(Functions[t].results) : ftdc_path(Functions[t].results[n]).idx \in Nat
    /\ \A t \in DOMAIN Response : Response[t] \subseteq RspField
    /\ \A r \in Requests :
          /\ r.tid \in DOMAIN Response /\ IsVariable(r.var)
          /\ \A f \in Response[r.tid] : \A j \in 0..field_count(r.var, f.name) - 1 :
                \A i \in f.items :
                    /\ HasItem(r.var, f.name, j, i)
                    /\ i \in Typed => get_field_item(r.var, f.name, j, i) # NoValue
    /\ Typed \subseteq Items /\ "" \notin Items
    /\ Null \notin Values /\ NoValue \notin Values
    /\ Tables \subseteq [columns : Nat \ {0}, rows : Seq(Columns)]
    /\ \A t \in Tables : \A n \in 1..Len(t.rows) : Len(t.rows[n]) = t.columns
    /\ StatusResults \subseteq Nat /\ MaxRequests \in Nat

VARIABLES
    conn,       \* the thread_local mysql of each thread, see Conn
    pc,         \* the step of the request a thread is at
    req,        \* the request
    var,        \* ftdc_var
    given,      \* history: the result set and the out values of its CALL
    executed,   \* history: how often its procedure ran
    served,     \* how many requests a thread began
    fault,      \* history: the environment did what the code does not handle
    dead        \* the thread whose step ended the process, if it has ended

vars == <<conn, pc, req, var, given, executed, served, fault, dead>>

\* A connection: "none" is a null mysql; the result that waits to be stored, how
\* many are behind it, and the user variables @out of its session.
Unconnected == [state |-> "none", waiting |-> NoResult, more |-> 0, outs |-> <<>>]

Steps == {"connect", "call", "store", "select", "fetch", "serialize"}

\* One type invariant for the module.
TypeOK ==
    /\ conn \in [Workers -> [state : {"none", "open", "closed"},
                             waiting : [columns : Nat, rows : Seq(Columns)],
                             more : Nat, outs : Columns]]
    /\ \A w \in Workers : conn[w].state # "open" => conn[w].waiting = NoResult
    /\ pc \in [Workers -> Steps \cup {"idle", "answered"}]
    /\ DOMAIN req = Workers /\ DOMAIN var = Workers
    /\ \A w \in Workers : pc[w] # "idle" => req[w] \in Requests
    /\ given \in [Workers -> [res : Tables \cup {NoResult}, outs : Columns]]
    /\ executed \in [Workers -> Nat]
    /\ served \in [Workers -> 0..MaxRequests]
    /\ fault \in BOOLEAN /\ dead \subseteq Workers

NoRequest == [tid |-> "", var |-> Empty]
NothingGiven == [res |-> NoResult, outs |-> <<>>]

Init ==
    /\ conn = [w \in Workers |-> Unconnected]
    /\ pc = [w \in Workers |-> "idle"]
    /\ req = [w \in Workers |-> NoRequest]
    /\ var = [w \in Workers |-> Empty]
    /\ given = [w \in Workers |-> NothingGiven]
    /\ executed = [w \in Workers |-> 0]
    /\ served = [w \in Workers |-> 0]
    /\ fault = FALSE
    /\ dead = {}

-----------------------------------------------------------------------------
(* What a request needs.                                                   *)

\* The item that a literal names; a literal that is no path names "".
ItemOf(literal) == ftdc_path(literal).item

Results(tid) == Functions[tid].results
Outs(tid) == Functions[tid].outs

\* get_field_item gives a value.
HasValue(v, fid, idx, item) ==
    HasItem(v, fid, idx, item) /\ get_field_item(v, fid, idx, item) # NoValue

\* get_sp_name finds the procedure, and get_field_item a value for every item it
\* is given.
Callable(tid, v) ==
    /\ tid \in DOMAIN Functions
    /\ \A n \in 1..Len(Functions[tid].ins) :
          LET path == ftdc_path(Functions[tid].ins[n])
          IN  HasValue(v, path.fid, path.idx, path.item)

\* serialize_ftdc_content returns: every field of the response has a row and a
\* size, also one that does not occur; it occurs as often as it must, and no
\* occurrence lacks an item or has a null pointer.
Serializable(tid, v) ==
    \A f \in Response[tid] :
        /\ field_count(v, f.name) >= f.minoccur /\ field_count(v, f.name) <= f.maxoccur
        /\ f.defined /\ f.items \subseteq Items
        /\ \A j \in 0..field_count(v, f.name) - 1 : \A i \in f.items : HasValue(v, f.name, j, i)

\* get_itemtypeinfo and create_ftd_item_value_from_str give a value or a null
\* pointer; the one throws for an unknown item, the other reads the column.
Readable(item, column) == item \in Items /\ (item \in Typed => column # Null)
ValueFrom(item, column) == IF item \in Typed THEN column ELSE NoValue

Least(a, b) == IF a < b THEN a ELSE b

\* Column i of a row goes to the i-th result item; there may be more of either.
Width(tid, t) == Least(Len(Results(tid)), t.columns)

\* Mutant: the occurrence is the path's, for every row.
StoreRowsByPath(tid, t, v) ==
    LET width == Width(tid, t)
        set[n \in 0..Len(t.rows) * width] ==
            IF n = 0 THEN v
            ELSE LET row == (n - 1) \div width
                     col == ((n - 1) % width) + 1
                     path == ftdc_path(Results(tid)[col])
                 IN  set_field_item(set[n - 1], path.fid, path.idx, path.item,
                                     ValueFrom(path.item, t.rows[row + 1][col]))
    IN  set[Len(t.rows) * width]

\* The loops of invoke over rows and columns; the row is the occurrence.
StoreRows(tid, t, v) ==
    LET width == Width(tid, t)
        set[n \in 0..Len(t.rows) * width] ==
            IF n = 0 THEN v
            ELSE LET row == (n - 1) \div width
                     col == ((n - 1) % width) + 1
                     path == ftdc_path(Results(tid)[col])
                 IN  set_field_item(set[n - 1], path.fid, row, path.item,
                                     ValueFrom(path.item, t.rows[row + 1][col]))
    IN  set[Len(t.rows) * width]

\* The loop over the out values: the paths are those of the result items.
StoreOuts(tid, row, v) ==
    LET set[n \in 0..Len(Outs(tid))] ==
            IF n = 0 THEN v
            ELSE LET path == ftdc_path(Results(tid)[n])
                 IN  set_field_item(set[n - 1], path.fid, path.idx, path.item, ValueFrom(path.item, row[n]))
    IN  set[Len(Outs(tid))]

-----------------------------------------------------------------------------
(* The environment.                                                        *)

\* The request can be served if the database does its part: the function and the
\* protocol are described without a gap.
Servable(r) ==
    /\ Callable(r.tid, r.var)
    /\ \A n \in 1..Len(Results(r.tid)) : ItemOf(Results(r.tid)[n]) \in Typed
    /\ Len(Outs(r.tid)) <= Len(Results(r.tid))
    /\ \A f \in Response[r.tid] : f.defined /\ f.items \subseteq Typed

\* The fields that rows of t are written to.
ResultFields(tid, t) == {ftdc_path(Results(tid)[n]).fid : n \in 1..Width(tid, t)}

\* The database answers as the function's description and the protocol want it:
\* all columns, none of them NULL, and as many rows as the response may have.
\* An out value goes to a result item, whose occurrence has to be there.
Suits(r, t, o) ==
    /\ t.columns >= Len(Results(r.tid))
    /\ \A n \in 1..Len(t.rows) : \A c \in 1..t.columns : t.rows[n][c] # Null
    /\ \A n \in 1..Len(o) : o[n] # Null
    /\ \A n \in 1..Len(o) :
          LET path == ftdc_path(Results(r.tid)[n])
          IN  path.idx < Len(t.rows) \/ path.idx < field_count(r.var, path.fid)
    /\ \A f \in Response[r.tid] :
          LET rows == IF f.name \in ResultFields(r.tid, t) THEN Len(t.rows) ELSE 0
              count == IF rows > field_count(r.var, f.name) THEN rows ELSE field_count(r.var, f.name)
          IN  /\ count >= f.minoccur /\ count <= f.maxoccur
              /\ rows > field_count(r.var, f.name) =>
                    \A i \in f.items : \E n \in 1..Len(Results(r.tid)) :
                        ftdc_path(Results(r.tid)[n]).fid = f.name
                            /\ ftdc_path(Results(r.tid)[n]).item = i

\* The database closes the connection of w: it was idle for long, or crashed.
ConnectionLost(w) ==
    /\ dead = {} /\ conn[w].state = "open"
    /\ conn' = [conn EXCEPT ![w].state = "closed", ![w].waiting = NoResult, ![w].more = 0]
    /\ fault' = TRUE
    /\ UNCHANGED <<pc, req, var, given, executed, served, dead>>

-----------------------------------------------------------------------------
(* The steps of a thread.                                                  *)

At(w, step) == dead = {} /\ pc[w] = step

Goto(w, step) == pc' = [pc EXCEPT ![w] = step]

\* An exception that nobody catches, or a null pointer.
Die(w) == dead' = {w} /\ UNCHANGED <<conn, pc, req, var, given, executed, served, fault>>

\* Mutant: mysql is not thread_local.
HandleShared(w) == CHOOSE v \in Workers : TRUE

\* The connection that thread w uses: thread_local.
Handle(w) == w

Idle(w) == dead = {} /\ pc[w] \in {"idle", "answered"} /\ served[w] < MaxRequests

\* A request was read and parsed.
Begin(w) ==
    /\ Idle(w)
    /\ \E r \in Requests :
          /\ req' = [req EXCEPT ![w] = r]
          /\ var' = [var EXCEPT ![w] = r.var]
          /\ fault' = (fault \/ ~Servable(r))
    /\ given' = [given EXCEPT ![w] = NothingGiven]
    /\ executed' = [executed EXCEPT ![w] = 0]
    /\ served' = [served EXCEPT ![w] = @ + 1]
    /\ Goto(w, "connect")
    /\ UNCHANGED <<conn, dead>>

\* A request that parse_ftdc_content refuses.
BadRequest(w) ==
    /\ Idle(w)
    /\ dead' = {w} /\ fault' = TRUE
    /\ UNCHANGED <<conn, pc, req, var, given, executed, served>>

\* The first request of a thread connects.  The macro asks the null pointer of a
\* failed connect for its error, so that may be thrown or go unnoticed.
Connect(w) ==
    /\ At(w, "connect")
    /\ \/ conn[Handle(w)].state # "none" /\ UNCHANGED <<conn, fault, dead>>
       \/ /\ conn[Handle(w)].state = "none"
          /\ \/ conn' = [conn EXCEPT ![Handle(w)].state = "open"] /\ UNCHANGED <<fault, dead>>
             \/ /\ conn' = [conn EXCEPT ![Handle(w)].state = "closed"]
                /\ fault' = TRUE
                /\ dead' \in {{}, {w}}
    /\ Goto(w, "call")
    /\ UNCHANGED <<req, var, given, executed, served>>

Ready(c) == c.state = "open" /\ c.waiting = NoResult /\ c.more = 0

\* The procedure runs and gives rows, and behind them the status of the CALL, which
\* is a result as well and which nobody reads; or gives no rows; or fails.
Executes(w) ==
    LET h == Handle(w) IN
    \/ \E t \in Tables, m \in StatusResults, o \in [1..Len(Outs(req[w].tid)) -> Values \cup {Null}] :
          /\ conn' = [conn EXCEPT ![h].waiting = t, ![h].more = m, ![h].outs = o]
          /\ given' = [given EXCEPT ![w] = [res |-> t, outs |-> o]]
          /\ executed' = [executed EXCEPT ![w] = @ + 1]
          /\ fault' = (fault \/ ~Suits(req[w], t, o))
    \/ /\ \/ executed' = [executed EXCEPT ![w] = @ + 1]
          \/ UNCHANGED executed
       /\ fault' = TRUE
       /\ UNCHANGED <<conn, given>>

\* Mutant: a CALL that the connection refuses is tried again.
CallRetries(w) ==
    /\ At(w, "call")
    /\ \/ ~Callable(req[w].tid, req[w].var) /\ Die(w)
       \/ /\ Callable(req[w].tid, req[w].var)
          /\ \/ Ready(conn[Handle(w)]) /\ Executes(w) /\ Goto(w, "store")
             \/ /\ ~Ready(conn[Handle(w)]) /\ Goto(w, "connect")
                /\ UNCHANGED <<conn, given, executed, fault>>
          /\ UNCHANGED <<req, var, served, dead>>

\* mysql_real_query of the CALL, whose return value is ignored.
Call(w) ==
    /\ At(w, "call")
    /\ \/ ~Callable(req[w].tid, req[w].var) /\ Die(w)
       \/ /\ Callable(req[w].tid, req[w].var)
          /\ \/ Ready(conn[Handle(w)]) /\ Executes(w)
             \/ ~Ready(conn[Handle(w)]) /\ UNCHANGED <<conn, given, executed, fault>>
          /\ Goto(w, "store")
          /\ UNCHANGED <<req, var, served, dead>>

\* store_result takes the result that waits, if any.
Taken(w) == conn' = [conn EXCEPT ![Handle(w)].waiting = NoResult]

\* Mutant: a CALL that gave no result is sent once more.
StoreRetry(w) ==
    LET t == conn[Handle(w)].waiting
        tid == req[w].tid IN
    /\ At(w, "store")
    /\ \/ t = NoResult /\ Goto(w, "call") /\ UNCHANGED <<conn, var>>
       \/ /\ t # NoResult
          /\ var' = [var EXCEPT ![w] = StoreRows(tid, t, @)]
          /\ Taken(w)
          /\ Goto(w, IF Outs(tid) = <<>> THEN "serialize" ELSE "select")
    /\ UNCHANGED <<req, given, executed, served, fault, dead>>

\* The rows are stored; a null result, a NULL column, a literal that is no path and
\* an item that the protocol does not know kill.
Store(w) ==
    LET t == conn[Handle(w)].waiting
        tid == req[w].tid
        good == /\ t # NoResult
                /\ \A n \in 1..Len(t.rows) : \A c \in 1..Width(tid, t) :
                      Readable(ItemOf(Results(tid)[c]), t.rows[n][c]) IN
    /\ At(w, "store")
    /\ \/ ~good /\ Die(w)
       \/ /\ good
          /\ var' = [var EXCEPT ![w] = StoreRows(tid, t, @)]
          /\ Taken(w)
          /\ Goto(w, IF Outs(tid) = <<>> THEN "serialize" ELSE "select")
          /\ UNCHANGED <<req, given, executed, served, fault, dead>>

\* Mutant: the variables are taken from where the last answer left them.
SelectStale(w) ==
    /\ At(w, "select")
    /\ LET c == conn[Handle(w)] IN
          conn' = [conn EXCEPT ![Handle(w)].waiting = [columns |-> Len(c.outs), rows |-> <<c.outs>>]]
    /\ Goto(w, "fetch")
    /\ UNCHANGED <<req, var, given, executed, served, fault, dead>>

\* mysql_real_query of the SELECT of the out variables.
Select(w) ==
    /\ At(w, "select")
    /\ LET c == conn[Handle(w)] IN
          conn' = IF Ready(c)
                  THEN [conn EXCEPT ![Handle(w)].waiting = [columns |-> Len(c.outs), rows |-> <<c.outs>>]]
                  ELSE conn
    /\ Goto(w, "fetch")
    /\ UNCHANGED <<req, var, given, executed, served, fault, dead>>

\* The out values are stored.
Fetch(w) ==
    LET t == conn[Handle(w)].waiting
        tid == req[w].tid
        good == /\ t # NoResult /\ t.columns >= Len(Outs(tid))
                /\ Len(Outs(tid)) <= Len(Results(tid))
                /\ \A n \in 1..Len(Outs(tid)) : Readable(ItemOf(Results(tid)[n]), t.rows[1][n]) IN
    /\ At(w, "fetch")
    /\ \/ ~good /\ Die(w)
       \/ /\ good
          /\ var' = [var EXCEPT ![w] = StoreOuts(tid, t.rows[1], @)]
          /\ Taken(w)
          /\ Goto(w, "serialize")
          /\ UNCHANGED <<req, given, executed, served, fault, dead>>

\* serialize_ftdc_content returns the response, or throws.
Serialize(w) ==
    /\ At(w, "serialize")
    /\ \/ ~Serializable(req[w].tid, var[w]) /\ Die(w)
       \/ /\ Serializable(req[w].tid, var[w])
          /\ Goto(w, "answered")
          /\ UNCHANGED <<conn, req, var, given, executed, served, fault, dead>>

WorkerStep(w) ==
    Connect(w) \/ Call(w) \/ Store(w) \/ Select(w) \/ Fetch(w) \/ Serialize(w)

\* The process is dead, or every thread has had its requests.
Over ==
    /\ dead # {} \/ \A w \in Workers : pc[w] \in {"idle", "answered"} /\ served[w] = MaxRequests
    /\ UNCHANGED vars

Next ==
    \/ \E w \in Workers : Begin(w) \/ BadRequest(w) \/ WorkerStep(w) \/ ConnectionLost(w)
    \/ Over

\* The system runs every thread; the database answers, or the connection ends.
Fairness == \A w \in Workers : WF_vars(WorkerStep(w))

Spec == Init /\ [][Next]_vars /\ Fairness

-----------------------------------------------------------------------------
(* Properties.                                                             *)

\* The value that the rows of the call have for occurrence j of an item.
FromRows(w, f, j, item) ==
    {ValueFrom(item, given[w].res.rows[j + 1][c]) : c \in {d \in 1..Width(req[w].tid, given[w].res) :
        ftdc_path(Results(req[w].tid)[d]).fid = f /\ ftdc_path(Results(req[w].tid)[d]).item = item}}

\* A request is answered from the rows that its own CALL gave, however the other
\* threads' calls fall in between: row j is occurrence j, column by column, and
\* what no row covers is as the request had it.  Functions without out items.
AnswersOwnCall ==
    \A w \in Workers : pc[w] = "answered" /\ Outs(req[w].tid) = <<>> =>
        \A f \in DOMAIN var[w] : \A j \in 0..Len(var[w][f]) - 1 :
            \A item \in DOMAIN var[w][f][j + 1] :
                LET stored == IF j < Len(given[w].res.rows) THEN FromRows(w, f, j, item) ELSE {} IN
                \/ get_field_item(var[w], f, j, item) \in stored
                \/ stored = {} /\ HasItem(req[w].var, f, j, item)
                   /\ get_field_item(var[w], f, j, item) = get_field_item(req[w].var, f, j, item)

\* No request runs its procedure twice, whatever fails in between, and one that
\* is answered has run it.
CalledOnce ==
    \A w \in Workers : executed[w] <= 1 /\ (pc[w] = "answered" => executed[w] = 1)

\* Thread w cannot go on: its connection still has results of an earlier query
\* to read and refused the CALL, or the SELECT of the out values.
Starved(w) ==
    conn[w].more > 0 /\ (pc[w] = "fetch" \/ (pc[w] = "store" /\ executed[w] = 0))

\* While the connections are kept, the database runs every CALL that reaches it and
\* answers with suitable rows, and the requests can be served, nothing but the
\* results that invoke leaves unread ends the process, and only at the thread's own
\* next query: no other thread's call, no mix of functions and no leftover of an
\* earlier request brings a step to something that it lacks.
OnlyUnreadKills == ~fault => \A w \in dead : Starved(w)

\* A request never hangs: it is answered, or ends the process with it, also
\* when the connection was lost under it.
EveryRequestEnds ==
    \A w \in Workers : pc[w] \in Steps ~> (pc[w] = "answered" \/ dead # {})
=============================================================================
