--------------------------- MODULE HandlerCopies ---------------------------
(***************************************************************************)
(* Who owns the prepared statements.  ftd_protocalif and functionif keep   *)
(* raw sqlite handles, release them in their destructor, and are copied by *)
(* the compiler's copy constructor: the handler that main binds holds a    *)
(* copy of each, and so does every copy of that std::function, in the      *)
(* server and in each session.  All copies of one object share its handles.*)
(*                                                                         *)
(* sqlite is external: a connection with unfinalized statements refuses    *)
(* sqlite3_close and outlives sqlite3_close_v2; to use, finalize or close  *)
(* what was freed is undefined, and then the process dies or goes on.      *)
(***************************************************************************)
EXTENDS Integers, Sequences, Functions

CONSTANTS
    Classes,    \* the classes: name -> [prepared, released, close]
    Sessions    \* ftdsession objects; a freed one is made anew

\* The constructor prepares each of its statements once.  Where release calls
\* sqlite3_close, it finalizes all of them before.
ASSUME ClassesAssumption ==
    \A c \in DOMAIN Classes :
        LET prepared == Classes[c].prepared IN
        /\ prepared \in Seq(Range(prepared))
        /\ \A m, n \in 1..Len(prepared) : prepared[m] = prepared[n] => m = n
        /\ Classes[c].close = "close" => Range(prepared) \subseteq Range(Classes[c].released)

VARIABLES
    class,      \* the class that is looked at
    db,         \* its connection: "null", "open", "zombie", "closed"
    stmt,       \* its statements: "null", "prepared", "finalized"
    proc,       \* where main is, "thrown" (the constructor threw), or "dead"
    live,       \* who holds a copy
    sharing,    \* "alone" (never copied), "copied", "dropped" (a copy is destroyed)
    undefined   \* something undefined has happened

copiesVars == <<class, db, stmt, proc, live, sharing, undefined>>

Prepared == Range(Classes[class].prepared)

\* main's own object, and the copies made to pass the handler to the server.
Temporaries == {"bind", "handler"}
Holders == {"main", "server"} \cup Temporaries \cup Sessions

CopiesInit ==
    /\ class \in DOMAIN Classes
    /\ db = "null"
    /\ stmt = [s \in Prepared |-> "null"]
    /\ proc = "constructor"
    /\ live = {}
    /\ sharing = "alone"
    /\ undefined = FALSE

-----------------------------------------------------------------------------
(* release()                                                               *)

\* The statements that release names are finalized.
Finalized ==
    [s \in Prepared |-> IF stmt[s] # "null" /\ s \in Range(Classes[class].released)
                     THEN "finalized" ELSE stmt[s]]

\* What closing makes of the connection when the statements are st.
Closed(st) ==
    IF \A s \in Prepared : st[s] # "prepared" THEN "closed"
    ELSE IF Classes[class].close = "close" THEN "open" ELSE "zombie"

\* Mutant: the connection is closed before the statements are finalized.
releaseCloseFirst == stmt' = Finalized /\ db' = Closed(stmt)

\* Statements first, then the connection.  The object keeps its pointers.
release == stmt' = Finalized /\ db' = Closed(Finalized)

\* release was here before: its handles are not null and no longer valid.
Gone == db \in {"closed", "zombie"}

\* The copy of o is destroyed, and main goes on to next.
Destroy(o, next) ==
    /\ o \in live /\ live' = live \ {o}
    /\ release
    /\ sharing' = IF sharing = "alone" THEN "alone" ELSE "dropped"
    /\ undefined' = (undefined \/ Gone)
    /\ proc' \in {next} \cup (IF Gone THEN {"dead"} ELSE {})
    /\ UNCHANGED class

-----------------------------------------------------------------------------
(* The constructor.                                                        *)

\* Mutant: the catch clause releases and swallows the exception.
FailSwallowed ==
    /\ release
    /\ proc' = "main" /\ live' = {"main"}
    /\ UNCHANGED <<class, sharing, undefined>>

\* catch: release what there is, throw again.  main does not catch it.
Fail ==
    /\ release
    /\ proc' = "thrown"
    /\ UNCHANGED <<class, live, sharing, undefined>>

Open ==
    /\ proc = "constructor" /\ db = "null"
    /\ db' = "open"
    /\ UNCHANGED <<class, stmt, proc, live, sharing, undefined>>

\* A failed open gives a connection too, to be asked for the error and closed.
OpenFails == proc = "constructor" /\ db = "null" /\ Fail

\* The constructor has come to its n-th statement.
Unprepared(n) ==
    /\ proc = "constructor" /\ db = "open"
    /\ \A k \in 1..Len(Classes[class].prepared) :
          stmt[Classes[class].prepared[k]] = "prepared" <=> k < n

Prepare(n) ==
    /\ Unprepared(n) /\ n <= Len(Classes[class].prepared)
    /\ stmt' = [stmt EXCEPT ![Classes[class].prepared[n]] = "prepared"]
    /\ UNCHANGED <<class, db, proc, live, sharing, undefined>>

PrepareFails(n) == Unprepared(n) /\ n <= Len(Classes[class].prepared) /\ Fail

Constructed ==
    /\ Unprepared(Len(Classes[class].prepared) + 1)
    /\ proc' = "main" /\ live' = {"main"}
    /\ UNCHANGED <<class, db, stmt, sharing, undefined>>

-----------------------------------------------------------------------------
(* main, the server, the sessions.                                         *)

\* std::bind copies the object, the std::function parameter copies the binding,
\* and server::handler_ is a copy of the parameter.
BindAndPass ==
    /\ proc = "main" /\ proc' = "server"
    /\ live' = live \cup Temporaries \cup {"server"}
    /\ sharing' = "copied"
    /\ UNCHANGED <<class, db, stmt, undefined>>

\* start_accept: the constructor of a session takes a copy of handler_ as its
\* argument, copies that into its own handler_, and the argument is destroyed.
\* The first is made by the server's constructor, the others by io threads.
NewSession(s) ==
    /\ proc \in {"server", "run"} /\ "server" \in live /\ s \notin live
    /\ (proc = "server" => live \cap Sessions = {})
    /\ live' = live \cup {s}
    /\ release
    /\ sharing' = IF sharing = "alone" THEN "alone" ELSE "dropped"
    /\ undefined' = (undefined \/ Gone)
    /\ proc' \in {proc} \cup (IF Gone THEN {"dead"} ELSE {})
    /\ UNCHANGED class

\* The server's constructor has returned: its argument and the binding go.
DropTemporary(t) == proc = "server" /\ live \cap Sessions # {} /\ Destroy(t, "server")

Run ==
    /\ proc = "server" /\ live \cap Sessions # {} /\ live \cap Temporaries = {}
    /\ proc' = "run"
    /\ UNCHANGED <<class, db, stmt, live, sharing, undefined>>

\* A session is over and its last owner lets go of it; new_connection_ remains.
SessionFreed(s) == proc = "run" /\ live \cap Sessions # {s} /\ Destroy(s, "run")

\* Mutant: a reference to main's object is used after its lifetime.
UsersLate == CASE proc \in {"main", "end"} -> {"main"} [] proc = "run" -> live \cap Sessions [] OTHER -> {}

\* Whoever may ask: main's object where it is used alone, as the unit tests
\* use it, and the copies of the sessions while the server runs.
Users == CASE proc = "main" -> {"main"} [] proc = "run" -> live \cap Sessions [] OTHER -> {}

Lookup(s) ==
    /\ Users # {}
    /\ undefined' = (undefined \/ stmt[s] # "prepared")
    /\ proc' \in {proc} \cup (IF stmt[s] # "prepared" THEN {"dead"} ELSE {})
    /\ UNCHANGED <<class, db, stmt, live, sharing>>

\* Locals are destroyed when run has returned, or when a test ends: the server,
\* with the sessions its io_service holds, before main's own object.
End ==
    /\ proc \in {"main", "run"}
    /\ proc' = "end"
    /\ UNCHANGED <<class, db, stmt, live, sharing, undefined>>

DropLocal(o) == proc = "end" /\ (o = "main" => live = {o}) /\ Destroy(o, "end")

\* The constructor threw, the process died or nobody is left.
Over == (proc \in {"thrown", "dead"} \/ (proc = "end" /\ live = {})) /\ UNCHANGED copiesVars

CopiesNext ==
    \/ Open \/ OpenFails \/ Constructed \/ BindAndPass \/ Run \/ End \/ Over
    \/ \E n \in 1..Len(Classes[class].prepared) : Prepare(n) \/ PrepareFails(n)
    \/ \E t \in Temporaries : DropTemporary(t)
    \/ \E s \in Sessions : NewSession(s) \/ SessionFreed(s)
    \/ \E s \in Prepared : Lookup(s)
    \/ \E o \in Holders : DropLocal(o)

CopiesSpec == CopiesInit /\ [][CopiesNext]_copiesVars

-----------------------------------------------------------------------------
(* Properties.                                                             *)

\* The statements that the constructor prepares and release does not name.
Forgotten == Prepared \ Range(Classes[class].released)

\* A constructor that fails half way, whichever step it was, and a program that
\* ends leave no statement and no connection behind; except for the statements
\* that release forgets, which keep their connection as a zombie.
NothingLeft ==
    proc = "thrown" \/ (proc = "end" /\ live = {}) =>
        \/ db = "closed" /\ \A s \in Prepared : stmt[s] # "prepared"
        \/ /\ db = "zombie"
           /\ \E s \in Prepared : stmt[s] = "prepared"
           /\ \A s \in Prepared : stmt[s] = "prepared" => s \in Forgotten
           /\ proc = "end" => \A s \in Forgotten : stmt[s] = "prepared"

\* Whoever has an object can make every lookup with it, through any number of
\* copies, until the first of the holders is destroyed.
WholeUntilDropped ==
    live # {} /\ sharing # "dropped" => \A s \in Prepared : stmt[s] = "prepared"

\* Nothing undefined happens to an object that is built, used and destroyed
\* without ever having been copied, as every unit test does.
AloneDefined == sharing = "alone" => ~undefined

\* A session's lookup has its prepared statement.
LookupsPrepared == Users # {} => \A s \in Prepared : stmt[s] = "prepared"
=============================================================================
