----------------------------- MODULE FtdServer -----------------------------
(***************************************************************************)
(* The network layer of dcserver: class server (server.cpp) with its pool  *)
(* of io threads and its accept loop, and the read side of every           *)
(* ftdsession (ftdsession.cpp), which is all of the session that runs.     *)
(*                                                                         *)
(* boost::asio is external.  It is modelled by what the code relies on:    *)
(* an asynchronous operation completes once, with success or an error, its *)
(* completion handler is queued, any thread inside io_service::run may     *)
(* take a queued handler, and a strand runs one of its handlers at a time. *)
(* A completion handler owns the shared_ptr that was bound to it until it  *)
(* has returned.                                                           *)
(***************************************************************************)
EXTENDS Integers

CONSTANTS
    Workers,    \* the threads server::run creates (thread_pool_size_ of them)
    Sessions,   \* ftdsession objects: an address is reused once it is freed
    NoSession   \* "no session", for a thread that runs no session handler

ASSUME SessionAssumption == NoSession \notin Sessions /\ Sessions # {}

VARIABLES
    proc,       \* the process: "up", "exited" (main returned), "terminated"
    stopped,    \* io_service_.stop() was called
    signal,     \* the one async_wait of signals_: "waiting", "raised", "handled"
    acceptOp,   \* the async_accept: "none", "pending", or completed "ok"/"err"
    newConn,    \* new_connection_
    refs,       \* the shared_ptr use count of each session; 0: freed or unborn
    connected,  \* the session's socket is a connected one
    reading,    \* the session's outstanding async_read, by what it reads
    ready,      \* its outcome: "no" (still pending), "ok", "bad", "err"
    task,       \* what each thread executes
    on          \* the session whose completion handler the thread runs

vars == <<proc, stopped, signal, acceptOp, newConn, refs, connected, reading,
          ready, task, on>>

\* An ftd frame is read in three pieces, each by an async_read of its own.
Stages == {"ftd_header", "ftd_extendheader", "ftdc"}

\* What a thread does inside a strand-wrapped handler of a session: its body,
\* the request handler it calls, and the way back out.
StrandTasks == Stages \cup {"request", "return"}

\* Inside handle_accept: in new_connection_->start(), then in start_accept().
AcceptTasks == {"start", "start_accept"}

Tasks == StrandTasks \cup AcceptTasks \cup {"idle", "exited"}

\* One type invariant for the module.
TypeOK ==
    /\ proc \in {"up", "exited", "terminated"}
    /\ stopped \in BOOLEAN
    /\ signal \in {"waiting", "raised", "handled"}
    /\ acceptOp \in {"none", "pending", "ok", "err"}
    /\ newConn \in Sessions
    /\ refs \in [Sessions -> Nat]
    /\ connected \in [Sessions -> BOOLEAN]
    /\ reading \in [Sessions -> Stages \cup {"none"}]
    /\ ready \in [Sessions -> {"no", "ok", "bad", "err"}]
    /\ task \in [Workers -> Tasks]
    /\ on \in [Workers -> Sessions \cup {NoSession}]

-----------------------------------------------------------------------------
(* The constructor opens the acceptor, waits for signals and calls         *)
(* start_accept; run then starts the threads.                              *)

Init ==
    /\ proc = "up"
    /\ stopped = FALSE
    /\ signal = "waiting"
    /\ acceptOp = "pending"
    /\ newConn \in Sessions
    /\ refs = [s \in Sessions |-> IF s = newConn THEN 1 ELSE 0]
    /\ connected = [s \in Sessions |-> FALSE]
    /\ reading = [s \in Sessions |-> "none"]
    /\ ready = [s \in Sessions |-> "no"]
    /\ task = [w \in Workers |-> "idle"]
    /\ on = [w \in Workers |-> NoSession]

-----------------------------------------------------------------------------
(* The outside world: peers, the operating system, the operator.           *)

\* A free session object.  Bound: a peer connects, and an accept fails, only
\* while start_accept will find one, so |Sessions| - 1 connections can live.
SessionFree == \E s \in Sessions : refs[s] = 0

AcceptCompletes ==
    /\ proc = "up" /\ acceptOp = "pending" /\ SessionFree
    /\ \/ /\ acceptOp' = "ok"
          /\ connected' = [connected EXCEPT ![newConn] = TRUE]
       \/ /\ acceptOp' = "err"
          /\ UNCHANGED connected
    /\ UNCHANGED <<proc, stopped, signal, newConn, refs, reading, ready, task, on>>

\* The peer's bytes arrive, or the connection breaks.  "bad": all the bytes of
\* the ftdc part were read, but its own header gives another length than the
\* ftd header did.
ReadCompletes(s) ==
    /\ proc = "up" /\ reading[s] # "none" /\ ready[s] = "no"
    /\ \E r \in {"ok", "err"} \cup (IF reading[s] = "ftdc" THEN {"bad"} ELSE {}) :
            ready' = [ready EXCEPT ![s] = r]
    /\ UNCHANGED <<proc, stopped, signal, acceptOp, newConn, refs, connected,
                   reading, task, on>>

SignalArrives ==
    /\ proc = "up" /\ signal = "waiting"
    /\ signal' = "raised"
    /\ UNCHANGED <<proc, stopped, acceptOp, newConn, refs, connected, reading,
                   ready, task, on>>

-----------------------------------------------------------------------------
(* io_service::run: a thread that is idle takes a queued handler, unless   *)
(* the io_service was stopped.                                             *)

Idle(w) == proc = "up" /\ ~stopped /\ task[w] = "idle"

\* Mutant: the error of a failed accept is not looked at.
RunAcceptErrorIgnored(w) ==
    /\ Idle(w)
    /\ acceptOp \in {"ok", "err"}
    /\ acceptOp' = "none"
    /\ task' = [task EXCEPT ![w] = "start"]
    /\ UNCHANGED <<proc, stopped, signal, newConn, refs, connected, reading,
                   ready, on>>

\* Mutant: an accept that failed is not followed by another.
RunAcceptNoRetry(w) ==
    /\ Idle(w)
    /\ acceptOp \in {"ok", "err"}
    /\ acceptOp' = "none"
    /\ task' = [task EXCEPT ![w] = IF acceptOp = "ok" THEN "start" ELSE "idle"]
    /\ UNCHANGED <<proc, stopped, signal, newConn, refs, connected, reading,
                   ready, on>>

\* Mutant: a failed accept calls nobody.
RunAcceptOkOnly(w) ==
    /\ Idle(w)
    /\ acceptOp = "ok"
    /\ acceptOp' = "none"
    /\ task' = [task EXCEPT ![w] = "start"]
    /\ UNCHANGED <<proc, stopped, signal, newConn, refs, connected, reading,
                   ready, on>>

\* handle_accept begins: an accepted session is started, a failed accept goes
\* straight to start_accept().
RunAccept(w) ==
    /\ Idle(w)
    /\ acceptOp \in {"ok", "err"}
    /\ acceptOp' = "none"
    /\ task' = [task EXCEPT ![w] = IF acceptOp = "ok" THEN "start" ELSE "start_accept"]
    /\ UNCHANGED <<proc, stopped, signal, newConn, refs, connected, reading,
                   ready, on>>

\* A completed read's handler is taken by w: the strand of s must be free.
\* ready[s] stays: it is the error_code the running handler was given.
RunRead(w, s) ==
    /\ Idle(w)
    /\ reading[s] # "none" /\ ready[s] # "no"
    /\ \A v \in Workers : on[v] # s
    /\ task' = [task EXCEPT ![w] = reading[s]]
    /\ on' = [on EXCEPT ![w] = s]
    /\ reading' = [reading EXCEPT ![s] = "none"]
    /\ UNCHANGED <<proc, stopped, signal, acceptOp, newConn, refs, connected, ready>>

\* Mutant: the handler marks the signal handled and does not stop the service.
handle_stopForgotten(w) ==
    /\ Idle(w) /\ signal = "raised"
    /\ signal' = "handled"
    /\ UNCHANGED <<proc, stopped, acceptOp, newConn, refs, connected, reading,
                   ready, task, on>>

\* handle_stop, whole.
handle_stop(w) ==
    /\ Idle(w) /\ signal = "raised"
    /\ signal' = "handled"
    /\ stopped' = TRUE
    /\ UNCHANGED <<proc, acceptOp, newConn, refs, connected, reading, ready,
                   task, on>>

\* io_service::run returns in this thread.
WorkerExits(w) ==
    /\ proc = "up" /\ stopped /\ task[w] = "idle"
    /\ task' = [task EXCEPT ![w] = "exited"]
    /\ UNCHANGED <<proc, stopped, signal, acceptOp, newConn, refs, connected,
                   reading, ready, on>>

\* server::run has joined every thread, main returns.
JoinAll ==
    /\ proc = "up"
    /\ \A w \in Workers : task[w] = "exited"
    /\ proc' = "exited"
    /\ UNCHANGED <<stopped, signal, acceptOp, newConn, refs, connected, reading,
                   ready, task, on>>

-----------------------------------------------------------------------------
(* class server.                                                           *)

\* async_read with a handler that holds shared_from_this().
ArmRead(s, stage) ==
    /\ reading' = [reading EXCEPT ![s] = stage]
    /\ ready' = [ready EXCEPT ![s] = "no"]
    /\ refs' = [refs EXCEPT ![s] = @ + 1]

\* Mutant: the read is armed first and the members are reset after it.
startArmFirst(w) ==
    /\ proc = "up" /\ task[w] = "start"
    /\ IF reading[newConn] = "none" /\ \A v \in Workers : on[v] # newConn
       THEN ArmRead(newConn, "ftd_header") /\ UNCHANGED task
       ELSE /\ task' = [task EXCEPT ![w] = "start_accept"]
            /\ UNCHANGED <<reading, ready, refs>>
    /\ UNCHANGED <<proc, stopped, signal, acceptOp, newConn, connected, on>>

\* Mutant: the new session is armed with a plain this pointer.
startPlainThis(w) ==
    /\ proc = "up" /\ task[w] = "start"
    /\ reading' = [reading EXCEPT ![newConn] = "ftd_header"]
    /\ ready' = [ready EXCEPT ![newConn] = "no"]
    /\ task' = [task EXCEPT ![w] = "start_accept"]
    /\ UNCHANGED <<proc, stopped, signal, acceptOp, newConn, refs, connected,
                   on>>

\* The end of new_connection_->start(): the members were reset while the
\* thread was in "start", the last statement arms the read of the ftd header.
start(w) ==
    /\ proc = "up" /\ task[w] = "start"
    /\ ArmRead(newConn, "ftd_header")
    /\ task' = [task EXCEPT ![w] = "start_accept"]
    /\ UNCHANGED <<proc, stopped, signal, acceptOp, newConn, connected, on>>

\* Mutant: reset() without a new session.
start_acceptEmpty(w) ==
    /\ proc = "up" /\ task[w] = "start_accept"
    /\ newConn' = NoSession
    /\ refs' = [refs EXCEPT ![newConn] = @ - 1]
    /\ acceptOp' = "pending"
    /\ task' = [task EXCEPT ![w] = "idle"]
    /\ UNCHANGED <<proc, stopped, signal, connected, reading, ready, on>>

\* start_accept, whole: construct the next session, let go of the previous one
\* (freed here if its reads are already over), arm the accept, return.
start_accept(w) ==
    /\ proc = "up" /\ task[w] = "start_accept"
    /\ \E s \in Sessions :
          /\ refs[s] = 0
          /\ newConn' = s
          /\ refs' = [refs EXCEPT ![s] = 1, ![newConn] = @ - 1]
    /\ connected' = [connected EXCEPT ![newConn] = @ /\ refs[newConn] > 1]
    /\ acceptOp' = "pending"
    /\ task' = [task EXCEPT ![w] = "idle"]
    /\ UNCHANGED <<proc, stopped, signal, reading, ready, on>>

-----------------------------------------------------------------------------
(* class ftdsession: the bodies of the read handlers.                      *)

\* Mutant: a read that failed is tried again.
ReadThenRetry(w, stage, nextStage) ==
    /\ proc = "up" /\ task[w] = stage
    /\ ArmRead(on[w], IF ready[on[w]] = "ok" THEN nextStage ELSE stage)
    /\ task' = [task EXCEPT ![w] = "return"]
    /\ UNCHANGED <<proc, stopped, signal, acceptOp, newConn, connected, on>>

\* if (!e) arm the next read; either way the handler returns.
ReadThen(w, stage, nextStage) ==
    /\ proc = "up" /\ task[w] = stage
    /\ \/ /\ ready[on[w]] = "ok"
          /\ ArmRead(on[w], nextStage)
       \/ /\ ready[on[w]] # "ok"
          /\ UNCHANGED <<reading, ready, refs>>
    /\ task' = [task EXCEPT ![w] = "return"]
    /\ UNCHANGED <<proc, stopped, signal, acceptOp, newConn, connected, on>>

\* Even an empty extended header (extend_length 0) is read by an async_read.
handle_read_ftd_header(w) == ReadThen(w, "ftd_header", "ftd_extendheader")

handle_read_ftd_extendheader(w) == ReadThen(w, "ftd_extendheader", "ftdc")

\* if (!e) and the lengths agree, call handler_; if they disagree close the
\* socket.  Nothing is armed afterwards: response() is not called.
handle_read_ftdc(w) ==
    /\ proc = "up" /\ task[w] = "ftdc"
    /\ task' = [task EXCEPT ![w] =
                   IF ready[on[w]] = "ok" THEN "request" ELSE "return"]
    /\ connected' = [connected EXCEPT ![on[w]] = @ /\ ready[on[w]] # "bad"]
    /\ UNCHANGED <<proc, stopped, signal, acceptOp, newConn, refs, reading,
                   ready, on>>

\* handler_ (request_handle_fuc) returns the answer, which is assigned to
\* rsp_ftdc_buffers_ ...
RequestReturns(w) ==
    /\ proc = "up" /\ task[w] = "request"
    /\ task' = [task EXCEPT ![w] = "return"]
    /\ UNCHANGED <<proc, stopped, signal, acceptOp, newConn, refs, connected,
                   reading, ready, on>>

\* ... or throws.  Nothing catches it: it leaves io_service::run and the
\* thread's start function, and the process is terminated.
RequestThrows(w) ==
    /\ proc = "up" /\ task[w] = "request"
    /\ proc' = "terminated"
    /\ UNCHANGED <<stopped, signal, acceptOp, newConn, refs, connected, reading,
                   ready, task, on>>

\* The handler returns and the shared_ptr bound to it goes away; the last one
\* destroys the session and its socket.
HandlerReturns(w) ==
    /\ proc = "up" /\ task[w] = "return"
    /\ task' = [task EXCEPT ![w] = "idle"]
    /\ refs' = [refs EXCEPT ![on[w]] = @ - 1]
    /\ connected' = [connected EXCEPT ![on[w]] = @ /\ refs[on[w]] > 1]
    /\ on' = [on EXCEPT ![w] = NoSession]
    /\ UNCHANGED <<proc, stopped, signal, acceptOp, newConn, reading, ready>>

-----------------------------------------------------------------------------

\* What a thread does once it is inside a handler, or leaving run().
WorkerStep(w) ==
    \/ start(w) \/ start_accept(w)
    \/ handle_read_ftd_header(w) \/ handle_read_ftd_extendheader(w)
    \/ handle_read_ftdc(w)
    \/ RequestReturns(w) \/ RequestThrows(w)
    \/ HandlerReturns(w) \/ WorkerExits(w)

\* The process is over.
Over == proc # "up" /\ UNCHANGED vars

Next ==
    \/ AcceptCompletes \/ SignalArrives \/ JoinAll \/ Over
    \/ \E s \in Sessions : ReadCompletes(s)
    \/ \E w \in Workers :
          \/ WorkerStep(w)
          \/ RunAccept(w) \/ handle_stop(w)
          \/ \E s \in Sessions : RunRead(w, s)

Spec == Init /\ [][Next]_vars

\* Threads keep running, request_handle_fuc returns or throws, and the
\* io_service's handler queue is first in, first out: a queued handler is
\* taken even if the threads are busy again and again.  Peers, the operating
\* system and the operator owe nothing.
Fairness ==
    /\ WF_vars(JoinAll)
    /\ \A w \in Workers : WF_vars(WorkerStep(w))
    /\ SF_vars(\E w \in Workers : RunAccept(w))
    /\ SF_vars(\E w \in Workers : handle_stop(w))
    /\ \A s \in Sessions : SF_vars(\E w \in Workers : RunRead(w, s))

FairSpec == Spec /\ Fairness

-----------------------------------------------------------------------------
(* Properties.                                                             *)

InAccept(w) == task[w] \in AcceptTasks

\* new_connection_ and acceptor_ are used without a lock or a strand.  That is
\* safe because the accept chain is a single token: either the async_accept is
\* outstanding or exactly one thread is inside handle_accept.
AcceptChainSingle ==
    /\ \A v, w \in Workers : InAccept(v) /\ InAccept(w) => v = w
    /\ acceptOp = "none" <=> \E w \in Workers : InAccept(w)

\* w executes code that reads or writes the members of s.
Touches(w, s) ==
    \/ task[w] = "start" /\ newConn = s
    \/ task[w] \in StrandTasks \ {"return"} /\ on[w] = s

\* start() runs on an accept thread, outside the session's strand; still no
\* two threads ever work on the members of one session at the same time.
MembersExclusive ==
    \A s \in Sessions : \A v, w \in Workers :
        Touches(v, s) /\ Touches(w, s) => v = w

B(p) == IF p THEN 1 ELSE 0

\* The use count of every session is exactly its owners: new_connection_, the
\* handler of its outstanding read, the handler that is running.  So a session
\* is never used after it was freed and none is kept for ever.
RefsCountOwners ==
    \A s \in Sessions :
        refs[s] = B(newConn = s) + B(reading[s] # "none")
                    + B(\E w \in Workers : on[w] = s)

\* A read is only ever outstanding on a socket that was accepted and that this
\* session did not close: handle_accept starts the session that was accepted,
\* not the next one.
ReadsOnConnected ==
    \A s \in Sessions : reading[s] # "none" => connected[s]

Halting == stopped \/ proc # "up"

\* The server keeps listening: whatever became of an accept, the next one is
\* armed, unless the server is stopping or was terminated.
AcceptRearmed == (acceptOp # "pending") ~> (acceptOp = "pending" \/ Halting)

\* A signal ends the process: the io_service is stopped, every thread leaves
\* run() and is joined (or a throwing request terminates the process first).
SignalEndsProcess == (signal = "raised") ~> (proc # "up")

\* A connection that broke, or whose frame had inconsistent lengths, is given
\* back: its session is freed although nobody calls it any more.
BrokenConnectionFreed ==
    \A s \in Sessions :
        (reading[s] # "none" /\ ready[s] \in {"err", "bad"})
            ~> (refs[s] = 0 \/ Halting)
=============================================================================
