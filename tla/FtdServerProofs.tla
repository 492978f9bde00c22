-------------------------- MODULE FtdServerProofs --------------------------
(***************************************************************************)
(* What FtdServer promises for every pool of threads and every number of   *)
(* sessions.  The invariants that TLC checks are not inductive by          *)
(* themselves: that a session has one thread at a time rests on where its  *)
(* read is, and the use count rests on which handlers exist.  IInv joins   *)
(* them with the facts that link a thread's task to the session it is on.  *)
(***************************************************************************)
EXTENDS FtdServer, TLAPS

\* A thread is on a session exactly while it is in one of its strand handlers.
OnTask == \A w \in Workers : on[w] # NoSession <=> task[w] \in StrandTasks

\* The strand: a session has at most one thread in its handlers.
StrandUnique ==
    \A v, w \in Workers : on[v] # NoSession /\ on[v] = on[w] => v = w

\* The next read of a session is armed by the last statement of a handler, so
\* while a body runs there is no read that could call a second one.
BodyExcludesRead ==
    \A w \in Workers :
        task[w] \in StrandTasks \ {"return"} => reading[on[w]] = "none"

\* The session in new_connection_ has no handler at all until start() ends.
NotStarted == acceptOp # "none" \/ \E w \in Workers : task[w] = "start"
NewConnUntouched ==
    NotStarted => reading[newConn] = "none" /\ \A w \in Workers : on[w] # newConn

\* The accept succeeded, and start() has not armed the first read yet.
Accepted == acceptOp = "ok" \/ \E w \in Workers : task[w] = "start"

\* Whoever is about to arm a read does so on a connected socket.
ArmsConnected ==
    /\ Accepted => connected[newConn]
    /\ \A w \in Workers :
          task[w] \in {"ftd_header", "ftd_extendheader", "ftdc"} => connected[on[w]]

IInv ==
    /\ TypeOK
    /\ AcceptChainSingle
    /\ OnTask
    /\ StrandUnique
    /\ BodyExcludesRead
    /\ NewConnUntouched
    /\ ArmsConnected
    /\ RefsCountOwners
    /\ ReadsOnConnected

-----------------------------------------------------------------------------

\* The constructor's start_accept establishes the invariant.
LEMMA InitIInv == Init => IInv
<1> SUFFICES ASSUME Init PROVE IInv
  OBVIOUS
<1>1. TypeOK
  BY DEF Init, TypeOK, Tasks
<1>2. AcceptChainSingle
  BY DEF Init, AcceptChainSingle, InAccept, AcceptTasks
<1>3. OnTask /\ StrandUnique /\ BodyExcludesRead
  BY DEF Init, OnTask, StrandUnique, BodyExcludesRead, StrandTasks, Stages
<1>4. NewConnUntouched /\ ArmsConnected
  BY SessionAssumption
  DEF Init, NewConnUntouched, NotStarted, ArmsConnected, Accepted
<1>5. RefsCountOwners
  BY SessionAssumption DEF Init, RefsCountOwners, B
<1>6. ReadsOnConnected
  BY DEF Init, ReadsOnConnected
<1> QED
  BY <1>1, <1>2, <1>3, <1>4, <1>5, <1>6 DEF IInv

\* Every step of the io threads, the peers and the operator preserves it.
LEMMA NextIInv == IInv /\ [Next]_vars => IInv'
<1> SUFFICES ASSUME IInv, [Next]_vars PROVE IInv'
  OBVIOUS
<1> USE SessionAssumption
    DEF IInv, TypeOK, AcceptChainSingle, OnTask, StrandUnique,
      BodyExcludesRead, NewConnUntouched, NotStarted, ArmsConnected, Accepted,
      RefsCountOwners, ReadsOnConnected, B, InAccept, Tasks, StrandTasks,
      AcceptTasks, Stages
<1>1. CASE AcceptCompletes
  <2>1. CASE acceptOp' = "ok" /\ connected' = [connected EXCEPT ![newConn] = TRUE]
    BY <1>1, <2>1 DEF AcceptCompletes
  <2>2. CASE acceptOp' = "err" /\ UNCHANGED connected
    BY <1>1, <2>2 DEF AcceptCompletes
  <2> QED
    BY <1>1, <2>1, <2>2 DEF AcceptCompletes
<1>2. CASE SignalArrives
  BY <1>2 DEF SignalArrives
<1>3. CASE JoinAll
  BY <1>3 DEF JoinAll
<1>4. CASE UNCHANGED vars
  BY <1>4 DEF vars
<1>5. ASSUME NEW s \in Sessions, ReadCompletes(s) PROVE IInv'
  BY <1>5 DEF ReadCompletes
<1>6. ASSUME NEW w \in Workers, RunAccept(w) PROVE IInv'
  BY <1>6 DEF RunAccept, Idle
<1>7. ASSUME NEW w \in Workers, NEW s \in Sessions, RunRead(w, s) PROVE IInv'
  BY <1>7 DEF RunRead, Idle
<1>8. ASSUME NEW w \in Workers, handle_stop(w) PROVE IInv'
  BY <1>8 DEF handle_stop, Idle
<1>9. ASSUME NEW w \in Workers, WorkerExits(w) PROVE IInv'
  BY <1>9 DEF WorkerExits
<1>10. ASSUME NEW w \in Workers, start(w) PROVE IInv'
  BY <1>10 DEF start, ArmRead
<1>11. ASSUME NEW w \in Workers, start_accept(w) PROVE IInv'
  BY <1>11 DEF start_accept
<1>12. ASSUME NEW w \in Workers, handle_read_ftd_header(w) PROVE IInv'
  BY <1>12 DEF handle_read_ftd_header, ReadThen, ArmRead
<1>13. ASSUME NEW w \in Workers, handle_read_ftd_extendheader(w) PROVE IInv'
  BY <1>13 DEF handle_read_ftd_extendheader, ReadThen, ArmRead
<1>14. ASSUME NEW w \in Workers, handle_read_ftdc(w) PROVE IInv'
  BY <1>14 DEF handle_read_ftdc
<1>15. ASSUME NEW w \in Workers, RequestReturns(w) PROVE IInv'
  BY <1>15 DEF RequestReturns
<1>16. ASSUME NEW w \in Workers, RequestThrows(w) PROVE IInv'
  BY <1>16 DEF RequestThrows
<1>17. ASSUME NEW w \in Workers, HandlerReturns(w) PROVE IInv'
  BY <1>17 DEF HandlerReturns
<1> QED
  BY <1>1, <1>2, <1>3, <1>4, <1>5, <1>6, <1>7, <1>8, <1>9, <1>10, <1>11, <1>12,
     <1>13, <1>14, <1>15, <1>16, <1>17 DEF Next, WorkerStep, Over

-----------------------------------------------------------------------------

\* The inductive invariant holds in every reachable state of the server.
THEOREM ServerInvariant == Spec => []IInv
  BY InitIInv, NextIInv, PTL DEF Spec

\* The variables of server.cpp and ftdsession.cpp keep their types; the use
\* counts in particular never go below zero.
THEOREM ServerTypeCorrect == Spec => []TypeOK
  BY ServerInvariant, PTL DEF IInv

\* One accept chain: no two threads are ever inside handle_accept, so
\* new_connection_ and acceptor_ need no lock.
THEOREM AcceptChainCorrect == Spec => []AcceptChainSingle
  BY ServerInvariant, PTL DEF IInv

\* Session members are never touched by two threads, although start() runs
\* outside the strand: a body excludes a read, the read excludes the next body,
\* and a session that is not started has neither.
THEOREM MembersExclusiveCorrect == Spec => []MembersExclusive
<1>1. IInv => MembersExclusive
  BY SessionAssumption
  DEF IInv, TypeOK, MembersExclusive, Touches, AcceptChainSingle, InAccept,
      AcceptTasks, StrandUnique, NewConnUntouched, NotStarted
<1> QED
  BY <1>1, ServerInvariant, PTL

\* shared_from_this() in every bound handler makes the use count of a session
\* its number of owners: no use after free, no leak.
THEOREM RefsCountCorrect == Spec => []RefsCountOwners
  BY ServerInvariant, PTL DEF IInv

\* A read is only ever outstanding on an accepted socket that is not closed.
THEOREM ReadsOnConnectedCorrect == Spec => []ReadsOnConnected
  BY ServerInvariant, PTL DEF IInv
=============================================================================
