------------------------------ MODULE EventLoop ------------------------------
(***************************************************************************)
(* The event loops of one process (src/server/event_loop.cpp).  Each runs   *)
(* on a thread of its own: run() opens a listening socket, starts the       *)
(* accept coroutine and then submits, waits, dispatches completions and     *)
(* reclaims closed connections until running_ is false.  stop() comes from  *)
(* other threads, or from a signal handler, and races with all of that; its *)
(* three effects are separate actions here.                                 *)
(*                                                                          *)
(* A connection is opaque: it is active until its coroutines have ended     *)
(* (closed_), and holds its socket until the loop destroys it.  All loops   *)
(* draw the descriptors of accepted sockets from the same process table.    *)
(***************************************************************************)
EXTENDS Integers, FiniteSets

CONSTANTS
  N,          \* how many event loops there are
  ClientFds   \* bound: descriptors accepted sockets can get

ASSUME EventLoopAssumption ==
  /\ N \in Nat \ {0}
  /\ {"none", "prepared", "posted", "error"} \cap ClientFds = {}

Loops == 1 .. N

VARIABLES
  pc,        \* where the thread of each loop stands in run()
  running,   \* running_
  fdSet,     \* listenFd_ >= 0
  sock,      \* the listening socket itself, as the kernel has it
  accept,    \* the accept coroutine's operation, or its result
  acceptOn,  \* that operation reached the listening socket
  conn,      \* connections_: the state of the connection under each fd
  open,      \* descriptors of accepted sockets that are open
  cause      \* history: why run() threw

loopVars == <<pc, running, fdSet, sock, accept, acceptOn, conn, open, cause>>

\* Inside run() after running_ has been set.
InLoop == {"first", "top", "wait", "dispatch", "again", "cleanup", "tail"}

LoopTypeOK ==
  /\ pc \in [Loops -> InLoop \cup {"idle", "new", "bind", "ready", "returned",
                                   "threw", "flagging", "stopping", "ended"}]
  /\ running \in [Loops -> BOOLEAN]
  /\ fdSet \in [Loops -> BOOLEAN]
  /\ sock \in [Loops -> {"none", "open", "listening", "shut"}]
  /\ accept \in [Loops -> {"none", "prepared", "posted", "error"} \cup ClientFds]
  /\ acceptOn \in [Loops -> BOOLEAN]
  /\ conn \in [Loops -> [ClientFds -> {"none", "active", "closed"}]]
  /\ open \subseteq ClientFds
  /\ cause \in [Loops -> {"none", "own", "stopped"}]

LoopInit ==
  /\ pc = [l \in Loops |-> "idle"]
  /\ running = [l \in Loops |-> FALSE]
  /\ fdSet = [l \in Loops |-> FALSE]
  /\ sock = [l \in Loops |-> "none"]
  /\ accept = [l \in Loops |-> "none"]
  /\ acceptOn = [l \in Loops |-> FALSE]
  /\ conn = [l \in Loops |-> [f \in ClientFds |-> "none"]]
  /\ open = {}
  /\ cause = [l \in Loops |-> "none"]

Goto(l, p) == pc' = [pc EXCEPT ![l] = p]
Throw(l, why) == Goto(l, "threw") /\ cause' = [cause EXCEPT ![l] = why]

-----------------------------------------------------------------------------
(* run(): the prologue.                                                     *)

RunSocket(l) ==
  /\ pc[l] = "new"
  /\ \/ Throw(l, "own") /\ UNCHANGED <<fdSet, sock>>
     \/ /\ Goto(l, "bind")
        /\ fdSet' = [fdSet EXCEPT ![l] = TRUE]
        /\ sock' = [sock EXCEPT ![l] = "open"]
        /\ UNCHANGED cause
  /\ UNCHANGED <<running, accept, acceptOn, conn, open>>

\* bind() and listen().  When they fail the socket is closed and listenFd_ keeps
\* its value; they fail for want of a port, or because stop() closed the socket.
RunBind(l) ==
  /\ pc[l] = "bind"
  /\ \/ fdSet[l] /\ Goto(l, "ready") /\ sock' = [sock EXCEPT ![l] = "listening"]
        /\ UNCHANGED cause
     \/ fdSet[l] /\ Throw(l, "own") /\ sock' = [sock EXCEPT ![l] = "none"]
     \/ ~fdSet[l] /\ Throw(l, "stopped") /\ UNCHANGED sock
  /\ UNCHANGED <<running, fdSet, accept, acceptOn, conn, open>>

RunReady(l) ==
  /\ pc[l] = "ready" /\ Goto(l, "first")
  /\ running' = [running EXCEPT ![l] = TRUE]
  /\ UNCHANGED <<fdSet, sock, accept, acceptOn, conn, open, cause>>

-----------------------------------------------------------------------------
(* acceptLoop().                                                            *)

\* The head of acceptLoop()'s while, at its start and after each completion:
\* prepare another accept, on whatever listenFd_ is now, or end.
AcceptNext(l) ==
  /\ pc[l] \in {"first", "again"}
  /\ Goto(l, IF pc[l] = "first" THEN "top" ELSE "dispatch")
  /\ \/ /\ running[l]
        /\ accept' = [accept EXCEPT ![l] = "prepared"]
        /\ acceptOn' = [acceptOn EXCEPT ![l] = fdSet[l]]
     \/ ~running[l] /\ UNCHANGED <<accept, acceptOn>>
  /\ UNCHANGED <<running, fdSet, sock, conn, open, cause>>

\* acceptLoop() is resumed: an error ends it if the loop is stopping and is
\* retried otherwise; the factory may refuse a socket, which is closed; a
\* connection is started, which may end it at once, and then registered.
AcceptResult(l) ==
  /\ pc[l] = "dispatch" /\ accept[l] \in ClientFds \cup {"error"}
  /\ accept' = [accept EXCEPT ![l] = "none"]
  /\ \/ /\ accept[l] = "error"
        /\ IF running[l] THEN Goto(l, "again") ELSE UNCHANGED pc
        /\ UNCHANGED <<conn, open>>
     \/ /\ accept[l] \in ClientFds
        /\ Goto(l, "again")
        /\ \/ open' = open \ {accept[l]} /\ UNCHANGED conn
           \/ /\ \E s \in {"active", "closed"} :
                   conn' = [conn EXCEPT ![l][accept[l]] = s]
              /\ UNCHANGED open
  /\ UNCHANGED <<running, fdSet, sock, acceptOn, cause>>

\* A client connects, or accept fails for a passing reason.
KernelAccept(l) ==
  /\ accept[l] = "posted" /\ acceptOn[l] /\ sock[l] # "shut"
  /\ \/ /\ accept' = [accept EXCEPT ![l] = "error"]
        /\ UNCHANGED open
     \/ \E f \in ClientFds \ open :
          /\ accept' = [accept EXCEPT ![l] = f]
          /\ open' = open \cup {f}
  /\ UNCHANGED <<pc, running, fdSet, sock, acceptOn, conn, cause>>

\* accept fails on a descriptor that is not open, or on a shut down socket.
KernelRefuses(l) ==
  /\ accept[l] = "posted" /\ (~acceptOn[l] \/ sock[l] = "shut")
  /\ accept' = [accept EXCEPT ![l] = "error"]
  /\ UNCHANGED <<pc, running, fdSet, sock, acceptOn, conn, open, cause>>

-----------------------------------------------------------------------------
(* run(): the loop.                                                         *)

\* while (running_), then submitAndWait(1) hands the prepared accept over.
LoopTop(l) ==
  /\ pc[l] = "top"
  /\ \/ /\ running[l] /\ Goto(l, "wait")
        /\ accept' = [accept EXCEPT ![l] = IF @ = "prepared" THEN "posted" ELSE @]
        /\ acceptOn' = [acceptOn EXCEPT ![l] =
                          IF accept[l] = "prepared" THEN @ /\ fdSet[l] ELSE @]
     \/ ~running[l] /\ Goto(l, "tail") /\ UNCHANGED <<accept, acceptOn>>
  /\ UNCHANGED <<running, fdSet, sock, conn, open, cause>>

\* submitAndWait(1) returns once there is a completion: the accept's, or that
\* of an operation of some connection.
LoopWake(l) ==
  /\ pc[l] = "wait" /\ Goto(l, "dispatch")
  /\ \/ accept[l] \in ClientFds \cup {"error"}
     \/ \E f \in ClientFds : conn[l][f] = "active"
  /\ UNCHANGED <<running, fdSet, sock, accept, acceptOn, conn, open, cause>>

\* Fault: a connection closes its socket itself when it has ended.
ConnectionClosesFd(l) ==
  /\ pc[l] = "dispatch"
  /\ \E f \in ClientFds :
       /\ conn[l][f] = "active"
       /\ conn' = [conn EXCEPT ![l][f] = "closed"]
       /\ open' = open \ {f}
  /\ UNCHANGED <<pc, running, fdSet, sock, accept, acceptOn, cause>>

\* A completion ends a connection: closed_ is set, its socket stays open.
ConnectionEnds(l) ==
  /\ pc[l] = "dispatch"
  /\ \E f \in ClientFds :
       /\ conn[l][f] = "active"
       /\ conn' = [conn EXCEPT ![l][f] = "closed"]
  /\ UNCHANGED <<pc, running, fdSet, sock, accept, acceptOn, open, cause>>

\* Fault: closed connections are reclaimed only when the loop ends.
DispatchedNoCleanup(l) ==
  /\ pc[l] = "dispatch" /\ accept[l] \notin ClientFds \cup {"error"}
  /\ Goto(l, "top")
  /\ UNCHANGED <<running, fdSet, sock, accept, acceptOn, conn, open, cause>>

\* processCompletions() has seen the last completion there was.
Dispatched(l) ==
  /\ pc[l] = "dispatch" /\ accept[l] \notin ClientFds \cup {"error"}
  /\ Goto(l, "cleanup")
  /\ UNCHANGED <<running, fdSet, sock, accept, acceptOn, conn, open, cause>>

\* cleanupClosedConnections(): destroying a connection closes its socket.
Cleanup(l) ==
  /\ pc[l] = "cleanup" /\ Goto(l, "top")
  /\ open' = open \ {f \in ClientFds : conn[l][f] = "closed"}
  /\ conn' = [conn EXCEPT ![l] =
                [f \in ClientFds |-> IF @[f] = "closed" THEN "none" ELSE @[f]]]
  /\ UNCHANGED <<running, fdSet, sock, accept, acceptOn, cause>>

\* The end of run(): every connection is destroyed, and the listening socket is
\* closed unless stop() has done so.
LoopTail(l) ==
  /\ pc[l] = "tail" /\ Goto(l, "returned")
  /\ open' = open \ {f \in ClientFds : conn[l][f] # "none"}
  /\ conn' = [conn EXCEPT ![l] = [f \in ClientFds |-> "none"]]
  /\ fdSet' = [fdSet EXCEPT ![l] = FALSE]
  /\ UNCHANGED <<running, sock, accept, acceptOn, cause>>

Run(l) ==
  \/ RunSocket(l) \/ RunBind(l) \/ RunReady(l)
  \/ AcceptNext(l) \/ AcceptResult(l)
  \/ LoopTop(l) \/ LoopWake(l) \/ Dispatched(l) \/ Cleanup(l) \/ LoopTail(l)

-----------------------------------------------------------------------------
(* stop(), called for loop l by some other thread.                          *)

StopFlag(l) ==
  /\ running' = [running EXCEPT ![l] = FALSE]
  /\ UNCHANGED <<pc, fdSet, sock, accept, acceptOn, conn, open, cause>>

\* Fault: the listening socket is closed but not shut down.
StopShutNot(l) == UNCHANGED loopVars

\* shutdown() of the listening socket, which fails a pending accept.
StopShut(l) ==
  /\ sock' = [sock EXCEPT ![l] = IF fdSet[l] /\ @ = "listening" THEN "shut" ELSE @]
  /\ UNCHANGED <<pc, running, fdSet, accept, acceptOn, conn, open, cause>>

StopClose(l) ==
  /\ fdSet' = [fdSet EXCEPT ![l] = FALSE]
  /\ UNCHANGED <<pc, running, sock, accept, acceptOn, conn, open, cause>>
-----------------------------------------------------------------------------
\* Every open client socket has exactly one owner: the connection registered
\* under its descriptor in one loop, or an accept about to be dispatched.  So
\* connections_[clientFd] = conn never overwrites a live connection although
\* descriptors are reused (acceptLoop, cleanupClosedConnections).
OneOwner ==
  \A f \in ClientFds :
    /\ (f \in open) <=> (\E l \in Loops : conn[l][f] # "none" \/ accept[l] = f)
    /\ \A l, m \in Loops :
         conn[l][f] # "none" =>
           accept[m] # f /\ (conn[m][f] # "none" => l = m)

\* No closed connection is left waiting: the loop blocks in submitAndWait() only
\* after reclaiming every connection that has ended.
NothingLeftClosed ==
  \A l \in Loops : pc[l] = "wait" => \A f \in ClientFds : conn[l][f] # "closed"
=============================================================================
