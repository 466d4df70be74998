--------------------------- MODULE EventLoopRunner ---------------------------
(***************************************************************************)
(* runEventLoops() (src/server/event_loop_runner.cpp): the main thread      *)
(* installs the signal handler, starts one thread per event loop and joins  *)
(* them; a worker that run() throws in records the error and stops every    *)
(* loop; SIGINT and SIGTERM stop every loop from the handler.               *)
(***************************************************************************)
EXTENDS EventLoop

VARIABLES
  spawned,   \* worker threads started so far
  main,      \* where runEventLoops() stands
  result,    \* what it returned
  hasError, errorMessage,  \* its locals, shared with the workers
  stopper    \* how far each caller of stop() has got: the handler is caller 0

runnerVars == <<spawned, main, result, hasError, errorMessage, stopper>>
vars == <<loopVars, runnerVars>>

Stoppers == 0 .. N
Idle == [loop |-> 0, step |-> "flag"]     \* not called yet
Over == [loop |-> N + 1, step |-> "flag"]

TypeOK ==
  /\ LoopTypeOK
  /\ spawned \in 0 .. N
  /\ main \in {"spawning", "joining", "returned"}
  /\ result \in {0, 1}
  /\ hasError \in BOOLEAN
  /\ errorMessage \in 0 .. N   \* 0: empty, otherwise the worker it is from
  /\ stopper \in [Stoppers -> [loop : 0 .. N + 1, step : {"flag", "shut", "close"}]]

Init ==
  /\ LoopInit
  /\ spawned = 0 /\ main = "spawning" /\ result = 0
  /\ hasError = FALSE /\ errorMessage = 0
  /\ stopper = [a \in Stoppers |-> Idle]

\* workers.emplace_back(): the next worker starts and calls run().
Spawn ==
  /\ main = "spawning"
  /\ Goto(spawned + 1, "new")
  /\ spawned' = spawned + 1
  /\ main' = IF spawned + 1 = N THEN "joining" ELSE "spawning"
  /\ UNCHANGED <<running, fdSet, sock, accept, acceptOn, conn, open, cause,
                 result, hasError, errorMessage, stopper>>

\* Fault: every failing worker records its message.
CatchOverwrites(l) ==
  /\ pc[l] = "threw" /\ Goto(l, "flagging")
  /\ errorMessage' = l
  /\ UNCHANGED <<running, fdSet, sock, accept, acceptOn, conn, open, cause,
                 spawned, main, result, hasError, stopper>>

\* The locked part of the catch block.
Catch(l) ==
  /\ pc[l] = "threw" /\ Goto(l, "flagging")
  /\ errorMessage' = IF hasError THEN errorMessage ELSE l
  /\ UNCHANGED <<running, fdSet, sock, accept, acceptOn, conn, open, cause,
                 spawned, main, result, hasError, stopper>>

\* Fault: the error is recorded but not flagged.
FlagNot(l) ==
  /\ pc[l] = "flagging" /\ Goto(l, "stopping")
  /\ stopper' = [stopper EXCEPT ![l] = [loop |-> 1, step |-> "flag"]]
  /\ UNCHANGED <<running, fdSet, sock, accept, acceptOn, conn, open, cause,
                 spawned, main, result, hasError, errorMessage>>

\* hasError = true, outside the lock; then the worker calls stop() on each loop.
Flag(l) ==
  /\ pc[l] = "flagging" /\ Goto(l, "stopping")
  /\ hasError' = TRUE
  /\ stopper' = [stopper EXCEPT ![l] = [loop |-> 1, step |-> "flag"]]
  /\ UNCHANGED <<running, fdSet, sock, accept, acceptOn, conn, open, cause,
                 spawned, main, result, errorMessage>>

WorkerEnds(l) ==
  /\ pc[l] = "stopping" /\ stopper[l] = Over
  /\ Goto(l, "ended")
  /\ UNCHANGED <<running, fdSet, sock, accept, acceptOn, conn, open, cause,
                 runnerVars>>

\* A signal arrives while runEventLoops() is at work.
Signal ==
  /\ stopper[0] = Idle /\ main # "returned"
  /\ stopper' = [stopper EXCEPT ![0] = [loop |-> 1, step |-> "flag"]]
  /\ UNCHANGED <<loopVars, spawned, main, result, hasError, errorMessage>>

\* The handler, or a failing worker, takes its next step through the loops.
StopStep(a) ==
  LET l == stopper[a].loop
      next == CASE stopper[a].step = "flag"  -> [loop |-> l, step |-> "shut"]
                [] stopper[a].step = "shut"  -> [loop |-> l, step |-> "close"]
                [] stopper[a].step = "close" -> [loop |-> l + 1, step |-> "flag"]
  IN  /\ l \in Loops
      /\ \/ stopper[a].step = "flag"  /\ StopFlag(l)
         \/ stopper[a].step = "shut"  /\ StopShut(l)
         \/ stopper[a].step = "close" /\ StopClose(l)
      /\ stopper' = [stopper EXCEPT ![a] = next]
      /\ UNCHANGED <<spawned, main, result, hasError, errorMessage>>

\* All workers have been joined.
Join ==
  /\ main = "joining"
  /\ \A l \in Loops : pc[l] \in {"returned", "ended"}
  /\ main' = "returned"
  /\ result' = IF hasError THEN 1 ELSE 0
  /\ UNCHANGED <<loopVars, spawned, hasError, errorMessage, stopper>>

Worker(l) == (Run(l) /\ UNCHANGED runnerVars) \/ Catch(l) \/ Flag(l) \/ WorkerEnds(l)
Kernel(l) == KernelRefuses(l) /\ UNCHANGED runnerVars
Clients(l) == (KernelAccept(l) \/ ConnectionEnds(l)) /\ UNCHANGED runnerVars

Next ==
  \/ Spawn \/ Join \/ Signal
  \/ \E a \in Stoppers : StopStep(a)
  \/ \E l \in Loops : Worker(l) \/ Kernel(l) \/ Clients(l)

\* Threads are scheduled and the kernel answers what can be answered; clients
\* and signals come when they like.
Spec == Init /\ [][Next]_vars
FairSpec ==
  /\ Spec
  /\ WF_vars(Spawn) /\ WF_vars(Join)
  /\ \A a \in Stoppers : WF_vars(StopStep(a))
  /\ \A l \in Loops : WF_vars(Worker(l)) /\ WF_vars(Kernel(l))
-----------------------------------------------------------------------------
\* The error reported is a cause, not a consequence: unless a signal interfered,
\* runEventLoops() keeps the message of a worker that failed by itself, and none
\* whose socket was closed by another worker's stop() (the catch block's order:
\* message, hasError, stop).
RootCauseReported ==
  errorMessage # 0 /\ stopper[0] = Idle => cause[errorMessage] = "own"

\* event_loop_runner.h:32: runEventLoops() returns when every worker has ended,
\* and returns non-zero exactly if a worker's run() threw.
ResultTellsFailure ==
  main = "returned" =>
    /\ \A l \in Loops : pc[l] \in {"returned", "ended"}
    /\ result = 1 <=> \E l \in Loops : cause[l] # "none"

\* Liveness: stop() takes effect.  A loop told to stop once it is running leaves
\* run(), whatever it was doing: shutdown() wakes it from submitAndWait().  With
\* two callers this fails: one may have passed shutdown() before listen() and
\* close the descriptor just before the other would shut it down.
StopEndsLoop ==
  \A l \in Loops :
    (pc[l] \in InLoop /\ ~running[l])
      ~> (pc[l] = "returned" \/ \E a, b \in Stoppers :
                                 a # b /\ stopper[a] # Idle /\ stopper[b] # Idle)
=============================================================================
