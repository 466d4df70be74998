---------------------------- MODULE RuntimeProofs ----------------------------
(***************************************************************************)
(* Theorems about the two halves of the runtime: the event loops and their  *)
(* runner, for any number of loops and of descriptors, and the operations   *)
(* of one loop's ring (the second part), for any number of coroutines,      *)
(* descriptors and operations.                                              *)
(***************************************************************************)
EXTENDS EventLoopRunner, UringOps, TLAPS

\* No descriptor is mistaken for a state of the accept.
LEMMA FdNames ==
  /\ "none" \notin ClientFds /\ "prepared" \notin ClientFds
  /\ "posted" \notin ClientFds /\ "error" \notin ClientFds
BY EventLoopAssumption

\* There is at least one loop.
LEMMA LoopsType == N \in Nat /\ 1 <= N /\ \A l \in Loops : l \in Nat /\ 1 <= l /\ l <= N
BY EventLoopAssumption DEF Loops

-----------------------------------------------------------------------------
(* Type correctness.                                                        *)

\* Changing one value of a function within its range keeps its type.
LEMMA ExceptType ==
  ASSUME NEW S, NEW T, NEW f \in [S -> T], NEW x, NEW v \in T
  PROVE  [f EXCEPT ![x] = v] \in [S -> T]
OBVIOUS

PCs == InLoop \cup {"idle", "new", "bind", "ready", "returned",
                    "threw", "flagging", "stopping", "ended"}
Conns == [ClientFds -> {"none", "active", "closed"}]

\* The thread of a loop moves on within its program.
LEMMA GotoType ==
  ASSUME pc \in [Loops -> PCs], NEW l \in Loops, NEW p \in PCs, Goto(l, p)
  PROVE  pc' \in [Loops -> PCs]
BY ExceptType DEF Goto

\* The steps of run() and of acceptLoop() keep the types.
LEMMA RunType ==
  ASSUME LoopTypeOK, NEW l \in Loops, Run(l)
  PROVE  LoopTypeOK'
<1> USE DEF LoopTypeOK
<1>0. pc \in [Loops -> PCs]
  BY DEF PCs
<1>1. CASE RunSocket(l)
  <2>1. pc' \in [Loops -> PCs]
    BY <1>0, <1>1, ExceptType DEF RunSocket, Throw, Goto, PCs
  <2>2. fdSet' \in [Loops -> BOOLEAN]
    BY <1>1, ExceptType, TRUE \in BOOLEAN DEF RunSocket
  <2>3. sock' \in [Loops -> {"none", "open", "listening", "shut"}]
    BY <1>1, ExceptType DEF RunSocket
  <2>4. cause' \in [Loops -> {"none", "own", "stopped"}]
    BY <1>1, ExceptType DEF RunSocket, Throw
  <2>5. QED
    BY <1>1, <2>1, <2>2, <2>3, <2>4 DEF RunSocket, PCs
<1>2. CASE RunBind(l)
  <2>1. pc' \in [Loops -> PCs]
    BY <1>0, <1>2, ExceptType DEF RunBind, Throw, Goto, PCs, InLoop
  <2>2. sock' \in [Loops -> {"none", "open", "listening", "shut"}]
    BY <1>2, ExceptType DEF RunBind
  <2>3. cause' \in [Loops -> {"none", "own", "stopped"}]
    BY <1>2, ExceptType DEF RunBind, Throw
  <2>4. QED
    BY <1>2, <2>1, <2>2, <2>3 DEF RunBind, PCs
<1>3. CASE RunReady(l)
  <2>1. pc' \in [Loops -> PCs]
    BY <1>0, <1>3, GotoType DEF RunReady, PCs, InLoop
  <2>2. running' \in [Loops -> BOOLEAN]
    BY <1>3, ExceptType, TRUE \in BOOLEAN DEF RunReady
  <2>3. QED
    BY <1>3, <2>1, <2>2 DEF RunReady, PCs
<1>4. CASE AcceptNext(l)
  <2>1. pc' \in [Loops -> PCs]
    BY <1>0, <1>4, ExceptType DEF AcceptNext, Goto, PCs, InLoop
  <2>2. accept' \in [Loops -> {"none", "prepared", "posted", "error"} \cup ClientFds]
    BY <1>4, ExceptType DEF AcceptNext
  <2>3. acceptOn' \in [Loops -> BOOLEAN]
    BY <1>4, ExceptType, fdSet[l] \in BOOLEAN DEF AcceptNext
  <2>4. QED
    BY <1>4, <2>1, <2>2, <2>3 DEF AcceptNext, PCs
<1>5. CASE AcceptResult(l)
  <2>1. pc' \in [Loops -> PCs]
    BY <1>0, <1>5, ExceptType DEF AcceptResult, Goto, PCs, InLoop
  <2>2. accept' \in [Loops -> {"none", "prepared", "posted", "error"} \cup ClientFds]
    BY <1>5, ExceptType DEF AcceptResult
  <2>3. conn' \in [Loops -> Conns]
    <3>1. ASSUME NEW f \in ClientFds, NEW s \in {"active", "closed"},
                 conn' = [conn EXCEPT ![l][f] = s]
          PROVE  conn' \in [Loops -> Conns]
      <4>1. conn[l] \in Conns
        BY DEF Conns
      <4>2. [conn[l] EXCEPT ![f] = s] \in Conns
        BY <4>1, ExceptType DEF Conns
      <4>3. QED
        BY <3>1, <4>2, ExceptType DEF Conns
    <3>2. QED
      BY <1>5, <3>1 DEF AcceptResult, Conns
  <2>4. open' \subseteq ClientFds
    BY <1>5 DEF AcceptResult
  <2>5. QED
    BY <1>5, <2>1, <2>2, <2>3, <2>4 DEF AcceptResult, PCs, Conns
<1>6. CASE LoopTop(l)
  <2>1. pc' \in [Loops -> PCs]
    BY <1>0, <1>6, ExceptType DEF LoopTop, Goto, PCs, InLoop
  <2>2. accept' \in [Loops -> {"none", "prepared", "posted", "error"} \cup ClientFds]
    BY <1>6, ExceptType DEF LoopTop
  <2>3. acceptOn' \in [Loops -> BOOLEAN]
    BY <1>6, ExceptType, (acceptOn[l] /\ fdSet[l]) \in BOOLEAN, acceptOn[l] \in BOOLEAN
       DEF LoopTop
  <2>4. QED
    BY <1>6, <2>1, <2>2, <2>3 DEF LoopTop, PCs
<1>7. CASE LoopWake(l)
  BY <1>0, <1>7, GotoType DEF LoopWake, PCs, InLoop
<1>8. CASE Dispatched(l)
  BY <1>0, <1>8, GotoType DEF Dispatched, PCs, InLoop
<1>9. CASE Cleanup(l)
  <2>1. pc' \in [Loops -> PCs]
    BY <1>0, <1>9, GotoType DEF Cleanup, PCs, InLoop
  <2>2. conn' \in [Loops -> Conns]
    <3>1. [f \in ClientFds |-> IF conn[l][f] = "closed" THEN "none" ELSE conn[l][f]] \in Conns
      BY DEF Conns
    <3>2. QED
      BY <1>9, <3>1, ExceptType DEF Cleanup, Conns
  <2>3. QED
    BY <1>9, <2>1, <2>2 DEF Cleanup, PCs, Conns
<1>10. CASE LoopTail(l)
  <2>1. pc' \in [Loops -> PCs]
    BY <1>0, <1>10, GotoType DEF LoopTail, PCs
  <2>2. conn' \in [Loops -> Conns]
    <3>1. [f \in ClientFds |-> "none"] \in Conns
      BY DEF Conns
    <3>2. QED
      BY <1>10, <3>1, ExceptType DEF LoopTail, Conns
  <2>3. fdSet' \in [Loops -> BOOLEAN]
    BY <1>10, ExceptType, FALSE \in BOOLEAN DEF LoopTail
  <2>4. QED
    BY <1>10, <2>1, <2>2, <2>3 DEF LoopTail, PCs, Conns
<1>11. QED
  BY <1>1, <1>2, <1>3, <1>4, <1>5, <1>6, <1>7, <1>8, <1>9, <1>10 DEF Run

\* What the kernel, the clients and a connection's coroutines do keeps the types.
LEMMA OutsideType ==
  ASSUME LoopTypeOK, NEW l \in Loops,
         KernelRefuses(l) \/ KernelAccept(l) \/ ConnectionEnds(l)
  PROVE  LoopTypeOK'
<1> USE DEF LoopTypeOK
<1>1. CASE KernelRefuses(l)
  BY <1>1, ExceptType DEF KernelRefuses
<1>2. CASE KernelAccept(l)
  <2>1. accept' \in [Loops -> {"none", "prepared", "posted", "error"} \cup ClientFds]
    <3>1. \E v \in {"error"} \cup ClientFds : accept' = [accept EXCEPT ![l] = v]
      BY <1>2 DEF KernelAccept
    <3>2. QED
      BY <3>1, ExceptType
  <2>2. open' \subseteq ClientFds
    BY <1>2 DEF KernelAccept
  <2>3. QED
    BY <1>2, <2>1, <2>2 DEF KernelAccept
<1>3. CASE ConnectionEnds(l)
  <2>1. PICK f \in ClientFds : conn' = [conn EXCEPT ![l][f] = "closed"]
    BY <1>3 DEF ConnectionEnds
  <2>2. [conn[l] EXCEPT ![f] = "closed"] \in Conns
    BY ExceptType DEF Conns
  <2>3. conn' \in [Loops -> Conns]
    BY <2>1, <2>2, ExceptType DEF Conns
  <2>4. QED
    BY <1>3, <2>3 DEF ConnectionEnds, Conns
<1>4. QED
  BY <1>1, <1>2, <1>3

\* The callers of stop() take one of its three steps.
StopperType == [loop : 0 .. N + 1, step : {"flag", "shut", "close"}]

\* A caller of stop() advances by one step, on a loop it was on or the next.
LEMMA StopStepEffect ==
  ASSUME TypeOK, NEW a \in Stoppers, StopStep(a)
  PROVE  /\ stopper[a].loop \in Loops
         /\ \E s \in StopperType : s.loop # 0 /\ stopper' = [stopper EXCEPT ![a] = s]
<1>1. stopper[a].loop \in Loops /\ stopper[a].step \in {"flag", "shut", "close"}
  BY DEF StopStep, TypeOK
<1>2. stopper[a].loop \in 1 .. N /\ stopper[a].loop + 1 \in 0 .. N + 1
      /\ stopper[a].loop + 1 # 0 /\ stopper[a].loop \in 0 .. N + 1 /\ stopper[a].loop # 0
  BY <1>1, LoopsType DEF Loops
<1>3. ASSUME NEW k \in 0 .. N + 1, k # 0, NEW t \in {"flag", "shut", "close"},
             stopper' = [stopper EXCEPT ![a] = [loop |-> k, step |-> t]]
      PROVE  \E s \in StopperType : s.loop # 0 /\ stopper' = [stopper EXCEPT ![a] = s]
  BY <1>3 DEF StopperType
<1>4. CASE stopper[a].step = "flag"
  BY <1>1, <1>2, <1>3, <1>4 DEF StopStep
<1>5. CASE stopper[a].step = "shut"
  BY <1>1, <1>2, <1>3, <1>5 DEF StopStep
<1>6. CASE stopper[a].step = "close"
  BY <1>1, <1>2, <1>3, <1>6 DEF StopStep
<1>7. QED
  BY <1>1, <1>4, <1>5, <1>6

\* A worker is still to be started while the main thread starts them.
Spawning == main = "spawning" => spawned < N

\* Every step keeps that.
LEMMA SpawningStep ==
  ASSUME TypeOK, Spawning, [Next]_vars
  PROVE  Spawning'
<1> USE DEF Spawning, runnerVars
<1>1. CASE Spawn
  BY <1>1, LoopsType DEF Spawn, TypeOK
<1>2. CASE Join
  BY <1>2 DEF Join
<1>3. CASE Signal
  BY <1>3 DEF Signal
<1>4. ASSUME NEW a \in Stoppers, StopStep(a) PROVE Spawning'
  BY <1>4 DEF StopStep
<1>5. ASSUME NEW l \in Loops, Worker(l) \/ Kernel(l) \/ Clients(l) PROVE Spawning'
  BY <1>5 DEF Worker, Catch, Flag, WorkerEnds, Kernel, Clients
<1>6. CASE UNCHANGED vars
  BY <1>6 DEF vars
<1>7. QED
  BY <1>1, <1>2, <1>3, <1>4, <1>5, <1>6 DEF Next

\* Every step keeps the types.
LEMMA TypeInductive ==
  ASSUME TypeOK, Spawning, [Next]_vars
  PROVE  TypeOK'
<1> USE DEF runnerVars
<1>0. LoopTypeOK /\ pc \in [Loops -> PCs] /\ stopper \in [Stoppers -> StopperType]
  BY DEF TypeOK, LoopTypeOK, PCs, StopperType
<1>1. CASE Spawn
  <2>1. spawned + 1 \in Loops /\ spawned + 1 \in 0 .. N
    BY <1>1, LoopsType DEF Spawning, Spawn, TypeOK, Loops
  <2>2. pc' \in [Loops -> PCs]
    BY <1>0, <1>1, <2>1, GotoType DEF Spawn, PCs
  <2>3. QED
    BY <1>1, <2>1, <2>2 DEF Spawn, TypeOK, LoopTypeOK, PCs
<1>2. CASE Join
  BY <1>2 DEF Join, TypeOK, LoopTypeOK, loopVars
<1>3. CASE Signal
  <2>1. [loop |-> 1, step |-> "flag"] \in StopperType
    BY LoopsType DEF StopperType
  <2>2. stopper' \in [Stoppers -> StopperType]
    BY <1>0, <1>3, <2>1, ExceptType DEF Signal
  <2>3. QED
    BY <1>3, <2>2 DEF Signal, TypeOK, LoopTypeOK, loopVars, StopperType
<1>4. ASSUME NEW a \in Stoppers, StopStep(a)
      PROVE  TypeOK'
  <2>1. stopper' \in [Stoppers -> StopperType]
    BY <1>0, <1>4, StopStepEffect, ExceptType
  <2> DEFINE l == stopper[a].loop
  <2>2. l \in Loops
    BY <1>4, StopStepEffect
  <2>3. CASE StopFlag(l)
    <3>1. running' \in [Loops -> BOOLEAN]
      BY <1>0, <2>3, ExceptType, FALSE \in BOOLEAN DEF StopFlag, LoopTypeOK
    <3>2. QED
      BY <1>4, <2>1, <2>3, <3>1 DEF StopStep, StopFlag, TypeOK, LoopTypeOK, StopperType
  <2>4. CASE StopShut(l)
    <3>1. sock' \in [Loops -> {"none", "open", "listening", "shut"}]
      BY <1>0, <2>2, <2>4, ExceptType DEF StopShut, LoopTypeOK
    <3>2. QED
      BY <1>4, <2>1, <2>4, <3>1 DEF StopStep, StopShut, TypeOK, LoopTypeOK, StopperType
  <2>5. CASE StopClose(l)
    <3>1. fdSet' \in [Loops -> BOOLEAN]
      BY <1>0, <2>5, ExceptType, FALSE \in BOOLEAN DEF StopClose, LoopTypeOK
    <3>2. QED
      BY <1>4, <2>1, <2>5, <3>1 DEF StopStep, StopClose, TypeOK, LoopTypeOK, StopperType
  <2>6. QED
    BY <1>4, <2>3, <2>4, <2>5 DEF StopStep
<1>5. ASSUME NEW l \in Loops, Worker(l)
      PROVE  TypeOK'
  <2>1. CASE Run(l) /\ UNCHANGED runnerVars
    BY <1>0, <2>1, RunType DEF TypeOK
  <2>2. CASE Catch(l)
    <3>1. pc' \in [Loops -> PCs]
      BY <1>0, <2>2, GotoType DEF Catch, PCs
    <3>2. errorMessage' \in 0 .. N
      BY <2>2, LoopsType DEF Catch, TypeOK
    <3>3. QED
      BY <2>2, <3>1, <3>2 DEF Catch, TypeOK, LoopTypeOK, PCs
  <2>3. CASE Flag(l)
    <3>1. pc' \in [Loops -> PCs]
      BY <1>0, <2>3, GotoType DEF Flag, PCs
    <3>2. [loop |-> 1, step |-> "flag"] \in StopperType
      BY LoopsType DEF StopperType
    <3>3. stopper' \in [Stoppers -> StopperType]
      BY <1>0, <2>3, <3>2, ExceptType DEF Flag
    <3>4. QED
      BY <2>3, <3>1, <3>3 DEF Flag, TypeOK, LoopTypeOK, PCs, StopperType
  <2>4. CASE WorkerEnds(l)
    <3>1. pc' \in [Loops -> PCs]
      BY <1>0, <2>4, GotoType DEF WorkerEnds, PCs
    <3>2. QED
      BY <2>4, <3>1 DEF WorkerEnds, TypeOK, LoopTypeOK, PCs
  <2>5. QED
    BY <1>5, <2>1, <2>2, <2>3, <2>4 DEF Worker
<1>6. ASSUME NEW l \in Loops, Kernel(l) \/ Clients(l)
      PROVE  TypeOK'
  BY <1>0, <1>6, OutsideType DEF Kernel, Clients, TypeOK
<1>7. CASE UNCHANGED vars
  BY <1>7 DEF vars, loopVars, TypeOK, LoopTypeOK
<1>8. QED
  BY <1>1, <1>2, <1>3, <1>4, <1>5, <1>6, <1>7 DEF Next

-----------------------------------------------------------------------------
(* Where the accept and the connections are at each point of run().         *)

\* A thread that has not been started is idle; no accept is under way before
\* the accept coroutine prepares one; a closed connection waits for the reclaim
\* of the same round.
Rounds ==
  /\ \A l \in Loops : l > spawned => pc[l] = "idle"
  /\ \A l \in Loops :
       pc[l] \in {"idle", "new", "bind", "ready", "first", "again"} => accept[l] = "none"
  /\ \A l \in Loops, f \in ClientFds :
       conn[l][f] = "closed" => pc[l] \in {"dispatch", "again", "cleanup"}

\* A step of one loop's thread does not move the others.
LEMMA RoundsLocal ==
  ASSUME TypeOK, Rounds, NEW l \in Loops,
         \A m \in Loops : m # l =>
           pc'[m] = pc[m] /\ accept'[m] = accept[m] /\ conn'[m] = conn[m],
         spawned' = spawned,
         pc'[l] = pc[l] \/ pc[l] # "idle",
         pc'[l] \in {"idle", "new", "bind", "ready", "first", "again"} => accept'[l] = "none",
         \A f \in ClientFds :
           conn'[l][f] = "closed" => pc'[l] \in {"dispatch", "again", "cleanup"}
  PROVE  Rounds'
BY DEF Rounds

\* Every step of run() and of acceptLoop() keeps this.
LEMMA RunRounds ==
  ASSUME TypeOK, Rounds, NEW l \in Loops, Run(l), UNCHANGED runnerVars
  PROVE  Rounds'
<1> USE DEF runnerVars, TypeOK, LoopTypeOK, Goto, Throw
<1>1. CASE RunSocket(l) \/ RunBind(l) \/ RunReady(l)
  <2>1. \A m \in Loops : m # l => pc'[m] = pc[m]
    BY <1>1 DEF RunSocket, RunBind, RunReady
  <2>2. /\ pc[l] \in {"new", "bind", "ready"} /\ pc'[l] \in {"bind", "ready", "first", "threw"}
        /\ UNCHANGED <<accept, conn>>
    BY <1>1 DEF RunSocket, RunBind, RunReady
  <2>3. accept[l] = "none" /\ \A f \in ClientFds : conn[l][f] # "closed"
    BY <2>2 DEF Rounds
  <2>4. QED
    BY <2>1, <2>2, <2>3, RoundsLocal
<1>2. CASE AcceptNext(l)
  <2>1. /\ \A m \in Loops : m # l => pc'[m] = pc[m] /\ accept'[m] = accept[m]
        /\ conn' = conn /\ pc[l] \in {"first", "again"}
        /\ pc'[l] = IF pc[l] = "first" THEN "top" ELSE "dispatch"
    BY <1>2 DEF AcceptNext
  <2>2. \A f \in ClientFds : conn[l][f] = "closed" => pc[l] = "again"
    BY <2>1 DEF Rounds
  <2>3. QED
    BY <2>1, <2>2, RoundsLocal
<1>3. CASE AcceptResult(l)
  <2>1. /\ \A m \in Loops : m # l =>
             pc'[m] = pc[m] /\ accept'[m] = accept[m] /\ conn'[m] = conn[m]
        /\ pc[l] = "dispatch" /\ pc'[l] \in {"dispatch", "again"} /\ accept'[l] = "none"
    BY <1>3 DEF AcceptResult
  <2>2. spawned' = spawned /\ pc[l] # "idle"
    BY <2>1
  <2>3. pc'[l] \in {"dispatch", "again", "cleanup"}
    BY <2>1
  <2> HIDE DEF TypeOK, LoopTypeOK, Goto, Throw, runnerVars
  <2>4. QED
    BY <2>1, <2>2, <2>3, RoundsLocal
<1>4. CASE LoopTop(l) \/ LoopWake(l)
  <2>1. /\ \A m \in Loops : m # l => pc'[m] = pc[m] /\ accept'[m] = accept[m]
        /\ conn' = conn
        /\ pc[l] \in {"top", "wait"} /\ pc'[l] \in {"wait", "tail", "dispatch"}
    BY <1>4 DEF LoopTop, LoopWake
  <2>2. \A f \in ClientFds : conn[l][f] # "closed"
    <3>1. pc[l] \notin {"dispatch", "again", "cleanup"}
      BY <2>1
    <3> HIDE DEF TypeOK, LoopTypeOK
    <3>2. QED
      BY <3>1 DEF Rounds
  <2>3. spawned' = spawned /\ pc[l] # "idle"
    BY <2>1
  <2> HIDE DEF TypeOK, LoopTypeOK, Goto, Throw, runnerVars
  <2>4. QED
    BY <2>1, <2>2, <2>3, RoundsLocal
<1>5. CASE Dispatched(l)
  <2>1. /\ \A m \in Loops : m # l => pc'[m] = pc[m]
        /\ UNCHANGED <<accept, conn>> /\ pc[l] = "dispatch" /\ pc'[l] = "cleanup"
    BY <1>5 DEF Dispatched
  <2>2. QED
    BY <2>1, RoundsLocal
<1>6. CASE Cleanup(l) \/ LoopTail(l)
  <2>1. /\ \A m \in Loops : m # l => pc'[m] = pc[m] /\ conn'[m] = conn[m]
        /\ accept' = accept
        /\ pc[l] \in {"cleanup", "tail"} /\ pc'[l] \in {"top", "returned"}
    BY <1>6 DEF Cleanup, LoopTail
  <2>2. \A f \in ClientFds : conn'[l][f] # "closed"
    BY <1>6 DEF Cleanup, LoopTail
  <2>3. spawned' = spawned /\ pc[l] # "idle"
    BY <2>1
  <2> HIDE DEF TypeOK, LoopTypeOK, Goto, Throw, runnerVars
  <2>4. QED
    BY <2>1, <2>2, <2>3, RoundsLocal
<1>7. QED
  BY <1>1, <1>2, <1>3, <1>4, <1>5, <1>6 DEF Run

\* Every step keeps this.
LEMMA RoundsInductive ==
  ASSUME TypeOK, Spawning, Rounds, [Next]_vars
  PROVE  Rounds'
<1> USE DEF TypeOK, LoopTypeOK, Goto
<1>1. CASE Spawn
  <2>1. spawned \in Nat /\ spawned' = spawned + 1 /\ spawned + 1 \in Loops
    BY <1>1, LoopsType DEF Spawn, Spawning, Loops
  <2>2. /\ pc[spawned + 1] = "idle" /\ pc'[spawned + 1] = "new"
        /\ \A m \in Loops : m # spawned + 1 => pc'[m] = pc[m]
        /\ UNCHANGED <<accept, conn>>
    BY <1>1, <2>1 DEF Spawn, Rounds, Loops
  <2>3. \A m \in Loops : m > spawned' => pc'[m] = "idle"
    BY <2>1, <2>2 DEF Rounds, Loops
  <2>4. \A m \in Loops :
          pc'[m] \in {"idle", "new", "bind", "ready", "first", "again"} =>
            accept'[m] = "none"
    BY <2>2 DEF Rounds
  <2>5. \A m \in Loops, f \in ClientFds :
          conn'[m][f] = "closed" => pc'[m] \in {"dispatch", "again", "cleanup"}
    BY <2>2 DEF Rounds
  <2> HIDE DEF TypeOK, LoopTypeOK, Goto
  <2>6. QED
    BY <2>3, <2>4, <2>5 DEF Rounds
<1>2. CASE UNCHANGED <<pc, accept, conn, spawned>>
  BY <1>2 DEF Rounds
<1>3. CASE Join \/ Signal
  BY <1>2, <1>3 DEF Join, Signal, loopVars
<1>4. ASSUME NEW a \in Stoppers, StopStep(a) PROVE Rounds'
  BY <1>2, <1>4 DEF StopStep, StopFlag, StopShut, StopClose
<1>5. ASSUME NEW l \in Loops, Worker(l) PROVE Rounds'
  <2>1. CASE Run(l) /\ UNCHANGED runnerVars
    BY <2>1, RunRounds
  <2>2. CASE Catch(l) \/ Flag(l) \/ WorkerEnds(l)
    <3>1. /\ pc[l] \in {"threw", "flagging", "stopping"}
          /\ pc'[l] \in {"flagging", "stopping", "ended"}
          /\ \A m \in Loops : m # l => pc'[m] = pc[m]
          /\ UNCHANGED <<accept, conn, spawned>>
      BY <2>2 DEF Catch, Flag, WorkerEnds, runnerVars
    <3>2. \A f \in ClientFds : conn[l][f] # "closed"
      BY <3>1 DEF Rounds
    <3>3. QED
      BY <3>1, <3>2, RoundsLocal
  <2>3. QED
    BY <1>5, <2>1, <2>2 DEF Worker
<1>6. ASSUME NEW l \in Loops, Kernel(l) \/ Clients(l) PROVE Rounds'
  <2>1. CASE KernelRefuses(l) \/ KernelAccept(l)
    <3>1. accept[l] = "posted" /\ UNCHANGED <<pc, conn>>
          /\ \A m \in Loops : m # l => accept'[m] = accept[m]
      BY <2>1 DEF KernelRefuses, KernelAccept
    <3>2. pc[l] \notin {"idle", "new", "bind", "ready", "first", "again"}
      BY <3>1 DEF Rounds
    <3>3. \A f \in ClientFds : conn[l][f] = "closed" => pc[l] \in {"dispatch", "again", "cleanup"}
      BY DEF Rounds
    <3>4. spawned' = spawned
      BY <1>6 DEF Kernel, Clients, runnerVars
    <3>5. QED
      BY <3>1, <3>2, <3>3, <3>4, RoundsLocal
  <2>2. CASE ConnectionEnds(l)
    <3>1. pc[l] = "dispatch" /\ UNCHANGED <<pc, accept>>
          /\ \A m \in Loops : m # l => conn'[m] = conn[m]
      BY <2>2 DEF ConnectionEnds
    <3>2. spawned' = spawned
      BY <1>6 DEF Kernel, Clients, runnerVars
    <3>3. QED
      BY <3>1, <3>2, RoundsLocal
  <2>3. QED
    BY <1>6, <2>1, <2>2 DEF Kernel, Clients
<1>7. CASE UNCHANGED vars
  BY <1>2, <1>7 DEF vars, loopVars, runnerVars
<1>8. QED
  BY <1>1, <1>3, <1>4, <1>5, <1>6, <1>7 DEF Next

-----------------------------------------------------------------------------
(* Who owns each client socket.                                             *)

\* Loop l holds f, in its table or as the result of an accept.
Holds(l, f) == conn[l][f] # "none" \/ accept[l] = f

Owner ==
  /\ \A f \in ClientFds : f \in open <=> \E l \in Loops : Holds(l, f)
  /\ \A f \in ClientFds : \A l, m \in Loops : Holds(l, f) /\ Holds(m, f) => l = m
  /\ \A f \in ClientFds : \A l \in Loops : conn[l][f] # "none" => accept[l] # f

\* A step of one loop that keeps a socket, gives one up that it closes, or takes
\* one that nobody had, keeps ownership exact.
LEMMA OwnerLocal ==
  ASSUME Owner, NEW l \in Loops,
         \A m \in Loops : m # l => accept'[m] = accept[m] /\ conn'[m] = conn[m],
         \A f \in ClientFds : conn'[l][f] # "none" => accept'[l] # f,
         \A f \in ClientFds :
           \/ (Holds(l, f)' <=> Holds(l, f)) /\ (f \in open' <=> f \in open)
           \/ Holds(l, f) /\ ~Holds(l, f)' /\ f \notin open'
           \/ f \notin open /\ f \in open' /\ Holds(l, f)'
  PROVE  Owner'
<1>1. \A f \in ClientFds, m \in Loops : m # l => (Holds(m, f)' <=> Holds(m, f))
  BY DEF Holds
<1>2. ASSUME NEW f \in ClientFds
      PROVE  /\ f \in open' <=> \E m \in Loops : Holds(m, f)'
             /\ \A k, m \in Loops : Holds(k, f)' /\ Holds(m, f)' => k = m
  <2>0. /\ f \in open <=> \E m \in Loops : Holds(m, f)
        /\ \A k, m \in Loops : Holds(k, f) /\ Holds(m, f) => k = m
    BY DEF Owner
  <2>1. CASE (Holds(l, f)' <=> Holds(l, f)) /\ (f \in open' <=> f \in open)
    <3>1. \A m \in Loops : Holds(m, f)' <=> Holds(m, f)
      BY <1>1, <2>1
    <3>2. QED
      BY <2>0, <2>1, <3>1
  <2>2. CASE Holds(l, f) /\ ~Holds(l, f)' /\ f \notin open'
    <3>1. \A m \in Loops : ~Holds(m, f)'
      BY <1>1, <2>0, <2>2
    <3>2. QED
      BY <2>2, <3>1
  <2>3. CASE f \notin open /\ f \in open' /\ Holds(l, f)'
    <3>1. \A m \in Loops : m # l => ~Holds(m, f)'
      BY <1>1, <2>0, <2>3
    <3>2. QED
      BY <2>3, <3>1
  <2>4. QED
    BY <2>1, <2>2, <2>3
<1>3. \A f \in ClientFds : \A m \in Loops : conn'[m][f] # "none" => accept'[m] # f
  BY DEF Owner
<1>4. QED
  BY <1>2, <1>3 DEF Owner

\* Every step keeps ownership exact: an accepted descriptor is new, registering
\* it passes it on, and destroying a connection closes it.
LEMMA OwnerInductive ==
  ASSUME TypeOK, Rounds, Owner, [Next]_vars
  PROVE  Owner'
<1> USE DEF TypeOK, LoopTypeOK
<1>1. CASE UNCHANGED <<accept, conn, open>>
  BY <1>1 DEF Owner, Holds
<1>2. CASE Spawn \/ Join \/ Signal
  BY <1>1, <1>2 DEF Spawn, Join, Signal, loopVars
<1>3. ASSUME NEW a \in Stoppers, StopStep(a) PROVE Owner'
  BY <1>1, <1>3 DEF StopStep, StopFlag, StopShut, StopClose
<1>4. ASSUME NEW l \in Loops, Run(l)
      PROVE  Owner'
  <2>1. CASE RunSocket(l) \/ RunBind(l) \/ RunReady(l) \/ LoopWake(l) \/ Dispatched(l)
    BY <1>1, <2>1 DEF RunSocket, RunBind, RunReady, LoopWake, Dispatched
  <2>2. CASE AcceptNext(l) \/ LoopTop(l)
    <3>1. /\ UNCHANGED <<conn, open>>
          /\ \A m \in Loops : m # l => accept'[m] = accept[m]
      BY <2>2 DEF AcceptNext, LoopTop
    <3>2. \/ accept'[l] = accept[l]
          \/ accept[l] \in {"none", "prepared"} /\ accept'[l] \in {"prepared", "posted"}
      <4>1. CASE AcceptNext(l)
        <5>1. accept[l] = "none"
          BY <4>1 DEF AcceptNext, Rounds
        <5>2. accept'[l] = "prepared" \/ accept' = accept
          <6>1. \/ accept' = [accept EXCEPT ![l] = "prepared"]
                \/ accept' = accept
            BY <4>1 DEF AcceptNext
          <6>2. QED
            BY <6>1
        <5>3. QED
          BY <5>1, <5>2
      <4>2. CASE LoopTop(l)
        <5>1. \/ accept' = [accept EXCEPT ![l] = IF @ = "prepared" THEN "posted" ELSE @]
              \/ accept' = accept
          BY <4>2 DEF LoopTop
        <5>2. QED
          BY <5>1
      <4>3. QED
        BY <2>2, <4>1, <4>2
    <3>3. \A f \in ClientFds : accept'[l] = f <=> accept[l] = f
      BY <3>2, FdNames
    <3>4. QED
      BY <3>1, <3>3, OwnerLocal DEF Holds, Owner
  <2>3. CASE AcceptResult(l) /\ accept[l] = "error"
    <3>1. /\ UNCHANGED <<conn, open>> /\ accept'[l] = "none"
          /\ \A m \in Loops : m # l => accept'[m] = accept[m]
      BY <2>3, FdNames DEF AcceptResult
    <3>2. QED
      BY <2>3, <3>1, FdNames, OwnerLocal DEF Holds
  <2>4. CASE AcceptResult(l) /\ accept[l] \in ClientFds
    <3>1. /\ accept'[l] = "none"
          /\ \A m \in Loops : m # l => accept'[m] = accept[m]
      BY <2>4 DEF AcceptResult
    <3>2. accept[l] # "error"
      BY <2>4, FdNames
    <3>3. CASE open' = open \ {accept[l]} /\ UNCHANGED conn
      <4>1. \A f \in ClientFds : f # accept[l] =>
              (Holds(l, f)' <=> Holds(l, f)) /\ (f \in open' <=> f \in open)
        BY <3>1, <3>3, FdNames DEF Holds
      <4>2. Holds(l, accept[l]) /\ accept[l] \notin open'
        BY <3>3 DEF Holds
      <4>3. conn'[l][accept[l]] = "none"
        BY <2>4, <3>3 DEF Owner
      <4>4. \A f \in ClientFds : f = accept[l] => ~Holds(l, f)'
        BY <3>1, <4>3, FdNames DEF Holds
      <4>5. \A f \in ClientFds : accept'[l] # f
        BY <3>1, FdNames
      <4>6. QED
        BY <3>1, <3>3, <4>1, <4>2, <4>4, <4>5, OwnerLocal
    <3>4. ASSUME NEW s \in {"active", "closed"},
                 conn' = [conn EXCEPT ![l][accept[l]] = s], UNCHANGED open
          PROVE  Owner'
      <4>1. /\ \A m \in Loops : m # l => conn'[m] = conn[m]
            /\ conn'[l][accept[l]] = s
            /\ \A f \in ClientFds : f # accept[l] => conn'[l][f] = conn[l][f]
        BY <2>4, <3>4
      <4>2. \A f \in ClientFds : Holds(l, f)' <=> Holds(l, f)
        BY <3>1, <4>1, FdNames DEF Holds
      <4>3. \A f \in ClientFds : accept'[l] # f
        BY <3>1, FdNames
      <4>4. QED
        BY <3>1, <3>4, <4>1, <4>2, <4>3, OwnerLocal
    <3>5. QED
      BY <2>4, <3>2, <3>3, <3>4 DEF AcceptResult
  <2>5. CASE Cleanup(l)
    <3>1. /\ accept' = accept
          /\ open' = open \ {f \in ClientFds : conn[l][f] = "closed"}
          /\ \A m \in Loops : m # l => conn'[m] = conn[m]
          /\ \A f \in ClientFds :
               conn'[l][f] = IF conn[l][f] = "closed" THEN "none" ELSE conn[l][f]
      BY <2>5 DEF Cleanup
    <3>2. \A f \in ClientFds : conn[l][f] = "closed" =>
            Holds(l, f) /\ ~Holds(l, f)' /\ f \notin open'
      BY <3>1 DEF Owner, Holds
    <3>3. \A f \in ClientFds : conn[l][f] # "closed" =>
            (Holds(l, f)' <=> Holds(l, f)) /\ (f \in open' <=> f \in open)
      BY <3>1 DEF Holds
    <3>4. \A f \in ClientFds : conn'[l][f] # "none" => accept'[l] # f
      BY <3>1 DEF Owner
    <3>5. QED
      BY <3>1, <3>2, <3>3, <3>4, OwnerLocal
  <2>6. CASE LoopTail(l)
    <3>1. /\ accept' = accept
          /\ open' = open \ {f \in ClientFds : conn[l][f] # "none"}
          /\ \A m \in Loops : m # l => conn'[m] = conn[m]
          /\ \A f \in ClientFds : conn'[l][f] = "none"
      BY <2>6 DEF LoopTail
    <3>2. \A f \in ClientFds : conn[l][f] # "none" =>
            Holds(l, f) /\ ~Holds(l, f)' /\ f \notin open'
      BY <3>1 DEF Owner, Holds
    <3>3. \A f \in ClientFds : conn[l][f] = "none" =>
            (Holds(l, f)' <=> Holds(l, f)) /\ (f \in open' <=> f \in open)
      BY <3>1 DEF Holds
    <3>4. QED
      BY <3>1, <3>2, <3>3, OwnerLocal
  <2>7. QED
    BY <1>4, <2>1, <2>2, <2>3, <2>4, <2>5, <2>6 DEF Run, AcceptResult
<1>5. ASSUME NEW l \in Loops, Catch(l) \/ Flag(l) \/ WorkerEnds(l) PROVE Owner'
  BY <1>1, <1>5 DEF Catch, Flag, WorkerEnds
<1>6. ASSUME NEW l \in Loops, KernelRefuses(l) \/ KernelAccept(l)
      PROVE  Owner'
  <2>1. /\ accept[l] = "posted" /\ conn' = conn
        /\ \A m \in Loops : m # l => accept'[m] = accept[m]
        /\ \/ accept'[l] = "error" /\ open' = open
           \/ \E f \in ClientFds \ open : accept'[l] = f /\ open' = open \cup {f}
    BY <1>6 DEF KernelRefuses, KernelAccept
  <2>2. CASE accept'[l] = "error" /\ open' = open
    BY <2>1, <2>2, FdNames, OwnerLocal DEF Holds
  <2>3. ASSUME NEW f \in ClientFds \ open, accept'[l] = f, open' = open \cup {f}
        PROVE  Owner'
    <3>1. ~Holds(l, f)
      BY <2>3 DEF Owner
    <3>2. \A g \in ClientFds : g # f =>
            (Holds(l, g)' <=> Holds(l, g)) /\ (g \in open' <=> g \in open)
      BY <2>1, <2>3, FdNames DEF Holds
    <3>3. f \notin open /\ f \in open' /\ Holds(l, f)'
      BY <2>3 DEF Holds
    <3>4. \A g \in ClientFds : conn'[l][g] # "none" => accept'[l] # g
      BY <2>1, <2>3, <3>1 DEF Holds
    <3>5. QED
      BY <2>1, <3>2, <3>3, <3>4, OwnerLocal
  <2>4. QED
    BY <2>1, <2>2, <2>3
<1>7. ASSUME NEW l \in Loops, ConnectionEnds(l)
      PROVE  Owner'
  <2>1. PICK f \in ClientFds : conn[l][f] = "active" /\ conn' = [conn EXCEPT ![l][f] = "closed"]
    BY <1>7 DEF ConnectionEnds
  <2>2. /\ UNCHANGED <<accept, open>>
        /\ \A m \in Loops : m # l => conn'[m] = conn[m]
        /\ \A g \in ClientFds : conn'[l][g] # "none" <=> conn[l][g] # "none"
    BY <1>7, <2>1 DEF ConnectionEnds
  <2>3. \A g \in ClientFds : conn'[l][g] # "none" => accept'[l] # g
    BY <2>2 DEF Owner
  <2>4. QED
    BY <2>2, <2>3, OwnerLocal DEF Holds
<1>8. CASE UNCHANGED vars
  BY <1>1, <1>8 DEF vars, loopVars
<1>9. QED
  BY <1>2, <1>3, <1>4, <1>5, <1>6, <1>7, <1>8 DEF Next, Worker, Kernel, Clients

-----------------------------------------------------------------------------
(* Errors: who failed, why, and what is reported.                           *)

\* No one has called stop() yet.
Unstopped == ~hasError /\ stopper[0] = Idle

\* A worker calls stop() only after hasError has been set, so that a socket
\* closed under a worker's feet means a signal or an earlier failure.
Errors ==
  /\ \A l \in Loops :
       cause[l] # "none" <=> pc[l] \in {"threw", "flagging", "stopping", "ended"}
  /\ hasError <=> \E l \in Loops : pc[l] \in {"stopping", "ended"}
  /\ errorMessage # 0 =>
       errorMessage \in Loops /\ pc[errorMessage] \in {"flagging", "stopping", "ended"}
  /\ Unstopped => \A a \in Stoppers : stopper[a] = Idle
  /\ Unstopped => \A l \in Loops : (pc[l] = "bind" => fdSet[l]) /\ cause[l] # "stopped"
  /\ RootCauseReported
  /\ ResultTellsFailure

\* A step of run() leaves the other loops alone; it throws for a reason of its
\* own unless it found its listening socket closed.
LEMMA RunEffect ==
  ASSUME LoopTypeOK, NEW l \in Loops, Run(l)
  PROVE  /\ \A m \in Loops : m # l =>
              pc'[m] = pc[m] /\ cause'[m] = cause[m] /\ fdSet'[m] = fdSet[m]
         /\ pc[l] \notin {"idle", "returned", "threw", "flagging", "stopping", "ended"}
         /\ \/ pc'[l] = "threw" /\ cause'[l] = "own"
            \/ pc'[l] = "threw" /\ cause'[l] = "stopped" /\ pc[l] = "bind" /\ ~fdSet[l]
            \/ pc'[l] = "bind" /\ fdSet'[l] /\ cause'[l] = cause[l]
            \/ /\ pc'[l] \notin {"bind", "threw", "flagging", "stopping", "ended"}
               /\ cause'[l] = cause[l]
<1> USE DEF LoopTypeOK, Goto, Throw
<1>1. CASE RunSocket(l)
  <2>1. pc[l] = "new" /\ \A m \in Loops : m # l =>
          pc'[m] = pc[m] /\ cause'[m] = cause[m] /\ fdSet'[m] = fdSet[m]
    BY <1>1 DEF RunSocket
  <2>2. \/ pc'[l] = "threw" /\ cause'[l] = "own"
        \/ pc'[l] = "bind" /\ fdSet'[l] /\ cause'[l] = cause[l]
    BY <1>1 DEF RunSocket
  <2>3. QED
    BY <2>1, <2>2
<1>2. CASE RunBind(l)
  <2>1. pc[l] = "bind" /\ \A m \in Loops : m # l =>
          pc'[m] = pc[m] /\ cause'[m] = cause[m] /\ fdSet'[m] = fdSet[m]
    BY <1>2 DEF RunBind
  <2>2. \/ pc'[l] = "threw" /\ cause'[l] = "own"
        \/ pc'[l] = "threw" /\ cause'[l] = "stopped" /\ ~fdSet[l]
        \/ pc'[l] = "ready" /\ cause'[l] = cause[l]
    BY <1>2 DEF RunBind
  <2>3. QED
    BY <2>1, <2>2
<1>3. CASE RunReady(l)
  BY <1>3 DEF RunReady
<1>4. CASE AcceptNext(l)
  BY <1>4 DEF AcceptNext
<1>5. CASE AcceptResult(l)
  BY <1>5 DEF AcceptResult
<1>6. CASE LoopTop(l)
  BY <1>6 DEF LoopTop
<1>7. CASE LoopWake(l) \/ Dispatched(l)
  BY <1>7 DEF LoopWake, Dispatched
<1>8. CASE Cleanup(l)
  BY <1>8 DEF Cleanup
<1>9. CASE LoopTail(l)
  BY <1>9 DEF LoopTail
<1>10. QED
  BY <1>1, <1>2, <1>3, <1>4, <1>5, <1>6, <1>7, <1>8, <1>9 DEF Run

\* run() keeps the error invariant.
LEMMA RunErrors ==
  ASSUME TypeOK, Errors, NEW l \in Loops, Run(l), UNCHANGED runnerVars
  PROVE  Errors'
<1> USE DEF runnerVars, TypeOK
<1>1. /\ \A m \in Loops : m # l =>
           pc'[m] = pc[m] /\ cause'[m] = cause[m] /\ fdSet'[m] = fdSet[m]
      /\ pc[l] \notin {"idle", "returned", "threw", "flagging", "stopping", "ended"}
      /\ \/ pc'[l] = "threw" /\ cause'[l] = "own"
         \/ pc'[l] = "threw" /\ cause'[l] = "stopped" /\ pc[l] = "bind" /\ ~fdSet[l]
         \/ pc'[l] = "bind" /\ fdSet'[l] /\ cause'[l] = cause[l]
         \/ /\ pc'[l] \notin {"bind", "threw", "flagging", "stopping", "ended"}
            /\ cause'[l] = cause[l]
  BY RunEffect
<1>2. cause[l] = "none" /\ errorMessage # l /\ main # "returned"
  <2>1. cause[l] = "none"
    BY <1>1 DEF Errors
  <2>2. errorMessage # l
    BY <1>1, LoopsType DEF Errors
  <2>3. main # "returned"
    BY <1>1 DEF Errors, ResultTellsFailure
  <2>4. QED
    BY <2>1, <2>2, <2>3
<1>3. \A m \in Loops :
        cause'[m] # "none" <=> pc'[m] \in {"threw", "flagging", "stopping", "ended"}
  BY <1>1, <1>2 DEF Errors
<1>4. \A m \in Loops : pc'[m] \in {"stopping", "ended"} <=> pc[m] \in {"stopping", "ended"}
  BY <1>1
<1>5. hasError' <=> \E m \in Loops : pc'[m] \in {"stopping", "ended"}
  BY <1>4 DEF Errors
<1>6. errorMessage' # 0 =>
        /\ errorMessage' \in Loops /\ pc'[errorMessage'] \in {"flagging", "stopping", "ended"}
        /\ cause'[errorMessage'] = cause[errorMessage]
  BY <1>1, <1>2 DEF Errors
<1>7. Unstopped' = Unstopped
  BY DEF Unstopped
<1>8. Unstopped => \A m \in Loops : (pc'[m] = "bind" => fdSet'[m]) /\ cause'[m] # "stopped"
  BY <1>1, <1>2 DEF Errors
<1>9. RootCauseReported'
  BY <1>6 DEF Errors, RootCauseReported
<1>10. ResultTellsFailure'
  BY <1>2 DEF ResultTellsFailure
<1>11. QED
  BY <1>3, <1>5, <1>6, <1>7, <1>8, <1>9, <1>10 DEF Errors

\* A failing worker's own steps keep it: message, then hasError, then stop().
LEMMA WorkerErrors ==
  ASSUME TypeOK, Errors, NEW l \in Loops, Catch(l) \/ Flag(l) \/ WorkerEnds(l)
  PROVE  Errors'
<1> USE DEF runnerVars, TypeOK, LoopTypeOK, Goto
<1>1. /\ pc[l] \in {"threw", "flagging", "stopping"}
      /\ pc'[l] \in {"flagging", "stopping", "ended"}
      /\ \A m \in Loops : m # l => pc'[m] = pc[m]
      /\ UNCHANGED <<cause, fdSet, main>>
  BY DEF Catch, Flag, WorkerEnds
<1>2. main # "returned"
  BY <1>1 DEF Errors, ResultTellsFailure
<1>3. /\ \A m \in Loops :
           cause'[m] # "none" <=> pc'[m] \in {"threw", "flagging", "stopping", "ended"}
      /\ ResultTellsFailure'
  BY <1>1, <1>2 DEF Errors, ResultTellsFailure
<1>4. CASE Catch(l)
  <2>1. /\ pc[l] = "threw" /\ pc'[l] = "flagging" /\ UNCHANGED <<hasError, stopper>>
        /\ errorMessage' = IF hasError THEN errorMessage ELSE l
    BY <1>4 DEF Catch
  <2>2. hasError' <=> \E m \in Loops : pc'[m] \in {"stopping", "ended"}
    BY <1>1, <2>1 DEF Errors
  <2>3. errorMessage' # 0 =>
          errorMessage' \in Loops /\ pc'[errorMessage'] \in {"flagging", "stopping", "ended"}
    BY <1>1, <2>1 DEF Errors
  <2>4. cause[l] \in {"own", "stopped"}
    BY <2>1 DEF Errors
  <2>5. RootCauseReported'
    BY <1>1, <2>1, <2>4 DEF Errors, RootCauseReported, Unstopped
  <2>6. Unstopped' = Unstopped
    BY <2>1 DEF Unstopped
  <2>7. QED
    BY <1>1, <1>3, <2>1, <2>2, <2>3, <2>5, <2>6 DEF Errors
<1>5. CASE Flag(l)
  <2>1. /\ pc[l] = "flagging" /\ pc'[l] = "stopping" /\ hasError'
        /\ errorMessage' = errorMessage
        /\ stopper' = [stopper EXCEPT ![l] = [loop |-> 1, step |-> "flag"]]
    BY <1>5 DEF Flag
  <2>2. stopper'[0] = stopper[0]
    <3>1. l # 0
      BY LoopsType
    <3>2. QED
      BY <2>1, <3>1
  <2>3. ~Unstopped'
    BY <2>1 DEF Unstopped
  <2>4. RootCauseReported'
    BY <1>1, <2>1, <2>2 DEF Errors, RootCauseReported
  <2>5. errorMessage' # 0 =>
          errorMessage' \in Loops /\ pc'[errorMessage'] \in {"flagging", "stopping", "ended"}
    BY <1>1, <2>1 DEF Errors
  <2>6. QED
    BY <1>3, <2>1, <2>3, <2>4, <2>5 DEF Errors
<1>6. CASE WorkerEnds(l)
  <2>1. /\ pc[l] = "stopping" /\ pc'[l] = "ended"
        /\ UNCHANGED <<hasError, errorMessage, stopper>>
    BY <1>6 DEF WorkerEnds
  <2>2. hasError' <=> \E m \in Loops : pc'[m] \in {"stopping", "ended"}
    BY <1>1, <2>1 DEF Errors
  <2>3. errorMessage' # 0 =>
          errorMessage' \in Loops /\ pc'[errorMessage'] \in {"flagging", "stopping", "ended"}
    BY <1>1, <2>1 DEF Errors
  <2>4. RootCauseReported' /\ Unstopped' = Unstopped
    BY <1>1, <2>1 DEF Errors, RootCauseReported, Unstopped
  <2>5. Unstopped' => /\ \A a \in Stoppers : stopper'[a] = Idle
                      /\ \A m \in Loops : (pc'[m] = "bind" => fdSet'[m]) /\ cause'[m] # "stopped"
    BY <1>1, <2>1, <2>4 DEF Errors
  <2>6. QED
    BY <1>3, <2>2, <2>3, <2>4, <2>5 DEF Errors
<1>7. QED
  BY <1>4, <1>5, <1>6

\* Every step keeps the error invariant.
LEMMA ErrorsInductive ==
  ASSUME TypeOK, Spawning, Rounds, Errors, [Next]_vars
  PROVE  Errors'
<1> USE DEF TypeOK, LoopTypeOK, Goto
<1>1. CASE UNCHANGED <<pc, cause, fdSet, main, result, hasError, errorMessage, stopper>>
  BY <1>1 DEF Errors, Unstopped, RootCauseReported, ResultTellsFailure
<1>2. CASE Spawn
  <2>1. spawned + 1 \in Loops /\ pc[spawned + 1] = "idle"
    BY <1>2, LoopsType DEF Spawn, Spawning, Rounds, Loops
  <2>2. /\ pc'[spawned + 1] = "new"
        /\ \A m \in Loops : m # spawned + 1 => pc'[m] = pc[m]
        /\ UNCHANGED <<cause, fdSet, hasError, errorMessage, stopper>>
        /\ main # "returned" /\ main' # "returned"
    BY <1>2, <2>1 DEF Spawn
  <2>3. \A m \in Loops : \A s \in {"bind", "threw", "flagging", "stopping", "ended"} :
          pc'[m] = s <=> pc[m] = s
    BY <2>1, <2>2
  <2>4. errorMessage' # 0 =>
          errorMessage' \in Loops /\ pc'[errorMessage'] \in {"flagging", "stopping", "ended"}
    BY <2>1, <2>2 DEF Errors
  <2>5. RootCauseReported' /\ ResultTellsFailure' /\ (Unstopped' <=> Unstopped)
    BY <2>2 DEF Errors, RootCauseReported, ResultTellsFailure, Unstopped
  <2>6. hasError' <=> \E m \in Loops : pc'[m] \in {"stopping", "ended"}
    BY <2>2, <2>3 DEF Errors
  <2>7. \A m \in Loops :
          cause'[m] # "none" <=> pc'[m] \in {"threw", "flagging", "stopping", "ended"}
    BY <2>2, <2>3 DEF Errors
  <2>8. Unstopped' => /\ \A a \in Stoppers : stopper'[a] = Idle
                      /\ \A m \in Loops : (pc'[m] = "bind" => fdSet'[m]) /\ cause'[m] # "stopped"
    BY <2>2, <2>3, <2>5 DEF Errors
  <2>9. QED
    BY <2>4, <2>5, <2>6, <2>7, <2>8 DEF Errors
<1>3. CASE Join
  <2>1. /\ \A l \in Loops : pc[l] \in {"returned", "ended"}
        /\ result' = IF hasError THEN 1 ELSE 0
        /\ UNCHANGED <<pc, cause, fdSet, hasError, errorMessage, stopper>>
    BY <1>3 DEF Join, loopVars
  <2>2. hasError <=> \E l \in Loops : cause[l] # "none"
    BY <2>1 DEF Errors
  <2>3. ResultTellsFailure'
    BY <2>1, <2>2 DEF ResultTellsFailure
  <2>4. QED
    BY <2>1, <2>3 DEF Errors, Unstopped, RootCauseReported
<1>4. CASE Signal
  <2>1. /\ UNCHANGED <<pc, cause, fdSet, main, result, hasError, errorMessage>>
        /\ stopper' = [stopper EXCEPT ![0] = [loop |-> 1, step |-> "flag"]]
    BY <1>4 DEF Signal, loopVars
  <2>2. 0 \in Stoppers /\ [loop |-> 1, step |-> "flag"] # Idle
    BY LoopsType DEF Stoppers, Idle
  <2>3. stopper'[0] # Idle
    BY <2>1, <2>2
  <2>4. QED
    BY <2>1, <2>3 DEF Errors, Unstopped, RootCauseReported, ResultTellsFailure
<1>5. ASSUME NEW a \in Stoppers, StopStep(a) PROVE Errors'
  <2>1. PICK s \in StopperType : s.loop # 0 /\ stopper' = [stopper EXCEPT ![a] = s]
    BY <1>5, StopStepEffect
  <2>2. stopper[a].loop \in Loops
    BY <1>5, StopStepEffect
  <2>3. stopper[a] # Idle
    BY <2>2, LoopsType DEF Idle
  <2>4. stopper'[0] = Idle => stopper[0] = Idle
    <3>1. s # Idle /\ 0 \in Stoppers
      BY <2>1, LoopsType DEF Idle, Stoppers
    <3>2. stopper'[0] = s \/ stopper'[0] = stopper[0]
      BY <2>1, <3>1
    <3>3. QED
      BY <3>1, <3>2
  <2>5. UNCHANGED <<pc, cause, main, result, hasError, errorMessage>>
    BY <1>5 DEF StopStep, StopFlag, StopShut, StopClose
  <2>6. ~Unstopped
    BY <2>3 DEF Errors
  <2>7. ~Unstopped'
    BY <2>4, <2>5, <2>6 DEF Unstopped
  <2>8. RootCauseReported' /\ ResultTellsFailure'
    BY <2>4, <2>5 DEF Errors, RootCauseReported, ResultTellsFailure
  <2>9. QED
    BY <2>5, <2>7, <2>8 DEF Errors
<1>6. ASSUME NEW l \in Loops, Worker(l) PROVE Errors'
  BY <1>6, RunErrors, WorkerErrors DEF Worker
<1>7. ASSUME NEW l \in Loops, Kernel(l) \/ Clients(l) PROVE Errors'
  BY <1>1, <1>7 DEF Kernel, Clients, KernelRefuses, KernelAccept, ConnectionEnds, runnerVars
<1>8. CASE UNCHANGED vars
  BY <1>1, <1>8 DEF vars, loopVars, runnerVars
<1>9. QED
  BY <1>2, <1>3, <1>4, <1>5, <1>6, <1>7, <1>8 DEF Next

-----------------------------------------------------------------------------
IInv == TypeOK /\ Spawning /\ Rounds /\ Owner /\ Errors

\* The inductive invariant of the runner and its loops holds throughout.
LEMMA InvariantHolds == Spec => []IInv
<1>1. Init => IInv
  <2> SUFFICES ASSUME Init PROVE IInv
    OBVIOUS
  <2>1. LoopTypeOK
    BY DEF Init, LoopInit, LoopTypeOK, InLoop
  <2>2. TypeOK
    <3>1. Idle \in StopperType
      BY LoopsType DEF Idle, StopperType
    <3>2. stopper \in [Stoppers -> StopperType]
      BY <3>1 DEF Init
    <3>3. spawned \in 0 .. N /\ errorMessage \in 0 .. N
      BY LoopsType DEF Init
    <3>4. QED
      BY <2>1, <3>2, <3>3 DEF Init, TypeOK, StopperType
  <2>3. Spawning
    BY LoopsType DEF Init, Spawning
  <2>4. Rounds
    BY DEF Init, LoopInit, Rounds
  <2>5. Owner
    BY FdNames DEF Init, LoopInit, Owner, Holds
  <2>6. Errors
    BY DEF Init, LoopInit, Errors, Unstopped, RootCauseReported, ResultTellsFailure
  <2>7. QED
    BY <2>2, <2>3, <2>4, <2>5, <2>6 DEF IInv
<1>2. IInv /\ [Next]_vars => IInv'
  BY TypeInductive, SpawningStep, RoundsInductive, OwnerInductive, ErrorsInductive DEF IInv
<1>3. QED
  BY <1>1, <1>2, PTL DEF Spec

\* Every variable of the runner and of its loops stays in its type.
THEOREM TypeCorrect == Spec => []TypeOK
BY InvariantHolds, PTL DEF IInv

\* A client socket is open exactly while one loop owns it, so registering an
\* accepted connection never overwrites another (acceptLoop in event_loop.cpp).
THEOREM SocketsHaveOneOwner == Spec => []OneOwner
<1>1. IInv => OneOwner
  BY DEF IInv, Owner, OneOwner, Holds
<1>2. QED
  BY <1>1, InvariantHolds, PTL

\* A loop does not block with a connection left to reclaim
\* (cleanupClosedConnections comes last in every round).
THEOREM BlocksOnlyWhenClean == Spec => []NothingLeftClosed
<1>1. IInv => NothingLeftClosed
  BY DEF IInv, Rounds, NothingLeftClosed
<1>2. QED
  BY <1>1, InvariantHolds, PTL

\* Without a signal the message reported is that of a worker that failed by
\* itself (the catch block of runEventLoops).
THEOREM CauseIsReported == Spec => []RootCauseReported
<1>1. IInv => RootCauseReported
  BY DEF IInv, Errors
<1>2. QED
  BY <1>1, InvariantHolds, PTL

\* runEventLoops() returns after all its workers, and non-zero exactly if one
\* of them threw.
THEOREM ResultIsTruthful == Spec => []ResultTellsFailure
<1>1. IInv => ResultTellsFailure
  BY DEF IInv, Errors
<1>2. QED
  BY <1>1, InvariantHolds, PTL

-----------------------------------------------------------------------------
(* The operations of a ring: the tracking table is exact, and late          *)
(* completions are ignored.                                                 *)


\* Each action of the thread, as one disjunction a proof can split.
LEMMA OpsSteps ==
  ASSUME [OpsNext]_opsVars
  PROVE  \/ Submit
         \/ \E o \in Ops : KernelComplete(o)
         \/ \E o \in Ops : Dispatch(o)
         \/ \E f \in Fds : CancelFd(f)
         \/ \E f \in Fds : StopRelay(f)
         \/ \E b \in Frames : Call(b)
         \/ \E b \in Frames : Destroy(b)
         \/ \E b \in Frames, f \in Fds \cup {NoFd}, o \in Ops : Await(b, f, o)
         \/ UNCHANGED opsVars
BY Zenon DEF OpsNext

\* No step turns a server's thread into one that runs relays.
LEMMA RelaysStep ==
  ASSUME [OpsNext]_opsVars
  PROVE  relays' = relays
BY OpsSteps DEF opsVars, Submit, KernelComplete, Dispatch, CancelFd, StopRelay, Call,
             Destroy, Await

-----------------------------------------------------------------------------
\* OpsTypeOK is an invariant of the bridge.
THEOREM OpsTypeCorrect == OpsSpec => []OpsTypeOK
<1>1. OpsInit => OpsTypeOK
  BY DEF OpsInit, OpsTypeOK
<1>2. OpsTypeOK /\ [OpsNext]_opsVars => OpsTypeOK'
  <2> SUFFICES ASSUME OpsTypeOK, [OpsNext]_opsVars PROVE OpsTypeOK'
    OBVIOUS
  <2>0. relays' \in BOOLEAN
    BY RelaysStep DEF OpsTypeOK
  <2>1. CASE Submit
    BY <2>1 DEF OpsTypeOK, Submit
  <2>2. ASSUME NEW o \in Ops, KernelComplete(o) PROVE OpsTypeOK'
    BY <2>2 DEF OpsTypeOK, KernelComplete
  <2>3. ASSUME NEW o \in Ops, Dispatch(o) PROVE OpsTypeOK'
    <3>1. byFd' \in [Fds -> SUBSET Frames]
      BY <2>3 DEF OpsTypeOK, Dispatch, Remove
    <3>2. /\ coro' \in [Frames -> {"free", "running", "suspended", "cancelled"}]
          /\ armed' \in [Frames -> BOOLEAN]
      BY <2>3 DEF OpsTypeOK, Dispatch
    <3>3. /\ answer' \in [Frames -> Ops \cup {NoOp}]
          /\ stage' \in [Ops -> {"unused", "prepared", "inflight", "completed", "gone"}]
      BY <2>3 DEF OpsTypeOK, Dispatch
    <3>4. UNCHANGED <<waits, opFd, userData>>
      BY <2>3 DEF Dispatch
    <3> QED
      BY <2>0, <3>1, <3>2, <3>3, <3>4 DEF OpsTypeOK
  <2>4. ASSUME NEW f \in Fds, CancelFd(f) PROVE OpsTypeOK'
    BY <2>4 DEF OpsTypeOK, CancelFd
  <2>5. ASSUME NEW f \in Fds, StopRelay(f) PROVE OpsTypeOK'
    BY <2>5 DEF OpsTypeOK, StopRelay
  <2>6. ASSUME NEW b \in Frames, Call(b) PROVE OpsTypeOK'
    BY <2>6 DEF OpsTypeOK, Call
  <2>7. ASSUME NEW b \in Frames, Destroy(b) PROVE OpsTypeOK'
    BY <2>7 DEF OpsTypeOK, Destroy
  <2>8. ASSUME NEW b \in Frames, NEW f \in Fds \cup {NoFd}, NEW o \in Ops,
               Await(b, f, o)
        PROVE  OpsTypeOK'
    <3>1. byFd' \in [Fds -> SUBSET Frames]
      BY <2>8 DEF OpsTypeOK, Await, Add
    <3>2. /\ coro' \in [Frames -> {"free", "running", "suspended", "cancelled"}]
          /\ armed' \in [Frames -> BOOLEAN]
      BY <2>8 DEF OpsTypeOK, Await
    <3>3. /\ answer' \in [Frames -> Ops \cup {NoOp}]
          /\ waits' \in [Frames -> Ops \cup {NoOp}]
          /\ opFd' \in [Frames -> Fds \cup {NoFd}]
      BY <2>8 DEF OpsTypeOK, Await
    <3>4. /\ stage' \in [Ops -> {"unused", "prepared", "inflight", "completed", "gone"}]
          /\ userData' \in [Ops -> Frames]
      BY <2>8 DEF OpsTypeOK, Await
    <3> QED
      BY <2>0, <3>1, <3>2, <3>3, <3>4 DEF OpsTypeOK
  <2>9. CASE UNCHANGED opsVars
    BY <2>9 DEF OpsTypeOK, opsVars
  <2> QED
    BY <2>1, <2>2, <2>3, <2>4, <2>5, <2>6, <2>7, <2>8, <2>9, OpsSteps
<1> QED
  BY <1>1, <1>2, PTL DEF OpsSpec

-----------------------------------------------------------------------------
\* An operation is armed exactly while its coroutine is suspended.
ArmedExact == \A b \in Frames : armed[b] <=> coro[b] = "suspended"

\* A step keeps the table exact.
LEMMA TableStep ==
  ASSUME OpsTypeOK, ArmedExact, TableExact, [OpsNext]_opsVars
  PROVE  ArmedExact' /\ TableExact'
<1> USE DEF ArmedExact, TableExact, OpsTypeOK
<1>1. CASE Submit
  BY <1>1 DEF Submit
<1>2. ASSUME NEW o \in Ops, KernelComplete(o) PROVE ArmedExact' /\ TableExact'
  BY <1>2 DEF KernelComplete
<1>3. ASSUME NEW o \in Ops, Dispatch(o) PROVE ArmedExact' /\ TableExact'
  BY <1>3 DEF Dispatch, Remove
<1>4. ASSUME NEW f \in Fds, CancelFd(f) PROVE ArmedExact' /\ TableExact'
  <2>1. \A b \in Frames : /\ armed'[b] <=> (armed[b] /\ b \notin byFd[f])
                          /\ b \in byFd[f] => coro'[b] # "suspended"
                          /\ b \notin byFd[f] => coro'[b] = coro[b]
    BY <1>4 DEF CancelFd
  <2>2. ArmedExact'
    BY <2>1, Zenon
  <2>3. \A g \in Fds : byFd'[g] = IF g = f THEN {} ELSE byFd[g]
    BY <1>4 DEF CancelFd
  <2>4. opFd' = opFd
    BY <1>4 DEF CancelFd
  <2>5. TableExact'
    <3> SUFFICES ASSUME NEW g \in Fds
                 PROVE  byFd'[g] = {b \in Frames : coro'[b] = "suspended" /\ opFd'[b] = g}
      OBVIOUS
    <3>0. \A b \in Frames, h \in Fds :
            b \in byFd[h] <=> coro[b] = "suspended" /\ opFd[b] = h
      BY DEF TableExact
    <3>1. CASE g = f
      <4>1. byFd'[g] = {}
        BY <3>1, <2>3
      <4>2. \A b \in Frames : ~(coro'[b] = "suspended" /\ opFd'[b] = g)
        BY <3>0, <3>1, <2>1, <2>4
      <4> QED
        BY <4>1, <4>2
    <3>2. CASE g # f
      <4>1. byFd'[g] = byFd[g]
        BY <3>2, <2>3
      <4>2. \A b \in Frames : b \in byFd[g] <=> coro'[b] = "suspended" /\ opFd'[b] = g
        BY <3>0, <3>2, <2>1, <2>4
      <4>3. byFd[g] \subseteq Frames
        OBVIOUS
      <4> QED
        BY <4>1, <4>2, <4>3
    <3> QED
      BY <3>1, <3>2
  <2> QED
    BY <2>2, <2>5
<1>5. ASSUME NEW f \in Fds, StopRelay(f) PROVE ArmedExact' /\ TableExact'
  <2>1. \A b \in Frames : /\ armed'[b] <=> (armed[b] /\ b \notin byFd[f])
                          /\ b \in byFd[f] => coro'[b] # "suspended"
                          /\ b \notin byFd[f] => coro'[b] = coro[b]
    BY <1>5 DEF StopRelay
  <2>2. ArmedExact'
    BY <2>1, Zenon
  <2>3. \A g \in Fds : byFd'[g] = IF g = f THEN {} ELSE byFd[g]
    BY <1>5 DEF StopRelay
  <2>4. opFd' = opFd
    BY <1>5 DEF StopRelay
  <2>5. TableExact'
    <3> SUFFICES ASSUME NEW g \in Fds
                 PROVE  byFd'[g] = {b \in Frames : coro'[b] = "suspended" /\ opFd'[b] = g}
      OBVIOUS
    <3>0. \A b \in Frames, h \in Fds :
            b \in byFd[h] <=> coro[b] = "suspended" /\ opFd[b] = h
      BY DEF TableExact
    <3>1. CASE g = f
      <4>1. byFd'[g] = {}
        BY <3>1, <2>3
      <4>2. \A b \in Frames : ~(coro'[b] = "suspended" /\ opFd'[b] = g)
        BY <3>0, <3>1, <2>1, <2>4
      <4> QED
        BY <4>1, <4>2
    <3>2. CASE g # f
      <4>1. byFd'[g] = byFd[g]
        BY <3>2, <2>3
      <4>2. \A b \in Frames : b \in byFd[g] <=> coro'[b] = "suspended" /\ opFd'[b] = g
        BY <3>0, <3>2, <2>1, <2>4
      <4>3. byFd[g] \subseteq Frames
        OBVIOUS
      <4> QED
        BY <4>1, <4>2, <4>3
    <3> QED
      BY <3>1, <3>2
  <2> QED
    BY <2>2, <2>5
<1>6. ASSUME NEW b \in Frames, Call(b) PROVE ArmedExact' /\ TableExact'
  BY <1>6 DEF Call
<1>7. ASSUME NEW b \in Frames, Destroy(b) PROVE ArmedExact' /\ TableExact'
  BY <1>7 DEF Destroy
<1>8. ASSUME NEW b \in Frames, NEW f \in Fds \cup {NoFd}, NEW o \in Ops,
             Await(b, f, o)
      PROVE  ArmedExact' /\ TableExact'
  BY <1>8 DEF Await, Add
<1>9. CASE UNCHANGED opsVars
  BY <1>9 DEF opsVars
<1> QED
  BY <1>1, <1>2, <1>3, <1>4, <1>5, <1>6, <1>7, <1>8, <1>9, OpsSteps

\* byFd_ indexes exactly the suspended operations, relay or not.
THEOREM TableIsExact == OpsSpec => [](TableExact /\ ArmedExact)
<1>1. OpsInit => ArmedExact /\ TableExact
  BY DEF OpsInit, ArmedExact, TableExact
<1> QED
  BY <1>1, TableStep, OpsTypeCorrect, PTL DEF OpsSpec

-----------------------------------------------------------------------------
\* Without a relay, the block an operation of the ring points to still holds the
\* frame that awaits it, and an answer is the answer to the current await.
FramesOutliveOps ==
  \A o \in Ops :
    stage[o] \in {"prepared", "inflight", "completed"} =>
      /\ coro[userData[o]] \in {"suspended", "cancelled"}
      /\ waits[userData[o]] = o

\* A step without a relay keeps frames alive under their operations.
LEMMA OutliveStep ==
  ASSUME ~relays, OpsTypeOK, ArmedExact, TableExact, FramesOutliveOps,
         LateCqeIgnored, [OpsNext]_opsVars
  PROVE  FramesOutliveOps' /\ LateCqeIgnored'
<1> USE UringAssumption DEF FramesOutliveOps, LateCqeIgnored, OpsTypeOK
<1>1. CASE Submit
  BY <1>1 DEF Submit
<1>2. ASSUME NEW o \in Ops, KernelComplete(o)
      PROVE  FramesOutliveOps' /\ LateCqeIgnored'
  BY <1>2 DEF KernelComplete
<1>3. ASSUME NEW o \in Ops, Dispatch(o)
      PROVE  FramesOutliveOps' /\ LateCqeIgnored'
  BY <1>3 DEF Dispatch
<1>4. ASSUME NEW f \in Fds, CancelFd(f)
      PROVE  FramesOutliveOps' /\ LateCqeIgnored'
  BY <1>4 DEF CancelFd, TableExact
<1>5. ASSUME NEW f \in Fds, StopRelay(f) PROVE FALSE
  BY <1>5 DEF StopRelay
<1>6. ASSUME NEW b \in Frames, Call(b)
      PROVE  FramesOutliveOps' /\ LateCqeIgnored'
  BY <1>6 DEF Call
<1>7. ASSUME NEW b \in Frames, Destroy(b)
      PROVE  FramesOutliveOps' /\ LateCqeIgnored'
  BY <1>7 DEF Destroy
<1>8. ASSUME NEW b \in Frames, NEW f \in Fds \cup {NoFd}, NEW o \in Ops,
             Await(b, f, o)
      PROVE  FramesOutliveOps' /\ LateCqeIgnored'
  BY <1>8 DEF Await
<1>9. CASE UNCHANGED opsVars
  BY <1>9 DEF opsVars
<1> QED
  BY <1>1, <1>2, <1>3, <1>4, <1>5, <1>6, <1>7, <1>8, <1>9, OpsSteps

\* On a thread without a UDP relay a coroutine is resumed only by the operation
\* it waits for: late completions are ignored, whatever the order of CQEs.
THEOREM LateCqesAreIgnored == OpsSpec => []LateCqeIgnoredByServers
<1> DEFINE Outlive == ~relays => FramesOutliveOps /\ LateCqeIgnored
<1>1. OpsInit => Outlive
  BY DEF OpsInit, FramesOutliveOps, LateCqeIgnored
<1>2. OpsTypeOK /\ ArmedExact /\ TableExact /\ Outlive /\ [OpsNext]_opsVars => Outlive'
  BY OutliveStep, RelaysStep
<1>3. Outlive => LateCqeIgnoredByServers
  BY DEF LateCqeIgnoredByServers
<1> HIDE DEF Outlive
<1> QED
  BY <1>1, <1>2, <1>3, OpsTypeCorrect, TableIsExact, PTL DEF OpsSpec

-----------------------------------------------------------------------------
\* A step leaves every suspended coroutine's own operation on its way.
LEMMA ForgetStep ==
  ASSUME OpsTypeOK, ArmedExact, TableExact, NobodyForgotten, [OpsNext]_opsVars
  PROVE  NobodyForgotten'
<1> USE UringAssumption DEF NobodyForgotten, OpsTypeOK
<1>1. CASE Submit
  BY <1>1 DEF Submit
<1>2. ASSUME NEW o \in Ops, KernelComplete(o) PROVE NobodyForgotten'
  BY <1>2 DEF KernelComplete
<1>3. ASSUME NEW o \in Ops, Dispatch(o) PROVE NobodyForgotten'
  BY <1>3 DEF Dispatch, ArmedExact
<1>4. ASSUME NEW f \in Fds, CancelFd(f) PROVE NobodyForgotten'
  BY <1>4 DEF CancelFd
<1>5. ASSUME NEW f \in Fds, StopRelay(f) PROVE NobodyForgotten'
  BY <1>5 DEF StopRelay
<1>6. ASSUME NEW b \in Frames, Call(b) PROVE NobodyForgotten'
  BY <1>6 DEF Call
<1>7. ASSUME NEW b \in Frames, Destroy(b) PROVE NobodyForgotten'
  BY <1>7 DEF Destroy
<1>8. ASSUME NEW b \in Frames, NEW f \in Fds \cup {NoFd}, NEW o \in Ops,
             Await(b, f, o)
      PROVE  NobodyForgotten'
  BY <1>8 DEF Await
<1>9. CASE UNCHANGED opsVars
  BY <1>9 DEF opsVars
<1> QED
  BY <1>1, <1>2, <1>3, <1>4, <1>5, <1>6, <1>7, <1>8, <1>9, OpsSteps

\* Nobody waits for nothing: a suspended coroutine's operation is prepared, in
\* flight or completed, relay or not and however small the submission queue.
THEOREM NobodyIsForgotten == OpsSpec => []NobodyForgotten
<1>1. OpsInit => NobodyForgotten
  BY DEF OpsInit, NobodyForgotten
<1> QED
  BY <1>1, ForgetStep, OpsTypeCorrect, TableIsExact, PTL DEF OpsSpec

-----------------------------------------------------------------------------
\* A step resumes no coroutine that cancelFd() has taken off the table.
LEMMA CancelStep ==
  ASSUME OpsTypeOK, ArmedExact, TableExact, [OpsNext]_opsVars,
         NEW b \in Frames, coro[b] = "cancelled"
  PROVE  coro'[b] = "cancelled"
<1> USE UringAssumption DEF OpsTypeOK, ArmedExact
<1>1. CASE Submit
  BY <1>1 DEF Submit
<1>2. ASSUME NEW o \in Ops, KernelComplete(o) PROVE coro'[b] = "cancelled"
  BY <1>2 DEF KernelComplete
<1>3. ASSUME NEW o \in Ops, Dispatch(o) PROVE coro'[b] = "cancelled"
  BY <1>3 DEF Dispatch
<1>4. ASSUME NEW f \in Fds, CancelFd(f) PROVE coro'[b] = "cancelled"
  BY <1>4 DEF CancelFd
<1>5. ASSUME NEW f \in Fds, StopRelay(f) PROVE coro'[b] = "cancelled"
  BY <1>5 DEF StopRelay, TableExact
<1>6. ASSUME NEW c \in Frames, Call(c) PROVE coro'[b] = "cancelled"
  BY <1>6 DEF Call
<1>7. ASSUME NEW c \in Frames, Destroy(c) PROVE coro'[b] = "cancelled"
  BY <1>7 DEF Destroy
<1>8. ASSUME NEW c \in Frames, NEW f \in Fds \cup {NoFd}, NEW o \in Ops,
             Await(c, f, o)
      PROVE  coro'[b] = "cancelled"
  BY <1>8 DEF Await
<1>9. CASE UNCHANGED opsVars
  BY <1>9 DEF opsVars
<1> QED
  BY <1>1, <1>2, <1>3, <1>4, <1>5, <1>6, <1>7, <1>8, <1>9, OpsSteps

\* Cancellation is final: no completion, late or not, resumes a coroutine that
\* cancelFd() has disarmed.
THEOREM CancellationIsFinal == OpsSpec => CancelledStaysCancelled
<1>1. OpsTypeOK /\ ArmedExact /\ TableExact /\ [OpsNext]_opsVars
        => [\A b \in Frames : coro[b] = "cancelled" => coro'[b] = "cancelled"]_opsVars
  BY CancelStep
<1> QED
  BY <1>1, OpsTypeCorrect, TableIsExact, PTL DEF OpsSpec, CancelledStaysCancelled
=============================================================================
