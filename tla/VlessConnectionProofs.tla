----------------------- MODULE VlessConnectionProofs -----------------------
(***************************************************************************)
(* Theorems about VlessConnection, for every header length, buffer size and *)
(* number of bytes sent.                                                    *)
(***************************************************************************)
EXTENDS VlessConnection, SequenceTheorems, TLAPS

Early == {"created", "tls", "decode", "respond", "connect"}

\* The control part of the inductive invariant: how the flags, the program
\* counters, the operations in flight and the sockets move together.
Control ==
  /\ started <=> task["target"] # "none"
  /\ task["client"] \in Early => ~started
  /\ task["client"] \in {"read", "write", "shut"} => started
  /\ \A e \in Ends : readDone[e] <=> task[e] = "done"
  /\ \A e \in Ends : op[e] = "none" <=> task[e] \in {"none", "created", "done"}
  /\ closed => readDone["client"] /\ (started => readDone["target"])
  /\ ~live => closed
  /\ live => fd["client"] = "open"
  /\ live /\ started => fd["target"] = "open"

\* The next byte end d is to receive.
NextFor(d) == First(d) + Len(sent[d])

\* The peer at d will never get another byte, and only because of itself.
Gone(d) == reset[d]

\* There is nothing left to receive from e, now or later.
Exhausted(e) ==
  reset[e] \/ (consumed[e] = produced[e] /\ (peerFin[e] \/ rdShut[e]))

\* Who may have shut what down.
Shutdowns ==
  \A e \in Ends :
    /\ rdShut[e] => wrShut[e] /\ readDone[Other(e)]
    /\ wrShut[Other(e)] /\ ~rdShut[Other(e)]
         => task[e] = "done" \/ (task[e] = "shut" /\ op[e] = "complete")

\* Where the bytes of e's stream are: delivered, in the result of a completed
\* recv, or held by the coroutine, in this order and with nothing missing.
Stream(e) ==
  LET d == Other(e) IN
  /\ sent[d] = Run(First(d), Len(sent[d]))
  /\ consumed[e] <= produced[e]
  /\ task[e] = "read" /\ op[e] = "posted" => Gone(d) \/ NextFor(d) = consumed[e] + 1
  /\ task[e] = "read" /\ op[e] = "complete" =>
       /\ cqe[e] <= consumed[e]
       /\ cqe[e] > 0  => Gone(d) \/ NextFor(d) + cqe[e] = consumed[e] + 1
       /\ cqe[e] <= 0 => Gone(d) \/ NextFor(d) = consumed[e] + 1
  /\ task[e] = "write" =>
       /\ 0 < Len(held[e]) /\ Len(held[e]) <= consumed[e]
       /\ held[e] = Run(consumed[e] - Len(held[e]) + 1, Len(held[e]))
  /\ task[e] = "write" /\ op[e] = "posted" =>
       Gone(d) \/ NextFor(d) + Len(held[e]) = consumed[e] + 1
  /\ task[e] = "write" /\ op[e] = "complete" =>
       /\ cqe[e] <= Len(held[e])
       /\ cqe[e] > 0  => Gone(d) \/ NextFor(d) + Len(held[e]) = consumed[e] + 1 + cqe[e]
       /\ cqe[e] <= 0 => Gone(d)
  /\ task[e] \in {"shut", "done"} /\ started => Gone(d) \/ NextFor(d) = consumed[e] + 1

\* Before the target is connected.
Prologue ==
  /\ ~started => /\ sent["target"] = << >>
                 /\ consumed["target"] = 0
                 /\ \A e \in Ends : ~wrShut[e]
  /\ task["client"] \in {"created", "tls", "decode"} => sent["client"] = << >>
  /\ task["client"] = "respond" =>
       sent["client"] = IF op["client"] = "complete" /\ cqe["client"] >= 0
                          THEN << 0 >> ELSE << >>
  /\ task["client"] \in {"respond", "connect"} =>
       consumed["client"] >= HeaderLen /\ held["client"] = Leftover
  /\ task["client"] = "connect" => sent["client"] = << 0 >>
  /\ started => sent["client"] # << >>

\* A relay ends only when its stream is exhausted or its reader is gone.
Ending(e) ==
  /\ task[e] = "read" /\ op[e] = "complete" /\ cqe[e] <= 0 => Exhausted(e)
  /\ task[e] = "shut" => Exhausted(e)
  /\ task[e] = "done" /\ started => Exhausted(e) \/ Gone(Other(e))

IInv ==
  /\ TypeOK /\ Control /\ Shutdowns /\ Prologue
  /\ \A e \in Ends : Stream(e) /\ Ending(e)
-----------------------------------------------------------------------------
(* Runs of consecutive bytes.                                               *)

\* A run is a sequence of integers of the stated length.
LEMMA RunType ==
  ASSUME NEW f \in Int, NEW n \in Nat
  PROVE  /\ Run(f, n) \in Seq(Int)
         /\ Len(Run(f, n)) = n
         /\ \A i \in 1 .. n : Run(f, n)[i] = f + i - 1
BY DEF Run

\* Two adjacent runs make one: this is what writeFull relies on when it sends a
\* buffer in several pieces.
LEMMA RunConcat ==
  ASSUME NEW f \in Int, NEW n \in Nat, NEW m \in Nat
  PROVE  Run(f, n) \o Run(f + n, m) = Run(f, n + m)
BY DEF Run

\* The first k bytes of a run.
LEMMA RunPrefix ==
  ASSUME NEW f \in Int, NEW n \in Nat, NEW k \in 0 .. n
  PROVE  SubSeq(Run(f, n), 1, k) = Run(f, k)
BY DEF Run

\* What is left of a run after its first k bytes.
LEMMA RunSuffix ==
  ASSUME NEW f \in Int, NEW n \in Nat, NEW k \in 0 .. n
  PROVE  SubSeq(Run(f, n), k + 1, n) = Run(f + k, n - k)
BY DEF Run

-----------------------------------------------------------------------------
(* Type correctness.                                                        *)

\* Changing one value of a function within its range keeps its type.
LEMMA ExceptType ==
  ASSUME NEW S, NEW T, NEW f \in [S -> T], NEW x, NEW v \in T
  PROVE  [f EXCEPT ![x] = v] \in [S -> T]
OBVIOUS

\* The variables of the two coroutines, the part of the types most steps touch.
TaskTypes ==
  /\ task \in [Ends -> PCs]
  /\ op \in [Ends -> {"none", "posted", "complete"}]
  /\ cqe \in [Ends -> Int]

BufferTypes ==
  /\ held \in [Ends -> Seq(Int)]
  /\ partial \in [Ends -> BOOLEAN]
  /\ readDone \in [Ends -> BOOLEAN]

ShutTypes ==
  /\ rdShut \in [Ends -> BOOLEAN]
  /\ wrShut \in [Ends -> BOOLEAN]

\* The two ends.
LEMMA EndsType == "client" \in Ends /\ "target" \in Ends
BY DEF Ends

\* A suspension keeps the types of the coroutine variables.
LEMMA SuspendType ==
  ASSUME TypeOK, NEW e \in Ends, NEW pc \in PCs, Suspend(e, pc)
  PROVE  TaskTypes'
BY ExceptType, 0 \in Int DEF Suspend, TypeOK, TaskTypes

\* The end of a coroutine keeps the types of what it resets.
LEMMA ReturnType ==
  ASSUME TypeOK, NEW e \in Ends, Return(e)
  PROVE  TaskTypes' /\ BufferTypes'
BY ExceptType, 0 \in Int, << >> \in Seq(Int), "done" \in PCs
   DEF Return, TypeOK, PCs, TaskTypes, BufferTypes

\* A completion keeps the types of the coroutine variables.
LEMMA CompleteType ==
  ASSUME TypeOK, NEW e \in Ends, NEW r \in Int, Complete(e, r)
  PROVE  TaskTypes'
BY ExceptType DEF Complete, TypeOK, TaskTypes

\* ::shutdown(), or none, keeps the types of the socket flags.
LEMMA ShutdownType ==
  ASSUME TypeOK, NEW e \in Ends, ShutdownBoth(e) \/ KeepOpen
  PROVE  ShutTypes'
BY DEF ShutdownBoth, KeepOpen, TypeOK, ShutTypes

\* finishClientTask() and the tail of targetTask() keep the types.
LEMMA FinishType ==
  ASSUME TypeOK, NEW e \in Ends, Finish(e)
  PROVE  TypeOK'
<1>1. CASE FinishClient
  <2>1. ShutTypes'
    BY <1>1, EndsType, ShutdownType DEF FinishClient
  <2>2. TaskTypes' /\ BufferTypes'
    BY <1>1, EndsType, ReturnType DEF FinishClient
  <2>3. QED
    BY <1>1, <2>1, <2>2
       DEF FinishClient, TypeOK, TaskTypes, BufferTypes, ShutTypes, peers, wire
<1>2. CASE FinishTarget
  <2>1. ShutTypes'
    BY <1>2, EndsType, ShutdownType DEF FinishTarget
  <2>2. TaskTypes' /\ BufferTypes'
    BY <1>2, EndsType, ReturnType DEF FinishTarget
  <2>3. QED
    BY <1>2, <2>1, <2>2
       DEF FinishTarget, TypeOK, TaskTypes, BufferTypes, ShutTypes, peers, wire
<1>3. QED
  BY <1>1, <1>2 DEF Finish

\* A resumption of coroutine e keeps the types.
LEMMA ResumeType ==
  ASSUME TypeOK, NEW e \in Ends, Resume(e)
  PROVE  TypeOK'
<1> USE EndsType DEF TaskTypes, flags, sockets, peers, wire
<1>1. CASE OnRead(e)
  <2>1. CASE RelayChunk(e)
    <3>1. TaskTypes'
      BY <2>1, SuspendType DEF RelayChunk, PCs
    <3>2. Run(consumed[e] - cqe[e] + 1, cqe[e]) \in Seq(Int)
      <4>1. consumed[e] \in Nat /\ cqe[e] \in Int
        BY DEF TypeOK
      <4>2. consumed[e] - cqe[e] + 1 \in Int /\ cqe[e] \in Nat
        BY <2>1, <4>1 DEF RelayChunk
      <4>3. QED
        BY <4>2, RunType
    <3>3. held' \in [Ends -> Seq(Int)]
      BY <2>1, <3>2, ExceptType DEF RelayChunk, TypeOK
    <3>4. QED
      BY <2>1, <3>1, <3>3 DEF RelayChunk, TypeOK
  <2>2. CASE PropagateEnd(e)
    <3>1. TaskTypes'
      BY <2>2, SuspendType DEF PropagateEnd, PCs
    <3>2. QED
      BY <2>2, <3>1 DEF PropagateEnd, TypeOK
  <2>3. CASE UdpRelayEnds(e)
    BY <2>3, FinishType DEF UdpRelayEnds
  <2>4. QED
    BY <1>1, <2>1, <2>2, <2>3 DEF OnRead
<1>2. CASE OnWrite(e)
  <2>1. CASE /\ cqe[e] > 0 /\ cqe[e] < Len(held[e])
             /\ held' = [held EXCEPT ![e] = SubSeq(@, cqe[e] + 1, Len(@))]
             /\ partial' = [partial EXCEPT ![e] = (mode = "tcp")]
             /\ Suspend(e, "write")
             /\ UNCHANGED <<mode, tls, flags, sockets, peers, wire>>
    <3>1. TaskTypes'
      BY <2>1, SuspendType DEF PCs
    <3>2. held[e] \in Seq(Int) /\ cqe[e] \in Int
      BY DEF TypeOK
    <3>3. SubSeq(held[e], cqe[e] + 1, Len(held[e])) \in Seq(Int)
      BY <2>1, <3>2, SubSeqProperties, LenProperties, ElementOfSeq
    <3>4. held' \in [Ends -> Seq(Int)]
      BY <2>1, <3>3, ExceptType DEF TypeOK
    <3>5. partial' \in [Ends -> BOOLEAN]
      BY <2>1, ExceptType, (mode = "tcp") \in BOOLEAN DEF TypeOK
    <3>6. QED
      BY <2>1, <3>1, <3>4, <3>5 DEF TypeOK
  <2>2. CASE /\ held' = [held EXCEPT ![e] = << >>]
             /\ partial' = [partial EXCEPT ![e] = FALSE]
             /\ Suspend(e, "read")
             /\ UNCHANGED <<mode, tls, flags, sockets, peers, wire>>
    <3>1. TaskTypes'
      BY <2>2, SuspendType DEF PCs
    <3>2. held' \in [Ends -> Seq(Int)]
      BY <2>2, ExceptType, << >> \in Seq(Int) DEF TypeOK
    <3>3. partial' \in [Ends -> BOOLEAN]
      BY <2>2, ExceptType, FALSE \in BOOLEAN DEF TypeOK
    <3>4. QED
      BY <2>2, <3>1, <3>2, <3>3 DEF TypeOK
  <2>3. CASE Finish(e)
    BY <2>3, FinishType
  <2>4. QED
    BY <1>2, <2>1, <2>2, <2>3 DEF OnWrite
<1>3. CASE OnShut(e)
  BY <1>3, FinishType DEF OnShut
<1>4. CASE e = "client" /\ OnTls
  <2>1. CASE FinishClient
    BY <2>1, FinishType DEF Finish
  <2>2. CASE /\ Suspend("client", "decode")
             /\ UNCHANGED <<mode, tls, held, partial, flags, sockets, peers, wire>>
    <3>1. TaskTypes'
      BY <2>2, SuspendType DEF PCs
    <3>2. QED
      BY <2>2, <3>1 DEF TypeOK
  <2>3. QED
    BY <1>4, <2>1, <2>2 DEF OnTls
<1>5. CASE e = "client" /\ OnDecode
  <2>1. CASE FinishClient
    BY <2>1, FinishType DEF Finish
  <2>2. CASE /\ Suspend("client", "decode")
             /\ UNCHANGED <<mode, held, tls, partial, flags, sockets, peers, wire>>
    <3>1. TaskTypes'
      BY <2>2, SuspendType DEF PCs
    <3>2. QED
      BY <2>2, <3>1 DEF TypeOK
  <2>3. CASE /\ consumed["client"] >= HeaderLen
             /\ \E m \in Commands : mode' = m
             /\ held' = [held EXCEPT !["client"] = Leftover]
             /\ Suspend("client", "respond")
             /\ UNCHANGED <<tls, partial, flags, sockets, peers, wire>>
    <3>1. TaskTypes'
      BY <2>3, SuspendType DEF PCs
    <3>2. Leftover \in Seq(Int)
      BY <2>3, RunType, ConnectionAssumption DEF TypeOK, Leftover
    <3>3. held' \in [Ends -> Seq(Int)]
      BY <2>3, <3>2, ExceptType DEF TypeOK
    <3>4. QED
      BY <2>3, <3>1, <3>3 DEF TypeOK, Commands
  <2>4. QED
    BY <1>5, <2>1, <2>2, <2>3 DEF OnDecode
<1>6. CASE e = "client" /\ OnRespond
  <2>1. CASE FinishClient
    BY <2>1, FinishType DEF Finish
  <2>2. CASE /\ Suspend("client", "connect")
             /\ UNCHANGED <<mode, tls, held, partial, flags, sockets, peers, wire>>
    <3>1. TaskTypes'
      BY <2>2, SuspendType DEF PCs
    <3>2. QED
      BY <2>2, <3>1 DEF TypeOK
  <2>3. QED
    BY <1>6, <2>1, <2>2 DEF OnRespond
<1>7. CASE e = "client" /\ OnConnect
  <2>1. CASE FinishClient
    BY <2>1, FinishType DEF Finish
  <2>2. CASE ~FinishClient
    <3>1. /\ task' = [x \in Ends |-> IF x = "client" THEN ForwardOrRead ELSE "read"]
          /\ op' = [x \in Ends |-> "posted"]
          /\ cqe' = [x \in Ends |-> 0]
      BY <1>7, <2>2 DEF OnConnect
    <3>2. ForwardOrRead \in PCs /\ "read" \in PCs
      BY DEF ForwardOrRead, PCs
    <3>3. task' \in [Ends -> PCs]
      BY <3>1, <3>2
    <3>4. op' \in [Ends -> {"none", "posted", "complete"}] /\ cqe' \in [Ends -> Int]
      BY <3>1
    <3>5. TaskTypes'
      BY <3>3, <3>4
    <3>6. fd' \in [Ends -> {"none", "open", "closed"}]
      BY <1>7, <2>2, ExceptType DEF OnConnect, TypeOK
    <3>7. /\ started' = TRUE
          /\ UNCHANGED <<mode, tls, held, partial, readDone, closed, live,
                         rdShut, wrShut, peers, wire>>
      BY <1>7, <2>2 DEF OnConnect
    <3>8. QED
      BY <3>5, <3>6, <3>7 DEF TypeOK
  <2>3. QED
    BY <2>1, <2>2
<1>8. QED
  BY <1>1, <1>2, <1>3, <1>4, <1>5, <1>6, <1>7 DEF Resume

\* A completion of coroutine e's operation keeps the types.
LEMMA KernelType ==
  ASSUME TypeOK, NEW e \in Ends, Kernel(e)
  PROVE  TypeOK'
<1> USE EndsType DEF TaskTypes, flags, peers, wire
<1>0. Other(e) \in Ends /\ 0 \in Int /\ 1 \in Int /\ -1 \in Int
  BY DEF Ends, Other
<1>1. CASE KernelRecv(e)
  <2>1. CASE /\ UNCHANGED <<wire, rdShut, wrShut>>
             /\ (Complete(e, 0) \/ Complete(e, -1))
    <3>1. TaskTypes'
      BY <1>0, <2>1, CompleteType
    <3>2. QED
      BY <2>1, <3>1 DEF Complete, TypeOK
  <2>2. ASSUME NEW n \in Int, n > 0,
               Complete(e, n), consumed' = [consumed EXCEPT ![e] = @ + n],
               UNCHANGED <<sent, rdShut, wrShut>>
        PROVE  TypeOK'
    <3>1. TaskTypes'
      BY <2>2, CompleteType
    <3>2. consumed[e] + n \in Nat
      <4>1. consumed[e] \in Nat
        BY DEF TypeOK
      <4>2. n \in Int /\ n > 0
        BY <2>2
      <4>3. QED
        BY <4>1, <4>2
    <3>3. consumed' \in [Ends -> Nat]
      BY <2>2, <3>2, ExceptType DEF TypeOK
    <3>4. QED
      BY <2>2, <3>1, <3>3 DEF Complete, TypeOK
  <2>3. QED
    BY <1>1, <2>1, <2>2 DEF KernelRecv
<1>2. CASE KernelSend(e)
  <2>1. CASE Complete(e, -1) /\ UNCHANGED <<sent, consumed, rdShut, wrShut>>
    <3>1. TaskTypes'
      BY <1>0, <2>1, CompleteType
    <3>2. QED
      BY <2>1, <3>1 DEF Complete, TypeOK
  <2>2. ASSUME NEW m \in Int, NEW n \in 1 .. Min2(m, Len(held[e])),
               Complete(e, n),
               sent' = [sent EXCEPT ![Other(e)] = @ \o SubSeq(held[e], 1, n)],
               UNCHANGED <<consumed, rdShut, wrShut>>
        PROVE  TypeOK'
    <3>1. TaskTypes'
      BY <2>2, CompleteType
    <3>2. held[e] \in Seq(Int) /\ sent[Other(e)] \in Seq(Int)
      BY <1>0 DEF TypeOK
    <3>3. n \in 1 .. Len(held[e])
      BY <2>2, <3>2, LenProperties DEF Min2
    <3>4. SubSeq(held[e], 1, n) \in Seq(Int)
      BY <3>2, <3>3, SubSeqProperties, LenProperties, ElementOfSeq
    <3>5. sent[Other(e)] \o SubSeq(held[e], 1, n) \in Seq(Int)
      BY <3>2, <3>4, ConcatProperties
    <3>6. sent' \in [Ends -> Seq(Int)]
      BY <2>2, <3>5, <1>0, ExceptType DEF TypeOK
    <3>7. QED
      BY <2>2, <3>1, <3>6 DEF Complete, TypeOK
  <2>3. QED
    <3>1. SendCap - (Len(sent[Other(e)]) - drained[Other(e)]) \in Int
      <4>1. sent[Other(e)] \in Seq(Int) /\ drained[Other(e)] \in Nat
        BY <1>0 DEF TypeOK
      <4>2. QED
        BY <4>1, LenProperties, ConnectionAssumption
    <3>2. QED
      BY <1>2, <2>1, <2>2, <3>1 DEF KernelSend
<1>3. CASE KernelShut(e)
  <2>1. TaskTypes'
    BY <1>0, <1>3, CompleteType DEF KernelShut
  <2>2. wrShut' \in [Ends -> BOOLEAN]
    BY <1>3, ExceptType, TRUE \in BOOLEAN DEF KernelShut, TypeOK
  <2>3. QED
    BY <1>3, <2>1, <2>2 DEF KernelShut, Complete, TypeOK
<1>4. CASE e = "client" /\ (KernelTls \/ KernelConnect)
  <2>1. TaskTypes'
    BY <1>0, <1>4, CompleteType DEF KernelTls, KernelConnect
  <2>2. QED
    BY <1>4, <2>1 DEF KernelTls, KernelConnect, Complete, TypeOK
<1>5. CASE e = "client" /\ KernelRespond
  <2>1. TaskTypes'
    BY <1>0, <1>5, CompleteType DEF KernelRespond
  <2>2. sent["client"] \in Seq(Int)
    BY DEF TypeOK
  <2>3. Append(sent["client"], 0) \in Seq(Int)
    BY <1>0, <2>2, AppendProperties
  <2>4. sent' \in [Ends -> Seq(Int)]
    <3>1. sent \in [Ends -> Seq(Int)]
      BY DEF TypeOK
    <3>2. \/ sent' = sent
          \/ sent' = [sent EXCEPT !["client"] = Append(sent["client"], 0)]
      BY <1>5 DEF KernelRespond
    <3>3. QED
      BY <2>3, <3>1, <3>2, ExceptType
  <2>5. UNCHANGED <<mode, tls, held, partial, flags, fd, peers,
                    consumed, rdShut, wrShut>>
    BY <1>5 DEF KernelRespond, Complete
  <2>6. QED
    BY <2>1, <2>4, <2>5 DEF TypeOK
<1>6. QED
  BY <1>1, <1>2, <1>3, <1>4, <1>5 DEF Kernel

\* A step of the peer at e keeps the types.
LEMMA PeerType ==
  ASSUME TypeOK, NEW e \in Ends, Peer(e)
  PROVE  TypeOK'
<1> USE DEF Untouched, coroutines, flags, sockets, wire
<1>1. CASE PeerSend(e)
  <2>1. produced[e] + 1 \in Nat
    BY DEF TypeOK
  <2>2. produced' \in [Ends -> Nat]
    BY <1>1, <2>1, ExceptType DEF PeerSend, TypeOK
  <2>3. refused' \in [Ends -> BOOLEAN]
    BY <1>1, ExceptType, TRUE \in BOOLEAN DEF PeerSend, TypeOK
  <2>4. QED
    BY <1>1, <2>2, <2>3 DEF PeerSend, TypeOK
<1>2. CASE PeerFin(e)
  <2>1. peerFin' \in [Ends -> BOOLEAN]
    BY <1>2, ExceptType, TRUE \in BOOLEAN DEF PeerFin, TypeOK
  <2>2. QED
    BY <1>2, <2>1 DEF PeerFin, TypeOK
<1>3. CASE PeerReset(e)
  <2>1. reset' \in [Ends -> BOOLEAN]
    BY <1>3, ExceptType, TRUE \in BOOLEAN DEF PeerReset, TypeOK
  <2>2. QED
    BY <1>3, <2>1 DEF PeerReset, TypeOK
<1>4. CASE PeerRead(e)
  <2>1. drained[e] + 1 \in Nat
    BY DEF TypeOK
  <2>2. drained' \in [Ends -> Nat]
    BY <1>4, <2>1, ExceptType DEF PeerRead, TypeOK
  <2>3. QED
    BY <1>4, <2>2 DEF PeerRead, TypeOK
<1>5. QED
  BY <1>1, <1>2, <1>3, <1>4 DEF Peer

\* The connection the factory has just built is of the right type.
LEMMA TypeInit == Init => TypeOK
<1> SUFFICES ASSUME Init PROVE TypeOK
  OBVIOUS
<1>1. TaskTypes
  BY DEF Init, TaskTypes, PCs
<1>2. held \in [Ends -> Seq(Int)] /\ sent \in [Ends -> Seq(Int)]
  BY DEF Init
<1>3. fd \in [Ends -> {"none", "open", "closed"}]
  BY DEF Init
<1>4. QED
  BY <1>1, <1>2, <1>3 DEF Init, TypeOK, TaskTypes

\* Every step keeps the types.
LEMMA TypeInductive ==
  ASSUME TypeOK, [Next]_vars
  PROVE  TypeOK'
<1>1. CASE Start
  <2>1. TaskTypes'
    BY <1>1, EndsType, SuspendType DEF Start, PCs
  <2>2. QED
    BY <1>1, <2>1 DEF Start, TypeOK, TaskTypes, flags, sockets, peers, wire
<1>2. CASE Reclaim
  <2>1. fd' \in [Ends -> {"none", "open", "closed"}]
    BY <1>2 DEF Reclaim, TypeOK
  <2>2. QED
    BY <1>2, <2>1 DEF Reclaim, TypeOK, coroutines, peers, wire
<1>3. CASE UNCHANGED vars
  BY <1>3 DEF vars, TypeOK
<1>4. QED
  BY <1>1, <1>2, <1>3, ResumeType, KernelType, PeerType DEF Next, Reclaimed

\* Every variable of the connection stays in its type: program counters,
\* operation states, flags and counters of vless_connection.h.
THEOREM TypeCorrect == Spec => []TypeOK
BY TypeInit, TypeInductive, PTL DEF Spec

-----------------------------------------------------------------------------
(* Safe reclaim.                                                            *)

\* A suspension leaves the other coroutine where it is.
LEMMA SuspendEffect ==
  ASSUME TypeOK, NEW e \in Ends, NEW pc, Suspend(e, pc)
  PROVE  /\ task'[e] = pc /\ op'[e] = "posted" /\ cqe'[e] = 0
         /\ \A o \in Ends : o # e =>
              task'[o] = task[o] /\ op'[o] = op[o] /\ cqe'[o] = cqe[o]
BY DEF Suspend, TypeOK

\* The end of a coroutine leaves the other one where it is.
LEMMA ReturnEffect ==
  ASSUME TypeOK, NEW e \in Ends, Return(e)
  PROVE  /\ task'[e] = "done" /\ op'[e] = "none" /\ readDone'[e]
         /\ \A o \in Ends : o # e =>
              /\ task'[o] = task[o] /\ op'[o] = op[o] /\ cqe'[o] = cqe[o]
              /\ readDone'[o] = readDone[o] /\ held'[o] = held[o]
BY DEF Return, TypeOK

\* A completion moves no coroutine.
LEMMA CompleteEffect ==
  ASSUME TypeOK, NEW e \in Ends, NEW r, Complete(e, r)
  PROVE  /\ op'[e] = "complete" /\ cqe'[e] = r
         /\ \A o \in Ends : o # e => op'[o] = op[o] /\ cqe'[o] = cqe[o]
         /\ UNCHANGED <<mode, task, held, partial, readDone, started, closed, live, fd,
                        produced, peerFin, reset, refused, drained>>
BY DEF Complete, TypeOK, flags, peers

\* A step that only moves one coroutine from one suspension to the next, within
\* the prologue or within the relay, keeps the control invariant.
LEMMA SuspendControl ==
  ASSUME TypeOK, Control, NEW e \in Ends, NEW pc \in PCs, Suspend(e, pc),
         UNCHANGED <<readDone, started, closed, live, fd>>,
         \/ e = "client" /\ task[e] \in Early /\ pc \in {"tls", "decode", "respond", "connect"}
         \/ /\ task[e] \in {"read", "write", "shut"}
            /\ pc \in {"read", "write", "shut"}
  PROVE  Control'
<1>1. /\ task'[e] = pc /\ op'[e] = "posted"
      /\ \A o \in Ends : o # e => task'[o] = task[o] /\ op'[o] = op[o]
  BY SuspendEffect
<1>2. QED
  BY <1>1 DEF Control, Ends, Early

\* The two finishing paths keep it: this is where closed_ is set.
LEMMA FinishControl ==
  ASSUME TypeOK, Control, NEW e \in Ends, Finish(e),
         task[e] \notin {"none", "created", "done"}
  PROVE  Control'
<1>1. CASE e = "client"
  <2>1. FinishClient
    BY <1>1 DEF Finish
  <2>2. /\ task'["client"] = "done" /\ op'["client"] = "none" /\ readDone'["client"]
        /\ task'["target"] = task["target"] /\ op'["target"] = op["target"]
        /\ readDone'["target"] = readDone["target"]
    BY <2>1, ReturnEffect DEF FinishClient, Ends
  <2>3. ~closed /\ live
    BY <1>1 DEF Control, Ends
  <2>4. QED
    BY <1>1, <2>1, <2>2, <2>3 DEF FinishClient, Control, Ends, Early
<1>2. CASE e = "target"
  <2>1. FinishTarget
    BY <1>2 DEF Finish
  <2>2. /\ task'["target"] = "done" /\ op'["target"] = "none" /\ readDone'["target"]
        /\ task'["client"] = task["client"] /\ op'["client"] = op["client"]
        /\ readDone'["client"] = readDone["client"]
    BY <2>1, ReturnEffect DEF FinishTarget, Ends
  <2>3. ~closed /\ live
    BY <1>2 DEF Control, Ends
  <2>4. QED
    BY <1>2, <2>1, <2>2, <2>3, ReturnEffect DEF FinishTarget, Control, Ends, Early, TypeOK
<1>3. QED
  BY <1>1, <1>2 DEF Ends

\* A resumption of coroutine e keeps the control invariant.
LEMMA ResumeControl ==
  ASSUME TypeOK, Control, NEW e \in Ends, Resume(e)
  PROVE  Control'
<1> USE DEF flags, sockets, Dispatched
<1>1. CASE OnRead(e) \/ OnWrite(e) \/ OnShut(e)
  <2>1. task[e] \in {"read", "write", "shut"}
    BY <1>1 DEF OnRead, OnWrite, OnShut
  <2>2. CASE Finish(e)
    BY <2>1, <2>2, FinishControl
  <2>3. ASSUME NEW pc \in {"read", "write", "shut"}, Suspend(e, pc),
               UNCHANGED <<flags, sockets>>
        PROVE  Control'
    BY <2>1, <2>3, SuspendControl DEF PCs
  <2>4. QED
    BY <1>1, <2>2, <2>3
    DEF OnRead, RelayChunk, PropagateEnd, UdpRelayEnds, OnWrite, OnShut
<1>2. CASE e = "client" /\ (OnTls \/ OnDecode \/ OnRespond)
  <2>1. task[e] \in Early /\ task[e] \notin {"none", "created", "done"}
    BY <1>2 DEF OnTls, OnDecode, OnRespond, Early
  <2>2. CASE FinishClient
    BY <1>2, <2>1, <2>2, FinishControl DEF Finish
  <2>3. ASSUME NEW pc \in {"tls", "decode", "respond", "connect"}, Suspend(e, pc),
               UNCHANGED <<flags, sockets>>
        PROVE  Control'
    BY <1>2, <2>1, <2>3, SuspendControl DEF PCs
  <2>4. QED
    BY <1>2, <2>2, <2>3 DEF OnTls, OnDecode, OnRespond
<1>3. CASE e = "client" /\ OnConnect
  <2>1. CASE FinishClient
    BY <1>3, <2>1, FinishControl DEF Finish, OnConnect
  <2>2. CASE ~FinishClient
    <3>1. /\ started' = TRUE
          /\ task'["client"] \in {"read", "write"} /\ task'["target"] = "read"
          /\ op'["client"] = "posted" /\ op'["target"] = "posted"
          /\ fd'["target"] = "open" /\ fd'["client"] = fd["client"]
          /\ UNCHANGED <<readDone, closed, live>>
      BY <1>3, <2>2 DEF OnConnect, ForwardOrRead, Ends, TypeOK
    <3>2. ~started /\ ~closed /\ live /\ ~readDone["client"] /\ ~readDone["target"]
      BY <1>3 DEF OnConnect, Control, Ends, Early
    <3>3. QED
      BY <3>1, <3>2 DEF Control, Ends, Early
  <2>3. QED
    BY <2>1, <2>2
<1>4. QED
  BY <1>1, <1>2, <1>3 DEF Resume

\* A completion of coroutine e's operation keeps the control invariant.
LEMMA KernelControl ==
  ASSUME TypeOK, Control, NEW e \in Ends, Kernel(e)
  PROVE  Control'
<1>1. op[e] = "posted"
  BY DEF Kernel, KernelRecv, KernelSend, KernelShut, KernelTls, KernelRespond,
         KernelConnect
<1>2. \E r : Complete(e, r)
  BY DEF Kernel, KernelRecv, KernelSend, KernelShut, KernelTls, KernelRespond,
         KernelConnect
<1>3. /\ op'[e] = "complete"
      /\ \A o \in Ends : o # e => op'[o] = op[o]
      /\ UNCHANGED <<task, readDone, started, closed, live, fd>>
  BY <1>2, CompleteEffect
<1>4. QED
  BY <1>1, <1>3 DEF Control, Ends

\* Every step keeps the control invariant.
LEMMA ControlInductive ==
  ASSUME TypeOK, Control, [Next]_vars
  PROVE  Control'
<1>1. CASE Start
  <2>1. Suspend("client", IF tls THEN "tls" ELSE "decode")
    BY <1>1 DEF Start
  <2>2. QED
    BY <1>1, <2>1, EndsType, SuspendControl DEF Start, PCs, Early, flags, sockets
<1>2. CASE Reclaim
  BY <1>2 DEF Reclaim, Control, coroutines, Ends
<1>3. ASSUME NEW e \in Ends, Peer(e) PROVE Control'
  <2>1. UNCHANGED <<task, op, readDone, started, closed, live, fd>>
    BY <1>3 DEF Peer, PeerSend, PeerFin, PeerReset, PeerRead, Untouched,
                coroutines, flags, sockets
  <2>2. QED
    BY <2>1 DEF Control
<1>4. CASE UNCHANGED vars
  BY <1>4 DEF vars, Control
<1>5. QED
  BY <1>1, <1>2, <1>3, <1>4, ResumeControl, KernelControl DEF Next, Reclaimed

\* The control invariant holds throughout.
LEMMA ControlInvariant == Spec => []Control
<1>1. Init => Control
  BY DEF Init, Control, Ends, Early
<1>2. TypeOK /\ Control /\ [Next]_vars => Control'
  BY ControlInductive
<1>3. QED
  BY <1>1, <1>2, TypeCorrect, PTL DEF Spec

\* closed_ implies that both coroutines have ended and nothing is in flight, so
\* the event loop never destroys a suspended frame (vless_connection.cpp:159-177,
\* vless_connection_target_task.cpp:99-108).
THEOREM ReclaimIsSafe == Spec => []SafeReclaim
<1>1. Control /\ TypeOK => SafeReclaim
  BY DEF Control, SafeReclaim, Ends, TypeOK, PCs
<1>2. QED
  BY <1>1, ControlInvariant, TypeCorrect, PTL

-----------------------------------------------------------------------------
(* The streams: who shut what down, the prologue, and where the bytes are.  *)

\* Every end has one opposite end.
LEMMA OtherEnd ==
  ASSUME NEW e \in Ends
  PROVE  Other(e) \in Ends /\ Other(e) # e /\ Other(Other(e)) = e
BY DEF Other, Ends

\* The two ways a coroutine ends change none of the streams, nor what the other
\* coroutine waits for; the only sockets they shut down are the other side's.
LEMMA FinishEffect ==
  ASSUME TypeOK, Control, NEW e \in Ends, task[e] # "none", Finish(e)
  PROVE  /\ Return(e)
         /\ UNCHANGED <<started, produced, reset, consumed, sent>>
         /\ \/ ShutdownBoth(Other(e)) /\ started
            \/ UNCHANGED <<rdShut, wrShut>>
<1>1. CASE e = "client"
  BY <1>1 DEF Finish, FinishClient, KeepOpen, Other, peers, wire
<1>2. CASE e = "target"
  BY <1>2 DEF Finish, FinishTarget, KeepOpen, Other, peers, wire, Control
<1>3. QED
  BY <1>1, <1>2 DEF Ends

\* Every resumption but the one after a successful connect either ends its
\* coroutine or suspends it again, and leaves streams and sockets alone.
LEMMA ResumeEffect ==
  ASSUME TypeOK, NEW e \in Ends, Resume(e)
  PROVE  \/ Finish(e)
         \/ e = "client" /\ OnConnect /\ ~FinishClient
         \/ /\ task[e] \notin {"none", "shut", "done"}
            /\ \E pc : Suspend(e, pc)
            /\ \A o \in Ends : o # e => held'[o] = held[o]
            /\ UNCHANGED <<readDone, started, rdShut, wrShut, produced, reset,
                           consumed, sent>>
<1> USE DEF flags, sockets, peers, wire, TypeOK, Dispatched
<1>1. CASE OnRead(e)
  BY <1>1 DEF OnRead, RelayChunk, PropagateEnd, UdpRelayEnds
<1>2. CASE OnWrite(e)
  BY <1>2 DEF OnWrite
<1>3. CASE OnShut(e)
  BY <1>3 DEF OnShut
<1>4. CASE e = "client" /\ (OnTls \/ OnDecode \/ OnRespond)
  BY <1>4 DEF OnTls, OnDecode, OnRespond, Finish
<1>5. CASE e = "client" /\ OnConnect
  BY <1>5 DEF Finish
<1>6. QED
  BY <1>1, <1>2, <1>3, <1>4, <1>5 DEF Resume

\* What has been shut down, reset or ended stays so.
LEMMA FlagsRise ==
  ASSUME TypeOK, Control, NEW d \in Ends, [Next]_vars
  PROVE  /\ rdShut[d] => rdShut'[d]
         /\ wrShut[d] => wrShut'[d]
         /\ reset[d] => reset'[d]
         /\ readDone[d] => readDone'[d]
         /\ started => started'
<1> USE DEF flags, sockets, peers, TypeOK
<1>1. CASE Start
  BY <1>1 DEF Start
<1>2. CASE Reclaim
  BY <1>2 DEF Reclaim
<1>3. ASSUME NEW e \in Ends, Resume(e)
      PROVE  /\ rdShut[d] => rdShut'[d]
             /\ wrShut[d] => wrShut'[d]
             /\ reset[d] => reset'[d]
             /\ readDone[d] => readDone'[d]
             /\ started => started'
  <2>1. CASE Finish(e)
    <3>1. task[e] # "none"
      BY <1>3 DEF Resume, OnRead, OnWrite, OnShut, OnTls, OnDecode, OnRespond,
                  OnConnect, Dispatched
    <3>2. /\ Return(e) /\ reset' = reset /\ started' = started
          /\ \/ ShutdownBoth(Other(e))
             \/ UNCHANGED <<rdShut, wrShut>>
      BY <2>1, <3>1, FinishEffect
    <3>3. readDone[d] => readDone'[d]
      BY <3>2 DEF Return
    <3>4. (rdShut[d] => rdShut'[d]) /\ (wrShut[d] => wrShut'[d])
      BY <3>2 DEF ShutdownBoth
    <3>5. QED
      BY <3>2, <3>3, <3>4
  <2>2. CASE OnConnect /\ ~FinishClient
    BY <2>2 DEF OnConnect
  <2>3. CASE UNCHANGED <<readDone, started, rdShut, wrShut, reset>>
    BY <2>3
  <2>4. QED
    BY <1>3, <2>1, <2>2, <2>3, ResumeEffect
<1>4. ASSUME NEW e \in Ends, Kernel(e)
      PROVE  /\ rdShut[d] => rdShut'[d]
             /\ wrShut[d] => wrShut'[d]
             /\ reset[d] => reset'[d]
             /\ readDone[d] => readDone'[d]
             /\ started => started'
  <2>1. UNCHANGED <<rdShut, reset, readDone, started>>
    BY <1>4 DEF Kernel, KernelRecv, KernelSend, KernelShut, KernelTls,
         KernelRespond, KernelConnect, Complete
  <2>2. CASE KernelShut(e)
    <3>1. wrShut' = [wrShut EXCEPT ![Other(e)] = TRUE] /\ wrShut \in [Ends -> BOOLEAN]
      BY <2>2 DEF KernelShut, TypeOK
    <3>2. wrShut[d] => wrShut'[d]
      BY <3>1, OtherEnd
    <3>3. QED
      BY <2>1, <3>2
  <2>3. CASE wrShut' = wrShut
    BY <2>1, <2>3
  <2>4. QED
    BY <1>4, <2>2, <2>3 DEF Kernel, KernelRecv, KernelSend, KernelTls,
         KernelRespond, KernelConnect
<1>5. ASSUME NEW e \in Ends, Peer(e)
      PROVE  /\ rdShut[d] => rdShut'[d]
             /\ wrShut[d] => wrShut'[d]
             /\ reset[d] => reset'[d]
             /\ readDone[d] => readDone'[d]
             /\ started => started'
  BY <1>5 DEF Peer, PeerSend, PeerFin, PeerReset, PeerRead, Untouched
<1>6. CASE UNCHANGED vars
  BY <1>6 DEF vars
<1>7. QED
  BY <1>1, <1>2, <1>3, <1>4, <1>5, <1>6 DEF Next, Reclaimed

\* A step that moves no byte of a stream, and does not move the coroutine that
\* carries it, keeps what is known of the stream.
LEMMA StreamFrame ==
  ASSUME TypeOK, TypeOK', NEW e \in Ends, Stream(e),
         sent'[Other(e)] = sent[Other(e)], consumed'[e] = consumed[e],
         produced[e] <= produced'[e],
         task'[e] = task[e], op'[e] = op[e], cqe'[e] = cqe[e], held'[e] = held[e],
         started' = started,
         Gone(Other(e)) => Gone(Other(e))'
  PROVE  Stream(e)'
<1>1. consumed[e] <= produced'[e]
  <2>1. consumed[e] <= produced[e]
    BY DEF Stream
  <2>2. consumed[e] \in Nat /\ produced[e] \in Nat /\ produced'[e] \in Nat
    BY DEF TypeOK
  <2>3. QED
    BY <2>1, <2>2
<1>2. NextFor(Other(e))' = NextFor(Other(e))
  BY DEF NextFor
<1> DEFINE d == Other(e)
<1>3. sent'[d] = Run(First(d), Len(sent'[d]))
  BY DEF Stream
<1>4. /\ task'[e] = "read" /\ op'[e] = "posted" =>
           Gone(d)' \/ NextFor(d)' = consumed'[e] + 1
      /\ task'[e] \in {"shut", "done"} /\ started' =>
           Gone(d)' \/ NextFor(d)' = consumed'[e] + 1
  BY <1>2 DEF Stream
<1>5. task'[e] = "read" /\ op'[e] = "complete" =>
        /\ cqe'[e] <= consumed'[e]
        /\ cqe'[e] > 0  => Gone(d)' \/ NextFor(d)' + cqe'[e] = consumed'[e] + 1
        /\ cqe'[e] <= 0 => Gone(d)' \/ NextFor(d)' = consumed'[e] + 1
  BY <1>2 DEF Stream
<1>6. task'[e] = "write" =>
        /\ 0 < Len(held'[e]) /\ Len(held'[e]) <= consumed'[e]
        /\ held'[e] = Run(consumed'[e] - Len(held'[e]) + 1, Len(held'[e]))
  BY DEF Stream
<1>7. task'[e] = "write" /\ op'[e] = "posted" =>
        Gone(d)' \/ NextFor(d)' + Len(held'[e]) = consumed'[e] + 1
  BY <1>2 DEF Stream
<1>8. task'[e] = "write" /\ op'[e] = "complete" =>
        /\ cqe'[e] <= Len(held'[e])
        /\ cqe'[e] > 0 =>
             Gone(d)' \/ NextFor(d)' + Len(held'[e]) = consumed'[e] + 1 + cqe'[e]
        /\ cqe'[e] <= 0 => Gone(d)'
  BY <1>2 DEF Stream
<1>9. QED
  BY <1>1, <1>3, <1>4, <1>5, <1>6, <1>7, <1>8, Zenon DEF Stream

\* The order of the shutdowns: SHUT_WR comes from a relay that has nothing more
\* to write, SHUT_RDWR from a coroutine that has ended.
LEMMA ShutdownsStep ==
  ASSUME TypeOK, TypeOK', Control, Shutdowns, [Next]_vars
  PROVE  Shutdowns'
<1> USE DEF flags, sockets, peers
<1>1. CASE Start
  <2>1. /\ task["client"] = "created"
        /\ UNCHANGED <<rdShut, wrShut, readDone>>
        /\ task'["target"] = task["target"] /\ op'["target"] = op["target"]
    BY <1>1, EndsType, SuspendEffect DEF Start
  <2>2. QED
    BY <2>1 DEF Shutdowns, Ends, Other
<1>2. CASE Reclaim
  BY <1>2 DEF Reclaim, coroutines, Shutdowns
<1>3. ASSUME NEW e \in Ends, Resume(e)
      PROVE  Shutdowns'
  <2>1. CASE Finish(e)
    <3>1. task[e] # "none"
      BY <1>3 DEF Resume, OnRead, OnWrite, OnShut, OnTls, OnDecode, OnRespond,
                  OnConnect, Dispatched
    <3>2. /\ Return(e)
          /\ \/ ShutdownBoth(Other(e))
             \/ UNCHANGED <<rdShut, wrShut>>
      BY <2>1, <3>1, FinishEffect
    <3> DEFINE o == Other(e)
    <3>3. /\ task'[e] = "done" /\ readDone'[e]
          /\ task'[o] = task[o] /\ op'[o] = op[o] /\ readDone'[o] = readDone[o]
      BY <3>2, OtherEnd, ReturnEffect
    <3>4. rdShut'[e] = rdShut[e] /\ wrShut'[e] = wrShut[e]
      BY <3>2, OtherEnd DEF ShutdownBoth, TypeOK
    <3>5. \/ rdShut'[o] /\ wrShut'[o]
          \/ rdShut'[o] = rdShut[o] /\ wrShut'[o] = wrShut[o]
      BY <3>2, OtherEnd DEF ShutdownBoth, TypeOK
    <3>6. \A x \in Ends : x = e \/ x = o
      BY DEF Ends, Other
    <3>7. Other(o) = e /\ o \in Ends
      BY OtherEnd
    <3> HIDE DEF o
    <3>8. Other(e) = o
      BY DEF o
    <3>9. QED
      BY <3>3, <3>4, <3>5, <3>6, <3>7, <3>8 DEF Shutdowns
  <2>2. CASE e = "client" /\ OnConnect /\ ~FinishClient
    <3>1. task["client"] = "connect" /\ ~started
      BY <2>2 DEF OnConnect, Dispatched, Control, Early
    <3>2. task["target"] = "none"
      BY <3>1 DEF Control
    <3>3. UNCHANGED <<rdShut, wrShut, readDone>>
      BY <2>2 DEF OnConnect
    <3>4. QED
      BY <3>1, <3>2, <3>3 DEF Shutdowns, Ends, Other
  <2>3. ASSUME task[e] \notin {"none", "shut", "done"}, NEW pc, Suspend(e, pc),
               UNCHANGED <<rdShut, wrShut, readDone>>
        PROVE  Shutdowns'
    <3>1. \A o \in Ends : o # e => task'[o] = task[o] /\ op'[o] = op[o]
      BY <2>3, SuspendEffect
    <3>2. QED
      BY <2>3, <3>1 DEF Shutdowns
  <2>4. QED
    BY <1>3, <2>1, <2>2, <2>3, ResumeEffect
<1>4. ASSUME NEW e \in Ends, Kernel(e)
      PROVE  Shutdowns'
  <2>1. op[e] = "posted" /\ UNCHANGED <<task, readDone, rdShut>>
    BY <1>4 DEF Kernel, KernelRecv, KernelSend, KernelShut, KernelTls,
         KernelRespond, KernelConnect, Complete
  <2>2. \E r : Complete(e, r)
    BY <1>4 DEF Kernel, KernelRecv, KernelSend, KernelShut, KernelTls,
         KernelRespond, KernelConnect
  <2>3. op'[e] = "complete" /\ \A o \in Ends : o # e => op'[o] = op[o]
    BY <2>2, CompleteEffect
  <2>4. CASE wrShut' = wrShut
    BY <2>1, <2>3, <2>4 DEF Shutdowns
  <2>5. CASE KernelShut(e)
    <3>1. /\ task[e] = "shut" /\ wrShut'[Other(e)]
          /\ wrShut'[e] = wrShut[e]
      BY <2>5, OtherEnd DEF KernelShut, TypeOK
    <3>2. \A x \in Ends : x = e \/ x = Other(e)
      BY DEF Ends, Other
    <3>3. QED
      BY <2>1, <2>3, <3>1, <3>2, OtherEnd DEF Shutdowns
  <2>6. QED
    BY <1>4, <2>4, <2>5 DEF Kernel, KernelRecv, KernelSend, KernelTls,
         KernelRespond, KernelConnect
<1>5. ASSUME NEW e \in Ends, Peer(e)
      PROVE  Shutdowns'
  BY <1>5 DEF Peer, PeerSend, PeerFin, PeerReset, PeerRead, Untouched,
              coroutines, Shutdowns
<1>6. CASE UNCHANGED vars
  BY <1>6 DEF vars, Shutdowns
<1>7. QED
  BY <1>1, <1>2, <1>3, <1>4, <1>5, <1>6 DEF Next, Reclaimed

\* A send takes a nonempty prefix of the buffer or, on a dead or shut socket, none.
LEMMA SendEffect ==
  ASSUME TypeOK, NEW e \in Ends, KernelSend(e)
  PROVE  \/ /\ wrShut[Other(e)] \/ reset[Other(e)]
            /\ Complete(e, -1) /\ sent' = sent
         \/ /\ ~wrShut[Other(e)] /\ ~reset[Other(e)]
            /\ \E n \in 1 .. Len(held[e]) :
                 /\ Complete(e, n)
                 /\ sent' = [sent EXCEPT ![Other(e)] = @ \o SubSeq(held[e], 1, n)]
<1>1. Len(held[e]) \in Nat
  BY LenProperties DEF TypeOK
<1>2. SendCap - (Len(sent[Other(e)]) - drained[Other(e)]) \in Int
  <2>1. sent[Other(e)] \in Seq(Int) /\ drained[Other(e)] \in Nat
    BY OtherEnd DEF TypeOK
  <2>2. QED
    BY <2>1, LenProperties, ConnectionAssumption
<1>3. ASSUME NEW m \in Int, NEW n \in 1 .. Min2(m, Len(held[e]))
      PROVE  n \in 1 .. Len(held[e])
  BY <1>1, <1>3 DEF Min2
<1> DEFINE room == IF mode = "udp" /\ Other(e) = "target"
                     THEN 1
                     ELSE SendCap - (Len(sent[Other(e)]) - drained[Other(e)])
<1> DEFINE Moved(n) == sent' = [sent EXCEPT ![Other(e)] =
                                  sent[Other(e)] \o SubSeq(held[e], 1, n)]
<1>4. room \in Int
  BY <1>2
<1>5. \/ /\ wrShut[Other(e)] \/ reset[Other(e)]
         /\ Complete(e, -1) /\ sent' = sent
      \/ /\ ~wrShut[Other(e)] /\ ~reset[Other(e)]
         /\ \E n \in 1 .. Min2(room, Len(held[e])) : Complete(e, n) /\ Moved(n)
  BY Zenon DEF KernelSend
<1> HIDE DEF room, Moved
<1>6. ASSUME NEW n \in 1 .. Min2(room, Len(held[e])), Complete(e, n), Moved(n)
      PROVE  \E k \in 1 .. Len(held[e]) : Complete(e, k) /\ Moved(k)
  BY <1>3, <1>4, <1>6, Zenon
<1>7. \/ /\ wrShut[Other(e)] \/ reset[Other(e)]
         /\ Complete(e, -1) /\ sent' = sent
      \/ /\ ~wrShut[Other(e)] /\ ~reset[Other(e)]
         /\ \E n \in 1 .. Len(held[e]) : Complete(e, n) /\ Moved(n)
  BY <1>5, <1>6, Zenon
<1>8. QED
  BY <1>7, Zenon DEF Moved

\* Only the kernel moves bytes and only a relay's end shuts a socket down.
LEMMA OnlyKernelMoves ==
  ASSUME TypeOK, Control, [Next]_vars
  PROVE  UNCHANGED <<consumed, sent>> \/ \E e \in Ends : Kernel(e)
<1> USE DEF wire
<1>1. CASE Start
  BY <1>1 DEF Start
<1>2. CASE Reclaim
  BY <1>2 DEF Reclaim
<1>3. ASSUME NEW e \in Ends, Resume(e)
      PROVE  UNCHANGED <<consumed, sent>>
  <2>1. CASE Finish(e)
    BY <2>1 DEF Finish, FinishClient, FinishTarget
  <2>2. CASE OnConnect /\ ~FinishClient
    BY <2>2 DEF OnConnect
  <2>3. QED
    BY <1>3, <2>1, <2>2, ResumeEffect
<1>4. ASSUME NEW e \in Ends, Peer(e)
      PROVE  UNCHANGED <<consumed, sent>>
  BY <1>4 DEF Peer, PeerSend, PeerFin, PeerReset, PeerRead, Untouched
<1>5. CASE UNCHANGED vars
  BY <1>5 DEF vars
<1>6. QED
  BY <1>1, <1>2, <1>3, <1>4, <1>5 DEF Next, Reclaimed

\* Once something has been sent to the client, it stays sent.
LEMMA AnsweredStays ==
  ASSUME TypeOK, Control, sent["client"] # << >>,
         task["client"] # "respond", [Next]_vars
  PROVE  sent'["client"] # << >>
<1>1. CASE sent'["client"] = sent["client"]
  BY <1>1
<1>2. ASSUME NEW e \in Ends, Kernel(e)
      PROVE  sent'["client"] # << >>
  <2>1. CASE KernelSend(e)
    <3>1. CASE sent' = sent
      BY <3>1
    <3>2. ASSUME NEW n \in 1 .. Len(held[e]),
                 sent' = [sent EXCEPT ![Other(e)] = @ \o SubSeq(held[e], 1, n)]
          PROVE  sent'["client"] # << >>
      <4>1. CASE Other(e) # "client"
        BY <3>2, <4>1 DEF TypeOK
      <4>2. CASE Other(e) = "client"
        <5> DEFINE a == sent["client"]
                   b == SubSeq(held[e], 1, n)
        <5>1. a \in Seq(Int) /\ a # << >>
          BY EndsType DEF TypeOK
        <5>2. b \in Seq(Int)
          <6>1. held[e] \in Seq(Int)
            BY DEF TypeOK
          <6>2. QED
            BY <3>2, <6>1, SubSeqProperties, LenProperties, ElementOfSeq
        <5>3. sent'["client"] = a \o b
          BY <3>2, <4>2, EndsType DEF TypeOK
        <5> HIDE DEF a, b
        <5>4. Len(a \o b) = Len(a) + Len(b) /\ Len(b) \in Nat /\ Len(a) \in Nat \ {0}
          BY <5>1, <5>2, ConcatProperties, LenProperties, EmptySeq
        <5>5. a \o b # << >>
          BY <5>4, EmptySeq
        <5>6. QED
          BY <5>3, <5>5
      <4>3. QED
        BY <4>1, <4>2
    <3>3. QED
      BY <2>1, <3>1, <3>2, SendEffect
  <2>2. CASE ~KernelSend(e)
    BY <1>2, <2>2 DEF Kernel, KernelRecv, KernelShut, KernelTls, KernelConnect,
                      KernelRespond, wire
  <2>3. QED
    BY <2>1, <2>2
<1>3. QED
  BY <1>1, <1>2, OnlyKernelMoves

\* Nothing of the prologue's state moves.
PrologueState == <<task, op, cqe, held, started, wrShut, consumed, sent>>

\* Before the target is connected the only byte sent is the response, and the
\* leftover of the handshake waits in the client's buffer.
LEMMA PrologueStep ==
  ASSUME TypeOK, TypeOK', Control, Control', Prologue, [Next]_vars
  PROVE  Prologue'
<1> USE EndsType DEF flags, sockets, peers, wire, Dispatched, coroutines
<1>1. CASE started
  <2>1. started' /\ task'["client"] \notin Early
    BY <1>1, FlagsRise DEF Control
  <2>2. sent["client"] # << >> /\ task["client"] \notin Early
    BY <1>1 DEF Prologue, Control
  <2>3. sent'["client"] # << >>
    BY <2>2, AnsweredStays DEF Early
  <2>4. QED
    BY <2>1, <2>3 DEF Prologue, Early
<1>2. CASE UNCHANGED PrologueState
  BY <1>2 DEF PrologueState, Prologue, Leftover
<1>3. CASE ~started /\ Start
  <2>1. task'["client"] \in {"tls", "decode"} /\ UNCHANGED <<started, wrShut, consumed, sent>>
    BY <1>3, SuspendEffect DEF Start
  <2>2. task["client"] = "created"
    BY <1>3 DEF Start
  <2>3. QED
    BY <1>3, <2>1, <2>2 DEF Prologue
<1>4. CASE Reclaim
  BY <1>2, <1>4 DEF Reclaim, PrologueState
<1>5. ASSUME NEW e \in Ends, Peer(e)
      PROVE  Prologue'
  BY <1>2, <1>5 DEF Peer, PeerSend, PeerFin, PeerReset, PeerRead, Untouched, PrologueState
<1>6. ASSUME ~started, NEW e \in Ends, Resume(e)
      PROVE  Prologue'
  <2>1. task["target"] = "none" /\ task["client"] \notin {"read", "write", "shut"}
    BY <1>6 DEF Control
  <2>2. e = "client" /\ (OnTls \/ OnDecode \/ OnRespond \/ OnConnect)
    BY <1>6, <2>1 DEF Resume, OnRead, OnWrite, OnShut, Ends
  <2>3. CASE FinishClient
    <3>1. /\ task'["client"] = "done"
          /\ UNCHANGED <<started, wrShut, consumed, sent>>
      BY <1>6, <2>3, ReturnEffect DEF FinishClient, KeepOpen
    <3>2. QED
      BY <1>6, <3>1 DEF Prologue
  <2>4. CASE OnTls /\ ~FinishClient
    <3>1. task["client"] = "tls" /\ Suspend("client", "decode")
          /\ UNCHANGED <<started, wrShut, consumed, sent>>
      BY <2>4 DEF OnTls
    <3>2. task'["client"] = "decode"
      BY <3>1, SuspendEffect
    <3>3. QED
      BY <1>6, <3>1, <3>2 DEF Prologue
  <2>5. CASE OnDecode /\ ~FinishClient
    <3>1. task["client"] = "decode" /\ UNCHANGED <<started, wrShut, consumed, sent>>
      BY <2>5 DEF OnDecode
    <3>2. sent["client"] = << >>
      BY <3>1 DEF Prologue
    <3>3. CASE Suspend("client", "decode")
      <4>1. task'["client"] = "decode"
        BY <3>3, SuspendEffect
      <4>2. QED
        BY <1>6, <3>1, <3>2, <4>1 DEF Prologue
    <3>4. CASE /\ consumed["client"] >= HeaderLen
               /\ held' = [held EXCEPT !["client"] = Leftover]
               /\ Suspend("client", "respond")
      <4>1. task'["client"] = "respond" /\ op'["client"] = "posted"
        BY <3>4, SuspendEffect
      <4>2. held'["client"] = Leftover'
        BY <3>1, <3>4 DEF Leftover, TypeOK
      <4>3. QED
        BY <1>6, <3>1, <3>2, <3>4, <4>1, <4>2 DEF Prologue
    <3>5. QED
      BY <2>5, <3>3, <3>4 DEF OnDecode
  <2>6. CASE OnRespond /\ ~FinishClient
    <3>1. /\ task["client"] = "respond" /\ op["client"] = "complete"
          /\ cqe["client"] >= 0 /\ Suspend("client", "connect")
          /\ UNCHANGED <<held, started, wrShut, consumed, sent>>
      BY <2>6 DEF OnRespond
    <3>2. task'["client"] = "connect"
      BY <3>1, SuspendEffect
    <3>3. Leftover' = Leftover
      BY <3>1 DEF Leftover
    <3>4. QED
      BY <1>6, <3>1, <3>2, <3>3 DEF Prologue
  <2>7. CASE OnConnect /\ ~FinishClient
    <3>1. /\ task["client"] = "connect" /\ started'
          /\ task'["client"] \in {"read", "write"} /\ UNCHANGED sent
      BY <2>7 DEF OnConnect, ForwardOrRead
    <3>2. sent["client"] = << 0 >>
      BY <3>1 DEF Prologue
    <3>3. QED
      BY <3>1, <3>2 DEF Prologue
  <2>8. QED
    BY <2>2, <2>3, <2>4, <2>5, <2>6, <2>7
<1>7. ASSUME ~started, NEW e \in Ends, Kernel(e)
      PROVE  Prologue'
  <2>1. task["target"] = "none" /\ task["client"] \notin {"read", "write", "shut"}
    BY <1>7 DEF Control
  <2>2. e = "client"
    BY <1>7, <2>1 DEF Kernel, KernelRecv, KernelSend, KernelShut, Ends
  <2>3. op["client"] = "posted" /\ UNCHANGED <<task, held, started>>
    BY <1>7, <2>2 DEF Kernel, KernelRecv, KernelSend, KernelShut, KernelTls,
                      KernelRespond, KernelConnect, Complete
  <2>4. CASE KernelRecv("client")
    <3>1. task["client"] = "decode"
      BY <2>1, <2>4 DEF KernelRecv
    <3>2. consumed'["target"] = consumed["target"] /\ UNCHANGED <<sent, wrShut>>
      BY <2>4 DEF KernelRecv, TypeOK
    <3>3. QED
      BY <1>7, <2>3, <3>1, <3>2 DEF Prologue
  <2>5. CASE KernelRespond
    <3>1. /\ task["client"] = "respond" /\ UNCHANGED <<consumed, wrShut>>
          /\ sent'["target"] = sent["target"]
      BY <2>5 DEF KernelRespond, TypeOK
    <3>2. sent["client"] = << >>
      BY <2>3, <3>1 DEF Prologue
    <3>3. \/ op'["client"] = "complete" /\ cqe'["client"] = -1 /\ sent'["client"] = << >>
          \/ op'["client"] = "complete" /\ cqe'["client"] = 1 /\ sent'["client"] = << 0 >>
      <4>1. CASE Complete("client", -1) /\ UNCHANGED sent
        BY <3>2, <4>1, CompleteEffect
      <4>2. CASE Complete("client", 1) /\ sent' = [sent EXCEPT !["client"] = Append(@, 0)]
        <5>1. sent'["client"] = Append(<< >>, 0)
          BY <3>2, <4>2 DEF TypeOK
        <5>2. Append(<< >>, 0) = << 0 >>
          OBVIOUS
        <5>3. QED
          BY <4>2, <5>1, <5>2, CompleteEffect
      <4>3. QED
        BY <2>5, <4>1, <4>2 DEF KernelRespond
    <3>4. Leftover' = Leftover
      BY <3>1 DEF Leftover
    <3>5. QED
      BY <1>7, <2>3, <3>1, <3>3, <3>4 DEF Prologue
  <2>6. CASE KernelTls \/ KernelConnect
    <3>1. task["client"] \in {"tls", "connect"} /\ UNCHANGED <<wrShut, consumed, sent>>
      BY <2>6 DEF KernelTls, KernelConnect
    <3>2. Leftover' = Leftover
      BY <3>1 DEF Leftover
    <3>3. QED
      BY <1>7, <2>3, <3>1, <3>2 DEF Prologue
  <2>7. QED
    BY <1>7, <2>1, <2>2, <2>4, <2>5, <2>6 DEF Kernel, KernelSend, KernelShut
<1>8. CASE UNCHANGED vars
  BY <1>2, <1>8 DEF vars, PrologueState
<1>9. QED
  BY <1>1, <1>3, <1>4, <1>5, <1>6, <1>7, <1>8 DEF Next, Reclaimed

\* The three ways a relay ends leave nothing undelivered but to a dead socket.
LEMMA StreamFinish ==
  ASSUME TypeOK, TypeOK', Control, NEW e \in Ends, Stream(e), Resume(e), Finish(e),
         Gone(Other(e)) => Gone(Other(e))'
  PROVE  Stream(e)'
<1> DEFINE d == Other(e)
<1>1. task[e] # "none"
  BY DEF Resume, OnRead, OnWrite, OnShut, OnTls, OnDecode, OnRespond, OnConnect, Dispatched
<1>2. /\ task'[e] = "done"
      /\ UNCHANGED <<started, produced, consumed, sent>>
  BY <1>1, FinishEffect, ReturnEffect
<1>3. sent[d] = Run(First(d), Len(sent[d])) /\ consumed[e] <= produced[e]
  BY DEF Stream
<1>4. started => Gone(d) \/ NextFor(d) = consumed[e] + 1
  <2>1. CASE OnRead(e)
    <3>1. task[e] = "read" /\ op[e] = "complete" /\ cqe[e] <= 0
      <4>1. Suspend(e, "write") \/ Suspend(e, "shut") => task'[e] # "done"
        BY SuspendEffect
      <4>2. QED
        BY <1>2, <2>1, <4>1 DEF OnRead, RelayChunk, PropagateEnd, UdpRelayEnds, Dispatched
    <3>2. QED
      BY <3>1 DEF Stream
  <2>2. CASE OnWrite(e)
    <3>1. task[e] = "write" /\ op[e] = "complete" /\ cqe[e] <= 0
      <4>1. Suspend(e, "write") \/ Suspend(e, "read") => task'[e] # "done"
        BY SuspendEffect
      <4>2. QED
        BY <1>2, <2>2, <4>1 DEF OnWrite, Dispatched
    <3>2. QED
      BY <3>1 DEF Stream
  <2>3. CASE OnShut(e)
    BY <2>3 DEF OnShut, Dispatched, Stream
  <2>4. CASE e = "client" /\ (OnTls \/ OnDecode \/ OnRespond \/ OnConnect)
    BY <2>4 DEF OnTls, OnDecode, OnRespond, OnConnect, Dispatched, Control, Early
  <2>5. QED
    BY <2>1, <2>2, <2>3, <2>4 DEF Resume
<1>5. NextFor(d)' = NextFor(d)
  BY <1>2 DEF NextFor
<1>6. QED
  BY <1>2, <1>3, <1>4, <1>5 DEF Stream

\* A relay that goes on: a chunk to write, the rest of it, the next read, or the
\* end of the stream to pass on.
LEMMA StreamRelay ==
  ASSUME TypeOK, TypeOK', Control, NEW e \in Ends, Stream(e), ~Finish(e),
         OnRead(e) \/ OnWrite(e),
         Gone(Other(e)) => Gone(Other(e))'
  PROVE  Stream(e)'
<1> DEFINE d == Other(e)
           L == Len(held[e])
<1> USE DEF flags, sockets, peers, wire, Dispatched
<1>1. UNCHANGED <<started, produced, consumed, sent>>
  BY DEF OnRead, RelayChunk, PropagateEnd, UdpRelayEnds, OnWrite
<1>2. /\ sent[d] = Run(First(d), Len(sent[d])) /\ consumed[e] <= produced[e]
      /\ NextFor(d)' = NextFor(d)
  BY <1>1 DEF Stream, NextFor
<1>3. /\ consumed[e] \in Nat /\ cqe[e] \in Int /\ held[e] \in Seq(Int) /\ L \in Nat
      /\ NextFor(d) \in Int
  <2>1. sent[d] \in Seq(Int) /\ held[e] \in Seq(Int)
    BY OtherEnd DEF TypeOK
  <2>2. Len(sent[d]) \in Nat /\ L \in Nat
    BY <2>1, LenProperties
  <2>3. QED
    BY <2>1, <2>2, ConnectionAssumption DEF TypeOK, NextFor, First
<1>4. CASE OnRead(e) /\ RelayChunk(e)
  <2>1. /\ task'[e] = "write" /\ op'[e] = "posted"
        /\ held'[e] = Run(consumed[e] - cqe[e] + 1, cqe[e])
        /\ cqe[e] > 0
    BY <1>4, SuspendEffect DEF RelayChunk, TypeOK
  <2>2. cqe[e] <= consumed[e] /\ (Gone(d) \/ NextFor(d) + cqe[e] = consumed[e] + 1)
    BY <1>4 DEF OnRead, RelayChunk, Stream
  <2>3. Len(held'[e]) = cqe[e]
    <3>1. consumed[e] - cqe[e] + 1 \in Int /\ cqe[e] \in Nat
      BY <1>3, <2>1
    <3>2. QED
      BY <2>1, <3>1, RunType
  <2>4. QED
    BY <1>1, <1>2, <1>3, <2>1, <2>2, <2>3 DEF Stream
<1>5. CASE OnRead(e) /\ PropagateEnd(e)
  <2>1. task'[e] = "shut" /\ cqe[e] <= 0
    BY <1>5, SuspendEffect DEF PropagateEnd
  <2>2. Gone(d) \/ NextFor(d) = consumed[e] + 1
    BY <1>5, <2>1 DEF OnRead, Stream
  <2>3. QED
    BY <1>1, <1>2, <2>1, <2>2 DEF Stream
<1>6. CASE OnWrite(e)
  <2>1. /\ task[e] = "write" /\ op[e] = "complete"
        /\ 0 < L /\ L <= consumed[e] /\ cqe[e] <= L
        /\ held[e] = Run(consumed[e] - L + 1, L)
        /\ cqe[e] > 0 => Gone(d) \/ NextFor(d) + L = consumed[e] + 1 + cqe[e]
        /\ cqe[e] <= 0 => Gone(d)
    BY <1>6 DEF OnWrite, Stream
  <2>2. CASE /\ cqe[e] > 0 /\ cqe[e] < L
             /\ held' = [held EXCEPT ![e] = SubSeq(@, cqe[e] + 1, Len(@))]
             /\ Suspend(e, "write")
    <3>1. task'[e] = "write" /\ op'[e] = "posted"
      BY <2>2, SuspendEffect
    <3>2. held'[e] = SubSeq(held[e], cqe[e] + 1, L)
      BY <2>2 DEF TypeOK
    <3>3. /\ consumed[e] - L + 1 \in Int /\ cqe[e] \in 0 .. L
          /\ consumed[e] - L + 1 + cqe[e] \in Int /\ L - cqe[e] \in Nat
      <4>1. cqe[e] > 0 /\ cqe[e] < L
        BY <2>2
      <4>2. consumed[e] \in Nat /\ cqe[e] \in Int /\ L \in Nat
        BY <1>3
      <4> HIDE DEF L
      <4>3. QED
        BY <4>1, <4>2
    <3> DEFINE f == consumed[e] - L + 1
    <3>4. held'[e] = Run(f + cqe[e], L - cqe[e])
      <4>1. f \in Int /\ held[e] = Run(f, L)
        BY <2>1, <3>3
      <4> HIDE DEF f
      <4>2. SubSeq(Run(f, L), cqe[e] + 1, L) = Run(f + cqe[e], L - cqe[e])
        BY <1>3, <3>3, <4>1, RunSuffix
      <4>3. QED
        BY <3>2, <4>1, <4>2
    <3>5. Len(held'[e]) = L - cqe[e]
      BY <3>3, <3>4, RunType
    <3>6. consumed[e] - (L - cqe[e]) + 1 = f + cqe[e]
      <4>1. ASSUME NEW c \in Int, NEW m \in Int, NEW q \in Int
            PROVE  c - (m - q) + 1 = (c - m + 1) + q
        OBVIOUS
      <4>2. consumed[e] \in Int /\ L \in Int /\ cqe[e] \in Int
        BY <1>3
      <4> HIDE DEF L
      <4>3. QED
        BY <4>1, <4>2
    <3> HIDE DEF f, L
    <3>7. held'[e] = Run(consumed[e] - Len(held'[e]) + 1, Len(held'[e]))
      BY <3>4, <3>5, <3>6
    <3>8. /\ 0 < Len(held'[e]) /\ Len(held'[e]) <= consumed[e]
          /\ Gone(d) \/ NextFor(d) + Len(held'[e]) = consumed[e] + 1
      <4>1. 0 < Len(held'[e]) /\ Len(held'[e]) <= consumed[e]
        <5>1. consumed[e] \in Nat /\ cqe[e] \in Int /\ L \in Nat
          BY <1>3
        <5>2. cqe[e] > 0 /\ cqe[e] < L /\ L <= consumed[e]
          BY <2>1, <2>2
        <5>3. QED
          BY <3>5, <5>1, <5>2
      <4>2. ASSUME ~Gone(d) PROVE NextFor(d) + Len(held'[e]) = consumed[e] + 1
        <5>1. NextFor(d) + L = consumed[e] + 1 + cqe[e]
          BY <2>1, <2>2, <4>2
        <5>2. NextFor(d) \in Int /\ consumed[e] \in Int /\ L \in Int /\ cqe[e] \in Int
          BY <1>3
        <5>3. ASSUME NEW x \in Int, NEW c \in Int, NEW m \in Int, NEW q \in Int,
                     x + m = c + 1 + q
              PROVE  x + (m - q) = c + 1
          BY <5>3
        <5>4. NextFor(d) + (L - cqe[e]) = consumed[e] + 1
          BY <5>1, <5>2, <5>3
        <5>5. QED
          BY <3>5, <5>4, Zenon
      <4>3. QED
        BY <4>1, <4>2
    <3>9. QED
      BY <1>1, <1>2, <3>1, <3>7, <3>8 DEF Stream
  <2>3. CASE /\ cqe[e] >= L \/ cqe[e] <= 0
             /\ Suspend(e, "read")
    <3>1. task'[e] = "read" /\ op'[e] = "posted"
      BY <2>3, SuspendEffect
    <3>2. Gone(d) \/ NextFor(d) = consumed[e] + 1
      <4>1. SUFFICES ASSUME ~Gone(d) PROVE NextFor(d) = consumed[e] + 1
        OBVIOUS
      <4>2. ~(cqe[e] <= 0)
        BY <2>1, <4>1
      <4>3. cqe[e] > 0 /\ cqe[e] = L
        BY <1>3, <2>1, <2>3, <4>2
      <4>4. NextFor(d) + L = consumed[e] + 1 + cqe[e]
        BY <2>1, <4>1, <4>3
      <4>5. QED
        BY <1>3, <4>3, <4>4
    <3>3. QED
      BY <1>1, <1>2, <3>1, <3>2 DEF Stream
  <2>4. QED
    BY <1>6, <2>2, <2>3 DEF OnWrite
<1>7. QED
  BY <1>4, <1>5, <1>6 DEF OnRead, UdpRelayEnds

\* A successful connect starts both relays: the client's with the leftover of
\* the handshake, the target's right behind the response.
LEMMA StreamConnect ==
  ASSUME TypeOK, TypeOK', Control, Prologue, NEW e \in Ends, Stream(e),
         OnConnect, ~FinishClient
  PROVE  Stream(e)'
<1> USE EndsType DEF peers, wire, Dispatched
<1>1. /\ task["client"] = "connect"
      /\ task'["client"] = ForwardOrRead /\ task'["target"] = "read"
      /\ op'["client"] = "posted" /\ op'["target"] = "posted"
      /\ UNCHANGED <<held, produced, consumed, sent>>
  BY DEF OnConnect
<1>2. /\ sent["target"] = << >> /\ consumed["target"] = 0
      /\ sent["client"] = << 0 >>
      /\ consumed["client"] >= HeaderLen /\ held["client"] = Leftover
  BY <1>1 DEF Prologue, Control, Early
<1>3. /\ sent[Other(e)] = Run(First(Other(e)), Len(sent[Other(e)]))
      /\ consumed[e] <= produced[e]
  BY DEF Stream
<1>4. consumed["client"] \in Nat /\ consumed["client"] - HeaderLen \in Nat
      /\ HeaderLen + 1 \in Int
  <2>1. consumed["client"] \in Nat
    BY DEF TypeOK
  <2>2. QED
    BY <1>2, <2>1, ConnectionAssumption
<1>5. CASE e = "target"
  <2>1. NextFor("client")' = consumed["target"] + 1
    BY <1>1, <1>2 DEF NextFor, First
  <2>2. Other(e) = "client"
    BY <1>5 DEF Other
  <2>3. QED
    BY <1>1, <1>3, <1>5, <2>1, <2>2 DEF Stream
<1>6. CASE e = "client"
  <2>1. Other(e) = "target"
    BY <1>6 DEF Other
  <2>2. NextFor("target")' = HeaderLen + 1
    BY <1>1, <1>2, ConnectionAssumption DEF NextFor, First
  <2> DEFINE n == consumed["client"] - HeaderLen
  <2>3. held'["client"] = Run(HeaderLen + 1, n) /\ Len(held'["client"]) = n
    BY <1>1, <1>2, <1>4, RunType DEF Leftover
  <2>4. HeaderLen + 1 = consumed["client"] - n + 1 /\ n \in Nat /\ n <= consumed["client"]
    BY <1>4, ConnectionAssumption
  <2>5. CASE task'["client"] = "write"
    <3>1. 0 < n
      <4>1. held'["client"] # << >>
        BY <1>1, <2>5 DEF ForwardOrRead
      <4>2. held'["client"] \in Seq(Int)
        BY DEF TypeOK
      <4>3. QED
        BY <2>3, <2>4, <4>1, <4>2, EmptySeq
    <3>2. NextFor("target")' + n = consumed["client"] + 1
      BY <1>4, <2>2, ConnectionAssumption
    <3>3. held'["client"] = Run(consumed["client"] - n + 1, n)
      BY <2>3, <2>4
    <3> HIDE DEF n
    <3>4. QED
      BY <1>1, <1>3, <1>6, <2>1, <2>3, <2>4, <2>5, <3>1, <3>2, <3>3 DEF Stream
  <2>6. CASE task'["client"] = "read"
    <3>1. n = 0
      <4>1. held["client"] = << >>
        BY <1>1, <2>6 DEF ForwardOrRead
      <4>2. QED
        BY <1>1, <2>3, <4>1
    <3>2. NextFor("target")' = consumed["client"] + 1
      BY <1>4, <2>2, <3>1, ConnectionAssumption
    <3>3. QED
      BY <1>1, <1>3, <1>6, <2>1, <2>6, <3>2 DEF Stream
  <2>7. QED
    BY <1>1, <2>5, <2>6 DEF ForwardOrRead
<1>7. QED
  BY <1>5, <1>6 DEF Ends

\* What a writing coroutine holds is exactly what the other end is to get next.
LEMMA BufferIsNext ==
  ASSUME TypeOK, NEW e \in Ends, Stream(e), task[e] = "write", op[e] = "posted",
         ~Gone(Other(e)), NEW n \in 1 .. Len(held[e])
  PROVE  /\ SubSeq(held[e], 1, n) = Run(NextFor(Other(e)), n)
         /\ NextFor(Other(e)) + n <= consumed[e] + 1
<1> DEFINE d == Other(e)
           L == Len(held[e])
<1>1. /\ held[e] = Run(consumed[e] - L + 1, L)
      /\ NextFor(d) + L = consumed[e] + 1
  BY DEF Stream
<1>2. consumed[e] \in Nat /\ L \in Nat /\ NextFor(d) \in Int
  <2>1. sent[d] \in Seq(Int) /\ held[e] \in Seq(Int)
    BY OtherEnd DEF TypeOK
  <2>2. QED
    BY <2>1, OtherEnd, LenProperties, ConnectionAssumption DEF TypeOK, First, NextFor
<1>3. n \in 0 .. L /\ n <= L /\ NextFor(d) = consumed[e] - L + 1
  BY <1>1, <1>2
<1> HIDE DEF L
<1>4. SubSeq(Run(NextFor(d), L), 1, n) = Run(NextFor(d), n)
  BY <1>2, <1>3, RunPrefix
<1>5. held[e] = Run(NextFor(d), L)
  BY <1>1, <1>3
<1>6. NextFor(d) + n <= consumed[e] + 1
  BY <1>1, <1>2, <1>3
<1>7. QED
  BY <1>4, <1>5, <1>6

\* A send by the coroutine that carries the stream.
LEMMA StreamSend ==
  ASSUME TypeOK, TypeOK', Control, Shutdowns, NEW e \in Ends, Stream(e), KernelSend(e),
         Gone(Other(e)) => Gone(Other(e))'
  PROVE  Stream(e)'
<1> DEFINE d == Other(e)
           L == Len(held[e])
<1>1. /\ task[e] = "write" /\ op[e] = "posted"
      /\ UNCHANGED <<consumed, rdShut, wrShut>>
  BY DEF KernelSend
<1>2. \E r : Complete(e, r)
  BY DEF KernelSend
<1>3. op'[e] = "complete" /\ UNCHANGED <<task, held, produced, started, reset>>
  BY <1>2, CompleteEffect
<1>4. /\ sent[d] = Run(First(d), Len(sent[d])) /\ consumed[e] <= produced[e]
      /\ 0 < L /\ L <= consumed[e]
      /\ held[e] = Run(consumed[e] - L + 1, L)
      /\ Gone(d) \/ NextFor(d) + L = consumed[e] + 1
  BY <1>1 DEF Stream
<1>5. /\ consumed[e] \in Nat /\ L \in Nat /\ Len(sent[d]) \in Nat
      /\ First(d) \in Int /\ d \in Ends
  <2>1. sent[d] \in Seq(Int) /\ held[e] \in Seq(Int)
    BY OtherEnd DEF TypeOK
  <2>2. QED
    BY <2>1, OtherEnd, LenProperties, ConnectionAssumption DEF TypeOK, First
<1>6. CASE /\ wrShut[d] \/ reset[d]
           /\ Complete(e, -1) /\ sent' = sent
  <2>1. Gone(d)
    <3>1. Other(d) = e /\ d \in Ends
      BY OtherEnd
    <3>2. wrShut[d] => rdShut[d]
      BY <1>1, <3>1 DEF Shutdowns
    <3>3. ~readDone[e]
      BY <1>1 DEF Control
    <3>4. ~wrShut[d]
      BY <1>5, <3>1, <3>2, <3>3 DEF Shutdowns
    <3>5. QED
      BY <1>6, <3>4 DEF Gone
  <2>2. cqe'[e] = -1
    BY <1>6, CompleteEffect
  <2>3. cqe'[e] <= L /\ ~(cqe'[e] > 0)
    BY <1>5, <2>2
  <2>4. QED
    BY <1>1, <1>3, <1>4, <1>6, <2>1, <2>3 DEF Stream
<1>7. ASSUME ~wrShut[d], ~reset[d], NEW n \in 1 .. L, Complete(e, n),
             sent' = [sent EXCEPT ![d] = @ \o SubSeq(held[e], 1, n)]
      PROVE  Stream(e)'
  <2>1. ~Gone(d)
    BY <1>7 DEF Gone
  <2>2. NextFor(d) + L = consumed[e] + 1
    BY <1>4, <2>1
  <2>3. n \in Nat /\ n <= L /\ n \in 0 .. L /\ n > 0
    BY <1>5, <1>7
  <2>5. SubSeq(held[e], 1, n) = Run(First(d) + Len(sent[d]), n)
    BY <1>1, <2>1, BufferIsNext DEF NextFor
  <2>6. sent'[d] = Run(First(d), Len(sent[d]) + n)
    <3>1. sent'[d] = Run(First(d), Len(sent[d])) \o Run(First(d) + Len(sent[d]), n)
      BY <1>4, <1>5, <1>7, <2>5 DEF TypeOK
    <3>2. QED
      BY <1>5, <2>3, <3>1, RunConcat
  <2>7. Len(sent'[d]) = Len(sent[d]) + n
    <3>1. Len(sent[d]) + n \in Nat
      BY <1>5, <2>3
    <3>2. Len(Run(First(d), Len(sent[d]) + n)) = Len(sent[d]) + n
      BY <1>5, <3>1, RunType
    <3>3. QED
      BY <2>6, <3>2
  <2>8. NextFor(d)' = NextFor(d) + n
    BY <1>5, <2>7 DEF NextFor
  <2>9. cqe'[e] = n
    BY <1>7, CompleteEffect
  <2>10. NextFor(d)' + L = consumed[e] + 1 + cqe'[e]
    <3>1. NextFor(d) \in Int
      BY <1>5 DEF NextFor
    <3>2. QED
      BY <1>5, <2>2, <2>3, <2>8, <2>9, <3>1
  <2>11. cqe'[e] <= L /\ ~(cqe'[e] <= 0)
    BY <2>3, <2>9
  <2>12. QED
    BY <1>1, <1>3, <1>4, <2>6, <2>7, <2>10, <2>11 DEF Stream
<1>8. QED
  BY <1>6, <1>7, SendEffect

\* A coroutine outside the relay does not constrain its stream further.
LEMMA StreamIdle ==
  ASSUME NEW e \in Ends, Stream(e), sent'[Other(e)] = sent[Other(e)],
         consumed'[e] <= produced'[e],
         task'[e] \in Early \cup {"none"}
  PROVE  Stream(e)'
BY DEF Stream, Early

\* The kernel completes the operation of the coroutine that carries the stream.
LEMMA StreamKernel ==
  ASSUME TypeOK, TypeOK', Control, Shutdowns, NEW e \in Ends, Stream(e), Kernel(e),
         Gone(Other(e)) => Gone(Other(e))'
  PROVE  Stream(e)'
<1> DEFINE d == Other(e)
<1>1. UNCHANGED <<task, held, started, produced>>
  BY DEF Kernel, KernelRecv, KernelSend, KernelShut, KernelTls, KernelRespond,
         KernelConnect, Complete, flags, peers
<1>2. /\ sent[d] = Run(First(d), Len(sent[d])) /\ consumed[e] <= produced[e]
  BY DEF Stream
<1>3. consumed[e] \in Nat /\ produced[e] \in Nat
  BY DEF TypeOK
<1>4. CASE KernelRecv(e)
  <2>1. task[e] \in {"decode", "read"} /\ op[e] = "posted" /\ sent' = sent
    BY <1>4 DEF KernelRecv, wire
  <2>2. consumed'[e] <= produced'[e] /\ op'[e] = "complete"
        /\ \/ consumed'[e] = consumed[e] /\ cqe'[e] \in {0, -1}
           \/ consumed'[e] = consumed[e] + cqe'[e] /\ cqe'[e] > 0 /\ cqe'[e] \in Nat
    <3> DEFINE most == IF e = "target" /\ mode = "udp"
                         THEN Min2(1, produced[e] - consumed[e])
                         ELSE produced[e] - consumed[e]
    <3>1. most \in Int /\ most <= produced[e] - consumed[e]
      BY <1>3 DEF Min2
    <3>2. CASE consumed' = consumed /\ (Complete(e, 0) \/ Complete(e, -1))
      BY <1>1, <1>2, <3>2, CompleteEffect
    <3>3. ASSUME NEW n \in 1 .. most, Complete(e, n),
                 consumed' = [consumed EXCEPT ![e] = @ + n]
          PROVE  /\ consumed'[e] <= produced'[e] /\ op'[e] = "complete"
                 /\ consumed'[e] = consumed[e] + cqe'[e]
                 /\ cqe'[e] > 0 /\ cqe'[e] \in Nat
      <4>1. consumed'[e] = consumed[e] + n
        BY <3>3 DEF TypeOK
      <4>2. cqe'[e] = n /\ op'[e] = "complete"
        BY <3>3, CompleteEffect
      <4>3. n \in Nat /\ n > 0 /\ n <= produced[e] - consumed[e]
        BY <1>3, <3>1, <3>3
      <4>4. QED
        BY <1>1, <1>3, <4>1, <4>2, <4>3
    <3>4. QED
      BY <1>4, <3>2, <3>3 DEF KernelRecv, wire
  <2>3. CASE task[e] = "decode"
    BY <1>1, <2>1, <2>2, <2>3, StreamIdle DEF Early
  <2>4. CASE task[e] = "read"
    <3>1. Gone(d) \/ NextFor(d) = consumed[e] + 1
      BY <2>1, <2>4 DEF Stream
    <3>2. cqe'[e] <= consumed'[e]
      BY <1>3, <2>2
    <3>3. cqe'[e] > 0 => Gone(d) \/ NextFor(d) + cqe'[e] = consumed'[e] + 1
      BY <1>3, <2>2, <3>1
    <3>4. ~(cqe'[e] > 0) => consumed'[e] = consumed[e]
      BY <2>2
    <3>5. cqe'[e] \in Int
      BY <2>2
    <3>6. ~(cqe'[e] > 0) <=> cqe'[e] <= 0
      BY <3>5
    <3>7. cqe'[e] <= 0 => Gone(d) \/ NextFor(d) = consumed'[e] + 1
      BY <3>1, <3>4, <3>6
    <3>8. NextFor(d)' = NextFor(d)
      BY <2>1 DEF NextFor
    <3>9. QED
      BY <1>1, <1>2, <2>1, <2>2, <2>4, <3>2, <3>3, <3>7, <3>8 DEF Stream
  <2>5. QED
    BY <2>1, <2>3, <2>4
<1>5. CASE KernelSend(e)
  BY <1>5, StreamSend
<1>6. CASE KernelShut(e)
  <2>1. task[e] = "shut" /\ UNCHANGED <<consumed, sent>>
    BY <1>6 DEF KernelShut, wire
  <2>2. NextFor(d)' = NextFor(d)
    BY <2>1 DEF NextFor
  <2>3. started => Gone(d) \/ NextFor(d) = consumed[e] + 1
    BY <2>1 DEF Stream
  <2>4. QED
    BY <1>1, <1>2, <2>1, <2>2, <2>3 DEF Stream
<1>7. CASE e = "client" /\ (KernelTls \/ KernelConnect \/ KernelRespond)
  <2>1. task[e] \in Early /\ consumed' = consumed /\ sent'[d] = sent[d]
    <3>1. task[e] \in Early /\ consumed' = consumed
      BY <1>7 DEF KernelTls, KernelConnect, KernelRespond, wire, Early
    <3>2. sent' = sent \/ sent' = [sent EXCEPT !["client"] = Append(@, 0)]
      BY <1>7 DEF KernelTls, KernelConnect, KernelRespond, wire
    <3>3. d \in Ends /\ d # "client"
      BY <1>7, OtherEnd
    <3>4. QED
      BY <3>1, <3>2, <3>3 DEF TypeOK
  <2>2. QED
    BY <1>1, <1>2, <2>1, StreamIdle
<1>8. QED
  BY <1>4, <1>5, <1>6, <1>7 DEF Kernel

\* Every step keeps what is known of a stream.
LEMMA StreamStep ==
  ASSUME TypeOK, TypeOK', Control, Shutdowns, Prologue, NEW e \in Ends, Stream(e),
         [Next]_vars
  PROVE  Stream(e)'
<1> USE DEF flags, sockets, peers, wire, coroutines
<1>1. Gone(Other(e)) => Gone(Other(e))'
  BY OtherEnd, FlagsRise DEF Gone
<1>2. consumed[e] <= produced[e] /\ consumed[e] \in Nat /\ produced[e] \in Nat
  BY DEF Stream, TypeOK
<1>3. CASE UNCHANGED <<sent, consumed, produced, task, op, cqe, held, started>>
  BY <1>1, <1>2, <1>3, StreamFrame
<1>4. CASE Start
  <2>1. /\ Suspend("client", IF tls THEN "tls" ELSE "decode")
        /\ UNCHANGED <<sent, consumed, produced, held, started>>
    BY <1>4 DEF Start
  <2>2. /\ task'["client"] \in {"tls", "decode"}
        /\ task'["target"] = task["target"] /\ op'["target"] = op["target"]
        /\ cqe'["target"] = cqe["target"]
    BY <2>1, EndsType, SuspendEffect
  <2>3. CASE e = "client"
    BY <1>2, <2>1, <2>2, <2>3, StreamIdle DEF Early
  <2>4. CASE e = "target"
    BY <1>1, <1>2, <2>1, <2>2, <2>4, StreamFrame
  <2>5. QED
    BY <2>3, <2>4 DEF Ends
<1>5. CASE Reclaim
  BY <1>3, <1>5 DEF Reclaim
<1>6. ASSUME NEW o \in Ends, Resume(o)
      PROVE  Stream(e)'
  <2>1. CASE Finish(o)
    <3>1. CASE o = e
      BY <1>1, <1>6, <2>1, <3>1, StreamFinish
    <3>2. CASE o # e
      <4>1. task[o] # "none"
        BY <1>6 DEF Resume, OnRead, OnWrite, OnShut, OnTls, OnDecode, OnRespond,
                    OnConnect, Dispatched
      <4>2. Return(o) /\ UNCHANGED <<started, produced, consumed, sent>>
        BY <2>1, <4>1, FinishEffect
      <4>3. /\ task'[e] = task[e] /\ op'[e] = op[e]
            /\ cqe'[e] = cqe[e] /\ held'[e] = held[e]
        BY <3>2, <4>2, ReturnEffect
      <4>4. QED
        BY <1>1, <1>2, <4>2, <4>3, StreamFrame
    <3>3. QED
      BY <3>1, <3>2
  <2>2. CASE o = "client" /\ OnConnect /\ ~FinishClient
    BY <2>2, StreamConnect
  <2>3. ASSUME ~Finish(o), NEW pc, Suspend(o, pc),
               \A x \in Ends : x # o => held'[x] = held[x],
               UNCHANGED <<started, produced, consumed, sent>>,
               ~(o = "client" /\ OnConnect)
        PROVE  Stream(e)'
    <3>1. CASE o # e
      <4>1. task'[e] = task[e] /\ op'[e] = op[e] /\ cqe'[e] = cqe[e]
        BY <2>3, <3>1, SuspendEffect
      <4>2. QED
        BY <1>1, <1>2, <2>3, <3>1, <4>1, StreamFrame
    <3>2. CASE o = e /\ (OnRead(o) \/ OnWrite(o))
      BY <1>1, <2>3, <3>2, StreamRelay
    <3>3. CASE o = e /\ o = "client" /\ (OnTls \/ OnDecode \/ OnRespond)
      <4>1. ~FinishClient
        BY <2>3, <3>3 DEF Finish
      <4>2. \E x \in {"decode", "respond", "connect"} : Suspend("client", x)
        BY <3>3, <4>1 DEF OnTls, OnDecode, OnRespond
      <4>3. task'["client"] \in {"decode", "respond", "connect"}
        BY <4>2, EndsType, SuspendEffect
      <4>4. QED
        BY <1>2, <2>3, <3>3, <4>3, StreamIdle DEF Early
    <3>4. QED
      BY <1>6, <2>3, <3>1, <3>2, <3>3 DEF Resume, OnShut
  <2>4. QED
    <3>1. CASE o = "client" /\ OnConnect
      BY <2>1, <2>2, <3>1 DEF Finish
    <3>2. QED
      BY <1>6, <2>1, <2>3, <3>1, ResumeEffect
<1>7. ASSUME NEW o \in Ends, Kernel(o)
      PROVE  Stream(e)'
  <2>1. CASE o = e
    BY <1>1, <1>7, <2>1, StreamKernel
  <2>2. CASE o # e
    <3>1. /\ UNCHANGED <<task, held, produced, started>>
          /\ \E r : Complete(o, r)
      BY <1>7 DEF Kernel, KernelRecv, KernelSend, KernelShut, KernelTls,
                  KernelRespond, KernelConnect, Complete
    <3>2. op'[e] = op[e] /\ cqe'[e] = cqe[e]
      BY <2>2, <3>1, CompleteEffect
    <3>3. consumed'[e] = consumed[e]
      BY <1>7, <2>2 DEF Kernel, KernelRecv, KernelSend, KernelShut, KernelTls,
                  KernelRespond, KernelConnect, TypeOK
    <3>4. Other(e) = o /\ Other(o) = e
      BY <2>2 DEF Ends, Other
    <3>5. CASE sent'[o] = sent[o]
      BY <1>1, <1>2, <3>1, <3>2, <3>3, <3>4, <3>5, StreamFrame
    <3>6. CASE KernelSend(o)
      <4>1. sent' = sent \/ \E s : sent' = [sent EXCEPT ![e] = s]
        BY <3>4, <3>6, SendEffect
      <4>2. QED
        BY <2>2, <3>5, <4>1 DEF TypeOK
    <3>7. CASE KernelRespond /\ o = "client"
      <4>1. task["client"] = "respond" /\ op["client"] = "posted"
        BY <3>7 DEF KernelRespond
      <4>2. sent["client"] = << >> /\ ~started /\ task[e] = "none" /\ e = "target"
        BY <2>2, <3>7, <4>1 DEF Prologue, Control, Early, Ends
      <4>3. sent'["client"] \in {<< >>, << 0 >>}
        <5>1. Append(<< >>, 0) = << 0 >>
          OBVIOUS
        <5>2. sent' = sent \/ sent' = [sent EXCEPT !["client"] = Append(@, 0)]
          BY <3>7 DEF KernelRespond
        <5>3. CASE sent' = sent
          BY <4>2, <5>3
        <5>4. CASE sent' = [sent EXCEPT !["client"] = Append(@, 0)]
          <6>1. sent'["client"] = Append(<< >>, 0)
            BY <4>2, <5>4, EndsType DEF TypeOK
          <6>2. QED
            BY <5>1, <6>1
        <5>5. QED
          BY <5>2, <5>3, <5>4
      <4>4. sent'["client"] = Run(First("client"), Len(sent'["client"]))
        <5>1. Run(0, 0) = << >> /\ Run(0, 1) = << 0 >>
          BY DEF Run
        <5>2. QED
          BY <4>3, <5>1 DEF First
      <4>5. task'[e] = "none" /\ ~started'
        BY <3>1, <4>2
      <4>6. consumed'[e] <= produced'[e]
        BY <1>2, <3>1, <3>3
      <4>7. QED
        BY <3>4, <3>7, <4>4, <4>5, <4>6 DEF Stream
    <3>8. QED
      BY <1>7, <3>5, <3>6, <3>7 DEF Kernel, KernelRecv, KernelShut, KernelTls, KernelConnect
  <2>3. QED
    BY <2>1, <2>2
<1>8. ASSUME NEW o \in Ends, Peer(o)
      PROVE  Stream(e)'
  <2>1. UNCHANGED <<sent, consumed, task, op, cqe, held, started>>
    BY <1>8 DEF Peer, PeerSend, PeerFin, PeerReset, PeerRead, Untouched
  <2>2. produced[e] <= produced'[e]
    <3>1. \/ produced' = produced
          \/ produced' = [produced EXCEPT ![o] = @ + 1]
      BY <1>8 DEF Peer, PeerSend, PeerFin, PeerReset, PeerRead
    <3>2. produced'[e] = produced[e] \/ produced'[e] = produced[e] + 1
      <4>1. produced \in [Ends -> Nat]
        BY DEF TypeOK
      <4>2. CASE produced' = produced
        BY <4>2
      <4>3. CASE produced' = [produced EXCEPT ![o] = @ + 1]
        <5>1. produced'[e] = IF e = o THEN produced[o] + 1 ELSE produced[e]
          BY <4>1, <4>3
        <5>2. QED
          BY <5>1
      <4>4. QED
        BY <3>1, <4>2, <4>3
    <3>3. QED
      BY <1>2, <3>2
  <2>3. QED
    BY <1>1, <2>1, <2>2, StreamFrame
<1>9. CASE UNCHANGED vars
  BY <1>3, <1>9 DEF vars
<1>10. QED
  BY <1>4, <1>5, <1>6, <1>7, <1>8, <1>9 DEF Next, Reclaimed

\* An exhausted stream stays so: nothing is received from a peer that has
\* finished, and what a peer sends after SHUT_RD is refused.
LEMMA ExhaustedStays ==
  ASSUME TypeOK, TypeOK', Control, NEW e \in Ends, Exhausted(e), [Next]_vars
  PROVE  Exhausted(e)'
<1> USE DEF flags, sockets, peers, wire, coroutines
<1>1. CASE reset[e]
  BY <1>1, FlagsRise DEF Exhausted
<1>2. CASE consumed[e] = produced[e] /\ (peerFin[e] \/ rdShut[e])
  <2>1. rdShut[e] => rdShut'[e]
    BY FlagsRise
  <2>2. CASE UNCHANGED <<consumed, produced, peerFin>>
    BY <1>2, <2>1, <2>2 DEF Exhausted
  <2>3. CASE Start
    BY <2>2, <2>3 DEF Start
  <2>4. CASE Reclaim
    BY <2>2, <2>4 DEF Reclaim
  <2>5. ASSUME NEW o \in Ends, Resume(o)
        PROVE  UNCHANGED <<consumed, produced, peerFin>>
    <3>1. CASE Finish(o)
      BY <3>1 DEF Finish, FinishClient, FinishTarget
    <3>2. CASE OnRead(o) \/ OnWrite(o) \/ OnShut(o)
      BY <3>1, <3>2 DEF OnRead, RelayChunk, PropagateEnd, UdpRelayEnds, OnWrite, OnShut
    <3>3. CASE o = "client" /\ (OnTls \/ OnDecode \/ OnRespond \/ OnConnect)
      BY <3>1, <3>3 DEF OnTls, OnDecode, OnRespond, OnConnect, Finish
    <3>4. QED
      BY <2>5, <3>2, <3>3 DEF Resume
  <2>6. ASSUME NEW o \in Ends, Kernel(o)
        PROVE  consumed'[e] = consumed[e] /\ UNCHANGED <<produced, peerFin>>
    <3>1. UNCHANGED <<produced, peerFin>>
      BY <2>6 DEF Kernel, KernelRecv, KernelSend, KernelShut, KernelTls,
                  KernelRespond, KernelConnect, Complete
    <3>2. CASE KernelRecv(o) /\ o = e
      <4>1. produced[e] - consumed[e] = 0
        BY <1>2 DEF TypeOK
      <4>2. 1 .. Min2(1, 0) = {} /\ 1 .. 0 = {}
        BY DEF Min2
      <4>3. QED
        BY <3>1, <3>2, <4>1, <4>2 DEF KernelRecv
    <3>3. CASE KernelRecv(o) /\ o # e
      BY <3>1, <3>3 DEF KernelRecv, TypeOK
    <3>4. CASE ~KernelRecv(o)
      BY <2>6, <3>1, <3>4 DEF Kernel, KernelSend, KernelShut, KernelTls,
                  KernelRespond, KernelConnect
    <3>5. QED
      BY <3>1, <3>2, <3>3, <3>4
  <2>7. ASSUME NEW o \in Ends, Peer(o)
        PROVE  /\ consumed' = consumed /\ produced'[e] = produced[e]
               /\ peerFin[e] => peerFin'[e]
    <3>1. CASE PeerSend(o) /\ o = e
      BY <1>2, <3>1 DEF PeerSend, CanSend, Untouched
    <3>2. CASE PeerSend(o) /\ o # e
      BY <3>2 DEF PeerSend, Untouched, TypeOK
    <3>3. CASE PeerFin(o)
      BY <3>3 DEF PeerFin, Untouched, TypeOK
    <3>4. CASE PeerReset(o) \/ PeerRead(o)
      BY <3>4 DEF PeerReset, PeerRead, Untouched
    <3>5. QED
      BY <2>7, <3>1, <3>2, <3>3, <3>4 DEF Peer
  <2>8. CASE UNCHANGED vars
    BY <2>2, <2>8 DEF vars
  <2>9. ASSUME NEW o \in Ends, Kernel(o) PROVE Exhausted(e)'
    BY <1>2, <2>1, <2>6, <2>9 DEF Exhausted
  <2>10. ASSUME NEW o \in Ends, Peer(o) PROVE Exhausted(e)'
    BY <1>2, <2>1, <2>7, <2>10 DEF Exhausted
  <2>11. QED
    BY <2>2, <2>3, <2>4, <2>5, <2>8, <2>9, <2>10 DEF Next, Reclaimed
<1>3. QED
  BY <1>1, <1>2 DEF Exhausted

\* A relay ends only at the end of its stream, or because its reader is gone.
LEMMA EndingStep ==
  ASSUME TypeOK, TypeOK', Control, NEW e \in Ends, Stream(e), Ending(e), [Next]_vars
  PROVE  Ending(e)'
<1> USE DEF flags, sockets, peers, wire, coroutines, Dispatched
<1>1. /\ Exhausted(e) => Exhausted(e)'
      /\ Gone(Other(e)) => Gone(Other(e))'
  BY ExhaustedStays, OtherEnd, FlagsRise DEF Gone
<1>2. CASE /\ task'[e] = task[e] /\ op'[e] = op[e] /\ cqe'[e] = cqe[e]
           /\ started' = started
  BY <1>1, <1>2 DEF Ending
<1>3. CASE \/ task'[e] \notin {"read", "shut", "done"}
           \/ task'[e] = "read" /\ op'[e] = "posted"
  BY <1>3 DEF Ending
<1>4. CASE Start
  <2>1. /\ task'["client"] \in {"tls", "decode"}
        /\ task'["target"] = task["target"] /\ op'["target"] = op["target"]
        /\ cqe'["target"] = cqe["target"] /\ started' = started
    BY <1>4, EndsType, SuspendEffect DEF Start
  <2>2. QED
    BY <1>2, <1>3, <2>1 DEF Ends
<1>5. CASE UNCHANGED <<task, op, cqe, started>>
  BY <1>2, <1>5
<1>6. ASSUME NEW o \in Ends, Resume(o), o # e
      PROVE  Ending(e)'
  <2>1. CASE Finish(o)
    <3>1. task[o] # "none"
      BY <1>6 DEF Resume, OnRead, OnWrite, OnShut, OnTls, OnDecode, OnRespond, OnConnect
    <3>2. Return(o) /\ started' = started
      BY <2>1, <3>1, FinishEffect
    <3>3. QED
      BY <1>2, <1>6, <3>2, ReturnEffect
  <2>2. CASE OnConnect /\ ~FinishClient
    <3>1. task'[e] \in {"read", "write"} /\ op'[e] = "posted"
      BY <2>2 DEF OnConnect, ForwardOrRead
    <3>2. QED
      BY <1>3, <3>1
  <2>3. ASSUME NEW pc, Suspend(o, pc), UNCHANGED started
        PROVE  Ending(e)'
    BY <1>2, <1>6, <2>3, SuspendEffect
  <2>4. QED
    BY <1>6, <2>1, <2>2, <2>3, ResumeEffect
<1>7. CASE Resume(e)
  <2>1. CASE OnConnect /\ ~FinishClient
    <3>1. task'[e] \in {"read", "write"} /\ op'[e] = "posted"
      BY <2>1 DEF OnConnect, ForwardOrRead
    <3>2. QED
      BY <1>3, <3>1
  <2>2. CASE Finish(e)
    <3>1. task[e] # "none"
      BY <1>7 DEF Resume, OnRead, OnWrite, OnShut, OnTls, OnDecode, OnRespond, OnConnect
    <3>2. task'[e] = "done" /\ started' = started
      BY <2>2, <3>1, FinishEffect, ReturnEffect
    <3>3. CASE OnRead(e)
      <4>1. task[e] = "read" /\ op[e] = "complete" /\ cqe[e] <= 0
        <5>1. Suspend(e, "write") \/ Suspend(e, "shut") => task'[e] # "done"
          BY SuspendEffect
        <5>2. QED
          BY <3>2, <3>3, <5>1 DEF OnRead, RelayChunk, PropagateEnd, UdpRelayEnds
      <4>2. QED
        BY <1>1, <3>2, <4>1 DEF Ending
    <3>4. CASE OnWrite(e)
      <4>1. task[e] = "write" /\ op[e] = "complete" /\ cqe[e] <= 0
        <5>1. Suspend(e, "write") \/ Suspend(e, "read") => task'[e] # "done"
          BY SuspendEffect
        <5>2. QED
          BY <3>2, <3>4, <5>1 DEF OnWrite
      <4>2. QED
        BY <1>1, <3>2, <4>1 DEF Ending, Stream
    <3>5. CASE OnShut(e)
      BY <1>1, <3>2, <3>5 DEF OnShut, Ending
    <3>6. CASE e = "client" /\ (OnTls \/ OnDecode \/ OnRespond \/ OnConnect)
      <4>1. ~started
        BY <3>6 DEF OnTls, OnDecode, OnRespond, OnConnect, Control, Early
      <4>2. QED
        BY <3>2, <4>1 DEF Ending
    <3>7. QED
      BY <1>7, <3>3, <3>4, <3>5, <3>6 DEF Resume
  <2>3. CASE OnRead(e) /\ ~Finish(e)
    <3>1. CASE Suspend(e, "write")
      BY <1>3, <3>1, SuspendEffect
    <3>2. CASE Suspend(e, "shut") /\ cqe[e] <= 0
      <4>1. task'[e] = "shut" /\ Exhausted(e)
        BY <2>3, <3>2, SuspendEffect DEF OnRead, Ending
      <4>2. QED
        BY <1>1, <4>1 DEF Ending
    <3>3. QED
      BY <2>3, <3>1, <3>2 DEF OnRead, RelayChunk, PropagateEnd, UdpRelayEnds
  <2>4. CASE OnWrite(e) /\ ~Finish(e)
    <3>1. Suspend(e, "write") \/ Suspend(e, "read")
      BY <2>4 DEF OnWrite
    <3>2. QED
      BY <1>3, <3>1, SuspendEffect
  <2>5. CASE e = "client" /\ (OnTls \/ OnDecode \/ OnRespond) /\ ~Finish(e)
    <3>1. Suspend(e, "decode") \/ Suspend(e, "respond") \/ Suspend(e, "connect")
      BY <2>5 DEF OnTls, OnDecode, OnRespond, Finish
    <3>2. QED
      BY <1>3, <3>1, SuspendEffect
  <2>6. QED
    BY <1>7, <2>1, <2>2, <2>3, <2>4, <2>5 DEF Resume, OnShut, Finish
<1>8. ASSUME NEW o \in Ends, Kernel(o)
      PROVE  Ending(e)'
  <2>1. UNCHANGED <<task, started>> /\ \E r : Complete(o, r)
    BY <1>8 DEF Kernel, KernelRecv, KernelSend, KernelShut, KernelTls,
                KernelRespond, KernelConnect, Complete
  <2>2. CASE o # e
    BY <1>2, <2>1, <2>2, CompleteEffect
  <2>3. CASE o = e /\ task[e] # "read"
    BY <1>1, <2>1, <2>3 DEF Ending
  <2>4. CASE o = e /\ task[e] = "read"
    <3>1. KernelRecv(e)
      BY <1>8, <2>4 DEF Kernel, KernelSend, KernelShut, KernelTls, KernelRespond,
                        KernelConnect
    <3>2. cqe'[e] > 0 \/ Exhausted(e)
      <4>1. CASE /\ produced[e] - consumed[e] = 0
                 /\ peerFin[e] \/ rdShut[e] \/ reset[e]
        <5>1. produced[e] \in Nat /\ consumed[e] \in Nat
          BY DEF TypeOK
        <5>2. consumed[e] = produced[e]
          BY <4>1, <5>1
        <5>3. QED
          BY <4>1, <5>2 DEF Exhausted
      <4>2. ASSUME NEW m, NEW n \in 1 .. m, Complete(e, n)
            PROVE  cqe'[e] > 0
        BY <4>2, CompleteEffect
      <4>3. QED
        BY <3>1, <4>1, <4>2 DEF KernelRecv
    <3>3. task'[e] = "read" /\ cqe'[e] \in Int
      BY <2>1, <2>4 DEF TypeOK
    <3>4. QED
      BY <1>1, <3>2, <3>3 DEF Ending
  <2>5. QED
    BY <2>2, <2>3, <2>4
<1>9. QED
  <2>1. CASE Reclaim
    BY <1>5, <2>1 DEF Reclaim
  <2>2. ASSUME NEW o \in Ends, Peer(o) PROVE Ending(e)'
    BY <1>5, <2>2 DEF Peer, PeerSend, PeerFin, PeerReset, PeerRead, Untouched
  <2>3. CASE UNCHANGED vars
    BY <1>5, <2>3 DEF vars
  <2>4. QED
    BY <1>4, <1>6, <1>7, <1>8, <2>1, <2>2, <2>3 DEF Next, Reclaimed

\* The inductive invariant holds throughout: at every point of every run the
\* bytes of each stream are where the program counters say they are.
THEOREM StreamsAccountedFor == Spec => []IInv
<1>1. Init => IInv
  <2>1. SUFFICES ASSUME Init PROVE IInv
    OBVIOUS
  <2>2. TypeOK /\ Control
    BY <2>1, TypeInit DEF Init, Ends, Control, Early
  <2>3. Shutdowns /\ Prologue
    BY <2>1, OtherEnd DEF Init, Shutdowns, Prologue, Ends
  <2>4. ASSUME NEW e \in Ends PROVE Stream(e)
    <3>1. Run(First(Other(e)), 0) = << >>
      BY DEF Run
    <3>2. sent[Other(e)] = << >>
      BY <2>1, OtherEnd DEF Init
    <3>3. /\ ~started /\ task[e] \in {"created", "none"}
          /\ consumed[e] = 0 /\ produced[e] = 0
      BY <2>1 DEF Init
    <3>4. QED
      BY <3>1, <3>2, <3>3 DEF Stream
  <2>5. ASSUME NEW e \in Ends PROVE Ending(e)
    BY <2>1 DEF Init, Ending
  <2>6. QED
    BY <2>2, <2>3, <2>4, <2>5 DEF IInv
<1>2. IInv /\ [Next]_vars => IInv'
  <2>1. SUFFICES ASSUME IInv, [Next]_vars PROVE IInv'
    OBVIOUS
  <2>2. TypeOK'
    BY <2>1, TypeInductive DEF IInv
  <2>3. Control'
    BY <2>1, ControlInductive DEF IInv
  <2>4. Shutdowns'
    BY <2>1, <2>2, ShutdownsStep DEF IInv
  <2>5. Prologue'
    BY <2>1, <2>2, <2>3, PrologueStep DEF IInv
  <2>6. ASSUME NEW e \in Ends PROVE Stream(e)'
    BY <2>1, <2>2, StreamStep DEF IInv
  <2>7. ASSUME NEW e \in Ends PROVE Ending(e)'
    BY <2>1, <2>2, EndingStep DEF IInv
  <2>8. QED
    BY <2>2, <2>3, <2>4, <2>5, <2>6, <2>7 DEF IInv
<1>3. QED
  BY <1>1, <1>2, PTL DEF Spec

\* An end that has been half-closed in order has got all that was received for
\* it: shutdownWrite() comes after the last write (vless_connection_client_task.cpp,
\* vless_connection_target_task.cpp).
THEOREM HalfCloseIsComplete == Spec => []OrderlyFinIsComplete
<1>1. IInv => OrderlyFinIsComplete
  <2>1. SUFFICES ASSUME IInv, NEW d \in Ends, wrShut[d], ~rdShut[d], ~reset[d]
                 PROVE  First(d) + Len(sent[d]) = consumed[Other(d)] + 1
    BY DEF OrderlyFinIsComplete
  <2> DEFINE e == Other(d)
  <2>2. e \in Ends /\ Other(e) = d
    BY OtherEnd
  <2>3. task[e] \in {"done", "shut"}
    BY <2>1, <2>2 DEF IInv, Shutdowns
  <2>4. started
    BY <2>1 DEF IInv, Prologue
  <2>5. Gone(d) \/ NextFor(d) = consumed[e] + 1
    BY <2>1, <2>2, <2>3, <2>4 DEF IInv, Stream
  <2>6. QED
    BY <2>1, <2>5 DEF Gone, NextFor
<1>2. QED
  BY <1>1, StreamsAccountedFor, PTL

\* If neither peer resets, a relayed session that has ended has delivered every
\* byte its sockets accepted: both relays ran to the end of their streams before
\* closed_ was set, whichever of them finished first.
THEOREM NoByteIsLost == Spec => []NothingLost
<1>1. IInv => NothingLost
  <2>1. SUFFICES ASSUME IInv, closed, started, \A x \in Ends : ~reset[x],
                        NEW e \in Ends
                 PROVE  First(Other(e)) + Len(sent[Other(e)]) = produced[e] + 1
    BY DEF NothingLost
  <2>2. task[e] = "done"
    BY <2>1 DEF IInv, Control, Ends
  <2>3. ~reset[e] /\ ~Gone(Other(e))
    BY <2>1, OtherEnd DEF Gone
  <2>4. consumed[e] = produced[e]
    BY <2>1, <2>2, <2>3 DEF IInv, Ending, Exhausted
  <2>5. NextFor(Other(e)) = consumed[e] + 1
    BY <2>1, <2>2, <2>3 DEF IInv, Stream
  <2>6. QED
    BY <2>4, <2>5 DEF NextFor
<1>2. QED
  BY <1>1, StreamsAccountedFor, PTL

-----------------------------------------------------------------------------
(* The connection keeps the promise of a session.                           *)

\* The destructor closes both sockets, so that a destroyed connection hears
\* nothing more.
SocketsClosed == ~live => \A e \in Ends : fd[e] # "open"

\* A step after which the sockets are open was a step of a live connection.
LEMMA SocketsClosedStep ==
  ASSUME TypeOK, Control, Control', SocketsClosed, [Next]_vars
  PROVE  SocketsClosed'
<1> USE DEF flags, sockets, coroutines
<1>1. CASE Reclaim
  BY <1>1 DEF Reclaim, SocketsClosed, TypeOK
<1>2. CASE UNCHANGED <<live, fd>>
  BY <1>2 DEF SocketsClosed
<1>3. CASE live'
  BY <1>3 DEF SocketsClosed
<1>4. ASSUME NEW e \in Ends, Resume(e)
      PROVE  SocketsClosed'
  <2>1. CASE Finish(e)
    BY <1>2, <2>1 DEF Finish, FinishClient, FinishTarget
  <2>2. CASE OnConnect /\ ~FinishClient
    <3>1. task["client"] = "connect" /\ live' = live
      BY <2>2 DEF OnConnect, Dispatched
    <3>2. QED
      BY <1>3, <3>1, EndsType DEF Control
  <2>3. CASE ~Finish(e) /\ ~(OnConnect /\ ~FinishClient)
    BY <1>2, <1>4, <2>3 DEF Resume, OnRead, RelayChunk, PropagateEnd, UdpRelayEnds, OnWrite,
                           OnShut, OnTls, OnDecode, OnRespond, OnConnect, Finish
  <2>4. QED
    BY <2>1, <2>2, <2>3
<1>5. ASSUME NEW e \in Ends, Kernel(e)
      PROVE  SocketsClosed'
  BY <1>2, <1>5 DEF Kernel, KernelRecv, KernelSend, KernelShut, KernelTls,
                    KernelRespond, KernelConnect, Complete
<1>6. ASSUME NEW e \in Ends, Peer(e)
      PROVE  SocketsClosed'
  BY <1>2, <1>6 DEF Peer, PeerSend, PeerFin, PeerReset, PeerRead, Untouched
<1>7. CASE Start
  BY <1>2, <1>7 DEF Start
<1>8. QED
  BY <1>1, <1>2, <1>4, <1>5, <1>6, <1>7 DEF Next, Reclaimed, vars

\* A step that neither offers, delivers nor destroys is not seen by the session.
LEMMA Unseen ==
  ASSUME UNCHANGED <<produced, sent, live>>
  PROVE  [Pipe!PipeNext]_Pipe!pipeVars
BY DEF Pipe!pipeVars

\* A connection whose coroutine e waits for the kernel has not been destroyed.
LEMMA WaitingIsLive ==
  ASSUME TypeOK, Control, NEW e \in Ends, op[e] = "posted"
  PROVE  live
BY DEF Control, Ends, TypeOK, PCs

\* Every completion delivers the next bytes of a stream, or is not seen.
LEMMA KernelDelivers ==
  ASSUME IInv, NEW e \in Ends, Kernel(e)
  PROVE  [Pipe!PipeNext]_Pipe!pipeVars
<1> USE DEF peers, flags, wire
<1>1. live /\ op[e] = "posted"
  <2>1. op[e] = "posted"
    BY DEF Kernel, KernelRecv, KernelSend, KernelShut, KernelTls, KernelRespond, KernelConnect
  <2>2. QED
    BY <2>1, WaitingIsLive DEF IInv
<1>2. UNCHANGED <<produced, live>>
  BY DEF Kernel, KernelRecv, KernelSend, KernelShut, KernelTls, KernelRespond,
         KernelConnect, Complete
<1>3. CASE sent' = sent
  BY <1>2, <1>3, Unseen
<1>4. ASSUME NEW d \in Ends, NEW n \in 1 .. produced[Other(d)] - NextFor(d) + 1,
             d = "target" => sent["client"] # << >>,
             sent' = [sent EXCEPT ![d] = @ \o Run(NextFor(d), n)]
      PROVE  Pipe!PipeNext
  <2>1. Pipe!Start(d) + Len(sent[d]) = NextFor(d) /\ Pipe!Opposite(d) = Other(d)
        /\ d \in Pipe!PipeEnds
    BY DEF Pipe!Start, Pipe!Opposite, Pipe!PipeEnds, NextFor, First, Other, Ends
  <2>2. Pipe!Deliver(d)
    <3>1. Pipe!Run(NextFor(d), n) = Run(NextFor(d), n)
      BY DEF Pipe!Run, Run
    <3>2. sent' = [sent EXCEPT ![d] = @ \o Pipe!Run(NextFor(d), n)]
      BY <1>4, <3>1
    <3>3. QED
      BY <1>1, <1>2, <1>4, <2>1, <3>2 DEF Pipe!Deliver
  <2>3. QED
    BY <2>1, <2>2 DEF Pipe!PipeNext
<1>5. CASE KernelSend(e) /\ sent' # sent
  <2> DEFINE d == Other(e)
  <2>1. TypeOK /\ Control /\ Stream(e) /\ task[e] = "write"
    BY <1>5 DEF IInv, KernelSend
  <2>2. ~Gone(d)
    BY <1>5, <2>1, SendEffect DEF Gone
  <2>3. PICK n \in 1 .. Len(held[e]) :
          sent' = [sent EXCEPT ![d] = @ \o SubSeq(held[e], 1, n)]
    BY <1>5, <2>1, SendEffect
  <2>4. /\ SubSeq(held[e], 1, n) = Run(NextFor(d), n)
        /\ NextFor(d) + n <= consumed[e] + 1
    BY <1>1, <2>1, <2>2, BufferIsNext
  <2>5. consumed[e] <= produced[e] /\ d \in Ends /\ Other(d) = e
    BY <2>1, OtherEnd DEF Stream
  <2>6. n \in 1 .. produced[e] - NextFor(d) + 1
    <3>1. sent[d] \in Seq(Int) /\ held[e] \in Seq(Int)
      BY <2>1, <2>5 DEF TypeOK
    <3>2. NextFor(d) \in Int /\ Len(held[e]) \in Nat
      BY <3>1, LenProperties, ConnectionAssumption DEF First, NextFor
    <3>3. consumed[e] \in Nat /\ produced[e] \in Nat
      BY <2>1 DEF TypeOK
    <3>4. QED
      BY <2>3, <2>4, <2>5, <3>2, <3>3
  <2>7. sent["client"] # << >>
    BY <2>1 DEF IInv, Prologue, Control, Ends
  <2>8. QED
    BY <1>4, <2>3, <2>4, <2>5, <2>6, <2>7
<1>6. CASE KernelRespond /\ sent' # sent
  <2>1. TypeOK /\ sent["client"] = << >>
    BY <1>6 DEF IInv, Prologue, KernelRespond
  <2>2. NextFor("client") = 0
    BY <2>1 DEF NextFor, First
  <2>3. produced["target"] \in Nat /\ Other("client") = "target" /\ Other("target") = "client"
    BY <2>1, EndsType DEF TypeOK, Other
  <2>4. << >> \o Run(0, 1) = << 0 >> /\ Append(<< >>, 0) = << 0 >>
    BY DEF Run
  <2>5. sent' = [sent EXCEPT !["client"] = Append(@, 0)]
    BY <1>6 DEF KernelRespond
  <2>6. sent["client"] \o Run(NextFor("client"), 1) = Append(sent["client"], 0)
    BY <2>1, <2>2, <2>4
  <2>7. sent' = [sent EXCEPT !["client"] = @ \o Run(NextFor("client"), 1)]
    BY <2>5, <2>6
  <2>8. 1 \in 1 .. produced["target"] - 0 + 1
    BY <2>3
  <2>9. QED
    BY <1>4, <2>2, <2>3, <2>7, <2>8, EndsType
<1>7. QED
  BY <1>3, <1>5, <1>6 DEF Kernel, KernelRecv, KernelShut, KernelTls, KernelConnect

\* Every step of the connection is a step of the session, or is not seen.
LEMMA StepRefines ==
  ASSUME IInv, SocketsClosed, [Next]_vars
  PROVE  [Pipe!PipeNext]_Pipe!pipeVars
<1> USE DEF flags, sockets, peers, wire, coroutines
<1>1. CASE Start
  BY <1>1, Unseen DEF Start
<1>2. CASE Reclaim
  BY <1>2 DEF Reclaim, Pipe!PipeNext, Pipe!Close
<1>3. ASSUME NEW e \in Ends, Resume(e)
      PROVE  UNCHANGED <<produced, sent, live>>
  <2>1. CASE Finish(e)
    BY <2>1 DEF Finish, FinishClient, FinishTarget
  <2>2. CASE OnRead(e) \/ OnWrite(e) \/ OnShut(e)
    BY <2>1, <2>2 DEF OnRead, RelayChunk, PropagateEnd, UdpRelayEnds, OnWrite, OnShut
  <2>3. CASE e = "client" /\ (OnTls \/ OnDecode \/ OnRespond \/ OnConnect)
    BY <2>1, <2>3 DEF OnTls, OnDecode, OnRespond, OnConnect, Finish
  <2>4. QED
    BY <1>3, <2>2, <2>3 DEF Resume
<1>4. ASSUME NEW e \in Ends, Peer(e)
      PROVE  [Pipe!PipeNext]_Pipe!pipeVars
  <2>1. CASE produced' = produced
    BY <1>4, <2>1, Unseen DEF Peer, PeerSend, PeerFin, PeerReset, PeerRead, Untouched
  <2>2. CASE produced' # produced
    <3>1. /\ fd[e] = "open" /\ produced' = [produced EXCEPT ![e] = @ + 1]
          /\ UNCHANGED <<sent, live>>
      BY <1>4, <2>2 DEF Peer, PeerSend, PeerFin, PeerReset, PeerRead, Untouched, CanSend
    <3>2. live
      BY <3>1 DEF SocketsClosed
    <3>3. Pipe!Offer(e) /\ e \in Pipe!PipeEnds
      BY <3>1, <3>2 DEF Pipe!Offer, Pipe!PipeEnds, Ends
    <3>4. QED
      BY <3>3 DEF Pipe!PipeNext
  <2>3. QED
    BY <2>1, <2>2
<1>5. CASE UNCHANGED vars
  BY <1>5, Unseen DEF vars
<1>6. QED
  BY <1>1, <1>2, <1>3, <1>4, <1>5, Unseen, KernelDelivers DEF Next, Reclaimed

\* The connection implements the promise of a session: each peer gets a
\* contiguous stream, in order, without loss, repetition or invention, the client
\* its response first, and nothing once the connection is gone.
THEOREM ConnectionImplementsPipe == Spec => ImplementsPipe
<1>1. Init => Pipe!PipeInit
  BY DEF Init, Pipe!PipeInit, Pipe!PipeEnds, Ends
<1>2. Init => SocketsClosed
  BY DEF Init, SocketsClosed
<1>3. IInv /\ IInv' /\ SocketsClosed /\ [Next]_vars => SocketsClosed'
  BY SocketsClosedStep DEF IInv
<1>4. IInv /\ SocketsClosed /\ [Next]_vars => [Pipe!PipeNext]_Pipe!pipeVars
  BY StepRefines
<1>5. QED
  BY <1>1, <1>2, <1>3, <1>4, StreamsAccountedFor, PTL
     DEF Spec, ImplementsPipe, Pipe!PipeSpec
=============================================================================
