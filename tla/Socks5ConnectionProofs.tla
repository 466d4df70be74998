----------------------- MODULE Socks5ConnectionProofs -----------------------
(***************************************************************************)
(* Theorems about Socks5Connection, for all lengths of the handshakes, all  *)
(* buffer sizes and numbers of bytes sent.                                  *)
(***************************************************************************)
EXTENDS Socks5Connection, SequenceTheorems, TLAPS

\* Where clientTask stands while it has no socket but the application's, while
\* vlessConnectAndHandshake() has one of its own, and while it relays.
Asking   == {"created", "greeting", "refuse", "accept", "request"}
Building == {"connect", "tls", "header", "response"}
Relaying == {"read", "write", "shut"}

\* How the flags, the program counters and the operations move together.
Control ==
  /\ task["remote"] \in Relaying \cup {"none", "done"}
  /\ task["app"] # "none"
  /\ started <=> task["remote"] # "none"
  /\ task["app"] \in Relaying => started
  /\ task["app"] \in Asking \cup Building \cup {"reply", "remaining", "control"}
       => ~started
  /\ \A e \in Ends : readDone[e] <=> task[e] = "done"
  /\ \A e \in Ends : op[e] = "none" <=> task[e] \in {"none", "created", "done"}
  /\ closed => readDone["app"] /\ (started => readDone["remote"])
  /\ ~live => closed

\* The connection has the socket of the tunnel, or there is none to close.
NoTunnel == fd["remote"] \in {"none", "closed"}

\* Who has to close which socket.
Sockets ==
  /\ live => fd["app"] = "open"
  /\ started => remoteFd
  /\ task["app"] \in Asking => NoTunnel /\ udp = "none"
  /\ task["app"] \in Building => udp = "none" /\ mode = "tcp"
  /\ task["app"] = "reply" =>
       \/ reply = "failed" /\ NoTunnel /\ udp = "none"
       \/ reply = "ok" /\ mode = "tcp" /\ remoteFd /\ udp = "none"
       \/ reply = "ok" /\ mode = "udp" /\ NoTunnel /\ udp = "bound"
  /\ task["app"] \in Relaying \cup {"remaining"} => remoteFd /\ udp = "none"
  /\ task["app"] = "control" => NoTunnel /\ udp \in {"relay", "broken"}
  /\ task["app"] = "done" => (remoteFd \/ NoTunnel) /\ udp \in {"none", "closed", "broken"}
  /\ ~live => fd["app"] = "closed" /\ NoTunnel

Inv == TypeOK /\ Control /\ Sockets

-----------------------------------------------------------------------------
(* Runs of consecutive bytes.                                               *)

\* A run is a sequence of integers of the stated length.
LEMMA RunType ==
  ASSUME NEW f \in Int, NEW n \in Nat
  PROVE  /\ Run(f, n) \in Seq(Int)
         /\ Len(Run(f, n)) = n
         /\ \A i \in 1 .. n : Run(f, n)[i] = f + i - 1
BY DEF Run

\* Two adjacent runs make one: this is what writeFull relies on when it sends a
\* buffer in several pieces.
LEMMA RunConcat ==
  ASSUME NEW f \in Int, NEW n \in Nat, NEW m \in Nat
  PROVE  Run(f, n) \o Run(f + n, m) = Run(f, n + m)
BY DEF Run

\* The first k bytes of a run.
LEMMA RunPrefix ==
  ASSUME NEW f \in Int, NEW n \in Nat, NEW k \in 0 .. n
  PROVE  SubSeq(Run(f, n), 1, k) = Run(f, k)
BY DEF Run

\* What is left of a run after its first k bytes.
LEMMA RunSuffix ==
  ASSUME NEW f \in Int, NEW n \in Nat, NEW k \in 0 .. n
  PROVE  SubSeq(Run(f, n), k + 1, n) = Run(f + k, n - k)
BY DEF Run

-----------------------------------------------------------------------------
(* Type correctness.                                                        *)

\* Changing one value of a function within its range keeps its type.
LEMMA ExceptType ==
  ASSUME NEW S, NEW T, NEW f \in [S -> T], NEW x, NEW v \in T
  PROVE  [f EXCEPT ![x] = v] \in [S -> T]
OBVIOUS

\* The variables of the two coroutines, in three groups.
TaskTypes ==
  /\ task \in [Ends -> PCs]
  /\ op \in [Ends -> {"none", "posted", "complete"}]
  /\ cqe \in [Ends -> Int]

BufferTypes ==
  /\ held \in [Ends -> Seq(Int)]
  /\ partial \in [Ends -> BOOLEAN]
  /\ readDone \in [Ends -> BOOLEAN]

ShutTypes ==
  /\ rdShut \in [Ends -> BOOLEAN]
  /\ wrShut \in [Ends -> BOOLEAN]

FdType == fd \in [Ends -> {"none", "unconnected", "open", "closed"}]

\* The two ends.
LEMMA EndsType ==
  /\ "app" \in Ends /\ "remote" \in Ends
  /\ \A e \in Ends : Other(e) \in Ends
BY DEF Ends, Other

\* A suspension keeps the types of the coroutine variables.
LEMMA SuspendType ==
  ASSUME TypeOK, NEW e \in Ends, NEW pc \in PCs, Suspend(e, pc)
  PROVE  TaskTypes'
BY ExceptType, 0 \in Int DEF Suspend, TypeOK, TaskTypes

\* The end of a coroutine keeps the types of what it resets.
LEMMA ReturnType ==
  ASSUME TypeOK, NEW e \in Ends, Return(e)
  PROVE  TaskTypes' /\ BufferTypes'
BY ExceptType, 0 \in Int, << >> \in Seq(Int), "done" \in PCs
   DEF Return, TypeOK, PCs, TaskTypes, BufferTypes

\* A completion keeps the types of the coroutine variables.
LEMMA CompleteType ==
  ASSUME TypeOK, NEW e \in Ends, NEW r \in Int, Complete(e, r)
  PROVE  TaskTypes'
BY ExceptType DEF Complete, TypeOK, TaskTypes

\* ::shutdown(), or none, keeps the types of the socket flags.
LEMMA ShutdownType ==
  ASSUME TypeOK, NEW e \in Ends, ShutdownBoth(e) \/ KeepOpen
  PROVE  ShutTypes'
BY DEF ShutdownBoth, KeepOpen, TypeOK, ShutTypes

\* finishClientTask() keeps the types.
LEMMA FinishClientType ==
  ASSUME TypeOK, NEW u \in {"none", "bound", "relay", "broken", "closed"}, FinishClient(u)
  PROVE  TypeOK'
<1>1. ShutTypes'
  BY EndsType, ShutdownType DEF FinishClient
<1>2. TaskTypes' /\ BufferTypes'
  BY EndsType, ReturnType DEF FinishClient
<1>3. raw' \in {"none", "alive", "gone"} /\ closed' \in BOOLEAN
  BY DEF FinishClient, DropRaw, TypeOK
<1> QED
  BY <1>1, <1>2, <1>3
  DEF FinishClient, TypeOK, TaskTypes, BufferTypes, ShutTypes, choices, peers, wire

\* Both finishing paths do.
LEMMA FinishType ==
  ASSUME TypeOK, NEW e \in Ends, Finish(e)
  PROVE  TypeOK'
<1>1. CASE e = "app"
  BY <1>1, FinishClientType DEF Finish, TypeOK
<1>2. CASE e = "remote"
  <2>1. FinishRemote
    BY <1>2 DEF Finish
  <2>2. ShutTypes'
    BY <2>1, EndsType, ShutdownType DEF FinishRemote
  <2>3. TaskTypes' /\ BufferTypes'
    BY <2>1, EndsType, ReturnType DEF FinishRemote
  <2>4. closed' \in BOOLEAN
    BY <2>1 DEF FinishRemote, TypeOK
  <2> QED
    BY <2>1, <2>2, <2>3, <2>4
    DEF FinishRemote, TypeOK, TaskTypes, BufferTypes, ShutTypes, choices, peers, wire
<1> QED
  BY <1>1, <1>2 DEF Ends

\* Going on to the next step of a handshake does.
LEMMA ProceedType ==
  ASSUME TypeOK, NEW pc \in PCs, Proceed(pc)
  PROVE  TypeOK'
<1>1. TaskTypes'
  BY EndsType, SuspendType DEF Proceed
<1> QED
  BY <1>1 DEF Proceed, TypeOK, TaskTypes, choices, flags, sockets, peers, wire

\* So does a refusal.
LEMMA RefuseType ==
  ASSUME TypeOK, NEW m \in {"none", "tcp", "udp"}, RefuseRequest(m)
  PROVE  TypeOK'
<1>1. TaskTypes'
  BY EndsType, SuspendType DEF RefuseRequest, PCs
<1>2. FdType'
  BY DEF RefuseRequest, TypeOK, FdType
<1> QED
  BY <1>1, <1>2 DEF RefuseRequest, TypeOK, TaskTypes, FdType, choices, flags, peers, wire

\* So does every way to serve a request.
LEMMA ServeType ==
  ASSUME TypeOK, Serve
  PROVE  TypeOK'
<1>1. CASE BeginTunnel
  <2>1. TaskTypes'
    BY <1>1, EndsType, SuspendType DEF BeginTunnel, PCs
  <2>2. FdType'
    BY <1>1 DEF BeginTunnel, TypeOK, FdType
  <2> QED
    BY <1>1, <2>1, <2>2
    DEF BeginTunnel, TypeOK, TaskTypes, FdType, choices, flags, peers, wire
<1>2. CASE BindUdp
  <2>1. TaskTypes'
    BY <1>2, EndsType, SuspendType DEF BindUdp, PCs
  <2> QED
    BY <1>2, <2>1 DEF BindUdp, TypeOK, TaskTypes, choices, flags, peers, wire
<1> QED
  BY <1>1, <1>2, RefuseType DEF Serve

\* And the start of the relays.
LEMMA RelaysType ==
  ASSUME TypeOK, StartRelays
  PROVE  TypeOK'
<1>1. /\ task' \in [Ends -> PCs]
      /\ op' \in [Ends -> {"none", "posted", "complete"}]
      /\ cqe' \in [Ends -> Int]
      /\ held' \in [Ends -> Seq(Int)]
      /\ partial' \in [Ends -> BOOLEAN]
  BY DEF StartRelays, PCs
<1> QED
  BY <1>1 DEF StartRelays, TypeOK, choices, sockets, peers, wire

\* Every resumption in the handshakes keeps the types.
LEMMA HandshakeType ==
  ASSUME TypeOK, Handshake
  PROVE  TypeOK'
<1>f. ASSUME FinishClient(udp) \/ FinishClient("closed") \/ FinishClient(UdpAfterStop)
      PROVE  TypeOK'
  BY <1>f, FinishClientType DEF TypeOK, UdpAfterStop
<1>p. ASSUME NEW pc \in PCs, Proceed(pc) PROVE TypeOK'
  BY <1>p, ProceedType
<1>r. ASSUME RefuseRequest("tcp") PROVE TypeOK'
  BY <1>r, RefuseType
<1>1. CASE OnGreeting \/ OnRefuse
  BY <1>1, <1>f, <1>p DEF OnGreeting, OnRefuse, PCs
<1>2. CASE OnAccept \/ OnRequest
  BY <1>2, <1>f, <1>p, ServeType DEF OnAccept, OnRequest, PCs
<1>3. CASE OnConnect \/ OnTls \/ OnHeader
  BY <1>3, <1>p, <1>r DEF OnConnect, OnTls, OnHeader, PCs
<1>4. CASE OnResponse
  <2>1. CASE /\ Suspend("app", "reply") /\ consumed["remote"] >= RespLen
             /\ reply' = "ok" /\ remoteFd' = TRUE /\ raw' = "alive"
             /\ held' = [held EXCEPT !["remote"] = Remaining]
             /\ UNCHANGED <<choices, mode, partial, dangling, flags, fd, udp,
                            rdShut, wrShut, peers, wire>>
    <3>1. TaskTypes'
      BY <2>1, EndsType, SuspendType DEF PCs
    <3>2. consumed["remote"] \in Nat /\ RespLen \in Nat
      BY EndsType, Socks5Assumption DEF TypeOK
    <3>3. Remaining \in Seq(Int)
      <4>1. RespLen + 1 \in Int /\ consumed["remote"] - RespLen \in Nat
        BY <2>1, <3>2
      <4> QED
        BY <4>1, RunType DEF Remaining
    <3>4. held' \in [Ends -> Seq(Int)]
      BY <2>1, <3>3, ExceptType DEF TypeOK
    <3> QED
      BY <2>1, <3>1, <3>4 DEF TypeOK, TaskTypes, choices, flags, peers, wire
  <2> QED
    BY <1>4, <1>p, <1>r, <2>1 DEF OnResponse, PCs
<1>5. CASE OnReply
  <2>1. CASE StartUdpRelay
    <3>1. TaskTypes'
      BY <2>1, EndsType, SuspendType DEF StartUdpRelay, PCs
    <3> QED
      BY <2>1, <3>1 DEF StartUdpRelay, TypeOK, TaskTypes, choices, flags, peers, wire
  <2> QED
    BY <1>5, <1>f, <1>p, <2>1, RelaysType DEF OnReply, PCs
<1>6. CASE OnControl
  BY <1>6, <1>f, <1>p DEF OnControl, PCs
<1> QED
  BY <1>1, <1>2, <1>3, <1>4, <1>5, <1>6 DEF Handshake

\* Every resumption of coroutine e does.
LEMMA ResumeType ==
  ASSUME TypeOK, NEW e \in Ends, Resume(e)
  PROVE  TypeOK'
<1>1. CASE OnRead(e)
  <2>1. TaskTypes'
    BY <1>1, SuspendType DEF OnRead, PCs
  <2>2. held' \in [Ends -> Seq(Int)]
    <3>1. CASE cqe[e] > 0
      <4>1. consumed[e] \in Nat /\ cqe[e] \in Int
        BY DEF TypeOK
      <4>2. consumed[e] - cqe[e] + 1 \in Int /\ cqe[e] \in Nat
        BY <3>1, <4>1
      <4>3. Run(consumed[e] - cqe[e] + 1, cqe[e]) \in Seq(Int)
        BY <4>2, RunType
      <4>4. held' = [held EXCEPT ![e] = Run(consumed[e] - cqe[e] + 1, cqe[e])]
        BY <1>1, <3>1 DEF OnRead
      <4>5. held \in [Ends -> Seq(Int)]
        BY DEF TypeOK
      <4> QED
        BY <4>3, <4>4, <4>5, ExceptType
    <3>2. CASE ~(cqe[e] > 0)
      BY <1>1, <3>2 DEF OnRead, TypeOK
    <3> QED
      BY <3>1, <3>2
  <2>3. UNCHANGED <<choices, mode, reply, partial, raw, dangling, flags, sockets,
                    peers, wire>>
    BY <1>1 DEF OnRead
  <2> QED
    BY <2>1, <2>2, <2>3 DEF TypeOK, TaskTypes, choices, flags, sockets, peers, wire
<1>2. CASE OnWrite(e)
  <2>0. Source(e) \in Ends /\ task[e] \in PCs
    BY EndsType DEF Source, TypeOK
  <2>1. CASE /\ cqe[e] > 0 /\ cqe[e] < Len(held[Source(e)])
             /\ Suspend(e, task[e])
             /\ held' = [held EXCEPT ![Source(e)] = SubSeq(@, cqe[e] + 1, Len(@))]
             /\ partial' = [partial EXCEPT ![e] = TRUE]
             /\ UNCHANGED <<choices, mode, reply, raw, dangling, flags, sockets,
                            peers, wire>>
    <3> DEFINE h == held[Source(e)]
    <3>1. TaskTypes'
      BY <2>0, <2>1, SuspendType
    <3>2. h \in Seq(Int) /\ cqe[e] \in Int
      BY <2>0 DEF TypeOK
    <3>3. SubSeq(h, cqe[e] + 1, Len(h)) \in Seq(Int)
      BY <2>1, <3>2, SubSeqProperties, LenProperties, ElementOfSeq
    <3>4. held' \in [Ends -> Seq(Int)]
      BY <2>1, <3>3, ExceptType DEF TypeOK
    <3>5. partial' \in [Ends -> BOOLEAN]
      BY <2>1, ExceptType, TRUE \in BOOLEAN DEF TypeOK
    <3>6. UNCHANGED <<choices, mode, reply, raw, dangling, flags, sockets, peers, wire>>
      BY <2>1
    <3> HIDE <2>1
    <3> QED
      BY <3>1, <3>4, <3>5, <3>6
      DEF TypeOK, TaskTypes, choices, flags, sockets, peers, wire
  <2>2. CASE ReadOn(e)
    <3>1. TaskTypes'
      BY <2>2, SuspendType DEF ReadOn, PCs
    <3>2. held' \in [Ends -> Seq(Int)]
      BY <2>2, ExceptType, << >> \in Seq(Int) DEF ReadOn, TypeOK
    <3>3. partial' \in [Ends -> BOOLEAN]
      BY <2>2, ExceptType, FALSE \in BOOLEAN DEF ReadOn, TypeOK
    <3>4. dangling' \in BOOLEAN
      BY <2>2 DEF ReadOn, TypeOK
    <3> QED
      BY <2>2, <3>1, <3>2, <3>3, <3>4
      DEF ReadOn, TypeOK, TaskTypes, choices, flags, sockets, peers, wire
  <2> QED
    BY <1>2, <2>1, <2>2, RelaysType, FinishType DEF OnWrite
<1>3. CASE OnShut(e)
  BY <1>3, FinishType DEF OnShut
<1> QED
  BY <1>1, <1>2, <1>3, HandshakeType DEF Resume

\* Every completion of coroutine e's operation does.
LEMMA KernelType ==
  ASSUME TypeOK, NEW e \in Ends, Kernel(e)
  PROVE  TypeOK'
<1>0. 0 \in Int /\ 1 \in Int /\ -1 \in Int
  OBVIOUS
<1>c. ASSUME NEW r \in Int, Complete(e, r),
             UNCHANGED <<choices, mode, reply, task, held, partial, raw, dangling,
                         flags, remoteFd, udp, peers>>,
             consumed' \in [Ends -> Nat], sent' \in [Ends -> Seq(Int)],
             FdType', ShutTypes'
      PROVE  TypeOK'
  <2>1. TaskTypes'
    BY <1>c, CompleteType
  <2> QED
    BY <1>c, <2>1 DEF TypeOK, TaskTypes, FdType, ShutTypes, choices, flags, peers
<1>t. /\ consumed \in [Ends -> Nat] /\ sent \in [Ends -> Seq(Int)]
      /\ UNCHANGED fd => FdType'
      /\ UNCHANGED <<rdShut, wrShut>> => ShutTypes'
  BY DEF TypeOK, FdType, ShutTypes
<1>u. \A r : Complete(e, r) =>
        UNCHANGED <<choices, mode, reply, task, held, partial, raw, dangling,
                    flags, remoteFd, udp, peers>>
  BY DEF Complete
<1>1. CASE KernelRecv(e)
  <2>1. CASE /\ Complete(e, 0) \/ Complete(e, -1)
             /\ UNCHANGED <<wire, fd, rdShut, wrShut>>
    BY <1>0, <1>c, <1>t, <1>u, <2>1 DEF wire
  <2>2. ASSUME NEW n \in 1 .. (produced[Reads(e)] - consumed[Reads(e)]), Complete(e, n),
               consumed' = [consumed EXCEPT ![Reads(e)] = @ + n],
               UNCHANGED <<sent, fd, rdShut, wrShut>>
        PROVE  TypeOK'
    <3>1. Reads(e) \in Ends
      BY EndsType DEF Reads
    <3>2. produced[Reads(e)] \in Nat /\ consumed[Reads(e)] \in Nat
      BY <3>1 DEF TypeOK
    <3>3. n \in Int /\ consumed[Reads(e)] + n \in Nat
      BY <3>2
    <3>4. consumed' \in [Ends -> Nat]
      BY <1>t, <2>2, <3>3, ExceptType
    <3> QED
      BY <1>c, <1>t, <1>u, <2>2, <3>3, <3>4
  <2> QED
    BY <1>1, <2>1, <2>2 DEF KernelRecv
<1>2. CASE KernelSend(e)
  <2>0. Source(e) \in Ends /\ Other(Source(e)) \in Ends
    BY EndsType DEF Source
  <2>1. CASE Complete(e, -1) /\ UNCHANGED <<sent, consumed, fd, rdShut, wrShut>>
    BY <1>0, <1>c, <1>t, <1>u, <2>1
  <2>2. ASSUME NEW m \in Int, NEW n \in 1 .. Min2(m, Len(held[Source(e)])),
               Complete(e, n),
               sent' = [sent EXCEPT ![Other(Source(e))]
                          = @ \o SubSeq(held[Source(e)], 1, n)],
               UNCHANGED <<consumed, fd, rdShut, wrShut>>
        PROVE  TypeOK'
    <3> DEFINE h == held[Source(e)]
               d == Other(Source(e))
    <3>1. h \in Seq(Int) /\ sent[d] \in Seq(Int)
      BY <2>0 DEF TypeOK
    <3>2. n \in Int /\ n \in 1 .. Len(h)
      BY <2>2, <3>1, LenProperties DEF Min2
    <3>3. SubSeq(h, 1, n) \in Seq(Int)
      BY <3>1, <3>2, SubSeqProperties, LenProperties, ElementOfSeq
    <3>4. sent[d] \o SubSeq(h, 1, n) \in Seq(Int)
      BY <3>1, <3>3, ConcatProperties
    <3>5. sent' \in [Ends -> Seq(Int)]
      BY <1>t, <2>2, <3>4, ExceptType
    <3> QED
      BY <1>c, <1>t, <1>u, <2>2, <3>2, <3>5
  <2>3. SendCap - (Len(sent[Other(Source(e))]) - drained[Other(Source(e))]) \in Int
    <3>1. sent[Other(Source(e))] \in Seq(Int) /\ drained[Other(Source(e))] \in Nat
      BY <2>0 DEF TypeOK
    <3> QED
      BY <3>1, LenProperties, Socks5Assumption
  <2> QED
    BY <1>2, <2>1, <2>2, <2>3 DEF KernelSend
<1>3. CASE KernelShut(e)
  <2>1. ShutTypes'
    BY <1>3, EndsType, ExceptType, TRUE \in BOOLEAN DEF KernelShut, TypeOK, ShutTypes
  <2> QED
    BY <1>0, <1>3, <1>c, <1>t, <1>u, <2>1 DEF KernelShut, wire
<1>4. CASE e = "app" /\ KernelSay
  <2> DEFINE d == IF task["app"] = "header" THEN "remote" ELSE "app"
  <2>1. sent[d] \in Seq(Int) /\ Says \in Int
    BY <1>4, EndsType DEF TypeOK, KernelSay, Says, Refused, Accepted, Header, Success,
                          Failure
  <2>2. Append(sent[d], Says) \in Seq(Int)
    BY <2>1, AppendProperties
  <2>3. sent' \in [Ends -> Seq(Int)]
    BY <1>4, <1>t, <2>2, ExceptType DEF KernelSay
  <2>4. Complete(e, -1) \/ Complete(e, 1)
    BY <1>4 DEF KernelSay
  <2>5. UNCHANGED <<consumed, fd, rdShut, wrShut>>
    BY <1>4 DEF KernelSay
  <2> QED
    BY <1>0, <1>c, <1>t, <1>u, <2>3, <2>4, <2>5
<1>5. CASE e = "app" /\ KernelConnect
  <2>1. FdType'
    BY <1>5, EndsType DEF KernelConnect, TypeOK, FdType
  <2> QED
    BY <1>0, <1>5, <1>c, <1>t, <1>u, <2>1 DEF KernelConnect, wire
<1>6. CASE e = "app" /\ KernelTls
  BY <1>0, <1>6, <1>c, <1>t, <1>u DEF KernelTls, wire
<1> QED
  BY <1>1, <1>2, <1>3, <1>4, <1>5, <1>6 DEF Kernel

\* A step of the peer at e does.
LEMMA PeerType ==
  ASSUME TypeOK, NEW e \in Ends, Peer(e)
  PROVE  TypeOK'
<1> USE DEF Untouched, choices, coroutines, flags, sockets, wire
<1>1. CASE PeerSend(e)
  <2>1. produced[e] + 1 \in Nat
    BY DEF TypeOK
  <2>2. produced' \in [Ends -> Nat]
    BY <1>1, <2>1, ExceptType DEF PeerSend, TypeOK
  <2>3. refused' \in [Ends -> BOOLEAN]
    BY <1>1, ExceptType, TRUE \in BOOLEAN DEF PeerSend, TypeOK
  <2> QED
    BY <1>1, <2>2, <2>3 DEF PeerSend, TypeOK
<1>2. CASE PeerFin(e)
  <2>1. peerFin' \in [Ends -> BOOLEAN]
    BY <1>2, ExceptType, TRUE \in BOOLEAN DEF PeerFin, TypeOK
  <2> QED
    BY <1>2, <2>1 DEF PeerFin, TypeOK
<1>3. CASE PeerReset(e)
  <2>1. reset' \in [Ends -> BOOLEAN]
    BY <1>3, ExceptType, TRUE \in BOOLEAN DEF PeerReset, TypeOK
  <2> QED
    BY <1>3, <2>1 DEF PeerReset, TypeOK
<1>4. CASE PeerRead(e)
  <2>1. drained[e] + 1 \in Nat
    BY DEF TypeOK
  <2>2. drained' \in [Ends -> Nat]
    BY <1>4, <2>1, ExceptType DEF PeerRead, TypeOK
  <2> QED
    BY <1>4, <2>2 DEF PeerRead, TypeOK
<1> QED
  BY <1>1, <1>2, <1>3, <1>4 DEF Peer

\* The connection the factory has just built is of the right type.
LEMMA TypeInit == Init => TypeOK
<1> SUFFICES ASSUME Init PROVE TypeOK
  OBVIOUS
<1>1. TaskTypes
  BY DEF Init, TaskTypes, PCs
<1>2. held \in [Ends -> Seq(Int)] /\ sent \in [Ends -> Seq(Int)]
  BY DEF Init
<1>3. FdType
  BY DEF Init, FdType
<1> QED
  BY <1>1, <1>2, <1>3 DEF Init, TypeOK, TaskTypes, FdType

\* Every step keeps the types.
LEMMA TypeInductive ==
  ASSUME TypeOK, [Next]_vars
  PROVE  TypeOK'
<1>1. CASE Start
  BY <1>1, ProceedType DEF Start, PCs
<1>2. CASE Reclaim
  <2>1. FdType'
    BY <1>2 DEF Reclaim, TypeOK, FdType
  <2>2. udp' \in {"none", "bound", "relay", "broken", "closed"}
    BY <1>2 DEF Reclaim, TypeOK, UdpAfterStop
  <2>3. /\ UNCHANGED <<choices, coroutines, readDone, started, closed, remoteFd,
                       rdShut, wrShut, peers, wire>>
        /\ live' = FALSE
    BY <1>2 DEF Reclaim
  <2>4. TaskTypes'
    BY <2>3 DEF TypeOK, TaskTypes, coroutines
  <2>5. held' \in [Ends -> Seq(Int)] /\ sent' \in [Ends -> Seq(Int)]
    BY <2>3 DEF TypeOK, coroutines, wire
  <2>6. UNCHANGED <<patient, tls, mode, reply, partial, raw, dangling, readDone, started,
                    closed, remoteFd, rdShut, wrShut, produced, peerFin, reset, refused,
                    drained, consumed>>
    BY <2>3 DEF choices, coroutines, peers, wire
  <2> QED
    BY <2>1, <2>2, <2>3, <2>4, <2>5, <2>6, ZenonT(30) DEF TypeOK, TaskTypes, FdType
<1>3. CASE UNCHANGED vars
  BY <1>3 DEF vars, TypeOK
<1> QED
  BY <1>1, <1>2, <1>3, ResumeType, KernelType, PeerType DEF Next, Reclaimed

\* Every variable of a client connection stays in its type: program counters,
\* operations, flags and descriptors of socks5_connection.h.
THEOREM TypeCorrect == Spec => []TypeOK
BY TypeInit, TypeInductive, PTL DEF Spec

-----------------------------------------------------------------------------
(* Safe reclaim.                                                            *)

\* A suspension leaves the other coroutine where it is.
LEMMA SuspendEffect ==
  ASSUME TypeOK, NEW e \in Ends, NEW pc, Suspend(e, pc)
  PROVE  /\ task'[e] = pc /\ op'[e] = "posted"
         /\ \A o \in Ends : o # e => task'[o] = task[o] /\ op'[o] = op[o]
BY DEF Suspend, TypeOK

\* The end of a coroutine leaves the other one where it is.
LEMMA ReturnEffect ==
  ASSUME TypeOK, NEW e \in Ends, Return(e)
  PROVE  /\ task'[e] = "done" /\ op'[e] = "none" /\ readDone'[e]
         /\ \A o \in Ends : o # e =>
              /\ task'[o] = task[o] /\ op'[o] = op[o]
              /\ readDone'[o] = readDone[o]
BY DEF Return, TypeOK

\* A coroutine that waits for something is a coroutine of a connection that is
\* not closed.
LEMMA WaitsInOpen ==
  ASSUME Control, NEW e \in Ends, op[e] # "none"
  PROVE  ~closed /\ live /\ task[e] \notin {"none", "created", "done"} /\ ~readDone[e]
BY DEF Control, Ends

\* What clientTask may go on to in the handshakes.
Forward == {"greeting", "refuse", "accept", "request", "reply", "remaining", "control"}
             \cup Building

\* A suspension of clientTask before the relays keeps Control.
LEMMA ForwardControl ==
  ASSUME TypeOK, Control, NEW pc \in Forward, Suspend("app", pc),
         task["app"] \notin Relaying \cup {"done"},
         UNCHANGED <<readDone, started, closed, live>>
  PROVE  Control'
<1>1. /\ task'["app"] = pc /\ op'["app"] = "posted"
      /\ task'["remote"] = task["remote"] /\ op'["remote"] = op["remote"]
  BY SuspendEffect DEF Ends
<1>2. task["app"] \in Asking \cup Building \cup {"reply", "remaining", "control"}
  BY EndsType DEF TypeOK, Control, PCs, Asking, Building, Relaying
<1>3. ~started /\ ~readDone["app"] /\ ~closed
  BY <1>2 DEF Control, Asking, Building, Ends
<1> QED
  BY <1>1, <1>2, <1>3 DEF Control, Forward, Asking, Building, Relaying, Ends

\* So does a suspension within a relay.
LEMMA RelayControl ==
  ASSUME TypeOK, Control, NEW e \in Ends, NEW pc \in Relaying, Suspend(e, pc),
         task[e] \in Relaying, UNCHANGED <<readDone, started, closed, live>>
  PROVE  Control'
<1>1. /\ task'[e] = pc /\ op'[e] = "posted"
      /\ \A o \in Ends : o # e => task'[o] = task[o] /\ op'[o] = op[o]
  BY SuspendEffect
<1> QED
  BY <1>1 DEF Control, Asking, Building, Relaying, Ends

\* finishClientTask() keeps it: closed_ is set at once only when there is no
\* remoteTask to wait for, and for that its socket must be known.
LEMMA FinishClientControl ==
  ASSUME TypeOK, Control, started => remoteFd, op["app"] # "none",
         NEW u, FinishClient(u)
  PROVE  Control'
<1>1. /\ task'["app"] = "done" /\ op'["app"] = "none" /\ readDone'["app"]
      /\ task'["remote"] = task["remote"] /\ op'["remote"] = op["remote"]
      /\ readDone'["remote"] = readDone["remote"]
  BY ReturnEffect DEF FinishClient, Ends
<1>2. ~closed /\ live
  BY EndsType, WaitsInOpen
<1>3. /\ UNCHANGED <<started, live>>
      /\ started /\ ~readDone["remote"] => UNCHANGED closed
  BY DEF FinishClient
<1> QED
  BY <1>1, <1>2, <1>3 DEF Control, Asking, Building, Relaying, Ends

\* So does the tail of remoteTask().
LEMMA FinishRemoteControl ==
  ASSUME TypeOK, Control, op["remote"] # "none", FinishRemote
  PROVE  Control'
<1>1. /\ task'["remote"] = "done" /\ op'["remote"] = "none" /\ readDone'["remote"]
      /\ task'["app"] = task["app"] /\ op'["app"] = op["app"]
      /\ readDone'["app"] = readDone["app"]
  BY ReturnEffect DEF FinishRemote, Ends
<1>2. ~closed /\ live /\ task["remote"] # "none"
  BY EndsType, WaitsInOpen
<1>3. /\ UNCHANGED <<started, live>>
      /\ closed' = (closed \/ readDone["app"])
  BY DEF FinishRemote
<1> QED
  BY <1>1, <1>2, <1>3 DEF Control, Asking, Building, Relaying, Ends

\* Starting the relays is starting remoteTask.
LEMMA RelaysControl ==
  ASSUME TypeOK, Control, StartRelays, op["app"] # "none", ~started
  PROVE  Control'
<1>1. /\ started' = TRUE /\ UNCHANGED <<readDone, closed, live>>
      /\ task' = [e \in Ends |-> "read"] /\ op' = [e \in Ends |-> "posted"]
  BY DEF StartRelays
<1>2. ~closed /\ live /\ ~readDone["app"] /\ ~readDone["remote"]
  BY EndsType, WaitsInOpen DEF Control
<1> QED
  BY <1>1, <1>2 DEF Control, Asking, Building, Relaying, Ends

\* Every resumption of clientTask in the handshakes keeps it.
LEMMA HandshakeControl ==
  ASSUME Inv, Handshake
  PROVE  Control'
<1>0. TypeOK /\ Control /\ (started => remoteFd)
  BY DEF Inv, Sockets
<1>1. /\ op["app"] # "none"
      /\ task["app"] \in {"greeting", "refuse", "accept", "request", "reply", "control"}
                           \cup Building
  BY DEF Handshake, OnGreeting, OnRefuse, OnAccept, OnRequest, OnConnect, OnTls,
         OnHeader, OnResponse, OnReply, OnControl, Dispatched, Building
<1>2. ~started
  BY <1>0, <1>1 DEF Control, Asking, Building
<1>3. ASSUME NEW u, FinishClient(u) PROVE Control'
  BY <1>0, <1>1, <1>3, FinishClientControl
<1>4. ASSUME NEW pc \in Forward, Suspend("app", pc),
             UNCHANGED <<readDone, started, closed, live>>
      PROVE  Control'
  BY <1>0, <1>1, <1>4, ForwardControl DEF Relaying, Building
<1>5. ASSUME NEW pc \in Forward, Proceed(pc) PROVE Control'
  BY <1>4, <1>5 DEF Proceed, flags
<1>6. ASSUME NEW m, RefuseRequest(m) PROVE Control'
  BY <1>4, <1>6 DEF RefuseRequest, flags, Forward
<1>7. ASSUME Serve PROVE Control'
  BY <1>4, <1>6, <1>7 DEF Serve, BeginTunnel, BindUdp, flags, Forward, Building
<1>8. CASE OnGreeting \/ OnRefuse
  BY <1>3, <1>5, <1>8 DEF OnGreeting, OnRefuse, Forward
<1>9. CASE OnAccept \/ OnRequest
  BY <1>3, <1>5, <1>7, <1>9 DEF OnAccept, OnRequest, Forward
<1>10. CASE OnConnect \/ OnTls \/ OnHeader
  BY <1>5, <1>6, <1>10 DEF OnConnect, OnTls, OnHeader, Forward, Building
<1>11. CASE OnResponse
  <2>1. CASE Suspend("app", "reply") /\ UNCHANGED flags
    BY <1>4, <2>1 DEF flags, Forward
  <2> QED
    BY <1>5, <1>6, <1>11, <2>1 DEF OnResponse, Forward, Building
<1>12. CASE OnReply
  <2>1. CASE StartUdpRelay
    BY <1>4, <2>1 DEF StartUdpRelay, flags, Forward
  <2>2. CASE StartRelays
    BY <1>0, <1>1, <1>2, <2>2, RelaysControl
  <2> QED
    BY <1>3, <1>5, <1>12, <2>1, <2>2 DEF OnReply, Forward
<1>13. CASE OnControl
  BY <1>3, <1>5, <1>13 DEF OnControl, Forward
<1> QED
  BY <1>8, <1>9, <1>10, <1>11, <1>12, <1>13 DEF Handshake

\* Every resumption of coroutine e does.
LEMMA ResumeControl ==
  ASSUME Inv, NEW e \in Ends, Resume(e)
  PROVE  Control'
<1>0. TypeOK /\ Control /\ (started => remoteFd)
  BY DEF Inv, Sockets
<1>f. ASSUME Finish(e), op[e] # "none" PROVE Control'
  BY <1>0, <1>f, FinishClientControl, FinishRemoteControl DEF Finish, Ends
<1>s. ASSUME NEW pc \in Relaying, Suspend(e, pc), task[e] \in Relaying, UNCHANGED flags
      PROVE  Control'
  BY <1>0, <1>s, RelayControl DEF flags
<1>1. CASE OnRead(e)
  BY <1>1, <1>s DEF OnRead, Dispatched, Relaying
<1>2. CASE OnWrite(e)
  <2>1. task[e] \in {"write", "remaining"} /\ op[e] # "none"
    BY <1>2 DEF OnWrite
  <2>2. CASE Finish(e)
    BY <1>f, <2>1, <2>2
  <2>3. CASE task[e] = "write" /\ ~Finish(e)
    BY <1>2, <1>s, <2>1, <2>3 DEF OnWrite, ReadOn, Relaying
  <2>4. CASE task[e] = "remaining" /\ ~Finish(e)
    <3>1. e = "app"
      BY <1>0, <2>4 DEF Control, Relaying, Ends
    <3>2. ~started
      BY <1>0, <2>4, <3>1 DEF Control
    <3>3. CASE StartRelays
      BY <1>0, <2>1, <3>1, <3>2, <3>3, RelaysControl
    <3>4. CASE Suspend("app", "remaining") /\ UNCHANGED flags
      BY <1>0, <2>4, <3>1, <3>4, ForwardControl DEF flags, Forward, Relaying
    <3> QED
      BY <1>2, <2>4, <3>1, <3>3, <3>4 DEF OnWrite
  <2> QED
    BY <2>1, <2>2, <2>3, <2>4
<1>3. CASE OnShut(e)
  BY <1>3, <1>f DEF OnShut, Dispatched
<1> QED
  BY <1>1, <1>2, <1>3, HandshakeControl DEF Resume

\* A completion changes neither program counters nor flags.
LEMMA KernelEffect ==
  ASSUME TypeOK, NEW e \in Ends, Kernel(e)
  PROVE  /\ op[e] = "posted" /\ op'[e] = "complete"
         /\ \A o \in Ends : o # e => op'[o] = op[o]
         /\ UNCHANGED <<mode, reply, task, readDone, started, closed, live, remoteFd, udp>>
<1>1. op[e] = "posted"
  BY DEF Kernel, KernelRecv, KernelSend, KernelShut, KernelSay, KernelConnect, KernelTls
<1>2. PICK r : Complete(e, r)
  BY DEF Kernel, KernelRecv, KernelSend, KernelShut, KernelSay, KernelConnect, KernelTls
<1> QED
  BY <1>1, <1>2 DEF Complete, TypeOK, flags

\* Nor does a peer.
LEMMA PeerEffect ==
  ASSUME NEW e \in Ends, Peer(e)
  PROVE  UNCHANGED <<mode, reply, task, op, readDone, started, closed, live, fd,
                     remoteFd, udp>>
BY DEF Peer, PeerSend, PeerFin, PeerReset, PeerRead, Untouched, coroutines, flags, sockets

\* Every step keeps Control.
LEMMA ControlInductive ==
  ASSUME Inv, [Next]_vars
  PROVE  Control'
<1>0. TypeOK /\ Control
  BY DEF Inv
<1>1. CASE Start
  <2>1. Suspend("app", "greeting") /\ UNCHANGED <<readDone, started, closed, live>>
    BY <1>1 DEF Start, Proceed, flags
  <2> QED
    BY <1>0, <1>1, <2>1, ForwardControl DEF Start, Forward, Relaying
<1>2. CASE Reclaim
  BY <1>0, <1>2 DEF Reclaim, Control, coroutines
<1>3. ASSUME NEW e \in Ends, Peer(e) PROVE Control'
  <2>1. UNCHANGED <<task, op, readDone, started, closed, live>>
    BY <1>3, PeerEffect
  <2> QED
    BY <1>0, <2>1 DEF Control
<1>4. ASSUME NEW e \in Ends, Kernel(e) PROVE Control'
  <2>1. /\ op[e] = "posted" /\ op'[e] = "complete"
        /\ \A o \in Ends : o # e => op'[o] = op[o]
        /\ UNCHANGED <<task, readDone, started, closed, live>>
    BY <1>0, <1>4, KernelEffect
  <2> QED
    BY <1>0, <2>1 DEF Control, Ends
<1>5. CASE UNCHANGED vars
  BY <1>0, <1>5 DEF vars, Control
<1> QED
  BY <1>1, <1>2, <1>3, <1>4, <1>5, ResumeControl DEF Next, Reclaimed

-----------------------------------------------------------------------------
(* Who owns the sockets.                                                    *)

\* What the steps of clientTask in the handshakes have in common.
LEMMA StepEffect ==
  ASSUME TypeOK, NEW pc, Suspend("app", pc)
  PROVE  task'["app"] = pc
BY EndsType, SuspendEffect

\* finishClientTask() from a point where the sockets have their owners.
LEMMA FinishClientSockets ==
  ASSUME Inv, op["app"] # "none", NEW u \in {"none", "closed", "broken"}, remoteFd \/ NoTunnel,
         FinishClient(u)
  PROVE  Sockets'
<1>1. task'["app"] = "done"
  BY EndsType, ReturnEffect DEF FinishClient, Inv
<1>2. udp' = u /\ UNCHANGED <<started, live, fd, remoteFd>>
  BY DEF FinishClient
<1>3. live
  BY EndsType, WaitsInOpen DEF Inv
<1> QED
  BY <1>1, <1>2, <1>3
  DEF Inv, Sockets, NoTunnel, Asking, Building, Relaying

\* A step to the next suspension that leaves the sockets alone.
LEMMA ProceedSockets ==
  ASSUME Inv, NEW pc, Proceed(pc),
         \/ task["app"] \in Asking /\ pc \in Asking
         \/ task["app"] \in Building /\ pc \in Building
         \/ task["app"] = "control" /\ pc = "control"
         \/ task["app"] = "reply" /\ mode = "tcp" /\ reply = "ok" /\ pc = "remaining"
  PROVE  Sockets'
<1>1. task'["app"] = pc
  BY StepEffect DEF Proceed, Inv
<1>2. UNCHANGED <<mode, reply, started, live, fd, remoteFd, udp>>
  BY DEF Proceed, flags, sockets
<1> QED
  BY <1>1, <1>2 DEF Inv, Sockets, NoTunnel, Asking, Building, Relaying

\* A refusal closes the socket that was made.
LEMMA RefuseSockets ==
  ASSUME Inv, NEW m, RefuseRequest(m), op["app"] # "none", udp = "none"
  PROVE  Sockets'
<1>1. task'["app"] = "reply" /\ reply' = "failed"
  BY StepEffect DEF RefuseRequest, Inv
<1>2. /\ fd'["app"] = fd["app"] /\ fd'["remote"] \in {"none", "closed"}
      /\ UNCHANGED <<started, live, remoteFd, udp>>
  BY DEF RefuseRequest, flags, Inv, TypeOK, Ends
<1>3. live
  BY EndsType, WaitsInOpen DEF Inv
<1> QED
  BY <1>1, <1>2, <1>3 DEF Inv, Sockets, NoTunnel, Asking, Building, Relaying

\* A request that is served makes one socket more.
LEMMA ServeSockets ==
  ASSUME Inv, Serve, op["app"] # "none", task["app"] \in Asking
  PROVE  Sockets'
<1>1. live /\ NoTunnel /\ udp = "none"
  BY EndsType, WaitsInOpen DEF Inv, Sockets
<1>2. CASE BeginTunnel
  <2>1. task'["app"] = "connect"
    BY <1>2, StepEffect DEF BeginTunnel, Inv
  <2>2. mode' = "tcp" /\ fd'["app"] = fd["app"] /\ UNCHANGED <<started, live, remoteFd, udp>>
    BY <1>2 DEF BeginTunnel, flags, Inv, TypeOK, Ends
  <2> QED
    BY <1>1, <2>1, <2>2 DEF Inv, Sockets, Asking, Building, Relaying
<1>3. CASE BindUdp
  <2>1. task'["app"] = "reply" /\ reply' = "ok" /\ mode' = "udp" /\ udp' = "bound"
    BY <1>3, StepEffect DEF BindUdp, Inv
  <2>2. UNCHANGED <<started, live, fd, remoteFd>>
    BY <1>3 DEF BindUdp, flags
  <2> QED
    BY <1>1, <2>1, <2>2 DEF Inv, Sockets, NoTunnel, Asking, Building, Relaying
<1> QED
  BY <1>1, <1>2, <1>3, RefuseSockets DEF Serve

\* The relays start with the socket of the tunnel owned.
LEMMA RelaysSockets ==
  ASSUME Inv, StartRelays, op["app"] # "none", remoteFd, udp = "none"
  PROVE  Sockets'
<1>1. task'["app"] = "read" /\ UNCHANGED <<live, fd, remoteFd, udp>>
  BY DEF StartRelays, sockets, Ends
<1>2. live
  BY EndsType, WaitsInOpen DEF Inv
<1> QED
  BY <1>1, <1>2 DEF Inv, Sockets, NoTunnel, Asking, Building, Relaying

\* Every resumption of clientTask in the handshakes keeps the sockets owned.
LEMMA HandshakeSockets ==
  ASSUME Inv, Handshake
  PROVE  Sockets'
<1>1. op["app"] # "none"
  BY DEF Handshake, OnGreeting, OnRefuse, OnAccept, OnRequest, OnConnect, OnTls,
         OnHeader, OnResponse, OnReply, OnControl, Dispatched
<1>2. CASE OnGreeting \/ OnRefuse \/ OnAccept \/ OnRequest
  <2>1. task["app"] \in Asking
    BY <1>2 DEF OnGreeting, OnRefuse, OnAccept, OnRequest, Dispatched, Asking
  <2>2. NoTunnel /\ udp = "none"
    BY <2>1 DEF Inv, Sockets
  <2>3. CASE FinishClient(udp)
    BY <1>1, <2>2, <2>3, FinishClientSockets
  <2>4. ASSUME NEW pc \in Asking, Proceed(pc) PROVE Sockets'
    BY <2>1, <2>4, ProceedSockets
  <2>5. CASE Serve
    BY <1>1, <2>1, <2>5, ServeSockets
  <2> QED
    BY <1>2, <2>3, <2>4, <2>5 DEF OnGreeting, OnRefuse, OnAccept, OnRequest, Asking
<1>3. CASE OnConnect \/ OnTls \/ OnHeader \/ OnResponse
  <2>1. task["app"] \in Building
    BY <1>3 DEF OnConnect, OnTls, OnHeader, OnResponse, Dispatched, Building
  <2>2. udp = "none" /\ mode = "tcp" /\ live
    BY <1>1, <2>1, EndsType, WaitsInOpen DEF Inv, Sockets
  <2>3. CASE RefuseRequest("tcp")
    BY <1>1, <2>2, <2>3, RefuseSockets
  <2>4. ASSUME NEW pc \in Building, Proceed(pc) PROVE Sockets'
    BY <2>1, <2>4, ProceedSockets
  <2>5. CASE /\ Suspend("app", "reply") /\ reply' = "ok" /\ remoteFd' = TRUE
             /\ UNCHANGED <<mode, flags, fd, udp>>
    <3>1. task'["app"] = "reply"
      BY <2>5, StepEffect DEF Inv
    <3> QED
      BY <2>2, <2>5, <3>1 DEF Inv, Sockets, NoTunnel, Asking, Building, Relaying, flags
  <2>6. CASE OnConnect \/ OnTls \/ OnHeader
    BY <2>3, <2>4, <2>6 DEF OnConnect, OnTls, OnHeader, Building
  <2>7. CASE OnResponse
    BY <2>3, <2>4, <2>5, <2>7 DEF OnResponse, Building
  <2> QED
    BY <1>3, <2>6, <2>7
<1>4. CASE OnReply
  <2>1. task["app"] = "reply"
    BY <1>4 DEF OnReply, Dispatched
  <2>2. CASE reply = "failed"
    <3>1. NoTunnel /\ udp = "none"
      BY <2>1, <2>2 DEF Inv, Sockets
    <3>2. FinishClient(udp)
      BY <1>4, <2>2 DEF OnReply
    <3> QED
      BY <1>1, <3>1, <3>2, FinishClientSockets
  <2>3. CASE reply = "ok" /\ mode = "tcp"
    <3>1. remoteFd /\ udp = "none"
      BY <2>1, <2>3 DEF Inv, Sockets
    <3>2. CASE FinishClient(udp)
      BY <1>1, <3>1, <3>2, FinishClientSockets
    <3>3. CASE Proceed("remaining")
      BY <2>1, <2>3, <3>3, ProceedSockets
    <3>4. CASE StartRelays
      BY <1>1, <3>1, <3>4, RelaysSockets
    <3> QED
      BY <1>4, <2>3, <3>2, <3>3, <3>4 DEF OnReply
  <2>4. CASE reply = "ok" /\ mode = "udp"
    <3>1. NoTunnel
      BY <2>1, <2>4 DEF Inv, Sockets
    <3>2. CASE FinishClient("closed")
      BY <1>1, <3>1, <3>2, FinishClientSockets
    <3>3. CASE StartUdpRelay
      <4>1. task'["app"] = "control" /\ udp' \in {"relay", "broken"}
        BY <3>3, StepEffect DEF StartUdpRelay, Inv
      <4>2. UNCHANGED <<started, live, fd, remoteFd>>
        BY <3>3 DEF StartUdpRelay, flags
      <4>3. live
        BY <1>1, EndsType, WaitsInOpen DEF Inv
      <4> QED
        BY <3>1, <4>1, <4>2, <4>3 DEF Inv, Sockets, NoTunnel, Asking, Building, Relaying
    <3> QED
      BY <1>4, <2>4, <3>2, <3>3 DEF OnReply
  <2> QED
    BY <2>1, <2>2, <2>3, <2>4 DEF Inv, Sockets
<1>5. CASE OnControl
  <2>1. task["app"] = "control" /\ NoTunnel /\ UdpAfterStop \in {"closed", "broken"}
    BY <1>5 DEF OnControl, Dispatched, Inv, Sockets, UdpAfterStop
  <2>2. CASE FinishClient(UdpAfterStop)
    BY <1>1, <2>1, <2>2, FinishClientSockets
  <2>3. CASE Proceed("control")
    BY <2>1, <2>3, ProceedSockets
  <2> QED
    BY <1>5, <2>2, <2>3 DEF OnControl
<1> QED
  BY <1>2, <1>3, <1>4, <1>5 DEF Handshake

\* Every resumption of coroutine e does.
LEMMA ResumeSockets ==
  ASSUME Inv, NEW e \in Ends, Resume(e)
  PROVE  Sockets'
<1>t. TypeOK /\ Control /\ Sockets
  BY DEF Inv
<1>1. CASE e = "app" /\ Handshake
  BY <1>1, HandshakeSockets
<1>2. CASE ~(e = "app" /\ Handshake)
  <2>1. OnRead(e) \/ OnWrite(e) \/ OnShut(e)
    BY <1>2 DEF Resume
  <2>2. op[e] # "none" /\ task[e] \in Relaying \cup {"remaining"}
    BY <2>1 DEF OnRead, OnWrite, OnShut, Dispatched, Relaying
  <2>3. live
    BY <1>t, <2>2, WaitsInOpen
  <2>4. CASE Finish(e) /\ e = "app"
    <3>1. remoteFd /\ udp = "none" /\ FinishClient(udp)
      BY <1>t, <2>2, <2>4 DEF Sockets, Finish
    <3> QED
      BY <2>2, <2>4, <3>1, FinishClientSockets
  <2>5. CASE Finish(e) /\ e = "remote"
    <3>1. FinishRemote
      BY <2>5 DEF Finish
    <3>2. task'["app"] = task["app"]
      BY <1>t, <3>1, EndsType, ReturnEffect DEF FinishRemote
    <3>3. UNCHANGED <<mode, reply, started, live, fd, remoteFd, udp>>
      BY <3>1 DEF FinishRemote
    <3> QED
      BY <1>t, <3>2, <3>3 DEF Sockets, NoTunnel
  <2>6. ASSUME NEW pc \in Relaying \cup {"remaining"}, Suspend(e, pc),
               UNCHANGED <<mode, reply, flags, sockets>>
        PROVE  Sockets'
    <3>1. /\ task'[e] = pc
          /\ \A o \in Ends : o # e => task'[o] = task[o]
      BY <1>t, <2>6, SuspendEffect
    <3>2. UNCHANGED <<mode, reply, started, live, fd, remoteFd, udp>>
      BY <2>6 DEF flags, sockets
    <3> QED
      BY <1>t, <2>2, <2>3, <3>1, <3>2
      DEF Sockets, NoTunnel, Asking, Building, Relaying, Ends
  <2>7. CASE StartRelays /\ task[e] = "remaining"
    <3>1. e = "app" /\ remoteFd /\ udp = "none"
      BY <1>t, <2>7 DEF Control, Sockets, Relaying, Ends
    <3> QED
      BY <2>2, <2>7, <3>1, RelaysSockets
  <2>8. CASE Finish(e)
    BY <2>4, <2>5, <2>8 DEF Ends
  <2> QED
    BY <2>1, <2>2, <2>6, <2>7, <2>8 DEF OnRead, OnWrite, OnShut, ReadOn, Relaying
<1> QED
  BY <1>1, <1>2

\* Every step does.
LEMMA SocketsInductive ==
  ASSUME Inv, [Next]_vars
  PROVE  Sockets'
<1>t. TypeOK /\ Control /\ Sockets
  BY DEF Inv
<1>1. CASE Start
  <2>1. task["app"] = "created" /\ Proceed("greeting")
    BY <1>1 DEF Start
  <2> QED
    BY <2>1, ProceedSockets DEF Asking
<1>2. CASE Reclaim
  <2>1. task["app"] = "done" /\ UNCHANGED <<task, started, remoteFd>> /\ live' = FALSE
    BY <1>t, <1>2, EndsType DEF Reclaim, Control, coroutines
  <2>2. /\ udp \in {"none", "closed", "broken"} /\ UdpAfterStop = udp
        /\ remoteFd \/ NoTunnel
        /\ started => remoteFd
    BY <1>t, <2>1 DEF Sockets, UdpAfterStop
  <2>3. fd'["app"] = "closed" /\ udp' = udp
    BY <1>t, <1>2, <2>2 DEF Reclaim, TypeOK, Ends
  <2>4. fd'["remote"] = IF remoteFd THEN "closed" ELSE fd["remote"]
    BY <1>t, <1>2 DEF Reclaim, TypeOK, Ends
  <2>5. fd'["remote"] \in {"none", "closed"}
    BY <2>2, <2>4 DEF NoTunnel
  <2> QED
    BY <2>1, <2>2, <2>3, <2>5 DEF Sockets, NoTunnel, Asking, Building, Relaying
<1>3. ASSUME NEW e \in Ends, Peer(e) PROVE Sockets'
  <2>1. UNCHANGED <<mode, reply, task, started, live, fd, remoteFd, udp>>
    BY <1>3, PeerEffect
  <2> QED
    BY <1>t, <2>1 DEF Sockets, NoTunnel
<1>4. ASSUME NEW e \in Ends, Kernel(e) PROVE Sockets'
  <2>1. /\ op[e] = "posted"
        /\ UNCHANGED <<mode, reply, task, started, live, remoteFd, udp>>
    BY <1>t, <1>4, KernelEffect
  <2>2. CASE UNCHANGED fd
    BY <1>t, <2>1, <2>2 DEF Sockets, NoTunnel
  <2>3. CASE KernelConnect /\ ~UNCHANGED fd
    <3>1. task["app"] = "connect" /\ fd'["app"] = fd["app"] /\ op["app"] # "none"
      BY <1>t, <2>3 DEF KernelConnect, TypeOK, Ends
    <3>2. live
      BY <1>t, <3>1, EndsType, WaitsInOpen
    <3> QED
      BY <1>t, <2>1, <3>1, <3>2 DEF Sockets, Asking, Building, Relaying
  <2> QED
    BY <1>4, <2>2, <2>3
    DEF Kernel, KernelRecv, KernelSend, KernelShut, KernelSay, KernelTls
<1>5. CASE UNCHANGED vars
  BY <1>t, <1>5 DEF vars, Sockets, NoTunnel
<1> QED
  BY <1>1, <1>2, <1>3, <1>4, <1>5, ResumeSockets DEF Next, Reclaimed

\* The three parts of the invariant hold throughout.
LEMMA Invariant == Spec => []Inv
<1>1. Init => Inv
  <2> SUFFICES ASSUME Init PROVE Inv
    OBVIOUS
  <2>1. Control
    BY DEF Init, Control, Asking, Building, Relaying, Ends
  <2>2. Sockets
    BY EndsType DEF Init, Sockets, NoTunnel, Asking, Building, Relaying
  <2> QED
    BY <2>1, <2>2, TypeInit DEF Inv
<1>2. Inv /\ [Next]_vars => Inv'
  <2> SUFFICES ASSUME Inv, [Next]_vars PROVE Inv'
    OBVIOUS
  <2>1. TypeOK'
    BY TypeInductive DEF Inv
  <2>2. Control' /\ Sockets'
    BY ControlInductive, SocketsInductive
  <2> QED
    BY <2>1, <2>2 DEF Inv
<1> QED
  BY <1>1, <1>2, PTL DEF Spec

\* closed_ is set only when neither coroutine waits for anything, whichever of
\* the two ends first and wherever the other stands (finishClientTask).
THEOREM ReclaimIsSafe == Spec => []SafeReclaim
<1>1. Inv => SafeReclaim
  BY DEF Inv, Control, SafeReclaim, Ends
<1> QED
  BY <1>1, Invariant, PTL

\* A connection that is gone has left no socket open, whichever step of the
\* handshakes, the reply or the UDP set-up has failed (doClose and the closes of
\* vlessConnectAndHandshake and runUdpAssociate), but the UDP socket of a relay
\* that had no eventfd.
THEOREM NothingLeaks == Spec => []NoSocketLeaks
<1>1. Inv => NoSocketLeaks
  <2> SUFFICES ASSUME Inv, ~live PROVE NoSocketLeaks
    BY DEF NoSocketLeaks
  <2>1. task["app"] = "done"
    BY EndsType DEF Inv, Control
  <2> QED
    BY <2>1 DEF Inv, Sockets, NoTunnel, NoSocketLeaks, Ends
<1> QED
  BY <1>1, Invariant, PTL
-----------------------------------------------------------------------------
(* The streams: where the bytes of each peer are, at every program counter. *)

\* What end d gets before the first byte of the other end's payload.
Before(d) == IF d = "app" THEN << Accepted, Success >> ELSE << Header >>

\* The byte of the other end's stream that d is to get next, and what it has got.
NextFor(d) == Prologue(Other(d)) + (Len(sent[d]) - Preface(d)) + 1
Whole(d) ==
  /\ Len(sent[d]) >= Preface(d)
  /\ sent[d] = Before(d) \o Run(Prologue(Other(d)) + 1, Len(sent[d]) - Preface(d))

\* A writer stands at operation o with result r and has h of the c bytes read;
\* its reader is to get byte n next, or is gone.
WriteAt(o, r, h, c, n, gone) ==
  /\ 0 < Len(h) /\ h = Run(c - Len(h) + 1, Len(h))
  /\ o = "posted" => gone \/ n + Len(h) = c + 1
  /\ o = "complete" /\ r > 0 => r <= Len(h) /\ (gone \/ n + Len(h) = c + 1 + r)
  /\ o = "complete" /\ r <= 0 => gone

\* A relay stands at pc.
RelayAt(pc, o, r, h, c, n, gone) ==
  /\ pc = "read" /\ o = "complete" /\ r > 0 => gone \/ n + r = c + 1
  /\ pc = "read" /\ ~(o = "complete" /\ r > 0) => gone \/ n = c + 1
  /\ pc = "write" => WriteAt(o, r, h, c, n, gone)
  /\ pc \in {"shut", "done"} => gone \/ n = c + 1

\* The relay from e carries its stream without a gap; before the relays
\* clientTask hands over what came with the response.
Carried(e) ==
  started =>
    /\ Whole(Other(e))
    /\ RelayAt(task[e], op[e], cqe[e], held[e], consumed[e], NextFor(Other(e)),
               reset[Other(e)])
Forwarded ==
  task["app"] = "remaining" =>
    /\ Whole("app")
    /\ WriteAt(op["app"], cqe["app"], held["remote"], consumed["remote"],
               NextFor("app"), reset["app"])

\* Who may have shut what down.
Shutdowns ==
  /\ \A e \in Ends : rdShut[e] \/ wrShut[e] => started
  /\ \A e \in Ends :
       /\ rdShut[e] => wrShut[e] /\ readDone[Other(e)]
       /\ wrShut[Other(e)] /\ ~rdShut[Other(e)]
            => task[e] = "done" \/ (task[e] = "shut" /\ op[e] = "complete")

\* What has been said to either end before the relays start.
Spoke == op["app"] = "complete" /\ cqe["app"] > 0
Talks ==
  /\ task["app"] \in {"created", "greeting"} => sent["app"] = << >>
  /\ task["app"] \in {"refuse", "accept"} =>
       sent["app"] = IF Spoke THEN << Says >> ELSE << >>
  /\ task["app"] \in Building \cup {"request"} => sent["app"] = << Accepted >>
  /\ task["app"] = "reply" =>
       sent["app"] = IF Spoke THEN << Accepted, Says >> ELSE << Accepted >>
  /\ task["app"] \in Asking \cup {"connect", "tls"} => sent["remote"] = << >>
  /\ task["app"] = "header" => sent["remote"] = IF Spoke THEN << Header >> ELSE << >>
  /\ task["app"] = "response" => sent["remote"] = << Header >>
  /\ task["app"] = "reply" /\ reply = "ok" /\ mode = "tcp" =>
       /\ sent["remote"] = << Header >>
       /\ consumed["remote"] >= RespLen /\ held["remote"] = Remaining
  /\ task["app"] = "remaining" => sent["remote"] = << Header >>

Counts ==
  \A e \in Ends : consumed[e] <= produced[e] /\ drained[e] <= Len(sent[e])

\* What the patience of an application leaves unread of it when the relays start.
Waited ==
  /\ produced["app"] > Prologue("app") => Granted
  /\ task["app"] \in Building \cup {"reply", "remaining"} => consumed["app"] >= Prologue("app")
  /\ task["app"] \in Building \cup {"remaining"} => consumed["app"] <= Prologue("app")
  /\ task["app"] = "reply" /\ reply = "ok" /\ mode = "tcp" => consumed["app"] = Prologue("app")

\* There is nothing left to receive from e, now or later.
Exhausted(e) ==
  reset[e] \/ (consumed[e] = produced[e] /\ (peerFin[e] \/ rdShut[e]))

\* A relay ends only when its stream is exhausted or its reader is gone.
Ending(e) ==
  ~dangling =>
    /\ task[e] = "read" /\ op[e] = "complete" /\ cqe[e] <= 0 => Exhausted(e)
    /\ task[e] = "shut" => Exhausted(e)
    /\ task[e] = "done" /\ started => Exhausted(e) \/ reset[Other(e)]

IInv ==
  /\ Inv /\ Shutdowns /\ Talks /\ Counts
  /\ patient => Waited /\ Forwarded /\ \A e \in Ends : Carried(e) /\ Ending(e)
-----------------------------------------------------------------------------
(* Writers and relays, wherever they stand.                                 *)

\* A reader that goes away asks for nothing more.
LEMMA GoneLater ==
  ASSUME NEW pc, NEW o, NEW r, NEW h, NEW c, NEW n,
         NEW gone \in BOOLEAN, NEW later \in BOOLEAN, gone => later
  PROVE  /\ WriteAt(o, r, h, c, n, gone) => WriteAt(o, r, h, c, n, later)
         /\ RelayAt(pc, o, r, h, c, n, gone) => RelayAt(pc, o, r, h, c, n, later)
<1>1. WriteAt(o, r, h, c, n, gone) => WriteAt(o, r, h, c, n, later)
  BY Zenon DEF WriteAt
<1> QED
  BY <1>1, Zenon DEF RelayAt

\* A chunk that has been read is the next the reader is to get.
LEMMA WriteBegins ==
  ASSUME NEW r, NEW c \in Nat, NEW n \in Int, NEW k \in Nat, 0 < k,
         NEW gone \in BOOLEAN, gone \/ n + k = c + 1
  PROVE  WriteAt("posted", r, Run(c - k + 1, k), c, n, gone)
<1> DEFINE h == Run(c - k + 1, k)
<1>1. Len(h) = k
  BY RunType
<1>2. h = Run(c - Len(h) + 1, Len(h))
  BY <1>1
<1> HIDE DEF h
<1> QED
  BY <1>1, <1>2 DEF WriteAt, h

\* A send that takes k bytes takes the next ones.
LEMMA WriteSends ==
  ASSUME NEW r, NEW h \in Seq(Int), NEW c \in Nat, NEW n \in Int,
         WriteAt("posted", r, h, c, n, FALSE), NEW k \in 1 .. Len(h)
  PROVE  /\ SubSeq(h, 1, k) = Run(n, k) /\ n + k <= c + 1
         /\ WriteAt("complete", k, h, c, n + k, FALSE)
<1> DEFINE l == Len(h)
<1>1. l \in Nat /\ 0 < l /\ h = Run(c - l + 1, l) /\ n + l = c + 1
  BY LenProperties DEF WriteAt
<1>2. k \in Nat /\ 0 < k /\ k <= l
  BY <1>1
<1> HIDE DEF l
<1>3. c - l + 1 = n /\ k \in 0 .. l /\ n + k <= c + 1 /\ (n + k) + l = c + 1 + k
  BY <1>1, <1>2
<1>4. h = Run(n, l)
  BY <1>1, <1>3
<1>5. SubSeq(h, 1, k) = Run(n, k)
  BY <1>1, <1>3, <1>4, RunPrefix
<1>6. ~(k <= 0)
  BY <1>2
<1> QED
  BY <1>1, <1>2, <1>3, <1>5, <1>6 DEF WriteAt, l

\* A send on a dead socket fails, and leaves the writer with a dead reader.
LEMMA WriteFails ==
  ASSUME NEW r, NEW h, NEW c, NEW n, NEW gone, WriteAt("posted", r, h, c, n, gone)
  PROVE  WriteAt("complete", -1, h, c, n, TRUE)
BY DEF WriteAt

\* writeFull() goes on with the rest of a chunk ...
LEMMA WriteGoesOn ==
  ASSUME NEW h \in Seq(Int), NEW c \in Nat, NEW n \in Int, NEW r \in Int, NEW gone \in BOOLEAN,
         WriteAt("complete", r, h, c, n, gone), 0 < r, r < Len(h), NEW s
  PROVE  WriteAt("posted", s, SubSeq(h, r + 1, Len(h)), c, n, gone)
<1> DEFINE l == Len(h)
           k == l - r
<1>1. l \in Nat /\ h = Run(c - l + 1, l) /\ (gone \/ n + l = c + 1 + r) /\ r < l
  BY LenProperties DEF WriteAt
<1> HIDE DEF l
<1>2. k \in Nat /\ 0 < k /\ r \in 0 .. l /\ c - l + 1 \in Int
      /\ c - l + 1 + r = c - k + 1
      /\ (gone \/ n + k = c + 1)
  BY <1>1
<1>3. SubSeq(h, r + 1, l) = Run(c - l + 1 + r, k)
  BY <1>1, <1>2, RunSuffix
<1>4. SubSeq(h, r + 1, l) = Run(c - k + 1, k)
  BY <1>2, <1>3
<1> HIDE DEF k
<1> QED
  BY <1>2, <1>4, WriteBegins DEF l

\* ... or returns: all of it has gone out, or its reader is gone.
LEMMA WriteReturns ==
  ASSUME NEW h \in Seq(Int), NEW c \in Nat, NEW n \in Int, NEW r \in Int, NEW gone \in BOOLEAN,
         WriteAt("complete", r, h, c, n, gone), r >= Len(h) \/ r <= 0
  PROVE  gone \/ n = c + 1
<1>1. CASE r <= 0
  BY <1>1 DEF WriteAt
<1>2. CASE ~(r <= 0)
  <2> DEFINE l == Len(h)
  <2>1. l \in Nat /\ 0 < l /\ r <= l /\ (gone \/ n + l = c + 1 + r) /\ l <= r
    BY <1>2, LenProperties DEF WriteAt
  <2> HIDE DEF l
  <2> QED
    BY <2>1
<1> QED
  BY <1>1, <1>2

-----------------------------------------------------------------------------
(* What has been sent.                                                      *)

\* Each end has one opposite.
LEMMA OtherEnd ==
  ASSUME NEW e \in Ends
  PROVE  /\ Other(e) \in Ends /\ Other(e) # e /\ Other(Other(e)) = e
         /\ \A o \in Ends : o # e => o = Other(e)
BY DEF Other, Ends

\* The numbers a stream is counted with.
LEMMA StreamTypes ==
  ASSUME TypeOK, NEW e \in Ends
  PROVE  /\ sent[e] \in Seq(Int) /\ Len(sent[e]) \in Nat
         /\ Prologue(e) \in Nat \ {0} /\ Preface(e) \in Nat /\ NextFor(e) \in Int
         /\ consumed[e] \in Nat /\ produced[e] \in Nat /\ drained[e] \in Nat
         /\ cqe[e] \in Int /\ held[e] \in Seq(Int) /\ reset[e] \in BOOLEAN
         /\ Len(Before(e)) = Preface(e) /\ Before(e) \in Seq(Int)
<1>1. \A d \in Ends : Prologue(d) \in Nat \ {0} /\ Preface(d) \in Nat
  BY Socks5Assumption DEF Prologue, Preface, Ends
<1>2. sent[e] \in Seq(Int) /\ Len(sent[e]) \in Nat
  BY LenProperties DEF TypeOK
<1>3. NextFor(e) \in Int
  BY <1>1, <1>2, OtherEnd DEF NextFor
<1>4. Len(Before(e)) = Preface(e) /\ Before(e) \in Seq(Int)
  BY DEF Before, Preface, Ends, Accepted, Success, Header
<1> QED
  BY <1>1, <1>2, <1>3, <1>4 DEF TypeOK

\* Three pieces of a stream are put together in either order.
LEMMA Chain ==
  ASSUME NEW s \in Seq(Int), NEW t \in Seq(Int), NEW u \in Seq(Int)
  PROVE  (s \o t) \o u = s \o (t \o u)
OBVIOUS

\* A send to d of the bytes it is to get next leaves no gap.
LEMMA WholeGrows ==
  ASSUME TypeOK, NEW d \in Ends, Whole(d), NEW k \in Nat,
         sent' = [sent EXCEPT ![d] = @ \o Run(NextFor(d), k)]
  PROVE  Whole(d)' /\ NextFor(d)' = NextFor(d) + k /\ Len(sent'[d]) = Len(sent[d]) + k
<1> DEFINE s == sent[d]
           f == Prologue(Other(d)) + 1
           p == Preface(d)
           m == Len(s) - p
           b == Before(d)
<1>1. /\ s \in Seq(Int) /\ Len(s) \in Nat /\ p \in Nat /\ f \in Int /\ p <= Len(s)
      /\ s = b \o Run(f, m) /\ b \in Seq(Int) /\ NextFor(d) \in Int
  BY StreamTypes, OtherEnd DEF Whole
<1>2. m \in Nat /\ NextFor(d) = f + m
  <2>1. Prologue(Other(d)) \in Nat /\ m \in Nat
    BY <1>1, StreamTypes, OtherEnd
  <2> DEFINE x == Prologue(Other(d))
  <2>2. NextFor(d) = x + m + 1 /\ f = x + 1
    BY DEF NextFor
  <2> HIDE DEF x, m, f
  <2> QED
    BY <2>1, <2>2 DEF x
<1>3. sent'[d] = s \o Run(NextFor(d), k)
  BY DEF TypeOK
<1> HIDE DEF s, b, f, m
<1>4. /\ Run(f, m) \in Seq(Int) /\ Run(f + m, k) \in Seq(Int) /\ Len(Run(f + m, k)) = k
      /\ Run(f, m) \o Run(f + m, k) = Run(f, m + k)
  BY <1>1, <1>2, RunType, RunConcat
<1>5. s \o Run(f + m, k) = b \o Run(f, m + k)
  <2> DEFINE x == Run(f, m)
             y == Run(f + m, k)
  <2>1. x \in Seq(Int) /\ y \in Seq(Int) /\ x \o y = Run(f, m + k) /\ s = b \o x
    BY <1>1, <1>4
  <2> HIDE DEF x, y
  <2>0. b \in Seq(Int)
    BY <1>1
  <2>2. (b \o x) \o y = b \o (x \o y)
    BY <2>0, <2>1, Chain
  <2> QED
    BY <2>1, <2>2 DEF y
<1>6. Len(sent'[d]) = Len(s) + k
  BY <1>1, <1>2, <1>3, <1>4, ConcatProperties
<1>7. Len(sent'[d]) - p = m + k /\ p <= Len(sent'[d])
  BY <1>1, <1>6 DEF m
<1>8. sent'[d] = b \o Run(f, Len(sent'[d]) - p)
  BY <1>2, <1>3, <1>5, <1>7
<1>9. Whole(d)'
  BY <1>7, <1>8 DEF Whole, b, f, p
<1>10. NextFor(d)' = NextFor(d) + k
  <2>1. NextFor(d)' = Prologue(Other(d)) + (Len(sent'[d]) - p) + 1
    BY DEF NextFor
  <2>2. Prologue(Other(d)) \in Nat
    BY StreamTypes, OtherEnd
  <2> QED
    BY <1>2, <1>7, <2>1, <2>2 DEF f
<1> QED
  BY <1>6, <1>9, <1>10 DEF s

-----------------------------------------------------------------------------
(* What a step does to the streams.                                         *)

\* clientTask resumes in the handshakes or while it hands over what came with
\* the response; either task resumes in its relay.
LEMMA ResumeKinds ==
  ASSUME TypeOK, Control, NEW e \in Ends, Resume(e)
  PROVE  \/ e = "app" /\ ~started /\ Handshake
         \/ e = "app" /\ ~started /\ task[e] = "remaining" /\ OnWrite(e)
         \/ /\ started /\ task[e] \in Relaying
            /\ OnRead(e) \/ (OnWrite(e) /\ task[e] = "write") \/ OnShut(e)
<1>1. CASE e = "app" /\ Handshake
  <2>1. task["app"] \in Asking \cup Building \cup {"reply", "control"}
    BY <1>1 DEF Handshake, OnGreeting, OnRefuse, OnAccept, OnRequest, OnConnect, OnTls,
                OnHeader, OnResponse, OnReply, OnControl, Dispatched, Asking, Building
  <2> QED
    BY <1>1, <2>1 DEF Control
<1>2. CASE OnWrite(e) /\ task[e] = "remaining"
  BY <1>2 DEF Control, Ends, Relaying
<1>3. CASE OnRead(e) \/ (OnWrite(e) /\ task[e] = "write") \/ OnShut(e)
  BY <1>3 DEF OnRead, OnShut, Dispatched, Control, Ends, Relaying
<1> QED
  BY <1>1, <1>2, <1>3 DEF Resume, OnWrite

\* The end of a coroutine: nothing the peers see changes but the shutdowns.
LEMMA FinishEffect ==
  ASSUME TypeOK, NEW e \in Ends, Finish(e) \/ \E u : e = "app" /\ FinishClient(u)
  PROVE  /\ Return(e)
         /\ UNCHANGED <<patient, tls, mode, reply, dangling, started, live, fd,
                        produced, peerFin, reset, refused, drained, consumed, sent>>
         /\ \/ UNCHANGED <<rdShut, wrShut>>
            \/ (e = "app" => started) /\ ShutdownBoth(Other(e))
BY DEF Finish, FinishClient, FinishRemote, KeepOpen, Other, Ends, choices, peers, wire

\* What clientTask may do in the handshakes.
LEMMA HandshakeEffect ==
  ASSUME TypeOK, Handshake
  PROVE  \/ \E u : FinishClient(u)
         \/ StartRelays
         \/ /\ UNCHANGED <<patient, tls, dangling, started, live, readDone, rdShut, wrShut,
                           produced, peerFin, reset, refused, drained, consumed, sent>>
            /\ \E pc \in PCs \ {"none", "created", "read", "write", "shut", "done"} :
                 Suspend("app", pc)
<1> DEFINE Goes == \E pc \in PCs \ {"none", "created", "read", "write", "shut", "done"} :
                     Suspend("app", pc)
           Keeps == UNCHANGED <<patient, tls, dangling, started, live, readDone, rdShut, wrShut,
                           produced, peerFin, reset, refused, drained, consumed, sent>>
<1>p. ASSUME NEW pc \in PCs \ {"none", "created", "read", "write", "shut", "done"},
             Proceed(pc)
      PROVE  Keeps /\ Goes
  BY <1>p DEF Proceed, choices, flags, sockets, peers, wire
<1>r. ASSUME NEW m, RefuseRequest(m) PROVE Keeps /\ Goes
  BY <1>r DEF RefuseRequest, choices, flags, peers, wire, PCs
<1>s. ASSUME Serve PROVE Keeps /\ Goes
  BY <1>s, <1>r DEF Serve, BeginTunnel, BindUdp, choices, flags, peers, wire, PCs
<1>1. CASE OnGreeting \/ OnRefuse \/ OnAccept \/ OnRequest
  BY <1>1, <1>p, <1>s DEF OnGreeting, OnRefuse, OnAccept, OnRequest, PCs
<1>2. CASE OnConnect \/ OnTls \/ OnHeader
  BY <1>2, <1>p, <1>r DEF OnConnect, OnTls, OnHeader, PCs
<1>3. CASE OnResponse
  <2>1. CASE Suspend("app", "reply") /\ UNCHANGED <<choices, dangling, flags, rdShut, wrShut, peers, wire>>
    BY <2>1 DEF choices, flags, peers, wire, PCs
  <2> HIDE DEF Goes, Keeps
  <2> QED
    BY <1>3, <1>p, <1>r, <2>1 DEF OnResponse, PCs, Goes, Keeps
<1>4. CASE OnReply
  <2>1. CASE StartUdpRelay
    BY <2>1 DEF StartUdpRelay, choices, flags, peers, wire, PCs
  <2> HIDE DEF Goes, Keeps
  <2> QED
    BY <1>4, <1>p, <2>1 DEF OnReply, PCs, Goes, Keeps
<1>5. CASE OnControl
  BY <1>5, <1>p DEF OnControl, PCs
<1> QED
  BY <1>1, <1>2, <1>3, <1>4, <1>5 DEF Handshake

\* A resumption takes nothing from the sockets and puts nothing into them.
LEMMA ResumeEffect ==
  ASSUME TypeOK, NEW e \in Ends, Resume(e)
  PROVE  /\ UNCHANGED <<patient, tls, live, produced, peerFin, reset, refused, drained,
                        consumed, sent>>
         /\ dangling => dangling'
         /\ started => started'
<1>1. CASE e = "app" /\ Handshake
  <2>1. CASE \E u : FinishClient(u)
    BY <2>1 DEF FinishClient, choices, peers, wire
  <2>2. CASE StartRelays
    BY <2>2 DEF StartRelays, choices, sockets, peers, wire
  <2> QED
    BY <1>1, <2>1, <2>2, HandshakeEffect
<1>2. CASE OnRead(e)
  BY <1>2 DEF OnRead, choices, flags, peers, wire
<1>3. CASE Finish(e)
  BY <1>3, FinishEffect
<1>4. CASE OnWrite(e) /\ ~Finish(e)
  <2>1. CASE ReadOn(e)
    BY <2>1 DEF ReadOn, choices, flags, peers, wire
  <2>2. CASE StartRelays
    BY <2>2 DEF StartRelays, choices, sockets, peers, wire
  <2>3. CASE UNCHANGED <<choices, dangling, flags, peers, wire>>
    BY <2>3 DEF choices, flags, peers, wire
  <2> QED
    BY <1>4, <2>1, <2>2, <2>3 DEF OnWrite
<1> QED
  BY <1>1, <1>2, <1>3, <1>4 DEF Resume, OnShut

\* A completion leaves the coroutines' buffers and the peers alone.
LEMMA CompletionEffect ==
  ASSUME TypeOK, NEW e \in Ends, Kernel(e)
  PROVE  /\ op[e] = "posted" /\ op'[e] = "complete"
         /\ \A o \in Ends : o # e => op'[o] = op[o] /\ cqe'[o] = cqe[o]
         /\ UNCHANGED <<patient, tls, mode, reply, task, held, partial, raw, dangling,
                        readDone, started, closed, live, remoteFd, udp,
                        produced, peerFin, reset, refused, drained>>
<1>1. op[e] = "posted"
  BY DEF Kernel, KernelRecv, KernelSend, KernelShut, KernelSay, KernelConnect, KernelTls
<1>2. PICK r : Complete(e, r)
  BY DEF Kernel, KernelRecv, KernelSend, KernelShut, KernelSay, KernelConnect, KernelTls
<1> QED
  BY <1>1, <1>2 DEF Complete, TypeOK, flags, choices, peers

\* What a completion may change of the flags of the sockets.
LEMMA CompletionShuts ==
  ASSUME TypeOK, NEW e \in Ends, Kernel(e)
  PROVE  \/ UNCHANGED <<rdShut, wrShut>>
         \/ /\ task[e] = "shut" /\ UNCHANGED rdShut
            /\ wrShut' = [wrShut EXCEPT ![Other(e)] = TRUE]
BY DEF Kernel, KernelRecv, KernelSend, KernelShut, KernelSay, KernelConnect, KernelTls

\* A peer leaves the coroutines and the sockets alone.
LEMMA PeerLeaves ==
  ASSUME NEW e \in Ends, Peer(e)
  PROVE  /\ UNCHANGED <<patient, tls, mode, reply, task, op, cqe, held, partial, raw,
                        dangling, readDone, started, closed, live, fd, remoteFd, udp,
                        rdShut, wrShut, consumed, sent>>
BY DEF Peer, PeerSend, PeerFin, PeerReset, PeerRead, Untouched, choices, coroutines,
       flags, sockets, wire

\* What has happened stays so.
LEMMA FlagsRise ==
  ASSUME TypeOK, [Next]_vars, NEW e \in Ends
  PROVE  /\ rdShut[e] => rdShut'[e]
         /\ wrShut[e] => wrShut'[e]
         /\ reset[e] => reset'[e]
         /\ peerFin[e] => peerFin'[e]
         /\ started => started'
         /\ dangling => dangling'
<1>1. CASE Start \/ Reclaim \/ UNCHANGED vars
  BY <1>1 DEF Start, Proceed, Reclaim, choices, coroutines, flags, sockets, peers, vars
<1>2. ASSUME NEW o \in Ends, Resume(o)
      PROVE  (rdShut[e] => rdShut'[e]) /\ (wrShut[e] => wrShut'[e])
  <2>1. CASE Finish(o) \/ \E u : o = "app" /\ FinishClient(u)
    <3>1. UNCHANGED <<rdShut, wrShut>> \/ ShutdownBoth(Other(o))
      BY <2>1, FinishEffect
    <3> QED
      BY <3>1 DEF ShutdownBoth, TypeOK
  <2>2. CASE o = "app" /\ Handshake
    BY <2>1, <2>2, HandshakeEffect DEF StartRelays, sockets
  <2>3. CASE (OnRead(o) \/ OnWrite(o) \/ OnShut(o)) /\ ~Finish(o)
    BY <2>3 DEF OnRead, OnWrite, OnShut, ReadOn, StartRelays, sockets
  <2> QED
    BY <1>2, <2>1, <2>2, <2>3 DEF Resume
<1>3. ASSUME NEW o \in Ends, Kernel(o)
      PROVE  (rdShut[e] => rdShut'[e]) /\ (wrShut[e] => wrShut'[e])
  BY <1>3, CompletionShuts DEF TypeOK
<1>4. ASSUME NEW o \in Ends, Peer(o)
      PROVE  (reset[e] => reset'[e]) /\ (peerFin[e] => peerFin'[e])
  BY <1>4 DEF Peer, PeerSend, PeerFin, PeerReset, PeerRead, TypeOK
<1> QED
  BY <1>1, <1>2, <1>3, <1>4, ResumeEffect, CompletionEffect, PeerLeaves DEF Next, Reclaimed

-----------------------------------------------------------------------------
(* The shutdowns, and the counts.                                           *)

\* Every step keeps the shutdowns in their order.
LEMMA ShutdownsStep ==
  ASSUME Inv, Shutdowns, [Next]_vars
  PROVE  Shutdowns'
<1>t. TypeOK /\ Control
  BY DEF Inv
<1>1. CASE UNCHANGED <<task, op, readDone, started, rdShut, wrShut>>
  BY <1>1 DEF Shutdowns
<1>2. CASE ~started /\ UNCHANGED <<rdShut, wrShut>>
  BY <1>2, EndsType DEF Shutdowns
<1>3. ASSUME NEW e \in Ends, Resume(e) PROVE Shutdowns'
  <2>1. CASE ~started
    <3>1. CASE Finish(e) \/ \E u : e = "app" /\ FinishClient(u)
      <4>1. e = "app"
        BY <1>3, <1>t, <2>1, ResumeKinds
      <4> QED
        BY <1>2, <1>t, <2>1, <3>1, <4>1, FinishEffect
    <3>2. CASE ~(Finish(e) \/ \E u : e = "app" /\ FinishClient(u))
      <4>1. CASE Handshake /\ e = "app"
        BY <1>2, <1>t, <2>1, <3>2, <4>1, HandshakeEffect DEF StartRelays, sockets
      <4>2. CASE OnWrite(e)
        BY <1>2, <2>1, <3>2, <4>2 DEF OnWrite, ReadOn, StartRelays, sockets
      <4> QED
        BY <1>3, <1>t, <2>1, <4>1, <4>2, ResumeKinds
    <3> QED
      BY <3>1, <3>2
  <2>2. CASE started /\ Finish(e)
    <3>1. /\ task'[e] = "done" /\ readDone'[e]
          /\ \A o \in Ends : o # e =>
               task'[o] = task[o] /\ op'[o] = op[o] /\ readDone'[o] = readDone[o]
      BY <1>t, <2>2, FinishEffect, ReturnEffect
    <3>2. started' = started
      BY <1>t, <2>2, FinishEffect
    <3>3. UNCHANGED <<rdShut, wrShut>> \/ ShutdownBoth(Other(e))
      BY <1>t, <2>2, FinishEffect
    <3>4. CASE UNCHANGED <<rdShut, wrShut>>
      BY <2>2, <3>1, <3>2, <3>4, OtherEnd DEF Shutdowns
    <3>5. CASE ShutdownBoth(Other(e))
      <4>1. /\ rdShut'[Other(e)] /\ wrShut'[Other(e)]
            /\ \A o \in Ends : o # Other(e) => rdShut'[o] = rdShut[o] /\ wrShut'[o] = wrShut[o]
        BY <1>t, <3>5, OtherEnd DEF ShutdownBoth, TypeOK
      <4> QED
        BY <2>2, <3>1, <3>2, <4>1, OtherEnd DEF Shutdowns
    <3> QED
      BY <3>3, <3>4, <3>5
  <2>3. CASE started /\ ~Finish(e)
    <3>1. PICK pc : Suspend(e, pc)
      BY <1>3, <1>t, <2>3, ResumeKinds DEF OnRead, OnWrite, OnShut, ReadOn
    <3>2. UNCHANGED <<readDone, started, rdShut, wrShut>>
      BY <1>3, <1>t, <2>3, ResumeKinds DEF OnRead, OnWrite, OnShut, ReadOn, flags, sockets
    <3>3. task[e] \in {"read", "write"}
      BY <1>3, <1>t, <2>3, ResumeKinds DEF OnRead, OnShut, Dispatched
    <3>4. \A o \in Ends : o # e => task'[o] = task[o] /\ op'[o] = op[o]
      BY <1>t, <3>1, SuspendEffect
    <3> QED
      BY <2>3, <3>2, <3>3, <3>4 DEF Shutdowns
  <2> QED
    BY <2>1, <2>2, <2>3
<1>4. ASSUME NEW e \in Ends, Kernel(e) PROVE Shutdowns'
  <2>1. /\ op[e] = "posted" /\ op'[e] = "complete"
        /\ \A o \in Ends : o # e => op'[o] = op[o]
        /\ UNCHANGED <<task, readDone, started>>
    BY <1>4, <1>t, CompletionEffect
  <2>2. task[e] # "done"
    BY <1>t, <2>1 DEF Control
  <2>3. CASE UNCHANGED <<rdShut, wrShut>>
    BY <2>1, <2>2, <2>3 DEF Shutdowns
  <2>4. CASE /\ task[e] = "shut" /\ UNCHANGED rdShut
             /\ wrShut' = [wrShut EXCEPT ![Other(e)] = TRUE]
    <3>1. /\ wrShut'[Other(e)]
          /\ \A o \in Ends : o # Other(e) => wrShut'[o] = wrShut[o]
      BY <1>t, <2>4, OtherEnd DEF TypeOK
    <3>2. started
      BY <1>t, <2>4 DEF Control, Relaying, Ends
    <3> QED
      BY <2>1, <2>4, <3>1, <3>2, OtherEnd DEF Shutdowns
  <2> QED
    BY <1>4, <1>t, <2>3, <2>4, CompletionShuts
<1>5. CASE Start
  BY <1>2, <1>5, <1>t DEF Start, Proceed, sockets, Control, Asking
<1>6. CASE Reclaim \/ UNCHANGED vars
  BY <1>1, <1>6 DEF Reclaim, vars, coroutines, sockets
<1>7. ASSUME NEW e \in Ends, Peer(e) PROVE Shutdowns'
  BY <1>1, <1>7, PeerLeaves
<1> QED
  BY <1>3, <1>4, <1>5, <1>6, <1>7 DEF Next, Reclaimed

\* What a completion does to the numbers of bytes.
LEMMA CompletionWire ==
  ASSUME TypeOK, NEW e \in Ends, Kernel(e)
  PROVE  \/ UNCHANGED wire
         \/ \E n \in 1 .. (produced[Reads(e)] - consumed[Reads(e)]) :
              /\ KernelRecv(e) /\ Complete(e, n)
              /\ consumed' = [consumed EXCEPT ![Reads(e)] = @ + n]
              /\ UNCHANGED <<sent, rdShut, wrShut>>
         \/ \E n \in 1 .. Len(held[Source(e)]) :
              /\ KernelSend(e) /\ Complete(e, n)
              /\ ~wrShut[Other(Source(e))] /\ ~reset[Other(Source(e))]
              /\ sent' = [sent EXCEPT ![Other(Source(e))]
                            = @ \o SubSeq(held[Source(e)], 1, n)]
              /\ UNCHANGED <<consumed, rdShut, wrShut>>
         \/ \E d \in Ends :
              /\ e = "app" /\ KernelSay /\ Complete("app", 1)
              /\ d = (IF task["app"] = "header" THEN "remote" ELSE "app")
              /\ sent' = [sent EXCEPT ![d] = Append(@, Says)]
              /\ UNCHANGED <<consumed, rdShut, wrShut>>
<1>1. CASE KernelRecv(e)
  BY <1>1 DEF KernelRecv, wire
<1>2. CASE KernelSend(e)
  <2> DEFINE d == Other(Source(e))
             room == SendCap - (Len(sent[d]) - drained[d])
             h == held[Source(e)]
  <2>1. Source(e) \in Ends /\ d \in Ends
    BY EndsType DEF Source
  <2>2. sent[d] \in Seq(Int) /\ drained[d] \in Nat /\ h \in Seq(Int)
    BY <2>1 DEF TypeOK
  <2>3. room \in Int /\ Len(h) \in Nat
    BY <2>2, LenProperties, Socks5Assumption
  <2>4. ASSUME NEW n \in 1 .. Min2(room, Len(h)) PROVE n \in 1 .. Len(h)
    BY <2>3, <2>4 DEF Min2
  <2> HIDE DEF room, h, d
  <2>5. \/ UNCHANGED wire
        \/ \E n \in 1 .. Min2(room, Len(h)) :
             /\ Complete(e, n) /\ ~wrShut[d] /\ ~reset[d]
             /\ sent' = [sent EXCEPT ![d] = @ \o SubSeq(h, 1, n)]
             /\ UNCHANGED <<consumed, rdShut, wrShut>>
    BY <1>2 DEF KernelSend, wire, room, h, d
  <2> QED
    BY <1>2, <2>4, <2>5 DEF h, d
<1>3. CASE e = "app" /\ KernelSay
  BY <1>3, EndsType DEF KernelSay, wire
<1>4. CASE KernelShut(e) \/ (e = "app" /\ (KernelConnect \/ KernelTls))
  BY <1>4 DEF KernelShut, KernelConnect, KernelTls, wire
<1> QED
  BY <1>1, <1>2, <1>3, <1>4 DEF Kernel

\* What is sent only grows.
LEMMA SentGrows ==
  ASSUME TypeOK, NEW e \in Ends, Kernel(e), NEW d \in Ends
  PROVE  Len(sent[d]) <= Len(sent'[d])
<1>0. sent[d] \in Seq(Int) /\ Len(sent[d]) \in Nat
  BY LenProperties DEF TypeOK
<1>1. CASE UNCHANGED sent
  BY <1>0, <1>1
<1>2. ASSUME NEW n \in 1 .. Len(held[Source(e)]), NEW x \in Ends,
             sent' = [sent EXCEPT ![x] = @ \o SubSeq(held[Source(e)], 1, n)]
      PROVE  Len(sent[d]) <= Len(sent'[d])
  <2>1. Source(e) \in Ends
    BY EndsType DEF Source
  <2>2. held[Source(e)] \in Seq(Int)
    BY <2>1 DEF TypeOK
  <2>3. SubSeq(held[Source(e)], 1, n) \in Seq(Int)
    BY <2>2, SubSeqProperties, LenProperties, ElementOfSeq
  <2>4. Len(sent[d] \o SubSeq(held[Source(e)], 1, n)) >= Len(sent[d])
    BY <1>0, <2>3, ConcatProperties, LenProperties
  <2>5. sent'[d] = sent[d] \/ sent'[d] = sent[d] \o SubSeq(held[Source(e)], 1, n)
    BY <1>2 DEF TypeOK
  <2> QED
    BY <1>0, <2>4, <2>5
<1>3. ASSUME NEW x \in Ends, sent' = [sent EXCEPT ![x] = Append(@, Says)]
      PROVE  Len(sent[d]) <= Len(sent'[d])
  <2>1. sent'[d] = sent[d] \/ sent'[d] = Append(sent[d], Says)
    BY <1>3 DEF TypeOK
  <2>2. Len(Append(sent[d], Says)) = Len(sent[d]) + 1
    BY <1>0
  <2> QED
    BY <1>0, <2>1, <2>2
<1>4. Other(Source(e)) \in Ends
  BY EndsType DEF Source
<1> QED
  BY <1>1, <1>2, <1>3, <1>4, CompletionWire DEF wire

\* Every step keeps the counts.
LEMMA CountsStep ==
  ASSUME TypeOK, TypeOK', Counts, [Next]_vars
  PROVE  Counts'
<1>1. CASE UNCHANGED <<consumed, produced, drained, sent>>
  BY <1>1 DEF Counts
<1>2. ASSUME NEW e \in Ends, Peer(e), NEW d \in Ends
      PROVE  consumed'[d] <= produced'[d] /\ drained'[d] <= Len(sent'[d])
  <2>1. /\ consumed[d] <= produced[d] /\ drained[d] <= Len(sent[d])
        /\ consumed' = consumed /\ sent' = sent
        /\ consumed[d] \in Nat /\ produced[d] \in Nat /\ drained[d] \in Nat
        /\ Len(sent[d]) \in Nat
    BY <1>2, PeerLeaves, StreamTypes DEF Counts
  <2>2. produced'[d] = produced[d] \/ produced'[d] = produced[d] + 1
    <3>1. UNCHANGED produced \/ produced' = [produced EXCEPT ![e] = @ + 1]
      BY <1>2 DEF Peer, PeerSend, PeerFin, PeerReset, PeerRead
    <3>2. CASE d = e
      BY <3>1, <3>2 DEF TypeOK
    <3>3. CASE d # e
      BY <3>1, <3>3 DEF TypeOK
    <3> QED
      BY <3>2, <3>3
  <2>3. drained'[d] = drained[d] \/ (drained'[d] = drained[d] + 1 /\ drained[d] < Len(sent[d]))
    <3>1. \/ UNCHANGED drained
          \/ drained' = [drained EXCEPT ![e] = @ + 1] /\ drained[e] < Len(sent[e])
      BY <1>2 DEF Peer, PeerSend, PeerFin, PeerReset, PeerRead
    <3>2. CASE d = e
      BY <3>1, <3>2 DEF TypeOK
    <3>3. CASE d # e
      BY <3>1, <3>3 DEF TypeOK
    <3> QED
      BY <3>2, <3>3
  <2> QED
    BY <2>1, <2>2, <2>3
<1>3. ASSUME NEW e \in Ends, Kernel(e), NEW d \in Ends
      PROVE  consumed'[d] <= produced'[d] /\ drained'[d] <= Len(sent'[d])
  <2>1. /\ consumed[d] <= produced[d] /\ drained[d] <= Len(sent[d])
        /\ produced' = produced /\ drained' = drained
        /\ consumed[d] \in Nat /\ produced[d] \in Nat /\ drained[d] \in Nat
        /\ Len(sent[d]) \in Nat /\ Len(sent'[d]) \in Nat
    BY <1>3, CompletionEffect, StreamTypes, LenProperties DEF Counts, TypeOK
  <2>2. Len(sent[d]) <= Len(sent'[d])
    BY <1>3, SentGrows
  <2>3. consumed'[d] = consumed[d]
        \/ \E n \in 1 .. (produced[d] - consumed[d]) : consumed'[d] = consumed[d] + n
    <3>1. \/ consumed' = consumed
          \/ \E n \in 1 .. (produced[Reads(e)] - consumed[Reads(e)]) :
               consumed' = [consumed EXCEPT ![Reads(e)] = @ + n]
      BY <1>3, CompletionWire DEF wire
    <3>2. CASE consumed' = consumed
      BY <3>2
    <3>3. ASSUME NEW n \in 1 .. (produced[Reads(e)] - consumed[Reads(e)]),
                 consumed' = [consumed EXCEPT ![Reads(e)] = @ + n]
          PROVE  consumed'[d] = consumed[d]
                  \/ \E m \in 1 .. (produced[d] - consumed[d]) : consumed'[d] = consumed[d] + m
      <4>1. CASE d = Reads(e)
        BY <3>3, <4>1 DEF TypeOK
      <4>2. CASE d # Reads(e)
        BY <3>3, <4>2 DEF TypeOK
      <4> QED
        BY <4>1, <4>2
    <3> QED
      BY <3>1, <3>2, <3>3
  <2> QED
    BY <2>1, <2>2, <2>3
<1>4. ASSUME NEW e \in Ends, Resume(e) PROVE Counts'
  BY <1>1, <1>4, ResumeEffect
<1>5. CASE Start \/ Reclaim \/ UNCHANGED vars
  BY <1>1, <1>5 DEF Start, Proceed, Reclaim, vars, wire, peers
<1>6. CASE \E e \in Ends : Peer(e) \/ Kernel(e)
  BY <1>2, <1>3, <1>6 DEF Counts
<1> QED
  BY <1>4, <1>5, <1>6 DEF Next, Reclaimed

-----------------------------------------------------------------------------
(* What has been said.                                                      *)

\* A second word after the first.
LEMMA TwoWords ==
  ASSUME NEW a \in Int, NEW x \in Int
  PROVE  Append(<< a >>, x) = << a, x >>
<1>1. \A s \in Seq(Int) : Len(s) = 1 /\ s[1] = a =>
        /\ Append(s, x) \in Seq(Int) /\ Len(Append(s, x)) = 2
        /\ Append(s, x)[1] = a /\ Append(s, x)[2] = x
  <2> SUFFICES ASSUME NEW s \in Seq(Int), Len(s) = 1, s[1] = a
               PROVE  /\ Append(s, x) \in Seq(Int) /\ Len(Append(s, x)) = 2
                      /\ Append(s, x)[1] = a /\ Append(s, x)[2] = x
    OBVIOUS
  <2>0. /\ Append(s, x) \in Seq(Int) /\ Len(Append(s, x)) = Len(s) + 1
        /\ Append(s, x)[Len(s) + 1] = x
        /\ \A i \in 1 .. Len(s) : Append(s, x)[i] = s[i]
    <3>1. s \in Seq(Int) /\ x \in Int
      OBVIOUS
    <3> QED
      BY <3>1, AppendProperties, ZenonT(30)
  <2>1. Append(s, x) \in Seq(Int) /\ Len(Append(s, x)) = 2
    BY <2>0
  <2>2. Append(s, x)[1] = s[1]
    BY <2>0
  <2>3. Append(s, x)[2] = x
    BY <2>0
  <2> QED
    BY <2>1, <2>2, <2>3
<1>2. /\ << a >> \in Seq(Int) /\ Len(<< a >>) = 1 /\ << a >>[1] = a
      /\ << a, x >> \in Seq(Int) /\ Len(<< a, x >>) = 2
      /\ << a, x >>[1] = a /\ << a, x >>[2] = x
  OBVIOUS
<1> DEFINE t == Append(<< a >>, x)
           u == << a, x >>
<1>3. /\ t \in Seq(Int) /\ u \in Seq(Int) /\ Len(t) = 2 /\ Len(u) = 2
      /\ t[1] = u[1] /\ t[2] = u[2]
  BY <1>1, <1>2
<1> HIDE DEF t, u
<1>4. \A i \in 1 .. Len(t) : t[i] = u[i]
  BY <1>3
<1>5. t = u
  BY <1>3, <1>4, SeqEqual
<1> QED
  BY <1>5 DEF t, u

\* Once the relays run there is nothing left to say.
LEMMA TalksLate ==
  ASSUME Control', started' \/ task'["app"] \in {"control", "done"}
  PROVE  Talks'
BY DEF Control, Talks, Asking, Building

\* clientTask goes on to say something, or to hear something.
LEMMA TalksNext ==
  ASSUME TypeOK, NEW pc, Suspend("app", pc), UNCHANGED <<sent, consumed>>,
         pc # "created",
         pc \in {"greeting", "refuse", "accept"} => sent["app"] = << >>,
         pc \in Building \cup {"request", "reply"} => sent["app"] = << Accepted >>,
         pc \in Asking \cup {"connect", "tls", "header"} => sent["remote"] = << >>,
         pc \in {"response", "remaining"} => sent["remote"] = << Header >>,
         pc = "reply" /\ reply' = "ok" /\ mode' = "tcp" =>
           /\ sent["remote"] = << Header >>
           /\ consumed["remote"] >= RespLen /\ held'["remote"] = Remaining
  PROVE  Talks'
<1>1. task'["app"] = pc /\ ~Spoke'
  BY StepEffect, EndsType, SuspendEffect DEF Spoke
<1>2. Remaining' = Remaining
  BY DEF Remaining
<1> QED
  BY <1>1, <1>2 DEF Talks, Building, Asking

\* Every resumption in the handshakes keeps track of what has been said.
LEMMA HandshakeTalks ==
  ASSUME Inv, Talks, Handshake, Control'
  PROVE  Talks'
<1>t. TypeOK
  BY DEF Inv
<1>f. ASSUME NEW u, FinishClient(u) PROVE Talks'
  <2>1. task'["app"] = "done"
    BY <1>f, <1>t, EndsType, ReturnEffect DEF FinishClient
  <2> QED
    BY <2>1, TalksLate
<1>p. ASSUME NEW pc, Proceed(pc)
      PROVE  Suspend("app", pc) /\ UNCHANGED <<sent, consumed, reply, mode, held>>
  BY <1>p DEF Proceed, wire
<1>r. ASSUME NEW m, RefuseRequest(m), sent["app"] = << Accepted >> PROVE Talks'
  <2>1. Suspend("app", "reply") /\ reply' = "failed" /\ UNCHANGED <<sent, consumed>>
    BY <1>r DEF RefuseRequest, wire
  <2> QED
    BY <1>r, <1>t, <2>1, TalksNext DEF Building, Asking
<1>s. ASSUME Serve, sent["app"] = << Accepted >>, sent["remote"] = << >> PROVE Talks'
  <2>1. CASE BeginTunnel
    <3>1. Suspend("app", "connect") /\ UNCHANGED <<sent, consumed>>
      BY <2>1 DEF BeginTunnel, wire
    <3> QED
      BY <1>s, <1>t, <3>1, TalksNext DEF Building, Asking
  <2>2. CASE BindUdp
    <3>1. Suspend("app", "reply") /\ mode' = "udp" /\ UNCHANGED <<sent, consumed>>
      BY <2>2 DEF BindUdp, wire
    <3> QED
      BY <1>s, <1>t, <3>1, TalksNext DEF Building, Asking
  <2> QED
    BY <1>s, <1>r, <2>1, <2>2 DEF Serve
<1>1. CASE OnGreeting \/ OnRefuse
  <2>1. CASE \E u : FinishClient(u)
    BY <1>f, <2>1
  <2>2. ASSUME NEW pc \in {"greeting", "refuse", "accept"}, Proceed(pc), OnGreeting
        PROVE  Talks'
    <3>1. sent["app"] = << >> /\ sent["remote"] = << >>
      BY <2>2 DEF OnGreeting, Dispatched, Talks, Asking
    <3> QED
      BY <1>p, <1>t, <2>2, <3>1, TalksNext DEF Building, Asking
  <2> QED
    BY <1>1, <2>1, <2>2 DEF OnGreeting, OnRefuse
<1>2. CASE OnAccept
  <2>1. CASE \E u : FinishClient(u)
    BY <1>f, <2>1
  <2>2. CASE cqe["app"] > 0
    <3>1. Spoke /\ Says = Accepted
      BY <1>2, <2>2 DEF OnAccept, Dispatched, Spoke, Says
    <3>2. sent["app"] = << Accepted >> /\ sent["remote"] = << >>
      BY <1>2, <3>1 DEF OnAccept, Dispatched, Talks, Asking
    <3>3. CASE Proceed("request")
      BY <1>p, <1>t, <3>2, <3>3, TalksNext DEF Building, Asking
    <3> QED
      BY <1>2, <1>s, <2>1, <2>2, <3>2, <3>3 DEF OnAccept
  <2> QED
    BY <1>2, <2>1, <2>2 DEF OnAccept
<1>3. CASE OnRequest
  <2>1. sent["app"] = << Accepted >> /\ sent["remote"] = << >>
    BY <1>3 DEF OnRequest, Dispatched, Talks, Asking
  <2>2. CASE \E u : FinishClient(u)
    BY <1>f, <2>2
  <2>3. CASE Proceed("request")
    BY <1>p, <1>t, <2>1, <2>3, TalksNext DEF Building, Asking
  <2> QED
    BY <1>3, <1>s, <2>1, <2>2, <2>3 DEF OnRequest
<1>4. CASE OnConnect \/ OnTls
  <2>1. sent["app"] = << Accepted >> /\ sent["remote"] = << >>
    BY <1>4 DEF OnConnect, OnTls, Dispatched, Talks, Building
  <2>2. ASSUME NEW pc \in {"tls", "header"}, Proceed(pc) PROVE Talks'
    BY <1>p, <1>t, <2>1, <2>2, TalksNext DEF Building, Asking
  <2> QED
    BY <1>4, <1>r, <2>1, <2>2 DEF OnConnect, OnTls
<1>5. CASE OnHeader
  <2>1. sent["app"] = << Accepted >>
    BY <1>5 DEF OnHeader, Dispatched, Talks, Building
  <2>2. CASE cqe["app"] > 0 /\ Proceed("response")
    <3>1. sent["remote"] = << Header >>
      BY <1>5, <2>2 DEF OnHeader, Dispatched, Talks, Spoke
    <3> QED
      BY <1>p, <1>t, <2>1, <2>2, <3>1, TalksNext DEF Building, Asking
  <2> QED
    BY <1>5, <1>r, <2>1, <2>2 DEF OnHeader
<1>6. CASE OnResponse
  <2>1. sent["app"] = << Accepted >> /\ sent["remote"] = << Header >>
    BY <1>6 DEF OnResponse, Dispatched, Talks, Building
  <2>2. CASE Proceed("response")
    BY <1>p, <1>t, <2>1, <2>2, TalksNext DEF Building, Asking
  <2>3. CASE /\ Suspend("app", "reply") /\ consumed["remote"] >= RespLen
             /\ held' = [held EXCEPT !["remote"] = Remaining]
             /\ UNCHANGED <<sent, consumed>>
    <3>1. held'["remote"] = Remaining
      BY <1>t, <2>3, EndsType DEF TypeOK
    <3> QED
      BY <1>t, <2>1, <2>3, <3>1, TalksNext DEF Building, Asking
  <2> QED
    BY <1>6, <1>r, <2>1, <2>2, <2>3 DEF OnResponse, wire
<1>7. CASE OnReply
  <2>1. CASE \E u : FinishClient(u)
    BY <1>f, <2>1
  <2>2. CASE StartRelays
    BY <2>2, TalksLate DEF StartRelays
  <2>3. CASE StartUdpRelay
    <3>1. task'["app"] = "control"
      BY <1>t, <2>3, StepEffect DEF StartUdpRelay
    <3> QED
      BY <3>1, TalksLate
  <2>4. CASE Proceed("remaining") /\ reply = "ok" /\ mode = "tcp"
    <3>1. sent["remote"] = << Header >>
      BY <1>7, <2>4 DEF OnReply, Dispatched, Talks
    <3> QED
      BY <1>p, <1>t, <2>4, <3>1, TalksNext DEF Building, Asking
  <2> QED
    BY <1>7, <2>1, <2>2, <2>3, <2>4 DEF OnReply
<1>8. CASE OnControl
  <2>1. task'["app"] \in {"control", "done"}
    BY <1>8, <1>t, EndsType, ReturnEffect, StepEffect DEF OnControl, FinishClient, Proceed
  <2> QED
    BY <2>1, TalksLate
<1> QED
  BY <1>1, <1>2, <1>3, <1>4, <1>5, <1>6, <1>7, <1>8 DEF Handshake

\* Every completion does.
LEMMA CompletionTalks ==
  ASSUME Inv, Talks, NEW e \in Ends, Kernel(e), Control'
  PROVE  Talks'
<1>t. TypeOK /\ Control
  BY DEF Inv
<1>1. /\ op[e] = "posted" /\ op'[e] = "complete"
      /\ UNCHANGED <<mode, reply, task, held, started>>
  BY <1>t, CompletionEffect
<1>2. CASE started
  BY <1>1, <1>2, TalksLate
<1>3. CASE ~started
  <2>1. e = "app"
    BY <1>1, <1>3, <1>t DEF Control, Ends
  <2>2. ~Spoke /\ Says' = Says
    BY <1>1, <2>1 DEF Spoke, Says
  <2>3. task["app"] \notin Relaying
    BY <1>3, <1>t DEF Control
  <2>4. CASE KernelSay
    <3> DEFINE d == IF task["app"] = "header" THEN "remote" ELSE "app"
    <3>1. task["app"] \in {"refuse", "accept", "header", "reply"} /\ UNCHANGED consumed
      BY <2>4 DEF KernelSay
    <3>2. CASE UNCHANGED sent /\ Complete("app", -1)
      <4>1. ~Spoke'
        BY <1>t, <3>2, EndsType DEF Complete, TypeOK, Spoke
      <4>2. Remaining' = Remaining
        BY <3>1 DEF Remaining
      <4> QED
        BY <1>1, <2>2, <3>1, <3>2, <4>1, <4>2 DEF Talks, Asking, Building
    <3>3. CASE sent' = [sent EXCEPT ![d] = Append(@, Says)] /\ Complete("app", 1)
      <4>1. Spoke'
        BY <1>t, <3>3, EndsType DEF Complete, TypeOK, Spoke
      <4>2. Remaining' = Remaining
        BY <3>1 DEF Remaining
      <4>3. CASE task["app"] = "header"
        <5>1. sent'["app"] = sent["app"] /\ sent'["remote"] = Append(sent["remote"], Header)
          BY <1>t, <3>3, <4>3, EndsType DEF TypeOK, Says
        <5>2. sent["remote"] = << >> /\ Append(<< >>, Header) = << Header >>
          BY <2>2, <4>3 DEF Talks
        <5> QED
          BY <1>1, <4>1, <4>3, <5>1, <5>2 DEF Talks, Asking, Building
      <4>4. CASE task["app"] # "header"
        <5>1. sent'["remote"] = sent["remote"] /\ sent'["app"] = Append(sent["app"], Says)
          BY <1>t, <3>3, <4>4, EndsType DEF TypeOK
        <5>2. CASE task["app"] = "reply"
          <6>1. sent["app"] = << Accepted >>
            BY <2>2, <5>2 DEF Talks
          <6>2. \A x \in Int : Append(<< Accepted >>, x) = << Accepted, x >>
            BY TwoWords DEF Accepted
          <6>3. Says \in Int
            BY <5>2 DEF Says, Success, Failure
          <6>4. sent'["app"] = << Accepted, Says >>
            BY <5>1, <6>1, <6>2, <6>3
          <6> QED
            BY <6>4, <1>1, <2>2, <3>1, <4>1, <4>2, <5>1, <5>2, <6>1 DEF Talks, Asking, Building
        <5>3. CASE task["app"] # "reply"
          <6>1. sent["app"] = << >> /\ Append(<< >>, Says) = << Says >>
            BY <2>2, <3>1, <4>4, <5>3 DEF Talks
          <6> QED
            BY <1>1, <2>2, <3>1, <4>1, <4>4, <5>1, <5>3, <6>1 DEF Talks, Asking, Building
        <5> QED
          BY <5>2, <5>3
      <4> QED
        BY <4>3, <4>4
    <3> QED
      BY <2>4, <3>2, <3>3 DEF KernelSay
  <2>5. CASE KernelSend("app")
    <3>1. task["app"] = "remaining"
      BY <2>3, <2>5 DEF KernelSend, Relaying
    <3>2. sent'["remote"] = sent["remote"]
      BY <1>t, <2>5, <3>1, EndsType DEF KernelSend, Source, Other, TypeOK
    <3> QED
      BY <1>1, <3>1, <3>2 DEF Talks, Asking, Building
  <2>6. CASE KernelRecv("app") \/ KernelConnect \/ KernelTls
    <3>1. task["app"] \in {"greeting", "request", "response", "control", "connect", "tls"}
      BY <2>3, <2>6 DEF KernelRecv, KernelConnect, KernelTls, Relaying
    <3>2. sent' = sent
      BY <2>6 DEF KernelRecv, KernelConnect, KernelTls, wire
    <3> QED
      BY <1>1, <3>1, <3>2 DEF Talks, Asking, Building
  <2>7. CASE KernelShut("app")
    BY <2>3, <2>7 DEF KernelShut, Relaying
  <2> QED
    BY <2>1, <2>4, <2>5, <2>6, <2>7 DEF Kernel
<1> QED
  BY <1>2, <1>3

\* Every step does.
LEMMA TalksStep ==
  ASSUME Inv, Talks, [Next]_vars, Control'
  PROVE  Talks'
<1>t. TypeOK /\ Control
  BY DEF Inv
<1>1. CASE UNCHANGED <<task, op, cqe, sent, reply, mode, consumed, held>>
  <2>1. Remaining' = Remaining /\ Says' = Says
    BY <1>1 DEF Remaining, Says
  <2> QED
    BY <1>1, <2>1 DEF Talks, Spoke
<1>2. CASE Start
  <2>1. Suspend("app", "greeting") /\ UNCHANGED <<sent, consumed>>
    BY <1>2 DEF Start, Proceed, wire
  <2>2. sent["app"] = << >> /\ sent["remote"] = << >>
    BY <1>2 DEF Start, Talks, Asking
  <2> QED
    BY <1>t, <2>1, <2>2, TalksNext DEF Building, Asking
<1>3. CASE Reclaim \/ UNCHANGED vars
  BY <1>1, <1>3 DEF Reclaim, coroutines, wire, vars
<1>4. ASSUME NEW e \in Ends, Peer(e) PROVE Talks'
  BY <1>1, <1>4, PeerLeaves
<1>5. ASSUME NEW e \in Ends, Resume(e) PROVE Talks'
  <2>1. CASE started
    <3>1. started'
      BY <1>5, <1>t, <2>1, ResumeEffect
    <3> QED
      BY <3>1, TalksLate
  <2>2. CASE Handshake
    BY <2>2, HandshakeTalks
  <2>3. CASE e = "app" /\ task["app"] = "remaining" /\ OnWrite("app")
    <3>1. CASE FinishClient(udp)
      <4>1. task'["app"] = "done"
        BY <1>t, <3>1, EndsType, ReturnEffect DEF FinishClient
      <4> QED
        BY <4>1, TalksLate
    <3>2. CASE StartRelays
      BY <3>2, TalksLate DEF StartRelays
    <3>3. CASE Suspend("app", "remaining") /\ UNCHANGED wire
      <4>1. sent["remote"] = << Header >>
        BY <2>3 DEF Talks
      <4> QED
        BY <1>t, <3>3, <4>1, TalksNext DEF Building, Asking, wire
    <3> QED
      BY <2>3, <3>1, <3>2, <3>3 DEF OnWrite, Finish
  <2> QED
    BY <1>5, <1>t, <2>1, <2>2, <2>3, ResumeKinds
<1> QED
  BY <1>2, <1>3, <1>4, <1>5, CompletionTalks DEF Next, Reclaimed

-----------------------------------------------------------------------------
(* What a patient application leaves unread.                                *)

\* What has been sent is not taken back.
LEMMA SentKeeps ==
  ASSUME TypeOK, NEW e \in Ends, Kernel(e), NEW d \in Ends, NEW i \in 1 .. Len(sent[d])
  PROVE  sent'[d][i] = sent[d][i]
<1>0. sent[d] \in Seq(Int)
  BY DEF TypeOK
<1>1. CASE UNCHANGED sent
  BY <1>1
<1>2. ASSUME NEW n \in 1 .. Len(held[Source(e)]), NEW x \in Ends,
             sent' = [sent EXCEPT ![x] = @ \o SubSeq(held[Source(e)], 1, n)]
      PROVE  sent'[d][i] = sent[d][i]
  <2>1. Source(e) \in Ends
    BY EndsType DEF Source
  <2>2. held[Source(e)] \in Seq(Int)
    BY <2>1 DEF TypeOK
  <2>3. SubSeq(held[Source(e)], 1, n) \in Seq(Int)
    BY <2>2, SubSeqProperties, LenProperties, ElementOfSeq
  <2>4. (sent[d] \o SubSeq(held[Source(e)], 1, n))[i] = sent[d][i]
    BY <1>0, <2>3, ConcatProperties, LenProperties
  <2>5. sent'[d] = sent[d] \/ sent'[d] = sent[d] \o SubSeq(held[Source(e)], 1, n)
    BY <1>2 DEF TypeOK
  <2> QED
    BY <2>4, <2>5
<1>3. ASSUME NEW x \in Ends, sent' = [sent EXCEPT ![x] = Append(@, Says)], KernelSay
      PROVE  sent'[d][i] = sent[d][i]
  <2>1. sent'[d] = sent[d] \/ sent'[d] = Append(sent[d], Says)
    BY <1>3 DEF TypeOK
  <2>2. Says \in Int
    BY <1>3 DEF KernelSay, Says, Refused, Accepted, Header, Success, Failure
  <2>3. Append(sent[d], Says)[i] = sent[d][i]
    BY <1>0, <2>2, AppendProperties
  <2> QED
    BY <2>1, <2>3
<1>4. Other(Source(e)) \in Ends
  BY EndsType DEF Source
<1> QED
  BY <1>1, <1>2, <1>3, <1>4, CompletionWire DEF wire

\* An application that has been granted its request stays so.
LEMMA GrantedStays ==
  ASSUME TypeOK, TypeOK', Granted, [Next]_vars
  PROVE  Granted'
<1>1. CASE UNCHANGED sent
  BY <1>1 DEF Granted
<1>2. ASSUME NEW e \in Ends, Kernel(e) PROVE Granted'
  <2>1. Len(sent["app"]) <= Len(sent'["app"]) /\ Len(sent["app"]) >= 2
    BY <1>2, SentGrows, EndsType DEF Granted
  <2>2. Len(sent["app"]) \in Nat /\ Len(sent'["app"]) \in Nat
    BY EndsType, LenProperties DEF TypeOK
  <2>3. sent'["app"][2] = sent["app"][2]
    <3>1. 2 \in 1 .. Len(sent["app"])
      BY <2>1, <2>2
    <3> QED
      BY <1>2, <3>1, SentKeeps, EndsType
  <2> QED
    BY <2>1, <2>2, <2>3 DEF Granted
<1> QED
  BY <1>1, <1>2, ResumeEffect, PeerLeaves
  DEF Next, Start, Proceed, Reclaim, Reclaimed, wire, vars

\* The numbers of the handshake.
LEMMA PrologueType ==
  /\ Prologue("app") = GreetLen + ReqLen /\ Prologue("app") \in Nat
  /\ GreetLen \in Nat /\ GreetLen < Prologue("app")
  /\ Prologue("remote") = RespLen /\ RespLen \in Nat /\ 0 < RespLen
BY Socks5Assumption DEF Prologue

\* clientTask goes on with what a patient application has sent.
LEMMA WaitedNext ==
  ASSUME TypeOK, Waited, NEW pc, Suspend("app", pc), UNCHANGED <<produced, consumed, sent>>,
         pc \in Building \cup {"reply", "remaining"} => consumed["app"] >= Prologue("app"),
         pc \in Building \cup {"remaining"} => consumed["app"] <= Prologue("app"),
         pc = "reply" /\ reply' = "ok" /\ mode' = "tcp" => consumed["app"] = Prologue("app")
  PROVE  Waited'
<1>1. task'["app"] = pc
  BY StepEffect
<1>2. Granted' = Granted /\ UNCHANGED <<produced, consumed>>
  BY DEF Granted
<1> QED
  BY <1>1, <1>2 DEF Waited

\* Outside the handshakes only the first part says anything.
LEMMA WaitedLate ==
  ASSUME Waited, UNCHANGED <<produced, sent>>,
         task'["app"] \notin Building \cup {"reply", "remaining"}
  PROVE  Waited'
<1>1. Granted' = Granted /\ UNCHANGED <<produced>>
  BY DEF Granted
<1> QED
  BY <1>1 DEF Waited

\* The relays begin outside the handshakes.
LEMMA RelaysBegin ==
  ASSUME StartRelays
  PROVE  /\ \A e \in Ends : task'[e] = "read" /\ op'[e] = "posted"
         /\ UNCHANGED <<consumed, sent, produced, reset, peerFin, rdShut, wrShut, dangling>>
BY DEF StartRelays, wire, peers, sockets, Ends

\* Every resumption in the handshakes keeps it.
LEMMA HandshakeWaited ==
  ASSUME Inv, Counts, Talks, Waited, Handshake
  PROVE  Waited'
<1>t. TypeOK /\ UNCHANGED <<produced, sent, consumed>>
  BY EndsType, ResumeEffect DEF Inv, Resume
<1>n. /\ consumed["app"] \in Nat /\ produced["app"] \in Nat
      /\ consumed["app"] <= produced["app"]
  BY <1>t, EndsType, StreamTypes DEF Counts
<1>f. ASSUME NEW u, FinishClient(u) PROVE Waited'
  <2>1. task'["app"] = "done"
    BY <1>f, <1>t, EndsType, ReturnEffect DEF FinishClient
  <2> QED
    BY <1>t, <2>1, WaitedLate DEF Building
<1>p. ASSUME NEW pc, Proceed(pc) PROVE Suspend("app", pc) /\ UNCHANGED <<reply, mode>>
  BY <1>p DEF Proceed
<1>r. ASSUME NEW m, RefuseRequest(m), consumed["app"] >= Prologue("app") PROVE Waited'
  <2>1. Suspend("app", "reply") /\ reply' = "failed"
    BY <1>r DEF RefuseRequest
  <2> QED
    BY <1>r, <1>t, <2>1, WaitedNext DEF Building
<1>s. ASSUME Serve, consumed["app"] >= Prologue("app"), sent["app"] = << Accepted >>
      PROVE  Waited'
  <2>1. consumed["app"] <= Prologue("app")
    <3>1. ~Granted
      BY <1>s DEF Granted
    <3> QED
      BY <1>n, <3>1, PrologueType DEF Waited
  <2>2. CASE BeginTunnel
    <3>1. Suspend("app", "connect")
      BY <2>2 DEF BeginTunnel
    <3> QED
      BY <1>s, <1>t, <2>1, <3>1, WaitedNext DEF Building
  <2>3. CASE BindUdp
    <3>1. Suspend("app", "reply") /\ mode' = "udp"
      BY <2>3 DEF BindUdp
    <3> QED
      BY <1>s, <1>t, <3>1, WaitedNext DEF Building
  <2> QED
    BY <1>s, <1>r, <2>2, <2>3 DEF Serve
<1>1. CASE OnGreeting \/ OnRefuse
  <2>1. ASSUME NEW pc \in {"greeting", "refuse", "accept"}, Proceed(pc) PROVE Waited'
    BY <1>p, <1>t, <2>1, WaitedNext DEF Building
  <2> QED
    BY <1>1, <1>f, <2>1 DEF OnGreeting, OnRefuse
<1>2. CASE OnAccept
  <2>1. CASE Proceed("request")
    BY <1>p, <1>t, <2>1, WaitedNext DEF Building
  <2>2. CASE cqe["app"] > 0 /\ consumed["app"] >= Prologue("app") /\ Serve
    <3>1. Spoke /\ Says = Accepted
      BY <1>2, <2>2 DEF OnAccept, Dispatched, Spoke, Says
    <3>2. sent["app"] = << Accepted >>
      BY <1>2, <3>1 DEF OnAccept, Dispatched, Talks
    <3> QED
      BY <1>s, <2>2, <3>2
  <2> QED
    BY <1>2, <1>f, <2>1, <2>2 DEF OnAccept
<1>3. CASE OnRequest
  <2>1. CASE Proceed("request")
    BY <1>p, <1>t, <2>1, WaitedNext DEF Building
  <2>2. CASE ~(consumed["app"] < Prologue("app")) /\ Serve
    <3>1. sent["app"] = << Accepted >>
      BY <1>3 DEF OnRequest, Dispatched, Talks
    <3> QED
      BY <1>n, <1>s, <2>2, <3>1, PrologueType
  <2> QED
    BY <1>3, <1>f, <2>1, <2>2 DEF OnRequest
<1>4. CASE OnConnect \/ OnTls \/ OnHeader \/ OnResponse
  <2>1. consumed["app"] >= Prologue("app") /\ consumed["app"] <= Prologue("app")
    BY <1>4 DEF OnConnect, OnTls, OnHeader, OnResponse, Dispatched, Waited, Building
  <2>2. ASSUME NEW pc \in Building, Proceed(pc) PROVE Waited'
    BY <1>p, <1>t, <2>1, <2>2, WaitedNext DEF Building
  <2>3. CASE Suspend("app", "reply")
    BY <1>n, <1>t, <2>1, <2>3, WaitedNext, PrologueType DEF Building
  <2>4. CASE OnConnect \/ OnTls \/ OnHeader
    BY <1>r, <2>1, <2>2, <2>4 DEF OnConnect, OnTls, OnHeader, Building
  <2>5. CASE OnResponse
    BY <1>r, <2>1, <2>2, <2>3, <2>5 DEF OnResponse, Building
  <2> QED
    BY <1>4, <2>4, <2>5
<1>5. CASE OnReply
  <2>1. CASE StartRelays
    <3>1. task'["app"] = "read"
      BY <2>1, RelaysBegin, EndsType
    <3> QED
      BY <1>t, <3>1, WaitedLate DEF Building
  <2>2. CASE StartUdpRelay
    <3>1. task'["app"] = "control"
      BY <1>t, <2>2, StepEffect DEF StartUdpRelay
    <3> QED
      BY <1>t, <3>1, WaitedLate DEF Building
  <2>3. CASE Proceed("remaining") /\ reply = "ok" /\ mode = "tcp"
    <3>1. consumed["app"] = Prologue("app")
      BY <1>5, <2>3 DEF OnReply, Dispatched, Waited
    <3>2. consumed["app"] >= Prologue("app") /\ consumed["app"] <= Prologue("app")
      BY <1>n, <3>1
    <3> QED
      BY <1>p, <1>t, <2>3, <3>2, WaitedNext DEF Building
  <2> QED
    BY <1>5, <1>f, <2>1, <2>2, <2>3 DEF OnReply
<1>6. CASE OnControl
  <2>1. CASE Proceed("control")
    BY <1>p, <1>t, <2>1, WaitedNext DEF Building
  <2> QED
    BY <1>6, <1>f, <2>1 DEF OnControl
<1> QED
  BY <1>1, <1>2, <1>3, <1>4, <1>5, <1>6 DEF Handshake

\* Every step does.
LEMMA WaitedStep ==
  ASSUME Inv, TypeOK', Counts, Talks, Waited, patient, [Next]_vars
  PROVE  Waited'
<1>t. TypeOK /\ Control
  BY DEF Inv
<1>1. CASE UNCHANGED <<produced, consumed, sent, task, reply, mode>>
  <2>1. Granted' = Granted
    BY <1>1 DEF Granted
  <2> QED
    BY <1>1, <2>1 DEF Waited
<1>2. CASE Start
  <2>1. Suspend("app", "greeting") /\ UNCHANGED <<produced, consumed, sent>>
    BY <1>2 DEF Start, Proceed, wire, peers
  <2> QED
    BY <1>t, <2>1, WaitedNext DEF Building
<1>3. CASE Reclaim \/ UNCHANGED vars
  BY <1>1, <1>3 DEF Reclaim, coroutines, wire, peers, vars
<1>4. ASSUME NEW e \in Ends, Peer(e) PROVE Waited'
  <2>1. UNCHANGED <<consumed, sent, task, reply, mode>> /\ Granted' = Granted
    BY <1>4, PeerLeaves DEF Granted
  <2>2. CASE produced'["app"] = produced["app"]
    BY <2>1, <2>2 DEF Waited
  <2>3. CASE produced'["app"] # produced["app"]
    <3>1. e = "app" /\ MayType /\ produced' = [produced EXCEPT !["app"] = @ + 1]
      BY <1>4, <1>t, <2>3, EndsType
      DEF Peer, PeerSend, PeerFin, PeerReset, PeerRead, TypeOK, Ends
    <3>2. produced'["app"] = produced["app"] + 1 /\ produced["app"] \in Nat
      BY <1>t, <3>1, EndsType DEF TypeOK
    <3>3. CASE produced["app"] < Prologue("app")
      BY <2>1, <3>2, <3>3, PrologueType DEF Waited
    <3>4. CASE ~(produced["app"] < Prologue("app"))
      <4>1. Heard(2, Success)
        BY <3>1, <3>2, <3>4, PrologueType DEF MayType
      <4>2. drained["app"] <= Len(sent["app"]) /\ drained["app"] \in Nat /\ Len(sent["app"]) \in Nat
        BY <1>t, EndsType, StreamTypes DEF Counts
      <4>3. Granted
        BY <4>1, <4>2 DEF Heard, Granted
      <4> QED
        BY <2>1, <4>3 DEF Waited
    <3> QED
      BY <3>3, <3>4
  <2> QED
    BY <2>2, <2>3
<1>5. ASSUME NEW e \in Ends, Kernel(e) PROVE Waited'
  <2>1. UNCHANGED <<task, reply, mode, produced>> /\ op[e] = "posted"
    BY <1>5, <1>t, CompletionEffect
  <2>2. Granted => Granted'
    BY GrantedStays, <1>t
  <2>3. CASE consumed'["app"] = consumed["app"]
    BY <2>1, <2>2, <2>3 DEF Waited
  <2>4. CASE consumed'["app"] # consumed["app"]
    <3>1. Reads(e) = "app" /\ KernelRecv(e)
      BY <1>5, <1>t, <2>4, CompletionWire, EndsType DEF wire, TypeOK
    <3>2. e = "app" /\ task["app"] \in {"greeting", "request", "control", "read"}
      BY <3>1 DEF Reads, KernelRecv
    <3> QED
      BY <2>1, <2>2, <3>2 DEF Waited, Building
  <2> QED
    BY <2>3, <2>4
<1>6. ASSUME NEW e \in Ends, Resume(e) PROVE Waited'
  <2>0. UNCHANGED <<produced, consumed, sent>>
    BY <1>6, <1>t, ResumeEffect
  <2>1. CASE started
    <3>1. Control'
      BY <1>6, ControlInductive DEF Next
    <3>2. started'
      BY <1>6, <1>t, <2>1, ResumeEffect
    <3>3. task'["app"] \notin Building \cup {"reply", "remaining"}
      BY <3>1, <3>2 DEF Control, Building
    <3> QED
      BY <2>0, <3>3, WaitedLate
  <2>2. CASE Handshake
    BY <2>2, HandshakeWaited
  <2>3. CASE e = "app" /\ task["app"] = "remaining" /\ OnWrite("app")
    <3>1. CASE FinishClient(udp)
      <4>1. task'["app"] = "done"
        BY <1>t, <3>1, EndsType, ReturnEffect DEF FinishClient
      <4> QED
        BY <2>0, <4>1, WaitedLate DEF Building
    <3>2. CASE StartRelays
      <4>1. task'["app"] = "read"
        BY <3>2, RelaysBegin, EndsType
      <4> QED
        BY <2>0, <4>1, WaitedLate DEF Building
    <3>3. CASE Suspend("app", "remaining")
      <4>1. consumed["app"] >= Prologue("app") /\ consumed["app"] <= Prologue("app")
        BY <2>3 DEF Waited
      <4> QED
        BY <1>t, <2>0, <3>3, <4>1, WaitedNext DEF Building
    <3> QED
      BY <2>3, <3>1, <3>2, <3>3 DEF OnWrite, Finish
  <2> QED
    BY <1>6, <1>t, <2>1, <2>2, <2>3, ResumeKinds
<1> QED
  BY <1>2, <1>3, <1>4, <1>5, <1>6 DEF Next, Reclaimed

-----------------------------------------------------------------------------
(* No gap in either stream.                                                 *)

\* A stream to which nothing is sent.
LEMMA WholeStays ==
  ASSUME NEW d \in Ends, sent'[d] = sent[d]
  PROVE  (Whole(d) => Whole(d)') /\ NextFor(d)' = NextFor(d)
BY DEF Whole, NextFor

\* Before its payload each end has got what the client says itself.
LEMMA WholeBegins ==
  ASSUME NEW d \in Ends, sent[d] = Before(d)
  PROVE  Whole(d) /\ NextFor(d) = Prologue(Other(d)) + 1
<1> DEFINE p == Prologue(Other(d))
           b == Before(d)
<1>1. p \in Nat /\ b \in Seq(Int) /\ Preface(d) \in Nat /\ Len(b) = Preface(d)
  BY Socks5Assumption DEF Prologue, Before, Preface, Ends, Accepted, Success, Header
<1>2. Len(sent[d]) - Preface(d) = 0 /\ Len(sent[d]) >= Preface(d)
  BY <1>1
<1>3. Run(p + 1, 0) = << >>
  BY DEF Run
<1>4. b \o Run(p + 1, 0) = b
  <2> HIDE DEF b
  <2> QED
    BY <1>1, <1>3, ConcatEmptySeq
<1>5. Whole(d)
  BY <1>2, <1>4 DEF Whole
<1>6. NextFor(d) = p + 0 + 1
  BY <1>2 DEF NextFor
<1> HIDE DEF p
<1>7. NextFor(d) = p + 1
  BY <1>1, <1>6
<1> QED
  BY <1>5, <1>7 DEF p

\* What came in one piece with the response is the first the application is to
\* get (drainRemaining).
LEMMA RemainingIsNext ==
  ASSUME TypeOK, consumed["remote"] >= RespLen
  PROVE  /\ Remaining = << >> => RespLen + 1 = consumed["remote"] + 1
         /\ Remaining # << >> =>
              \A r : \A gone \in BOOLEAN :
                WriteAt("posted", r, Remaining, consumed["remote"], RespLen + 1, gone)
<1> DEFINE c == consumed["remote"]
           k == c - RespLen
<1>1. c \in Nat /\ RespLen \in Nat /\ RespLen <= c
  BY EndsType, StreamTypes, PrologueType
<1>2. Remaining = Run(RespLen + 1, k)
  BY DEF Remaining
<1> HIDE DEF c
<1>3. k \in Nat /\ c - k + 1 = RespLen + 1 /\ RespLen + 1 + k = c + 1 /\ RespLen + 1 \in Int
  BY <1>1
<1> HIDE DEF k
<1>4. CASE k = 0
  <2>1. Run(RespLen + 1, 0) = << >>
    BY DEF Run
  <2>2. RespLen + 1 = c + 1
    BY <1>1, <1>3, <1>4
  <2> QED
    BY <1>2, <1>4, <2>1, <2>2 DEF c
<1>5. CASE k # 0
  <2>1. 0 < k
    BY <1>3, <1>5
  <2>2. Len(Run(RespLen + 1, k)) = k
    BY <1>3, RunType
  <2>3. Run(RespLen + 1, k) # << >>
    BY <1>5, <2>2
  <2>4. ASSUME NEW r, NEW gone \in BOOLEAN
        PROVE  WriteAt("posted", r, Run(c - k + 1, k), c, RespLen + 1, gone)
    BY <1>1, <1>3, <2>1, WriteBegins
  <2>5. ASSUME NEW r, NEW gone \in BOOLEAN
        PROVE  WriteAt("posted", r, Remaining, c, RespLen + 1, gone)
    BY <1>2, <1>3, <2>4
  <2> QED
    BY <1>2, <2>3, <2>5 DEF c
<1> QED
  BY <1>4, <1>5

\* A send of a writer that carries a stream to d without a gap goes on doing so.
LEMMA WriterSends ==
  ASSUME TypeOK, TypeOK', NEW e \in Ends, KernelSend(e), NEW d \in Ends, d = Other(Source(e)),
         Whole(d), wrShut[d] => reset[d],
         WriteAt("posted", cqe[e], held[Source(e)], consumed[Source(e)], NextFor(d), reset[d])
  PROVE  /\ Whole(d)'
         /\ WriteAt("complete", cqe'[e], held[Source(e)], consumed[Source(e)], NextFor(d)',
                    reset[d])
<1> DEFINE s == Source(e)
           h == held[s]
           c == consumed[s]
<1>1. s \in Ends /\ Other(s) = d
  BY EndsType DEF Source
<1>2. h \in Seq(Int) /\ c \in Nat /\ NextFor(d) \in Int
  BY <1>1, StreamTypes
<1>3. CASE UNCHANGED sent /\ Complete(e, -1) /\ reset[d]
  <2>1. cqe'[e] = -1 /\ Whole(d)' /\ NextFor(d)' = NextFor(d)
    BY <1>3, WholeStays DEF Complete, TypeOK
  <2>2. WriteAt("complete", -1, h, c, NextFor(d), TRUE)
    BY WriteFails
  <2>3. reset[d] = TRUE
    BY <1>3 DEF TypeOK
  <2> QED
    BY <2>1, <2>2, <2>3
<1>4. ASSUME NEW n \in 1 .. Len(h), Complete(e, n), ~reset[d],
             sent' = [sent EXCEPT ![d] = @ \o SubSeq(h, 1, n)]
      PROVE  Whole(d)' /\ WriteAt("complete", cqe'[e], h, c, NextFor(d)', reset[d])
  <2>0. reset[d] = FALSE /\ n \in Nat /\ cqe'[e] = n
    BY <1>2, <1>4, LenProperties DEF Complete, TypeOK
  <2>1. WriteAt("posted", cqe[e], h, c, NextFor(d), FALSE)
    BY <2>0
  <2> HIDE DEF h, c
  <2>2. SubSeq(h, 1, n) = Run(NextFor(d), n) /\ WriteAt("complete", n, h, c, NextFor(d) + n, FALSE)
    BY <1>2, <1>4, <2>1, WriteSends
  <2>3. sent' = [sent EXCEPT ![d] = @ \o Run(NextFor(d), n)]
    BY <1>4, <2>2
  <2>4. Whole(d)' /\ NextFor(d)' = NextFor(d) + n
    BY <2>0, <2>3, WholeGrows
  <2> QED
    BY <2>0, <2>2, <2>4
<1>5. \/ UNCHANGED sent /\ Complete(e, -1) /\ reset[d]
      \/ \E n \in 1 .. Len(h) :
           /\ Complete(e, n) /\ ~reset[d]
           /\ sent' = [sent EXCEPT ![d] = @ \o SubSeq(h, 1, n)]
  <2> DEFINE room == SendCap - (Len(sent[d]) - drained[d])
  <2>1. room \in Int /\ Len(h) \in Nat
    BY <1>2, StreamTypes, LenProperties, Socks5Assumption
  <2>2. ASSUME NEW n \in 1 .. Min2(room, Len(h)) PROVE n \in 1 .. Len(h)
    BY <2>1, <2>2 DEF Min2
  <2> HIDE DEF room, h
  <2>3. \/ UNCHANGED sent /\ Complete(e, -1) /\ (wrShut[d] \/ reset[d])
        \/ \E n \in 1 .. Min2(room, Len(h)) :
             /\ Complete(e, n) /\ ~reset[d]
             /\ sent' = [sent EXCEPT ![d] = @ \o SubSeq(h, 1, n)]
    BY <1>1 DEF KernelSend, room, h
  <2> QED
    BY <2>2, <2>3
<1> QED
  BY <1>3, <1>4, <1>5

\* The resumption of a writer.
LEMMA WriterResumes ==
  ASSUME TypeOK, NEW e \in Ends, NEW s \in Ends, NEW n \in Int, NEW gone \in BOOLEAN,
         WriteAt("complete", cqe[e], held[s], consumed[s], n, gone)
  PROVE  /\ cqe[e] > 0 /\ cqe[e] < Len(held[s]) =>
              WriteAt("posted", 0, SubSeq(held[s], cqe[e] + 1, Len(held[s])), consumed[s], n, gone)
         /\ cqe[e] >= Len(held[s]) \/ cqe[e] <= 0 => gone \/ n = consumed[s] + 1
         /\ cqe[e] <= 0 => gone
<1> DEFINE h == held[s]
           c == consumed[s]
           r == cqe[e]
<1>1. h \in Seq(Int) /\ c \in Nat /\ r \in Int /\ WriteAt("complete", r, h, c, n, gone)
  BY StreamTypes
<1> HIDE DEF h, c, r
<1>2. r > 0 /\ r < Len(h) => WriteAt("posted", 0, SubSeq(h, r + 1, Len(h)), c, n, gone)
  <2> SUFFICES ASSUME r > 0, r < Len(h)
               PROVE  WriteAt("posted", 0, SubSeq(h, r + 1, Len(h)), c, n, gone)
    OBVIOUS
  <2>1. 0 < r
    BY <1>1
  <2> QED
    BY <1>1, <2>1, WriteGoesOn
<1>3. r >= Len(h) \/ r <= 0 => gone \/ n = c + 1
  BY <1>1, WriteReturns
<1>4. r <= 0 => gone
  BY <1>1 DEF WriteAt
<1> QED
  BY <1>2, <1>3, <1>4 DEF h, c, r

\* Every step leaves clientTask handing over what came with the response.
LEMMA ForwardedStep ==
  ASSUME Inv, TypeOK', Control', Shutdowns, Talks, Forwarded, [Next]_vars
  PROVE  Forwarded'
<1>t. TypeOK /\ Control /\ "app" \in Ends /\ "remote" \in Ends
  BY EndsType DEF Inv
<1>0. CASE task'["app"] # "remaining"
  BY <1>0 DEF Forwarded
<1>w. ASSUME task["app"] = "remaining"
      PROVE  /\ Whole("app") /\ ~started /\ op["app"] # "none" /\ ~wrShut["app"]
             /\ WriteAt(op["app"], cqe["app"], held["remote"], consumed["remote"],
                        NextFor("app"), reset["app"])
             /\ task["remote"] = "none" /\ op["remote"] = "none" /\ ~closed
  BY <1>w, <1>t, WaitsInOpen DEF Forwarded, Control, Shutdowns
<1>n. NextFor("app") \in Int /\ reset["app"] \in BOOLEAN /\ reset'["app"] \in BOOLEAN
  BY <1>t, StreamTypes DEF TypeOK
<1>1. CASE /\ task["app"] = "remaining"
           /\ UNCHANGED <<sent, op, cqe, held, consumed>>
  <2>1. reset["app"] => reset'["app"]
    BY <1>t, FlagsRise
  <2>2. Whole("app")' /\ NextFor("app")' = NextFor("app")
    BY <1>1, <1>t, <1>w, WholeStays
  <2>3. WriteAt(op["app"], cqe["app"], held["remote"], consumed["remote"],
                NextFor("app"), reset'["app"])
    BY <1>1, <1>n, <1>w, <2>1, GoneLater
  <2> QED
    BY <1>1, <2>2, <2>3 DEF Forwarded
<1>2. CASE task'["app"] = "remaining" /\ ((\E e \in Ends : Peer(e)) \/ UNCHANGED vars \/ Reclaim)
  <2>1. UNCHANGED <<task, sent, op, cqe, held, consumed>>
    BY <1>2, PeerLeaves DEF vars, Reclaim, coroutines, wire
  <2> QED
    BY <1>1, <1>2, <2>1
<1>3. ASSUME NEW e \in Ends, Kernel(e), task'["app"] = "remaining"
      PROVE  Forwarded'
  <2>1. /\ op[e] = "posted" /\ op'[e] = "complete"
        /\ UNCHANGED <<task, held, reset>>
    BY <1>3, <1>t, CompletionEffect
  <2>2. task["app"] = "remaining"
    BY <1>3, <2>1
  <2>3. e = "app"
    BY <1>w, <2>1, <2>2 DEF Ends
  <2>4. KernelSend("app")
    BY <1>3, <2>2, <2>3 DEF Kernel, KernelRecv, KernelShut, KernelSay, KernelConnect, KernelTls
  <2>5. Source("app") = "remote" /\ "app" = Other("remote") /\ consumed' = consumed
    BY <2>2, <2>4 DEF Source, Other, KernelSend
  <2>6. WriteAt("posted", cqe["app"], held["remote"], consumed["remote"], NextFor("app"), reset["app"])
    BY <1>w, <2>1, <2>2, <2>3
  <2>7. /\ Whole("app")'
        /\ WriteAt("complete", cqe'["app"], held["remote"], consumed["remote"], NextFor("app")',
                   reset["app"])
    BY <1>t, <1>w, <2>2, <2>4, <2>5, <2>6, WriterSends
  <2> QED
    BY <2>1, <2>3, <2>5, <2>7 DEF Forwarded
<1>4. ASSUME NEW e \in Ends, Resume(e), task'["app"] = "remaining"
      PROVE  Forwarded'
  <2>1. UNCHANGED <<sent, consumed, reset>>
    BY <1>4, <1>t, ResumeEffect
  <2>2. CASE started
    <3>1. started'
      BY <1>4, <1>t, <2>2, ResumeEffect
    <3> QED
      BY <1>4, <3>1 DEF Control
  <2>3. CASE e = "app" /\ Handshake
    <3>1. ASSUME NEW pc, Suspend("app", pc) PROVE pc = "remaining"
      BY <1>4, <1>t, <3>1, SuspendEffect
    <3>2. ~\E u : FinishClient(u)
      BY <1>4, <1>t, ReturnEffect DEF FinishClient
    <3>3. ~StartRelays
      BY <1>4, <1>t, RelaysBegin
    <3>4. /\ OnReply /\ reply = "ok" /\ cqe["app"] > 0 /\ mode = "tcp"
          /\ held["remote"] # << >> /\ Proceed("remaining")
      BY <2>3, <3>1, <3>2, <3>3
      DEF Handshake, OnGreeting, OnRefuse, OnAccept, OnRequest, OnConnect, OnTls, OnHeader,
          OnResponse, OnReply, OnControl, Proceed, RefuseRequest, Serve, BeginTunnel, BindUdp,
          StartUdpRelay
    <3>5. /\ sent["app"] = << Accepted, Success >>
          /\ consumed["remote"] >= RespLen /\ held["remote"] = Remaining
      BY <3>4 DEF OnReply, Dispatched, Talks, Spoke, Says
    <3>6. Whole("app") /\ NextFor("app") = RespLen + 1
      BY <1>t, <3>5, WholeBegins DEF Before, Other, Prologue
    <3>7. op'["app"] = "posted" /\ held' = held /\ cqe'["app"] = 0
      BY <1>t, <3>4 DEF Proceed, Suspend, TypeOK
    <3>8. WriteAt("posted", 0, held["remote"], consumed["remote"], RespLen + 1, reset["app"])
      BY <1>n, <1>t, <3>4, <3>5, RemainingIsNext
    <3>9. Whole("app")' /\ NextFor("app")' = NextFor("app")
      BY <1>t, <2>1, <3>6, WholeStays
    <3> QED
      BY <2>1, <3>6, <3>7, <3>8, <3>9 DEF Forwarded
  <2>4. CASE e = "app" /\ task["app"] = "remaining" /\ OnWrite("app")
    <3>1. ~FinishClient(udp)
      BY <1>4, <1>t, ReturnEffect DEF FinishClient
    <3>2. ~StartRelays
      BY <1>4, <1>t, RelaysBegin
    <3>3. /\ op["app"] = "complete" /\ cqe["app"] > 0 /\ cqe["app"] < Len(held["remote"])
          /\ Suspend("app", "remaining")
          /\ held' = [held EXCEPT !["remote"] = SubSeq(@, cqe["app"] + 1, Len(@))]
      BY <2>4, <3>1, <3>2 DEF OnWrite, Source, Finish
    <3>4. /\ op'["app"] = "posted" /\ cqe'["app"] = 0
          /\ held'["remote"] = SubSeq(held["remote"], cqe["app"] + 1, Len(held["remote"]))
      BY <1>t, <3>3 DEF Suspend, TypeOK
    <3>5. WriteAt("complete", cqe["app"], held["remote"], consumed["remote"], NextFor("app"),
                  reset["app"])
      BY <1>w, <2>4, <3>3
    <3>6. WriteAt("posted", 0, held'["remote"], consumed["remote"], NextFor("app"), reset["app"])
      <4>1. WriteAt("posted", 0,
                    SubSeq(held["remote"], cqe["app"] + 1, Len(held["remote"])),
                    consumed["remote"], NextFor("app"), reset["app"])
        BY <1>n, <1>t, <3>3, <3>5, WriterResumes
      <4> QED
        BY <3>4, <4>1
    <3>7. Whole("app")' /\ NextFor("app")' = NextFor("app")
      BY <1>t, <1>w, <2>1, <2>4, WholeStays
    <3> QED
      BY <2>1, <3>4, <3>6, <3>7 DEF Forwarded
  <2> QED
    BY <1>4, <1>t, <2>2, <2>3, <2>4, ResumeKinds
<1>5. CASE Start
  <2>1. task'["app"] = "greeting"
    BY <1>5, <1>t, StepEffect DEF Start, Proceed
  <2> QED
    BY <1>0, <2>1
<1> QED
  BY <1>0, <1>2, <1>3, <1>4, <1>5 DEF Next, Reclaimed

\* The relays start without a gap, with or without a rest of the response.
LEMMA RelaysCarry ==
  ASSUME Inv, Talks, Waited, Forwarded, NEW e \in Ends, StartRelays,
         \/ Handshake
         \/ task["app"] = "remaining" /\ OnWrite("app")
  PROVE  Carried(e)'
<1>t. TypeOK /\ "app" \in Ends /\ "remote" \in Ends
  BY EndsType DEF Inv
<1>1. /\ \A d \in Ends : task'[d] = "read" /\ op'[d] = "posted"
      /\ UNCHANGED <<consumed, sent, reset>>
  BY RelaysBegin
<1>w. task'["app"] = "read"
  BY <1>1, <1>t
<1>2. \/ task["app"] = "remaining" /\ OnWrite("app")
      \/ /\ OnReply /\ reply = "ok" /\ cqe["app"] > 0 /\ mode = "tcp" /\ held["remote"] = << >>
  <2>1. CASE Handshake
    <3>1. ASSUME NEW pc, Suspend("app", pc) PROVE pc = "read"
      BY <1>t, <1>w, <3>1, SuspendEffect
    <3>2. ~\E u : FinishClient(u)
      BY <1>t, <1>w, ReturnEffect DEF FinishClient
    <3> QED
      BY <2>1, <3>1, <3>2
      DEF Handshake, OnGreeting, OnRefuse, OnAccept, OnRequest, OnConnect, OnTls, OnHeader,
          OnResponse, OnReply, OnControl, Proceed, RefuseRequest, Serve, BeginTunnel, BindUdp,
          StartUdpRelay
  <2> QED
    BY <2>1
<1>3. /\ Whole("app")
      /\ reset["app"] \/ NextFor("app") = consumed["remote"] + 1
      /\ Whole("remote") /\ NextFor("remote") = consumed["app"] + 1
  <2>1. CASE task["app"] = "remaining" /\ OnWrite("app")
    <3>1. sent["remote"] = Before("remote")
      BY <2>1 DEF Talks, Before
    <3>2. Whole("remote") /\ NextFor("remote") = Prologue("app") + 1
      BY <1>t, <3>1, WholeBegins DEF Other
    <3>3. consumed["app"] = Prologue("app")
      <4>1. consumed["app"] >= Prologue("app") /\ consumed["app"] <= Prologue("app")
        BY <2>1 DEF Waited
      <4> QED
        BY <1>t, <4>1, StreamTypes, PrologueType
    <3>4. /\ Whole("app") /\ op["app"] = "complete"
          /\ WriteAt("complete", cqe["app"], held["remote"], consumed["remote"], NextFor("app"),
                     reset["app"])
      BY <2>1 DEF Forwarded, OnWrite
    <3>5. Source("app") = "remote"
      BY <2>1 DEF Source
    <3>6. cqe["app"] >= Len(held["remote"]) \/ cqe["app"] <= 0
      <4>1. ~Suspend("app", "remaining")
        BY <1>t, <1>w, SuspendEffect
      <4>2. ~Finish("app")
        BY <1>t, <1>w, ReturnEffect DEF Finish, FinishClient
      <4> QED
        BY <2>1, <3>5, <4>1, <4>2 DEF OnWrite
    <3>7. NextFor("app") \in Int /\ reset["app"] \in BOOLEAN
      BY <1>t, StreamTypes
    <3>8. reset["app"] \/ NextFor("app") = consumed["remote"] + 1
      BY <1>t, <3>4, <3>6, <3>7, WriterResumes
    <3> QED
      BY <3>2, <3>3, <3>4, <3>8
  <2>2. CASE /\ OnReply /\ reply = "ok" /\ cqe["app"] > 0 /\ mode = "tcp"
             /\ held["remote"] = << >>
    <3>1. /\ sent["app"] = << Accepted, Success >> /\ sent["remote"] = << Header >>
          /\ consumed["remote"] >= RespLen /\ held["remote"] = Remaining
      BY <2>2 DEF OnReply, Dispatched, Talks, Spoke, Says
    <3>2. consumed["app"] = Prologue("app")
      BY <2>2 DEF OnReply, Dispatched, Waited
    <3>3. /\ Whole("app") /\ NextFor("app") = RespLen + 1
          /\ Whole("remote") /\ NextFor("remote") = Prologue("app") + 1
      BY <1>t, <3>1, WholeBegins DEF Before, Other, Prologue
    <3>4. RespLen + 1 = consumed["remote"] + 1
      BY <1>t, <2>2, <3>1, RemainingIsNext
    <3> QED
      BY <3>2, <3>3, <3>4
  <2> QED
    BY <1>2, <2>1, <2>2
<1>4. /\ Whole("app")' /\ Whole("remote")'
      /\ NextFor("app")' = NextFor("app") /\ NextFor("remote")' = NextFor("remote")
  BY <1>t, <1>1, <1>3, WholeStays
<1>5. /\ Other("app") = "remote" /\ Other("remote") = "app" /\ task'[e] = "read"
      /\ op'[e] = "posted"
  BY <1>1 DEF Other
<1>6. RelayAt(task'[e], op'[e], cqe'[e], held'[e], consumed'[e], NextFor(Other(e))',
              reset'[Other(e)])
  <2>1. reset'[Other(e)] \/ NextFor(Other(e))' = consumed'[e] + 1
    BY <1>1, <1>3, <1>4, <1>5 DEF Ends
  <2> QED
    BY <1>5, <2>1 DEF RelayAt
<1> QED
  BY <1>4, <1>5, <1>6 DEF Carried, Ends

\* A relay goes on without a gap when its coroutine is resumed.
LEMMA RelayResumes ==
  ASSUME Inv, NEW e \in Ends, Resume(e), Carried(e), started
  PROVE  Carried(e)'
<1> DEFINE d == Other(e)
<1>t. TypeOK /\ Control /\ d \in Ends
  BY EndsType DEF Inv
<1>0. UNCHANGED <<sent, consumed, reset>>
  BY <1>t, ResumeEffect
<1>1. /\ Whole(d)
      /\ RelayAt(task[e], op[e], cqe[e], held[e], consumed[e], NextFor(d), reset[d])
  BY DEF Carried
<1>2. Whole(d)' /\ NextFor(d)' = NextFor(d)
  BY <1>0, <1>1, <1>t, WholeStays
<1>n. /\ NextFor(d) \in Int /\ reset[d] \in BOOLEAN /\ cqe[e] \in Int /\ consumed[e] \in Nat
  BY <1>t, StreamTypes
<1>3. ASSUME RelayAt(task'[e], op'[e], cqe'[e], held'[e], consumed[e], NextFor(d), reset[d])
      PROVE  Carried(e)'
  BY <1>0, <1>2, <1>3 DEF Carried
<1>4. \/ /\ task[e] \in Relaying
         /\ OnRead(e) \/ (OnWrite(e) /\ task[e] = "write") \/ OnShut(e)
  BY <1>t, ResumeKinds
<1>5. CASE Finish(e)
  <2>1. task'[e] = "done"
    BY <1>5, <1>t, FinishEffect, ReturnEffect
  <2>2. reset[d] \/ NextFor(d) = consumed[e] + 1
    <3>1. CASE OnShut(e)
      BY <1>1, <3>1 DEF OnShut, Dispatched, RelayAt
    <3>2. CASE OnWrite(e) /\ task[e] = "write"
      <4>1. WriteAt("complete", cqe[e], held[e], consumed[e], NextFor(d), reset[d])
        BY <1>1, <3>2 DEF OnWrite, RelayAt
      <4>2. cqe[e] <= 0
        <5>1. ~Suspend(e, "write") /\ ~ReadOn(e)
          BY <1>t, <2>1, SuspendEffect DEF ReadOn
        <5> QED
          BY <3>2, <5>1 DEF OnWrite
      <4> QED
        BY <1>n, <1>t, <4>1, <4>2, WriterResumes
    <3>3. CASE OnRead(e)
      <4>1. Suspend(e, "write") \/ Suspend(e, "shut")
        BY <3>3 DEF OnRead
      <4> QED
        BY <1>t, <2>1, <4>1, SuspendEffect
    <3> QED
      BY <1>4, <3>1, <3>2, <3>3
  <2> QED
    BY <1>3, <2>1, <2>2 DEF RelayAt
<1>6. CASE OnRead(e)
  <2>1. task[e] = "read" /\ op[e] = "complete"
    BY <1>6 DEF OnRead, Dispatched
  <2>2. CASE cqe[e] > 0
    <3>1. /\ task'[e] = "write" /\ op'[e] = "posted"
          /\ held'[e] = Run(consumed[e] - cqe[e] + 1, cqe[e])
      BY <1>6, <1>t, <2>2 DEF OnRead, Suspend, TypeOK
    <3>2. reset[d] \/ NextFor(d) + cqe[e] = consumed[e] + 1
      BY <1>1, <2>1, <2>2 DEF RelayAt
    <3>3. cqe[e] \in Nat /\ 0 < cqe[e]
      BY <1>n, <2>2
    <3>4. WriteAt("posted", cqe'[e], held'[e], consumed[e], NextFor(d), reset[d])
      BY <1>n, <3>1, <3>2, <3>3, WriteBegins
    <3> QED
      BY <1>3, <3>1, <3>4 DEF RelayAt
  <2>3. CASE ~(cqe[e] > 0)
    <3>1. task'[e] = "shut"
      BY <1>6, <1>t, <2>3, SuspendEffect DEF OnRead
    <3>2. reset[d] \/ NextFor(d) = consumed[e] + 1
      BY <1>1, <2>1, <2>3 DEF RelayAt
    <3> QED
      BY <1>3, <3>1, <3>2 DEF RelayAt
  <2> QED
    BY <2>2, <2>3
<1>7. CASE OnWrite(e) /\ task[e] = "write" /\ ~Finish(e)
  <2>1. WriteAt("complete", cqe[e], held[e], consumed[e], NextFor(d), reset[d])
    BY <1>1, <1>7 DEF OnWrite, RelayAt
  <2>2. Source(e) = e
    BY <1>7 DEF Source
  <2>3. CASE cqe[e] > 0 /\ cqe[e] < Len(held[e]) /\ Suspend(e, "write")
             /\ held' = [held EXCEPT ![e] = SubSeq(@, cqe[e] + 1, Len(@))]
    <3>1. /\ task'[e] = "write" /\ op'[e] = "posted" /\ cqe'[e] = 0
          /\ held'[e] = SubSeq(held[e], cqe[e] + 1, Len(held[e]))
      BY <1>t, <2>3 DEF Suspend, TypeOK
    <3>2. WriteAt("posted", 0, held'[e], consumed[e], NextFor(d), reset[d])
      BY <1>n, <1>t, <2>1, <2>3, <3>1, WriterResumes
    <3> QED
      BY <1>3, <3>1, <3>2 DEF RelayAt
  <2>4. CASE ReadOn(e) /\ (cqe[e] >= Len(held[e]) \/ cqe[e] <= 0)
    <3>1. task'[e] = "read" /\ op'[e] = "posted"
      BY <1>t, <2>4, SuspendEffect DEF ReadOn
    <3>2. reset[d] \/ NextFor(d) = consumed[e] + 1
      BY <1>n, <1>t, <2>1, <2>4, WriterResumes
    <3> QED
      BY <1>3, <3>1, <3>2 DEF RelayAt
  <2> QED
    BY <1>7, <2>2, <2>3, <2>4 DEF OnWrite
<1> QED
  BY <1>4, <1>5, <1>6, <1>7 DEF OnShut

\* Once the relays run, a coroutine that waits for the kernel is a relay.
LEMMA RelayWaits ==
  ASSUME TypeOK, Control, NEW e \in Ends, op[e] = "posted", started
  PROVE  task[e] \in Relaying
BY DEF Control, Asking, Building, Relaying, Ends, TypeOK, PCs

\* ... when the kernel completes its operation ...
LEMMA RelayCompletes ==
  ASSUME Inv, TypeOK', Shutdowns, NEW e \in Ends, Kernel(e), Carried(e), started
  PROVE  Carried(e)'
<1> DEFINE d == Other(e)
<1>t. TypeOK /\ Control /\ d \in Ends /\ d # e
  BY OtherEnd DEF Inv
<1>0. /\ op[e] = "posted" /\ op'[e] = "complete"
      /\ UNCHANGED <<task, held, reset, started>>
  BY <1>t, CompletionEffect
<1>1. /\ Whole(d)
      /\ RelayAt(task[e], op[e], cqe[e], held[e], consumed[e], NextFor(d), reset[d])
  BY DEF Carried
<1>2. task[e] \in Relaying
  BY <1>0, <1>t, RelayWaits
<1>n. /\ NextFor(d) \in Int /\ reset[d] \in BOOLEAN /\ consumed[e] \in Nat
      /\ consumed'[e] \in Nat
  BY <1>t, StreamTypes DEF TypeOK
<1>3. CASE task[e] = "read"
  <2>1. KernelRecv(e) /\ Reads(e) = e
    BY <1>3, <1>2 DEF Kernel, KernelRecv, KernelSend, KernelShut, KernelSay, KernelConnect,
                      KernelTls, Reads
  <2>2. sent' = sent
    BY <2>1 DEF KernelRecv, wire
  <2>3. Whole(d)' /\ NextFor(d)' = NextFor(d)
    BY <1>1, <1>t, <2>2, WholeStays
  <2>4. reset[d] \/ NextFor(d) = consumed[e] + 1
    BY <1>0, <1>1, <1>3 DEF RelayAt
  <2>5. CASE UNCHANGED consumed /\ (Complete(e, 0) \/ Complete(e, -1))
    <3>1. cqe'[e] = 0 \/ cqe'[e] = -1
      BY <1>t, <2>5 DEF Complete, TypeOK
    <3>2. ~(cqe'[e] > 0)
      BY <3>1
    <3> QED
      BY <1>0, <1>3, <2>3, <2>4, <2>5, <3>2 DEF Carried, RelayAt
  <2>6. ASSUME NEW n \in 1 .. (produced[e] - consumed[e]), Complete(e, n),
               consumed' = [consumed EXCEPT ![e] = @ + n]
        PROVE  Carried(e)'
    <3>1. cqe'[e] = n /\ consumed'[e] = consumed[e] + n /\ n > 0 /\ n \in Int
      BY <1>t, <2>6, StreamTypes DEF Complete, TypeOK
    <3>2. reset[d] \/ NextFor(d) + n = consumed[e] + n + 1
      BY <1>n, <2>4, <3>1
    <3> QED
      BY <1>0, <1>3, <2>3, <3>1, <3>2 DEF Carried, RelayAt
  <2> QED
    BY <2>1, <2>5, <2>6 DEF KernelRecv, wire
<1>4. CASE task[e] = "write"
  <2>1. KernelSend(e) /\ Source(e) = e
    BY <1>4 DEF Kernel, KernelRecv, KernelSend, KernelShut, KernelSay, KernelConnect,
                KernelTls, Source
  <2>2. consumed' = consumed
    BY <2>1 DEF KernelSend
  <2>3. ~wrShut[d]
    BY <1>0, <1>4, <1>t, OtherEnd DEF Shutdowns, Control
  <2>4. WriteAt("posted", cqe[e], held[e], consumed[e], NextFor(d), reset[d])
    BY <1>0, <1>1, <1>4 DEF RelayAt
  <2>5. /\ Whole(d)'
        /\ WriteAt("complete", cqe'[e], held[e], consumed[e], NextFor(d)', reset[d])
    BY <1>1, <1>t, <2>1, <2>3, <2>4, WriterSends
  <2> QED
    BY <1>0, <1>4, <2>2, <2>5 DEF Carried, RelayAt
<1>5. CASE task[e] = "shut"
  <2>1. KernelShut(e)
    BY <1>5 DEF Kernel, KernelRecv, KernelSend, KernelShut, KernelSay, KernelConnect, KernelTls
  <2>2. UNCHANGED wire
    BY <2>1 DEF KernelShut
  <2>3. Whole(d)' /\ NextFor(d)' = NextFor(d)
    BY <1>1, <1>t, <2>2, WholeStays DEF wire
  <2> QED
    BY <1>0, <1>1, <1>5, <2>2, <2>3 DEF Carried, RelayAt, wire
<1> QED
  BY <1>2, <1>3, <1>4, <1>5 DEF Relaying

\* ... and when anybody else does anything.
LEMMA RelayUndisturbed ==
  ASSUME TypeOK, NEW e \in Ends, Carried(e), started' = started,
         task'[e] = task[e], op'[e] = op[e], cqe'[e] = cqe[e], held'[e] = held[e],
         consumed'[e] = consumed[e], sent'[Other(e)] = sent[Other(e)],
         reset[Other(e)] => reset'[Other(e)], reset'[Other(e)] \in BOOLEAN
  PROVE  Carried(e)'
<1> DEFINE d == Other(e)
<1>t. d \in Ends
  BY EndsType
<1>1. CASE ~started
  BY <1>1 DEF Carried
<1>2. CASE started
  <2>1. /\ Whole(d)
        /\ RelayAt(task[e], op[e], cqe[e], held[e], consumed[e], NextFor(d), reset[d])
    BY <1>2 DEF Carried
  <2>2. Whole(d)' /\ NextFor(d)' = NextFor(d)
    BY <1>t, <2>1, WholeStays
  <2>3. reset[d] \in BOOLEAN
    BY <1>t, StreamTypes
  <2>4. RelayAt(task[e], op[e], cqe[e], held[e], consumed[e], NextFor(d), reset'[d])
    BY <2>1, <2>3, GoneLater
  <2> QED
    BY <2>2, <2>4 DEF Carried
<1> QED
  BY <1>1, <1>2

\* Every step leaves the stream of e without a gap.
LEMMA CarriedStep ==
  ASSUME Inv, TypeOK', Shutdowns, Talks, Waited, Forwarded, NEW e \in Ends, Carried(e),
         [Next]_vars
  PROVE  Carried(e)'
<1>t. TypeOK /\ Control /\ Other(e) \in Ends /\ Other(e) # e
  BY OtherEnd DEF Inv
<1>r. (reset[Other(e)] => reset'[Other(e)]) /\ reset'[Other(e)] \in BOOLEAN
  BY <1>t, FlagsRise DEF TypeOK
<1>1. CASE UNCHANGED <<task, op, cqe, held, consumed, sent, started>>
  BY <1>1, <1>r, <1>t, RelayUndisturbed
<1>2. CASE ~started'
  BY <1>2 DEF Carried
<1>3. ASSUME NEW o \in Ends, Resume(o) PROVE Carried(e)'
  <2>0. UNCHANGED <<sent, consumed, reset>>
    BY <1>3, <1>t, ResumeEffect
  <2>1. CASE o = e /\ started
    BY <1>3, <1>t, <2>1, RelayResumes
  <2>2. CASE ~started /\ started'
    <3>1. ~Finish(o) /\ ~\E u : o = "app" /\ FinishClient(u)
      BY <1>t, <2>2, FinishEffect
    <3>2. CASE o = "app" /\ Handshake
      <4>1. StartRelays
        BY <1>t, <2>2, <3>1, <3>2, HandshakeEffect
      <4> QED
        BY <3>2, <4>1, RelaysCarry
    <3>3. CASE o = "app" /\ task[o] = "remaining" /\ OnWrite(o)
      <4>1. StartRelays
        BY <2>2, <3>1, <3>3 DEF OnWrite, ReadOn, flags
      <4> QED
        BY <3>3, <4>1, RelaysCarry
    <3> QED
      BY <1>3, <1>t, <2>2, <3>2, <3>3, ResumeKinds
  <2>3. CASE o # e /\ started
    <3>1. CASE Finish(o)
      <4>1. Return(o) /\ started' = started
        BY <1>t, <3>1, FinishEffect
      <4>2. task'[e] = task[e] /\ op'[e] = op[e] /\ cqe'[e] = cqe[e] /\ held'[e] = held[e]
        BY <1>t, <2>3, <4>1 DEF Return, TypeOK
      <4> QED
        BY <1>r, <1>t, <2>0, <4>1, <4>2, RelayUndisturbed
    <3>2. CASE ~Finish(o)
      <4>1. OnRead(o) \/ (OnWrite(o) /\ task[o] = "write")
        BY <1>3, <1>t, <2>3, <3>2, ResumeKinds DEF OnShut
      <4>2. PICK pc : Suspend(o, pc)
        BY <3>2, <4>1 DEF OnRead, OnWrite, ReadOn
      <4>3. started' = started
        BY <3>2, <4>1 DEF OnRead, OnWrite, ReadOn, flags
      <4>4. held' = held \/ \E h : held' = [held EXCEPT ![o] = h]
        BY <3>2, <4>1 DEF OnRead, OnWrite, ReadOn, Source
      <4>5. task'[e] = task[e] /\ op'[e] = op[e] /\ cqe'[e] = cqe[e] /\ held'[e] = held[e]
        BY <1>t, <2>3, <4>2, <4>4 DEF Suspend, TypeOK
      <4> QED
        BY <1>r, <1>t, <2>0, <4>3, <4>5, RelayUndisturbed
    <3> QED
      BY <3>1, <3>2
  <2>4. started => started'
    BY <1>3, <1>t, ResumeEffect
  <2> QED
    BY <1>2, <2>1, <2>2, <2>3, <2>4
<1>4. ASSUME NEW o \in Ends, Kernel(o) PROVE Carried(e)'
  <2>0. /\ op[o] = "posted" /\ UNCHANGED <<task, held, reset, started>>
        /\ \A x \in Ends : x # o => op'[x] = op[x] /\ cqe'[x] = cqe[x]
    BY <1>4, <1>t, CompletionEffect
  <2>1. CASE o = e /\ started
    BY <1>4, <2>1, RelayCompletes
  <2>2. CASE ~started
    BY <1>2, <2>0, <2>2
  <2>3. CASE o # e /\ started
    <3>1. task[o] \in Relaying
      BY <1>t, <2>0, <2>3, RelayWaits
    <3>2. Reads(o) = o /\ Source(o) = o /\ Other(o) = e
      BY <1>t, <2>3, <3>1, OtherEnd DEF Reads, Source, Relaying
    <3>3. ~KernelSay
      BY <1>t, <2>3 DEF KernelSay, Control, Asking, Building
    <3>4. consumed'[e] = consumed[e]
      BY <1>4, <1>t, <2>3, <3>2, <3>3, CompletionWire DEF wire, TypeOK
    <3>5. sent'[Other(e)] = sent[Other(e)]
      <4>1. sent' = sent \/ \E x : sent' = [sent EXCEPT ![e] = x]
        BY <1>4, <1>t, <3>2, <3>3, CompletionWire DEF wire
      <4> QED
        BY <1>t, <4>1 DEF TypeOK
    <3> QED
      BY <1>r, <1>t, <2>0, <2>3, <3>4, <3>5, RelayUndisturbed
  <2> QED
    BY <2>1, <2>2, <2>3
<1>5. CASE Start
  <2>1. ~started /\ started' = started
    BY <1>5, <1>t DEF Start, Proceed, flags, Control, Asking
  <2> QED
    BY <1>2, <2>1
<1>6. CASE Reclaim \/ UNCHANGED vars
  BY <1>1, <1>6 DEF Reclaim, vars, coroutines, wire
<1>7. ASSUME NEW o \in Ends, Peer(o) PROVE Carried(e)'
  BY <1>1, <1>7, PeerLeaves
<1> QED
  BY <1>3, <1>4, <1>5, <1>6, <1>7 DEF Next, Reclaimed

-----------------------------------------------------------------------------
(* Nothing is lost.                                                         *)

\* An exhausted stream stays exhausted.
LEMMA ExhaustedStays ==
  ASSUME TypeOK, TypeOK', NEW e \in Ends, Exhausted(e), [Next]_vars
  PROVE  Exhausted(e)'
<1>0. (reset[e] => reset'[e]) /\ (peerFin[e] => peerFin'[e]) /\ (rdShut[e] => rdShut'[e])
  BY FlagsRise
<1>1. CASE reset[e]
  BY <1>0, <1>1 DEF Exhausted
<1>2. CASE consumed[e] = produced[e] /\ (peerFin[e] \/ rdShut[e])
  <2>1. CASE UNCHANGED <<consumed, produced>>
    BY <1>0, <1>2, <2>1 DEF Exhausted
  <2>2. ASSUME NEW o \in Ends, Peer(o) PROVE Exhausted(e)'
    <3>1. consumed' = consumed
      BY <2>2, PeerLeaves
    <3>2. produced'[e] = produced[e]
      BY <1>2, <2>2 DEF Peer, PeerSend, PeerFin, PeerReset, PeerRead, CanSend, TypeOK
    <3> QED
      BY <1>0, <1>2, <3>1, <3>2 DEF Exhausted
  <2>3. ASSUME NEW o \in Ends, Kernel(o) PROVE Exhausted(e)'
    <3>1. produced' = produced
      BY <2>3, CompletionEffect
    <3>2. consumed'[e] = consumed[e]
      <4>1. \/ consumed' = consumed
            \/ \E n \in 1 .. (produced[Reads(o)] - consumed[Reads(o)]) :
                 consumed' = [consumed EXCEPT ![Reads(o)] = @ + n]
        BY <2>3, CompletionWire DEF wire
      <4>2. CASE Reads(o) = e
        <5>1. consumed[e] \in Nat /\ produced[e] - consumed[e] = 0
          BY <1>2, StreamTypes
        <5> QED
          BY <4>1, <4>2, <5>1
      <4>3. CASE Reads(o) # e
        BY <4>1, <4>3 DEF TypeOK
      <4> QED
        BY <4>2, <4>3
    <3> QED
      BY <1>0, <1>2, <3>1, <3>2 DEF Exhausted
  <2>4. ASSUME NEW o \in Ends, Resume(o) PROVE Exhausted(e)'
    BY <2>1, <2>4, ResumeEffect
  <2>5. CASE Start \/ Reclaim \/ UNCHANGED vars
    BY <2>1, <2>5 DEF Start, Proceed, Reclaim, wire, peers, vars
  <2> QED
    BY <2>2, <2>3, <2>4, <2>5 DEF Next, Reclaimed
<1> QED
  BY <1>1, <1>2 DEF Exhausted

\* A relay ends for a reason only.
LEMMA EndingStep ==
  ASSUME Inv, TypeOK', NEW e \in Ends, Carried(e), Ending(e), [Next]_vars
  PROVE  Ending(e)'
<1> USE DEF Dispatched
<1>t. TypeOK /\ Control /\ Other(e) \in Ends
  BY EndsType DEF Inv
<1>0. /\ Exhausted(e) => Exhausted(e)'
      /\ reset[Other(e)] => reset'[Other(e)]
      /\ dangling => dangling'
  BY <1>t, ExhaustedStays, FlagsRise
<1>1. CASE task'[e] = task[e] /\ op'[e] = op[e] /\ cqe'[e] = cqe[e] /\ started' = started
  BY <1>0, <1>1 DEF Ending
<1>2. CASE \/ task'[e] \notin {"read", "shut", "done"}
           \/ task'[e] = "read" /\ op'[e] = "posted"
           \/ dangling'
           \/ task'[e] = "done" /\ ~started'
  BY <1>2 DEF Ending
<1>3. ASSUME NEW o \in Ends, Resume(o), o # e PROVE Ending(e)'
  <2>1. CASE Finish(o) \/ \E u : o = "app" /\ FinishClient(u)
    <3>1. Return(o) /\ started' = started
      BY <1>t, <2>1, FinishEffect
    <3>2. task'[e] = task[e] /\ op'[e] = op[e] /\ cqe'[e] = cqe[e]
      BY <1>3, <1>t, <3>1 DEF Return, TypeOK
    <3> QED
      BY <1>1, <3>1, <3>2
  <2>2. CASE StartRelays
    BY <1>2, <2>2, RelaysBegin
  <2>3. ASSUME NEW pc, Suspend(o, pc), started' = started PROVE Ending(e)'
    BY <1>1, <1>3, <1>t, <2>3 DEF Suspend, TypeOK
  <2>4. CASE o = "app" /\ Handshake
    BY <1>t, <2>1, <2>2, <2>3, <2>4, HandshakeEffect
  <2>5. CASE OnRead(o) \/ OnWrite(o) \/ OnShut(o)
    BY <2>1, <2>2, <2>3, <2>5 DEF OnRead, OnWrite, OnShut, ReadOn, flags
  <2> QED
    BY <1>3, <2>4, <2>5 DEF Resume
<1>4. CASE Resume(e)
  <2>1. CASE ~started
    <3>1. CASE Finish(e) \/ \E u : e = "app" /\ FinishClient(u)
      <4>1. task'[e] = "done" /\ started' = started
        BY <1>t, <3>1, FinishEffect, ReturnEffect
      <4> QED
        BY <1>2, <2>1, <4>1
    <3>2. CASE StartRelays
      BY <1>2, <3>2, RelaysBegin
    <3>3. ASSUME NEW pc \in PCs \ {"none", "created", "read", "write", "shut", "done"},
                 Suspend(e, pc)
          PROVE  Ending(e)'
      BY <1>2, <1>t, <3>3, SuspendEffect
    <3>4. CASE e = "app" /\ Handshake
      BY <1>t, <3>1, <3>2, <3>3, <3>4, HandshakeEffect
    <3>5. CASE task[e] = "remaining" /\ OnWrite(e)
      BY <3>1, <3>2, <3>3, <3>5 DEF OnWrite, PCs
    <3> QED
      BY <1>4, <1>t, <2>1, <3>4, <3>5, ResumeKinds
  <2>2. CASE started /\ OnRead(e)
    <3>1. CASE cqe[e] > 0
      BY <1>2, <1>t, <2>2, <3>1, SuspendEffect DEF OnRead
    <3>2. CASE ~(cqe[e] > 0)
      <4>1. task[e] = "read" /\ op[e] = "complete" /\ task'[e] = "shut"
        BY <1>t, <2>2, <3>2, SuspendEffect DEF OnRead
      <4>2. cqe[e] <= 0
        BY <1>t, <3>2, StreamTypes
      <4>3. ~dangling => Exhausted(e)
        BY <4>1, <4>2 DEF Ending
      <4> QED
        BY <1>0, <4>1, <4>3 DEF Ending
    <3> QED
      BY <3>1, <3>2
  <2>3. CASE started /\ OnWrite(e) /\ task[e] = "write"
    <3>1. CASE Finish(e)
      <4>1. task'[e] = "done"
        BY <1>t, <3>1, FinishEffect, ReturnEffect
      <4>2. cqe[e] <= 0
        <5>1. ~Suspend(e, "write") /\ ~ReadOn(e)
          BY <1>t, <4>1, SuspendEffect DEF ReadOn
        <5> QED
          BY <2>3, <5>1 DEF OnWrite
      <4>3. WriteAt("complete", cqe[e], held[e], consumed[e], NextFor(Other(e)), reset[Other(e)])
        BY <2>3 DEF Carried, RelayAt, OnWrite
      <4>4. reset[Other(e)]
        BY <4>2, <4>3 DEF WriteAt
      <4> QED
        BY <1>0, <4>1, <4>4 DEF Ending
    <3>2. CASE Suspend(e, "write")
      BY <1>2, <1>t, <3>2, SuspendEffect
    <3>3. CASE ReadOn(e)
      BY <1>2, <1>t, <3>3, SuspendEffect DEF ReadOn
    <3> QED
      BY <2>3, <3>1, <3>2, <3>3 DEF OnWrite
  <2>4. CASE started /\ OnShut(e)
    <3>1. task[e] = "shut" /\ Finish(e)
      BY <2>4 DEF OnShut
    <3>2. task'[e] = "done"
      BY <1>t, <3>1, FinishEffect, ReturnEffect
    <3>3. ~dangling => Exhausted(e)
      BY <3>1 DEF Ending
    <3> QED
      BY <1>0, <3>2, <3>3 DEF Ending
  <2> QED
    BY <1>4, <1>t, <2>1, <2>2, <2>3, <2>4, ResumeKinds
<1>5. ASSUME NEW o \in Ends, Kernel(o) PROVE Ending(e)'
  <2>1. /\ UNCHANGED <<task, started, dangling>>
        /\ \A x \in Ends : x # o => op'[x] = op[x] /\ cqe'[x] = cqe[x]
    BY <1>5, <1>t, CompletionEffect
  <2>2. CASE o # e
    BY <1>1, <2>1, <2>2
  <2>3. CASE o = e /\ task[e] # "read"
    BY <1>0, <2>1, <2>3 DEF Ending
  <2>4. CASE o = e /\ task[e] = "read"
    <3>1. KernelRecv(e) /\ Reads(e) = e
      BY <1>5, <2>4 DEF Kernel, KernelRecv, KernelSend, KernelShut, KernelSay, KernelConnect,
                        KernelTls, Reads
    <3>2. consumed[e] \in Nat /\ produced[e] \in Nat /\ cqe'[e] \in Int
      BY <1>t, StreamTypes DEF TypeOK
    <3>3. CASE \E n \in 1 .. (produced[e] - consumed[e]) : Complete(e, n)
      <4>1. cqe'[e] > 0
        BY <1>t, <3>2, <3>3 DEF Complete, TypeOK
      <4>2. ~(cqe'[e] <= 0)
        BY <3>2, <4>1
      <4> QED
        BY <2>1, <2>4, <4>2 DEF Ending
    <3>4. CASE produced[e] - consumed[e] = 0 /\ (peerFin[e] \/ rdShut[e] \/ reset[e])
      <4>1. consumed[e] = produced[e]
        BY <3>2, <3>4
      <4>2. Exhausted(e)
        BY <3>4, <4>1 DEF Exhausted
      <4> QED
        BY <1>0, <2>1, <2>4, <4>2 DEF Ending
    <3>5. CASE dangling
      BY <1>0, <1>2, <3>5
    <3> QED
      BY <3>1, <3>3, <3>4, <3>5 DEF KernelRecv
  <2> QED
    BY <2>2, <2>3, <2>4
<1>6. CASE Start
  <2>1. /\ Suspend("app", "greeting") /\ started' = started
    BY <1>6 DEF Start, Proceed, flags
  <2>2. CASE e = "app"
    BY <1>2, <1>t, <2>1, <2>2, SuspendEffect
  <2>3. CASE e # "app"
    BY <1>1, <1>t, <2>1, <2>3 DEF Suspend, TypeOK
  <2> QED
    BY <2>2, <2>3
<1>7. CASE Reclaim \/ UNCHANGED vars
  BY <1>1, <1>7 DEF Reclaim, coroutines, vars
<1>8. ASSUME NEW o \in Ends, Peer(o) PROVE Ending(e)'
  BY <1>1, <1>8, PeerLeaves
<1> QED
  BY <1>3, <1>4, <1>5, <1>6, <1>7, <1>8 DEF Next, Reclaimed

\* The first state satisfies the invariant.
LEMMA StreamsInit == Init => IInv
<1> SUFFICES ASSUME Init PROVE IInv
  OBVIOUS
<1>1. Inv
  <2>1. Control
    BY DEF Init, Control, Asking, Building, Relaying, Ends
  <2>2. Sockets
    BY EndsType DEF Init, Sockets, NoTunnel, Asking, Building, Relaying
  <2> QED
    BY <2>1, <2>2, TypeInit DEF Inv
<1>2. Shutdowns
  BY OtherEnd DEF Init, Shutdowns
<1>3. Talks
  BY EndsType DEF Init, Talks, Asking, Building
<1>4. Counts
  <2>1. \A e \in Ends : consumed[e] = 0 /\ produced[e] = 0 /\ drained[e] = 0 /\ sent[e] = << >>
    BY DEF Init
  <2> QED
    BY <2>1 DEF Counts
<1>5. Waited
  <2>1. produced["app"] = 0 /\ task["app"] = "created"
    BY EndsType DEF Init
  <2> QED
    BY <2>1, PrologueType DEF Waited, Building
<1>6. Forwarded /\ \A e \in Ends : Carried(e) /\ Ending(e)
  BY EndsType DEF Init, Forwarded, Carried, Ending
<1> QED
  BY <1>1, <1>2, <1>3, <1>4, <1>5, <1>6 DEF IInv

\* The inductive invariant holds throughout: at every point of every run the
\* bytes of each stream are where the program counters say they are.
THEOREM StreamsAccountedFor == Spec => []IInv
<1>1. IInv /\ [Next]_vars => IInv'
  <2> SUFFICES ASSUME IInv, [Next]_vars PROVE IInv'
    OBVIOUS
  <2>1. Inv'
    <3>1. TypeOK'
      BY TypeInductive DEF IInv, Inv
    <3>2. Control' /\ Sockets'
      BY ControlInductive, SocketsInductive DEF IInv
    <3> QED
      BY <3>1, <3>2 DEF Inv
  <2>2. TypeOK /\ TypeOK' /\ Control'
    BY <2>1 DEF IInv, Inv
  <2>3. Shutdowns'
    BY ShutdownsStep DEF IInv
  <2>4. Talks'
    BY <2>2, TalksStep DEF IInv
  <2>5. Counts'
    BY <2>2, CountsStep DEF IInv
  <2>6. patient' => patient
    BY <2>2, ResumeEffect, CompletionEffect, PeerLeaves
    DEF Next, Start, Proceed, Reclaim, Reclaimed, choices, vars
  <2>7. ASSUME patient PROVE Waited' /\ Forwarded'
    BY <2>2, <2>7, WaitedStep, ForwardedStep DEF IInv
  <2>8. ASSUME patient, NEW e \in Ends PROVE Carried(e)' /\ Ending(e)'
    BY <2>2, <2>8, CarriedStep, EndingStep DEF IInv
  <2> QED
    BY <2>1, <2>3, <2>4, <2>5, <2>6, <2>7, <2>8 DEF IInv
<1> QED
  BY <1>1, StreamsInit, PTL DEF Spec

\* An application that waits for the answers to its greeting and its request
\* loses nothing, and nothing of the remote's is lost: what came in one piece
\* with the response header is forwarded first, and both relays ran to the end of
\* their streams before closed_ was set (drainRemaining, runTcpSession, copyStream).
THEOREM NoByteIsLost == Spec => []NothingLost
<1>1. IInv => NothingLost
  <2> SUFFICES ASSUME IInv, patient, closed, started, ~dangling,
                      \A x \in Ends : ~reset[x], NEW e \in Ends
               PROVE  Prologue(e) + Len(sent[Other(e)]) - Preface(Other(e)) = produced[e]
    BY DEF NothingLost
  <2>t. TypeOK /\ Other(e) \in Ends /\ Other(Other(e)) = e
    BY OtherEnd DEF IInv, Inv
  <2>1. task[e] = "done"
    BY DEF IInv, Inv, Control, Ends
  <2>2. ~reset[e] /\ ~reset[Other(e)]
    BY <2>t
  <2>3. consumed[e] = produced[e]
    BY <2>1, <2>2 DEF IInv, Ending, Exhausted
  <2>4. NextFor(Other(e)) = consumed[e] + 1
    BY <2>1, <2>2 DEF IInv, Carried, RelayAt
  <2> DEFINE p == Prologue(e)
             l == Len(sent[Other(e)])
             f == Preface(Other(e))
  <2>5. p \in Nat /\ l \in Nat /\ f \in Nat /\ consumed[e] \in Nat
    BY <2>t, StreamTypes
  <2>6. NextFor(Other(e)) = p + (l - f) + 1
    BY <2>t DEF NextFor
  <2> HIDE DEF p, l, f
  <2>7. p + l - f = produced[e]
    BY <2>3, <2>4, <2>5, <2>6
  <2> QED
    BY <2>7 DEF p, l, f
<1> QED
  BY <1>1, StreamsAccountedFor, PTL

-----------------------------------------------------------------------------
(* The session is the abstract pipe.                                        *)

\* What stands behind the first piece of a stream.
LEMMA Behind ==
  ASSUME NEW s \in Seq(Int), NEW t \in Seq(Int)
  PROVE  SubSeq(s \o t, Len(s) + 1, Len(s \o t)) = t
<1> DEFINE st == s \o t
           u == SubSeq(st, Len(s) + 1, Len(st))
<1>1. /\ st \in Seq(Int) /\ Len(st) = Len(s) + Len(t) /\ Len(s) \in Nat /\ Len(t) \in Nat
      /\ \A i \in 1 .. Len(t) : st[Len(s) + i] = t[i]
  BY ConcatProperties, LenProperties
<1> HIDE DEF st
<1>2. \A i \in Len(s) + 1 .. Len(st) : st[i] \in Int
  BY <1>1, ElementOfSeq
<1>3. /\ u \in Seq(Int) /\ Len(u) = Len(t)
      /\ \A i \in 1 .. Len(t) : u[i] = st[Len(s) + i]
  BY <1>1, <1>2, SubSeqProperties
<1> HIDE DEF u
<1>4. \A i \in 1 .. Len(u) : u[i] = t[i]
  BY <1>1, <1>3
<1>5. u = t
  BY <1>3, <1>4, SeqEqual
<1> QED
  BY <1>5 DEF u, st

\* The payload of a stream without a gap.
LEMMA PayloadIs ==
  ASSUME TypeOK, NEW d \in Ends, Whole(d)
  PROVE  Payload(d) = Run(Prologue(Other(d)) + 1, Len(sent[d]) - Preface(d))
<1> DEFINE b == Before(d)
           f == Prologue(Other(d)) + 1
           m == Len(sent[d]) - Preface(d)
           x == Run(f, m)
<1>1. /\ b \in Seq(Int) /\ Len(b) = Preface(d) /\ f \in Int /\ m \in Nat
      /\ sent[d] = b \o x
  BY StreamTypes, OtherEnd DEF Whole
<1> HIDE DEF f, m
<1>2. x \in Seq(Int)
  BY <1>1, RunType
<1> HIDE DEF b, x
<1>3. SubSeq(b \o x, Len(b) + 1, Len(b \o x)) = x
  BY <1>1, <1>2, Behind
<1>4. Payload(d) = x
  BY <1>1, <1>3 DEF Payload
<1> QED
  BY <1>4 DEF x, f, m

\* A run counted from elsewhere.
LEMMA RunShifted ==
  ASSUME NEW f \in Int, NEW m \in Nat, NEW o \in Int
  PROVE  [i \in 1 .. Len(Run(f, m)) |-> Run(f, m)[i] - o] = Run(f - o, m)
<1>1. Len(Run(f, m)) = m /\ \A i \in 1 .. m : Run(f, m)[i] = f + i - 1
  BY RunType
<1>2. \A i \in 1 .. m : Run(f, m)[i] - o = f - o + i - 1
  BY <1>1
<1> QED
  BY <1>1, <1>2 DEF Run

\* What the application sees of the remote's first m bytes, and the grant.
LEMMA AppSees ==
  ASSUME NEW m \in Nat
  PROVE  << 0 >> \o [i \in 1 .. Len(Run(RespLen + 1, m)) |-> Run(RespLen + 1, m)[i] - RespLen]
           = Run(0, m + 1)
<1> DEFINE f == RespLen + 1
<1>1. f - RespLen = 1 /\ f \in Int /\ RespLen \in Int
  BY PrologueType
<1> HIDE DEF f
<1>2. [i \in 1 .. Len(Run(f, m)) |-> Run(f, m)[i] - RespLen] = Run(f - RespLen, m)
  BY <1>1, RunShifted
<1>3. << 0 >> = Run(0, 1)
  BY DEF Run
<1>4. Run(0, 1) \o Run(1, m) = Run(0, m + 1)
  <2>1. 0 \in Int /\ 1 \in Nat /\ 0 + 1 = 1 /\ 1 + m = m + 1
    OBVIOUS
  <2>2. \A g \in Int, n \in Nat : Run(g, n) \o Run(g + n, m) = Run(g, n + m)
    BY RunConcat
  <2>3. Run(0, 1) \o Run(0 + 1, m) = Run(0, 1 + m)
    BY <2>1, <2>2
  <2> QED
    BY <2>1, <2>3
<1> QED
  BY <1>1, <1>2, <1>3, <1>4 DEF f

\* What the application has got once its request is granted.
LEMMA ToAppIs ==
  ASSUME TypeOK, Whole("app")
  PROVE  Granted /\ ToApp = Run(0, Len(sent["app"]) - 1) /\ Len(sent["app"]) - 1 \in Nat
<1> DEFINE m == Len(sent["app"]) - 2
           x == Run(RespLen + 1, m)
           b == << Accepted, Success >>
<1>1. /\ m \in Nat /\ sent["app"] = b \o x /\ RespLen \in Nat /\ Len(sent["app"]) >= 2
      /\ Len(sent["app"]) \in Nat
  BY EndsType, StreamTypes, PrologueType DEF Whole, Preface, Before, Other, Prologue
<1>2. m + 1 = Len(sent["app"]) - 1 /\ m + 1 \in Nat /\ RespLen + 1 \in Int
  BY <1>1
<1>3. Payload("app") = x
  BY EndsType, PayloadIs, <1>1 DEF Preface, Other, Prologue
<1> HIDE DEF m
<1>4. b \in Seq(Int) /\ Len(b) = 2 /\ b[2] = Success
  <2>1. \A v, w \in Int : << v, w >> \in Seq(Int) /\ Len(<< v, w >>) = 2 /\ << v, w >>[2] = w
    OBVIOUS
  <2>2. Accepted \in Int /\ Success \in Int
    BY DEF Accepted, Success
  <2> QED
    BY <2>1, <2>2
<1>5. x \in Seq(Int)
  BY <1>1, <1>2, RunType
<1>6. sent["app"][2] = Success
  <2> HIDE DEF b, x
  <2>1. b \in Seq(Int) /\ x \in Seq(Int) /\ 2 \in 1 .. Len(b)
    BY <1>4, <1>5
  <2>2. (b \o x)[2] = b[2]
    BY <2>1, ConcatProperties
  <2> QED
    BY <1>1, <1>4, <2>2
<1>7. Granted
  BY <1>1, <1>6 DEF Granted
<1>8. ToApp = Run(0, m + 1)
  <2>1. << 0 >> \o [i \in 1 .. Len(x) |-> x[i] - RespLen] = Run(0, m + 1)
    BY <1>1, AppSees
  <2> HIDE DEF x
  <2> QED
    BY <1>3, <1>7, <2>1 DEF ToApp
<1> QED
  BY <1>2, <1>7, <1>8

\* A step that neither offers, delivers nor destroys is not seen by the session.
LEMMA Unseen ==
  ASSUME UNCHANGED <<patient, produced, sent, live>>
  PROVE  UNCHANGED Pipe!pipeVars
<1>1. UNCHANGED <<Payload("remote"), ToApp, Offered("remote")>>
  BY DEF Payload, ToApp, Granted, Offered
<1> QED
  BY <1>1 DEF Pipe!pipeVars

\* A step in which nothing is offered or delivered ...
LEMMA UnseenBy ==
  ASSUME UNCHANGED <<patient, produced, live>>,
         patient => UNCHANGED <<Payload("remote"), ToApp>>
  PROVE  UNCHANGED Pipe!pipeVars
<1>1. UNCHANGED Offered("remote")
  BY DEF Offered
<1> QED
  BY <1>1 DEF Pipe!pipeVars

\* ... in which the application gets the next bytes ...
LEMMA AppDelivered ==
  ASSUME UNCHANGED <<patient, produced, live>>, patient, live,
         NEW k \in Nat, NEW n \in Nat, 0 < n, ToApp = Run(0, k),
         k + n <= Offered("remote") + 1, Offered("remote") \in Nat,
         ToApp' = Run(0, k) \o Run(k, n), UNCHANGED Payload("remote")
  PROVE  Pipe!PipeNext
<1>1. Offered("remote")' = Offered("remote")
  BY DEF Offered
<1>2. Len(Run(0, k)) = k /\ n \in 1 .. Offered("remote") - (0 + k) + 1 /\ 0 + k = k
  <2>1. Len(Run(0, k)) = k
    BY RunType, 0 \in Int
  <2> DEFINE o == Offered("remote")
  <2>2. o \in Nat /\ k + n <= o + 1
    OBVIOUS
  <2> HIDE DEF o
  <2>3. n \in 1 .. o - (0 + k) + 1 /\ 0 + k = k
    BY <2>2
  <2> QED
    BY <2>1, <2>3 DEF o
<1>3. Pipe!Run(k, n) = Run(k, n)
  BY DEF Pipe!Run, Run
<1>4. Pipe!Deliver("client")
  BY <1>1, <1>2, <1>3 DEF Pipe!Deliver, Pipe!Start, Pipe!Opposite
<1> QED
  BY <1>4 DEF Pipe!PipeNext, Pipe!PipeEnds

\* ... and in which the remote does.
LEMMA RemoteDelivered ==
  ASSUME UNCHANGED <<patient, produced, live>>, patient, live, ToApp # << >>,
         NEW k \in Nat, NEW n \in Nat, 0 < n,
         Payload("remote") = Run(Prologue("app") + 1, k),
         Prologue("app") + k + n <= produced["app"], produced["app"] \in Nat,
         Payload("remote")' = Run(Prologue("app") + 1, k) \o Run(Prologue("app") + 1 + k, n),
         UNCHANGED ToApp
  PROVE  Pipe!PipeNext
<1> DEFINE p == Prologue("app")
<1>0. p \in Nat
  BY PrologueType
<1>1. Offered("remote")' = Offered("remote")
  BY DEF Offered
<1>2. Len(Run(p + 1, k)) = k /\ n \in 1 .. produced["app"] - (p + 1 + k) + 1
  <2>1. Len(Run(p + 1, k)) = k
    BY <1>0, RunType, p + 1 \in Int
  <2> DEFINE o == produced["app"]
  <2>2. o \in Nat /\ p + k + n <= o
    OBVIOUS
  <2> HIDE DEF o, p
  <2>3. n \in 1 .. o - (p + 1 + k) + 1
    BY <1>0, <2>2
  <2> QED
    BY <2>1, <2>3 DEF o
<1>3. Pipe!Run(p + 1 + k, n) = Run(p + 1 + k, n)
  BY DEF Pipe!Run, Run
<1>4. Pipe!Deliver("target")
  BY <1>1, <1>2, <1>3 DEF Pipe!Deliver, Pipe!Start, Pipe!Opposite
<1> QED
  BY <1>4 DEF Pipe!PipeNext, Pipe!PipeEnds

\* The payload grows by what is sent behind it.
LEMMA PayloadGrows ==
  ASSUME TypeOK, NEW d \in Ends, Whole(d), NEW t \in Seq(Int), sent'[d] = sent[d] \o t
  PROVE  Payload(d)' = Payload(d) \o t
<1> DEFINE b == Before(d)
           f == Prologue(Other(d)) + 1
           m == Len(sent[d]) - Preface(d)
           x == Run(f, m)
           p == Preface(d)
<1>1. /\ b \in Seq(Int) /\ Len(b) = p /\ f \in Int /\ m \in Nat
      /\ sent[d] = b \o x
  <2>1. Len(sent[d]) \in Nat /\ p \in Nat /\ p <= Len(sent[d]) /\ sent[d] = b \o x
    BY StreamTypes DEF Whole
  <2>2. b \in Seq(Int) /\ Len(b) = p
    BY StreamTypes
  <2>3. f \in Int
    BY StreamTypes, OtherEnd
  <2>4. m \in Nat
    BY <2>1
  <2> QED
    BY <2>1, <2>2, <2>3, <2>4
<1>2. Payload(d) = x
  BY PayloadIs
<1> HIDE DEF f, m
<1>3. x \in Seq(Int)
  BY <1>1, RunType
<1>4. Payload(d)' = SubSeq(sent'[d], p + 1, Len(sent'[d]))
  BY DEF Payload
<1> HIDE DEF b, x, p
<1>5. (b \o x) \o t = b \o (x \o t) /\ x \o t \in Seq(Int)
  BY <1>1, <1>3, Chain, ConcatProperties
<1>6. sent'[d] = b \o (x \o t)
  BY <1>1, <1>5
<1>7. SubSeq(b \o (x \o t), Len(b) + 1, Len(b \o (x \o t))) = x \o t
  BY <1>1, <1>5, Behind
<1> QED
  BY <1>1, <1>2, <1>4, <1>6, <1>7

\* Where nothing is sent nothing is seen.
LEMMA ToAppStays ==
  ASSUME sent'["app"] = sent["app"]
  PROVE  UNCHANGED ToApp
<1>1. Payload("app")' = Payload("app")
  BY DEF Payload
<1>2. Granted' = Granted
  BY DEF Granted
<1> QED
  BY <1>1, <1>2 DEF ToApp

\* An open writer: the writer whose send the kernel completes carries a stream
\* without a gap.
LEMMA Writing ==
  ASSUME IInv, patient, NEW e \in Ends, KernelSend(e)
  PROVE  /\ Source(e) \in Ends /\ Whole(Other(Source(e))) /\ Whole("app")
         /\ WriteAt("posted", cqe[e], held[Source(e)], consumed[Source(e)],
                    NextFor(Other(Source(e))), reset[Other(Source(e))])
<1>t. TypeOK /\ Control /\ "app" \in Ends /\ "remote" \in Ends
  BY EndsType DEF IInv, Inv
<1>0. op[e] = "posted" /\ task[e] \in {"write", "remaining"}
  BY DEF KernelSend
<1>1. CASE task[e] = "remaining"
  <2>1. e = "app" /\ Source(e) = "remote" /\ Other("remote") = "app"
    BY <1>1, <1>t DEF Control, Ends, Relaying, Source, Other
  <2> QED
    BY <1>0, <1>1, <1>t, <2>1 DEF IInv, Forwarded
<1>2. CASE task[e] = "write"
  <2>1. Source(e) = e /\ started
    BY <1>2, <1>t DEF Control, Ends, Relaying, Source
  <2>2. Carried(e) /\ Carried("remote") /\ Other("remote") = "app"
    BY <1>t DEF IInv, Other
  <2> QED
    BY <1>0, <1>2, <2>1, <2>2 DEF Carried, RelayAt
<1> QED
  BY <1>0, <1>1, <1>2

\* A send to the application hands over the next bytes of the remote's.
LEMMA SendToApp ==
  ASSUME IInv, TypeOK', [Next]_vars, patient, UNCHANGED <<patient, produced, live>>, live,
         Whole("app"), NEW n \in Nat, 0 < n,
         NextFor("app") + n <= consumed["remote"] + 1,
         sent' = [sent EXCEPT !["app"] = @ \o Run(NextFor("app"), n)]
  PROVE  Pipe!PipeNext
<1> DEFINE m == Len(sent["app"]) - 2
           f == RespLen + 1
           c == produced["remote"]
<1>t. TypeOK /\ "app" \in Ends /\ "remote" \in Ends
  BY EndsType DEF IInv, Inv
<1>1. /\ Granted /\ ToApp = Run(0, Len(sent["app"]) - 1)
      /\ Len(sent["app"]) - 1 \in Nat
  BY <1>t, ToAppIs
<1>2. m \in Nat /\ m + 1 = Len(sent["app"]) - 1
  BY <1>t, StreamTypes DEF Whole, Preface
<1>3. Payload("app") = Run(f, m)
  BY <1>t, PayloadIs DEF Preface, Other, Prologue
<1>4. NextFor("app") = RespLen + m + 1
  BY DEF NextFor, Preface, Other, Prologue
<1>5. c \in Nat /\ consumed["remote"] <= c /\ consumed["remote"] \in Nat /\ RespLen \in Nat
  BY <1>t, StreamTypes, PrologueType DEF IInv, Counts
<1>6. Offered("remote") = IF c > RespLen THEN c - RespLen ELSE 0
  BY DEF Offered, Prologue
<1>7. sent'["app"] = sent["app"] \o Run(NextFor("app"), n) /\ sent'["remote"] = sent["remote"]
  BY <1>t DEF TypeOK
<1> HIDE DEF m, c
<1>8. /\ f \in Int /\ NextFor("app") = f + m /\ m + n \in Nat /\ m + 1 \in Nat
      /\ m + 1 + n <= c - RespLen + 1 /\ c > RespLen
  BY <1>2, <1>4, <1>5
<1> HIDE DEF f
<1>9. Run(f + m, n) \in Seq(Int) /\ Run(f, m) \o Run(f + m, n) = Run(f, m + n)
  <2>1. f + m \in Int
    BY <1>2, <1>8
  <2> QED
    BY <1>2, <1>8, <2>1, RunType, RunConcat
<1>10. Payload("app")' = Run(f, m + n)
  BY <1>3, <1>7, <1>8, <1>9, <1>t, PayloadGrows
<1>11. ToApp' = Run(0, m + n + 1)
  <2>1. Granted'
    BY <1>1, <1>t, GrantedStays
  <2>2. << 0 >> \o [i \in 1 .. Len(Run(f, m + n)) |-> Run(f, m + n)[i] - RespLen]
          = Run(0, m + n + 1)
    BY <1>8, AppSees DEF f
  <2> QED
    BY <1>10, <2>1, <2>2 DEF ToApp
<1>12. Run(0, m + 1) \o Run(m + 1, n) = Run(0, m + n + 1)
  <2>1. 0 \in Int /\ 0 + (m + 1) = m + 1 /\ (m + 1) + n = m + n + 1
    BY <1>2
  <2>2. Run(0, m + 1) \o Run(0 + (m + 1), n) = Run(0, (m + 1) + n)
    BY <1>8, <2>1, RunConcat
  <2> QED
    BY <2>1, <2>2
<1>13. UNCHANGED Payload("remote")
  BY <1>7 DEF Payload
<1>14. m + 1 + n <= Offered("remote") + 1 /\ Offered("remote") \in Nat
  <2>1. Offered("remote") = c - RespLen
    BY <1>6, <1>8
  <2> QED
    BY <1>5, <1>8, <2>1
<1>15. ToApp = Run(0, m + 1)
  BY <1>1, <1>2
<1> QED
  BY <1>8, <1>11, <1>12, <1>13, <1>14, <1>15, AppDelivered

\* A send to the remote hands over the next bytes of the application's.
LEMMA SendToRemote ==
  ASSUME IInv, patient, UNCHANGED <<patient, produced, live>>, live,
         Whole("app"), Whole("remote"), NEW n \in Nat, 0 < n,
         NextFor("remote") + n <= consumed["app"] + 1,
         sent' = [sent EXCEPT !["remote"] = @ \o Run(NextFor("remote"), n)]
  PROVE  Pipe!PipeNext
<1> DEFINE m == Len(sent["remote"]) - 1
           p == Prologue("app")
           c == produced["app"]
<1>t. TypeOK /\ "app" \in Ends /\ "remote" \in Ends
  BY EndsType DEF IInv, Inv
<1>1. ToApp # << >>
  <2>1. ToApp = Run(0, Len(sent["app"]) - 1) /\ Len(sent["app"]) - 1 \in Nat
    BY <1>t, ToAppIs
  <2>2. Len(ToApp) = Len(sent["app"]) - 1
    BY <2>1, RunType, 0 \in Int
  <2>3. Len(sent["app"]) >= 2 /\ Len(sent["app"]) \in Nat
    BY <1>t, StreamTypes DEF Whole, Preface
  <2> QED
    BY <2>2, <2>3
<1>2. m \in Nat
  BY <1>t, StreamTypes DEF Whole, Preface
<1>3. Payload("remote") = Run(p + 1, m)
  BY <1>t, PayloadIs DEF Preface, Other
<1>4. NextFor("remote") = p + m + 1
  BY DEF NextFor, Preface, Other
<1>5. c \in Nat /\ consumed["app"] <= c /\ consumed["app"] \in Nat /\ p \in Nat
  BY <1>t, StreamTypes, PrologueType DEF IInv, Counts
<1>6. sent'["remote"] = sent["remote"] \o Run(NextFor("remote"), n) /\ sent'["app"] = sent["app"]
  BY <1>t DEF TypeOK
<1> HIDE DEF m, c, p
<1>7. p + 1 + m \in Int /\ NextFor("remote") = p + 1 + m /\ p + m + n <= c
  BY <1>2, <1>4, <1>5
<1>8. Run(p + 1 + m, n) \in Seq(Int)
  BY <1>7, RunType
<1>9. Payload("remote")' = Run(p + 1, m) \o Run(p + 1 + m, n)
  <2>1. sent'["remote"] = sent["remote"] \o Run(p + 1 + m, n)
    BY <1>6, <1>7
  <2> DEFINE y == Run(p + 1 + m, n)
  <2>2. y \in Seq(Int) /\ sent'["remote"] = sent["remote"] \o y
    BY <1>8, <2>1
  <2> HIDE DEF y
  <2>3. Payload("remote")' = Payload("remote") \o y
    BY <1>t, <2>2, PayloadGrows
  <2> QED
    BY <1>3, <2>3 DEF y
<1>10. UNCHANGED ToApp
  BY <1>6, ToAppStays
<1> QED
  BY <1>1, <1>2, <1>3, <1>5, <1>7, <1>9, <1>10, RemoteDelivered DEF p, c

\* What clientTask says itself is the grant, or is not seen.
LEMMA SayRefines ==
  ASSUME IInv, patient, UNCHANGED <<patient, produced, live>>, live,
         KernelSay, op["app"] = "posted", NEW d \in Ends,
         d = (IF task["app"] = "header" THEN "remote" ELSE "app"),
         sent' = [sent EXCEPT ![d] = Append(@, Says)]
  PROVE  [Pipe!PipeNext]_Pipe!pipeVars
<1>t. TypeOK /\ "app" \in Ends /\ "remote" \in Ends
  BY EndsType DEF IInv, Inv
<1>0. /\ task["app"] \in {"refuse", "accept", "header", "reply"} /\ ~Spoke
      /\ Talks
  BY DEF KernelSay, Spoke, IInv
<1>1. CASE task["app"] = "header"
  <2>1. sent["remote"] = << >> /\ Says = Header
    BY <1>0, <1>1 DEF Talks, Says
  <2>2. sent'["app"] = sent["app"] /\ sent'["remote"] = Append(<< >>, Header)
    BY <1>1, <1>t, <2>1 DEF TypeOK
  <2>3. Payload("remote") = << >> /\ Payload("remote")' = << >>
    <3>1. /\ SubSeq(<< >>, 2, Len(<< >>)) = << >>
          /\ SubSeq(Append(<< >>, Header), 2, Len(Append(<< >>, Header))) = << >>
      BY DEF Header
    <3> QED
      BY <2>1, <2>2, <3>1 DEF Payload, Preface
  <2>4. UNCHANGED ToApp
    BY <2>2, ToAppStays
  <2> QED
    BY <2>3, <2>4, UnseenBy
<1>2. CASE task["app"] \in {"refuse", "accept"}
  <2>1. sent["app"] = << >> /\ Says \in Int
    BY <1>0, <1>2 DEF Talks, Says, Refused, Accepted
  <2>2. sent'["remote"] = sent["remote"] /\ sent'["app"] = Append(<< >>, Says)
    BY <1>2, <1>t, <2>1 DEF TypeOK
  <2>3. Len(sent["app"]) = 0 /\ Len(sent'["app"]) = 1
    <3>1. Len(<< >>) = 0 /\ \A x \in Int : Len(Append(<< >>, x)) = 1
      OBVIOUS
    <3>2. Len(Append(<< >>, Says)) = 1
      BY <2>1, <3>1
    <3> QED
      BY <2>1, <2>2, <3>1, <3>2, Zenon
  <2>4. ToApp = << >> /\ ToApp' = << >>
    BY <2>3 DEF ToApp, Granted
  <2>5. UNCHANGED Payload("remote")
    BY <2>2 DEF Payload
  <2> QED
    BY <2>4, <2>5, UnseenBy
<1>3. CASE task["app"] = "reply"
  <2>1. sent["app"] = << Accepted >> /\ Accepted \in Int
    BY <1>0, <1>3 DEF Talks, Accepted
  <2>2. Says = (IF reply = "ok" THEN Success ELSE Failure) /\ Says \in Int
    BY <1>3 DEF Says, Success, Failure
  <2>3. sent'["remote"] = sent["remote"] /\ sent'["app"] = << Accepted, Says >>
    <3>1. sent'["app"] = Append(sent["app"], Says) /\ sent'["remote"] = sent["remote"]
      BY <1>3, <1>t DEF TypeOK
    <3> QED
      BY <2>1, <2>2, <3>1, TwoWords
  <2>4. UNCHANGED Payload("remote")
    BY <2>3 DEF Payload
  <2>5. ToApp = << >>
    <3>1. Len(sent["app"]) = 1
      BY <2>1
    <3> QED
      BY <3>1 DEF ToApp, Granted
  <2>6. \A v, w \in Int : Len(<< v, w >>) = 2 /\ << v, w >>[2] = w
    OBVIOUS
  <2>7. Len(sent'["app"]) = 2 /\ sent'["app"][2] = Says
    BY <2>1, <2>2, <2>3, <2>6
  <2>8. CASE reply = "ok"
    <3>1. Granted'
      BY <2>2, <2>7, <2>8 DEF Granted
    <3>2. Payload("app")' = Run(RespLen + 1, 0)
      <4>1. \A v, w \in Int : SubSeq(<< v, w >>, 3, 2) = << >>
        OBVIOUS
      <4>2. Run(RespLen + 1, 0) = << >>
        BY DEF Run
      <4>3. Payload("app")' = SubSeq(<< Accepted, Says >>, 3, 2)
        <5>1. Payload("app")' = SubSeq(sent'["app"], Preface("app") + 1, Len(sent'["app"]))
          BY Zenon DEF Payload, Preface
        <5>2. Preface("app") + 1 = 3
          BY DEF Preface
        <5> QED
          BY <2>3, <2>7, <5>1, <5>2, Zenon
      <4> QED
        BY <2>1, <2>2, <4>1, <4>2, <4>3
    <3>3. ToApp' = Run(0, 1)
      <4>1. << 0 >> \o [i \in 1 .. Len(Run(RespLen + 1, 0)) |-> Run(RespLen + 1, 0)[i] - RespLen]
              = Run(0, 0 + 1)
        BY AppSees
      <4> QED
        BY <3>1, <3>2, <4>1 DEF ToApp
    <3>4. Run(0, 0) = << >> /\ << >> \o Run(0, 1) = Run(0, 1)
      BY DEF Run
    <3>5. Offered("remote") \in Nat
      BY <1>t, StreamTypes, PrologueType DEF Offered
    <3>6. 0 \in Nat /\ 1 \in Nat /\ 0 < 1 /\ 0 + 1 <= Offered("remote") + 1
      BY <3>5
    <3>7. ToApp = Run(0, 0) /\ ToApp' = Run(0, 0) \o Run(0, 1)
      BY <2>5, <3>3, <3>4
    <3>8. Pipe!PipeNext
      BY <2>4, <3>5, <3>6, <3>7, AppDelivered
    <3> QED
      BY <3>8
  <2>9. CASE reply # "ok"
    <3>1. ~Granted'
      BY <2>2, <2>7, <2>9 DEF Granted, Success, Failure
    <3>2. ToApp' = << >>
      BY <3>1 DEF ToApp
    <3> QED
      BY <2>4, <2>5, <3>2, UnseenBy
  <2> QED
    BY <2>8, <2>9
<1> QED
  BY <1>0, <1>1, <1>2, <1>3

\* Every completion delivers the next bytes of a stream, or is not seen.
LEMMA KernelRefines ==
  ASSUME IInv, TypeOK', NEW e \in Ends, Kernel(e)
  PROVE  [Pipe!PipeNext]_Pipe!pipeVars
<1>t. TypeOK /\ Control /\ [Next]_vars /\ "app" \in Ends /\ "remote" \in Ends
  BY EndsType DEF IInv, Inv, Next
<1>0. op[e] = "posted" /\ UNCHANGED <<patient, produced, live>>
  BY <1>t, CompletionEffect
<1>1. live
  BY <1>0, <1>t, WaitsInOpen
<1>2. CASE ~patient
  BY <1>0, <1>2, UnseenBy
<1>3. CASE UNCHANGED sent
  BY <1>0, <1>3, Unseen
<1>4. ASSUME patient, NEW n \in 1 .. Len(held[Source(e)]), KernelSend(e),
             ~reset[Other(Source(e))],
             sent' = [sent EXCEPT ![Other(Source(e))] = @ \o SubSeq(held[Source(e)], 1, n)]
      PROVE  Pipe!PipeNext
  <2> DEFINE s == Source(e)
             d == Other(s)
             h == held[s]
             c == consumed[s]
  <2>1. s \in Ends /\ d \in Ends /\ Other(d) = s /\ Whole(d) /\ Whole("app")
    BY <1>4, Writing, OtherEnd
  <2>2. WriteAt("posted", cqe[e], h, c, NextFor(d), reset[d])
    BY <1>4, Writing
  <2>3. reset[d] = FALSE
    BY <1>4, <1>t, <2>1, StreamTypes
  <2>4. WriteAt("posted", cqe[e], h, c, NextFor(d), FALSE)
    BY <2>2, <2>3
  <2>5. h \in Seq(Int) /\ c \in Nat /\ NextFor(d) \in Int
    BY <1>t, <2>1, StreamTypes
  <2>6. n \in 1 .. Len(h) /\ n \in Nat /\ 0 < n
    BY <2>5, LenProperties
  <2> HIDE DEF h, c
  <2>7. SubSeq(h, 1, n) = Run(NextFor(d), n) /\ NextFor(d) + n <= c + 1
    BY <2>4, <2>5, <2>6, WriteSends
  <2>8. sent' = [sent EXCEPT ![d] = @ \o Run(NextFor(d), n)]
    BY <1>4, <2>7 DEF h
  <2>9. CASE d = "app"
    <3>1. s = "remote"
      BY <2>1, <2>9 DEF Other
    <3>2. /\ NextFor("app") + n <= consumed["remote"] + 1
          /\ sent' = [sent EXCEPT !["app"] = @ \o Run(NextFor("app"), n)]
      BY <2>7, <2>8, <2>9, <3>1 DEF c
    <3> QED
      BY <1>0, <1>1, <1>4, <1>t, <2>1, <2>6, <3>2, SendToApp
  <2>10. CASE d = "remote"
    <3>1. s = "app"
      BY <2>1, <2>10 DEF Other
    <3>2. /\ NextFor("remote") + n <= consumed["app"] + 1
          /\ sent' = [sent EXCEPT !["remote"] = @ \o Run(NextFor("remote"), n)]
          /\ Whole("remote")
      BY <2>1, <2>7, <2>8, <2>10, <3>1 DEF c
    <3> QED
      BY <1>0, <1>1, <1>4, <2>1, <2>6, <3>2, SendToRemote
  <2> QED
    BY <2>1, <2>9, <2>10 DEF Ends
<1>5. ASSUME patient, NEW d \in Ends, e = "app", KernelSay,
             d = (IF task["app"] = "header" THEN "remote" ELSE "app"),
             sent' = [sent EXCEPT ![d] = Append(@, Says)]
      PROVE  [Pipe!PipeNext]_Pipe!pipeVars
  BY <1>0, <1>1, <1>5, SayRefines
<1> QED
  BY <1>2, <1>3, <1>4, <1>5, <1>t, CompletionWire DEF wire

\* Every step of the connection is a step of the session, or is not seen.
LEMMA StepRefines ==
  ASSUME IInv, TypeOK', [Next]_vars
  PROVE  [Pipe!PipeNext]_Pipe!pipeVars
<1>t. TypeOK /\ Control /\ Sockets /\ "app" \in Ends /\ "remote" \in Ends
  BY EndsType DEF IInv, Inv
<1>1. CASE Start \/ UNCHANGED vars
  BY <1>1, Unseen DEF Start, Proceed, choices, flags, peers, wire, vars
<1>2. CASE Reclaim
  <2>1. live /\ ~live' /\ live' \in BOOLEAN /\ UNCHANGED <<patient, produced, sent>>
    BY <1>2 DEF Reclaim, choices, peers, wire
  <2>2. UNCHANGED <<Payload("remote"), ToApp, Offered("remote")>>
    BY <2>1 DEF Payload, ToApp, Granted, Offered
  <2>3. Pipe!Close
    BY <1>2, <2>1, <2>2 DEF Reclaim, Pipe!Close
  <2> QED
    BY <2>3 DEF Pipe!PipeNext
<1>3. ASSUME NEW e \in Ends, Resume(e) PROVE [Pipe!PipeNext]_Pipe!pipeVars
  BY <1>3, <1>t, ResumeEffect, Unseen
<1>4. ASSUME NEW e \in Ends, Peer(e) PROVE [Pipe!PipeNext]_Pipe!pipeVars
  <2>0. UNCHANGED <<patient, sent, live>>
    BY <1>4, PeerLeaves
  <2>1. CASE UNCHANGED produced
    BY <2>0, <2>1, Unseen
  <2>2. CASE ~patient
    BY <2>0, <2>2 DEF Pipe!pipeVars
  <2>3. CASE patient /\ produced' = [produced EXCEPT ![e] = @ + 1] /\ fd[e] = "open"
    <3>1. live
      BY <1>t, <2>3 DEF Sockets, NoTunnel, Ends
    <3>2. UNCHANGED <<Payload("remote"), ToApp>>
      BY <2>0 DEF Payload, ToApp, Granted
    <3>3. CASE e = "app"
      <4>1. produced'["app"] = produced["app"] + 1 /\ produced'["remote"] = produced["remote"]
        BY <1>t, <2>3, <3>3 DEF TypeOK
      <4>2. UNCHANGED Offered("remote")
        BY <4>1 DEF Offered
      <4>3. Pipe!Offer("client")
        BY <2>0, <2>3, <3>1, <3>2, <4>1, <4>2 DEF Pipe!Offer
      <4> QED
        BY <4>3 DEF Pipe!PipeNext, Pipe!PipeEnds
    <3>4. CASE e = "remote"
      <4>1. produced'["remote"] = produced["remote"] + 1 /\ produced'["app"] = produced["app"]
        BY <1>t, <2>3, <3>4 DEF TypeOK
      <4>2. produced["remote"] \in Nat /\ RespLen \in Nat /\ Prologue("remote") = RespLen
        BY <1>t, StreamTypes, PrologueType
      <4>3. CASE Offered("remote")' = Offered("remote") + 1
        <5>1. Pipe!Offer("target")
          BY <2>0, <2>3, <3>1, <3>2, <4>1, <4>3 DEF Pipe!Offer
        <5> QED
          BY <5>1 DEF Pipe!PipeNext, Pipe!PipeEnds
      <4>4. CASE Offered("remote")' = Offered("remote")
        BY <2>0, <3>2, <4>1, <4>4 DEF Pipe!pipeVars
      <4>5. \/ Offered("remote")' = Offered("remote") + 1
            \/ Offered("remote")' = Offered("remote")
        <5>1. Offered("remote") = IF produced["remote"] > RespLen
                                    THEN produced["remote"] - RespLen ELSE 0
          BY <4>2 DEF Offered
        <5>2. Offered("remote")' = IF produced["remote"] + 1 > RespLen
                                    THEN produced["remote"] + 1 - RespLen ELSE 0
          BY <4>1, <4>2 DEF Offered, Prologue
        <5> QED
          BY <4>2, <5>1, <5>2
      <4> QED
        BY <4>3, <4>4, <4>5
    <3> QED
      BY <3>3, <3>4 DEF Ends
  <2> QED
    BY <1>4, <2>1, <2>2, <2>3
    DEF Peer, PeerSend, PeerFin, PeerReset, PeerRead, CanSend
<1>5. ASSUME NEW e \in Ends, Kernel(e) PROVE [Pipe!PipeNext]_Pipe!pipeVars
  BY <1>5, KernelRefines
<1> QED
  BY <1>1, <1>2, <1>3, <1>4, <1>5, Unseen DEF Next, Reclaimed

\* Towards a patient application and its remote the connection implements the
\* promise of a session: success before anything of the remote's, each payload in
\* order and without a gap, and nothing once the connection is gone.
THEOREM ConnectionImplementsPipe == Spec => ImplementsPipe
<1>1. Init => Pipe!PipeInit
  <2> SUFFICES ASSUME Init PROVE Pipe!PipeInit
    OBVIOUS
  <2>1. \A e \in Ends : sent[e] = << >> /\ produced[e] = 0
    BY DEF Init
  <2>2. sent["app"] = << >> /\ sent["remote"] = << >> /\ produced["app"] = 0
        /\ produced["remote"] = 0 /\ live = TRUE
    BY <2>1, EndsType DEF Init
  <2>3. Payload("remote") = << >>
    <3>1. SubSeq(<< >>, 2, Len(<< >>)) = << >>
      OBVIOUS
    <3> QED
      BY <2>2, <3>1 DEF Payload, Preface
  <2>4. ToApp = << >>
    <3>1. Len(<< >>) = 0
      OBVIOUS
    <3> QED
      BY <2>2, <3>1 DEF ToApp, Granted
  <2>5. Offered("remote") = 0
    BY <2>2, PrologueType DEF Offered
  <2> QED
    BY <2>2, <2>3, <2>4, <2>5 DEF Pipe!PipeInit, Pipe!PipeEnds
<1>2. IInv /\ IInv' /\ [Next]_vars => [Pipe!PipeNext]_Pipe!pipeVars
  BY StepRefines DEF IInv, Inv
<1> QED
  BY <1>1, <1>2, StreamsAccountedFor, PTL DEF Spec, ImplementsPipe, Pipe!PipeSpec
=============================================================================
