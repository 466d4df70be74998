--------------------------- MODULE Socks5Connection ---------------------------
(***************************************************************************)
(* One connection of the SOCKS5 client: clientTask speaks SOCKS5 with the   *)
(* application, builds the tunnel (vlessConnectAndHandshake) and relays     *)
(* app -> remote; remoteTask relays remote -> app.  A UDP ASSOCIATE leaves  *)
(* clientTask watching the control connection instead, with the relay of    *)
(* module Socks5UdpRelay beside it.  As in VlessConnection an On... action  *)
(* is the code between two suspensions, a Kernel... action completes an      *)
(* operation and a Peer... action is a program at the other end.            *)
(*                                                                          *)
(* Bytes are numbered.  The application's first GreetLen are its greeting,  *)
(* the next ReqLen its request, the rest payload; the remote's first        *)
(* RespLen are the VLESS response header.  What the client itself says      *)
(* (greeting answer, reply, VLESS request header) is a number below 1.      *)
(***************************************************************************)
EXTENDS Integers, Sequences, ByteRuns

CONSTANTS
  GreetLen, ReqLen,  \* bytes of the SOCKS5 greeting and request
  RespLen,           \* bytes of the VLESS response header
  MaxUp, MaxDown,    \* bounds: bytes the application and the remote may send
  SendCap            \* bytes a TCP send buffer holds before send() waits

ASSUME Socks5Assumption ==
  /\ GreetLen \in Nat \ {0} /\ ReqLen \in Nat \ {0} /\ RespLen \in Nat \ {0}
  /\ MaxUp \in Nat /\ MaxDown \in Nat
  /\ SendCap \in Nat \ {0}

Ends == {"app", "remote"}
Other(e) == IF e = "app" THEN "remote" ELSE "app"
Min2(a, b) == IF a < b THEN a ELSE b

\* Bytes of the handshake at the head of each peer's stream.
Prologue(e) == IF e = "app" THEN GreetLen + ReqLen ELSE RespLen

\* What the client itself writes, and how many such units precede the payload.
Accepted == -3
Refused == -4
Success == -1
Failure == -2
Header == 0
Preface(e) == IF e = "app" THEN 2 ELSE 1

VARIABLES
  patient,   \* the application waits for each answer before it goes on
  tls,       \* cfg_.tlsEnabled
  mode,      \* the command of the request: "none" until read, "tcp" or "udp"
  reply,     \* the reply being sent: "none", "ok" or "failed"
  task,      \* where each coroutine stands; the one named e reads from end e
  op, cqe,   \* the io_uring operation of coroutine e and its result
  held,      \* bytes read from e, still to be written to the other end
  partial,   \* offset > 0 in the writeFull() under way
  readDone,  \* appReadDone_ and remoteReadDone_
  started,   \* remoteTaskStarted_
  closed,    \* closed_
  live,      \* the object and its two coroutine frames exist
  fd,        \* the TCP socket of each end
  remoteFd,  \* remoteFd_ >= 0: the connection owns the remote socket
  udp,       \* the UDP socket: local to runUdpAssociate, given to the relay, or
             \* held by a relay that did not start
  raw,       \* the plain stream of the tunnel, held by runTcpSession
  dangling,  \* history: the TLS stream was used after its plain stream
  produced, consumed, sent, drained, peerFin, reset, rdShut, wrShut, refused

choices    == <<patient, tls>>
coroutines == <<mode, reply, task, op, cqe, held, partial, raw, dangling>>
flags      == <<readDone, started, closed, live>>
sockets    == <<fd, remoteFd, udp, rdShut, wrShut>>
peers      == <<produced, peerFin, reset, refused, drained>>
wire       == <<consumed, sent>>
vars       == <<patient, tls, mode, reply, task, op, cqe, held, partial, raw,
                dangling, readDone, started, closed, live, fd, remoteFd, udp,
                rdShut, wrShut, produced, peerFin, reset, refused, drained,
                consumed, sent>>

\* Only clientTask has the handshakes; only remoteTask may not exist yet.
PCs == {"none", "created", "greeting", "refuse", "accept", "request",
        "connect", "tls", "header", "response", "reply", "remaining",
        "control", "read", "write", "shut", "done"}

TypeOK ==
  /\ patient \in BOOLEAN /\ tls \in BOOLEAN
  /\ mode \in {"none", "tcp", "udp"}
  /\ reply \in {"none", "ok", "failed"}
  /\ task \in [Ends -> PCs]
  /\ op \in [Ends -> {"none", "posted", "complete"}]
  /\ cqe \in [Ends -> Int]
  /\ held \in [Ends -> Seq(Int)]
  /\ partial \in [Ends -> BOOLEAN]
  /\ raw \in {"none", "alive", "gone"} /\ dangling \in BOOLEAN
  /\ readDone \in [Ends -> BOOLEAN]
  /\ started \in BOOLEAN /\ closed \in BOOLEAN /\ live \in BOOLEAN
  /\ fd \in [Ends -> {"none", "unconnected", "open", "closed"}]
  /\ remoteFd \in BOOLEAN
  /\ udp \in {"none", "bound", "relay", "broken", "closed"}
  /\ rdShut \in [Ends -> BOOLEAN] /\ wrShut \in [Ends -> BOOLEAN]
  /\ produced \in [Ends -> Nat] /\ consumed \in [Ends -> Nat]
  /\ peerFin \in [Ends -> BOOLEAN] /\ reset \in [Ends -> BOOLEAN]
  /\ refused \in [Ends -> BOOLEAN]
  /\ drained \in [Ends -> Nat]
  /\ sent \in [Ends -> Seq(Int)]

Init ==
  /\ patient \in BOOLEAN /\ tls \in BOOLEAN
  /\ mode = "none" /\ reply = "none"
  /\ task = [e \in Ends |-> IF e = "app" THEN "created" ELSE "none"]
  /\ op = [e \in Ends |-> "none"] /\ cqe = [e \in Ends |-> 0]
  /\ held = [e \in Ends |-> << >>]
  /\ partial = [e \in Ends |-> FALSE]
  /\ raw = "none" /\ dangling = FALSE
  /\ readDone = [e \in Ends |-> FALSE]
  /\ started = FALSE /\ closed = FALSE /\ live = TRUE
  /\ fd = [e \in Ends |-> IF e = "app" THEN "open" ELSE "none"]
  /\ remoteFd = FALSE /\ udp = "none"
  /\ rdShut = [e \in Ends |-> FALSE] /\ wrShut = [e \in Ends |-> FALSE]
  /\ produced = [e \in Ends |-> 0] /\ consumed = [e \in Ends |-> 0]
  /\ peerFin = [e \in Ends |-> FALSE] /\ reset = [e \in Ends |-> FALSE]
  /\ refused = [e \in Ends |-> FALSE]
  /\ drained = [e \in Ends |-> 0]
  /\ sent = [e \in Ends |-> << >>]

-----------------------------------------------------------------------------
(* The coroutines.                                                          *)

\* Coroutine e suspends at pc on a freshly submitted operation.
Suspend(e, pc) ==
  /\ task' = [task EXCEPT ![e] = pc]
  /\ op' = [op EXCEPT ![e] = "posted"]
  /\ cqe' = [cqe EXCEPT ![e] = 0]

\* Coroutine e runs to its end.
Return(e) ==
  /\ task' = [task EXCEPT ![e] = "done"]
  /\ op' = [op EXCEPT ![e] = "none"]
  /\ cqe' = [cqe EXCEPT ![e] = 0]
  /\ held' = [held EXCEPT ![e] = << >>]
  /\ partial' = [partial EXCEPT ![e] = FALSE]
  /\ readDone' = [readDone EXCEPT ![e] = TRUE]

\* ::shutdown(fd, SHUT_RDWR) on the socket of end e.
ShutdownBoth(e) ==
  /\ rdShut' = [rdShut EXCEPT ![e] = TRUE]
  /\ wrShut' = [wrShut EXCEPT ![e] = TRUE]

KeepOpen == UNCHANGED <<rdShut, wrShut>>

\* The result of the handshake dies with runTcpSession, and its raw stream.
DropRaw == raw' = IF raw = "alive" THEN "gone" ELSE raw

\* Fault: closed_ = true whether remoteTask has ended or not.
FinishClientAtOnce(u) ==
  /\ Return("app") /\ DropRaw /\ udp' = u
  /\ closed' = TRUE /\ KeepOpen
  /\ UNCHANGED <<choices, mode, reply, dangling, started, live, fd, remoteFd,
                 peers, wire>>

\* finishClientTask(): reclaim at once if remoteTask never ran or has ended,
\* otherwise shut the remote socket down to wake it.  u is what has become of
\* the UDP socket by then.
FinishClient(u) ==
  /\ Return("app") /\ DropRaw /\ udp' = u
  /\ IF started /\ ~readDone["remote"] /\ remoteFd
       THEN ShutdownBoth("remote") /\ UNCHANGED closed
       ELSE closed' = TRUE /\ KeepOpen
  /\ UNCHANGED <<choices, mode, reply, dangling, started, live, fd, remoteFd,
                 peers, wire>>

\* Fault: the application's socket is not shut down.
FinishRemoteQuietly ==
  /\ Return("remote")
  /\ KeepOpen
  /\ closed' = (closed \/ readDone["app"])
  /\ UNCHANGED <<choices, mode, reply, raw, dangling, started, live, fd,
                 remoteFd, udp, peers, wire>>

\* The tail of remoteTask().
FinishRemote ==
  /\ Return("remote")
  /\ IF ~readDone["app"] /\ fd["app"] = "open"
       THEN ShutdownBoth("app")
       ELSE KeepOpen
  /\ closed' = (closed \/ readDone["app"])
  /\ UNCHANGED <<choices, mode, reply, raw, dangling, started, live, fd,
                 remoteFd, udp, peers, wire>>

Finish(e) == IF e = "app" THEN FinishClient(udp) ELSE FinishRemote

\* The CQE of coroutine e's operation is dispatched while it stands at pc.
Dispatched(e, pc) == task[e] = pc /\ op[e] = "complete"

\* clientTask goes on to its next suspension and changes nothing else.
Proceed(pc) ==
  /\ Suspend("app", pc)
  /\ UNCHANGED <<choices, mode, reply, held, partial, raw, dangling, flags,
                 sockets, peers, wire>>

\* EventLoop calls start(): clientTask runs to its first co_await.
Start == task["app"] = "created" /\ ~closed /\ Proceed("greeting")

\* readGreeting(): more bytes, a throw (end of stream, wrong version), or the
\* methods are known and answered.
OnGreeting ==
  /\ Dispatched("app", "greeting")
  /\ \/ FinishClient(udp)
     \/ /\ cqe["app"] > 0 /\ consumed["app"] < GreetLen
        /\ Proceed("greeting")
     \/ /\ cqe["app"] > 0 /\ consumed["app"] >= GreetLen
        /\ Proceed("refuse") \/ Proceed("accept")

OnRefuse == Dispatched("app", "refuse") /\ FinishClient(udp)

\* Fault: the socket of a failed handshake is left open.
RefuseRequestLeaving(m) ==
  /\ Suspend("app", "reply")
  /\ reply' = "failed" /\ mode' = m
  /\ UNCHANGED <<choices, held, partial, raw, dangling, flags, sockets, peers,
                 wire>>

\* A tunnel that could not be built, or another command: the socket made for
\* it is closed and the reply says no.
RefuseRequest(m) ==
  /\ Suspend("app", "reply")
  /\ reply' = "failed" /\ mode' = m
  /\ fd' = [fd EXCEPT !["remote"] = IF @ = "none" THEN @ ELSE "closed"]
  /\ UNCHANGED <<choices, held, partial, raw, dangling, flags, remoteFd, udp,
                 rdShut, wrShut, peers, wire>>

\* runTcpSession() up to AsyncConnect: resolveRemote and socket() succeeded.
BeginTunnel ==
  /\ Suspend("app", "connect")
  /\ mode' = "tcp"
  /\ fd' = [fd EXCEPT !["remote"] = "unconnected"]
  /\ UNCHANGED <<choices, reply, held, partial, raw, dangling, flags, remoteFd,
                 udp, rdShut, wrShut, peers, wire>>

\* runUdpAssociate() up to its reply: socket() and bind() succeeded.
BindUdp ==
  /\ Suspend("app", "reply")
  /\ mode' = "udp" /\ reply' = "ok" /\ udp' = "bound"
  /\ UNCHANGED <<choices, held, partial, raw, dangling, flags, fd, remoteFd,
                 rdShut, wrShut, peers, wire>>

\* The switch on req.cmd, with the failures that need no suspension.
Serve ==
  \/ BeginTunnel \/ BindUdp
  \/ \E m \in {"none", "tcp", "udp"} : RefuseRequest(m)

\* The method was accepted: the request may already be in the buffer.
OnAccept ==
  /\ Dispatched("app", "accept")
  /\ \/ cqe["app"] <= 0 /\ FinishClient(udp)
     \/ /\ cqe["app"] > 0
        /\ \/ consumed["app"] < Prologue("app") /\ Proceed("request")
           \/ consumed["app"] >= Prologue("app") /\ (Serve \/ FinishClient(udp))

\* readRequest(): more bytes, a throw, or a request to serve.
OnRequest ==
  /\ Dispatched("app", "request")
  /\ \/ FinishClient(udp)
     \/ /\ cqe["app"] > 0
        /\ IF consumed["app"] < Prologue("app") THEN Proceed("request") ELSE Serve

\* vlessConnectAndHandshake(), resumed by its connect, the TLS handshake and
\* the write of the request header.
OnConnect ==
  /\ Dispatched("app", "connect")
  /\ \/ cqe["app"] < 0 /\ RefuseRequest("tcp")
     \/ /\ cqe["app"] >= 0
        /\ IF tls THEN Proceed("tls") \/ RefuseRequest("tcp") ELSE Proceed("header")

OnTls ==
  /\ Dispatched("app", "tls")
  /\ IF cqe["app"] > 0 THEN Proceed("header") ELSE RefuseRequest("tcp")

OnHeader ==
  /\ Dispatched("app", "header")
  /\ IF cqe["app"] > 0 THEN Proceed("response") ELSE RefuseRequest("tcp")

\* Fault: what came behind the response header is not kept.
RemainingDropped == << >>

\* drainRemaining(): what was read beyond the response header.
Remaining == Run(RespLen + 1, consumed["remote"] - RespLen)

\* decodeResponse(): more bytes, failure (end of stream, wrong version), or the
\* tunnel stands; runTcpSession takes the socket and the raw stream over.
OnResponse ==
  /\ Dispatched("app", "response")
  /\ \/ RefuseRequest("tcp")
     \/ /\ cqe["app"] > 0 /\ consumed["remote"] < RespLen
        /\ Proceed("response")
     \/ /\ cqe["app"] > 0 /\ consumed["remote"] >= RespLen
        /\ Suspend("app", "reply")
        /\ reply' = "ok" /\ remoteFd' = TRUE /\ raw' = "alive"
        /\ held' = [held EXCEPT !["remote"] = Remaining]
        /\ UNCHANGED <<choices, mode, partial, dangling, flags, fd, udp,
                       rdShut, wrShut, peers, wire>>

\* startRemoteTask(), and copyStream of both directions to its first read.
StartRelays ==
  /\ started' = TRUE
  /\ task' = [e \in Ends |-> "read"]
  /\ op' = [e \in Ends |-> "posted"]
  /\ cqe' = [e \in Ends |-> 0]
  /\ held' = [e \in Ends |-> << >>]
  /\ partial' = [e \in Ends |-> FALSE]
  /\ UNCHANGED <<choices, mode, reply, raw, dangling, readDone, closed, live,
                 sockets, peers, wire>>

\* Socks5UdpRelay takes the UDP socket over; clientTask reads on the control
\* connection, also when start() had no eventfd and has closed the relay.
StartUdpRelay ==
  /\ Suspend("app", "control")
  /\ udp' \in {"relay", "broken"}
  /\ UNCHANGED <<choices, mode, reply, held, partial, raw, dangling, flags, fd,
                 remoteFd, rdShut, wrShut, peers, wire>>

\* Fault: the relays start without forwarding what came with the response.
OnReplyAtOnce ==
  /\ Dispatched("app", "reply")
  /\ \/ reply = "failed" /\ FinishClient(udp)
     \/ /\ reply = "ok" /\ cqe["app"] <= 0
        /\ FinishClient(IF mode = "udp" THEN "closed" ELSE udp)
     \/ /\ reply = "ok" /\ cqe["app"] > 0 /\ mode = "udp" /\ StartUdpRelay
     \/ /\ reply = "ok" /\ cqe["app"] > 0 /\ mode = "tcp" /\ StartRelays

\* sendSocksReply() returned.  A failed session is over, as is one whose
\* application did not take the reply; a tunnel forwards what came with the
\* response first.
OnReply ==
  /\ Dispatched("app", "reply")
  /\ \/ reply = "failed" /\ FinishClient(udp)
     \/ /\ reply = "ok" /\ cqe["app"] <= 0
        /\ FinishClient(IF mode = "udp" THEN "closed" ELSE udp)
     \/ /\ reply = "ok" /\ cqe["app"] > 0 /\ mode = "udp" /\ StartUdpRelay
     \/ /\ reply = "ok" /\ cqe["app"] > 0 /\ mode = "tcp"
        /\ IF held["remote"] # << >> THEN Proceed("remaining") ELSE StartRelays

\* Socks5UdpRelay::stop() closes the UDP socket, but does nothing to a relay
\* that is closed already.
UdpAfterStop == IF udp = "relay" THEN "closed" ELSE udp

\* The control connection: data is ignored, its end stops the relay.
OnControl ==
  /\ Dispatched("app", "control")
  /\ IF cqe["app"] > 0 THEN Proceed("control") ELSE FinishClient(UdpAfterStop)

\* Coroutine e goes back to read; over TLS remoteTask reads through the raw
\* stream, whether it is still there or not.
ReadOn(e) ==
  /\ Suspend(e, "read")
  /\ held' = [held EXCEPT ![e] = << >>]
  /\ partial' = [partial EXCEPT ![e] = FALSE]
  /\ dangling' = (dangling \/ (e = "remote" /\ tls /\ raw = "gone"))
  /\ UNCHANGED <<choices, mode, reply, raw, flags, sockets, peers, wire>>

\* copyStream: a chunk is written on, an end or error is passed on as a FIN.
OnRead(e) ==
  /\ Dispatched(e, "read")
  /\ IF cqe[e] > 0
       THEN /\ held' = [held EXCEPT ![e] = Run(consumed[e] - cqe[e] + 1, cqe[e])]
            /\ Suspend(e, "write")
       ELSE Suspend(e, "shut") /\ UNCHANGED held
  /\ UNCHANGED <<choices, mode, reply, partial, raw, dangling, flags, sockets,
                 peers, wire>>

\* Whose bytes coroutine e is writing: clientTask also writes the remaining.
Source(e) == IF task[e] = "remaining" THEN "remote" ELSE e

\* A send inside writeFull() came back: the rest follows, or all is written, or
\* it failed; a failure after some bytes went out is taken for success.
OnWrite(e) ==
  LET s == Source(e)
  IN /\ task[e] \in {"write", "remaining"} /\ op[e] = "complete"
     /\ \/ /\ cqe[e] > 0 /\ cqe[e] < Len(held[s])
           /\ Suspend(e, task[e])
           /\ held' = [held EXCEPT ![s] = SubSeq(@, cqe[e] + 1, Len(@))]
           /\ partial' = [partial EXCEPT ![e] = TRUE]
           /\ UNCHANGED <<choices, mode, reply, raw, dangling, flags, sockets,
                          peers, wire>>
        \/ /\ cqe[e] >= Len(held[s]) \/ (cqe[e] <= 0 /\ partial[e])
           /\ IF task[e] = "write" THEN ReadOn(e) ELSE StartRelays
        \/ cqe[e] <= 0 /\ ~partial[e] /\ Finish(e)

\* shutdownWrite() came back, its result ignored.
OnShut(e) == Dispatched(e, "shut") /\ Finish(e)

\* The event loop erases the connection: doClose() stops the relay and closes
\* the sockets it knows; the frames are destroyed.
Reclaim ==
  /\ closed /\ live
  /\ live' = FALSE
  /\ fd' = [fd EXCEPT !["app"] = "closed",
                      !["remote"] = IF remoteFd THEN "closed" ELSE @]
  /\ udp' = UdpAfterStop
  /\ UNCHANGED <<choices, coroutines, readDone, started, closed, remoteFd,
                 rdShut, wrShut, peers, wire>>

-----------------------------------------------------------------------------
(* The kernel completes operations.                                         *)

Complete(e, res) ==
  /\ op' = [op EXCEPT ![e] = "complete"]
  /\ cqe' = [cqe EXCEPT ![e] = res]
  /\ UNCHANGED <<choices, mode, reply, task, held, partial, raw, dangling,
                 flags, remoteFd, udp, peers>>

\* The end coroutine e is receiving from.
Reads(e) == IF task[e] = "response" THEN "remote" ELSE e

\* Buffered bytes first, then the error or end-of-file behind them.  A read
\* through a raw stream that is gone may also fail at once.
KernelRecv(e) ==
  LET s     == Reads(e)
      avail == produced[s] - consumed[s]
  IN /\ task[e] \in {"greeting", "request", "response", "control", "read"}
     /\ op[e] = "posted"
     /\ \/ /\ \E n \in 1 .. avail :
                Complete(e, n) /\ consumed' = [consumed EXCEPT ![s] = @ + n]
           /\ UNCHANGED sent
        \/ /\ avail = 0 /\ (peerFin[s] \/ rdShut[s]) /\ Complete(e, 0)
           /\ UNCHANGED wire
        \/ /\ (avail = 0 /\ reset[s]) \/ (e = "remote" /\ dangling)
           /\ Complete(e, -1)
           /\ UNCHANGED wire
     /\ UNCHANGED <<fd, rdShut, wrShut>>

\* A send fails on a dead or shut socket, and waits for room otherwise.
KernelSend(e) ==
  LET s    == Source(e)
      d    == Other(s)
      room == SendCap - (Len(sent[d]) - drained[d])
  IN /\ task[e] \in {"write", "remaining"} /\ op[e] = "posted"
     /\ \/ (wrShut[d] \/ reset[d]) /\ Complete(e, -1) /\ UNCHANGED sent
        \/ /\ ~wrShut[d] /\ ~reset[d]
           /\ \E n \in 1 .. Min2(room, Len(held[s])) :
                /\ Complete(e, n)
                /\ sent' = [sent EXCEPT ![d] = @ \o SubSeq(held[s], 1, n)]
     /\ UNCHANGED <<consumed, fd, rdShut, wrShut>>

\* What clientTask says itself, to either end.
Says == CASE task["app"] = "refuse" -> Refused
          [] task["app"] = "accept" -> Accepted
          [] task["app"] = "header" -> Header
          [] task["app"] = "reply"  -> IF reply = "ok" THEN Success ELSE Failure

KernelSay ==
  LET d == IF task["app"] = "header" THEN "remote" ELSE "app"
  IN /\ task["app"] \in {"refuse", "accept", "header", "reply"}
     /\ op["app"] = "posted"
     /\ \/ reset[d] /\ Complete("app", -1) /\ UNCHANGED sent
        \/ /\ ~reset[d]
           /\ Complete("app", 1)
           /\ sent' = [sent EXCEPT ![d] = Append(@, Says)]
     /\ UNCHANGED <<consumed, fd, rdShut, wrShut>>

\* shutdown(fd, SHUT_WR) on the other end's socket.
KernelShut(e) ==
  /\ task[e] = "shut" /\ op[e] = "posted"
  /\ Complete(e, 0)
  /\ wrShut' = [wrShut EXCEPT ![Other(e)] = TRUE]
  /\ UNCHANGED <<wire, fd, rdShut>>

\* The connect and the TLS handshake succeed or fail.
KernelConnect ==
  /\ task["app"] = "connect" /\ op["app"] = "posted"
  /\ \/ Complete("app", -1) /\ UNCHANGED fd
     \/ Complete("app", 0) /\ fd' = [fd EXCEPT !["remote"] = "open"]
  /\ UNCHANGED <<wire, rdShut, wrShut>>

KernelTls ==
  /\ task["app"] = "tls" /\ op["app"] = "posted"
  /\ \E r \in {1, -1} : Complete("app", r)
  /\ UNCHANGED <<wire, fd, rdShut, wrShut>>

-----------------------------------------------------------------------------
(* The application and the remote server.                                   *)

Untouched == UNCHANGED <<choices, coroutines, flags, sockets, wire>>
CanSend(e) == fd[e] = "open" /\ ~peerFin[e] /\ ~reset[e]

\* A patient application sends its request after the method was accepted and
\* its data after the request was granted.
Heard(k, what) == drained["app"] >= k /\ sent["app"][k] = what
MayType ==
  \/ ~patient
  \/ produced["app"] < GreetLen
  \/ produced["app"] < Prologue("app") /\ Heard(1, Accepted)
  \/ Heard(2, Success)

PeerSend(e) ==
  /\ CanSend(e) /\ produced[e] < (IF e = "app" THEN MaxUp ELSE MaxDown)
  /\ e = "app" => MayType
  /\ IF rdShut[e]
       THEN refused' = [refused EXCEPT ![e] = TRUE] /\ UNCHANGED produced
       ELSE produced' = [produced EXCEPT ![e] = @ + 1] /\ UNCHANGED refused
  /\ Untouched /\ UNCHANGED <<peerFin, reset, drained>>

PeerFin(e) ==
  /\ CanSend(e)
  /\ peerFin' = [peerFin EXCEPT ![e] = TRUE]
  /\ Untouched /\ UNCHANGED <<produced, reset, refused, drained>>

PeerReset(e) ==
  /\ fd[e] = "open" /\ ~reset[e]
  /\ reset' = [reset EXCEPT ![e] = TRUE]
  /\ Untouched /\ UNCHANGED <<produced, peerFin, refused, drained>>

PeerRead(e) ==
  /\ drained[e] < Len(sent[e]) /\ ~reset[e]
  /\ drained' = [drained EXCEPT ![e] = @ + 1]
  /\ Untouched /\ UNCHANGED <<produced, peerFin, reset, refused>>

-----------------------------------------------------------------------------
Handshake ==
  \/ OnGreeting \/ OnRefuse \/ OnAccept \/ OnRequest
  \/ OnConnect \/ OnTls \/ OnHeader \/ OnResponse \/ OnReply \/ OnControl

Resume(e) == OnRead(e) \/ OnWrite(e) \/ OnShut(e) \/ (e = "app" /\ Handshake)

Kernel(e) ==
  \/ KernelRecv(e) \/ KernelSend(e) \/ KernelShut(e)
  \/ e = "app" /\ (KernelSay \/ KernelConnect \/ KernelTls)

Peer(e) == PeerSend(e) \/ PeerFin(e) \/ PeerReset(e) \/ PeerRead(e)

\* Nothing is left to do for a connection that has been destroyed.
Reclaimed == ~live /\ UNCHANGED vars

Next ==
  \/ Start \/ Reclaim \/ Reclaimed
  \/ \E e \in Ends : Resume(e) \/ Kernel(e) \/ Peer(e)

\* The loop dispatches what completes and reclaims what is closed, the kernel
\* completes what can complete, and the peers read what they are sent.
Spec ==
  /\ Init /\ [][Next]_vars
  /\ WF_vars(Start) /\ WF_vars(Reclaim)
  /\ \A e \in Ends :
       WF_vars(Resume(e)) /\ WF_vars(Kernel(e)) /\ WF_vars(PeerRead(e))
-----------------------------------------------------------------------------
(* What the connection guarantees.                                          *)

\* closed_, which lets the event loop destroy the object, is set only when no
\* coroutine waits for anything (finishClientTask, the tail of remoteTask).
SafeReclaim ==
  closed => \A e \in Ends : op[e] = "none" /\ task[e] \in {"none", "done"}

\* Every socket made on the way has one owner that closes it, but for one: after
\* the connection is gone none is open, on whichever step the handshake, the
\* reply or the UDP set-up failed (vlessConnectAndHandshake closes before it
\* returns, runUdpAssociate before the relay owns the socket, doClose
\* afterwards), except the UDP socket of a relay that had no eventfd: start()
\* sets its closed_ and stop() returns before it closes anything.
NoSocketLeaks ==
  ~live => /\ \A e \in Ends : fd[e] \in {"none", "closed"}
           /\ udp \in {"none", "closed", "broken"}

\* Without a reset a relayed session that has ended has handed over all its
\* sockets had accepted: for the application also what came in one piece with
\* the VLESS response (drainRemaining, runTcpSession, copyStream).  An
\* application that sends data before its request is granted may lose it: what
\* readRequest() has buffered stays in stream_.  Nor is anything claimed once
\* the TLS stream has outlived its raw stream.
NothingLost ==
  patient /\ closed /\ started /\ ~dangling /\ (\A e \in Ends : ~reset[e])
    => \A e \in Ends : Prologue(e) + Len(sent[Other(e)]) - Preface(Other(e)) = produced[e]

\* Towards its two peers a session is the abstract pipe: the application hears
\* of success before anything of the remote's, and each side's payload arrives
\* in order, complete up to now, without the handshakes that were stripped.  To
\* an application that does not wait nothing is promised.
Granted == Len(sent["app"]) >= 2 /\ sent["app"][2] = Success
Payload(e) == SubSeq(sent[e], Preface(e) + 1, Len(sent[e]))
ToApp ==
  LET p == Payload("app")
  IN  IF Granted THEN <<0>> \o [i \in 1 .. Len(p) |-> p[i] - RespLen] ELSE << >>
Offered(e) == IF produced[e] > Prologue(e) THEN produced[e] - Prologue(e) ELSE 0

Pipe == INSTANCE DuplexPipe WITH
  HeaderLen <- Prologue("app"),
  offered <- IF patient
    THEN [e \in {"client", "target"} |->
            IF e = "client" THEN produced["app"] ELSE Offered("remote")]
    ELSE [e \in {"client", "target"} |-> 0],
  delivered <- IF patient
    THEN [e \in {"client", "target"} |->
            IF e = "target" THEN Payload("remote") ELSE ToApp]
    ELSE [e \in {"client", "target"} |-> << >>],
  open <- live
ImplementsPipe == Pipe!PipeSpec

\* A session ends when its tunnel does, or its application once it is being
\* served, or one of its coroutines: the shutdowns wake the other one
\* (finishClientTask, remoteTask, the control connection's loop).
Served == started \/ udp \in {"relay", "broken"}
SessionEnds ==
  /\ (peerFin["remote"] \/ reset["remote"]) ~> ~live
  /\ (Served /\ (peerFin["app"] \/ reset["app"])) ~> ~live
  /\ \A e \in Ends : readDone[e] ~> ~live

\* vless_client.h:54-55: the plain stream lives as long as the TLS stream built
\* on it is used.
RawKeptAlive == ~dangling
=============================================================================
