--------------------------- MODULE VlessConnection ---------------------------
(***************************************************************************)
(* One server-side VLESS connection: VlessConnection's two coroutines on    *)
(* one event-loop thread, the io_uring operation each of them is suspended  *)
(* on, and the two sockets with the peers behind them.                      *)
(*                                                                          *)
(* clientTask shakes hands, answers, connects the target, starts targetTask *)
(* and relays client -> target; targetTask relays target -> client.  A      *)
(* coroutine runs from one co_await to the next without interruption, so    *)
(* every On... action below is the code between two suspensions.  The kernel  *)
(* completes an operation (Kernel...) before the event loop dispatches its  *)
(* CQE (On...): whatever happens in between is an interleaving of the model.  *)
(*                                                                          *)
(* Bytes are numbered.  The client's stream is 1, 2, ...: its first         *)
(* HeaderLen bytes are the VLESS request and the rest is payload.  The      *)
(* target's stream is 1, 2, ... and the server's own response is byte 0 of  *)
(* what the client receives.  In a UDP session a number is one datagram or  *)
(* one length-prefixed frame.                                               *)
(***************************************************************************)
EXTENDS Integers, Sequences, ByteRuns

CONSTANTS
  HeaderLen,   \* bytes of the VLESS request header
  MaxUp,       \* bound: bytes the client may send over the connection's life
  MaxDown,     \* bound: bytes the target may send
  SendCap      \* bytes a TCP send buffer holds before send() waits

ASSUME ConnectionAssumption ==
  /\ HeaderLen \in Nat \ {0}
  /\ SendCap \in Nat \ {0}
  /\ MaxUp \in Nat /\ MaxDown \in Nat

Ends == {"client", "target"}
Other(e) == IF e = "client" THEN "target" ELSE "client"
Min2(a, b) == IF a < b THEN a ELSE b

\* The first byte end e may receive: the client gets the response before
\* anything the target says, the target gets no part of the request header.
First(e) == IF e = "client" THEN 0 ELSE HeaderLen + 1

VARIABLES
  mode,      \* what the request asked for: "none" until decoded, "tcp" or "udp"
  tls,       \* tlsCtx_ # nullptr
  task,      \* where each coroutine stands; the one named e reads from end e
  op,        \* the io_uring operation coroutine e waits for
  cqe,       \* the result of that operation, once complete
  held,      \* bytes read from e (or left by the handshake), still to be written
  partial,   \* offset > 0 in the writeFull() coroutine e is in
  readDone,  \* clientReadDone_ and targetReadDone_
  started,   \* targetTaskStarted_
  closed,    \* closed_
  live,      \* the object and its two coroutine frames exist
  fd,        \* the socket of each end, as the connection knows it
  produced,  \* bytes the peer at e has sent
  consumed,  \* bytes of those the server has received
  sent,      \* bytes the kernel accepted for delivery to the peer at e
  drained,   \* how many of those the peer has read
  peerFin,   \* the peer at e has finished sending
  reset,     \* the peer at e has reset the connection
  rdShut,    \* the server shut down reading from e
  wrShut,    \* the server shut down writing to e
  refused    \* the peer at e sent bytes after the server stopped reading

coroutines == <<mode, tls, task, op, cqe, held, partial>>
flags      == <<readDone, started, closed, live>>
sockets    == <<fd, rdShut, wrShut>>
peers      == <<produced, peerFin, reset, refused, drained>>
wire       == <<consumed, sent>>
vars       == <<mode, tls, task, op, cqe, held, partial, readDone, started,
                closed, live, fd, rdShut, wrShut, produced, peerFin, reset,
                refused, drained, consumed, sent>>

\* Only clientTask has a prologue; only targetTask may not exist yet.
PCs == {"none", "created", "tls", "decode", "respond", "connect",
        "read", "write", "shut", "done"}

TypeOK ==
  /\ mode \in {"none", "tcp", "udp"}
  /\ tls \in BOOLEAN
  /\ task \in [Ends -> PCs]
  /\ op \in [Ends -> {"none", "posted", "complete"}]
  /\ cqe \in [Ends -> Int]
  /\ held \in [Ends -> Seq(Int)]
  /\ partial \in [Ends -> BOOLEAN]
  /\ readDone \in [Ends -> BOOLEAN]
  /\ started \in BOOLEAN
  /\ closed \in BOOLEAN
  /\ live \in BOOLEAN
  /\ fd \in [Ends -> {"none", "open", "closed"}]
  /\ rdShut \in [Ends -> BOOLEAN]
  /\ wrShut \in [Ends -> BOOLEAN]
  /\ produced \in [Ends -> Nat]
  /\ peerFin \in [Ends -> BOOLEAN]
  /\ reset \in [Ends -> BOOLEAN]
  /\ refused \in [Ends -> BOOLEAN]
  /\ drained \in [Ends -> Nat]
  /\ consumed \in [Ends -> Nat]
  /\ sent \in [Ends -> Seq(Int)]

\* The factory has just built the connection around an accepted socket.
Init ==
  /\ mode = "none"
  /\ tls \in BOOLEAN
  /\ task = [e \in Ends |-> IF e = "client" THEN "created" ELSE "none"]
  /\ op = [e \in Ends |-> "none"]
  /\ cqe = [e \in Ends |-> 0]
  /\ held = [e \in Ends |-> << >>]
  /\ partial = [e \in Ends |-> FALSE]
  /\ readDone = [e \in Ends |-> FALSE]
  /\ started = FALSE
  /\ closed = FALSE
  /\ live = TRUE
  /\ fd = [e \in Ends |-> IF e = "client" THEN "open" ELSE "none"]
  /\ rdShut = [e \in Ends |-> FALSE]
  /\ wrShut = [e \in Ends |-> FALSE]
  /\ produced = [e \in Ends |-> 0]
  /\ peerFin = [e \in Ends |-> FALSE]
  /\ reset = [e \in Ends |-> FALSE]
  /\ refused = [e \in Ends |-> FALSE]
  /\ drained = [e \in Ends |-> 0]
  /\ consumed = [e \in Ends |-> 0]
  /\ sent = [e \in Ends |-> << >>]

-----------------------------------------------------------------------------
(* The coroutines: one action per resumption.                               *)

\* Coroutine e suspends at pc on a freshly submitted operation.
Suspend(e, pc) ==
  /\ task' = [task EXCEPT ![e] = pc]
  /\ op' = [op EXCEPT ![e] = "posted"]
  /\ cqe' = [cqe EXCEPT ![e] = 0]

\* Coroutine e runs to its end.
Return(e) ==
  /\ task' = [task EXCEPT ![e] = "done"]
  /\ op' = [op EXCEPT ![e] = "none"]
  /\ cqe' = [cqe EXCEPT ![e] = 0]
  /\ held' = [held EXCEPT ![e] = << >>]
  /\ partial' = [partial EXCEPT ![e] = FALSE]
  /\ readDone' = [readDone EXCEPT ![e] = TRUE]

\* ::shutdown(fd, SHUT_RDWR) on the socket of end e.
ShutdownBoth(e) ==
  /\ rdShut' = [rdShut EXCEPT ![e] = TRUE]
  /\ wrShut' = [wrShut EXCEPT ![e] = TRUE]

KeepOpen == UNCHANGED <<rdShut, wrShut>>

\* Fault: closed_ = true regardless of the other coroutine.
FinishClientAtOnce ==
  /\ Return("client")
  /\ closed' = TRUE
  /\ KeepOpen
  /\ UNCHANGED <<mode, tls, started, live, fd, peers, wire>>

\* finishClientTask(): reclaim at once if the other coroutine never ran or has
\* ended, otherwise shut the target socket down to wake it.
FinishClient ==
  /\ Return("client")
  /\ \/ ~started /\ closed' = TRUE /\ KeepOpen
     \/ /\ started /\ ~readDone["target"] /\ fd["target"] = "open"
        /\ ShutdownBoth("target")
        /\ UNCHANGED closed
     \/ /\ started /\ (readDone["target"] \/ fd["target"] # "open")
        /\ closed' = TRUE
        /\ KeepOpen
  /\ UNCHANGED <<mode, tls, started, live, fd, peers, wire>>

\* Fault: the client socket is not shut down, so clientTask is not woken.
FinishTargetQuietly ==
  /\ Return("target")
  /\ KeepOpen
  /\ closed' = (closed \/ readDone["client"])
  /\ UNCHANGED <<mode, tls, started, live, fd, peers, wire>>

\* The tail of targetTask().
FinishTarget ==
  /\ Return("target")
  /\ IF ~readDone["client"] /\ fd["client"] = "open"
       THEN ShutdownBoth("client")
       ELSE KeepOpen
  /\ closed' = (closed \/ readDone["client"])
  /\ UNCHANGED <<mode, tls, started, live, fd, peers, wire>>

Finish(e) == IF e = "client" THEN FinishClient ELSE FinishTarget

\* EventLoop calls start(): clientTask runs to its first co_await.
Start ==
  /\ task["client"] = "created" /\ ~closed
  /\ Suspend("client", IF tls THEN "tls" ELSE "decode")
  /\ UNCHANGED <<mode, tls, held, partial, flags, sockets, peers, wire>>

\* The CQE of coroutine e's operation is dispatched while it stands at pc.
Dispatched(e, pc) == task[e] = pc /\ op[e] = "complete"

\* TlsStream::handshake() returned to clientTask.
OnTls ==
  /\ Dispatched("client", "tls")
  /\ \/ cqe["client"] <= 0 /\ FinishClient
     \/ /\ cqe["client"] > 0
        /\ Suspend("client", "decode")
        /\ UNCHANGED <<mode, tls, held, partial, flags, sockets, peers, wire>>

\* The commands clientTask() serves; Mux and Rvs end the session.
Commands == {"tcp", "udp"}

\* processHandshake(): what was read beyond the header, handshakeRemaining_.
Leftover == Run(HeaderLen + 1, consumed["client"] - HeaderLen)

\* A recv of Decoder::decode() came back.  EOF, an error, an unknown user, a
\* bad version, an unsupported command or flow end the session before any
\* response; an incomplete header waits for more; a complete one goes on to
\* the response, with its leftover.
OnDecode ==
  /\ Dispatched("client", "decode")
  /\ \/ FinishClient
     \/ /\ cqe["client"] > 0
        /\ \/ /\ consumed["client"] < HeaderLen
              /\ Suspend("client", "decode")
              /\ UNCHANGED <<mode, held>>
           \/ /\ consumed["client"] >= HeaderLen
              /\ \E m \in Commands : mode' = m
              /\ held' = [held EXCEPT !["client"] = Leftover]
              /\ Suspend("client", "respond")
        /\ UNCHANGED <<tls, partial, flags, sockets, peers, wire>>

\* sendResponseAndKey() returned: fail, or resolve the address and connect.
OnRespond ==
  /\ Dispatched("client", "respond")
  /\ \/ FinishClient
     \/ /\ cqe["client"] >= 0
        /\ Suspend("client", "connect")
        /\ UNCHANGED <<mode, tls, held, partial, flags, sockets, peers, wire>>

\* Fault: the handshake leftover is not forwarded.
OnConnectDropsLeftover ==
  /\ Dispatched("client", "connect")
  /\ \/ cqe["client"] < 0 /\ FinishClient
     \/ /\ cqe["client"] >= 0
        /\ fd' = [fd EXCEPT !["target"] = "open"]
        /\ started' = TRUE
        /\ task' = [e \in Ends |-> "read"]
        /\ op' = [e \in Ends |-> "posted"]
        /\ cqe' = [e \in Ends |-> 0]
        /\ UNCHANGED <<mode, tls, held, partial, readDone, closed, live,
                       rdShut, wrShut, peers, wire>>

\* forwardHandshakeRemaining(): the leftover goes first, if there is any.
ForwardOrRead == IF held["client"] # << >> THEN "write" ELSE "read"

\* AsyncConnect came back.  Failure closes the untracked socket and ends the
\* session.  Success publishes targetFd_, runs targetTask to its first recv
\* (startTargetTask) and goes on to the handshake leftover or the first read.
OnConnect ==
  /\ Dispatched("client", "connect")
  /\ \/ cqe["client"] < 0 /\ FinishClient
     \/ /\ cqe["client"] >= 0
        /\ fd' = [fd EXCEPT !["target"] = "open"]
        /\ started' = TRUE
        /\ task' = [e \in Ends |->
                      IF e = "client" THEN ForwardOrRead ELSE "read"]
        /\ op' = [e \in Ends |-> "posted"]
        /\ cqe' = [e \in Ends |-> 0]
        /\ UNCHANGED <<mode, tls, held, partial, readDone, closed, live,
                       rdShut, wrShut, peers, wire>>

\* The relays write on what a recv brought.
RelayChunk(e) ==
  /\ cqe[e] > 0
  /\ held' = [held EXCEPT ![e] = Run(consumed[e] - cqe[e] + 1, cqe[e])]
  /\ Suspend(e, "write")
  /\ UNCHANGED <<mode, tls, partial, flags, sockets, peers, wire>>

\* A TCP relay propagates EOF and errors alike with shutdownWrite() ...
PropagateEnd(e) ==
  /\ cqe[e] <= 0 /\ mode = "tcp"
  /\ Suspend(e, "shut")
  /\ UNCHANGED <<mode, tls, held, partial, flags, sockets, peers, wire>>

\* ... which the UDP relays leave out.
UdpRelayEnds(e) == cqe[e] <= 0 /\ mode = "udp" /\ Finish(e)

\* A relay's recv came back.
OnRead(e) ==
  /\ Dispatched(e, "read")
  /\ RelayChunk(e) \/ PropagateEnd(e) \/ UdpRelayEnds(e)

\* Fault: after a short send the whole buffer is sent again.
OnWriteFromStart(e) ==
  /\ Dispatched(e, "write")
  /\ \/ /\ cqe[e] > 0 /\ cqe[e] < Len(held[e])
        /\ Suspend(e, "write")
        /\ UNCHANGED <<mode, tls, held, partial, flags, sockets, peers, wire>>
     \/ /\ cqe[e] >= Len(held[e])
        /\ held' = [held EXCEPT ![e] = << >>]
        /\ partial' = [partial EXCEPT ![e] = FALSE]
        /\ Suspend(e, "read")
        /\ UNCHANGED <<mode, tls, flags, sockets, peers, wire>>
     \/ cqe[e] <= 0 /\ Finish(e)

\* A send inside writeFull() came back.  writeFull goes on with the rest,
\* returns all it was given, or stops at the error; an error after some bytes
\* went out is returned as their count, which the callers take for success.
OnWrite(e) ==
  /\ Dispatched(e, "write")
  /\ \/ /\ cqe[e] > 0 /\ cqe[e] < Len(held[e])
        /\ held' = [held EXCEPT ![e] = SubSeq(@, cqe[e] + 1, Len(@))]
        /\ partial' = [partial EXCEPT ![e] = (mode = "tcp")]
        /\ Suspend(e, "write")
        /\ UNCHANGED <<mode, tls, flags, sockets, peers, wire>>
     \/ /\ cqe[e] >= Len(held[e]) \/ (cqe[e] <= 0 /\ partial[e])
        /\ held' = [held EXCEPT ![e] = << >>]
        /\ partial' = [partial EXCEPT ![e] = FALSE]
        /\ Suspend(e, "read")
        /\ UNCHANGED <<mode, tls, flags, sockets, peers, wire>>
     \/ cqe[e] <= 0 /\ ~partial[e] /\ Finish(e)

\* shutdownWrite() came back, its result ignored.
OnShut(e) == Dispatched(e, "shut") /\ Finish(e)

\* cleanupClosedConnections() erases the connection: ~VlessConnection runs
\* doClose() and destroys both frames, with whatever they wait for.
Reclaim ==
  /\ closed /\ live
  /\ live' = FALSE
  /\ fd' = [e \in Ends |-> IF fd[e] = "open" THEN "closed" ELSE fd[e]]
  /\ UNCHANGED <<coroutines, readDone, started, closed, rdShut, wrShut,
                 peers, wire>>

-----------------------------------------------------------------------------
(* The kernel completes operations.                                         *)

\* Coroutine e's operation completes with this result.
Complete(e, res) ==
  /\ op' = [op EXCEPT ![e] = "complete"]
  /\ cqe' = [cqe EXCEPT ![e] = res]
  /\ UNCHANGED <<mode, tls, task, held, partial, flags, fd, peers>>

\* A recv returns buffered bytes first (one datagram at a time from a UDP
\* target), then the error or end-of-file that follows them.
KernelRecv(e) ==
  /\ task[e] \in {"decode", "read"} /\ op[e] = "posted"
  /\ LET avail == produced[e] - consumed[e]
         most  == IF e = "target" /\ mode = "udp" THEN Min2(1, avail) ELSE avail
     IN  \/ \E n \in 1 .. most :
              /\ Complete(e, n)
              /\ consumed' = [consumed EXCEPT ![e] = @ + n]
              /\ UNCHANGED <<sent, rdShut, wrShut>>
         \/ /\ avail = 0
            /\ \/ (peerFin[e] \/ rdShut[e]) /\ Complete(e, 0)
               \/ reset[e] /\ Complete(e, -1)
            /\ UNCHANGED <<wire, rdShut, wrShut>>

\* A send to d fails on a dead or shut socket, and waits for room otherwise.
KernelSend(e) ==
  /\ task[e] = "write" /\ op[e] = "posted"
  /\ LET d    == Other(e)
         room == IF mode = "udp" /\ d = "target"
                   THEN 1 ELSE SendCap - (Len(sent[d]) - drained[d])
     IN  \/ /\ wrShut[d] \/ reset[d]
            /\ Complete(e, -1)
            /\ UNCHANGED sent
         \/ /\ ~wrShut[d] /\ ~reset[d]
            /\ \E n \in 1 .. Min2(room, Len(held[e])) :
                 /\ Complete(e, n)
                 /\ sent' = [sent EXCEPT ![d] = @ \o SubSeq(held[e], 1, n)]
  /\ UNCHANGED <<consumed, rdShut, wrShut>>

\* The VLESS response is the first thing sent to the client.
KernelRespond ==
  /\ task["client"] = "respond" /\ op["client"] = "posted"
  /\ \/ reset["client"] /\ Complete("client", -1) /\ UNCHANGED sent
     \/ /\ ~reset["client"]
        /\ Complete("client", 1)
        /\ sent' = [sent EXCEPT !["client"] = Append(@, 0)]
  /\ UNCHANGED <<consumed, rdShut, wrShut>>

\* shutdown(fd, SHUT_WR) on the other end's socket.
KernelShut(e) ==
  /\ task[e] = "shut" /\ op[e] = "posted"
  /\ Complete(e, 0)
  /\ wrShut' = [wrShut EXCEPT ![Other(e)] = TRUE]
  /\ UNCHANGED <<wire, rdShut>>

\* The TLS handshake and the connect succeed or fail.
KernelTls ==
  /\ task["client"] = "tls" /\ op["client"] = "posted"
  /\ \E r \in {1, -1} : Complete("client", r)
  /\ UNCHANGED <<wire, rdShut, wrShut>>

KernelConnect ==
  /\ task["client"] = "connect" /\ op["client"] = "posted"
  /\ \E r \in {0, -1} : Complete("client", r)
  /\ UNCHANGED <<wire, rdShut, wrShut>>

-----------------------------------------------------------------------------
(* The peers.                                                               *)

Untouched == UNCHANGED <<coroutines, flags, sockets, wire>>
CanSend(e) == fd[e] = "open" /\ ~peerFin[e] /\ ~reset[e]

\* The peer sends a byte; after SHUT_RD the kernel discards it.
PeerSend(e) ==
  /\ CanSend(e) /\ produced[e] < (IF e = "client" THEN MaxUp ELSE MaxDown)
  /\ IF rdShut[e]
       THEN refused' = [refused EXCEPT ![e] = TRUE] /\ UNCHANGED produced
       ELSE produced' = [produced EXCEPT ![e] = @ + 1] /\ UNCHANGED refused
  /\ Untouched /\ UNCHANGED <<peerFin, reset, drained>>

\* FIN; from a UDP target, an empty datagram, which recv reports the same way.
PeerFin(e) ==
  /\ CanSend(e)
  /\ peerFin' = [peerFin EXCEPT ![e] = TRUE]
  /\ Untouched /\ UNCHANGED <<produced, reset, refused, drained>>

PeerReset(e) ==
  /\ fd[e] = "open" /\ ~reset[e]
  /\ reset' = [reset EXCEPT ![e] = TRUE]
  /\ Untouched /\ UNCHANGED <<produced, peerFin, refused, drained>>

PeerRead(e) ==
  /\ drained[e] < Len(sent[e]) /\ ~reset[e]
  /\ drained' = [drained EXCEPT ![e] = @ + 1]
  /\ Untouched /\ UNCHANGED <<produced, peerFin, reset, refused>>

-----------------------------------------------------------------------------
Resume(e) ==
  \/ OnRead(e) \/ OnWrite(e) \/ OnShut(e)
  \/ e = "client" /\ (OnTls \/ OnDecode \/ OnRespond \/ OnConnect)

Kernel(e) ==
  \/ KernelRecv(e) \/ KernelSend(e) \/ KernelShut(e)
  \/ e = "client" /\ (KernelTls \/ KernelRespond \/ KernelConnect)

Peer(e) == PeerSend(e) \/ PeerFin(e) \/ PeerReset(e) \/ PeerRead(e)

\* Nothing is left to do for a connection that has been destroyed.
Reclaimed == ~live /\ UNCHANGED vars

Next ==
  \/ Start \/ Reclaim \/ Reclaimed
  \/ \E e \in Ends : Resume(e) \/ Kernel(e) \/ Peer(e)

\* The event loop dispatches what completes, and the kernel completes what
\* can complete; the peers owe nothing.
Spec == Init /\ [][Next]_vars

ServerFairness ==
  /\ WF_vars(Start) /\ WF_vars(Reclaim)
  /\ \A e \in Ends : WF_vars(Resume(e)) /\ WF_vars(Kernel(e))

FairSpec == Spec /\ ServerFairness

\* Besides, the peers keep reading what they are sent.
ReadingSpec == FairSpec /\ \A e \in Ends : WF_vars(PeerRead(e))
-----------------------------------------------------------------------------
(* What the connection guarantees.                                          *)

\* Safe reclaim: closed_, which lets the event loop destroy the object, is set
\* only when both coroutines have ended (or targetTask never ran), so no frame
\* is destroyed under an operation that is still in flight.  This is why
\* finishClientTask() does not simply set closed_ (vless_connection.cpp:44-45).
SafeReclaim ==
  closed => \A e \in Ends : op[e] = "none" /\ task[e] \in {"none", "done"}

\* No byte is lost inside the server: if neither peer resets, a relayed session
\* that has ended has handed over everything its sockets had accepted,
\* handshake leftover included (processHandshake, forwardHandshakeRemaining,
\* writeFull and the order of shutdowns in the two finishing paths).
NothingLost ==
  closed /\ started /\ (\A e \in Ends : ~reset[e])
    => \A e \in Ends :
         First(Other(e)) + Len(sent[Other(e)]) = produced[e] + 1

\* An orderly FIN is truthful: where the server has half-closed an end with
\* shutdownWrite(), that end has got all the server received for it.
OrderlyFinIsComplete ==
  \A d \in Ends :
    wrShut[d] /\ ~rdShut[d] /\ ~reset[d]
      => First(d) + Len(sent[d]) = consumed[Other(d)] + 1

\* The connection implements the promise of a session.
Pipe == INSTANCE DuplexPipe
          WITH offered <- produced, delivered <- sent, open <- live
ImplementsPipe == Pipe!PipeSpec

\* A connection one side of which has hung up, or one coroutine of which has
\* ended, is eventually reclaimed: the shutdowns in finishClientTask() and at
\* the end of targetTask() wake the other coroutine.
SessionEnds ==
  \A e \in Ends : (peerFin[e] \/ reset[e] \/ readDone[e]) ~> ~live

\* The documented half-close model (vless_connection.h:33-36, stream.h:42): the
\* end of one direction shuts down only the write side of the other end, which
\* may still send.  Without a reset no end's bytes would then be refused.
HalfCloseKeepsOtherDirection ==
  (\A e \in Ends : ~reset[e]) => \A e \in Ends : ~refused[e]
=============================================================================
