---------------------------- MODULE Socks5UdpRelay ----------------------------
(***************************************************************************)
(* The UDP relay of one SOCKS5 association: recvLoop takes the              *)
(* application's datagrams and writes each as a frame to the session of its *)
(* destination, building the session first if there is none; one out-task   *)
(* per session cuts the remote's stream into frames and queues them for     *)
(* sendLoop.  The control connection (module Socks5Connection) calls stop(). *)
(*                                                                          *)
(* sendLoop waits for its eventfd with AsyncRecv, and a socket receive on   *)
(* what is no socket fails (ENOTSOCK): the loop ends at its first           *)
(* resumption.  Lines 212-226, which would send the queue to the            *)
(* application, are never reached, and nothing reads the eventfd.           *)
(*                                                                          *)
(* All coroutines share one thread, and cancelFd() works by descriptor: who *)
(* closes a session's socket also cancels what any other coroutine awaits   *)
(* on it, and a cancelled coroutine is never resumed.                       *)
(*                                                                          *)
(* The application's datagrams are numbered, as are the frames each remote  *)
(* sends; a frame is two units of its stream, so that a read may end inside *)
(* one.                                                                     *)
(***************************************************************************)
EXTENDS Integers, Sequences, Functions

CONSTANTS
  Dests,      \* destinations, one session each
  MaxApp,     \* bound: datagrams the application sends
  MaxFrames,  \* bound: frames the remotes send, together
  None        \* no operation, no datagram

ASSUME UdpRelayAssumption ==
  /\ MaxApp \in Nat /\ MaxFrames \in Nat
  /\ None \notin {"posted", "complete", "cancelled"}

VARIABLES
  exists,    \* the relay object and its frames
  closed,    \* closed_
  control,   \* the control connection is still open
  udp,       \* udpFd_ is open
  event,     \* eventFd_ is open
  recv,      \* recvLoop: where it stands, its operation, result and datagram
  send,      \* sendLoop: its operation, or "done"
  session,   \* sessions_: the entry of each destination with its out-task
  newFd,     \* the socket of a session being built
  queue,     \* sendQueue_
  appLog,    \* the destinations of the application's datagrams, in order
  inbox,     \* those the UDP socket still holds
  toRemote,  \* datagrams each remote has got
  frames,    \* frames each remote has sent
  units,     \* units of them its session's socket still holds
  next,      \* the frame the out-task expects
  skewed,    \* history: a read of the session ended inside a frame
  ended      \* the remote has closed or reset its connection

loops   == <<recv, send, session, newFd>>
local   == <<closed, udp, event, queue>>
outside == <<appLog, inbox, toRemote, frames, units, ended>>
vars    == <<exists, closed, control, udp, event, recv, send, session, newFd,
             queue, appLog, inbox, toRemote, frames, units, next, skewed, ended>>

Datagrams == [to : Dests \cup {"bad"}, id : Nat]
Replies   == [from : Dests, id : Nat]

Receivers ==
  [pc : {"recvfrom", "handshake", "write", "done"},
   op : {None, "posted", "complete", "cancelled"}, res : Int,
   item : Datagrams \cup {None}]

\* Types; and alive is set exactly while a session's socket is open.
TypeOK ==
  /\ exists \in BOOLEAN /\ closed \in BOOLEAN /\ control \in BOOLEAN
  /\ udp \in BOOLEAN /\ event \in BOOLEAN /\ newFd \in BOOLEAN
  /\ recv \in Receivers
  /\ send \in {"posted", "complete", "cancelled", "done"}
  /\ session \in [Dests -> [there : BOOLEAN, alive : BOOLEAN, fd : BOOLEAN,
                            op : {None, "posted", "complete", "cancelled"},
                            res : Int]]
  /\ \A d \in Dests : session[d].alive = session[d].fd
  /\ queue \in Seq(Replies)
  /\ appLog \in Seq(Dests \cup {"bad"}) /\ inbox \in Seq(Datagrams)
  /\ toRemote \in [Dests -> Seq(Nat)]
  /\ frames \in [Dests -> Nat] /\ units \in [Dests -> Nat]
  /\ next \in [Dests -> Nat]
  /\ skewed \in [Dests -> BOOLEAN] /\ ended \in [Dests -> BOOLEAN]

Posted(pc, item) == [pc |-> pc, op |-> "posted", res |-> 0, item |-> item]
Done == [pc |-> "done", op |-> None, res |-> 0, item |-> None]
NoSession == [there |-> FALSE, alive |-> FALSE, fd |-> FALSE, op |-> None, res |-> 0]

\* start(): both loops run to their first co_await; without an eventfd the
\* relay is closed before it has begun.
Init ==
  /\ exists = TRUE /\ control = TRUE /\ udp = TRUE
  /\ event \in BOOLEAN /\ closed = ~event
  /\ recv = IF event THEN Posted("recvfrom", None) ELSE Done
  /\ send = IF event THEN "posted" ELSE "done"
  /\ session = [d \in Dests |-> NoSession]
  /\ newFd = FALSE /\ queue = << >>
  /\ appLog = << >> /\ inbox = << >>
  /\ toRemote = [d \in Dests |-> << >>]
  /\ frames = [d \in Dests |-> 0] /\ units = [d \in Dests |-> 0]
  /\ next = [d \in Dests |-> 1]
  /\ skewed = [d \in Dests |-> FALSE] /\ ended = [d \in Dests |-> FALSE]

-----------------------------------------------------------------------------
(* Shared steps.                                                            *)

\* What cancelFd() makes of an operation.
Cancelled(op) == IF op \in {"posted", "complete"} THEN "cancelled" ELSE op

\* recvLoop is waiting to write to the session of d.
WritesTo(d) == recv.pc = "write" /\ recv.item.to = d

\* stop(), after which recvLoop stands at r: everything waiting on a socket of
\* the relay is cancelled, the sockets are closed, the sessions are destroyed
\* with their out-tasks and the queue is emptied.  A second call does nothing.
Stop(r) ==
  /\ recv' = r
  /\ IF closed
       THEN UNCHANGED <<closed, session, send, event, udp, queue>>
       ELSE /\ closed' = TRUE
            /\ session' = [d \in Dests |-> NoSession]
            /\ send' = Cancelled(send)
            /\ event' = FALSE /\ udp' = FALSE
            /\ queue' = << >>

\* The head of recvLoop: wait for a datagram, or stop and end.
RecvAgain ==
  IF closed THEN Stop(Done)
  ELSE /\ recv' = Posted("recvfrom", None)
       /\ UNCHANGED <<closed, session, send, event, udp, queue>>

\* A dying session's socket is cancelled and closed; alive is cleared.
CloseSession(s, op) ==
  [s EXCEPT !.alive = FALSE, !.fd = FALSE, !.op = IF s.fd THEN op ELSE @]

-----------------------------------------------------------------------------
(* recvLoop.                                                                *)

\* A datagram, or an error that ends the relay.  What does not parse is
\* dropped; what does goes to its session, which may have to be built.
OnRecvFrom ==
  /\ recv.pc = "recvfrom" /\ recv.op = "complete"
  /\ \/ /\ recv.res < 0
        /\ Stop(Done)
        /\ UNCHANGED newFd
     \/ /\ recv.res >= 0 /\ recv.item.to = "bad"
        /\ RecvAgain
        /\ UNCHANGED newFd
     \/ /\ recv.res >= 0 /\ recv.item.to # "bad"
        /\ recv' = Posted(IF session[recv.item.to].alive THEN "write" ELSE "handshake",
                          recv.item)
        /\ newFd' = ~session[recv.item.to].alive
        /\ UNCHANGED <<closed, session, send, event, udp, queue>>
  /\ UNCHANGED <<exists, control, next, outside, skewed>>

\* Fault: the new out-task starts reading although the relay has stopped.
NewSessionRegardless ==
  [there |-> TRUE, alive |-> TRUE, fd |-> TRUE, op |-> "posted", res |-> 0]

\* The session just built, with its out-task run to its first suspension: if
\* the relay has been stopped meanwhile it ends at once and closes the socket.
NewSession ==
  IF closed THEN [NoSession EXCEPT !.there = TRUE]
  ELSE [there |-> TRUE, alive |-> TRUE, fd |-> TRUE, op |-> "posted", res |-> 0]


\* getOrCreateSession() after vlessConnectAndHandshake(): the datagram is
\* dropped, or the session replaces what the map held and gets the datagram.
OnHandshake ==
  /\ recv.pc = "handshake" /\ recv.op = "complete"
  /\ newFd' = FALSE
  /\ \/ recv.res < 0 /\ RecvAgain /\ UNCHANGED <<units, next, skewed, ended>>
     \/ /\ recv.res >= 0
        /\ LET d == recv.item.to
           IN /\ session' = [session EXCEPT ![d] = NewSession]
              /\ units' = [units EXCEPT ![d] = 0]
              /\ next' = [next EXCEPT ![d] = frames[d] + 1]
              /\ ended' = [ended EXCEPT ![d] = FALSE]
        /\ recv' = Posted("write", recv.item)
        /\ UNCHANGED <<closed, send, event, udp, queue, skewed>>
  /\ UNCHANGED <<exists, control, appLog, inbox, toRemote, frames>>

\* writeFull() of the frame returned.  A failure kills the session: its socket
\* is cancelled, with the out-task that reads from it, and closed.
OnFrameWritten ==
  /\ recv.pc = "write" /\ recv.op = "complete"
  /\ IF recv.res > 0 \/ closed
       THEN RecvAgain
       ELSE /\ recv' = Posted("recvfrom", None)
            /\ session' = [session EXCEPT ![recv.item.to] =
                             CloseSession(@, Cancelled(@.op))]
            /\ UNCHANGED <<closed, send, event, udp, queue>>
  /\ UNCHANGED <<exists, control, newFd, next, outside, skewed>>

-----------------------------------------------------------------------------
(* The out-tasks.                                                           *)

\* Fault: what comes last goes to the front of the queue.
EnqueueFirst(d, ids) ==
  queue' = [i \in 1 .. Len(ids) |-> [from |-> d, id |-> ids[i]]] \o queue

\* Datagrams for the application join the queue.
Enqueue(d, ids) ==
  queue' = queue \o [i \in 1 .. Len(ids) |-> [from |-> d, id |-> ids[i]]]

\* What n units of d's stream are taken for: the whole frames in them while
\* reads have ended between frames; also nothing or rubbish once one has not.
Parses(d, n) ==
  {[i \in 1 .. n \div 2 |-> next[d] + i - 1]}
    \cup (IF skewed[d] THEN {<< >>, <<0>>} ELSE {})


\* The session's stream has ended: alive is cleared and the socket is cancelled
\* and closed, and with it the write recvLoop may be waiting for.
OutTaskEnds(d) ==
  /\ session' = [session EXCEPT ![d] = CloseSession([@ EXCEPT !.op = None], None)]
  /\ recv' = IF WritesTo(d) /\ session[d].fd
               THEN [recv EXCEPT !.op = Cancelled(@)] ELSE recv
  /\ UNCHANGED <<queue, next, skewed>>

\* A read of the session's stream came back: its end, or units to cut up; half
\* a frame at the tail is thrown away.
OnOutRead(d) ==
  /\ session[d].op = "complete"
  /\ \/ session[d].res <= 0 /\ OutTaskEnds(d)
     \/ /\ session[d].res > 0
        /\ \E ids \in Parses(d, session[d].res) :
             /\ Enqueue(d, ids)
             /\ next' = [next EXCEPT ![d] = @ + Len(ids)]
        /\ skewed' = [skewed EXCEPT ![d] = @ \/ session[d].res % 2 = 1]
        /\ session' = [session EXCEPT ![d].op = "posted", ![d].res = 0]
        /\ UNCHANGED recv
  /\ UNCHANGED <<exists, closed, control, udp, event, send, newFd, outside>>

-----------------------------------------------------------------------------
(* sendLoop.                                                                *)

\* The receive on the eventfd has failed, and sendLoop ends.
OnEvent ==
  /\ send = "complete" /\ send' = "done"
  /\ UNCHANGED <<exists, control, local, recv, session, newFd, next, outside, skewed>>

-----------------------------------------------------------------------------
(* The control connection ends: runUdpAssociate() calls stop(), and the     *)
(* event loop destroys the connection and the relay after the CQEs at hand. *)

ControlEnds ==
  /\ control /\ control' = FALSE
  /\ Stop(IF recv.pc = "handshake" \/ closed THEN recv
          ELSE [recv EXCEPT !.op = Cancelled(@)])
  /\ UNCHANGED <<exists, newFd, next, outside, skewed>>

Destroy ==
  /\ ~control /\ exists
  /\ exists' = FALSE
  /\ recv' = Done /\ send' = "done"
  /\ session' = [d \in Dests |-> [session[d] EXCEPT !.op = None]]
  /\ UNCHANGED <<local, control, newFd, next, outside, skewed>>

-----------------------------------------------------------------------------
(* The kernel, the application and the remotes.                             *)

Returns(loop, res) == [loop EXCEPT !.op = "complete", !.res = res]

KernelRecvFrom ==
  /\ recv.pc = "recvfrom" /\ recv.op = "posted"
  /\ \/ /\ inbox # << >>
        /\ recv' = [Returns(recv, 1) EXCEPT !.item = Head(inbox)]
        /\ inbox' = Tail(inbox)
     \/ recv' = Returns(recv, -1) /\ UNCHANGED inbox
  /\ UNCHANGED <<exists, control, local, send, session, newFd, next, appLog,
                 toRemote, frames, units, ended, skewed>>

\* vlessConnectAndHandshake(), which closes the socket itself when it fails.
KernelHandshake ==
  /\ recv.pc = "handshake" /\ recv.op = "posted"
  /\ \/ recv' = Returns(recv, 1) /\ UNCHANGED newFd
     \/ recv' = Returns(recv, -1) /\ newFd' = FALSE
  /\ UNCHANGED <<exists, control, local, send, session, next, outside, skewed>>

KernelWrite ==
  /\ recv.pc = "write" /\ recv.op = "posted"
  /\ LET d == recv.item.to
     IN  \/ /\ session[d].fd /\ ~ended[d]
            /\ recv' = Returns(recv, 1)
            /\ toRemote' = [toRemote EXCEPT ![d] = Append(@, recv.item.id)]
         \/ /\ ~session[d].fd \/ ended[d]
            /\ recv' = Returns(recv, -1) /\ UNCHANGED toRemote
  /\ UNCHANGED <<exists, control, local, send, session, newFd, next, appLog,
                 inbox, frames, units, ended, skewed>>

KernelOutRead(d) ==
  /\ session[d].op = "posted"
  /\ \/ /\ \E n \in 1 .. units[d] :
             /\ session' = [session EXCEPT ![d].op = "complete", ![d].res = n]
             /\ units' = [units EXCEPT ![d] = @ - n]
     \/ /\ units[d] = 0 /\ ended[d]
        /\ session' = [session EXCEPT ![d].op = "complete", ![d].res = 0]
        /\ UNCHANGED units
  /\ UNCHANGED <<exists, control, local, recv, send, newFd, next, appLog, inbox,
                 toRemote, frames, ended, skewed>>

\* IORING_OP_RECV on the eventfd: ENOTSOCK, whether it has been raised or not.
KernelEvent ==
  /\ send = "posted" /\ send' = "complete"
  /\ UNCHANGED <<exists, control, local, recv, session, newFd, next, outside, skewed>>

AppSends(d) ==
  /\ udp /\ Len(appLog) < MaxApp
  /\ appLog' = Append(appLog, d)
  /\ inbox' = Append(inbox, [to |-> d, id |-> Len(appLog) + 1])
  /\ UNCHANGED <<exists, control, local, loops, next, toRemote, frames, units,
                 ended, skewed>>

RemoteSends(d) ==
  /\ session[d].fd /\ ~ended[d]
  /\ SumFunction(frames) < MaxFrames
  /\ frames' = [frames EXCEPT ![d] = @ + 1]
  /\ units' = [units EXCEPT ![d] = @ + 2]
  /\ UNCHANGED <<exists, control, local, loops, next, appLog, inbox, toRemote,
                 ended, skewed>>

RemoteEnds(d) ==
  /\ session[d].fd /\ ~ended[d]
  /\ ended' = [ended EXCEPT ![d] = TRUE]
  /\ UNCHANGED <<exists, control, local, loops, next, appLog, inbox, toRemote,
                 frames, units, skewed>>

-----------------------------------------------------------------------------
Relay  == OnRecvFrom \/ OnHandshake \/ OnFrameWritten
Kernel == KernelRecvFrom \/ KernelHandshake \/ KernelWrite

Next ==
  \/ Relay \/ OnEvent \/ Kernel \/ KernelEvent
  \/ ControlEnds \/ Destroy
  \/ AppSends("bad")
  \/ \E d \in Dests :
       OnOutRead(d) \/ KernelOutRead(d) \/ AppSends(d) \/ RemoteSends(d) \/ RemoteEnds(d)

\* Whatever completes is dispatched; handshakes and writes return, and so does
\* a recvfrom for which there is a datagram.
Spec ==
  /\ Init /\ [][Next]_vars
  /\ WF_vars(Relay) /\ WF_vars(OnEvent) /\ WF_vars(KernelEvent)
  /\ WF_vars(KernelHandshake \/ KernelWrite)
  /\ WF_vars(inbox # << >> /\ KernelRecvFrom)
  /\ \A d \in Dests : WF_vars(OnOutRead(d)) /\ WF_vars(KernelOutRead(d))
-----------------------------------------------------------------------------
\* A stopped relay stays stopped: whatever recvLoop was doing then, a handshake
\* included, no session's socket is open afterwards and nothing is queued for
\* the closed UDP socket (stop, getOrCreateSession, sessionOutTask's loop).
StopIsFinal ==
  closed => queue = << >> /\ \A d \in Dests : ~session[d].fd /\ ~session[d].alive

\* Datagrams are lost, as UDP may, but never doubled, reordered or sent to
\* another's session: each remote gets some of those addressed to it, and each
\* remote's frames are queued in their order.  Where a read ended inside a frame
\* the rest of that session is read out of step, and nothing is claimed.
ToRemoteInOrder ==
  \A d \in Dests :
    /\ \A i, j \in 1 .. Len(toRemote[d]) : i < j => toRemote[d][i] < toRemote[d][j]
    /\ \A i \in 1 .. Len(toRemote[d]) : appLog[toRemote[d][i]] = d
QueueInOrder ==
  \A i, j \in 1 .. Len(queue) :
    i < j /\ queue[i].from = queue[j].from
      => queue[i].id < queue[j].id \/ skewed[queue[i].from]
InOrder == ToRemoteInOrder /\ QueueInOrder


\* recvLoop waits for a write that was cancelled with its session's socket.
Stranded == recv.op = "cancelled" /\ ~closed


=============================================================================
