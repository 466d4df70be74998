------------------------ MODULE Socks5UdpRelayProofs ------------------------
(***************************************************************************)
(* The safety properties of the UDP relay, for any number of destinations,   *)
(* datagrams and frames.                                                     *)
(***************************************************************************)
EXTENDS Socks5UdpRelay, SequenceTheorems, TLAPS

-----------------------------------------------------------------------------
(* Types.                                                                   *)

Ops == {None, "posted", "complete", "cancelled"}
Senders == {"posted", "complete", "cancelled", "done"}
Session == [there : BOOLEAN, alive : BOOLEAN, fd : BOOLEAN, op : Ops, res : Int]

\* recvLoop has a datagram when it works on one; a remote's is for a destination.
Items ==
  /\ recv.pc \in {"handshake", "write"} => recv.item \in Datagrams /\ recv.item.to \in Dests
  /\ recv.pc = "recvfrom" /\ recv.op = "complete" /\ recv.res >= 0 => recv.item \in Datagrams

\* After stop() nothing is queued and no session has a socket or an operation.
Stopped ==
  closed => queue = << >> /\ \A d \in Dests : /\ ~session[d].fd /\ ~session[d].alive
                                              /\ session[d].op = None

Inv == TypeOK /\ Items /\ Stopped

\* A cancelled recvLoop works on what it worked on.
LEMMA RecvCancelled ==
  ASSUME NEW l \in Receivers
  PROVE  /\ [l EXCEPT !.op = Cancelled(@)] \in Receivers
         /\ [l EXCEPT !.op = Cancelled(@)].pc = l.pc
         /\ [l EXCEPT !.op = Cancelled(@)].item = l.item
         /\ [l EXCEPT !.op = Cancelled(@)].op \in {l.op, "cancelled"}
BY DEF Receivers, Cancelled

\* The kernel gives recvLoop a result.
LEMMA RecvReturns ==
  ASSUME NEW l \in Receivers, NEW n \in Int
  PROVE  /\ Returns(l, n) \in Receivers /\ Returns(l, n).pc = l.pc
         /\ Returns(l, n).item = l.item /\ Returns(l, n).res = n
BY DEF Receivers, Returns

\* The same for a session.
LEMMA SessionStates ==
  ASSUME NEW s \in Session
  PROVE  /\ NoSession \in Session /\ NewSession \in Session
         /\ NewSession.alive = NewSession.fd
         /\ \A op \in Ops : /\ CloseSession(s, op) \in Session
                            /\ ~CloseSession(s, op).alive /\ ~CloseSession(s, op).fd
         /\ Cancelled(s.op) \in Ops
         /\ [s EXCEPT !.op = None] \in Session
         /\ [s EXCEPT !.op = None].alive = s.alive /\ [s EXCEPT !.op = None].fd = s.fd
<1>1. NoSession \in Session /\ NewSession \in Session /\ NewSession.alive = NewSession.fd
  <2>1. NoSession \in Session
    BY DEF Session, NoSession, Ops
  <2>2. CASE closed
    <3>1. NewSession = [there |-> TRUE, alive |-> FALSE, fd |-> FALSE, op |-> None, res |-> 0]
      BY <2>2 DEF NewSession, NoSession
    <3> QED
      BY <2>1, <3>1 DEF Session, Ops
  <2>3. CASE ~closed
    <3>1. NewSession = [there |-> TRUE, alive |-> TRUE, fd |-> TRUE, op |-> "posted", res |-> 0]
      BY <2>3 DEF NewSession
    <3> QED
      BY <2>1, <3>1 DEF Session, Ops
  <2> QED
    BY <2>2, <2>3
<1>2. ASSUME NEW op \in Ops
      PROVE  /\ CloseSession(s, op) \in Session
             /\ ~CloseSession(s, op).alive /\ ~CloseSession(s, op).fd
  BY DEF Session, CloseSession, Ops
<1>3. Cancelled(s.op) \in Ops
  BY DEF Session, Cancelled, Ops
<1>4. /\ [s EXCEPT !.op = None] \in Session
      /\ [s EXCEPT !.op = None].alive = s.alive /\ [s EXCEPT !.op = None].fd = s.fd
  BY DEF Session, Ops
<1> QED
  BY <1>1, <1>2, <1>3, <1>4

\* A session's read is posted, and completes.
LEMMA SessionReads ==
  ASSUME NEW s \in Session, NEW n \in Int
  PROVE  /\ [s EXCEPT !.op = "complete", !.res = n] \in Session
         /\ [s EXCEPT !.op = "posted", !.res = n] \in Session
<1>1. [s EXCEPT !.op = "complete", !.res = n] \in Session
  BY DEF Session, Ops
<1>2. [s EXCEPT !.op = "posted", !.res = n] \in Session
  BY DEF Session, Ops
<1> QED
  BY <1>1, <1>2

\* A relay that has just been started satisfies the invariant.
LEMMA InvInit == Init => Inv
<1> SUFFICES ASSUME Init PROVE Inv
  OBVIOUS
<1>1. recv \in Receivers /\ send \in Senders
  BY DEF Init, Receivers, Senders, Posted, Done
<1>2. session \in [Dests -> Session] /\ \A d \in Dests : session[d] = NoSession
  BY DEF Init, Session, NoSession, Ops
<1>3. TypeOK
  <2>1. /\ exists \in BOOLEAN /\ closed \in BOOLEAN /\ control \in BOOLEAN
        /\ udp \in BOOLEAN /\ event \in BOOLEAN /\ newFd \in BOOLEAN
    <3>1. event \in BOOLEAN /\ closed = ~event
      BY DEF Init
    <3>2. closed \in BOOLEAN
      BY <3>1, Zenon
    <3>3. exists = TRUE /\ control = TRUE /\ udp = TRUE /\ newFd = FALSE
      BY DEF Init
    <3> QED
      BY <3>1, <3>2, <3>3, Zenon
  <2>2. \A d \in Dests : session[d].alive = session[d].fd
    <3>1. NoSession.alive = FALSE /\ NoSession.fd = FALSE
      BY DEF NoSession
    <3> QED
      BY <1>2, <3>1, Zenon
  <2>3. /\ queue \in Seq(Replies) /\ appLog \in Seq(Dests \cup {"bad"})
        /\ inbox \in Seq(Datagrams)
    BY DEF Init
  <2>4. /\ toRemote \in [Dests -> Seq(Nat)]
        /\ frames \in [Dests -> Nat] /\ units \in [Dests -> Nat] /\ next \in [Dests -> Nat]
        /\ skewed \in [Dests -> BOOLEAN] /\ ended \in [Dests -> BOOLEAN]
    BY DEF Init
  <2> QED
    BY <1>1, <1>2, <2>1, <2>2, <2>3, <2>4 DEF TypeOK, Senders, Session, Ops
<1>4. Items
  BY DEF Init, Items, Posted, Done
<1>5. Stopped
  BY <1>2 DEF Init, Stopped, NoSession
<1> QED
  BY <1>3, <1>4, <1>5 DEF Inv

-----------------------------------------------------------------------------
(* What a step makes of the state, variable by variable.                    *)

\* stop() leaves recvLoop where it is told to, and nothing open or queued.
LEMMA StopTypes ==
  ASSUME Inv, NEW r \in Receivers, Stop(r)
  PROVE  /\ recv' = r /\ closed' = TRUE
         /\ session' \in [Dests -> Session]
         /\ \A d \in Dests : ~session'[d].fd /\ ~session'[d].alive /\ session'[d].op = None
         /\ send' \in Senders
         /\ event' \in BOOLEAN /\ udp' \in BOOLEAN
         /\ queue' = << >>
<1>1. NoSession \in Session /\ ~NoSession.fd /\ ~NoSession.alive /\ NoSession.op = None
  BY DEF NoSession, Session, Ops
<1>2. /\ session \in [Dests -> Session] /\ send \in Senders /\ closed \in BOOLEAN
      /\ event \in BOOLEAN /\ udp \in BOOLEAN
  BY DEF Inv, TypeOK, Session, Senders, Ops
<1>3. CASE closed
  <2>1. UNCHANGED <<closed, session, send, event, udp, queue>> /\ recv' = r
    BY <1>3 DEF Stop
  <2>2. queue = << >> /\ \A d \in Dests : ~session[d].fd /\ ~session[d].alive /\ session[d].op = None
    BY <1>3 DEF Inv, Stopped
  <2>3. closed' = TRUE
    BY <1>2, <1>3, <2>1, Zenon
  <2> QED
    BY <1>2, <2>1, <2>2, <2>3
<1>4. CASE ~closed
  <2>1. /\ recv' = r /\ closed' = TRUE /\ session' = [d \in Dests |-> NoSession]
        /\ send' = Cancelled(send)
        /\ event' = FALSE /\ udp' = FALSE /\ queue' = << >>
    BY <1>4 DEF Stop
  <2>2. send' \in Senders
    BY <1>2, <2>1 DEF Senders, Cancelled
  <2>3. session' \in [Dests -> Session] /\ \A d \in Dests : session'[d] = NoSession
    BY <1>1, <2>1
  <2>4. \A d \in Dests : ~session'[d].fd /\ ~session'[d].alive /\ session'[d].op = None
    BY <1>1, <2>3, Zenon
  <2> QED
    BY <2>1, <2>2, <2>3, <2>4
<1> QED
  BY <1>3, <1>4

\* What the steps of the three kinds of coroutines change.
Core ==
  /\ recv \in Receivers /\ send \in Senders /\ session \in [Dests -> Session]
  /\ \A d \in Dests : session[d].alive = session[d].fd
  /\ closed \in BOOLEAN /\ event \in BOOLEAN /\ udp \in BOOLEAN
  /\ queue \in Seq(Replies)
  /\ Items /\ Stopped

HasItem(r) ==
  /\ r.pc \in {"handshake", "write"} => r.item \in Datagrams /\ r.item.to \in Dests
  /\ r.pc = "recvfrom" /\ r.op = "complete" /\ r.res >= 0 => r.item \in Datagrams

\* The core is part of the invariant.
LEMMA CoreOfInv == Inv => Core
BY DEF Inv, Core, TypeOK, Senders, Session, Ops

\* stop() keeps the core, wherever it leaves recvLoop.
LEMMA StopCore ==
  ASSUME Inv, NEW r \in Receivers, HasItem(r), Stop(r)
  PROVE  Core'
<1>1. /\ recv' = r /\ closed' = TRUE
      /\ session' \in [Dests -> Session]
      /\ \A d \in Dests : ~session'[d].fd /\ ~session'[d].alive /\ session'[d].op = None
      /\ send' \in Senders
      /\ event' \in BOOLEAN /\ udp' \in BOOLEAN /\ queue' = << >>
  BY StopTypes
<1>2. Items'
  BY <1>1 DEF Inv, Items, HasItem
<1>3. Stopped'
  BY <1>1 DEF Stopped
<1>4. ASSUME NEW d \in Dests PROVE session'[d].alive = session'[d].fd
  <2>1. session'[d].alive \in BOOLEAN /\ session'[d].fd \in BOOLEAN
    BY <1>1 DEF Session
  <2> QED
    BY <1>1, <2>1, Zenon
<1> QED
  BY <1>1, <1>2, <1>3, <1>4 DEF Core

\* A step of recvLoop to another operation, which leaves the sessions alone.
LEMMA RecvCore ==
  ASSUME Inv, recv' \in Receivers, HasItem(recv'),
         UNCHANGED <<closed, session, send, event, udp, queue>>
  PROVE  Core'
BY CoreOfInv DEF Core, Items, Stopped, HasItem

\* So does the head of recvLoop.
LEMMA AgainCore == ASSUME Inv, RecvAgain PROVE Core'
<1>1. Done \in Receivers /\ Posted("recvfrom", None) \in Receivers
  BY DEF Receivers, Done, Posted
<1>2. HasItem(Done) /\ HasItem(Posted("recvfrom", None))
  BY DEF HasItem, Done, Posted
<1>3. CASE closed
  BY <1>1, <1>2, <1>3, StopCore DEF RecvAgain
<1>4. CASE ~closed
  BY <1>1, <1>2, <1>4, RecvCore DEF RecvAgain
<1> QED
  BY <1>3, <1>4

\* A step that changes one session of a relay that runs, or ends one.
LEMMA SessionCore ==
  ASSUME Inv, NEW d \in Dests, NEW s \in Session, s.alive = s.fd,
         session' = [session EXCEPT ![d] = s],
         closed => ~s.fd /\ ~s.alive /\ s.op = None,
         recv' \in Receivers, HasItem(recv'),
         queue' \in Seq(Replies), closed => queue' = << >>,
         UNCHANGED <<closed, send, event, udp>>
  PROVE  Core'
<1>1. /\ session \in [Dests -> Session] /\ Items /\ Stopped
      /\ \A e \in Dests : session[e].alive = session[e].fd
  BY CoreOfInv DEF Core
<1>2. /\ session' \in [Dests -> Session]
      /\ \A e \in Dests : session'[e] = IF e = d THEN s ELSE session[e]
  BY <1>1
<1>3. \A e \in Dests : session'[e].alive = session'[e].fd
  BY <1>1, <1>2
<1>4. Items'
  BY <1>1 DEF Items, HasItem
<1>5. Stopped'
  BY <1>1, <1>2 DEF Stopped
<1> QED
  BY <1>2, <1>3, <1>4, <1>5, CoreOfInv DEF Core

\* A step of sendLoop.
LEMMA SendCore ==
  ASSUME Inv, send' \in Senders, UNCHANGED <<closed, recv, session, event, udp, queue>>
  PROVE  Core'
BY CoreOfInv DEF Core, Items, Stopped

\* A cancelled loop works on what it worked on.
LEMMA CancelledCore ==
  ASSUME Inv
  PROVE  /\ [recv EXCEPT !.op = Cancelled(@)] \in Receivers
         /\ HasItem([recv EXCEPT !.op = Cancelled(@)])
         /\ recv \in Receivers /\ HasItem(recv)
<1>1. recv \in Receivers /\ HasItem(recv)
  BY CoreOfInv DEF Core, Items, HasItem
<1> DEFINE c == [recv EXCEPT !.op = Cancelled(@)]
<1>2. c \in Receivers /\ c.pc = recv.pc /\ c.item = recv.item /\ c.op \in {recv.op, "cancelled"}
  BY <1>1, RecvCancelled
<1>3. c.res = recv.res
  BY <1>1 DEF Receivers
<1>4. HasItem(c)
  BY <1>1, <1>2, <1>3 DEF HasItem
<1> QED
  BY <1>1, <1>2, <1>4

\* Every resumption of recvLoop keeps the core.
LEMMA RelayStep == ASSUME Inv, Relay PROVE Core'
<1>0. /\ recv \in Receivers /\ HasItem(recv) /\ session \in [Dests -> Session]
      /\ \A d \in Dests : session[d].alive = session[d].fd
      /\ queue \in Seq(Replies) /\ Stopped /\ closed \in BOOLEAN
  BY CoreOfInv DEF Core, Items, HasItem
<1>p. ASSUME NEW p \in {"recvfrom", "handshake", "write"}, NEW x \in Datagrams \cup {None},
             p # "recvfrom" => x \in Datagrams /\ x.to \in Dests
      PROVE  Posted(p, x) \in Receivers /\ HasItem(Posted(p, x))
  <2>1. Posted(p, x) = [pc |-> p, op |-> "posted", res |-> 0, item |-> x]
    BY DEF Posted
  <2> QED
    BY <1>p, <2>1 DEF Receivers, HasItem
<1>d. Done \in Receivers /\ HasItem(Done)
  BY DEF Done, Receivers, HasItem
<1>1. CASE OnRecvFrom
  <2>1. CASE recv.res < 0
    <3>1. Stop(Done) \/ recv.res >= 0
      BY <1>1 DEF OnRecvFrom
    <3> QED
      BY <1>0, <1>d, <2>1, <3>1, StopCore DEF Receivers
  <2>2. CASE recv.res >= 0 /\ recv.item.to = "bad" /\ RecvAgain
    BY <2>2, AgainCore
  <2>3. CASE recv.res >= 0 /\ recv.item.to # "bad"
             /\ UNCHANGED <<closed, session, send, event, udp, queue>>
             /\ recv' = Posted(IF session[recv.item.to].alive THEN "write" ELSE "handshake",
                               recv.item)
    <3>1. recv.item \in Datagrams /\ recv.item.to \in Dests
      BY <1>0, <1>1, <2>3 DEF OnRecvFrom, HasItem, Datagrams
    <3>2. recv' \in Receivers /\ HasItem(recv')
      BY <1>p, <2>3, <3>1
    <3> QED
      BY <2>3, <3>2, RecvCore
  <2> QED
    BY <1>1, <2>1, <2>2, <2>3 DEF OnRecvFrom
<1>2. CASE OnHandshake
  <2>1. CASE RecvAgain
    BY <2>1, AgainCore
  <2>2. CASE /\ session' = [session EXCEPT ![recv.item.to] = NewSession]
             /\ recv' = Posted("write", recv.item)
             /\ UNCHANGED <<closed, send, event, udp, queue>>
    <3>1. recv.item \in Datagrams /\ recv.item.to \in Dests
      BY <1>0, <1>2 DEF OnHandshake, HasItem
    <3>2. recv' \in Receivers /\ HasItem(recv')
      BY <1>p, <2>2, <3>1
    <3>3. NewSession \in Session /\ NewSession.alive = NewSession.fd
      BY <1>0, <3>1, SessionStates
    <3>4. closed => NewSession = [there |-> TRUE, alive |-> FALSE, fd |-> FALSE,
                                  op |-> None, res |-> 0]
      BY DEF NewSession, NoSession
    <3>5. closed => ~NewSession.fd /\ ~NewSession.alive /\ NewSession.op = None
      BY <3>4
    <3>6. queue' \in Seq(Replies) /\ (closed => queue' = << >>)
      BY <1>0, <2>2 DEF Stopped
    <3> HIDE DEF NewSession
    <3> QED
      BY <2>2, <3>1, <3>2, <3>3, <3>5, <3>6, SessionCore
  <2> QED
    BY <1>2, <2>1, <2>2 DEF OnHandshake
<1>3. CASE OnFrameWritten
  <2>1. CASE RecvAgain
    BY <2>1, AgainCore
  <2>2. CASE /\ ~closed /\ recv' = Posted("recvfrom", None)
             /\ session' = [session EXCEPT ![recv.item.to] = CloseSession(@, Cancelled(@.op))]
             /\ UNCHANGED <<closed, send, event, udp, queue>>
    <3> DEFINE d == recv.item.to
               c == CloseSession(session[d], Cancelled(session[d].op))
    <3>1. d \in Dests
      BY <1>0, <1>3 DEF OnFrameWritten, HasItem
    <3>2. recv' \in Receivers /\ HasItem(recv')
      BY <1>p, <2>2
    <3>3. Cancelled(session[d].op) \in Ops
      BY <1>0, <3>1, SessionStates
    <3>4. c \in Session /\ ~c.alive /\ ~c.fd
      BY <1>0, <3>1, <3>3, SessionStates
    <3>5. session' = [session EXCEPT ![d] = c]
      BY <1>0, <2>2, <3>1
    <3>6. c.alive = c.fd
      BY <3>4, Zenon DEF Session
    <3> HIDE DEF c, d
    <3> QED
      BY <1>0, <2>2, <3>1, <3>2, <3>4, <3>5, <3>6, SessionCore
  <2> QED
    BY <1>3, <2>1, <2>2 DEF OnFrameWritten
<1> QED
  BY <1>1, <1>2, <1>3 DEF Relay

\* The out-tasks: what they queue are replies of theirs.
LEMMA ParsesType ==
  ASSUME Inv, NEW d \in Dests, NEW n \in Nat, NEW ids \in Parses(d, n)
  PROVE  /\ ids \in Seq(Nat)
         /\ [i \in 1 .. Len(ids) |-> [from |-> d, id |-> ids[i]]] \in Seq(Replies)
         /\ ~skewed[d] => /\ Len(ids) = n \div 2
                          /\ \A i \in 1 .. Len(ids) : ids[i] = next[d] + i - 1
<1>1. next[d] \in Nat /\ n \div 2 \in Nat
  BY DEF Inv, TypeOK
<1> DEFINE whole == [i \in 1 .. n \div 2 |-> next[d] + i - 1]
<1>2. whole \in Seq(Nat) /\ Len(whole) = n \div 2
  BY <1>1
<1>3. ids \in Seq(Nat)
  <2>1. ids \in {whole, << >>, <<0>>}
    BY DEF Parses
  <2>2. << >> \in Seq(Nat) /\ <<0>> \in Seq(Nat)
    OBVIOUS
  <2> HIDE DEF whole
  <2> QED
    BY <1>2, <2>1, <2>2
<1>4. \A i \in 1 .. Len(ids) : ids[i] \in Nat
  BY <1>3
<1>5. \A i \in 1 .. Len(ids) : [from |-> d, id |-> ids[i]] \in Replies
  BY <1>4 DEF Replies
<1>6. Len(ids) \in Nat
  BY <1>3
<1>7. [i \in 1 .. Len(ids) |-> [from |-> d, id |-> ids[i]]] \in Seq(Replies)
  BY <1>5, <1>6
<1>8. ~skewed[d] => ids = whole
  BY DEF Parses
<1> QED
  BY <1>2, <1>3, <1>7, <1>8

\* Every resumption of an out-task does.
LEMMA OutStep == ASSUME Inv, NEW d \in Dests, OnOutRead(d) PROVE Core'
<1>0. /\ recv \in Receivers /\ HasItem(recv) /\ session \in [Dests -> Session]
      /\ session[d].alive = session[d].fd
      /\ queue \in Seq(Replies) /\ Stopped /\ ~closed /\ session[d].res \in Int
  BY CoreOfInv, UdpRelayAssumption DEF Core, Items, HasItem, OnOutRead, Stopped, Session
<1>1. UNCHANGED <<closed, send, event, udp>>
  BY DEF OnOutRead
<1>2. CASE OutTaskEnds(d)
  <2> DEFINE o == [session[d] EXCEPT !.op = None]
             c == CloseSession(o, None)
  <2>1. o \in Session
    BY <1>0, SessionStates
  <2>2. None \in Ops
    BY DEF Ops
  <2>3. c \in Session /\ ~c.alive /\ ~c.fd
    BY <2>1, <2>2, SessionStates
  <2>4. c.alive = c.fd
    BY <2>3, Zenon DEF Session
  <2>5. session' = [session EXCEPT ![d] = c]
    BY <1>0, <1>2 DEF OutTaskEnds
  <2>6. recv' \in Receivers /\ HasItem(recv')
    BY <1>0, <1>2, CancelledCore DEF OutTaskEnds
  <2>7. queue' = queue
    BY <1>2 DEF OutTaskEnds
  <2> HIDE DEF c
  <2> QED
    BY <1>0, <1>1, <2>3, <2>4, <2>5, <2>6, <2>7, SessionCore
<1>3. CASE session[d].res > 0 /\ UNCHANGED recv
           /\ session' = [session EXCEPT ![d].op = "posted", ![d].res = 0]
           /\ \E ids \in Parses(d, session[d].res) : Enqueue(d, ids)
  <2> DEFINE p == [session[d] EXCEPT !.op = "posted", !.res = 0]
  <2>1. p \in Session /\ p.alive = session[d].alive /\ p.fd = session[d].fd
    <3>1. session[d] \in Session
      BY <1>0
    <3>2. 0 \in Int
      OBVIOUS
    <3>4. p \in Session
      BY <3>1, <3>2, SessionReads, Zenon
    <3>3. p.alive = session[d].alive /\ p.fd = session[d].fd
      BY <3>1 DEF Session
    <3> QED
      BY <3>3, <3>4
  <2>2. p.alive = p.fd
    BY <1>0, <2>1, Zenon
  <2>3. session' = [session EXCEPT ![d] = p]
    BY <1>0, <1>3
  <2>4. PICK ids \in Parses(d, session[d].res) : Enqueue(d, ids)
    BY <1>3
  <2> DEFINE new == [i \in 1 .. Len(ids) |-> [from |-> d, id |-> ids[i]]]
  <2>5. new \in Seq(Replies)
    BY <1>0, <1>3, ParsesType
  <2>6. queue' = queue \o new
    BY <2>4 DEF Enqueue
  <2> HIDE DEF p, new
  <2>7. queue' \in Seq(Replies)
    BY <1>0, <2>5, <2>6
  <2> QED
    BY <1>0, <1>1, <1>3, <2>1, <2>2, <2>3, <2>7, SessionCore
<1> QED
  BY <1>2, <1>3 DEF OnOutRead

\* The end of sendLoop does.
LEMMA SenderStep == ASSUME Inv, OnEvent PROVE Core'
<1>1. UNCHANGED <<closed, recv, session, event, udp, queue>> /\ send' \in Senders
  BY DEF OnEvent, local, Senders
<1> QED
  BY <1>1, SendCore

\* The end of the control connection does, and the destruction.
LEMMA ControlStep == ASSUME Inv, ControlEnds \/ Destroy PROVE Core'
<1>1. CASE ControlEnds
  <2>1. PICK r \in {recv, [recv EXCEPT !.op = Cancelled(@)]} : Stop(r)
    BY <1>1 DEF ControlEnds
  <2> QED
    BY <2>1, StopCore, CancelledCore
<1>2. CASE Destroy
  <2>0. Core
    BY CoreOfInv
  <2>1. recv' = Done /\ send' = "done" /\ UNCHANGED <<closed, udp, event, queue>>
    BY <1>2 DEF Destroy, local
  <2>2. Done \in Receivers /\ "done" \in Senders /\ Done.pc = "done"
    BY DEF Done, Receivers, Senders
  <2>3. Items'
    BY <2>1, <2>2 DEF Items
  <2>4. \A d \in Dests : session[d] \in Session
    BY <2>0 DEF Core
  <2>5. session' = [d \in Dests |-> [session[d] EXCEPT !.op = None]]
    BY <1>2 DEF Destroy
  <2>6. \A d \in Dests : /\ session'[d] \in Session /\ session'[d].op = None
                         /\ session'[d].alive = session[d].alive
                         /\ session'[d].fd = session[d].fd
    <3> TAKE d \in Dests
    <3>1. session'[d] = [session[d] EXCEPT !.op = None]
      BY <2>5
    <3>2. session'[d].op = None
      BY <2>4, <3>1 DEF Session
    <3> QED
      BY <2>4, <3>1, <3>2, SessionStates
  <2>7. session' \in [Dests -> Session]
    BY <2>5, <2>6
  <2>8. \A d \in Dests : session'[d].alive = session'[d].fd
    BY <2>0, <2>6 DEF Core
  <2>9. Stopped'
    BY <2>0, <2>1, <2>6, Zenon DEF Core, Stopped
  <2> QED
    BY <2>0, <2>1, <2>2, <2>3, <2>7, <2>8, <2>9 DEF Core
<1> QED
  BY <1>1, <1>2

\* The kernel gives a loop its result, a session its units.
LEMMA KernelStep ==
  ASSUME Inv, Kernel \/ KernelEvent PROVE Core'
<1>0. recv \in Receivers /\ HasItem(recv) /\ send \in Senders /\ Items
  BY CoreOfInv DEF Core, Items, HasItem
<1>r. ASSUME NEW n \in {1, -1}
      PROVE  /\ Returns(recv, n) \in Receivers /\ Returns(recv, n).pc = recv.pc
             /\ Returns(recv, n).item = recv.item /\ Returns(recv, n).res = n
  BY <1>0, RecvReturns
<1>1. CASE KernelRecvFrom
  <2>0. UNCHANGED <<closed, session, send, event, udp, queue>> /\ recv.pc = "recvfrom"
    BY <1>1 DEF KernelRecvFrom, local
  <2>1. CASE recv' = Returns(recv, -1)
    <3>1. HasItem(recv')
      BY <1>r, <2>0, <2>1 DEF HasItem
    <3> QED
      BY <1>r, <2>0, <2>1, <3>1, RecvCore
  <2>2. CASE inbox # << >> /\ recv' = [Returns(recv, 1) EXCEPT !.item = Head(inbox)]
    <3>1. inbox \in Seq(Datagrams)
      BY DEF Inv, TypeOK
    <3>2. Head(inbox) \in Datagrams
      BY <2>2, <3>1
    <3>3. recv' \in Receivers /\ recv'.pc = "recvfrom" /\ recv'.item \in Datagrams
      BY <1>r, <2>0, <2>2, <3>2 DEF Receivers
    <3>4. HasItem(recv')
      BY <3>3 DEF HasItem
    <3> QED
      BY <2>0, <3>3, <3>4, RecvCore
  <2> QED
    BY <1>1, <2>1, <2>2 DEF KernelRecvFrom
<1>2. CASE KernelHandshake \/ KernelWrite
  <2>1. PICK n \in {1, -1} : recv' = Returns(recv, n)
    BY <1>2 DEF KernelHandshake, KernelWrite
  <2>2. recv.pc \in {"handshake", "write"}
        /\ UNCHANGED <<closed, session, send, event, udp, queue>>
    BY <1>2 DEF KernelHandshake, KernelWrite, local
  <2>3. HasItem(recv')
    BY <1>0, <1>r, <2>1, <2>2 DEF HasItem
  <2> QED
    BY <1>r, <2>1, <2>2, <2>3, RecvCore
<1>3. CASE KernelEvent
  <2>1. UNCHANGED <<closed, recv, session, event, udp, queue>> /\ send' \in Senders
    BY <1>3 DEF KernelEvent, local, Senders
  <2> QED
    BY <2>1, SendCore
<1> QED
  BY <1>1, <1>2, <1>3 DEF Kernel

\* A completed read of a session does.
LEMMA ReadStep == ASSUME Inv, NEW d \in Dests, KernelOutRead(d) PROVE Core'
<1>0. /\ recv \in Receivers /\ HasItem(recv) /\ session \in [Dests -> Session]
      /\ session[d].alive = session[d].fd
      /\ queue \in Seq(Replies) /\ Stopped /\ units[d] \in Nat
  BY CoreOfInv DEF Core, Items, HasItem, Inv, TypeOK
<1>1. UNCHANGED <<closed, recv, send, event, udp, queue>> /\ ~closed
  BY <1>0, UdpRelayAssumption DEF KernelOutRead, local, Stopped
<1>2. PICK n \in Nat : session' = [session EXCEPT ![d].op = "complete", ![d].res = n]
  BY <1>0 DEF KernelOutRead
<1> DEFINE c == [session[d] EXCEPT !.op = "complete", !.res = n]
<1>3. session[d] \in Session /\ n \in Int
  BY <1>0
<1>4. c \in Session
  BY <1>3 DEF Session, Ops
<1>5. c.alive = session[d].alive /\ c.fd = session[d].fd
  BY <1>3 DEF Session
<1>6. session' = [session EXCEPT ![d] = c]
  BY <1>0, <1>2
<1>7. c.alive = c.fd
  BY <1>0, <1>5, Zenon
<1> HIDE DEF c
<1> QED
  BY <1>0, <1>1, <1>4, <1>6, <1>7, SessionCore

\* Steps outside the relay.
Outside ==
  \/ \E x \in Dests \cup {"bad"} : AppSends(x)
  \/ \E d \in Dests : RemoteSends(d) \/ RemoteEnds(d)
  \/ UNCHANGED vars

\* What the application and the remotes do leaves the core alone.
LEMMA OutsideStep == ASSUME Inv, Outside PROVE Core'
<1>1. UNCHANGED <<closed, recv, session, send, event, udp, queue>>
  BY DEF Outside, AppSends, RemoteSends, RemoteEnds, loops, local, vars
<1> QED
  BY <1>1, CoreOfInv, RecvCore DEF Core, Items, HasItem

\* Every step keeps the core.
LEMMA CoreStep == Inv /\ [Next]_vars => Core'
<1> SUFFICES ASSUME Inv, [Next]_vars PROVE Core'
  OBVIOUS
<1>1. CASE \E d \in Dests : OnOutRead(d) \/ KernelOutRead(d)
  BY <1>1, OutStep, ReadStep
<1>2. CASE Outside
  BY <1>2, OutsideStep
<1> QED
  BY <1>1, <1>2, RelayStep, SenderStep, ControlStep, KernelStep DEF Next, Outside

\* The flags that only change to constants.
LEMMA FlagTypes ==
  Inv /\ [Next]_vars
    => (exists \in BOOLEAN /\ control \in BOOLEAN /\ newFd \in BOOLEAN)'
<1> SUFFICES ASSUME Inv, [Next]_vars
             PROVE  exists' \in BOOLEAN /\ control' \in BOOLEAN /\ newFd' \in BOOLEAN
  OBVIOUS
<1>1. /\ exists \in BOOLEAN /\ control \in BOOLEAN /\ newFd \in BOOLEAN
      /\ session \in [Dests -> Session]
  BY CoreOfInv DEF Core, Inv, TypeOK
<1>2. exists' \in {exists, FALSE} /\ control' \in {control, FALSE}
  BY DEF Next, vars, Relay, Kernel, OnRecvFrom, OnHandshake, OnFrameWritten,
     OnOutRead, OutTaskEnds, Enqueue, OnEvent, ControlEnds, Destroy, KernelRecvFrom,
     KernelHandshake, KernelWrite, KernelOutRead, KernelEvent, AppSends,
     RemoteSends, RemoteEnds, outside, local, loops
<1>3. newFd' \in BOOLEAN
  <2>1. CASE OnRecvFrom
    <3>1. CASE UNCHANGED newFd
      BY <1>1, <3>1
    <3>2. CASE newFd' = ~session[recv.item.to].alive
      BY <3>2, Zenon
    <3> QED
      BY <2>1, <3>1, <3>2 DEF OnRecvFrom
  <2> QED
    BY <1>1, <2>1 DEF Next, vars, Relay, Kernel, OnRecvFrom, OnHandshake, OnFrameWritten,
     OnOutRead, OutTaskEnds, Enqueue, OnEvent, ControlEnds, Destroy, KernelRecvFrom,
     KernelHandshake, KernelWrite, KernelOutRead, KernelEvent, AppSends,
     RemoteSends, RemoteEnds, outside, local, loops
<1> QED
  BY <1>1, <1>2, <1>3

\* What the application and the remotes have sent and got.
LEMMA TrafficTypes ==
  Inv /\ [Next]_vars
    => (/\ appLog \in Seq(Dests \cup {"bad"}) /\ inbox \in Seq(Datagrams)
        /\ toRemote \in [Dests -> Seq(Nat)])'
<1> SUFFICES ASSUME Inv, [Next]_vars
             PROVE  /\ appLog' \in Seq(Dests \cup {"bad"}) /\ inbox' \in Seq(Datagrams)
                    /\ toRemote' \in [Dests -> Seq(Nat)]
  OBVIOUS
<1>1. /\ appLog \in Seq(Dests \cup {"bad"}) /\ inbox \in Seq(Datagrams)
      /\ toRemote \in [Dests -> Seq(Nat)] /\ Items
  BY DEF Inv, TypeOK
<1>2. CASE \E x \in Dests \cup {"bad"} : AppSends(x)
  <2>1. PICK x \in Dests \cup {"bad"} : AppSends(x)
    BY <1>2
  <2>2. [to |-> x, id |-> Len(appLog) + 1] \in Datagrams
    BY <1>1 DEF Datagrams
  <2> QED
    BY <1>1, <2>1, <2>2 DEF AppSends
<1>3. CASE KernelRecvFrom
  <2>1. /\ UNCHANGED <<appLog, toRemote>>
        /\ inbox' = inbox \/ (inbox # << >> /\ inbox' = Tail(inbox))
    BY <1>3 DEF KernelRecvFrom
  <2>2. inbox' \in Seq(Datagrams)
    BY <1>1, <2>1, HeadTailProperties
  <2> QED
    BY <1>1, <2>1, <2>2, Zenon
<1>4. CASE KernelWrite
  <2>1. recv.item.to \in Dests /\ recv.item.id \in Nat
    BY <1>1, <1>4 DEF KernelWrite, Items, Datagrams
  <2>2. Append(toRemote[recv.item.to], recv.item.id) \in Seq(Nat)
    BY <1>1, <2>1
  <2>3. toRemote' \in [Dests -> Seq(Nat)]
    BY <1>1, <1>4, <2>2 DEF KernelWrite
  <2> QED
    BY <1>1, <1>4, <2>3 DEF KernelWrite
<1>5. CASE UNCHANGED <<appLog, inbox, toRemote>>
  BY <1>1, <1>5
<1> QED
  BY <1>2, <1>3, <1>4, <1>5
  DEF Next, vars, Relay, Kernel, OnRecvFrom, OnHandshake, OnFrameWritten,
     OnOutRead, OutTaskEnds, Enqueue, OnEvent, ControlEnds, Destroy, KernelRecvFrom,
     KernelHandshake, KernelWrite, KernelOutRead, KernelEvent, AppSends,
     RemoteSends, RemoteEnds, outside, local, loops

\* The remotes' frames, as sent, on their way and expected.
LEMMA FrameTypes ==
  Inv /\ [Next]_vars
    => (/\ frames \in [Dests -> Nat] /\ units \in [Dests -> Nat] /\ next \in [Dests -> Nat]
        /\ skewed \in [Dests -> BOOLEAN] /\ ended \in [Dests -> BOOLEAN])'
<1> SUFFICES ASSUME Inv, [Next]_vars
             PROVE  /\ frames' \in [Dests -> Nat] /\ units' \in [Dests -> Nat]
                    /\ next' \in [Dests -> Nat]
                    /\ skewed' \in [Dests -> BOOLEAN] /\ ended' \in [Dests -> BOOLEAN]
  OBVIOUS
<1>1. /\ frames \in [Dests -> Nat] /\ units \in [Dests -> Nat] /\ next \in [Dests -> Nat]
      /\ skewed \in [Dests -> BOOLEAN] /\ ended \in [Dests -> BOOLEAN]
      /\ session \in [Dests -> Session] /\ Items
  BY CoreOfInv DEF Core, Inv, TypeOK
<1>2. CASE OnHandshake
  <2>1. recv.res >= 0 => recv.item.to \in Dests
    BY <1>1, <1>2 DEF OnHandshake, Items
  <2>2. UNCHANGED <<frames, skewed>>
    BY <1>2 DEF OnHandshake
  <2>3. CASE UNCHANGED <<units, next, ended>>
    BY <1>1, <2>2, <2>3
  <2>4. CASE /\ recv.res >= 0
             /\ units' = [units EXCEPT ![recv.item.to] = 0]
             /\ next' = [next EXCEPT ![recv.item.to] = frames[recv.item.to] + 1]
             /\ ended' = [ended EXCEPT ![recv.item.to] = FALSE]
    <3>1. frames[recv.item.to] + 1 \in Nat
      BY <1>1, <2>1, <2>4
    <3> QED
      BY <1>1, <2>2, <2>4, <3>1
  <2> QED
    BY <1>2, <2>3, <2>4 DEF OnHandshake
<1>3. CASE \E d \in Dests : OnOutRead(d)
  <2>1. PICK d \in Dests : OnOutRead(d)
    BY <1>3
  <2>2. UNCHANGED <<frames, units, ended>>
    BY <2>1 DEF OnOutRead, outside
  <2>3. CASE OutTaskEnds(d)
    BY <1>1, <2>2, <2>3 DEF OutTaskEnds
  <2>4. CASE /\ session[d].res > 0
             /\ \E ids \in Parses(d, session[d].res) : next' = [next EXCEPT ![d] = @ + Len(ids)]
             /\ skewed' = [skewed EXCEPT ![d] = @ \/ session[d].res % 2 = 1]
    <3>0. session[d].res \in Nat
      BY <1>1, <2>4 DEF Session
    <3>1. PICK ids \in Parses(d, session[d].res) : next' = [next EXCEPT ![d] = @ + Len(ids)]
      BY <2>4
    <3>2. Len(ids) \in Nat
      BY <3>0, <3>1, ParsesType
    <3>3. next' \in [Dests -> Nat]
      BY <1>1, <3>1, <3>2
    <3>4. (skewed[d] \/ session[d].res % 2 = 1) \in BOOLEAN
      BY Zenon
    <3>5. skewed' \in [Dests -> BOOLEAN]
      BY <1>1, <2>4, <3>4
    <3> QED
      BY <1>1, <2>2, <3>3, <3>5
  <2> QED
    BY <2>1, <2>3, <2>4 DEF OnOutRead
<1>4. CASE \E d \in Dests : KernelOutRead(d) \/ RemoteSends(d) \/ RemoteEnds(d)
  <2>1. PICK d \in Dests : KernelOutRead(d) \/ RemoteSends(d) \/ RemoteEnds(d)
    BY <1>4
  <2>2. CASE KernelOutRead(d)
    <3>1. UNCHANGED <<frames, next, skewed, ended>>
      BY <2>2 DEF KernelOutRead
    <3>2. units' = units \/ \E n \in 1 .. units[d] : units' = [units EXCEPT ![d] = @ - n]
      BY <2>2 DEF KernelOutRead
    <3> QED
      BY <1>1, <3>1, <3>2
  <2>3. CASE RemoteSends(d)
    BY <1>1, <2>3 DEF RemoteSends
  <2>4. CASE RemoteEnds(d)
    BY <1>1, <2>4 DEF RemoteEnds
  <2> QED
    BY <2>1, <2>2, <2>3, <2>4
<1>5. CASE UNCHANGED <<frames, units, next, skewed, ended>>
  BY <1>1, <1>5
<1> QED
  BY <1>2, <1>3, <1>4, <1>5
  DEF Next, vars, Relay, Kernel, OnRecvFrom, OnHandshake, OnFrameWritten,
     OnOutRead, OutTaskEnds, Enqueue, OnEvent, ControlEnds, Destroy, KernelRecvFrom,
     KernelHandshake, KernelWrite, KernelOutRead, KernelEvent, AppSends,
     RemoteSends, RemoteEnds, outside, local, loops

\* Every step keeps the invariant.
LEMMA InvStep == Inv /\ [Next]_vars => Inv'
BY CoreStep, FlagTypes, TrafficTypes, FrameTypes
   DEF Inv, Core, TypeOK, Senders, Session, Ops

\* Type correctness; and alive is set exactly while the socket is open.
THEOREM TypeCorrect == Spec => []TypeOK
<1>1. Inv => TypeOK
  BY DEF Inv
<1> QED
  BY InvInit, InvStep, <1>1, PTL DEF Spec

\* Whatever recvLoop was doing when the relay was stopped, a handshake included,
\* no session's socket is open afterwards and nothing is queued.
THEOREM StoppedForGood == Spec => []StopIsFinal
<1>1. Inv => StopIsFinal
  BY DEF Inv, Stopped, StopIsFinal
<1> QED
  BY InvInit, InvStep, <1>1, PTL DEF Spec
-----------------------------------------------------------------------------
(* The order of the application's datagrams.                                *)

\* A datagram of the application's, by its number.
Numbered(log, x) == x.id \in 1 .. Len(log) /\ log[x.id] = x.to

\* recvLoop has taken a datagram that it has not written yet.
Held(r) ==
  \/ r.pc = "recvfrom" /\ r.op = "complete" /\ r.res >= 0
  \/ r.pc = "handshake"
  \/ r.pc = "write" /\ r.op = "posted"

\* What the remotes have got is older than what recvLoop holds, and that is
\* older than what the UDP socket holds.
DatagramOrder ==
  /\ ToRemoteInOrder
  /\ \A i \in 1 .. Len(inbox) : Numbered(appLog, inbox[i])
  /\ \A i, j \in 1 .. Len(inbox) : i < j => inbox[i].id < inbox[j].id
  /\ \A d \in Dests : \A i \in 1 .. Len(toRemote[d]) :
       /\ toRemote[d][i] \in 1 .. Len(appLog)
       /\ \A j \in 1 .. Len(inbox) : toRemote[d][i] < inbox[j].id
  /\ Held(recv) =>
       /\ Numbered(appLog, recv.item)
       /\ \A j \in 1 .. Len(inbox) : recv.item.id < inbox[j].id
       /\ \A d \in Dests : \A i \in 1 .. Len(toRemote[d]) : toRemote[d][i] < recv.item.id

\* No datagram has been sent yet.
LEMMA DatagramInit == Init => DatagramOrder
BY DEF Init, DatagramOrder, ToRemoteInOrder, Held, Posted, Done

\* A new datagram is the youngest.
LEMMA DatagramSent ==
  ASSUME Inv, DatagramOrder, NEW x \in Dests \cup {"bad"}, AppSends(x)
  PROVE  DatagramOrder'
<1> DEFINE n == Len(appLog) + 1
           new == [to |-> x, id |-> n]
<1>0. /\ appLog \in Seq(Dests \cup {"bad"}) /\ inbox \in Seq(Datagrams) /\ new \in Datagrams
      /\ toRemote \in [Dests -> Seq(Nat)] /\ Len(appLog) \in Nat /\ Len(inbox) \in Nat
  BY DEF Inv, TypeOK, Datagrams
<1>1. /\ appLog' = Append(appLog, x) /\ inbox' = Append(inbox, new)
      /\ UNCHANGED <<toRemote, recv>>
  BY DEF AppSends, loops
<1>2. /\ Len(appLog') = n /\ appLog'[n] = x
      /\ \A i \in 1 .. Len(appLog) : appLog'[i] = appLog[i]
  BY <1>0, <1>1, AppendProperties
<1>3. /\ Len(inbox') = Len(inbox) + 1 /\ inbox'[Len(inbox) + 1] = new
      /\ \A i \in 1 .. Len(inbox) : inbox'[i] = inbox[i]
  BY <1>0, <1>1, AppendProperties
<1>4. new.to = x /\ new.id = n
  OBVIOUS
<1> HIDE DEF new
<1>5. ASSUME NEW y, Numbered(appLog, y) PROVE Numbered(appLog', y) /\ y.id < n /\ y.id \in Nat
  <2>1. y.id \in 1 .. Len(appLog) /\ appLog[y.id] = y.to
    BY <1>5 DEF Numbered
  <2>2. y.id \in 1 .. Len(appLog') /\ appLog'[y.id] = y.to
    BY <1>0, <1>2, <2>1
  <2>3. y.id < n /\ y.id \in Nat
    BY <1>0, <2>1
  <2> QED
    BY <2>2, <2>3 DEF Numbered
<1>6. Numbered(appLog', new)
  BY <1>0, <1>2, <1>4 DEF Numbered
<1>7. \A i \in 1 .. Len(inbox') : Numbered(appLog', inbox'[i])
  BY <1>0, <1>3, <1>5, <1>6 DEF DatagramOrder
<1>j. ASSUME NEW j \in 1 .. Len(inbox')
      PROVE  \/ j \in 1 .. Len(inbox) /\ inbox'[j] = inbox[j]
             \/ j = Len(inbox) + 1 /\ inbox'[j].id = n
  BY <1>0, <1>3, <1>4
<1>k. \A i \in 1 .. Len(inbox) : inbox[i].id < n /\ inbox[i].id \in Nat
  BY <1>5 DEF DatagramOrder
<1> HIDE DEF n
<1>8. ASSUME NEW i \in 1 .. Len(inbox'), NEW j \in 1 .. Len(inbox'), i < j
      PROVE  inbox'[i].id < inbox'[j].id
  <2>1. i \in 1 .. Len(inbox) /\ inbox'[i] = inbox[i]
    BY <1>0, <1>3, <1>8, <1>j
  <2>2. j \in 1 .. Len(inbox) => inbox[i].id < inbox[j].id
    BY <1>8, <2>1 DEF DatagramOrder
  <2> QED
    BY <1>j, <1>k, <2>1, <2>2
<1>9. ASSUME NEW d \in Dests, NEW i \in 1 .. Len(toRemote[d])
      PROVE  /\ toRemote[d][i] \in 1 .. Len(appLog') /\ appLog'[toRemote[d][i]] = d
             /\ \A j \in 1 .. Len(inbox') : toRemote[d][i] < inbox'[j].id
  <2>1. /\ toRemote[d][i] \in 1 .. Len(appLog) /\ appLog[toRemote[d][i]] = d
        /\ \A j \in 1 .. Len(inbox) : toRemote[d][i] < inbox[j].id
    BY DEF DatagramOrder, ToRemoteInOrder
  <2>2. toRemote[d][i] < n /\ toRemote[d][i] \in 1 .. Len(appLog')
        /\ appLog'[toRemote[d][i]] = d
    BY <1>0, <1>2, <2>1 DEF n
  <2>3. \A j \in 1 .. Len(inbox') : toRemote[d][i] < inbox'[j].id
    BY <1>j, <2>1, <2>2
  <2> QED
    BY <2>2, <2>3
<1>10. ASSUME Held(recv)
       PROVE  /\ Numbered(appLog', recv.item)
              /\ \A j \in 1 .. Len(inbox') : recv.item.id < inbox'[j].id
  <2>1. /\ Numbered(appLog, recv.item)
        /\ \A j \in 1 .. Len(inbox) : recv.item.id < inbox[j].id
    BY <1>10 DEF DatagramOrder
  <2>2. Numbered(appLog', recv.item) /\ recv.item.id < n
    BY <1>5, <2>1
  <2> QED
    BY <1>j, <2>1, <2>2
<1> QED
  BY <1>1, <1>7, <1>8, <1>9, <1>10 DEF DatagramOrder, ToRemoteInOrder

\* recvLoop takes the oldest in the socket.
LEMMA DatagramTaken ==
  ASSUME Inv, DatagramOrder, KernelRecvFrom
  PROVE  DatagramOrder'
<1>0. /\ inbox \in Seq(Datagrams) /\ recv \in Receivers /\ UNCHANGED <<appLog, toRemote>>
  BY CoreOfInv DEF Core, Inv, TypeOK, KernelRecvFrom
<1>1. CASE recv' = Returns(recv, -1) /\ UNCHANGED inbox
  <2>1. recv'.pc = "recvfrom" /\ recv'.res = -1
    BY <1>0, <1>1, RecvReturns DEF KernelRecvFrom
  <2>2. ~Held(recv')
    BY <2>1 DEF Held
  <2> QED
    BY <1>0, <1>1, <2>2 DEF DatagramOrder, ToRemoteInOrder, Numbered
<1>2. CASE /\ inbox # << >> /\ inbox' = Tail(inbox)
           /\ recv' = [Returns(recv, 1) EXCEPT !.item = Head(inbox)]
  <2>1. Returns(recv, 1) \in Receivers
    BY <1>0, RecvReturns
  <2>2. recv'.item = Head(inbox)
    BY <1>2, <2>1 DEF Receivers
  <2>3. /\ Len(inbox') = Len(inbox) - 1 /\ Len(inbox) \in Nat /\ Head(inbox) = inbox[1]
        /\ Len(inbox) > 0
        /\ \A i \in 1 .. Len(inbox') : inbox'[i] = inbox[i + 1]
    BY <1>0, <1>2, HeadTailProperties, EmptySeq
  <2>4. \A i \in 1 .. Len(inbox') : i + 1 \in 1 .. Len(inbox)
    BY <2>3
  <2>5. 1 \in 1 .. Len(inbox)
    BY <2>3
  <2>6. /\ \A i \in 1 .. Len(inbox') : Numbered(appLog, inbox'[i])
        /\ \A i, j \in 1 .. Len(inbox') : i < j => inbox'[i].id < inbox'[j].id
    BY <2>3, <2>4, SMTT(30) DEF DatagramOrder
  <2>7. /\ Numbered(appLog, recv'.item)
        /\ \A j \in 1 .. Len(inbox') : recv'.item.id < inbox'[j].id
    BY <2>2, <2>3, <2>4, <2>5 DEF DatagramOrder
  <2>8. \A d \in Dests : \A i \in 1 .. Len(toRemote[d]) :
          /\ toRemote[d][i] \in 1 .. Len(appLog)
          /\ toRemote[d][i] < recv'.item.id
          /\ \A j \in 1 .. Len(inbox') : toRemote[d][i] < inbox'[j].id
    BY <2>2, <2>3, <2>4, <2>5 DEF DatagramOrder
  <2>9. \A y : Numbered(appLog, y) <=> Numbered(appLog', y)
    BY <1>0 DEF Numbered
  <2> QED
    BY <1>0, <2>6, <2>7, <2>8, <2>9 DEF DatagramOrder, ToRemoteInOrder
<1> QED
  BY <1>1, <1>2 DEF KernelRecvFrom

\* The remote gets what recvLoop holds, which is no longer held then.
LEMMA DatagramWritten ==
  ASSUME Inv, DatagramOrder, KernelWrite
  PROVE  DatagramOrder'
<1> DEFINE d == recv.item.to
           n == recv.item.id
<1>0. /\ recv \in Receivers /\ UNCHANGED <<appLog, inbox>> /\ Held(recv)
      /\ toRemote \in [Dests -> Seq(Nat)] /\ d \in Dests /\ n \in Nat
  BY CoreOfInv DEF Core, Inv, TypeOK, Items, KernelWrite, Held, Datagrams
<1>1. ~Held(recv')
  <2>1. PICK r \in {1, -1} : recv' = Returns(recv, r)
    BY DEF KernelWrite
  <2>2. recv'.pc = "write" /\ recv'.op = "complete"
    BY <1>0, <2>1 DEF KernelWrite, Receivers, Returns
  <2> QED
    BY <2>2 DEF Held
<1>2. CASE UNCHANGED toRemote
  BY <1>0, <1>1, <1>2 DEF DatagramOrder, ToRemoteInOrder, Numbered
<1>3. CASE toRemote' = [toRemote EXCEPT ![d] = Append(@, n)]
  <2> DEFINE old == toRemote[d]
  <2>1. old \in Seq(Nat) /\ Len(old) \in Nat
    BY <1>0
  <2>2. /\ \A e \in Dests \ {d} : toRemote'[e] = toRemote[e]
        /\ toRemote'[d] = Append(old, n)
    BY <1>0, <1>3
  <2>3. /\ Len(toRemote'[d]) = Len(old) + 1 /\ toRemote'[d][Len(old) + 1] = n
        /\ \A i \in 1 .. Len(old) : toRemote'[d][i] = old[i]
    BY <1>0, <2>1, <2>2, AppendProperties
  <2>4. /\ n \in 1 .. Len(appLog) /\ appLog[n] = d
        /\ \A j \in 1 .. Len(inbox) : n < inbox[j].id
        /\ \A i \in 1 .. Len(old) : old[i] < n
    BY <1>0 DEF DatagramOrder, Numbered
  <2>5. ASSUME NEW e \in Dests
        PROVE  /\ \A i, j \in 1 .. Len(toRemote'[e]) : i < j => toRemote'[e][i] < toRemote'[e][j]
               /\ \A i \in 1 .. Len(toRemote'[e]) :
                    /\ toRemote'[e][i] \in 1 .. Len(appLog)
                    /\ appLog[toRemote'[e][i]] = e
                    /\ \A j \in 1 .. Len(inbox) : toRemote'[e][i] < inbox[j].id
    <3>1. CASE e # d
      BY <2>2, <3>1 DEF DatagramOrder, ToRemoteInOrder
    <3>2. CASE e = d
      <4>1. /\ \A i, j \in 1 .. Len(old) : i < j => old[i] < old[j]
            /\ \A i \in 1 .. Len(old) :
                 /\ old[i] \in 1 .. Len(appLog) /\ appLog[old[i]] = d
                 /\ \A j \in 1 .. Len(inbox) : old[i] < inbox[j].id
        BY <1>0 DEF DatagramOrder, ToRemoteInOrder
      <4> HIDE DEF d, n, old
      <4> DEFINE new == toRemote'[d]
      <4>2. ASSUME NEW i \in 1 .. Len(new)
            PROVE  \/ i \in 1 .. Len(old) /\ new[i] = old[i]
                   \/ i = Len(old) + 1 /\ new[i] = n
        BY <2>1, <2>3
      <4>3. \A i \in 1 .. Len(new) :
              /\ new[i] \in 1 .. Len(appLog) /\ appLog[new[i]] = d
              /\ \A j \in 1 .. Len(inbox) : new[i] < inbox[j].id
        BY <2>4, <4>1, <4>2
      <4>4. ASSUME NEW i \in 1 .. Len(new), NEW j \in 1 .. Len(new), i < j
            PROVE  new[i] < new[j]
        <5>1. i \in 1 .. Len(old) /\ new[i] = old[i]
          BY <2>1, <2>3, <4>2, <4>4
        <5>2. j \in 1 .. Len(old) => old[i] < old[j]
          BY <4>1, <4>4, <5>1
        <5> QED
          BY <2>4, <4>2, <5>1, <5>2
      <4> QED
        BY <3>2, <4>3, <4>4
    <3> QED
      BY <3>1, <3>2
  <2>6. \A y : Numbered(appLog, y) <=> Numbered(appLog', y)
    BY <1>0 DEF Numbered
  <2> QED
    BY <1>0, <1>1, <2>5, <2>6 DEF DatagramOrder, ToRemoteInOrder
<1> QED
  BY <1>2, <1>3 DEF KernelWrite

\* The other steps hold nothing new.
LEMMA DatagramKept ==
  ASSUME DatagramOrder, UNCHANGED <<appLog, inbox, toRemote>>,
         Held(recv') => Held(recv) /\ recv'.item = recv.item
  PROVE  DatagramOrder'
<1>1. Held(recv') =>
       /\ Numbered(appLog, recv'.item)
       /\ \A j \in 1 .. Len(inbox) : recv'.item.id < inbox[j].id
       /\ \A d \in Dests : \A i \in 1 .. Len(toRemote[d]) : toRemote[d][i] < recv'.item.id
  BY DEF DatagramOrder
<1> QED
  BY <1>1 DEF DatagramOrder, ToRemoteInOrder

\* Only a recvfrom or a write that completes changes what recvLoop holds.
LEMMA HeldKept ==
  ASSUME Inv, [Next]_vars, ~KernelRecvFrom, ~KernelWrite
  PROVE  Held(recv') => Held(recv) /\ recv'.item = recv.item
<1>0. recv \in Receivers
  BY CoreOfInv DEF Core
<1> DEFINE c == [recv EXCEPT !.op = Cancelled(@)]
<1>a. ~Held(Done) /\ ~Held(Posted("recvfrom", None))
  BY DEF Held, Done, Posted
<1>b. Held(c) => Held(recv) /\ c.item = recv.item
  <2>1. c.pc = recv.pc /\ c.item = recv.item /\ c.res = recv.res
        /\ c.op = Cancelled(recv.op)
    BY <1>0 DEF Receivers
  <2> QED
    BY <2>1 DEF Held, Cancelled
<1>c. ASSUME NEW r, Stop(r) \/ recv' = r PROVE recv' = r
  BY <1>c DEF Stop
<1>d. RecvAgain => recv' \in {Done, Posted("recvfrom", None)}
  BY DEF RecvAgain, Stop
<1>1. CASE recv' \in {recv, Done, Posted("recvfrom", None), c}
  BY <1>1, <1>a, <1>b
<1>2. CASE Held(recv) /\ \E p \in {"write", "handshake"} : recv' = Posted(p, recv.item)
  BY <1>2 DEF Posted
<1>3. CASE OnRecvFrom
  <2>1. CASE recv.res >= 0 /\ recv' = Posted(IF session[recv.item.to].alive THEN "write" ELSE "handshake",
                                             recv.item)
    <3>1. Held(recv)
      BY <1>3, <2>1 DEF OnRecvFrom, Held
    <3> QED
      BY <1>2, <2>1, <3>1
  <2> QED
    BY <1>1, <1>3, <1>c, <1>d, <2>1 DEF OnRecvFrom
<1>4. CASE OnHandshake
  <2>1. Held(recv)
    BY <1>4 DEF OnHandshake, Held
  <2> QED
    BY <1>1, <1>2, <1>4, <1>d, <2>1 DEF OnHandshake
<1>5. CASE OnFrameWritten
  BY <1>1, <1>5, <1>d DEF OnFrameWritten
<1>6. CASE KernelHandshake
  <2>1. PICK n \in {1, -1} : recv' = Returns(recv, n)
    BY <1>6 DEF KernelHandshake
  <2>2. recv'.item = recv.item
    BY <1>0, <2>1 DEF Receivers, Returns
  <2> QED
    BY <1>6, <2>2 DEF KernelHandshake, Held
<1>7. CASE ControlEnds
  BY <1>1, <1>7, <1>c DEF ControlEnds
<1>8. CASE \E d \in Dests : OnOutRead(d)
  BY <1>1, <1>8 DEF OnOutRead, OutTaskEnds
<1>9. CASE Destroy
  BY <1>1, <1>9 DEF Destroy
<1> QED
  BY <1>1, <1>3, <1>4, <1>5, <1>6, <1>7, <1>8, <1>9
  DEF Next, vars, Relay, Kernel, OnEvent, KernelOutRead, KernelEvent,
      AppSends, RemoteSends, RemoteEnds, loops

\* Every step keeps the order of the datagrams.
LEMMA DatagramStep == Inv /\ DatagramOrder /\ [Next]_vars => DatagramOrder'
<1> SUFFICES ASSUME Inv, DatagramOrder, [Next]_vars PROVE DatagramOrder'
  OBVIOUS
<1>1. CASE KernelRecvFrom \/ KernelWrite \/ \E x \in Dests \cup {"bad"} : AppSends(x)
  BY <1>1, DatagramTaken, DatagramWritten, DatagramSent
<1>2. CASE ~(KernelRecvFrom \/ KernelWrite \/ \E x \in Dests \cup {"bad"} : AppSends(x))
  <2>1. UNCHANGED <<appLog, inbox, toRemote>>
    BY <1>2 DEF Next, vars, Relay, Kernel, OnRecvFrom, OnHandshake, OnFrameWritten,
       OnOutRead, OnEvent, ControlEnds, Destroy, KernelHandshake, KernelOutRead,
       KernelEvent, RemoteSends, RemoteEnds, outside
  <2> QED
    BY <1>2, <2>1, HeldKept, DatagramKept
<1> QED
  BY <1>1, <1>2
-----------------------------------------------------------------------------
(* The order of the remotes' frames.                                        *)

\* Of one remote that is read in step, r comes before q; r has been cut already.
Before(sk, r, q) == r.from = q.from => r.id < q.id \/ sk[r.from]
Cut(nx, sk, r) == r.id < nx[r.from] \/ sk[r.from]

\* A read in hand.
InHand(s) == IF s.op = "complete" THEN s.res ELSE 0

\* What is queued is in order, all of it cut before the frame that the out-task
\* expects.
ReplyOrder ==
  /\ \A i, j \in 1 .. Len(queue) : i < j => Before(skewed, queue[i], queue[j])
  /\ \A j \in 1 .. Len(queue) : Cut(next, skewed, queue[j])

\* The accounts of one session: what is cut, waits in the socket or has just been
\* read is no more than the remote has sent, so that a new session can begin with
\* the remote's next frame.
Accounts ==
  /\ \A d \in Dests : session[d].op = "complete" => session[d].res >= 0
  /\ \A d \in Dests :
       ~skewed[d] => 2 * (next[d] - 1) + units[d] + InHand(session[d]) <= 2 * frames[d]

\* No frame has been sent yet.
LEMMA ReplyInit == Init => ReplyOrder /\ Accounts
<1> SUFFICES ASSUME Init PROVE ReplyOrder /\ Accounts
  OBVIOUS
<1>1. queue = << >>
  BY DEF Init
<1>2. \A d \in Dests : /\ session[d] = NoSession /\ next[d] = 1 /\ units[d] = 0
                       /\ frames[d] = 0
  BY DEF Init
<1>3. NoSession.op # "complete" /\ InHand(NoSession) = 0
  BY UdpRelayAssumption DEF NoSession, InHand
<1>4. \A d \in Dests : session[d].op # "complete" /\ InHand(session[d]) = 0
  BY <1>2, <1>3
<1> QED
  BY <1>1, <1>2, <1>4 DEF ReplyOrder, Accounts

\* A session that reads no more has nothing in hand.
LEMMA Released ==
  ASSUME Inv, Accounts, UNCHANGED <<next, units, skewed, frames>>,
         \A d \in Dests : \/ session'[d].op # "complete"
                          \/ session'[d].op = session[d].op /\ session'[d].res = session[d].res
  PROVE  Accounts'
<1>1. \A d \in Dests : next[d] \in Nat /\ units[d] \in Nat /\ frames[d] \in Nat
  BY DEF Inv, TypeOK
<1> SUFFICES ASSUME NEW d \in Dests
             PROVE  /\ session'[d].op = "complete" => session'[d].res >= 0
                    /\ ~skewed[d] => 2 * (next[d] - 1) + units[d] + InHand(session'[d]) <= 2 * frames[d]
  BY DEF Accounts
<1>2. session[d].res \in Int
  BY CoreOfInv DEF Core, Session
<1>3. CASE session'[d].op = session[d].op /\ session'[d].res = session[d].res
  <2>1. InHand(session'[d]) = InHand(session[d])
    BY <1>3 DEF InHand
  <2> QED
    BY <1>3, <2>1 DEF Accounts
<1>4. CASE session'[d].op # "complete"
  <2>1. InHand(session'[d]) = 0 /\ InHand(session[d]) \in Nat
    BY <1>2, <1>4 DEF InHand, Accounts
  <2> QED
    BY <1>1, <1>4, <2>1 DEF Accounts
<1> QED
  BY <1>3, <1>4

\* stop() lets go of all of them.
LEMMA ReleasedByStop ==
  ASSUME Inv, Accounts, UNCHANGED <<next, units, skewed, frames>>, NEW r \in Receivers,
         Stop(r)
  PROVE  Accounts'
<1>1. \A d \in Dests : session'[d].op # "complete"
  BY StopTypes, UdpRelayAssumption
<1>2. \A d \in Dests : \/ session'[d].op # "complete"
                       \/ session'[d].op = session[d].op /\ session'[d].res = session[d].res
  BY <1>1
<1>3. UNCHANGED <<next, units, skewed, frames>>
  OBVIOUS
<1> QED
  BY <1>2, <1>3, Released

\* The head of recvLoop leaves the accounts in order.
LEMMA ReleasedAgain ==
  ASSUME Inv, Accounts, UNCHANGED <<next, units, skewed, frames>>, RecvAgain
  PROVE  Accounts'
<1>1. Done \in Receivers
  BY DEF Receivers, Done
<1>2. CASE closed
  BY <1>1, <1>2, ReleasedByStop DEF RecvAgain
<1>3. CASE ~closed
  BY <1>3, Released DEF RecvAgain
<1> QED
  BY <1>2, <1>3

\* A new session owes nothing of what the old one had not read.
LEMMA NewAccounts ==
  ASSUME Inv, Accounts, OnHandshake
  PROVE  Accounts'
<1>0. UNCHANGED <<skewed, frames>> /\ recv.item.to \in Dests
      /\ session \in [Dests -> Session]
  BY CoreOfInv DEF Core, Items, OnHandshake
<1>1. CASE RecvAgain /\ UNCHANGED <<units, next>>
  BY <1>0, <1>1, ReleasedAgain
<1>2. CASE LET d == recv.item.to
           IN  /\ session' = [session EXCEPT ![d] = NewSession]
               /\ units' = [units EXCEPT ![d] = 0]
               /\ next' = [next EXCEPT ![d] = frames[d] + 1]
  <2> DEFINE d == recv.item.to
  <2>1. NewSession.op # "complete"
    BY UdpRelayAssumption DEF NewSession, NoSession
  <2>2. InHand(NewSession) = 0
    BY <2>1 DEF InHand
  <2>3. /\ session'[d] = NewSession /\ units'[d] = 0 /\ next'[d] = frames[d] + 1
        /\ frames[d] \in Nat
        /\ \A e \in Dests \ {d} : /\ session'[e] = session[e] /\ units'[e] = units[e]
                                  /\ next'[e] = next[e]
    BY <1>0, <1>2 DEF Inv, TypeOK
  <2> HIDE DEF d
  <2>4. 2 * (next'[d] - 1) + units'[d] + InHand(session'[d]) <= 2 * frames'[d]
    BY <1>0, <2>2, <2>3
  <2> SUFFICES ASSUME NEW e \in Dests
               PROVE  /\ session'[e].op = "complete" => session'[e].res >= 0
                      /\ ~skewed'[e] => 2 * (next'[e] - 1) + units'[e] + InHand(session'[e])
                                        <= 2 * frames'[e]
    BY DEF Accounts, InHand
  <2>5. CASE e = d
    BY <2>1, <2>3, <2>4, <2>5
  <2>6. CASE e # d
    BY <1>0, <2>3, <2>6 DEF Accounts
  <2> QED
    BY <2>5, <2>6
<1> QED
  BY <1>1, <1>2 DEF OnHandshake

\* What is read is taken from the socket, and what is cut from what was read.
LEMMA ReadAccounts ==
  ASSUME Inv, Accounts, NEW d \in Dests, OnOutRead(d) \/ KernelOutRead(d) \/ RemoteSends(d)
  PROVE  Accounts'
<1>0. /\ session \in [Dests -> Session] /\ session[d].res \in Int
      /\ frames \in [Dests -> Nat] /\ units \in [Dests -> Nat] /\ next \in [Dests -> Nat]
      /\ skewed \in [Dests -> BOOLEAN]
  BY CoreOfInv DEF Core, Session, Inv, TypeOK
<1>s. ASSUME \A e \in Dests \ {d} : /\ session'[e] = session[e] /\ units'[e] = units[e]
                                    /\ next'[e] = next[e] /\ frames'[e] = frames[e]
                                    /\ ~skewed'[e] => ~skewed[e],
             session'[d].op = "complete" => session'[d].res >= 0,
             ~skewed'[d] => 2 * (next'[d] - 1) + units'[d] + InHand(session'[d]) <= 2 * frames'[d]
      PROVE  Accounts'
  <2> SUFFICES ASSUME NEW e \in Dests
               PROVE  /\ session'[e].op = "complete" => session'[e].res >= 0
                      /\ ~skewed'[e] => 2 * (next'[e] - 1) + units'[e] + InHand(session'[e])
                                        <= 2 * frames'[e]
    BY DEF Accounts, InHand
  <2>1. CASE e # d
    <3>1. /\ session'[e] = session[e] /\ units'[e] = units[e] /\ next'[e] = next[e]
          /\ frames'[e] = frames[e] /\ (~skewed'[e] => ~skewed[e])
      <4>1. e \in Dests \ {d}
        BY <2>1
      <4> QED
        BY <1>s, <4>1, Zenon
    <3>2. /\ session[e].op = "complete" => session[e].res >= 0
          /\ ~skewed[e] => 2 * (next[e] - 1) + units[e] + InHand(session[e]) <= 2 * frames[e]
      BY DEF Accounts
    <3> QED
      BY <3>1, <3>2
  <2> QED
    BY <1>s, <2>1
<1>1. CASE OnOutRead(d)
  <2>0. UNCHANGED <<units, frames>> /\ session[d].op = "complete"
    BY <1>1 DEF OnOutRead, outside
  <2>1. CASE OutTaskEnds(d)
    <3>1. /\ UNCHANGED <<next, skewed>>
          /\ session' = [session EXCEPT ![d] = CloseSession([@ EXCEPT !.op = None], None)]
      BY <2>1 DEF OutTaskEnds
    <3> DEFINE o == [session[d] EXCEPT !.op = None]
    <3>2. o.op = None /\ o \in Session
      BY <1>0, SessionStates DEF Session
    <3>3. CloseSession(o, None).op = None
      BY <3>2 DEF CloseSession, Session
    <3>4. session'[d] = CloseSession(o, None)
      BY <1>0, <3>1
    <3>5. \A e \in Dests \ {d} : session'[e] = session[e]
      BY <1>0, <3>1
    <3>6. \A e \in Dests : \/ session'[e].op # "complete"
                           \/ session'[e].op = session[e].op /\ session'[e].res = session[e].res
      <4>1. session'[d].op # "complete"
        BY <3>3, <3>4, UdpRelayAssumption
      <4> QED
        BY <3>5, <4>1, Zenon
    <3> QED
      BY <2>0, <3>1, <3>6, Released
  <2>2. CASE /\ session[d].res > 0
             /\ \E ids \in Parses(d, session[d].res) : next' = [next EXCEPT ![d] = @ + Len(ids)]
             /\ skewed' = [skewed EXCEPT ![d] = @ \/ session[d].res % 2 = 1]
             /\ session' = [session EXCEPT ![d].op = "posted", ![d].res = 0]
    <3> DEFINE n == session[d].res
    <3>1. n \in Nat
      BY <1>0, <2>2
    <3>2. PICK ids \in Parses(d, n) : next' = [next EXCEPT ![d] = @ + Len(ids)]
      BY <2>2
    <3>3. ~skewed'[d] => ~skewed[d]
      BY <1>0, <2>2, Zenon
    <3>4. ~skewed[d] => Len(ids) = n \div 2
      BY <3>1, <3>2, ParsesType
    <3>5. session'[d].op = "posted"
      BY <1>0, <2>2 DEF Session
    <3>6. InHand(session'[d]) = 0 /\ InHand(session[d]) = n
      BY <2>0, <3>5 DEF InHand
    <3>7. next'[d] = next[d] + Len(ids)
      BY <1>0, <3>2
    <3>8. 2 * (n \div 2) <= n
      BY <3>1
    <3>9. ~skewed[d] => 2 * (next[d] - 1) + units[d] + n <= 2 * frames[d]
      BY <3>6 DEF Accounts
    <3> HIDE DEF n
    <3>10. ~skewed'[d] => 2 * (next'[d] - 1) + units'[d] + InHand(session'[d]) <= 2 * frames'[d]
      BY <1>0, <2>0, <3>1, <3>3, <3>4, <3>6, <3>7, <3>8, <3>9
    <3>11. \A e \in Dests \ {d} : /\ session'[e] = session[e] /\ next'[e] = next[e]
                                  /\ skewed'[e] = skewed[e]
      BY <1>0, <2>2, <3>2
    <3> QED
      BY <1>s, <2>0, <3>5, <3>10, <3>11
  <2> QED
    BY <1>1, <2>1, <2>2 DEF OnOutRead
<1>2. CASE KernelOutRead(d)
  <2>1. PICK n \in Nat : /\ session' = [session EXCEPT ![d].op = "complete", ![d].res = n]
                         /\ n <= units[d] /\ units' = [units EXCEPT ![d] = @ - n]
    <3>1. CASE session' = [session EXCEPT ![d].op = "complete", ![d].res = 0] /\ UNCHANGED units
      <4>1. units[d] - 0 = units[d] /\ 0 <= units[d]
        BY <1>0
      <4>2. units' = [units EXCEPT ![d] = units[d] - 0]
        BY <1>0, <3>1, <4>1
      <4> QED
        BY <3>1, <4>1, <4>2
    <3> QED
      BY <1>0, <1>2, <3>1 DEF KernelOutRead
  <2>2. /\ session'[d].op = "complete" /\ session'[d].res = n
        /\ units'[d] = units[d] - n
        /\ \A e \in Dests \ {d} : session'[e] = session[e] /\ units'[e] = units[e]
    BY <1>0, <2>1 DEF Session
  <2>3. InHand(session[d]) = 0 /\ InHand(session'[d]) = n
    BY <1>2, <2>2 DEF InHand, KernelOutRead
  <2>4. UNCHANGED <<next, frames, skewed>>
    BY <1>2 DEF KernelOutRead
  <2>5. ~skewed[d] => 2 * (next[d] - 1) + units[d] <= 2 * frames[d]
    BY <1>0, <2>3 DEF Accounts
  <2>6. ~skewed'[d] => 2 * (next'[d] - 1) + units'[d] + InHand(session'[d]) <= 2 * frames'[d]
    BY <1>0, <2>2, <2>3, <2>4, <2>5
  <2> QED
    BY <1>s, <2>2, <2>4, <2>6
<1>3. CASE RemoteSends(d)
  <2>1. /\ UNCHANGED <<session, next, skewed>>
        /\ frames' = [frames EXCEPT ![d] = @ + 1] /\ units' = [units EXCEPT ![d] = @ + 2]
    BY <1>3 DEF RemoteSends, loops
  <2>2. InHand(session[d]) \in Int
    BY <1>0 DEF InHand
  <2>3. /\ frames'[d] = frames[d] + 1 /\ units'[d] = units[d] + 2
        /\ \A e \in Dests \ {d} : frames'[e] = frames[e] /\ units'[e] = units[e]
    BY <1>0, <2>1
  <2>4. ~skewed[d] => 2 * (next[d] - 1) + units[d] + InHand(session[d]) <= 2 * frames[d]
    BY DEF Accounts
  <2>5. ~skewed'[d] => 2 * (next'[d] - 1) + units'[d] + InHand(session'[d]) <= 2 * frames'[d]
    BY <1>0, <2>1, <2>2, <2>3, <2>4
  <2> QED
    BY <1>s, <2>1, <2>3, <2>5 DEF Accounts
<1> QED
  BY <1>1, <1>2, <1>3

\* Every step does.
LEMMA AccountsStep == Inv /\ Accounts /\ [Next]_vars => Accounts'
<1> SUFFICES ASSUME Inv, Accounts, [Next]_vars PROVE Accounts'
  OBVIOUS
<1>0. session \in [Dests -> Session] /\ recv \in Receivers /\ HasItem(recv)
  BY CoreOfInv DEF Core, Items, HasItem
<1>d. Done \in Receivers
  BY DEF Receivers, Done
<1>1. CASE OnRecvFrom
  <2>1. UNCHANGED <<next, units, skewed, frames>>
    BY <1>1 DEF OnRecvFrom, outside
  <2>2. CASE UNCHANGED session
    BY <2>1, <2>2, Released
  <2> QED
    BY <1>1, <1>d, <2>1, <2>2, ReleasedByStop, ReleasedAgain DEF OnRecvFrom
<1>2. CASE OnHandshake
  BY <1>2, NewAccounts
<1>3. CASE OnFrameWritten
  <2>1. UNCHANGED <<next, units, skewed, frames>>
    BY <1>3 DEF OnFrameWritten, outside
  <2>2. CASE session' = [session EXCEPT ![recv.item.to] = CloseSession(@, Cancelled(@.op))]
    <3> DEFINE d == recv.item.to
               c == CloseSession(session[d], Cancelled(session[d].op))
    <3>1. d \in Dests /\ session[d] \in Session
      BY <1>0, <1>3 DEF OnFrameWritten, HasItem
    <3>2. c.op # "complete" \/ (c.op = session[d].op /\ c.res = session[d].res)
      BY <3>1 DEF CloseSession, Cancelled, Session
    <3>3. /\ session'[d] = c
          /\ \A e \in Dests \ {d} : session'[e] = session[e]
      BY <1>0, <2>2, <3>1
    <3> HIDE DEF c, d
    <3>4. \A e \in Dests : \/ session'[e].op # "complete"
                           \/ session'[e].op = session[e].op /\ session'[e].res = session[e].res
      BY <3>2, <3>3, Zenon
    <3> QED
      BY <2>1, <3>4, Released
  <2> QED
    BY <1>3, <2>1, <2>2, ReleasedAgain DEF OnFrameWritten
<1>4. CASE ControlEnds
  <2>1. PICK r \in {recv, [recv EXCEPT !.op = Cancelled(@)]} : Stop(r)
    BY <1>4 DEF ControlEnds
  <2>2. UNCHANGED <<next, units, skewed, frames>>
    BY <1>4 DEF ControlEnds, outside
  <2> QED
    BY <2>1, <2>2, CancelledCore, ReleasedByStop
<1>5. CASE Destroy
  <2>1. session' = [d \in Dests |-> [session[d] EXCEPT !.op = None]]
        /\ UNCHANGED <<next, units, skewed, frames>>
    BY <1>5 DEF Destroy, outside
  <2>2. ASSUME NEW d \in Dests PROVE session'[d].op # "complete"
    BY <1>0, <2>1, UdpRelayAssumption DEF Session
  <2> QED
    BY <2>1, <2>2, Released
<1>6. CASE \E d \in Dests : OnOutRead(d) \/ KernelOutRead(d) \/ RemoteSends(d)
  BY <1>6, ReadAccounts
<1>7. CASE UNCHANGED <<session, next, units, skewed, frames>>
  BY <1>7, Released
<1> QED
  BY <1>1, <1>2, <1>3, <1>4, <1>5, <1>6, <1>7
  DEF Next, vars, Relay, Kernel, OnEvent, KernelRecvFrom, KernelHandshake,
      KernelWrite, KernelEvent, AppSends, RemoteEnds, loops, outside

\* The frame expected only moves on, and what is out of step remains so.
LEMMA Monotone ==
  ASSUME Inv, Accounts, [Next]_vars, NEW d \in Dests
  PROVE  skewed'[d] \/ (~skewed[d] /\ next[d] <= next'[d])
<1>0. /\ next \in [Dests -> Nat] /\ skewed \in [Dests -> BOOLEAN]
      /\ units[d] \in Nat /\ frames[d] \in Nat /\ session[d].res \in Int
      /\ session \in [Dests -> Session]
  BY CoreOfInv DEF Core, Session, Inv, TypeOK
<1>1. CASE OnHandshake
  <2>1. UNCHANGED skewed /\ (next' = next \/ next' = [next EXCEPT ![recv.item.to] = frames[recv.item.to] + 1])
    BY <1>1 DEF OnHandshake
  <2>2. ~skewed[d] => next[d] <= frames[d] + 1
    BY <1>0 DEF Accounts, InHand
  <2> QED
    BY <1>0, <2>1, <2>2
<1>2. CASE \E e \in Dests : OnOutRead(e)
  <2>1. PICK e \in Dests : OnOutRead(e)
    BY <1>2
  <2>2. CASE UNCHANGED <<next, skewed>>
    BY <1>0, <2>2
  <2>3. CASE /\ session[e].res > 0
             /\ \E ids \in Parses(e, session[e].res) : next' = [next EXCEPT ![e] = @ + Len(ids)]
             /\ skewed' = [skewed EXCEPT ![e] = @ \/ session[e].res % 2 = 1]
    <3>0. session[e].res \in Nat
      BY <1>0, <2>3 DEF Session
    <3>1. PICK ids \in Parses(e, session[e].res) : next' = [next EXCEPT ![e] = @ + Len(ids)]
      BY <2>3
    <3>2. Len(ids) \in Nat
      BY <3>0, <3>1, ParsesType
    <3>3. next[d] <= next'[d]
      BY <1>0, <3>1, <3>2
    <3>4. skewed[d] => skewed'[d]
      BY <1>0, <2>3, Zenon
    <3> QED
      BY <1>0, <3>3, <3>4
  <2> QED
    BY <2>1, <2>2, <2>3 DEF OnOutRead, OutTaskEnds
<1>3. CASE UNCHANGED <<next, skewed>>
  BY <1>0, <1>3
<1> QED
  BY <1>1, <1>2, <1>3
  DEF Next, vars, Relay, Kernel, OnRecvFrom, OnFrameWritten, OnEvent,
      ControlEnds, Destroy, KernelRecvFrom, KernelHandshake, KernelWrite, KernelOutRead,
      KernelEvent, AppSends, RemoteSends, RemoteEnds

\* Frames that are in order, or cut, stay so: next only grows, or is moved on.
LEMMA Related ==
  ASSUME Inv, Accounts, [Next]_vars
  PROVE  /\ \A r, q \in Replies : Before(skewed, r, q) => Before(skewed', r, q)
         /\ \A r \in Replies : Cut(next, skewed, r) => Cut(next', skewed', r)
<1>1. ASSUME NEW r \in Replies, NEW q \in Replies, Before(skewed, r, q)
      PROVE  Before(skewed', r, q)
  <2>1. r.from \in Dests
    BY DEF Replies
  <2>2. skewed[r.from] => skewed'[r.from]
    BY <2>1, Monotone
  <2> QED
    BY <1>1, <2>2 DEF Before
<1>2. ASSUME NEW r \in Replies, Cut(next, skewed, r) PROVE Cut(next', skewed', r)
  <2>1. r.from \in Dests /\ r.id \in Nat /\ next[r.from] \in Nat /\ next'[r.from] \in Nat
    BY FrameTypes DEF Replies, Inv, TypeOK
  <2>2. skewed'[r.from] \/ (~skewed[r.from] /\ next[r.from] <= next'[r.from])
    BY <2>1, Monotone
  <2> QED
    BY <1>2, <2>1, <2>2 DEF Cut
<1> QED
  BY <1>1, <1>2

\* Whatever is queued is a reply.
LEMMA Elements ==
  ASSUME Inv
  PROVE  /\ queue \in Seq(Replies) /\ Len(queue) \in Nat
         /\ \A j \in 1 .. Len(queue) : queue[j] \in Replies
<1>1. queue \in Seq(Replies)
  BY DEF Inv, TypeOK
<1> QED
  BY <1>1, ElementOfSeq

\* Steps that queue nothing.
LEMMA ReplyKept ==
  ASSUME Inv, Accounts, ReplyOrder, [Next]_vars, queue' = queue \/ queue' = << >>
  PROVE  ReplyOrder'
<1>1. CASE queue' = queue
  BY <1>1, Elements, Related DEF ReplyOrder
<1>2. CASE queue' = << >>
  <2>1. Len(queue') = 0
    BY <1>2
  <2> QED
    BY <2>1 DEF ReplyOrder
<1> QED
  BY <1>1, <1>2

\* An out-task queues frames after all that have been cut before.
LEMMA ReplyQueued ==
  ASSUME Inv, Accounts, ReplyOrder, [Next]_vars, NEW d \in Dests, NEW n \in Nat,
         NEW ids \in Parses(d, n),
         queue' = queue \o [i \in 1 .. Len(ids) |-> [from |-> d, id |-> ids[i]]],
         next' = [next EXCEPT ![d] = @ + Len(ids)]
  PROVE  ReplyOrder'
<1> DEFINE new == [i \in 1 .. Len(ids) |-> [from |-> d, id |-> ids[i]]]
<1>1. /\ new \in Seq(Replies) /\ Len(ids) \in Nat /\ Len(new) = Len(ids)
      /\ next[d] \in Nat /\ next'[d] = next[d] + Len(ids)
  BY ParsesType, SMTT(30) DEF Inv, TypeOK
<1>2. /\ Len(queue') = Len(queue) + Len(new)
      /\ \A i \in 1 .. Len(queue) + Len(new) :
           queue'[i] = IF i <= Len(queue) THEN queue[i] ELSE new[i - Len(queue)]
  BY <1>1, Elements, ConcatProperties
<1>3. \A k \in 1 .. Len(new) : new[k].from = d /\ new[k].id = ids[k]
  BY <1>1
<1>4. ~skewed'[d] => \A k \in 1 .. Len(new) : ids[k] = next[d] + k - 1
  <2>1. ~skewed'[d] => ~skewed[d]
    BY Monotone
  <2> QED
    BY <1>1, <2>1, ParsesType
<1> HIDE DEF new
<1>5. ASSUME NEW r \in Replies, Cut(next, skewed, r), NEW k \in 1 .. Len(new)
      PROVE  Before(skewed', r, new[k])
  <2>1. CASE r.from = d /\ ~skewed'[d]
    <3>1. ~skewed[d]
      BY <2>1, Monotone
    <3>2. r.id < next[d] /\ r.id \in Nat
      BY <1>5, <2>1, <3>1 DEF Cut, Replies
    <3> QED
      BY <1>1, <1>3, <1>4, <2>1, <3>2 DEF Before
  <2>2. CASE ~(r.from = d /\ ~skewed'[d])
    BY <1>3, <2>2 DEF Before
  <2> QED
    BY <2>1, <2>2
<1>6. ASSUME NEW k \in 1 .. Len(new) PROVE Cut(next', skewed', new[k])
  BY <1>1, <1>3, <1>4 DEF Cut
<1>7. ASSUME NEW k \in 1 .. Len(new), NEW l \in 1 .. Len(new), k < l
      PROVE  Before(skewed', new[k], new[l])
  BY <1>1, <1>3, <1>4, <1>7 DEF Before
<1>8. ASSUME NEW i \in 1 .. Len(queue')
      PROVE  \/ i \in 1 .. Len(queue) /\ queue'[i] = queue[i]
             \/ i - Len(queue) \in 1 .. Len(new) /\ queue'[i] = new[i - Len(queue)]
  <2>1. /\ Len(queue) \in Nat /\ Len(new) \in Nat /\ i \in 1 .. Len(queue) + Len(new)
        /\ queue'[i] = IF i <= Len(queue) THEN queue[i] ELSE new[i - Len(queue)]
    BY <1>1, <1>2, Elements
  <2>2. CASE i <= Len(queue)
    BY <2>1, <2>2
  <2>3. CASE ~(i <= Len(queue))
    <3>1. i - Len(queue) \in 1 .. Len(new)
      BY <2>1, <2>3
    <3> QED
      BY <2>1, <2>3, <3>1
  <2> QED
    BY <2>2, <2>3
<1>9. ASSUME NEW i \in 1 .. Len(queue'), NEW j \in 1 .. Len(queue'), i < j
      PROVE  Before(skewed', queue'[i], queue'[j])
  <2>1. CASE i \in 1 .. Len(queue) /\ j \in 1 .. Len(queue)
    <3>1. Before(skewed, queue[i], queue[j])
      BY <1>9, <2>1 DEF ReplyOrder
    <3>2. queue'[i] = queue[i] /\ queue'[j] = queue[j]
      BY <1>1, <1>2, <2>1, Elements
    <3> QED
      BY <2>1, <3>1, <3>2, Elements, Related
  <2>2. CASE i \in 1 .. Len(queue) /\ j \notin 1 .. Len(queue)
    <3>1. Cut(next, skewed, queue[i]) /\ queue[i] \in Replies
      BY <2>2, Elements DEF ReplyOrder
    <3>2. queue'[i] = queue[i]
      BY <1>1, <1>2, <2>2, Elements
    <3> QED
      BY <1>5, <1>8, <2>2, <3>1, <3>2
  <2>3. CASE i \notin 1 .. Len(queue)
    <3> DEFINE k == i - Len(queue)
               l == j - Len(queue)
    <3>1. k \in 1 .. Len(new) /\ queue'[i] = new[k]
      BY <1>8, <2>3
    <3>2. j \notin 1 .. Len(queue)
      BY <1>9, <2>3, <3>1, Elements
    <3>3. l \in 1 .. Len(new) /\ queue'[j] = new[l]
      BY <1>8, <3>2
    <3>4. k < l
      BY <1>1, <1>2, <1>9, Elements
    <3> HIDE DEF k, l
    <3> QED
      BY <1>7, <3>1, <3>3, <3>4
  <2> QED
    BY <2>1, <2>2, <2>3
<1>10. ASSUME NEW j \in 1 .. Len(queue') PROVE Cut(next', skewed', queue'[j])
  <2>1. CASE j \in 1 .. Len(queue) /\ queue'[j] = queue[j]
    BY <2>1, Elements, Related DEF ReplyOrder
  <2>2. CASE j - Len(queue) \in 1 .. Len(new) /\ queue'[j] = new[j - Len(queue)]
    BY <1>6, <2>2
  <2> QED
    BY <1>8, <2>1, <2>2
<1> QED
  BY <1>9, <1>10 DEF ReplyOrder

\* Every step keeps the order of the frames.
LEMMA ReplyStep == Inv /\ Accounts /\ ReplyOrder /\ [Next]_vars => ReplyOrder'
<1> SUFFICES ASSUME Inv, Accounts, ReplyOrder, [Next]_vars PROVE ReplyOrder'
  OBVIOUS
<1>1. CASE \E d \in Dests : OnOutRead(d)
  <2>1. PICK d \in Dests : OnOutRead(d)
    BY <1>1
  <2>2. CASE UNCHANGED queue
    BY <2>2, ReplyKept
  <2>3. CASE /\ session[d].res > 0
             /\ \E ids \in Parses(d, session[d].res) :
                  Enqueue(d, ids) /\ next' = [next EXCEPT ![d] = @ + Len(ids)]
    <3>1. session[d].res \in Nat
      BY <2>3, CoreOfInv DEF Core, Session
    <3>2. PICK ids \in Parses(d, session[d].res) :
            Enqueue(d, ids) /\ next' = [next EXCEPT ![d] = @ + Len(ids)]
      BY <2>3
    <3> QED
      BY <3>1, <3>2, ReplyQueued DEF Enqueue
  <2> QED
    BY <2>1, <2>2, <2>3 DEF OnOutRead, OutTaskEnds
<1>2. CASE ~\E d \in Dests : OnOutRead(d)
  <2>1. queue' = queue \/ queue' = << >>
    BY <1>2 DEF Next, vars, Relay, Kernel, OnRecvFrom, OnHandshake, OnFrameWritten,
       RecvAgain, Stop, OnEvent, ControlEnds, Destroy, KernelRecvFrom, KernelHandshake,
       KernelWrite, KernelOutRead, KernelEvent, AppSends, RemoteSends, RemoteEnds, local
  <2> QED
    BY <2>1, ReplyKept
<1> QED
  BY <1>1, <1>2

\* Whatever fails, is cancelled or stops, datagrams are neither doubled nor
\* reordered nor sent to another destination, and as long as a session has been
\* read in step its frames are queued in their order.
THEOREM DatagramsInOrder == Spec => []InOrder
<1>1. Inv /\ DatagramOrder /\ ReplyOrder => InOrder
  BY DEF DatagramOrder, ReplyOrder, Before, InOrder, QueueInOrder
<1> QED
  BY InvInit, InvStep, DatagramInit, DatagramStep, ReplyInit, ReplyStep, AccountsStep,
     <1>1, PTL DEF Spec
=============================================================================
