------------------------------ MODULE TlsStream ------------------------------
(***************************************************************************)
(* A TLS stream over a plain one (src/net/tls_stream.cpp).  OpenSSL works on *)
(* two memory BIOs, and the coroutines of a connection carry ciphertext      *)
(* between the BIOs and the socket: "in" shakes hands and then reads, "out"  *)
(* writes and closes the write side.  Both may find ciphertext in wbio, and  *)
(* a coroutine that waits for the socket leaves the BIOs to the other.  (In  *)
(* the client it is the writing coroutine that shakes hands, equally before  *)
(* the other one starts.)                                                    *)
(*                                                                          *)
(* Ciphertext is a sequence of units numbered in the order OpenSSL produces  *)
(* them; what the peer sends is a sequence of records.                       *)
(***************************************************************************)
EXTENDS Integers, Sequences

CONSTANTS
  Bite,        \* units flushWriteBio() takes out of wbio at once
  Sizes,       \* units one SSL_write() may produce: in a TCP relay at most Bite
  Flight,      \* units of the first flight of the handshake
  Limit,       \* bound: units writeFull may bring the stream to
  Data,        \* bound: records of application data the peer sends
  Updates      \* bound: records that SSL_read() answers (KeyUpdate)

ASSUME TlsAssumption ==
  /\ Bite \in Nat \ {0} /\ Flight \in Nat \ {0}
  /\ Sizes \subseteq Nat \ {0}
  /\ Limit \in Nat /\ Data \in Nat /\ Updates \in Nat

Coros == {"in", "out"}
Records == {"flight", "data", "update", "notify"}

VARIABLES
  isServer,    \* TlsStream::isServer_
  session,     \* what the connection relays: a TCP stream, or datagrams
  call,        \* the call each coroutine is in
  waits,       \* what it awaits of the inner stream
  op,          \* how far that operation is
  res,         \* its result
  chunk,       \* ciphertext given to inner_.writeFull and not yet taken
  wbio, rbio,  \* the memory BIOs; of rbio, the records not yet processed
  fed,         \* the records of a completed inner_.read
  made,        \* units OpenSSL has produced
  flights,     \* flights of the peer OpenSSL has processed
  delivered,   \* records of data returned to readers
  wrote,       \* the last unit of the call of writeFull under way
  reported,    \* the last unit writeFull has reported as written
  verdict,     \* what the last read said besides data
  sent,        \* the units the socket has accepted
  fin,         \* the inner write side is shut down
  net,         \* records on their way to the socket
  spoken,      \* records the peer has sent, by kind
  eof, dead    \* the peer has sent FIN; it has reset the connection

ssl == <<wbio, rbio, made, flights>>
user == <<delivered, wrote, reported, verdict>>
socket == <<sent, fin, fed>>
peer == <<net, spoken, eof, dead>>
fixed == <<isServer, session>>
vars == <<fixed, call, waits, op, res, chunk, ssl, user, socket, peer>>

TypeOK ==
  /\ isServer \in BOOLEAN /\ session \in {"tcp", "udp"}
  /\ call \in [Coros -> {"none", "handshake", "shaken", "read", "write", "shutdown", "ended"}]
  /\ waits \in [Coros -> {"none", "fill", "flush", "fin"}]
  /\ op \in [Coros -> {"none", "posted", "complete"}]
  /\ res \in [Coros -> Int]
  /\ chunk \in [Coros -> Seq(Nat)]
  /\ wbio \in Seq(Nat) /\ sent \in Seq(Nat)
  /\ rbio \in Seq(Records) /\ fed \in Seq(Records) /\ net \in Seq(Records)
  /\ {made, flights, delivered, wrote, reported} \subseteq Nat
  /\ verdict \in {"none", "eof", "error"}
  /\ spoken \in [Records -> Nat]
  /\ {fin, eof, dead} \subseteq BOOLEAN

Init ==
  /\ isServer \in BOOLEAN /\ session \in {"tcp", "udp"}
  /\ call = [c \in Coros |-> "none"]
  /\ waits = [c \in Coros |-> "none"]
  /\ op = [c \in Coros |-> "none"]
  /\ res = [c \in Coros |-> 0]
  /\ chunk = [c \in Coros |-> << >>]
  /\ wbio = << >> /\ rbio = << >> /\ fed = << >>
  /\ made = 0 /\ flights = 0 /\ delivered = 0 /\ wrote = 0 /\ reported = 0
  /\ verdict = "none" /\ sent = << >> /\ fin = FALSE
  /\ net = << >> /\ spoken = [k \in Records |-> 0] /\ eof = FALSE /\ dead = FALSE

-----------------------------------------------------------------------------
(* Awaiting the inner stream.                                               *)

Units(n) == [i \in 1 .. n |-> made + i]
Take(s, n) == SubSeq(s, 1, n)
Drop(s, n) == SubSeq(s, n + 1, Len(s))
Least(m, n) == IF m < n THEN m ELSE n

\* c suspends in call k until w has completed.
Await(c, k, w) ==
  /\ call' = [call EXCEPT ![c] = k]
  /\ waits' = [waits EXCEPT ![c] = w]
  /\ op' = [op EXCEPT ![c] = "posted"]
  /\ res' = [res EXCEPT ![c] = 0]

\* The call of c returns; its coroutine goes on to k.
Return(c, k) ==
  /\ call' = [call EXCEPT ![c] = k]
  /\ waits' = [waits EXCEPT ![c] = "none"]
  /\ op' = [op EXCEPT ![c] = "none"]
  /\ res' = [res EXCEPT ![c] = 0]

\* What follows flushWriteBio() in call k.
Flushed(c, k) ==
  CASE k \in {"handshake", "read"} -> Await(c, k, "fill")
    [] k \in {"shaken", "write"}   -> Return(c, "none")
    [] k = "shutdown"              -> Await(c, k, "fin")

\* writeFull returns the length: everything is written, as far as it says.
ReportWrite(k) == reported' = IF k = "write" THEN wrote ELSE reported

\* flushWriteBio() with s in wbio: the next n units go to inner_.writeFull.
FlushBite(c, k, s, n) ==
  IF s = << >>
    THEN /\ Flushed(c, k) /\ wbio' = << >> /\ ReportWrite(k)
         /\ chunk' = [chunk EXCEPT ![c] = << >>]
    ELSE /\ Await(c, k, "flush")
         /\ chunk' = [chunk EXCEPT ![c] = Take(s, n)]
         /\ wbio' = Drop(s, n)
         /\ UNCHANGED reported

\* Fault: what does not fit in the buffer is dropped.
FlushDropping(c, k, s) == LET n == Least(Bite, Len(s)) IN FlushBite(c, k, Take(s, n), n)

Flush(c, k, s) == FlushBite(c, k, s, Least(Bite, Len(s)))

\* Records of kind k at the head of s.
Leading(s, k) ==
  CHOOSE n \in 0 .. Len(s) :
    /\ \A i \in 1 .. n : s[i] = k
    /\ n < Len(s) => s[n + 1] # k

-----------------------------------------------------------------------------
(* The calls.                                                               *)

\* The handshake in TLS 1.3: flights the peer owes, and units produced once n
\* of them are processed (the server ends with its session tickets).
Owed == IF isServer THEN 2 ELSE 1
Produced(n) ==
  IF isServer THEN (IF n = 0 THEN 0 ELSE IF n = 1 THEN Flight ELSE Flight + 1)
              ELSE (IF n = 0 THEN Flight ELSE Flight + 1)

\* Fault: the handshake reads on before it flushes.
ShakeHandsUnflushed(rb) ==
  LET n == flights + Leading(rb, "flight") IN
  /\ flights' = n /\ made' = Produced(n)
  /\ rbio' = Drop(rb, n - flights)
  /\ wbio' = wbio \o Units(Produced(n) - made)
  /\ Flushed("in", IF n = Owed THEN "shaken" ELSE "handshake")
  /\ UNCHANGED <<chunk, reported>>

\* SSL_accept() or SSL_connect() with rb in rbio, and what follows it: output
\* is flushed before anything more is read.
ShakeHands(rb) ==
  LET n == flights + Leading(rb, "flight") IN
  /\ flights' = n /\ made' = Produced(n)
  /\ rbio' = Drop(rb, n - flights)
  /\ Flush("in", IF n = Owed THEN "shaken" ELSE "handshake",
           wbio \o Units(Produced(n) - made))

Handshake ==
  /\ call["in"] = "none" /\ flights = 0
  /\ ShakeHands(rbio)
  /\ UNCHANGED <<fixed, delivered, wrote, verdict, socket, peer>>

\* SSL_read() with rb in rbio, and what follows it: it answers updates, then
\* returns a record or wants more.  rest is what it leaves in rbio.
SslReadLeaving(rb, rest) ==
  LET k == Leading(rb, "update")
      s == wbio \o Units(k)
  IN  /\ made' = made + k
      /\ rbio' = rest
      /\ IF k = Len(rb)
           THEN Flush("in", "read", s) /\ UNCHANGED <<delivered, verdict>>
           ELSE /\ wbio' = s
                /\ UNCHANGED <<chunk, reported>>
                /\ IF rb[k + 1] = "data"
                     THEN /\ delivered' = delivered + 1
                          /\ Return("in", "none") /\ UNCHANGED verdict
                     ELSE /\ verdict' = "eof"
                          /\ Return("in", "ended") /\ UNCHANGED delivered

\* Fault: what follows the record returned is thrown away.
SslReadOne(rb) == SslReadLeaving(rb, << >>)

SslRead(rb) == SslReadLeaving(rb, Drop(rb, Leading(rb, "update") + 1))

Shaken == flights = Owed /\ call["in"] \notin {"handshake", "shaken"}

Read ==
  /\ call["in"] = "none" /\ Shaken
  /\ SslRead(rbio)
  /\ UNCHANGED <<fixed, flights, wrote, socket, peer>>

\* Fault: the ciphertext is left for the next flush.
FlushOutLater(k, s) ==
  /\ wbio' = s /\ Flushed("out", k)
  /\ reported' = IF k = "write" THEN made' ELSE reported
  /\ UNCHANGED chunk

FlushOut(k, s) == Flush("out", k, s)

\* SSL_write() takes the whole buffer, wbio being a memory BIO.
Write ==
  /\ call["out"] = "none" /\ Shaken
  /\ \E n \in Sizes :
       /\ made + n <= Limit
       /\ session = "tcp" => n <= Bite
       /\ made' = made + n
       /\ wrote' = made + n
       /\ FlushOut("write", wbio \o Units(n))
  /\ UNCHANGED <<fixed, rbio, flights, delivered, verdict, socket, peer>>

\* shutdownWrite(): close_notify, then the FIN of the inner stream.
ShutdownWrite ==
  /\ call["out"] = "none" /\ Shaken
  /\ made' = made + 1
  /\ FlushOut("shutdown", wbio \o Units(1))
  /\ UNCHANGED <<fixed, rbio, flights, delivered, wrote, verdict, socket, peer>>

-----------------------------------------------------------------------------
(* The event loop dispatches completions.                                   *)

\* flushWriteBio() returns false.  Only handshake() on its way and read() take
\* that for an error; writeFull has counted the bytes SSL_write() took.
FlushFailed(c, k) ==
  /\ chunk' = [chunk EXCEPT ![c] = << >>]
  /\ ReportWrite(k)
  /\ verdict' = IF k = "read" THEN "error" ELSE verdict
  /\ CASE k \in {"handshake", "read"} -> Return(c, "ended")
       [] k \in {"shaken", "write"}   -> Return(c, "none")
       [] k = "shutdown"              -> Await(c, k, "fin")
  /\ UNCHANGED wbio

\* Fault: a short send is taken for a complete one.
SendRestNot(c) == Flush(c, call[c], wbio) /\ UNCHANGED verdict

\* AsyncStream::writeFull sends the rest of a short send.
SendRest(c) ==
  /\ Await(c, call[c], "flush")
  /\ UNCHANGED <<chunk, wbio, reported, verdict>>

OnFlush(c) ==
  /\ waits[c] = "flush" /\ op[c] = "complete"
  /\ \/ res[c] > 0 /\ chunk[c] # << >> /\ SendRest(c)
     \/ res[c] > 0 /\ chunk[c] = << >> /\ Flush(c, call[c], wbio) /\ UNCHANGED verdict
     \/ res[c] <= 0 /\ FlushFailed(c, call[c])
  /\ UNCHANGED <<fixed, rbio, made, flights, delivered, wrote, socket, peer>>

\* fillReadBio() fails alike at the end of the stream and on an error, and the
\* result of the read keeps its initial value, 0.
FillFailed ==
  /\ res["in"] <= 0
  /\ Return("in", "ended")
  /\ verdict' = IF call["in"] = "read" THEN "eof" ELSE verdict
  /\ UNCHANGED <<chunk, ssl, delivered, reported>>

OnFill ==
  /\ waits["in"] = "fill" /\ op["in"] = "complete"
  /\ \/ FillFailed
     \/ /\ res["in"] > 0 /\ call["in"] = "handshake"
        /\ ShakeHands(rbio \o fed) /\ UNCHANGED <<delivered, verdict>>
     \/ /\ res["in"] > 0 /\ call["in"] = "read"
        /\ SslRead(rbio \o fed) /\ UNCHANGED flights
  /\ fed' = << >>
  /\ UNCHANGED <<fixed, wrote, sent, fin, peer>>

OnFin ==
  /\ waits["out"] = "fin" /\ op["out"] = "complete"
  /\ Return("out", "ended")
  /\ UNCHANGED <<fixed, chunk, ssl, user, socket, peer>>

-----------------------------------------------------------------------------
(* The kernel completes operations.                                         *)

Complete(c, r) ==
  /\ op' = [op EXCEPT ![c] = "complete"]
  /\ res' = [res EXCEPT ![c] = r]
  /\ UNCHANGED <<fixed, call, waits, ssl, user, spoken, eof, dead>>

KernelSend(c) ==
  /\ waits[c] = "flush" /\ op[c] = "posted"
  /\ \/ /\ dead \/ fin
        /\ Complete(c, -1) /\ UNCHANGED <<chunk, sent>>
     \/ /\ ~dead /\ ~fin
        /\ \E n \in 1 .. Len(chunk[c]) :
             /\ Complete(c, n)
             /\ sent' = sent \o Take(chunk[c], n)
             /\ chunk' = [chunk EXCEPT ![c] = Drop(@, n)]
  /\ UNCHANGED <<fin, fed, net>>

\* A recv returns what has arrived before the end of the stream or the error.
KernelFill ==
  /\ waits["in"] = "fill" /\ op["in"] = "posted"
  /\ \/ \E n \in 1 .. Len(net) :
          Complete("in", n) /\ fed' = Take(net, n) /\ net' = Drop(net, n)
     \/ net = << >> /\ eof /\ Complete("in", 0) /\ UNCHANGED <<fed, net>>
     \/ net = << >> /\ dead /\ Complete("in", -1) /\ UNCHANGED <<fed, net>>
  /\ UNCHANGED <<chunk, sent, fin>>

KernelFin ==
  /\ waits["out"] = "fin" /\ op["out"] = "posted"
  /\ Complete("out", 0) /\ fin' = TRUE
  /\ UNCHANGED <<chunk, sent, fed, net>>

-----------------------------------------------------------------------------
(* The peer.                                                                *)

Untouched == UNCHANGED <<fixed, call, waits, op, res, chunk, ssl, user, socket>>
CanSpeak == ~eof /\ ~dead /\ spoken["notify"] = 0

Speak(k) ==
  /\ CanSpeak
  /\ net' = Append(net, k)
  /\ spoken' = [spoken EXCEPT ![k] = @ + 1]
  /\ Untouched /\ UNCHANGED <<eof, dead>>

\* It answers our first flight once it has all of it.
PeerFlight ==
  /\ spoken["flight"] < Owed
  /\ \/ isServer /\ spoken["flight"] = 0
     \/ Len(sent) >= Flight
  /\ Speak("flight")

PeerSpeaks ==
  /\ spoken["flight"] = Owed
  /\ \/ spoken["data"] < Data /\ Speak("data")
     \/ spoken["update"] < Updates /\ Speak("update")
     \/ Speak("notify")

PeerEnds ==
  /\ ~dead
  /\ \/ ~eof /\ eof' = TRUE /\ UNCHANGED dead
     \/ dead' = TRUE /\ UNCHANGED eof
  /\ Untouched /\ UNCHANGED <<net, spoken>>

-----------------------------------------------------------------------------
Run(c) == OnFlush(c) \/ (c = "in" /\ OnFill) \/ (c = "out" /\ OnFin)

Kernel(c) == KernelSend(c) \/ (c = "in" /\ KernelFill) \/ (c = "out" /\ KernelFin)

Next ==
  \/ Handshake \/ Read \/ Write \/ ShutdownWrite
  \/ \E c \in Coros : Run(c) \/ Kernel(c)
  \/ PeerFlight \/ PeerSpeaks \/ PeerEnds

\* The event loop dispatches what completes and the kernel completes what can
\* complete; the connection starts the handshake, and the peer plays its part
\* in it.
Fairness ==
  /\ WF_vars(Handshake) /\ WF_vars(PeerFlight)
  /\ \A c \in Coros : WF_vars(Run(c)) /\ WF_vars(Kernel(c))

Spec == Init /\ [][Next]_vars
FairSpec == Spec /\ Fairness
-----------------------------------------------------------------------------
(* What the stream guarantees.                                              *)

\* The peer receives the ciphertext in the order OpenSSL produced it, nothing
\* missing and nothing twice: a TLS record out of its place ends the session
\* (flushWriteBio, tls_stream.cpp:206-219).
InOrder == \A i \in 1 .. Len(sent) : sent[i] = i

\* What the code does: the order is kept where only one coroutine flushes, that
\* is, where a write fits the flush buffer and reading produces no output.
InOrderAlone == session = "tcp" /\ spoken["update"] = 0 => InOrder

\* While the connection lives, every unit of ciphertext is in one place: sent,
\* in the hands of one of the two coroutines, or waiting in wbio.
Conserved ==
  LET all == sent \o chunk["in"] \o chunk["out"] \o wbio IN
  ~dead /\ ~fin
    => Len(all) = made /\ \A u \in 1 .. made : \E i \in 1 .. made : all[i] = u

\* What writeFull has reported as written is on the socket while that can be
\* written, and the FIN follows all the ciphertext, close_notify included,
\* where one coroutine flushes (stream.h:23, shutdownWrite).  A failed flush
\* breaks this: offset already counts what SSL_write took, and is returned
\* (tls_stream.cpp:144-180).
FinIsLast ==
  session = "tcp" /\ spoken["update"] = 0 /\ ~dead
    => reported <= Len(sent) /\ (fin => Len(sent) = made)

\* A read reports the end of the stream only when all data has been returned.
NothingUnread == verdict = "eof" /\ ~dead => delivered = spoken["data"]

\* The handshake ends: it flushes its flight before it waits for the peer's
\* (tls_stream.cpp:68-70).
HandshakeEnds == <>(Shaken \/ call["in"] = "ended")
=============================================================================
