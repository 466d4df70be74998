------------------------------ MODULE DuplexPipe ------------------------------
(***************************************************************************)
(* What a proxied session promises its two peers, with no coroutine, socket *)
(* or event loop in sight: each end receives a contiguous stream, in order, *)
(* without loss, repetition or invention; the client is answered before the *)
(* target hears anything; nothing is delivered after the session is gone.   *)
(***************************************************************************)
EXTENDS Integers, Sequences, ByteRuns

CONSTANT HeaderLen   \* bytes of the client's stream that are the request

VARIABLES
  offered,    \* offered[e]: bytes the peer at e has sent, numbered from 1
  delivered,  \* delivered[e]: bytes handed over to the peer at e
  open        \* the session still exists

pipeVars == <<offered, delivered, open>>

PipeEnds == {"client", "target"}
Opposite(e) == IF e = "client" THEN "target" ELSE "client"

\* Byte 0 is the proxy's response to the client; the target's stream starts
\* right after the request header.
Start(e) == IF e = "client" THEN 0 ELSE HeaderLen + 1

PipeInit ==
  /\ offered = [e \in PipeEnds |-> 0]
  /\ delivered = [e \in PipeEnds |-> << >>]
  /\ open = TRUE

Offer(e) ==
  /\ open
  /\ offered' = [offered EXCEPT ![e] = @ + 1]
  /\ UNCHANGED <<delivered, open>>

\* The next bytes of the opposite stream, as many as it has on offer.
Deliver(e) ==
  /\ open
  /\ e = "target" => delivered["client"] # << >>
  /\ LET next == Start(e) + Len(delivered[e])
     IN  \E n \in 1 .. offered[Opposite(e)] - next + 1 :
           delivered' = [delivered EXCEPT ![e] = @ \o Run(next, n)]
  /\ UNCHANGED <<offered, open>>

Close == open /\ open' = FALSE /\ UNCHANGED <<offered, delivered>>

PipeNext == Close \/ \E e \in PipeEnds : Offer(e) \/ Deliver(e)

PipeSpec == PipeInit /\ [][PipeNext]_pipeVars
=============================================================================
