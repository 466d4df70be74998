---------------------------- MODULE UplinkProofs ----------------------------
(***************************************************************************)
(* Theorems about the bytes of a session on their way up: a destination is   *)
(* understood as meant by every parser on the way, and a stream, its         *)
(* datagrams and the content of its Vision frames arrive as they were given, *)
(* for addresses of any bytes and length, any cuts and any number of pieces. *)
(***************************************************************************)
EXTENDS Uplink, SequenceTheorems, WellFoundedInduction, TLAPS

-----------------------------------------------------------------------------
(* Sequences.                                                               *)

\* Concatenation of byte sequences is one, is associative and has a unit.
LEMMA Joined ==
  ASSUME NEW s \in Seq(Nat), NEW t \in Seq(Nat)
  PROVE  s \o t \in Seq(Nat)
OBVIOUS

\* The same, of three pieces.
LEMMA Chain ==
  ASSUME NEW s \in Seq(Nat), NEW t \in Seq(Nat), NEW u \in Seq(Nat)
  PROVE  (s \o t) \o u = s \o (t \o u)
BY ConcatAssociative

\* The same, of none.
LEMMA Empty ==
  ASSUME NEW s \in Seq(Nat)
  PROVE  s \o << >> = s /\ << >> \o s = s
BY ConcatEmptySeq

\* Where the elements of a concatenation come from.
LEMMA Parts ==
  ASSUME NEW s \in Seq(Nat), NEW t \in Seq(Nat)
  PROVE  /\ s \o t \in Seq(Nat) /\ Len(s \o t) = Len(s) + Len(t)
         /\ Len(s) \in Nat /\ Len(t) \in Nat
         /\ \A i \in 1 .. Len(s) : (s \o t)[i] = s[i]
         /\ \A i \in 1 .. Len(t) : (s \o t)[Len(s) + i] = t[i]
OBVIOUS

\* What a parser consumes and what it leaves, when what it has and what is still to
\* come are the piece it expects and the rest (BufferedStream::read(), consume()).
Taken(b, l, x, r) ==
  b \o l = x \o r /\ Len(b) >= Len(x)
    => /\ Take(b, Len(x)) = x /\ Drop(b, Len(x)) \in Seq(Nat)
       /\ Drop(b, Len(x)) \o l = r
LEMMA PieceTaken ==
  ASSUME NEW b \in Seq(Nat), NEW l \in Seq(Nat), NEW x \in Seq(Nat), NEW r \in Seq(Nat)
  PROVE  Taken(b, l, x, r)
<1> SUFFICES ASSUME b \o l = x \o r, Len(b) >= Len(x)
             PROVE  /\ Take(b, Len(x)) = x /\ Drop(b, Len(x)) \in Seq(Nat)
                    /\ Drop(b, Len(x)) \o l = r
  BY DEF Taken
<1>0. Len(b) \in Nat /\ Len(x) \in Nat /\ Len(l) \in Nat /\ Len(r) \in Nat
  BY LenProperties
<1>1. /\ \A i \in 1 .. Len(b) : (b \o l)[i] = b[i]
      /\ \A i \in 1 .. Len(l) : (b \o l)[Len(b) + i] = l[i]
      /\ \A i \in 1 .. Len(x) : (x \o r)[i] = x[i]
      /\ \A i \in 1 .. Len(r) : (x \o r)[Len(x) + i] = r[i]
      /\ Len(b \o l) = Len(b) + Len(l) /\ Len(x \o r) = Len(x) + Len(r)
  BY Parts, Zenon
<1>2. Take(b, Len(x)) = x
  <2>1. /\ SubSeq(b, 1, Len(x)) \in Seq(Nat) /\ Len(SubSeq(b, 1, Len(x))) = Len(x)
        /\ \A i \in 1 .. Len(x) : SubSeq(b, 1, Len(x))[i] = b[i]
    BY <1>0
  <2>2. \A i \in 1 .. Len(x) : b[i] = x[i]
    BY <1>0, <1>1
  <2> QED
    BY <2>1, <2>2, SeqEqual DEF Take
<1> DEFINE d == SubSeq(b, Len(x) + 1, Len(b))
<1>3. /\ d \in Seq(Nat) /\ Len(d) = Len(b) - Len(x)
      /\ \A i \in 1 .. Len(d) : d[i] = b[Len(x) + i]
  BY <1>0
<1>n. Len(d) \in Nat /\ Len(d) = Len(b) - Len(x)
  BY <1>0, <1>3
<1> HIDE DEF d
<1>d. /\ d \o l \in Seq(Nat) /\ Len(d \o l) = Len(d) + Len(l)
      /\ \A i \in 1 .. Len(d) : (d \o l)[i] = d[i]
      /\ \A i \in 1 .. Len(l) : (d \o l)[Len(d) + i] = l[i]
  BY <1>3, Parts, Zenon
<1>4. Len(d \o l) = Len(r) /\ d \o l \in Seq(Nat)
  BY <1>0, <1>1, <1>3, <1>d
<1>5. ASSUME NEW i \in 1 .. Len(r) PROVE (d \o l)[i] = r[i]
  <2>1. (x \o r)[Len(x) + i] = r[i]
    BY <1>1
  <2>2. CASE i <= Len(d)
    <3>0. i \in 1 .. Len(d) /\ Len(x) + i \in 1 .. Len(b)
      BY <1>0, <1>n, <2>2
    <3>1. (d \o l)[i] = d[i] /\ d[i] = b[Len(x) + i]
      BY <1>3, <1>d, <3>0
    <3>2. (b \o l)[Len(x) + i] = b[Len(x) + i]
      BY <1>1, <3>0
    <3> QED
      BY <2>1, <3>1, <3>2
  <2>3. CASE i > Len(d)
    <3>1. i - Len(d) \in 1 .. Len(l) /\ Len(b) + (i - Len(d)) = Len(x) + i
      BY <1>0, <1>1, <1>3, <2>3
    <3>2. (d \o l)[Len(d) + (i - Len(d))] = l[i - Len(d)]
      BY <1>d, <3>1
    <3>3. Len(d) + (i - Len(d)) = i
      BY <1>0, <1>3
    <3>4. (b \o l)[Len(b) + (i - Len(d))] = l[i - Len(d)]
      BY <1>1, <3>1
    <3> QED
      BY <2>1, <3>1, <3>2, <3>3, <3>4
  <2>4. i <= Len(d) \/ i > Len(d)
    BY <1>0, <1>n
  <2> QED
    BY <2>2, <2>3, <2>4, Zenon
<1>6. d \o l = r
  BY <1>4, <1>5, SeqEqual
<1> QED
  BY <1>2, <1>3, <1>6 DEF Drop, d

\* A receive moves a piece of what is to come to what has come.
LEMMA PieceMoved ==
  ASSUME NEW b \in Seq(Nat), NEW l \in Seq(Nat), NEW n \in 1 .. Len(l)
  PROVE  /\ Take(l, n) \in Seq(Nat) /\ Drop(l, n) \in Seq(Nat)
         /\ b \o Take(l, n) \in Seq(Nat)
         /\ (b \o Take(l, n)) \o Drop(l, n) = b \o l
<1>1. Take(l, n) \in Seq(Nat) /\ Drop(l, n) \in Seq(Nat)
  BY DEF Take, Drop
<1>2. Take(l, n) \o Drop(l, n) = l
  <2>1. /\ Len(Take(l, n)) = n /\ Len(Drop(l, n)) = Len(l) - n
        /\ \A i \in 1 .. n : Take(l, n)[i] = l[i]
        /\ \A i \in 1 .. Len(l) - n : Drop(l, n)[i] = l[n + i]
    <3>0. Len(l) \in Nat /\ n \in Nat /\ 1 <= n /\ n <= Len(l)
      BY LenProperties
    <3>1. Len(SubSeq(l, 1, n)) = n /\ \A i \in 1 .. n : SubSeq(l, 1, n)[i] = l[i]
      BY <3>0
    <3>2. Len(SubSeq(l, n + 1, Len(l))) = Len(l) - n
      BY <3>0
    <3>3. \A i \in 1 .. Len(l) - n : SubSeq(l, n + 1, Len(l))[i] = l[n + i]
      BY <3>0
    <3> QED
      BY <3>1, <3>2, <3>3, Zenon DEF Take, Drop
  <2>2. Len(Take(l, n) \o Drop(l, n)) = Len(l) /\ Take(l, n) \o Drop(l, n) \in Seq(Nat)
    <3>1. /\ Take(l, n) \o Drop(l, n) \in Seq(Nat)
          /\ Len(Take(l, n) \o Drop(l, n)) = Len(Take(l, n)) + Len(Drop(l, n))
      BY <1>1, Parts, Zenon
    <3>2. Len(l) \in Nat /\ n \in Nat
      BY LenProperties
    <3>3. n + (Len(l) - n) = Len(l)
      BY <3>2
    <3> QED
      BY <2>1, <3>1, <3>3, Zenon
  <2>3. \A i \in 1 .. Len(l) : (Take(l, n) \o Drop(l, n))[i] = l[i]
    <3> HIDE DEF Take, Drop
    <3> SUFFICES ASSUME NEW i \in 1 .. Len(l)
                 PROVE  (Take(l, n) \o Drop(l, n))[i] = l[i]
      OBVIOUS
    <3>1. CASE i <= n
      <4>1. i \in 1 .. Len(Take(l, n))
        BY <2>1, <3>1
      <4> QED
        BY <1>1, <2>1, <3>1, <4>1, Parts
    <3>2. CASE i > n
      <4>1. i - n \in 1 .. Len(l) - n /\ n + (i - n) = i
        BY <3>2
      <4>2. (Take(l, n) \o Drop(l, n))[n + (i - n)] = Drop(l, n)[i - n]
        <5>1. \A j \in 1 .. Len(Drop(l, n)) :
                (Take(l, n) \o Drop(l, n))[Len(Take(l, n)) + j] = Drop(l, n)[j]
          BY <1>1, Parts
        <5> QED
          BY <2>1, <4>1, <5>1
      <4> QED
        BY <2>1, <4>1, <4>2
    <3> QED
      <4>1. i <= n \/ i > n
        OBVIOUS
      <4> QED
        BY <3>1, <3>2, <4>1, Zenon
  <2> QED
    BY <2>2, <2>3, SeqEqual
<1> DEFINE p == Take(l, n)
           d == Drop(l, n)
<1>3. p \in Seq(Nat) /\ d \in Seq(Nat)
  BY <1>1
<1>4. l = p \o d
  BY <1>2
<1> HIDE DEF p, d
<1>5. b \o p \in Seq(Nat)
  BY <1>3, Joined, Zenon
<1>6. (b \o p) \o d = b \o (p \o d)
  BY <1>3, Chain, Zenon
<1> QED
  BY <1>3, <1>4, <1>5, <1>6, Zenon DEF p, d

-----------------------------------------------------------------------------
(* The headers, piece by piece.                                             *)

\* What a greeting may offer, and what a request may bring for a session.
Offers == {<<0>>, <<2>>, <<2, 0>>}
Extras(o) == IF o = "vision" THEN VisionAddons ELSE {<< >>}

Requests == [kind : Kinds, addr : Seq(Nat), port : Seq(Nat)]
SocksSteps == {"ver", "nmethods", "methods", "ver2", "cmd", "rsv", "atyp", "len",
               "addr", "port", "done"}
VlessSteps == {"version", "uuid", "addonsLen", "addons", "command", "port", "atyp", "len",
               "addr", "done"}
ParseSteps == SocksSteps \cup VlessSteps \cup {"relay", "error"}
Parses ==
  [step : ParseSteps, need : Nat, kind : Kinds, addr : Seq(Nat), port : Seq(Nat),
   flow : Seq(Nat), cmd : Nat]

\* The address as both headers end with or go on from its length.
Sizing(q, rest) ==
  IF q.kind = "domain" THEN <<Len(q.addr)>> \o (q.addr \o rest) ELSE q.addr \o rest

\* What read() is to return at each step of the SOCKS5 parser, and all that is left
\* to be read then.
SocksPiece(q, m, s) ==
  CASE s \in {"ver", "ver2"} -> <<5>>
    [] s = "nmethods" -> <<Len(m)>>
    [] s = "methods"  -> m
    [] s = "cmd"      -> <<1>>
    [] s = "rsv"      -> <<0>>
    [] s = "atyp"     -> <<SocksType[q.kind]>>
    [] s = "len"      -> <<Len(q.addr)>>
    [] s = "addr"     -> q.addr
    [] s = "port"     -> q.port
    [] s = "done"     -> << >>
SocksAddressLeft(q) == <<SocksType[q.kind]>> \o Sizing(q, q.port)
SocksRequestLeft(q) == <<5>> \o (<<1>> \o (<<0>> \o SocksAddressLeft(q)))
SocksLeft(q, m, s) ==
  CASE s = "ver"      -> <<5>> \o (<<Len(m)>> \o (m \o SocksRequestLeft(q)))
    [] s = "nmethods" -> <<Len(m)>> \o (m \o SocksRequestLeft(q))
    [] s = "methods"  -> m \o SocksRequestLeft(q)
    [] s = "ver2"     -> SocksRequestLeft(q)
    [] s = "cmd"      -> <<1>> \o (<<0>> \o SocksAddressLeft(q))
    [] s = "rsv"      -> <<0>> \o SocksAddressLeft(q)
    [] s = "atyp"     -> SocksAddressLeft(q)
    [] s = "len"      -> <<Len(q.addr)>> \o (q.addr \o q.port)
    [] s = "addr"     -> q.addr \o q.port
    [] s = "port"     -> q.port
    [] s = "done"     -> << >>

\* What the SOCKS5 parser has found by then.
SocksFound(p, q) ==
  /\ p.step = "len" => q.kind = "domain"
  /\ p.step \in {"len", "addr", "port", "done"} => p.kind = q.kind
  /\ p.step \in {"port", "done"} => p.addr = q.addr
  /\ p.step = "done" => p.port = q.port

\* The same of the VLESS decoder.
VlessPiece(q, a, c, s) ==
  CASE s = "version"   -> <<0>>
    [] s = "uuid"      -> Uuid
    [] s = "addonsLen" -> <<Len(a)>>
    [] s = "addons"    -> a
    [] s = "command"   -> <<c>>
    [] s = "port"      -> q.port
    [] s = "atyp"      -> <<VlessType[q.kind]>>
    [] s = "len"       -> <<Len(q.addr)>>
    [] s = "addr"      -> q.addr
    [] s = "done"      -> << >>
VlessAddressLeft(q) == q.port \o (<<VlessType[q.kind]>> \o Sizing(q, << >>))
VlessLeft(q, a, c, s) ==
  CASE s = "version"   -> <<0>> \o (Uuid \o (<<Len(a)>> \o (a \o (<<c>> \o VlessAddressLeft(q)))))
    [] s = "uuid"      -> Uuid \o (<<Len(a)>> \o (a \o (<<c>> \o VlessAddressLeft(q))))
    [] s = "addonsLen" -> <<Len(a)>> \o (a \o (<<c>> \o VlessAddressLeft(q)))
    [] s = "addons"    -> a \o (<<c>> \o VlessAddressLeft(q))
    [] s = "command"   -> <<c>> \o VlessAddressLeft(q)
    [] s = "port"      -> VlessAddressLeft(q)
    [] s = "atyp"      -> <<VlessType[q.kind]>> \o Sizing(q, << >>)
    [] s = "len"       -> <<Len(q.addr)>> \o (q.addr \o << >>)
    [] s = "addr"      -> q.addr \o << >>
    [] s = "done"      -> << >>
VlessFound(p, q, a, c) ==
  /\ p.flow = IF a # << >> /\ p.step \notin {"version", "uuid", "addonsLen", "addons"}
                THEN VisionName ELSE << >>
  /\ p.step = "addons" => a # << >>
  /\ p.step \in {"port", "atyp", "len", "addr", "done"} => p.cmd = c
  /\ p.step \in {"atyp", "len", "addr", "done"} => p.port = q.port
  /\ p.step = "len" => q.kind = "domain"
  /\ p.step \in {"len", "addr", "done"} => p.kind = q.kind
  /\ p.step = "done" => p.addr = q.addr

\* A destination is one of three kinds, its address in a version's length.
LEMMA AskedType ==
  ASSUME NEW q \in Asked
  PROVE  /\ q \in Requests /\ q.kind \in Kinds /\ q.addr \in Seq(Nat) /\ q.port \in Seq(Nat)
         /\ Len(q.port) = 2 /\ Len(q.addr) \in Nat
         /\ q.kind = "v4" => q.addr = V4
         /\ q.kind = "v6" => q.addr = V6
         /\ q = [kind |-> q.kind, addr |-> q.addr, port |-> q.port]
<1>1. Port \in Seq(Nat) /\ Len(Port) = 2
  BY DEF Port
<1>2. /\ q.kind \in Kinds /\ q.addr \in Seq(Nat) /\ q.port = Port
      /\ q.kind = "v4" => q.addr = V4
      /\ q.kind = "v6" => q.addr = V6
      /\ q = [kind |-> q.kind, addr |-> q.addr, port |-> q.port]
  BY UplinkAssumption DEF Asked, Kinds
<1>3. Len(q.addr) \in Nat
  BY <1>2, LenProperties
<1> QED
  BY <1>1, <1>2, <1>3 DEF Requests

\* Both numberings tell the kinds apart.
LEMMA KindsTold ==
  ASSUME NEW k \in Kinds
  PROVE  /\ Known(SocksType, SocksType[k]) /\ KindOf(SocksType, SocksType[k]) = k
         /\ Known(VlessType, VlessType[k]) /\ KindOf(VlessType, VlessType[k]) = k
         /\ SocksType[k] \in Nat /\ VlessType[k] \in Nat
<1>1. \A j \in Kinds : SocksType[j] = SocksType[k] => j = k
  BY DEF SocksType, Kinds
<1>2. \A j \in Kinds : VlessType[j] = VlessType[k] => j = k
  BY DEF VlessType, Kinds
<1>3. SocksType[k] \in Nat /\ VlessType[k] \in Nat
  BY DEF SocksType, VlessType, Kinds
<1> QED
  BY <1>1, <1>2, <1>3 DEF Known, KindOf

\* The pieces are sequences of bytes.
LEMMA PieceTypes ==
  ASSUME NEW q \in Asked, NEW rest \in Seq(Nat)
  PROVE  /\ Sizing(q, rest) \in Seq(Nat)
         /\ <<SocksType[q.kind]>> \in Seq(Nat) /\ <<VlessType[q.kind]>> \in Seq(Nat)
         /\ <<Len(q.addr)>> \in Seq(Nat)
         /\ Len(<<SocksType[q.kind]>>) = 1 /\ Len(<<VlessType[q.kind]>>) = 1
         /\ Len(<<Len(q.addr)>>) = 1
<1>0. \A n \in Nat : <<n>> \in Seq(Nat) /\ Len(<<n>>) = 1
  OBVIOUS
<1>1. /\ q.kind \in Kinds /\ q.addr \in Seq(Nat) /\ Len(q.addr) \in Nat
      /\ SocksType[q.kind] \in Nat /\ VlessType[q.kind] \in Nat
  BY AskedType, KindsTold
<1>2. q.addr \o rest \in Seq(Nat)
  BY <1>1, Joined, Zenon
<1>3. <<Len(q.addr)>> \in Seq(Nat)
  BY <1>0, <1>1
<1>4. <<Len(q.addr)>> \o (q.addr \o rest) \in Seq(Nat)
  BY <1>2, <1>3, Joined, Zenon
<1> QED
  BY <1>0, <1>1, <1>2, <1>3, <1>4 DEF Sizing

-----------------------------------------------------------------------------
(* The parsers understand the pieces.                                       *)

\* A parser goes on with what it has found.
LEMMA AtType ==
  ASSUME NEW p \in Parses, NEW s \in ParseSteps, NEW n \in Nat
  PROVE  /\ At(p, s, n) \in Parses
         /\ At(p, s, n).step = s /\ At(p, s, n).need = n
         /\ At(p, s, n).kind = p.kind /\ At(p, s, n).addr = p.addr
         /\ At(p, s, n).port = p.port /\ At(p, s, n).flow = p.flow
         /\ At(p, s, n).cmd = p.cmd
BY DEF At, Parses

\* The names of the steps.
LEMMA StepNames ==
  /\ "ver" \in ParseSteps /\ "nmethods" \in ParseSteps /\ "methods" \in ParseSteps
  /\ "ver2" \in ParseSteps /\ "cmd" \in ParseSteps /\ "rsv" \in ParseSteps
  /\ "atyp" \in ParseSteps /\ "len" \in ParseSteps /\ "addr" \in ParseSteps
  /\ "port" \in ParseSteps /\ "done" \in ParseSteps /\ "version" \in ParseSteps
  /\ "uuid" \in ParseSteps /\ "addonsLen" \in ParseSteps /\ "addons" \in ParseSteps
  /\ "command" \in ParseSteps /\ "relay" \in ParseSteps /\ "error" \in ParseSteps
BY DEF ParseSteps, SocksSteps, VlessSteps

\* Finding something changes nothing else.
LEMMA FoundType ==
  ASSUME NEW p \in Parses
  PROVE  /\ \A k \in Kinds :
              /\ [p EXCEPT !.kind = k] \in Parses /\ [p EXCEPT !.kind = k].kind = k
              /\ [p EXCEPT !.kind = k].addr = p.addr /\ [p EXCEPT !.kind = k].port = p.port
              /\ [p EXCEPT !.kind = k].flow = p.flow /\ [p EXCEPT !.kind = k].cmd = p.cmd
         /\ \A a \in Seq(Nat) :
              /\ [p EXCEPT !.addr = a] \in Parses /\ [p EXCEPT !.addr = a].addr = a
              /\ [p EXCEPT !.addr = a].kind = p.kind /\ [p EXCEPT !.addr = a].port = p.port
              /\ [p EXCEPT !.addr = a].flow = p.flow /\ [p EXCEPT !.addr = a].cmd = p.cmd
         /\ \A a \in Seq(Nat) :
              /\ [p EXCEPT !.port = a] \in Parses /\ [p EXCEPT !.port = a].port = a
              /\ [p EXCEPT !.port = a].kind = p.kind /\ [p EXCEPT !.port = a].addr = p.addr
              /\ [p EXCEPT !.port = a].flow = p.flow /\ [p EXCEPT !.port = a].cmd = p.cmd
         /\ \A a \in Seq(Nat) :
              /\ [p EXCEPT !.flow = a] \in Parses /\ [p EXCEPT !.flow = a].flow = a
              /\ [p EXCEPT !.flow = a].kind = p.kind /\ [p EXCEPT !.flow = a].addr = p.addr
              /\ [p EXCEPT !.flow = a].port = p.port /\ [p EXCEPT !.flow = a].cmd = p.cmd
         /\ \A c \in Nat :
              /\ [p EXCEPT !.cmd = c] \in Parses /\ [p EXCEPT !.cmd = c].cmd = c
              /\ [p EXCEPT !.cmd = c].kind = p.kind /\ [p EXCEPT !.cmd = c].addr = p.addr
              /\ [p EXCEPT !.cmd = c].port = p.port /\ [p EXCEPT !.cmd = c].flow = p.flow
BY DEF Parses

\* The address type leads to the length of a domain, or to the address.
LEMMA KindUnderstood ==
  ASSUME NEW p \in Parses, NEW q \in Asked, NEW types, NEW t,
         Known(types, t), KindOf(types, t) = q.kind
  PROVE  /\ AddressAfter(p, types, t) \in Parses
         /\ AddressAfter(p, types, t).kind = q.kind
         /\ AddressAfter(p, types, t).addr = p.addr
         /\ AddressAfter(p, types, t).port = p.port
         /\ AddressAfter(p, types, t).flow = p.flow
         /\ AddressAfter(p, types, t).cmd = p.cmd
         /\ \/ q.kind = "domain" /\ AddressAfter(p, types, t).step = "len"
               /\ AddressAfter(p, types, t).need = 1
            \/ q.kind # "domain" /\ AddressAfter(p, types, t).step = "addr"
               /\ AddressAfter(p, types, t).need = Len(q.addr)
<1> DEFINE o == [p EXCEPT !.kind = q.kind]
<1>0. /\ q.kind \in Kinds /\ Len(q.addr) \in Nat
      /\ q.kind = "v4" => q.addr = V4
      /\ q.kind = "v6" => q.addr = V6
  BY AskedType
<1>1. /\ o \in Parses /\ o.kind = q.kind /\ o.addr = p.addr /\ o.port = p.port
      /\ o.flow = p.flow /\ o.cmd = p.cmd
  BY <1>0, FoundType
<1>2. \/ q.kind = "domain" /\ AddressAfter(p, types, t) = At(o, "len", 1)
      \/ q.kind # "domain" /\ AddressAfter(p, types, t) = At(o, "addr", Len(q.addr))
  BY <1>0 DEF AddressAfter, Kinds
<1> HIDE DEF o
<1>3. /\ "len" \in ParseSteps /\ "addr" \in ParseSteps /\ 1 \in Nat
  BY StepNames
<1>4. CASE q.kind = "domain"
  BY <1>1, <1>2, <1>3, <1>4, AtType
<1>5. CASE q.kind # "domain"
  <2> DEFINE k == Len(q.addr)
  <2>1. k \in Nat
    BY <1>0
  <2> HIDE DEF k
  <2>2. AddressAfter(p, types, t) = At(o, "addr", k)
    BY <1>2, <1>5 DEF k
  <2>3. /\ At(o, "addr", k) \in Parses
        /\ At(o, "addr", k).step = "addr" /\ At(o, "addr", k).need = k
        /\ At(o, "addr", k).kind = o.kind /\ At(o, "addr", k).addr = o.addr
        /\ At(o, "addr", k).port = o.port /\ At(o, "addr", k).flow = o.flow
        /\ At(o, "addr", k).cmd = o.cmd
    BY <1>1, <1>3, <2>1, AtType
  <2> QED
    BY <1>1, <1>5, <2>2, <2>3 DEF k
<1> QED
  BY <1>4, <1>5

\* The SOCKS5 parser reads its piece, and goes on to the next or refuses.
LEMMA SocksUnderstood ==
  ASSUME NEW p \in Parses, NEW q \in Asked, NEW m \in Offers,
         p.step \in SocksSteps \ {"done"}, SocksFound(p, q)
  PROVE  LET n == SocksStep(p, SocksPiece(q, m, p.step))
         IN  \/ n.step = "error"
             \/ /\ n \in Parses /\ n.step \in SocksSteps /\ SocksFound(n, q)
                /\ n.need = Len(SocksPiece(q, m, n.step))
                /\ SocksLeft(q, m, p.step)
                     = SocksPiece(q, m, p.step) \o SocksLeft(q, m, n.step)
<1> DEFINE n == SocksStep(p, SocksPiece(q, m, p.step))
<1>q. /\ q.kind \in Kinds /\ q.addr \in Seq(Nat) /\ q.port \in Seq(Nat)
      /\ Len(q.port) = 2 /\ Len(q.addr) \in Nat
  BY AskedType
<1>b. Bad(p).step = "error"
  BY AtType, StepNames DEF Bad
<1>m. m \in Seq(Nat) /\ Len(m) \in Nat /\ Len(<<Len(m)>>) = 1 /\ Len(m) # 0
  <2>1. \A k \in Nat : Len(<<k>>) = 1
    OBVIOUS
  <2>2. m \in Seq(Nat) /\ Len(m) \in Nat /\ Len(m) # 0
    BY DEF Offers
  <2> QED
    BY <2>1, <2>2
<1>1. CASE p.step = "ver"
  <2>1. SocksPiece(q, m, p.step) = <<5>>
    BY <1>1 DEF SocksPiece
  <2>2. n = At(p, "nmethods", 1)
    BY <1>1, <2>1 DEF SocksStep
  <2>3. n \in Parses /\ n.step = "nmethods" /\ n.need = 1
    BY <2>2, AtType, StepNames
  <2>4. SocksPiece(q, m, "nmethods") = <<Len(m)>>
    BY DEF SocksPiece
  <2>5. SocksLeft(q, m, "ver") = <<5>> \o SocksLeft(q, m, "nmethods")
    BY DEF SocksLeft
  <2> QED
    BY <1>1, <1>m, <2>1, <2>3, <2>4, <2>5 DEF SocksFound, SocksSteps
<1>2. CASE p.step = "nmethods"
  <2>1. SocksPiece(q, m, p.step) = <<Len(m)>>
    BY <1>2 DEF SocksPiece
  <2>2. n = At(p, "methods", Len(m))
    <3>1. <<Len(m)>> # <<0>> /\ <<Len(m)>>[1] = Len(m)
      BY <1>m
    <3> QED
      BY <1>2, <2>1, <3>1 DEF SocksStep
  <2>3. n \in Parses /\ n.step = "methods" /\ n.need = Len(m)
    <3> DEFINE k == Len(m)
    <3>1. k \in Nat
      BY <1>m
    <3> HIDE DEF k
    <3>2. /\ At(p, "methods", k) \in Parses /\ At(p, "methods", k).step = "methods"
          /\ At(p, "methods", k).need = k
      BY <3>1, AtType, StepNames
    <3> QED
      BY <2>2, <3>2 DEF k
  <2>4. SocksPiece(q, m, "methods") = m
    BY DEF SocksPiece
  <2>5. SocksLeft(q, m, "nmethods") = <<Len(m)>> \o SocksLeft(q, m, "methods")
    BY DEF SocksLeft
  <2> QED
    BY <1>2, <2>1, <2>3, <2>4, <2>5 DEF SocksFound, SocksSteps
<1>3. CASE p.step = "methods"
  <2>1. SocksPiece(q, m, p.step) = m
    BY <1>3 DEF SocksPiece
  <2>2. n = At(p, "ver2", 1) \/ n = Bad(p)
    BY <1>3, <2>1 DEF SocksStep
  <2>3. (n \in Parses /\ n.step = "ver2" /\ n.need = 1) \/ n.step = "error"
    <3>1. /\ At(p, "ver2", 1) \in Parses /\ At(p, "ver2", 1).step = "ver2"
          /\ At(p, "ver2", 1).need = 1
      BY AtType, StepNames
    <3> QED
      BY <1>b, <2>2, <3>1
  <2>4. SocksPiece(q, m, "ver2") = <<5>> /\ Len(<<5>>) = 1
    BY DEF SocksPiece
  <2>5. SocksLeft(q, m, "methods") = m \o SocksLeft(q, m, "ver2")
    BY DEF SocksLeft
  <2> QED
    BY <1>3, <2>1, <2>3, <2>4, <2>5 DEF SocksFound, SocksSteps
<1>4. CASE p.step = "ver2"
  <2>1. SocksPiece(q, m, p.step) = <<5>>
    BY <1>4 DEF SocksPiece
  <2>2. n = At(p, "cmd", 1)
    BY <1>4, <2>1 DEF SocksStep
  <2>3. n \in Parses /\ n.step = "cmd" /\ n.need = 1
    BY <2>2, AtType, StepNames
  <2>4. SocksPiece(q, m, "cmd") = <<1>> /\ Len(<<1>>) = 1
    BY DEF SocksPiece
  <2>5. SocksLeft(q, m, "ver2") = <<5>> \o SocksLeft(q, m, "cmd")
    BY DEF SocksLeft, SocksRequestLeft
  <2> QED
    BY <1>4, <2>1, <2>3, <2>4, <2>5 DEF SocksFound, SocksSteps
<1>5. CASE p.step = "cmd"
  <2>1. SocksPiece(q, m, p.step) = <<1>> /\ <<1>>[1] = 1
    BY <1>5 DEF SocksPiece
  <2>2. n = At([p EXCEPT !.cmd = 1], "rsv", 1)
    BY <1>5, <2>1 DEF SocksStep
  <2>3. n \in Parses /\ n.step = "rsv" /\ n.need = 1
    <3> DEFINE o == [p EXCEPT !.cmd = 1]
    <3>1. o \in Parses
      BY FoundType
    <3> HIDE DEF o
    <3>2. /\ At(o, "rsv", 1) \in Parses /\ At(o, "rsv", 1).step = "rsv"
          /\ At(o, "rsv", 1).need = 1
      BY <3>1, AtType, StepNames
    <3> QED
      BY <2>2, <3>2 DEF o
  <2>4. SocksPiece(q, m, "rsv") = <<0>> /\ Len(<<0>>) = 1
    BY DEF SocksPiece
  <2>5. SocksLeft(q, m, "cmd") = <<1>> \o SocksLeft(q, m, "rsv")
    BY DEF SocksLeft
  <2> QED
    BY <1>5, <2>1, <2>3, <2>4, <2>5 DEF SocksFound, SocksSteps
<1>6. CASE p.step = "rsv"
  <2>1. SocksPiece(q, m, p.step) = <<0>>
    BY <1>6 DEF SocksPiece
  <2>2. n = At(p, "atyp", 1)
    BY <1>6, <2>1 DEF SocksStep
  <2>3. n \in Parses /\ n.step = "atyp" /\ n.need = 1
    BY <2>2, AtType, StepNames
  <2>4. SocksPiece(q, m, "atyp") = <<SocksType[q.kind]>> /\ Len(<<SocksType[q.kind]>>) = 1
    BY PieceTypes DEF SocksPiece
  <2>5. SocksLeft(q, m, "rsv") = <<0>> \o SocksLeft(q, m, "atyp")
    BY DEF SocksLeft
  <2> QED
    BY <1>6, <2>1, <2>3, <2>4, <2>5 DEF SocksFound, SocksSteps
<1>7. CASE p.step = "atyp"
  <2>1. SocksPiece(q, m, p.step) = <<SocksType[q.kind]>>
    BY <1>7 DEF SocksPiece
  <2>2. n = AddressAfter(p, SocksType, SocksType[q.kind])
    <3>1. <<SocksType[q.kind]>>[1] = SocksType[q.kind]
      OBVIOUS
    <3> QED
      BY <1>7, <2>1, <3>1 DEF SocksStep
  <2>3. Known(SocksType, SocksType[q.kind]) /\ KindOf(SocksType, SocksType[q.kind]) = q.kind
    BY <1>q, KindsTold
  <2>4. /\ n \in Parses /\ n.kind = q.kind
        /\ \/ q.kind = "domain" /\ n.step = "len" /\ n.need = 1
           \/ q.kind # "domain" /\ n.step = "addr" /\ n.need = Len(q.addr)
    BY <2>2, <2>3, KindUnderstood
  <2>5. /\ SocksPiece(q, m, "len") = <<Len(q.addr)>> /\ Len(<<Len(q.addr)>>) = 1
        /\ SocksPiece(q, m, "addr") = q.addr
    BY <1>q, PieceTypes DEF SocksPiece
  <2>6. SocksLeft(q, m, "atyp") = <<SocksType[q.kind]>> \o
          (IF q.kind = "domain" THEN SocksLeft(q, m, "len") ELSE SocksLeft(q, m, "addr"))
    BY DEF SocksLeft, SocksAddressLeft, Sizing
  <2> QED
    BY <1>7, <2>1, <2>4, <2>5, <2>6 DEF SocksFound, SocksSteps
<1>8. CASE p.step = "len"
  <2>1. SocksPiece(q, m, p.step) = <<Len(q.addr)>>
    BY <1>8 DEF SocksPiece
  <2>2. n = At(p, "addr", Len(q.addr))
    <3>1. <<Len(q.addr)>>[1] = Len(q.addr)
      OBVIOUS
    <3> QED
      BY <1>8, <2>1, <3>1 DEF SocksStep
  <2>3. n \in Parses /\ n.step = "addr" /\ n.need = Len(q.addr) /\ n.kind = p.kind
    <3> DEFINE k == Len(q.addr)
    <3>1. k \in Nat
      BY <1>q
    <3> HIDE DEF k
    <3>2. /\ At(p, "addr", k) \in Parses /\ At(p, "addr", k).step = "addr"
          /\ At(p, "addr", k).need = k /\ At(p, "addr", k).kind = p.kind
      BY <3>1, AtType, StepNames
    <3> QED
      BY <2>2, <3>2 DEF k
  <2>4. SocksPiece(q, m, "addr") = q.addr
    BY DEF SocksPiece
  <2>5. SocksLeft(q, m, "len") = <<Len(q.addr)>> \o SocksLeft(q, m, "addr")
    BY DEF SocksLeft
  <2> QED
    BY <1>8, <2>1, <2>3, <2>4, <2>5 DEF SocksFound, SocksSteps
<1>9. CASE p.step = "addr"
  <2>1. SocksPiece(q, m, p.step) = q.addr
    BY <1>9 DEF SocksPiece
  <2>2. n = At([p EXCEPT !.addr = q.addr], "port", 2)
    BY <1>9, <2>1 DEF SocksStep
  <2>3. n \in Parses /\ n.step = "port" /\ n.need = 2 /\ n.kind = p.kind /\ n.addr = q.addr
    <3> DEFINE o == [p EXCEPT !.addr = q.addr]
    <3>1. o \in Parses /\ o.kind = p.kind /\ o.addr = q.addr
      BY <1>q, FoundType
    <3> HIDE DEF o
    <3>2. /\ At(o, "port", 2) \in Parses /\ At(o, "port", 2).step = "port"
          /\ At(o, "port", 2).need = 2 /\ At(o, "port", 2).kind = o.kind
          /\ At(o, "port", 2).addr = o.addr
      BY <3>1, AtType, StepNames
    <3> QED
      BY <2>2, <3>1, <3>2 DEF o
  <2>4. SocksPiece(q, m, "port") = q.port
    BY DEF SocksPiece
  <2>5. SocksLeft(q, m, "addr") = q.addr \o SocksLeft(q, m, "port")
    BY DEF SocksLeft
  <2> QED
    BY <1>9, <1>q, <2>1, <2>3, <2>4, <2>5 DEF SocksFound, SocksSteps
<1>10. CASE p.step = "port"
  <2>1. SocksPiece(q, m, p.step) = q.port
    BY <1>10 DEF SocksPiece
  <2>2. n = At([p EXCEPT !.port = q.port], "done", 0)
    BY <1>10, <2>1 DEF SocksStep
  <2>3. /\ n \in Parses /\ n.step = "done" /\ n.need = 0 /\ n.kind = p.kind
        /\ n.addr = p.addr /\ n.port = q.port
    <3> DEFINE o == [p EXCEPT !.port = q.port]
    <3>1. o \in Parses /\ o.kind = p.kind /\ o.addr = p.addr /\ o.port = q.port
      BY <1>q, FoundType
    <3> HIDE DEF o
    <3>2. /\ At(o, "done", 0) \in Parses /\ At(o, "done", 0).step = "done"
          /\ At(o, "done", 0).need = 0 /\ At(o, "done", 0).kind = o.kind
          /\ At(o, "done", 0).addr = o.addr /\ At(o, "done", 0).port = o.port
      BY <3>1, AtType, StepNames
    <3> QED
      BY <2>2, <3>1, <3>2 DEF o
  <2>4. SocksPiece(q, m, "done") = << >> /\ Len(<< >>) = 0
    BY DEF SocksPiece
  <2>5. SocksLeft(q, m, "port") = q.port /\ SocksLeft(q, m, "done") = << >>
    BY DEF SocksLeft
  <2>6. q.port = q.port \o << >>
    BY <1>q, Empty
  <2> QED
    BY <1>10, <2>1, <2>3, <2>4, <2>5, <2>6 DEF SocksFound, SocksSteps
<1> HIDE DEF n
<1> QED
  BY <1>1, <1>2, <1>3, <1>4, <1>5, <1>6, <1>7, <1>8, <1>9, <1>10 DEF SocksSteps, n
\* What parseAddons() does at the byte i of the fields b, having found the flow w, when
\* it goes on as f says.
AddonsAt(p, b, f, i, w) ==
  LET wire == b[i] % 8
      last == i + 1 + b[i + 1]
  IN  IF i > Len(b) THEN At([p EXCEPT !.flow = w], "command", 1)
      ELSE IF i = Len(b) THEN Bad(p)
      ELSE CASE wire = 0 -> f[<<i + 2, w>>]
             [] wire = 2 -> IF last > Len(b) THEN Bad(p)
                            ELSE f[<<last + 1, IF b[i] \div 8 = 1
                                                 THEN SubSeq(b, i + 2, last)
                                                 ELSE w>>]
             [] OTHER -> Bad(p)
AddonsStep(p, b, f) ==
  [s \in (1 .. Len(b) + 1) \X {p.flow, VisionName} |-> AddonsAt(p, b, f, s[1], s[2])]

\* parseAddons() takes such steps, if there is a function that does.
LEMMA AddonsSteps ==
  ASSUME NEW p, NEW b, NEW g, g = AddonsStep(p, b, g)
  PROVE  \E f : f = AddonsStep(p, b, f) /\ Addons(p, b) = f[<<1, p.flow>>]
<1> DEFINE f == CHOOSE h : h = AddonsStep(p, b, h)
<1>1. f = AddonsStep(p, b, f)
  BY Zenon
<1>2. Addons(p, b) = f[<<1, p.flow>>]
  BY Zenon DEF Addons, AddonsStep, AddonsAt
<1> QED
  BY <1>1, <1>2, Zenon

\* One such step.
LEMMA AddonsUnfold ==
  ASSUME NEW p, NEW b, NEW f, f = AddonsStep(p, b, f)
  PROVE  \A i \in 1 .. Len(b) + 1, w \in {p.flow, VisionName} :
           f[<<i, w>>] = AddonsAt(p, b, f, i, w)
<1> SUFFICES ASSUME NEW i \in 1 .. Len(b) + 1, NEW w \in {p.flow, VisionName}
             PROVE  f[<<i, w>>] = AddonsAt(p, b, f, i, w)
  OBVIOUS
<1> DEFINE D == (1 .. Len(b) + 1) \X {p.flow, VisionName}
           h == [s \in D |-> AddonsAt(p, b, f, s[1], s[2])]
<1>1. f = h
  BY Zenon DEF AddonsStep
<1>2. <<i, w>> \in D
  OBVIOUS
<1> HIDE DEF D
<1>3. h[<<i, w>>] = AddonsAt(p, b, f, i, w)
  BY <1>2
<1> QED
  BY <1>1, <1>3, Zenon

\* What the prover knows of the bytes of three ways to ask for Vision.
LEMMA AddonBytes ==
  /\ <<10, 1, 7>> \in Seq(Nat) /\ Len(<<10, 1, 7>>) = 3
  /\ <<10, 1, 7>>[1] = 10 /\ <<10, 1, 7>>[2] = 1 /\ <<10, 1, 7>>[3] = 7
  /\ <<18, 1, 9, 10, 1, 7>> \in Seq(Nat) /\ Len(<<18, 1, 9, 10, 1, 7>>) = 6
  /\ <<18, 1, 9, 10, 1, 7>>[1] = 18 /\ <<18, 1, 9, 10, 1, 7>>[2] = 1
  /\ <<18, 1, 9, 10, 1, 7>>[3] = 9 /\ <<18, 1, 9, 10, 1, 7>>[4] = 10
  /\ <<18, 1, 9, 10, 1, 7>>[5] = 1 /\ <<18, 1, 9, 10, 1, 7>>[6] = 7
  /\ <<24, 5, 10, 1, 7>> \in Seq(Nat) /\ Len(<<24, 5, 10, 1, 7>>) = 5
  /\ <<24, 5, 10, 1, 7>>[1] = 24 /\ <<24, 5, 10, 1, 7>>[2] = 5
  /\ <<24, 5, 10, 1, 7>>[3] = 10 /\ <<24, 5, 10, 1, 7>>[4] = 1
  /\ <<24, 5, 10, 1, 7>>[5] = 7
OBVIOUS

\* The last byte of the fields is the name.
LEMMA NameLast ==
  ASSUME NEW b \in Seq(Nat)
  PROVE  \A n \in Nat : n = Len(b) /\ n > 0 /\ b[n] = 7 => SubSeq(b, n, n) = VisionName
<1> SUFFICES ASSUME NEW n \in Nat, n = Len(b), n > 0, b[n] = 7
             PROVE  SubSeq(b, n, n) = VisionName
  OBVIOUS
<1>1. /\ SubSeq(b, n, n) \in Seq(Nat) /\ Len(SubSeq(b, n, n)) = 1
      /\ SubSeq(b, n, n)[1] = 7
  OBVIOUS
<1>2. <<7>> \in Seq(Nat) /\ Len(<<7>>) = 1 /\ <<7>>[1] = 7
  OBVIOUS
<1> DEFINE x == SubSeq(b, n, n)
           y == <<7>>
<1>3. x \in Seq(Nat) /\ y \in Seq(Nat) /\ Len(x) = Len(y) /\ \A i \in 1 .. Len(x) : x[i] = y[i]
  BY <1>1, <1>2
<1> HIDE DEF x, y
<1>4. x = y
  BY <1>3, SeqEqual
<1> QED
  BY <1>4 DEF x, y, VisionName

\* Flow alone: its field ends the addons.
LEMMA FlowAlone ==
  ASSUME NEW p, NEW b \in Seq(Nat), Len(b) = 3, b[1] = 10, b[2] = 1, b[3] = 7
  PROVE  Addons(p, b) = At([p EXCEPT !.flow = VisionName], "command", 1)
<1> DEFINE r(w) == At([p EXCEPT !.flow = w], "command", 1)
           D == (1 .. Len(b) + 1) \X {p.flow, VisionName}
           g == [s \in D |-> IF s[1] = 1 THEN r(VisionName)
                             ELSE IF s[1] = 4 THEN r(s[2]) ELSE Bad(p)]
<1>1. SubSeq(b, 3, 3) = VisionName
  <2>1. 3 \in Nat /\ 3 = Len(b) /\ 3 > 0 /\ b[3] = 7
    OBVIOUS
  <2> QED
    BY <2>1, NameLast, Zenon
<1>2. 10 % 8 = 2 /\ 10 \div 8 = 1 /\ 1 % 8 = 1
  OBVIOUS
<1>3. 1 + 1 = 2 /\ 1 + 2 = 3 /\ 2 + 1 = 3 /\ 3 + 1 = 4
  OBVIOUS
<1>w. ASSUME NEW w \in {p.flow, VisionName}, NEW f
      PROVE  /\ AddonsAt(p, b, f, 1, w) = f[<<4, VisionName>>]
             /\ AddonsAt(p, b, f, 2, w) = Bad(p)
             /\ AddonsAt(p, b, f, 3, w) = Bad(p)
             /\ AddonsAt(p, b, f, 4, w) = r(w)
  <2> DEFINE a(v) == [p EXCEPT !.flow = v]
  <2> HIDE DEF a
  <2>1. AddonsAt(p, b, f, 1, w) = f[<<4, VisionName>>]
    <3>1. 1 + 1 + b[1 + 1] = 3
      BY <1>3
    <3>2. ~(1 > Len(b)) /\ 1 # Len(b) /\ ~(3 > Len(b)) /\ b[1] % 8 # 0
      BY <1>2
    <3> QED
      BY <1>1, <1>2, <1>3, <3>1, <3>2, Zenon DEF AddonsAt
  <2>2. AddonsAt(p, b, f, 2, w) = Bad(p)
    BY <1>2 DEF AddonsAt
  <2>3. AddonsAt(p, b, f, 3, w) = Bad(p)
    BY DEF AddonsAt
  <2>4. AddonsAt(p, b, f, 4, w) = r(w)
    BY DEF AddonsAt
  <2> QED
    BY <2>1, <2>2, <2>3, <2>4
<1> HIDE DEF r
<1>4. ASSUME NEW s \in D PROVE AddonsAt(p, b, g, s[1], s[2]) = g[s]
  <2> DEFINE i == s[1]
             w == s[2]
  <2>1. i \in 1 .. 4 /\ w \in {p.flow, VisionName}
    OBVIOUS
  <2>2. g[s] = IF i = 1 THEN r(VisionName) ELSE IF i = 4 THEN r(w) ELSE Bad(p)
    OBVIOUS
  <2>3. g[<<4, VisionName>>] = r(VisionName)
    OBVIOUS
  <2> HIDE DEF g, i, w
  <2>4. AddonsAt(p, b, g, i, w) = g[s]
    BY <1>w, <2>1, <2>2, <2>3
  <2> QED
    BY <2>4 DEF i, w
<1>5. g = AddonsStep(p, b, g)
  <2> DEFINE h == [s \in D |-> AddonsAt(p, b, g, s[1], s[2])]
  <2>1. AddonsStep(p, b, g) = h
    BY Zenon DEF AddonsStep
  <2>2. g = [s \in D |-> g[s]]
    OBVIOUS
  <2> HIDE DEF g, D
  <2> QED
    BY <1>4, <2>1, <2>2
<1> HIDE DEF g, D
<1>6. PICK f : f = AddonsStep(p, b, f) /\ Addons(p, b) = f[<<1, p.flow>>]
  BY <1>5, AddonsSteps, Zenon
<1>7. /\ f[<<1, p.flow>>] = AddonsAt(p, b, f, 1, p.flow)
      /\ f[<<4, VisionName>>] = AddonsAt(p, b, f, 4, VisionName)
  <2>1. 1 \in 1 .. Len(b) + 1 /\ 4 \in 1 .. Len(b) + 1
    OBVIOUS
  <2> QED
    BY <1>6, <2>1, AddonsUnfold, Zenon
<1> QED
  BY <1>6, <1>7, <1>w, Zenon DEF r

\* Seed before it: a field of another number is skipped with its content.
LEMMA SeedFirst ==
  ASSUME NEW p, NEW b \in Seq(Nat), Len(b) = 6,
         b[1] = 18, b[2] = 1, b[3] = 9, b[4] = 10, b[5] = 1, b[6] = 7
  PROVE  Addons(p, b) = At([p EXCEPT !.flow = VisionName], "command", 1)
<1> DEFINE r(w) == At([p EXCEPT !.flow = w], "command", 1)
           D == (1 .. Len(b) + 1) \X {p.flow, VisionName}
           g == [s \in D |-> IF s[1] \in {1, 4} THEN r(VisionName)
                             ELSE IF s[1] = 7 THEN r(s[2]) ELSE Bad(p)]
<1>1. SubSeq(b, 6, 6) = VisionName
  <2>1. 6 \in Nat /\ 6 = Len(b) /\ 6 > 0 /\ b[6] = 7
    OBVIOUS
  <2> QED
    BY <2>1, NameLast, Zenon
<1>2. /\ 18 % 8 = 2 /\ 18 \div 8 = 2 /\ 10 % 8 = 2 /\ 10 \div 8 = 1
      /\ 1 % 8 = 1 /\ 9 % 8 = 1
  OBVIOUS
<1>3. 1 + 1 = 2 /\ 3 + 1 = 4 /\ 4 + 1 = 5 /\ 4 + 2 = 6 /\ 6 + 1 = 7
  OBVIOUS
<1>w. ASSUME NEW w \in {p.flow, VisionName}, NEW f
      PROVE  /\ AddonsAt(p, b, f, 1, w) = f[<<4, w>>]
             /\ AddonsAt(p, b, f, 2, w) = Bad(p)
             /\ AddonsAt(p, b, f, 3, w) = Bad(p)
             /\ AddonsAt(p, b, f, 4, w) = f[<<7, VisionName>>]
             /\ AddonsAt(p, b, f, 5, w) = Bad(p)
             /\ AddonsAt(p, b, f, 6, w) = Bad(p)
             /\ AddonsAt(p, b, f, 7, w) = r(w)
  <2> DEFINE a(v) == [p EXCEPT !.flow = v]
  <2> HIDE DEF a
  <2>1. AddonsAt(p, b, f, 1, w) = f[<<4, w>>]
    <3>1. 1 + 1 + b[1 + 1] = 3
      BY <1>3
    <3>2. ~(1 > Len(b)) /\ 1 # Len(b) /\ ~(3 > Len(b)) /\ b[1] % 8 # 0 /\ b[1] \div 8 # 1
      BY <1>2
    <3> QED
      BY <1>2, <1>3, <3>1, <3>2, Zenon DEF AddonsAt
  <2>2. AddonsAt(p, b, f, 2, w) = Bad(p) /\ AddonsAt(p, b, f, 3, w) = Bad(p)
    BY <1>2 DEF AddonsAt
  <2>3. AddonsAt(p, b, f, 5, w) = Bad(p) /\ AddonsAt(p, b, f, 6, w) = Bad(p)
    BY <1>2 DEF AddonsAt
  <2>4. AddonsAt(p, b, f, 7, w) = r(w)
    BY DEF AddonsAt
  <2>5. AddonsAt(p, b, f, 4, w) = f[<<7, VisionName>>]
    <3>1. 4 + 1 + b[4 + 1] = 6
      BY <1>3
    <3>2. ~(4 > Len(b)) /\ 4 # Len(b) /\ ~(6 > Len(b)) /\ b[4] % 8 # 0
      BY <1>2
    <3> QED
      BY <1>1, <1>2, <1>3, <3>1, <3>2, Zenon DEF AddonsAt
  <2> QED
    BY <2>1, <2>2, <2>3, <2>4, <2>5
<1> HIDE DEF r
<1>4. ASSUME NEW s \in D PROVE AddonsAt(p, b, g, s[1], s[2]) = g[s]
  <2> DEFINE i == s[1]
             w == s[2]
  <2>1. i \in 1 .. 7 /\ w \in {p.flow, VisionName}
    OBVIOUS
  <2>2. g[s] = IF i \in {1, 4} THEN r(VisionName) ELSE IF i = 7 THEN r(w) ELSE Bad(p)
    OBVIOUS
  <2>3. /\ g[<<7, VisionName>>] = r(VisionName)
        /\ g[<<4, w>>] = r(VisionName)
    OBVIOUS
  <2> HIDE DEF g, i, w
  <2>5. /\ AddonsAt(p, b, g, 1, w) = r(VisionName)
        /\ AddonsAt(p, b, g, 2, w) = Bad(p)
        /\ AddonsAt(p, b, g, 3, w) = Bad(p)
        /\ AddonsAt(p, b, g, 4, w) = r(VisionName)
        /\ AddonsAt(p, b, g, 5, w) = Bad(p)
        /\ AddonsAt(p, b, g, 6, w) = Bad(p)
        /\ AddonsAt(p, b, g, 7, w) = r(w)
    BY <1>w, <2>1, <2>3, Zenon
  <2>6. i \in {1, 2, 3, 4, 5, 6, 7}
    BY <2>1
  <2>4. AddonsAt(p, b, g, i, w) = g[s]
    BY <2>2, <2>5, <2>6
  <2> QED
    BY <2>4 DEF i, w
<1>5. g = AddonsStep(p, b, g)
  <2> DEFINE h == [s \in D |-> AddonsAt(p, b, g, s[1], s[2])]
  <2>1. AddonsStep(p, b, g) = h
    BY Zenon DEF AddonsStep
  <2>2. g = [s \in D |-> g[s]]
    OBVIOUS
  <2> HIDE DEF g, D
  <2> QED
    BY <1>4, <2>1, <2>2
<1> HIDE DEF g, D
<1>6. PICK f : f = AddonsStep(p, b, f) /\ Addons(p, b) = f[<<1, p.flow>>]
  BY <1>5, AddonsSteps, Zenon
<1>7. /\ f[<<1, p.flow>>] = AddonsAt(p, b, f, 1, p.flow)
      /\ f[<<4, p.flow>>] = AddonsAt(p, b, f, 4, p.flow)
      /\ f[<<7, VisionName>>] = AddonsAt(p, b, f, 7, VisionName)
  <2>1. 1 \in 1 .. Len(b) + 1 /\ 4 \in 1 .. Len(b) + 1 /\ 7 \in 1 .. Len(b) + 1
    OBVIOUS
  <2> QED
    BY <1>6, <2>1, AddonsUnfold, Zenon
<1> QED
  BY <1>6, <1>7, <1>w, Zenon DEF r

\* A number before it: so is one of an unknown field.
LEMMA NumberFirst ==
  ASSUME NEW p, NEW b \in Seq(Nat), Len(b) = 5,
         b[1] = 24, b[2] = 5, b[3] = 10, b[4] = 1, b[5] = 7
  PROVE  Addons(p, b) = At([p EXCEPT !.flow = VisionName], "command", 1)
<1> DEFINE r(w) == At([p EXCEPT !.flow = w], "command", 1)
           D == (1 .. Len(b) + 1) \X {p.flow, VisionName}
           g == [s \in D |-> IF s[1] \in {1, 3} THEN r(VisionName)
                             ELSE IF s[1] = 6 THEN r(s[2]) ELSE Bad(p)]
<1>1. SubSeq(b, 5, 5) = VisionName
  <2>1. 5 \in Nat /\ 5 = Len(b) /\ 5 > 0 /\ b[5] = 7
    OBVIOUS
  <2> QED
    BY <2>1, NameLast, Zenon
<1>2. /\ 24 % 8 = 0 /\ 10 % 8 = 2 /\ 10 \div 8 = 1 /\ 1 % 8 = 1 /\ 5 % 8 = 5
  OBVIOUS
<1>3. 1 + 2 = 3 /\ 3 + 1 = 4 /\ 3 + 2 = 5 /\ 5 + 1 = 6
  OBVIOUS
<1>w. ASSUME NEW w \in {p.flow, VisionName}, NEW f
      PROVE  /\ AddonsAt(p, b, f, 1, w) = f[<<3, w>>]
             /\ AddonsAt(p, b, f, 2, w) = Bad(p)
             /\ AddonsAt(p, b, f, 3, w) = f[<<6, VisionName>>]
             /\ AddonsAt(p, b, f, 4, w) = Bad(p)
             /\ AddonsAt(p, b, f, 5, w) = Bad(p)
             /\ AddonsAt(p, b, f, 6, w) = r(w)
  <2> DEFINE a(v) == [p EXCEPT !.flow = v]
  <2> HIDE DEF a
  <2>1. AddonsAt(p, b, f, 1, w) = f[<<3, w>>]
    <3>1. ~(1 > Len(b)) /\ 1 # Len(b) /\ b[1] % 8 = 0
      BY <1>2
    <3> QED
      BY <1>3, <3>1, Zenon DEF AddonsAt
  <2>2. AddonsAt(p, b, f, 2, w) = Bad(p)
    BY <1>2 DEF AddonsAt
  <2>3. AddonsAt(p, b, f, 4, w) = Bad(p) /\ AddonsAt(p, b, f, 5, w) = Bad(p)
    BY <1>2 DEF AddonsAt
  <2>4. AddonsAt(p, b, f, 6, w) = r(w)
    BY DEF AddonsAt
  <2>5. AddonsAt(p, b, f, 3, w) = f[<<6, VisionName>>]
    <3>1. 3 + 1 + b[3 + 1] = 5
      BY <1>3
    <3>2. ~(3 > Len(b)) /\ 3 # Len(b) /\ ~(5 > Len(b)) /\ b[3] % 8 # 0
      BY <1>2
    <3> QED
      BY <1>1, <1>2, <1>3, <3>1, <3>2, Zenon DEF AddonsAt
  <2> QED
    BY <2>1, <2>2, <2>3, <2>4, <2>5
<1> HIDE DEF r
<1>4. ASSUME NEW s \in D PROVE AddonsAt(p, b, g, s[1], s[2]) = g[s]
  <2> DEFINE i == s[1]
             w == s[2]
  <2>1. i \in 1 .. 6 /\ w \in {p.flow, VisionName}
    OBVIOUS
  <2>2. g[s] = IF i \in {1, 3} THEN r(VisionName) ELSE IF i = 6 THEN r(w) ELSE Bad(p)
    OBVIOUS
  <2>3. /\ g[<<6, VisionName>>] = r(VisionName)
        /\ g[<<3, w>>] = r(VisionName)
    OBVIOUS
  <2> HIDE DEF g, i, w
  <2>5. /\ AddonsAt(p, b, g, 1, w) = r(VisionName)
        /\ AddonsAt(p, b, g, 2, w) = Bad(p)
        /\ AddonsAt(p, b, g, 3, w) = r(VisionName)
        /\ AddonsAt(p, b, g, 4, w) = Bad(p)
        /\ AddonsAt(p, b, g, 5, w) = Bad(p)
        /\ AddonsAt(p, b, g, 6, w) = r(w)
    BY <1>w, <2>1, <2>3, Zenon
  <2>6. i \in {1, 2, 3, 4, 5, 6}
    BY <2>1
  <2>4. AddonsAt(p, b, g, i, w) = g[s]
    BY <2>2, <2>5, <2>6
  <2> QED
    BY <2>4 DEF i, w
<1>5. g = AddonsStep(p, b, g)
  <2> DEFINE h == [s \in D |-> AddonsAt(p, b, g, s[1], s[2])]
  <2>1. AddonsStep(p, b, g) = h
    BY Zenon DEF AddonsStep
  <2>2. g = [s \in D |-> g[s]]
    OBVIOUS
  <2> HIDE DEF g, D
  <2> QED
    BY <1>4, <2>1, <2>2
<1> HIDE DEF g, D
<1>6. PICK f : f = AddonsStep(p, b, f) /\ Addons(p, b) = f[<<1, p.flow>>]
  BY <1>5, AddonsSteps, Zenon
<1>7. /\ f[<<1, p.flow>>] = AddonsAt(p, b, f, 1, p.flow)
      /\ f[<<3, p.flow>>] = AddonsAt(p, b, f, 3, p.flow)
      /\ f[<<6, VisionName>>] = AddonsAt(p, b, f, 6, VisionName)
  <2>1. 1 \in 1 .. Len(b) + 1 /\ 3 \in 1 .. Len(b) + 1 /\ 6 \in 1 .. Len(b) + 1
    OBVIOUS
  <2> QED
    BY <1>6, <2>1, AddonsUnfold, Zenon
<1> QED
  BY <1>6, <1>7, <1>w, Zenon DEF r

\* However a client asks for Vision, the decoder finds that it does.
LEMMA AddonsUnderstood ==
  ASSUME NEW p, NEW a \in VisionAddons
  PROVE  /\ Addons(p, a) = At([p EXCEPT !.flow = VisionName], "command", 1)
         /\ a \in Seq(Nat) /\ Len(a) \in Nat /\ Len(a) > 0
<1>1. Addons(p, <<10, 1, 7>>) = At([p EXCEPT !.flow = VisionName], "command", 1)
  BY AddonBytes, FlowAlone, Zenon
<1>2. Addons(p, <<18, 1, 9, 10, 1, 7>>) = At([p EXCEPT !.flow = VisionName], "command", 1)
  BY AddonBytes, SeedFirst, Zenon
<1>3. Addons(p, <<24, 5, 10, 1, 7>>) = At([p EXCEPT !.flow = VisionName], "command", 1)
  BY AddonBytes, NumberFirst, Zenon
<1>4. a \in {<<10, 1, 7>>, <<18, 1, 9, 10, 1, 7>>, <<24, 5, 10, 1, 7>>}
  BY DEF VisionAddons
<1>5. Addons(p, a) = At([p EXCEPT !.flow = VisionName], "command", 1)
  BY <1>1, <1>2, <1>3, <1>4, Zenon
<1>6. a \in Seq(Nat) /\ Len(a) \in Nat /\ Len(a) > 0
  <2>1. 3 \in Nat /\ 3 > 0 /\ 6 \in Nat /\ 6 > 0 /\ 5 \in Nat /\ 5 > 0
    OBVIOUS
  <2> QED
    BY <1>4, <2>1, AddonBytes, Zenon
<1> QED
  BY <1>5, <1>6

\* The VLESS decoder reads its piece, and goes on to the next.
LEMMA VlessUnderstood ==
  ASSUME NEW p \in Parses, NEW q \in Asked, NEW a \in {<< >>} \cup VisionAddons, NEW c \in {1, 2},
         p.step \in VlessSteps \ {"done"}, VlessFound(p, q, a, c)
  PROVE  LET n == VlessStep(p, VlessPiece(q, a, c, p.step))
         IN  /\ n \in Parses /\ n.step \in VlessSteps /\ VlessFound(n, q, a, c)
             /\ n.need = Len(VlessPiece(q, a, c, n.step))
             /\ VlessLeft(q, a, c, p.step)
                  = VlessPiece(q, a, c, p.step) \o VlessLeft(q, a, c, n.step)
<1> DEFINE n == VlessStep(p, VlessPiece(q, a, c, p.step))
<1>q. /\ q.kind \in Kinds /\ q.addr \in Seq(Nat) /\ q.port \in Seq(Nat)
      /\ Len(q.port) = 2 /\ Len(q.addr) \in Nat
  BY AskedType
<1>a. /\ a \in Seq(Nat) /\ Len(a) \in Nat /\ Len(a) = 0 <=> a = << >>
      /\ a # << >> => Addons(p, a) = At([p EXCEPT !.flow = VisionName], "command", 1)
  <2>1. << >> \in Seq(Nat) /\ Len(<< >>) = 0
    OBVIOUS
  <2>2. CASE a = << >>
    BY <2>1, <2>2
  <2>3. CASE a \in VisionAddons
    <3>1. a \in Seq(Nat) /\ Len(a) \in Nat /\ Len(a) > 0
      BY <2>3, AddonsUnderstood
    <3>2. Addons(p, a) = At([p EXCEPT !.flow = VisionName], "command", 1)
      BY <2>3, AddonsUnderstood, Zenon
    <3> QED
      BY <2>1, <3>1, <3>2
  <2> QED
    BY <2>2, <2>3
<1>c. c \in Nat /\ \A k \in Nat : Len(<<k>>) = 1 /\ <<k>>[1] = k /\ <<k>> \in Seq(Nat)
  OBVIOUS
<1>n. 0 \in Nat /\ 1 \in Nat /\ 2 \in Nat
  OBVIOUS
<1>u. Uuid \in Seq(Nat) /\ Len(Uuid) \in Nat
  BY VisionAssumption, LenProperties
<1>v. VisionName \in Seq(Nat)
  BY <1>c DEF VisionName
<1>1. CASE p.step = "version"
  <2>1. VlessPiece(q, a, c, p.step) = <<0>>
    BY <1>1 DEF VlessPiece
  <2>2. n = At(p, "uuid", Len(Uuid))
    BY <1>1, <2>1 DEF VlessStep
  <2>3. n \in Parses /\ n.step = "uuid" /\ n.need = Len(Uuid) /\ n.flow = p.flow
    <3> DEFINE k == Len(Uuid)
    <3>1. k \in Nat
      BY <1>u
    <3> HIDE DEF k
    <3>2. /\ At(p, "uuid", k) \in Parses /\ At(p, "uuid", k).step = "uuid"
          /\ At(p, "uuid", k).need = k /\ At(p, "uuid", k).flow = p.flow
      <4>1. "uuid" \in ParseSteps
        BY StepNames, Zenon
      <4> QED
        BY <1>n, <3>1, <4>1, AtType, SMT
    <3> QED
      BY <2>2, <3>2 DEF k
  <2>4. VlessPiece(q, a, c, "uuid") = Uuid
    BY DEF VlessPiece
  <2>5. VlessLeft(q, a, c, "version") = <<0>> \o VlessLeft(q, a, c, "uuid")
    BY DEF VlessLeft
  <2> HIDE DEF n
  <2> QED
    BY <1>1, <2>1, <2>3, <2>4, <2>5 DEF VlessFound, VlessSteps, n
<1>2. CASE p.step = "uuid"
  <2>1. VlessPiece(q, a, c, p.step) = Uuid
    BY <1>2 DEF VlessPiece
  <2>2. n = At(p, "addonsLen", 1)
    BY <1>2, <2>1 DEF VlessStep
  <2>3. n \in Parses /\ n.step = "addonsLen" /\ n.need = 1 /\ n.flow = p.flow
    BY <2>2, AtType, StepNames
  <2>4. VlessPiece(q, a, c, "addonsLen") = <<Len(a)>> /\ Len(<<Len(a)>>) = 1
    BY <1>a, <1>c DEF VlessPiece
  <2>5. VlessLeft(q, a, c, "uuid") = Uuid \o VlessLeft(q, a, c, "addonsLen")
    BY DEF VlessLeft
  <2> QED
    BY <1>2, <2>1, <2>3, <2>4, <2>5 DEF VlessFound, VlessSteps
<1>3. CASE p.step = "addonsLen"
  <2>1. VlessPiece(q, a, c, p.step) = <<Len(a)>>
    BY <1>3 DEF VlessPiece
  <2>2. CASE a = << >>
    <3>1. <<Len(a)>> = <<0>>
      BY <1>a, <2>2
    <3>2. n = At(p, "command", 1)
      BY <1>3, <2>1, <3>1 DEF VlessStep
    <3>3. n \in Parses /\ n.step = "command" /\ n.need = 1 /\ n.flow = p.flow
      BY <3>2, AtType, StepNames
    <3>4. VlessPiece(q, a, c, "command") = <<c>> /\ Len(<<c>>) = 1
      BY <1>c DEF VlessPiece
    <3>5. VlessLeft(q, a, c, "addonsLen") = <<Len(a)>> \o VlessLeft(q, a, c, "command")
      <4> DEFINE x == <<c>> \o VlessAddressLeft(q)
      <4>1. x \in Seq(Nat)
        <5>1. Sizing(q, << >>) \in Seq(Nat) /\ <<VlessType[q.kind]>> \in Seq(Nat)
          <6>1. << >> \in Seq(Nat)
            OBVIOUS
          <6> QED
            BY <6>1, PieceTypes, Zenon
        <5>2. <<VlessType[q.kind]>> \o Sizing(q, << >>) \in Seq(Nat)
          BY <5>1, Joined, Zenon
        <5>3. VlessAddressLeft(q) \in Seq(Nat)
          BY <1>q, <5>2, Joined, Zenon DEF VlessAddressLeft
        <5> QED
          BY <1>c, <5>3, Joined, Zenon
      <4> HIDE DEF x
      <4>2. << >> \o x = x
        BY <4>1, Empty, Zenon
      <4>3. VlessLeft(q, a, c, "addonsLen") = <<Len(a)>> \o (a \o x)
        BY DEF VlessLeft, x
      <4>4. VlessLeft(q, a, c, "command") = x
        BY DEF VlessLeft, x
      <4> QED
        BY <2>2, <4>2, <4>3, <4>4, Zenon
    <3> QED
      BY <1>3, <2>1, <2>2, <3>3, <3>4, <3>5 DEF VlessFound, VlessSteps
  <2>3. CASE a # << >>
    <3>1. <<Len(a)>> # <<0>> /\ <<Len(a)>>[1] = Len(a)
      <4>1. Len(a) # 0 /\ <<Len(a)>>[1] = Len(a) /\ <<0>>[1] = 0
        BY <1>a, <1>c, <2>3
      <4> QED
        BY <4>1, Zenon
    <3>2. n = At(p, "addons", Len(a))
      BY <1>3, <2>1, <3>1 DEF VlessStep
    <3>3. n \in Parses /\ n.step = "addons" /\ n.need = Len(a) /\ n.flow = p.flow
      <4> DEFINE k == Len(a)
      <4>1. k \in Nat
        BY <1>a
      <4> HIDE DEF k
      <4>2. /\ At(p, "addons", k) \in Parses /\ At(p, "addons", k).step = "addons"
            /\ At(p, "addons", k).need = k /\ At(p, "addons", k).flow = p.flow
        <5>1. "addons" \in ParseSteps
          BY StepNames, Zenon
        <5> QED
          BY <1>n, <4>1, <5>1, AtType, SMT
      <4> QED
        BY <3>2, <4>2 DEF k
    <3>4. VlessPiece(q, a, c, "addons") = a
      BY DEF VlessPiece
    <3>5. VlessLeft(q, a, c, "addonsLen") = <<Len(a)>> \o VlessLeft(q, a, c, "addons")
      BY DEF VlessLeft
    <3> QED
      BY <1>3, <2>1, <2>3, <3>3, <3>4, <3>5 DEF VlessFound, VlessSteps
  <2> QED
    BY <2>2, <2>3, Zenon
<1>4. CASE p.step = "addons"
  <2>1. VlessPiece(q, a, c, p.step) = a /\ a # << >>
    BY <1>4 DEF VlessPiece, VlessFound
  <2>2. n = At([p EXCEPT !.flow = VisionName], "command", 1)
    BY <1>4, <1>a, <2>1, Zenon DEF VlessStep
  <2>3. n \in Parses /\ n.step = "command" /\ n.need = 1 /\ n.flow = VisionName
    <3> DEFINE o == [p EXCEPT !.flow = VisionName]
    <3>1. o \in Parses /\ o.flow = VisionName
      BY <1>v, FoundType
    <3> HIDE DEF o
    <3>2. /\ At(o, "command", 1) \in Parses /\ At(o, "command", 1).step = "command"
          /\ At(o, "command", 1).need = 1 /\ At(o, "command", 1).flow = o.flow
      <4>1. "command" \in ParseSteps
        BY StepNames, Zenon
      <4> QED
        BY <1>n, <3>1, <4>1, AtType, SMT
    <3> QED
      BY <2>2, <3>1, <3>2 DEF o
  <2>4. VlessPiece(q, a, c, "command") = <<c>> /\ Len(<<c>>) = 1
    BY <1>c DEF VlessPiece
  <2>5. VlessLeft(q, a, c, "addons") = a \o VlessLeft(q, a, c, "command")
    BY DEF VlessLeft
  <2> QED
    BY <1>4, <2>1, <2>3, <2>4, <2>5 DEF VlessFound, VlessSteps
<1>5. CASE p.step = "command"
  <2>1. VlessPiece(q, a, c, p.step) = <<c>> /\ <<c>>[1] = c
    BY <1>5 DEF VlessPiece
  <2>2. n = At([p EXCEPT !.cmd = c], "port", 2)
    BY <1>5, <2>1 DEF VlessStep
  <2>3. n \in Parses /\ n.step = "port" /\ n.need = 2 /\ n.flow = p.flow /\ n.cmd = c
    <3> DEFINE o == [p EXCEPT !.cmd = c]
    <3>1. o \in Parses /\ o.flow = p.flow /\ o.cmd = c
      BY <1>c, FoundType
    <3> HIDE DEF o
    <3>2. /\ At(o, "port", 2) \in Parses /\ At(o, "port", 2).step = "port"
          /\ At(o, "port", 2).need = 2 /\ At(o, "port", 2).flow = o.flow
          /\ At(o, "port", 2).cmd = o.cmd
      <4>1. "port" \in ParseSteps
        BY StepNames, Zenon
      <4> QED
        BY <1>n, <3>1, <4>1, AtType, SMT
    <3> QED
      BY <2>2, <3>1, <3>2 DEF o
  <2>4. VlessPiece(q, a, c, "port") = q.port
    BY DEF VlessPiece
  <2>5. VlessLeft(q, a, c, "command") = <<c>> \o VlessLeft(q, a, c, "port")
    BY DEF VlessLeft
  <2> QED
    BY <1>5, <1>q, <2>1, <2>3, <2>4, <2>5 DEF VlessFound, VlessSteps
<1>6. CASE p.step = "port"
  <2>1. VlessPiece(q, a, c, p.step) = q.port
    BY <1>6 DEF VlessPiece
  <2>2. n = At([p EXCEPT !.port = q.port], "atyp", 1)
    BY <1>6, <2>1 DEF VlessStep
  <2>3. /\ n \in Parses /\ n.step = "atyp" /\ n.need = 1 /\ n.flow = p.flow
        /\ n.cmd = p.cmd /\ n.port = q.port
    <3> DEFINE o == [p EXCEPT !.port = q.port]
    <3>1. o \in Parses /\ o.flow = p.flow /\ o.cmd = p.cmd /\ o.port = q.port
      BY <1>q, FoundType
    <3> HIDE DEF o
    <3>2. /\ At(o, "atyp", 1) \in Parses /\ At(o, "atyp", 1).step = "atyp"
          /\ At(o, "atyp", 1).need = 1 /\ At(o, "atyp", 1).flow = o.flow
          /\ At(o, "atyp", 1).cmd = o.cmd /\ At(o, "atyp", 1).port = o.port
      <4>1. "atyp" \in ParseSteps
        BY StepNames, Zenon
      <4> QED
        BY <1>n, <3>1, <4>1, AtType, SMT
    <3> QED
      BY <2>2, <3>1, <3>2 DEF o
  <2>4. /\ VlessPiece(q, a, c, "atyp") = <<VlessType[q.kind]>>
        /\ Len(<<VlessType[q.kind]>>) = 1
    BY PieceTypes DEF VlessPiece
  <2>5. VlessLeft(q, a, c, "port") = q.port \o VlessLeft(q, a, c, "atyp")
    BY DEF VlessLeft, VlessAddressLeft
  <2> QED
    BY <1>6, <2>1, <2>3, <2>4, <2>5 DEF VlessFound, VlessSteps
<1>7. CASE p.step = "atyp"
  <2>1. VlessPiece(q, a, c, p.step) = <<VlessType[q.kind]>>
    BY <1>7 DEF VlessPiece
  <2>2. n = AddressAfter(p, VlessType, VlessType[q.kind])
    <3>1. <<VlessType[q.kind]>>[1] = VlessType[q.kind]
      OBVIOUS
    <3> QED
      BY <1>7, <2>1, <3>1 DEF VlessStep
  <2>3. Known(VlessType, VlessType[q.kind]) /\ KindOf(VlessType, VlessType[q.kind]) = q.kind
    BY <1>q, KindsTold
  <2>4. /\ n \in Parses /\ n.kind = q.kind /\ n.port = p.port /\ n.flow = p.flow
        /\ n.cmd = p.cmd
        /\ \/ q.kind = "domain" /\ n.step = "len" /\ n.need = 1
           \/ q.kind # "domain" /\ n.step = "addr" /\ n.need = Len(q.addr)
    BY <2>2, <2>3, KindUnderstood
  <2>5. /\ VlessPiece(q, a, c, "len") = <<Len(q.addr)>> /\ Len(<<Len(q.addr)>>) = 1
        /\ VlessPiece(q, a, c, "addr") = q.addr
    BY <1>q, PieceTypes DEF VlessPiece
  <2>6. VlessLeft(q, a, c, "atyp") = <<VlessType[q.kind]>> \o
          (IF q.kind = "domain" THEN VlessLeft(q, a, c, "len") ELSE VlessLeft(q, a, c, "addr"))
    BY DEF VlessLeft, Sizing
  <2> QED
    BY <1>7, <2>1, <2>4, <2>5, <2>6 DEF VlessFound, VlessSteps
<1>8. CASE p.step = "len"
  <2>1. VlessPiece(q, a, c, p.step) = <<Len(q.addr)>>
    BY <1>8 DEF VlessPiece
  <2>2. n = At(p, "addr", Len(q.addr))
    <3>1. <<Len(q.addr)>>[1] = Len(q.addr)
      OBVIOUS
    <3> QED
      BY <1>8, <2>1, <3>1 DEF VlessStep
  <2>3. /\ n \in Parses /\ n.step = "addr" /\ n.need = Len(q.addr) /\ n.kind = p.kind
        /\ n.port = p.port /\ n.flow = p.flow /\ n.cmd = p.cmd
    <3> DEFINE k == Len(q.addr)
    <3>1. k \in Nat
      BY <1>q
    <3> HIDE DEF k
    <3>2. /\ At(p, "addr", k) \in Parses /\ At(p, "addr", k).step = "addr"
          /\ At(p, "addr", k).need = k /\ At(p, "addr", k).kind = p.kind
          /\ At(p, "addr", k).port = p.port /\ At(p, "addr", k).flow = p.flow
          /\ At(p, "addr", k).cmd = p.cmd
      <4>1. "addr" \in ParseSteps
        BY StepNames, Zenon
      <4> QED
        BY <1>n, <3>1, <4>1, AtType, SMT
    <3> QED
      BY <2>2, <3>2 DEF k
  <2>4. VlessPiece(q, a, c, "addr") = q.addr
    BY DEF VlessPiece
  <2>5. VlessLeft(q, a, c, "len") = <<Len(q.addr)>> \o VlessLeft(q, a, c, "addr")
    BY DEF VlessLeft
  <2> QED
    BY <1>8, <2>1, <2>3, <2>4, <2>5 DEF VlessFound, VlessSteps
<1>9. CASE p.step = "addr"
  <2>1. VlessPiece(q, a, c, p.step) = q.addr
    BY <1>9 DEF VlessPiece
  <2>2. n = At([p EXCEPT !.addr = q.addr], "done", 0)
    BY <1>9, <2>1 DEF VlessStep
  <2>3. /\ n \in Parses /\ n.step = "done" /\ n.need = 0 /\ n.kind = p.kind
        /\ n.addr = q.addr /\ n.port = p.port /\ n.flow = p.flow /\ n.cmd = p.cmd
    <3> DEFINE o == [p EXCEPT !.addr = q.addr]
    <3>1. /\ o \in Parses /\ o.kind = p.kind /\ o.addr = q.addr /\ o.port = p.port
          /\ o.flow = p.flow /\ o.cmd = p.cmd
      BY <1>q, FoundType
    <3> HIDE DEF o
    <3>2. /\ At(o, "done", 0) \in Parses /\ At(o, "done", 0).step = "done"
          /\ At(o, "done", 0).need = 0 /\ At(o, "done", 0).kind = o.kind
          /\ At(o, "done", 0).addr = o.addr /\ At(o, "done", 0).port = o.port
          /\ At(o, "done", 0).flow = o.flow /\ At(o, "done", 0).cmd = o.cmd
      <4>1. "done" \in ParseSteps
        BY StepNames, Zenon
      <4> QED
        BY <1>n, <3>1, <4>1, AtType, SMT
    <3> QED
      BY <2>2, <3>1, <3>2 DEF o
  <2>4. VlessPiece(q, a, c, "done") = << >> /\ Len(<< >>) = 0
    BY DEF VlessPiece
  <2>5. VlessLeft(q, a, c, "addr") = q.addr \o VlessLeft(q, a, c, "done")
    BY DEF VlessLeft
  <2> QED
    BY <1>9, <2>1, <2>3, <2>4, <2>5 DEF VlessFound, VlessSteps
<1> HIDE DEF n
<1> QED
  BY <1>1, <1>2, <1>3, <1>4, <1>5, <1>6, <1>7, <1>8, <1>9 DEF VlessSteps, n

-----------------------------------------------------------------------------
(* What is written is what is to be read.                                   *)

\* A byte is a sequence.
LEMMA Byte ==
  ASSUME NEW x \in Nat
  PROVE  <<x>> \in Seq(Nat) /\ Len(<<x>>) = 1 /\ <<x>>[1] = x
OBVIOUS

\* So are those of the versions and of the lengths.
LEMMA FixedBytes == <<5>> \in Seq(Nat) /\ <<1>> \in Seq(Nat) /\ <<0>> \in Seq(Nat)
OBVIOUS

\* Two bytes are one and another.
LEMMA TwoBytes ==
  ASSUME NEW x \in Nat, NEW y \in Nat
  PROVE  /\ <<x, y>> \in Seq(Nat) /\ Len(<<x, y>>) = 2
         /\ <<x, y>>[1] = x /\ <<x, y>>[2] = y
         /\ <<x, y>> = <<x>> \o <<y>>
<1>1. /\ <<x, y>> \in Seq(Nat) /\ Len(<<x, y>>) = 2
      /\ <<x, y>>[1] = x /\ <<x, y>>[2] = y
  OBVIOUS
<1> DEFINE u == <<x>>
           v == <<y>>
           w == <<x, y>>
<1>2. u \in Seq(Nat) /\ Len(u) = 1 /\ u[1] = x /\ v \in Seq(Nat) /\ Len(v) = 1 /\ v[1] = y
  BY Byte
<1>3. w \in Seq(Nat) /\ Len(w) = 2 /\ w[1] = x /\ w[2] = y
  BY <1>1
<1> HIDE DEF u, v, w
<1>4. /\ u \o v \in Seq(Nat) /\ Len(u \o v) = Len(u) + Len(v)
      /\ \A i \in 1 .. Len(u) : (u \o v)[i] = u[i]
      /\ \A i \in 1 .. Len(v) : (u \o v)[Len(u) + i] = v[i]
  BY <1>2, Parts, Zenon
<1>5. Len(u \o v) = 2 /\ (u \o v)[1] = x /\ (u \o v)[2] = y
  <2>1. (u \o v)[Len(u) + 1] = v[1]
    BY <1>2, <1>4
  <2> QED
    BY <1>2, <1>4, <2>1
<1>6. \A i \in 1 .. 2 : (u \o v)[i] = w[i]
  BY <1>3, <1>5
<1>7. u \o v = w
  BY <1>3, <1>4, <1>5, <1>6, SeqEqual
<1> QED
  BY <1>1, <1>7 DEF u, v, w

\* And so are three.
LEMMA ThreeBytes ==
  ASSUME NEW x \in Nat, NEW y \in Nat, NEW z \in Nat
  PROVE  <<x, y, z>> \in Seq(Nat) /\ <<x, y, z>> = <<x>> \o (<<y>> \o <<z>>)
<1>1. /\ <<x, y, z>> \in Seq(Nat) /\ Len(<<x, y, z>>) = 3
      /\ <<x, y, z>>[1] = x /\ <<x, y, z>>[2] = y /\ <<x, y, z>>[3] = z
  OBVIOUS
<1> DEFINE u == <<x>>
           v == <<y, z>>
           w == <<x, y, z>>
<1>2. /\ u \in Seq(Nat) /\ Len(u) = 1 /\ u[1] = x
      /\ v \in Seq(Nat) /\ Len(v) = 2 /\ v[1] = y /\ v[2] = z
  BY Byte, TwoBytes
<1>3. w \in Seq(Nat) /\ Len(w) = 3 /\ w[1] = x /\ w[2] = y /\ w[3] = z
  BY <1>1
<1> HIDE DEF u, v, w
<1>4. /\ u \o v \in Seq(Nat) /\ Len(u \o v) = Len(u) + Len(v)
      /\ \A i \in 1 .. Len(u) : (u \o v)[i] = u[i]
      /\ \A i \in 1 .. Len(v) : (u \o v)[Len(u) + i] = v[i]
  BY <1>2, Parts, Zenon
<1>5. Len(u \o v) = 3 /\ (u \o v)[1] = x /\ (u \o v)[2] = y /\ (u \o v)[3] = z
  <2>1. (u \o v)[Len(u) + 1] = v[1] /\ (u \o v)[Len(u) + 2] = v[2]
    BY <1>2, <1>4
  <2> QED
    BY <1>2, <1>4, <2>1
<1>6. \A i \in 1 .. 3 : (u \o v)[i] = w[i]
  BY <1>3, <1>5
<1>7. u \o v = w
  BY <1>3, <1>4, <1>5, <1>6, SeqEqual
<1>8. v = <<y>> \o <<z>>
  BY TwoBytes, Zenon DEF v
<1> QED
  BY <1>1, <1>7, <1>8, Zenon DEF u, w

\* The address, and what follows it.
LEMMA SizedJoined ==
  ASSUME NEW q \in Asked, NEW rest \in Seq(Nat)
  PROVE  Sized(q) \in Seq(Nat) /\ Sized(q) \o rest = Sizing(q, rest)
<1> DEFINE a == q.addr
           l == <<Len(a)>>
<1>1. a \in Seq(Nat) /\ Len(a) \in Nat
  BY AskedType
<1>2. l \in Seq(Nat)
  BY <1>1, Byte
<1> HIDE DEF a, l
<1>3. CASE q.kind = "domain"
  <2>1. l \o a \in Seq(Nat) /\ (l \o a) \o rest = l \o (a \o rest)
    <3>1. l \o a \in Seq(Nat)
      BY <1>1, <1>2, Joined, Zenon
    <3>2. (l \o a) \o rest = l \o (a \o rest)
      BY <1>1, <1>2, Chain, Zenon
    <3> QED
      BY <3>1, <3>2, Zenon
  <2> QED
    BY <1>3, <2>1, Zenon DEF Sized, Sizing, a, l
<1>4. CASE q.kind # "domain"
  BY <1>1, <1>4, Zenon DEF Sized, Sizing, a
<1> QED
  BY <1>3, <1>4, Zenon

\* What a greeting offers is a few bytes.
LEMMA OfferType ==
  ASSUME NEW m \in Offers
  PROVE  m \in Seq(Nat) /\ Len(m) \in Nat /\ Len(m) # 0
<1>1. /\ <<0>> \in Seq(Nat) /\ Len(<<0>>) = 1
      /\ <<2>> \in Seq(Nat) /\ Len(<<2>>) = 1
      /\ <<2, 0>> \in Seq(Nat) /\ Len(<<2, 0>>) = 2
  OBVIOUS
<1>2. 1 \in Nat /\ 2 \in Nat /\ 1 # 0 /\ 2 # 0
  OBVIOUS
<1>3. m = <<0>> \/ m = <<2>> \/ m = <<2, 0>>
  BY DEF Offers
<1> QED
  BY <1>1, <1>2, <1>3, Zenon

\* A SOCKS5 client writes what the parser expects.
LEMMA SocksWritten ==
  ASSUME NEW q \in Asked, NEW m \in Offers
  PROVE  SocksRequest(q, m) \in Seq(Nat) /\ SocksRequest(q, m) = SocksLeft(q, m, "ver")
<1> DEFINE k == <<SocksType[q.kind]>>
           s == Sized(q)
           o == q.port
           b5 == <<5>>
           b1 == <<1>>
           b0 == <<0>>
           n == <<Len(m)>>
<1>1. /\ k \in Seq(Nat) /\ s \in Seq(Nat) /\ o \in Seq(Nat) /\ s \o o = Sizing(q, o)
  BY AskedType, PieceTypes, SizedJoined
<1>2. /\ b5 \in Seq(Nat) /\ b1 \in Seq(Nat) /\ b0 \in Seq(Nat)
  BY FixedBytes, Zenon
<1>3. m \in Seq(Nat) /\ Len(m) \in Nat
  BY OfferType, Zenon
<1>4. n \in Seq(Nat) /\ <<5, Len(m)>> = b5 \o n
  <2> DEFINE j == Len(m)
  <2>1. j \in Nat /\ 5 \in Nat
    BY <1>3
  <2> HIDE DEF j
  <2>2. <<j>> \in Seq(Nat) /\ <<5, j>> = <<5>> \o <<j>>
    BY <2>1, Byte, TwoBytes, Zenon
  <2> QED
    BY <2>2, Zenon DEF j
<1>5. <<5, 1, 0>> = b5 \o (b1 \o b0)
  <2>1. 5 \in Nat /\ 1 \in Nat /\ 0 \in Nat
    OBVIOUS
  <2> QED
    BY <2>1, ThreeBytes, Zenon
<1>6. SocksRequest(q, m) = (((b5 \o n) \o m) \o (b5 \o (b1 \o b0))) \o ((k \o s) \o o)
  BY <1>4, <1>5, Zenon DEF SocksRequest, SocksAddress
<1>7. SocksLeft(q, m, "ver")
        = b5 \o (n \o (m \o (b5 \o (b1 \o (b0 \o (k \o Sizing(q, o)))))))
  BY DEF SocksLeft, SocksRequestLeft, SocksAddressLeft
<1> HIDE DEF k, s, o, b5, b1, b0, n
<1> DEFINE x1 == s \o o
<1>8. x1 \in Seq(Nat) /\ (k \o s) \o o = k \o x1
  <2>1. s \o o \in Seq(Nat)
    BY <1>1, Joined, Zenon
  <2>2. (k \o s) \o o = k \o (s \o o)
    BY <1>1, Chain, Zenon
  <2> QED
    BY <2>1, <2>2, Zenon DEF x1
<1>9. x1 = Sizing(q, o)
  BY <1>1
<1> HIDE DEF x1
<1> DEFINE x2 == k \o x1
<1>10. x2 \in Seq(Nat)
  BY <1>1, <1>8, Joined, Zenon
<1> HIDE DEF x2
<1> DEFINE x3 == b0 \o x2
           y3 == b1 \o b0
<1>11. x3 \in Seq(Nat) /\ y3 \in Seq(Nat) /\ y3 \o x2 = b1 \o x3
  <2>1. b0 \o x2 \in Seq(Nat)
    BY <1>2, <1>10, Joined, Zenon
  <2>2. b1 \o b0 \in Seq(Nat)
    BY <1>2, Joined, Zenon
  <2>3. (b1 \o b0) \o x2 = b1 \o (b0 \o x2)
    BY <1>2, <1>10, Chain, Zenon
  <2> QED
    BY <2>1, <2>2, <2>3, Zenon DEF x3, y3
<1> HIDE DEF x3, y3
<1> DEFINE x4 == b1 \o x3
           y4 == b5 \o y3
<1>12. x4 \in Seq(Nat) /\ y4 \in Seq(Nat) /\ y4 \o x2 = b5 \o (y3 \o x2)
  <2>1. x4 \in Seq(Nat) /\ y4 \in Seq(Nat)
    BY <1>2, <1>11, Joined, Zenon
  <2>2. y4 \o x2 = b5 \o (y3 \o x2)
    BY <1>2, <1>10, <1>11, Chain, Zenon
  <2> QED
    BY <2>1, <2>2, Zenon
<1>13. y3 \o x2 = x4
  BY <1>11 DEF x4
<1> HIDE DEF x4, y4
<1> DEFINE x5 == b5 \o x4
           z == b5 \o n
<1>14. x5 \in Seq(Nat) /\ z \in Seq(Nat)
  BY <1>2, <1>4, <1>12, Joined, Zenon
<1>15. y4 \o x2 = x5
  BY <1>12, <1>13, Zenon DEF x5
<1> HIDE DEF x5, z
<1> DEFINE zm == z \o m
           x6 == m \o x5
<1>16. /\ zm \in Seq(Nat) /\ x6 \in Seq(Nat) /\ zm \o x5 = z \o x6
  <2>1. z \o m \in Seq(Nat)
    BY <1>3, <1>14, Joined, Zenon
  <2>2. m \o x5 \in Seq(Nat)
    BY <1>3, <1>14, Joined, Zenon
  <2>3. (z \o m) \o x5 = z \o (m \o x5)
    BY <1>3, <1>14, Chain, Zenon
  <2> QED
    BY <2>1, <2>2, <2>3, Zenon DEF zm, x6
<1> HIDE DEF zm, x6
<1>17. (zm \o y4) \o x2 = zm \o (y4 \o x2)
  BY <1>10, <1>12, <1>16, Chain, Zenon
<1>18. (b5 \o n) \o x6 = b5 \o (n \o x6) /\ n \o x6 \in Seq(Nat)
  <2>1. (b5 \o n) \o x6 = b5 \o (n \o x6)
    BY <1>2, <1>4, <1>16, Chain, Zenon
  <2>2. n \o x6 \in Seq(Nat)
    BY <1>4, <1>16, Joined, Zenon
  <2> QED
    BY <2>1, <2>2, Zenon
<1>19. (zm \o y4) \o x2 = b5 \o (n \o x6)
  BY <1>15, <1>16, <1>17, <1>18, Zenon DEF z
<1>20. SocksRequest(q, m) = (zm \o y4) \o x2
  BY <1>6, <1>8, Zenon DEF zm, z, y4, y3, x2
<1>21. SocksLeft(q, m, "ver") = b5 \o (n \o x6)
  BY <1>7, <1>9, Zenon DEF x6, x5, x4, x3, x2
<1>22. b5 \o (n \o x6) \in Seq(Nat)
  <2> DEFINE y == n \o x6
  <2>1. y \in Seq(Nat)
    BY <1>18
  <2> HIDE DEF y
  <2>2. b5 \o y \in Seq(Nat)
    BY <1>2, <2>1, Joined, Zenon
  <2> QED
    BY <2>2 DEF y
<1> QED
  BY <1>19, <1>20, <1>21, <1>22, Zenon

\* Where the brackets are makes no difference.
Rebracketed(z, u, l, a, c, r) ==
  /\ z \o (u \o (l \o (a \o (c \o r)))) \in Seq(Nat)
  /\ ((((z \o u) \o l) \o a) \o c) \o r = z \o (u \o (l \o (a \o (c \o r))))
  /\ ((z \o u) \o (l \o c)) \o r = z \o (u \o (l \o (c \o r)))
LEMMA Nested ==
  ASSUME NEW z \in Seq(Nat), NEW u \in Seq(Nat), NEW l \in Seq(Nat), NEW a \in Seq(Nat),
         NEW c \in Seq(Nat), NEW r \in Seq(Nat)
  PROVE  Rebracketed(z, u, l, a, c, r)
<1> DEFINE cr == c \o r
<1>1. cr \in Seq(Nat)
  BY Joined, Zenon
<1> DEFINE acr == a \o cr
           lcr == l \o cr
<1> HIDE DEF cr
<1>2. acr \in Seq(Nat) /\ lcr \in Seq(Nat)
  BY <1>1, Joined, Zenon
<1> HIDE DEF acr, lcr
<1> DEFINE lacr == l \o acr
<1>3. lacr \in Seq(Nat)
  BY <1>2, Joined, Zenon
<1> HIDE DEF lacr
<1> DEFINE ulacr == u \o lacr
<1>4. ulacr \in Seq(Nat)
  BY <1>3, Joined, Zenon
<1> HIDE DEF ulacr
<1>5. z \o ulacr \in Seq(Nat)
  BY <1>4, Joined, Zenon
<1> DEFINE zu == z \o u
<1>6. zu \in Seq(Nat) /\ \A x \in Seq(Nat) : zu \o x = z \o (u \o x)
  <2>1. z \o u \in Seq(Nat)
    BY Joined, Zenon
  <2>2. \A x \in Seq(Nat) : (z \o u) \o x = z \o (u \o x)
    BY Chain, Zenon
  <2> QED
    BY <2>1, <2>2, Zenon DEF zu
<1> HIDE DEF zu
<1> DEFINE zul == zu \o l
<1>7. zul \in Seq(Nat) /\ \A x \in Seq(Nat) : zul \o x = zu \o (l \o x)
  <2>1. zu \o l \in Seq(Nat)
    BY <1>6, Joined, Zenon
  <2>2. \A x \in Seq(Nat) : (zu \o l) \o x = zu \o (l \o x)
    BY <1>6, Chain, Zenon
  <2> QED
    BY <2>1, <2>2, Zenon DEF zul
<1> HIDE DEF zul
<1> DEFINE zula == zul \o a
<1>8. zula \in Seq(Nat) /\ \A x \in Seq(Nat) : zula \o x = zul \o (a \o x)
  <2>1. zul \o a \in Seq(Nat)
    BY <1>7, Joined, Zenon
  <2>2. \A x \in Seq(Nat) : (zul \o a) \o x = zul \o (a \o x)
    BY <1>7, Chain, Zenon
  <2> QED
    BY <2>1, <2>2, Zenon DEF zula
<1> HIDE DEF zula
<1>9. (zula \o c) \o r = zula \o cr
  <2>1. zula \in Seq(Nat)
    BY <1>8
  <2>2. (zula \o c) \o r = zula \o (c \o r)
    BY <2>1, Chain, Zenon
  <2> QED
    BY <2>2, Zenon DEF cr
<1>10. zula \o cr = zul \o acr
  BY <1>1, <1>8, Zenon DEF acr
<1>11. zul \o acr = zu \o lacr
  BY <1>2, <1>7, Zenon DEF lacr
<1>12. zu \o lacr = z \o ulacr
  BY <1>3, <1>6, Zenon DEF ulacr
<1> DEFINE lc == l \o c
<1>13. lc \in Seq(Nat) /\ lc \o r = lcr
  <2>1. lc \in Seq(Nat)
    BY Joined, Zenon
  <2>2. lc \o r = l \o (c \o r)
    BY Chain, Zenon
  <2> QED
    BY <2>1, <2>2, Zenon DEF lcr, cr
<1> HIDE DEF lc
<1>14. (zu \o lc) \o r = zu \o (lc \o r)
  <2>1. zu \in Seq(Nat)
    BY <1>6
  <2>2. \A x \in Seq(Nat) : (zu \o x) \o r = zu \o (x \o r)
    BY <2>1, Chain, Zenon
  <2> QED
    BY <1>13, <2>2, Zenon
<1>15. zu \o lcr = z \o (u \o lcr)
  BY <1>2, <1>6, Zenon
<1> QED
  BY <1>5, <1>9, <1>10, <1>11, <1>12, <1>13, <1>14, <1>15, Zenon
       DEF Rebracketed, zula, zul, zu, ulacr, lacr, acr, lcr, cr, lc

\* The address of the VLESS header.
LEMMA AddressWritten ==
  ASSUME NEW q \in Asked
  PROVE  VlessAddress(q) \in Seq(Nat) /\ VlessAddress(q) = VlessAddressLeft(q)
<1> DEFINE k == <<VlessType[q.kind]>>
           s == Sized(q)
           o == q.port
<1>1. k \in Seq(Nat) /\ s \in Seq(Nat) /\ o \in Seq(Nat)
  BY AskedType, PieceTypes, SizedJoined
<1>2. s = Sizing(q, << >>)
  <2>1. << >> \in Seq(Nat)
    OBVIOUS
  <2>2. s \o << >> = s
    BY <1>1, Empty, Zenon
  <2>3. Sized(q) \o << >> = Sizing(q, << >>)
    BY <2>1, SizedJoined, Zenon
  <2> QED
    BY <2>2, <2>3, Zenon
<1>3. VlessAddress(q) = (o \o k) \o s /\ VlessAddressLeft(q) = o \o (k \o s)
  BY <1>2, Zenon DEF VlessAddress, VlessAddressLeft
<1> HIDE DEF k, s, o
<1>4. (o \o k) \o s = o \o (k \o s)
  BY <1>1, Chain, Zenon
<1>5. o \o k \in Seq(Nat)
  BY <1>1, Joined, Zenon
<1> DEFINE ok == o \o k
<1> HIDE DEF ok
<1>6. ok \in Seq(Nat)
  BY <1>5 DEF ok
<1>7. ok \o s \in Seq(Nat)
  BY <1>1, <1>6, Joined, Zenon
<1> QED
  BY <1>3, <1>4, <1>7, Zenon DEF ok

\* A client of this make writes what the decoder expects, and so does another.
LEMMA VlessWritten ==
  ASSUME NEW q \in Asked, NEW c \in {1, 2}, NEW a \in Seq(Nat)
  PROVE  /\ EncodeRequest(q, c) \in Seq(Nat)
         /\ EncodeRequest(q, c) = VlessLeft(q, << >>, c, "version")
         /\ ForeignRequest(q, a) \in Seq(Nat)
         /\ ForeignRequest(q, a) = VlessLeft(q, a, 1, "version")
<1> DEFINE z == <<0>>
           n == <<Len(a)>>
           d == <<c>>
           e == <<1>>
           r == VlessAddress(q)
           o == << >>
<1>1. /\ z \in Seq(Nat) /\ e \in Seq(Nat) /\ d \in Seq(Nat) /\ n \in Seq(Nat)
      /\ o \in Seq(Nat) /\ <<0, c>> = z \o d /\ Len(o) = 0
  <2>1. c \in Nat /\ Len(a) \in Nat /\ 0 \in Nat /\ 1 \in Nat
    OBVIOUS
  <2>2. o \in Seq(Nat) /\ Len(o) = 0
    OBVIOUS
  <2>3. <<0, c>> = z \o d
    BY <2>1, TwoBytes, Zenon
  <2>4. n \in Seq(Nat)
    <3> DEFINE j == Len(a)
    <3>1. j \in Nat
      BY <2>1
    <3> HIDE DEF j
    <3>2. <<j>> \in Seq(Nat)
      BY <3>1, Byte, Zenon
    <3> QED
      BY <3>2 DEF j
  <2> QED
    BY <2>1, <2>2, <2>3, <2>4, FixedBytes, Byte, Zenon
<1>2. r \in Seq(Nat) /\ r = VlessAddressLeft(q)
  BY AddressWritten
<1>3. Uuid \in Seq(Nat)
  BY VisionAssumption
<1>4. /\ EncodeRequest(q, c) = ((z \o Uuid) \o (z \o d)) \o r
      /\ ForeignRequest(q, a) = ((((z \o Uuid) \o n) \o a) \o e) \o r
  BY <1>1, Zenon DEF EncodeRequest, ForeignRequest
<1>5. /\ VlessLeft(q, o, c, "version") = z \o (Uuid \o (<<Len(o)>> \o (o \o (d \o r))))
      /\ VlessLeft(q, a, 1, "version") = z \o (Uuid \o (n \o (a \o (e \o r))))
  BY <1>2 DEF VlessLeft
<1>6. <<Len(o)>> = z
  BY <1>1
<1> HIDE DEF z, n, d, e, r, o
<1>7. o \o (d \o r) = d \o r
  <2> DEFINE x == d \o r
  <2>1. x \in Seq(Nat)
    BY <1>1, <1>2, Joined, Zenon
  <2> HIDE DEF x
  <2>2. o \o x = x
    BY <2>1, Empty, Zenon DEF o
  <2> QED
    BY <2>2, Zenon DEF x
<1>8. Rebracketed(z, Uuid, z, o, d, r) /\ Rebracketed(z, Uuid, n, a, e, r)
  BY <1>1, <1>2, <1>3, Nested, Zenon
<1>9. z \o (Uuid \o (z \o (o \o (d \o r)))) \in Seq(Nat)
  BY <1>8, Zenon DEF Rebracketed
<1>10. EncodeRequest(q, c) \in Seq(Nat) /\ EncodeRequest(q, c) = VlessLeft(q, o, c, "version")
  BY <1>4, <1>5, <1>6, <1>7, <1>8, <1>9, Zenon DEF Rebracketed
<1>11. ForeignRequest(q, a) \in Seq(Nat) /\ ForeignRequest(q, a) = VlessLeft(q, a, 1, "version")
  BY <1>4, <1>5, <1>8, Zenon DEF Rebracketed
<1> QED
  BY <1>10, <1>11, Zenon DEF o

-----------------------------------------------------------------------------
(* Datagrams.                                                               *)

\* What follows a prefix.
LEMMA Behind ==
  ASSUME NEW h \in Seq(Nat), NEW y \in Seq(Nat)
  PROVE  Take(h \o y, Len(h)) = h /\ Drop(h \o y, Len(h)) = y
<1> DEFINE b == h \o y
           l == << >>
<1>1. b \in Seq(Nat) /\ l \in Seq(Nat) /\ Len(b) >= Len(h) /\ b = h \o y
  <2>1. b \in Seq(Nat) /\ Len(b) = Len(h) + Len(y) /\ Len(h) \in Nat /\ Len(y) \in Nat
    BY Parts, Zenon
  <2>2. l \in Seq(Nat)
    OBVIOUS
  <2> HIDE DEF l
  <2> QED
    BY <2>1, <2>2
<1> HIDE DEF b
<1>2. b \o l = h \o y
  BY <1>1, Empty, Zenon DEF l
<1> HIDE DEF l
<1>3. Take(b, Len(h)) = h /\ Drop(b, Len(h)) \in Seq(Nat) /\ Drop(b, Len(h)) \o l = y
  <2>1. b \in Seq(Nat) /\ l \in Seq(Nat) /\ Len(b) >= Len(h)
    BY <1>1
  <2> QED
    BY <1>2, <2>1, PieceTaken, Zenon DEF Taken
<1>4. Drop(b, Len(h)) = y
  BY <1>3, Empty, Zenon DEF l
<1> QED
  BY <1>3, <1>4, Zenon DEF b

\* A piece in the middle is the beginning of what follows.
LEMMA Within ==
  ASSUME NEW s \in Seq(Nat), NEW k \in Nat, NEW n \in Nat, k + n <= Len(s)
  PROVE  SubSeq(s, k + 1, k + n) = Take(Drop(s, k), n)
<1> DEFINE d == Drop(s, k)
<1>0. Len(s) \in Nat
  BY LenProperties
<1>1. /\ d \in Seq(Nat) /\ Len(d) = Len(s) - k
      /\ \A i \in 1 .. Len(s) - k : d[i] = s[k + i]
  <2>1. d = SubSeq(s, k + 1, Len(s))
    BY DEF Drop
  <2>2. /\ SubSeq(s, k + 1, Len(s)) \in Seq(Nat)
        /\ Len(SubSeq(s, k + 1, Len(s))) = Len(s) - k
    BY <1>0
  <2>3. \A i \in 1 .. Len(s) - k : SubSeq(s, k + 1, Len(s))[i] = s[k + i]
    BY <1>0
  <2> QED
    BY <2>1, <2>2, <2>3, Zenon
<1>2. /\ SubSeq(s, k + 1, k + n) \in Seq(Nat) /\ Len(SubSeq(s, k + 1, k + n)) = n
      /\ \A i \in 1 .. n : SubSeq(s, k + 1, k + n)[i] = s[k + i]
  <2>1. SubSeq(s, k + 1, k + n) \in Seq(Nat) /\ Len(SubSeq(s, k + 1, k + n)) = n
    BY <1>0
  <2>2. \A i \in 1 .. n : SubSeq(s, k + 1, k + n)[i] = s[k + i]
    BY <1>0
  <2> QED
    BY <2>1, <2>2
<1> HIDE DEF d
<1>3. /\ Take(d, n) \in Seq(Nat) /\ Len(Take(d, n)) = n
      /\ \A i \in 1 .. n : Take(d, n)[i] = d[i]
  BY <1>1 DEF Take
<1>4. \A i \in 1 .. n : i \in 1 .. Len(s) - k
  OBVIOUS
<1> DEFINE u == SubSeq(s, k + 1, k + n)
           v == Take(d, n)
<1> HIDE DEF u, v
<1>5. /\ u \in Seq(Nat) /\ v \in Seq(Nat) /\ Len(u) = n /\ Len(v) = n
      /\ \A i \in 1 .. n : u[i] = v[i]
  BY <1>1, <1>2, <1>3, <1>4, Zenon DEF u, v
<1>6. u = v
  BY <1>5, SeqEqual
<1> QED
  BY <1>6 DEF u, v, d

\* The address x and the port o in a datagram e that has p after them.
Fields(e, h, x, o, p) ==
  /\ e \in Seq(Nat) /\ Len(e) = Len(h) + Len(x) + 2 + Len(p)
  /\ \A i \in 1 .. Len(h) : e[i] = h[i]
  /\ SubSeq(e, Len(h) + 1, Len(h) + Len(x)) = x
  /\ SubSeq(e, Len(h) + Len(x) + 1, Len(h) + Len(x) + 2) = o
  /\ Drop(e, Len(h) + Len(x) + 2) = p

\* They are where the parser looks for them.
LEMMA FieldsFound ==
  ASSUME NEW h \in Seq(Nat), NEW x \in Seq(Nat), NEW o \in Seq(Nat), NEW p \in Seq(Nat),
         Len(o) = 2
  PROVE  Fields(h \o (x \o (o \o p)), h, x, o, p)
<1> DEFINE op == o \o p
           xop == x \o op
           e == h \o xop
           hx == h \o x
           hxo == hx \o o
<1>1. op \in Seq(Nat) /\ Len(op) = Len(o) + Len(p)
  BY Parts, Zenon
<1> HIDE DEF op
<1>2. xop \in Seq(Nat) /\ Len(xop) = Len(x) + Len(op)
  BY <1>1, Parts, Zenon
<1> HIDE DEF xop
<1>3. /\ e \in Seq(Nat) /\ Len(e) = Len(h) + Len(xop)
      /\ \A i \in 1 .. Len(h) : e[i] = h[i]
  BY <1>2, Parts, Zenon
<1>4. hx \in Seq(Nat) /\ Len(hx) = Len(h) + Len(x) /\ e = hx \o op
  <2>1. hx \in Seq(Nat) /\ Len(hx) = Len(h) + Len(x)
    BY Parts, Zenon
  <2>2. (h \o x) \o op = h \o (x \o op)
    BY <1>1, Chain, Zenon
  <2> QED
    BY <2>1, <2>2, Zenon DEF xop
<1>5. Take(xop, Len(x)) = x /\ Drop(e, Len(h)) = xop
  <2>1. Take(x \o op, Len(x)) = x
    BY <1>1, Behind, Zenon
  <2>2. Drop(h \o xop, Len(h)) = xop
    BY <1>2, Behind, Zenon
  <2> QED
    BY <2>1, <2>2, Zenon DEF xop
<1> HIDE DEF hx, e
<1>6. hxo \in Seq(Nat) /\ Len(hxo) = Len(hx) + Len(o) /\ e = hxo \o p
  <2>1. hxo \in Seq(Nat) /\ Len(hxo) = Len(hx) + Len(o)
    BY <1>4, Parts, Zenon
  <2>2. (hx \o o) \o p = hx \o (o \o p)
    BY <1>4, Chain, Zenon
  <2> QED
    BY <1>4, <2>1, <2>2, Zenon DEF op
<1>7. Take(op, Len(o)) = o /\ Drop(e, Len(hx)) = op
  <2>1. Take(o \o p, Len(o)) = o
    BY Behind, Zenon
  <2>2. Drop(hx \o op, Len(hx)) = op
    BY <1>1, <1>4, Behind, Zenon
  <2> QED
    BY <1>4, <2>1, <2>2, Zenon DEF op
<1> HIDE DEF hxo
<1>8. Drop(e, Len(hxo)) = p
  BY <1>6, Behind, Zenon
<1> DEFINE i == Len(h)
           j == Len(x)
           k == Len(hx)
           l == Len(p)
<1>9. /\ i \in Nat /\ j \in Nat /\ l \in Nat /\ k = i + j
      /\ Len(e) = i + j + 2 + l /\ Len(hxo) = i + j + 2
  <2>1. i \in Nat /\ j \in Nat /\ l \in Nat
    BY LenProperties
  <2>2. /\ Len(op) = 2 + l /\ Len(xop) = j + Len(op) /\ Len(e) = i + Len(xop)
        /\ k = i + j /\ Len(hxo) = k + 2
    BY <1>1, <1>2, <1>3, <1>4, <1>6, Zenon
  <2> HIDE DEF i, j, k, l
  <2>3. /\ 2 + l \in Nat /\ j + (2 + l) \in Nat
        /\ i + (j + (2 + l)) = i + j + 2 + l
    BY <2>1
  <2> QED
    BY <2>1, <2>2, <2>3, Zenon
<1>10. SubSeq(e, i + 1, i + j) = x
  <2> HIDE DEF i, j
  <2>1. i + j <= Len(e)
    BY <1>9
  <2>2. SubSeq(e, i + 1, i + j) = Take(Drop(e, i), j)
    BY <1>3, <1>9, <2>1, Within, Zenon
  <2> QED
    BY <1>5, <2>2, Zenon DEF i, j
<1>11. SubSeq(e, k + 1, k + 2) = o
  <2> HIDE DEF k
  <2>1. k + 2 <= Len(e) /\ k \in Nat /\ 2 \in Nat
    BY <1>9
  <2>2. SubSeq(e, k + 1, k + 2) = Take(Drop(e, k), 2)
    BY <1>3, <2>1, Within, Zenon
  <2> QED
    BY <1>7, <2>2, Zenon DEF k
<1>12. /\ SubSeq(e, i + j + 1, i + j + 2) = o
       /\ Drop(e, i + j + 2) = p
  <2> HIDE DEF i, j, k
  <2> QED
    BY <1>8, <1>9, <1>11
<1>13. e = h \o (x \o (o \o p))
  BY Zenon DEF e, xop, op
<1>14. Len(e) = Len(h) + Len(x) + 2 + Len(p)
  BY <1>9
<1> QED
  BY <1>3, <1>10, <1>12, <1>13, <1>14, Zenon DEF Fields

\* The parser of a datagram finds what was put into it.
THEOREM DatagramRead ==
  ASSUME NEW q \in Asked, NEW p \in Seq(Nat)
  PROVE  ParseUdpDatagram(EncodeUdpDatagram(q, p))
           = {[kind |-> q.kind, addr |-> q.addr, port |-> q.port, payload |-> p]}
<1> DEFINE e == EncodeUdpDatagram(q, p)
           t == SocksType[q.kind]
           x == q.addr
           o == q.port
           z == <<0, 0, 0>>
           k == <<t>>
           n == <<Len(x)>>
           zk == z \o k
           zkn == zk \o n
<1>1. /\ q.kind \in Kinds /\ x \in Seq(Nat) /\ o \in Seq(Nat) /\ Len(o) = 2 /\ Len(x) \in Nat
      /\ q.kind = "v4" => x = V4
      /\ q.kind = "v6" => x = V6
  BY AskedType
<1>2. t \in Nat /\ Known(SocksType, t) /\ KindOf(SocksType, t) = q.kind
  BY <1>1, KindsTold
<1>3. /\ k \in Seq(Nat) /\ n \in Seq(Nat) /\ Len(k) = 1 /\ Len(n) = 1
      /\ k[1] = t /\ n[1] = Len(x)
  BY <1>1, <1>2, Byte
<1>4. z \in Seq(Nat) /\ Len(z) = 3 /\ z[3] = 0
  OBVIOUS
<1> HIDE DEF t, x, o, z, k, n
<1>5. /\ zk \in Seq(Nat) /\ Len(zk) = 4 /\ zk[3] = 0 /\ zk[4] = t
  <2>1. /\ zk \in Seq(Nat) /\ Len(zk) = Len(z) + Len(k)
        /\ \A i \in 1 .. Len(z) : zk[i] = z[i]
        /\ \A i \in 1 .. Len(k) : zk[Len(z) + i] = k[i]
    BY <1>3, <1>4, Parts, Zenon
  <2> HIDE DEF zk
  <2>2. zk[Len(z) + 1] = k[1] /\ zk[3] = z[3]
    BY <1>3, <1>4, <2>1
  <2> QED
    BY <1>3, <1>4, <2>1, <2>2
<1> HIDE DEF zk
<1>6. /\ zkn \in Seq(Nat) /\ Len(zkn) = 5 /\ zkn[3] = 0 /\ zkn[4] = t /\ zkn[5] = Len(x)
  <2>1. /\ zkn \in Seq(Nat) /\ Len(zkn) = Len(zk) + Len(n)
        /\ \A i \in 1 .. Len(zk) : zkn[i] = zk[i]
        /\ \A i \in 1 .. Len(n) : zkn[Len(zk) + i] = n[i]
    BY <1>3, <1>5, Parts, Zenon
  <2> HIDE DEF zkn
  <2>2. zkn[Len(zk) + 1] = n[1] /\ zkn[3] = zk[3] /\ zkn[4] = zk[4]
    BY <1>3, <1>5, <2>1
  <2> QED
    BY <1>3, <1>5, <2>1, <2>2
<1> HIDE DEF zkn
<1> DEFINE op == o \o p
<1>7. op \in Seq(Nat)
  BY <1>1, Joined, Zenon
<1>8. ASSUME NEW s \in Seq(Nat)
      PROVE  (z \o ((k \o s) \o o)) \o p = zk \o (s \o op)
  <2> DEFINE ks == k \o s
             kso == ks \o o
             sop == s \o op
  <2>1. ks \in Seq(Nat) /\ sop \in Seq(Nat)
    BY <1>3, <1>7, Joined, Zenon
  <2> HIDE DEF ks
  <2>2. kso \in Seq(Nat) /\ kso \o p = ks \o op
    <3>1. ks \o o \in Seq(Nat)
      BY <1>1, <2>1, Joined, Zenon
    <3>2. (ks \o o) \o p = ks \o (o \o p)
      BY <1>1, <2>1, Chain, Zenon
    <3> QED
      BY <3>1, <3>2, Zenon
  <2> HIDE DEF kso, op, sop
  <2>3. (k \o s) \o op = k \o (s \o op)
    BY <1>3, <1>7, Chain, Zenon
  <2>4. (z \o kso) \o p = z \o (kso \o p)
    BY <1>4, <2>2, Chain, Zenon
  <2>5. (z \o k) \o sop = z \o (k \o sop)
    BY <1>3, <1>4, <2>1, Chain, Zenon
  <2> QED
    BY <2>2, <2>3, <2>4, <2>5, Zenon DEF ks, kso, sop, zk
<1>9. e = (z \o ((k \o Sized(q)) \o o)) \o p
  BY Zenon DEF e, z, k, o, t, EncodeUdpDatagram, SocksAddress
<1> DEFINE r == [kind |-> q.kind, addr |-> x, port |-> o, payload |-> p]
<1>10. CASE q.kind = "domain"
  <2>1. Sized(q) = n \o x /\ n \o x \in Seq(Nat)
    BY <1>1, <1>3, <1>10, Joined, Zenon DEF Sized, n, x
  <2>2. e = zk \o ((n \o x) \o op)
    BY <1>8, <1>9, <2>1, Zenon
  <2>3. (n \o x) \o op = n \o (x \o op) /\ x \o op \in Seq(Nat)
    <3> HIDE DEF op
    <3>1. x \o op \in Seq(Nat)
      BY <1>1, <1>7, Joined, Zenon
    <3>2. (n \o x) \o op = n \o (x \o op)
      BY <1>1, <1>3, <1>7, Chain, Zenon
    <3> QED
      BY <3>1, <3>2, Zenon
  <2> DEFINE xop == x \o op
  <2>4. xop \in Seq(Nat)
    BY <2>3
  <2> HIDE DEF xop
  <2>5. zkn \o xop = zk \o (n \o xop)
    BY <1>3, <1>5, <2>4, Chain, Zenon DEF zkn
  <2>6. e = zkn \o (x \o (o \o p))
    BY <2>2, <2>3, <2>5, Zenon DEF xop, op
  <2>7. Fields(e, zkn, x, o, p)
    BY <1>1, <1>6, <2>6, FieldsFound, Zenon
  <2> HIDE DEF e
  <2> DEFINE j == Len(x)
  <2>8. /\ Len(e) = 5 + j + 2 + Len(p) /\ e[3] = 0 /\ e[4] = t /\ e[5] = j
        /\ SubSeq(e, 5 + 1, 5 + j) = x
        /\ SubSeq(e, 5 + j + 1, 5 + j + 2) = o
        /\ Drop(e, 5 + j + 2) = p
        /\ Len(p) \in Nat /\ j \in Nat
    BY <1>1, <1>6, <2>7 DEF Fields
  <2> HIDE DEF j
  <2>9. /\ SubSeq(e, 6, 6 + j - 1) = x
        /\ SubSeq(e, 6 + j, 6 + j + 1) = o
        /\ Drop(e, 6 + j + 1) = p
        /\ ~(Len(e) < 5) /\ ~(Len(e) < 6 + j + 1)
    BY <2>8
  <2> HIDE DEF r
  <2>10. ParseUdpDatagram(e) = {r}
    BY <1>2, <1>10, <2>8, <2>9, Zenon DEF ParseUdpDatagram, r
  <2> QED
    BY <2>10 DEF e, r, x, o
<1>11. CASE q.kind # "domain"
  <2>1. Sized(q) = x
    BY <1>11, Zenon DEF Sized, x
  <2>2. e = zk \o (x \o (o \o p))
    BY <1>1, <1>8, <1>9, <2>1, Zenon DEF op
  <2>7. Fields(e, zk, x, o, p)
    BY <1>1, <1>5, <2>2, FieldsFound, Zenon
  <2> HIDE DEF e
  <2> DEFINE j == Len(x)
  <2>8. /\ Len(e) = 4 + j + 2 + Len(p) /\ e[3] = 0 /\ e[4] = t
        /\ SubSeq(e, 4 + 1, 4 + j) = x
        /\ SubSeq(e, 4 + j + 1, 4 + j + 2) = o
        /\ Drop(e, 4 + j + 2) = p
        /\ Len(p) \in Nat /\ j \in Nat
    BY <1>1, <1>5, <2>7 DEF Fields
  <2>e. /\ q.kind = "v4" => Len(V4) = j
        /\ q.kind = "v6" => Len(V6) = j
    BY <1>1
  <2>k. q.kind = "v4" \/ q.kind = "v6"
    BY <1>1, <1>11 DEF Kinds
  <2> HIDE DEF j
  <2>9. /\ SubSeq(e, 5, 5 + j - 1) = x
        /\ SubSeq(e, 5 + j, 5 + j + 1) = o
        /\ Drop(e, 5 + j + 1) = p
        /\ ~(Len(e) < 5) /\ ~(Len(e) < 5 + j + 1)
    BY <2>8
  <2> HIDE DEF r
  <2>10. CASE q.kind = "v4"
    <3>1. ParseUdpDatagram(e) = {r}
      BY <1>2, <2>10, <2>e, <2>8, <2>9, Zenon DEF ParseUdpDatagram, r
    <3> QED
      BY <3>1 DEF e, r, x, o
  <2>11. CASE q.kind = "v6"
    <3>1. ParseUdpDatagram(e) = {r}
      BY <1>2, <2>11, <2>e, <2>8, <2>9, Zenon DEF ParseUdpDatagram, r
    <3> QED
      BY <3>1 DEF e, r, x, o
  <2> QED
    BY <2>k, <2>10, <2>11
<1> QED
  BY <1>10, <1>11

-----------------------------------------------------------------------------
(* Frames.                                                                  *)

\* The datagrams an application sends.
Datagrams == {d \in Seq(Nat) : Len(d) \in 1 .. Base + 1}

\* The two digits of a length tell it.
LEMMA LengthRead ==
  ASSUME NEW n \in 0 .. Base + 1
  PROVE  /\ (n \div Base) % Base \in Nat /\ n % Base \in Nat
         /\ ((n \div Base) % Base) * Base + (n % Base) = n
<1>1. Base \in Nat /\ Base >= 2
  BY VisionAssumption
<1>2. CASE n < Base
  <2>1. n \div Base = 0 /\ n % Base = n
    BY <1>1, <1>2
  <2>2. 0 % Base = 0 /\ 0 * Base = 0
    BY <1>1
  <2> QED
    BY <2>1, <2>2
<1>3. CASE n = Base
  <2>1. Base \div Base = 1 /\ Base % Base = 0
    BY <1>1
  <2>2. 1 % Base = 1 /\ 1 * Base = Base
    BY <1>1
  <2> QED
    BY <1>1, <1>3, <2>1, <2>2
<1>4. CASE n = Base + 1
  <2>1. (Base + 1) \div Base = 1 /\ (Base + 1) % Base = 1
    BY <1>1
  <2>2. 1 % Base = 1 /\ 1 * Base = Base
    BY <1>1
  <2> QED
    BY <1>1, <1>4, <2>1, <2>2
<1> QED
  BY <1>1, <1>2, <1>3, <1>4

\* A frame is its length and its datagram.
LEMMA FrameType ==
  ASSUME NEW d \in Datagrams
  PROVE  /\ d \in Seq(Nat) /\ Len(d) \in Nat /\ Len(d) > 0
         /\ Digits(Len(d)) \in Seq(Nat) /\ Len(Digits(Len(d))) = 2
         /\ Digits(Len(d))[1] * Base + Digits(Len(d))[2] = Len(d)
         /\ FramePacket(d) \in Seq(Nat) /\ Len(FramePacket(d)) = 2 + Len(d)
<1> DEFINE n == Len(d)
           x == (n \div Base) % Base
           y == n % Base
<1>1. d \in Seq(Nat) /\ n \in Nat /\ n > 0 /\ n \in 0 .. Base + 1
  BY VisionAssumption DEF Datagrams
<1> HIDE DEF n
<1>2. x \in Nat /\ y \in Nat /\ x * Base + y = n
  BY <1>1, LengthRead
<1>3. Digits(n) = <<x, y>>
  BY DEF Digits
<1> HIDE DEF x, y
<1>4. <<x, y>> \in Seq(Nat) /\ Len(<<x, y>>) = 2 /\ <<x, y>>[1] = x /\ <<x, y>>[2] = y
  BY <1>2, TwoBytes
<1> DEFINE w == Digits(n)
<1>5. w \in Seq(Nat) /\ Len(w) = 2 /\ w[1] * Base + w[2] = n
  BY <1>2, <1>3, <1>4, Zenon
<1> HIDE DEF w
<1>6. w \o d \in Seq(Nat) /\ Len(w \o d) = Len(w) + Len(d)
  BY <1>1, <1>5, Parts, Zenon
<1>7. FramePacket(d) = w \o d
  BY Zenon DEF FramePacket, w, n
<1>8. 2 + n = Len(FramePacket(d))
  BY <1>5, <1>6, <1>7 DEF n
<1> QED
  BY <1>1, <1>5, <1>6, <1>7, <1>8, Zenon DEF w, n

\* What the relay sees of a frame at the head of what it has and of what is to come.
Seen(d, b, t, r) ==
  b \o t = FramePacket(d) \o r
    => /\ Len(b) \in Nat
       /\ Len(b) >= 2 => b[1] * Base + b[2] = Len(d)
       /\ Len(b) >= 2 + Len(d) => /\ SubSeq(b, 3, 2 + Len(d)) = d
                                  /\ Drop(b, 2 + Len(d)) \in Seq(Nat)
                                  /\ Drop(b, 2 + Len(d)) \o t = r
       /\ t = << >> => Len(b) >= 2 + Len(d)
LEMMA FrameSeen ==
  ASSUME NEW d \in Datagrams, NEW b \in Seq(Nat), NEW t \in Seq(Nat), NEW r \in Seq(Nat)
  PROVE  Seen(d, b, t, r)
<1> SUFFICES
      ASSUME b \o t = FramePacket(d) \o r
      PROVE  /\ Len(b) \in Nat
             /\ Len(b) >= 2 => b[1] * Base + b[2] = Len(d)
             /\ Len(b) >= 2 + Len(d) => /\ SubSeq(b, 3, 2 + Len(d)) = d
                                        /\ Drop(b, 2 + Len(d)) \in Seq(Nat)
                                        /\ Drop(b, 2 + Len(d)) \o t = r
             /\ t = << >> => Len(b) >= 2 + Len(d)
  BY DEF Seen
<1> DEFINE w == Digits(Len(d))
           f == FramePacket(d)
<1>1. /\ d \in Seq(Nat) /\ Len(d) \in Nat /\ Len(d) > 0 /\ w \in Seq(Nat) /\ Len(w) = 2
      /\ w[1] * Base + w[2] = Len(d) /\ f \in Seq(Nat) /\ Len(f) = 2 + Len(d)
  BY FrameType
<1>2. f = w \o d
  BY DEF FramePacket
<1>3. b \o t = f \o r
  OBVIOUS
<1> HIDE DEF w, f
<1>4. /\ \A i \in 1 .. Len(b) : (b \o t)[i] = b[i]
      /\ Len(b \o t) = Len(b) + Len(t) /\ Len(b) \in Nat /\ Len(t) \in Nat
  BY Parts, Zenon
<1>5. /\ \A i \in 1 .. Len(f) : (f \o r)[i] = f[i]
      /\ Len(f \o r) = Len(f) + Len(r) /\ Len(r) \in Nat
  BY <1>1, Parts, Zenon
<1>6. /\ \A i \in 1 .. Len(w) : f[i] = w[i]
  <2>1. \A i \in 1 .. Len(w) : (w \o d)[i] = w[i]
    BY <1>1, Parts, Zenon
  <2> QED
    BY <1>2, <2>1, Zenon
<1>7. Len(b) >= 2 => b[1] * Base + b[2] = Len(d)
  <2> SUFFICES ASSUME Len(b) >= 2 PROVE b[1] * Base + b[2] = Len(d)
    OBVIOUS
  <2>1. /\ 1 \in 1 .. Len(b) /\ 2 \in 1 .. Len(b) /\ 1 \in 1 .. Len(f) /\ 2 \in 1 .. Len(f)
        /\ 1 \in 1 .. Len(w) /\ 2 \in 1 .. Len(w)
    BY <1>1, <1>4
  <2>2. b[1] = w[1] /\ b[2] = w[2]
    <3>1. (b \o t)[1] = b[1] /\ (b \o t)[2] = b[2]
      BY <1>4, <2>1, Zenon
    <3>2. (f \o r)[1] = f[1] /\ (f \o r)[2] = f[2]
      BY <1>5, <2>1, Zenon
    <3>3. f[1] = w[1] /\ f[2] = w[2]
      BY <1>6, <2>1, Zenon
    <3> QED
      BY <1>3, <3>1, <3>2, <3>3, Zenon
  <2> QED
    BY <1>1, <2>2, Zenon
<1>8. Len(b) >= Len(f) => /\ Take(b, Len(f)) = f /\ Drop(b, Len(f)) \in Seq(Nat)
                          /\ Drop(b, Len(f)) \o t = r
  <2> SUFFICES ASSUME Len(b) >= Len(f)
               PROVE  /\ Take(b, Len(f)) = f /\ Drop(b, Len(f)) \in Seq(Nat)
                      /\ Drop(b, Len(f)) \o t = r
    OBVIOUS
  <2> QED
    <3>1. Taken(b, t, f, r)
      BY <1>1, PieceTaken, Zenon
    <3> QED
      BY <1>3, <3>1, Zenon DEF Taken
<1>9. Len(b) >= Len(f) => SubSeq(b, 3, 2 + Len(d)) = d
  <2> SUFFICES ASSUME Len(b) >= Len(f)
               PROVE  SubSeq(b, 3, 2 + Len(d)) = d
    OBVIOUS
  <2> DEFINE j == Len(d)
  <2>1. j \in Nat /\ 2 \in Nat /\ 2 + j <= Len(b) /\ 2 + j <= Len(f) /\ 2 + 1 = 3
    BY <1>1, <1>4
  <2> HIDE DEF j
  <2>2. SubSeq(f, 2 + 1, 2 + j) = Take(Drop(f, 2), j)
    BY <1>1, <2>1, Within, Zenon
  <2>3. Drop(f, 2) = d
    <3>1. Drop(w \o d, Len(w)) = d
      BY <1>1, Behind, Zenon
    <3> QED
      BY <1>1, <1>2, <3>1, Zenon
  <2>4. Take(d, j) = d
    BY <1>1 DEF Take, j
  <2>5. SubSeq(f, 3, 2 + j) = SubSeq(b, 3, 2 + j)
    <3>1. \A i \in 3 .. 2 + j : f[i] = b[i]
      <4> SUFFICES ASSUME NEW i \in 3 .. 2 + j PROVE f[i] = b[i]
        OBVIOUS
      <4>1. i \in 1 .. Len(b) /\ i \in 1 .. Len(f)
        <5>1. Len(b) \in Nat /\ Len(f) \in Nat
          BY <1>1, LenProperties
        <5> QED
          BY <2>1, <5>1
      <4>2. (b \o t)[i] = b[i] /\ (f \o r)[i] = f[i]
        BY <1>4, <1>5, <4>1, Zenon
      <4> QED
        BY <1>3, <4>2, Zenon
    <3> DEFINE u == SubSeq(f, 3, 2 + j)
               v == SubSeq(b, 3, 2 + j)
    <3>0. ASSUME NEW s \in Seq(Nat), 2 + j <= Len(s)
          PROVE  /\ SubSeq(s, 3, 2 + j) \in Seq(Nat) /\ Len(SubSeq(s, 3, 2 + j)) = j
                 /\ \A i \in 1 .. j : SubSeq(s, 3, 2 + j)[i] = s[2 + i]
      <4>1. SubSeq(s, 3, 2 + j) \in Seq(Nat) /\ Len(SubSeq(s, 3, 2 + j)) = j
        BY <2>1, <3>0
      <4>2. \A i \in 1 .. j : SubSeq(s, 3, 2 + j)[i] = s[2 + i]
        BY <2>1, <3>0
      <4> QED
        BY <4>1, <4>2
    <3>2. u \in Seq(Nat) /\ Len(u) = j /\ \A i \in 1 .. j : u[i] = f[2 + i]
      BY <1>1, <2>1, <3>0, Zenon
    <3>3. v \in Seq(Nat) /\ Len(v) = j /\ \A i \in 1 .. j : v[i] = b[2 + i]
      BY <2>1, <3>0, Zenon
    <3>4. \A i \in 1 .. j : 2 + i \in 3 .. 2 + j
      BY <2>1
    <3> HIDE DEF u, v
    <3>5. \A i \in 1 .. j : u[i] = v[i]
      BY <3>1, <3>2, <3>3, <3>4
    <3>6. u = v
      BY <3>2, <3>3, <3>5, SeqEqual
    <3> QED
      BY <3>6 DEF u, v
  <2> QED
    BY <2>1, <2>2, <2>3, <2>4, <2>5, Zenon DEF j
<1>10. t = << >> => Len(b) >= 2 + Len(d)
  <2>1. t = << >> => Len(t) = 0
    OBVIOUS
  <2> QED
    BY <1>1, <1>3, <1>4, <1>5, <2>1
<1> QED
  BY <1>1, <1>4, <1>7, <1>8, <1>9, <1>10, Zenon

\* s holds the frames of the datagrams of g that follow the first i.
Framed(g, i, s) ==
  \E rest \in [i .. Len(g) -> Seq(Nat)] :
    /\ rest[i] = s /\ rest[Len(g)] = << >>
    /\ \A j \in i .. Len(g) - 1 : rest[j] = FramePacket(g[j + 1]) \o rest[j + 1]

\* Nothing is left after the last of them, and a frame before it.
LEMMA FramedHead ==
  ASSUME NEW g \in Seq(Datagrams), NEW i \in 0 .. Len(g), NEW s, Framed(g, i, s)
  PROVE  /\ s \in Seq(Nat)
         /\ i = Len(g) => s = << >>
         /\ i < Len(g) => \E r \in Seq(Nat) : Framed(g, i + 1, r) /\ s = FramePacket(g[i + 1]) \o r
<1>1. PICK rest \in [i .. Len(g) -> Seq(Nat)] :
        /\ rest[i] = s /\ rest[Len(g)] = << >>
        /\ \A j \in i .. Len(g) - 1 : rest[j] = FramePacket(g[j + 1]) \o rest[j + 1]
  BY DEF Framed
<1>2. i \in i .. Len(g) /\ s \in Seq(Nat)
  BY <1>1
<1>3. i = Len(g) => s = << >>
  BY <1>1, Zenon
<1>4. i < Len(g) => \E r \in Seq(Nat) : Framed(g, i + 1, r) /\ s = FramePacket(g[i + 1]) \o r
  <2> SUFFICES ASSUME i < Len(g)
               PROVE  \E r \in Seq(Nat) : Framed(g, i + 1, r) /\ s = FramePacket(g[i + 1]) \o r
    OBVIOUS
  <2> DEFINE r == rest[i + 1]
             f == [j \in i + 1 .. Len(g) |-> rest[j]]
  <2>1. i + 1 \in i .. Len(g) /\ i \in i .. Len(g) - 1 /\ i + 1 \in i + 1 .. Len(g)
    OBVIOUS
  <2>2. r \in Seq(Nat)
    BY <1>1, <2>1
  <2>3. s = FramePacket(g[i + 1]) \o r
    BY <1>1, <2>1, Zenon
  <2>4. f \in [i + 1 .. Len(g) -> Seq(Nat)]
    BY <1>1
  <2>5. /\ f[i + 1] = r /\ f[Len(g)] = << >>
    BY <1>1, <2>1
  <2>6. \A j \in i + 1 .. Len(g) - 1 : f[j] = FramePacket(g[j + 1]) \o f[j + 1]
    <3> SUFFICES ASSUME NEW j \in i + 1 .. Len(g) - 1
                 PROVE  f[j] = FramePacket(g[j + 1]) \o f[j + 1]
      OBVIOUS
    <3>1. /\ j \in i .. Len(g) - 1 /\ j \in i + 1 .. Len(g) /\ j + 1 \in i + 1 .. Len(g)
      OBVIOUS
    <3>2. f[j] = rest[j] /\ f[j + 1] = rest[j + 1]
      BY <3>1
    <3> QED
      BY <1>1, <3>1, <3>2, Zenon
  <2> HIDE DEF f, r
  <2>7. Framed(g, i + 1, r)
    BY <2>4, <2>5, <2>6, Zenon DEF Framed
  <2> QED
    BY <2>2, <2>3, <2>7
<1> QED
  BY <1>2, <1>3, <1>4

\* Another datagram puts its frame at the end.
LEMMA FramedMore ==
  ASSUME NEW g \in Seq(Datagrams), NEW i \in 0 .. Len(g), NEW s, Framed(g, i, s),
         NEW d \in Datagrams
  PROVE  Framed(Append(g, d), i, s \o FramePacket(d))
<1>1. PICK rest \in [i .. Len(g) -> Seq(Nat)] :
        /\ rest[i] = s /\ rest[Len(g)] = << >>
        /\ \A j \in i .. Len(g) - 1 : rest[j] = FramePacket(g[j + 1]) \o rest[j + 1]
  BY DEF Framed
<1> DEFINE h == Append(g, d)
           n == Len(g)
           p == FramePacket(d)
           f == [j \in i .. n + 1 |-> IF j = n + 1 THEN << >> ELSE rest[j] \o p]
<1>2. n \in Nat /\ i \in Nat /\ i <= n
  BY LenProperties
<1>3. Len(h) = n + 1 /\ h[n + 1] = d /\ \A j \in 1 .. n : h[j] = g[j]
  OBVIOUS
<1>4. p \in Seq(Nat)
  BY FrameType
<1>e. << >> \in Seq(Nat)
  OBVIOUS
<1> HIDE DEF h, n, p
<1>5. \A j \in i .. n : rest[j] \in Seq(Nat) /\ rest[j] \o p \in Seq(Nat)
  <2>1. \A j \in i .. n : rest[j] \in Seq(Nat)
    BY <1>1 DEF n
  <2> QED
    BY <1>4, <2>1, Joined, Zenon
<1>6. \A j \in i .. n + 1 : j = n + 1 \/ j \in i .. n
  BY <1>2
<1>7. f \in [i .. n + 1 -> Seq(Nat)]
  BY <1>5, <1>6, <1>e
<1>8. \A j \in i .. n : f[j] = rest[j] \o p
  BY <1>2
<1>9. f[n + 1] = << >>
  BY <1>2
<1> HIDE DEF f
<1>10. f[i] = s \o p /\ f[n] = p
  <2>1. i \in i .. n /\ n \in i .. n
    BY <1>2
  <2>2. rest[i] = s /\ rest[n] = << >>
    BY <1>1, Zenon DEF n
  <2>3. << >> \o p = p
    BY <1>4, Empty, Zenon
  <2> QED
    BY <1>8, <2>1, <2>2, <2>3, Zenon
<1>11. \A j \in i .. n : f[j] = FramePacket(h[j + 1]) \o f[j + 1]
  <2> SUFFICES ASSUME NEW j \in i .. n
               PROVE  f[j] = FramePacket(h[j + 1]) \o f[j + 1]
    OBVIOUS
  <2>1. CASE j = n
    <3>1. p \o << >> = p
      BY <1>4, Empty, Zenon
    <3> QED
      BY <1>3, <1>9, <1>10, <2>1, <3>1, Zenon DEF p
  <2>2. CASE j # n
    <3>1. j \in i .. n - 1 /\ j + 1 \in i .. n /\ j + 1 \in 1 .. n
      BY <1>2, <2>2
    <3> DEFINE k == FramePacket(g[j + 1])
               r == rest[j + 1]
    <3>2. k \in Seq(Nat)
      <4>1. g[j + 1] \in Datagrams
        BY <3>1, ElementOfSeq DEF n
      <4> QED
        BY <4>1, FrameType, Zenon
    <3>3. r \in Seq(Nat)
      BY <1>5, <3>1, Zenon
    <3>4. rest[j] = k \o r
      BY <1>1, <3>1, Zenon DEF n
    <3>5. h[j + 1] = g[j + 1]
      BY <1>3, <3>1, Zenon
    <3>6. f[j] = rest[j] \o p /\ f[j + 1] = r \o p
      BY <1>8, <3>1, Zenon
    <3>7. FramePacket(h[j + 1]) = k
      BY <3>5, Zenon
    <3> HIDE DEF k, r
    <3>8. (k \o r) \o p = k \o (r \o p)
      BY <1>4, <3>2, <3>3, Chain, Zenon
    <3> QED
      BY <3>4, <3>6, <3>7, <3>8, Zenon
  <2> QED
    BY <2>1, <2>2, Zenon
<1>12. n = (n + 1) - 1
  BY <1>2
<1> QED
  <2>1. /\ f \in [i .. Len(h) -> Seq(Nat)] /\ f[i] = s \o p /\ f[Len(h)] = << >>
    BY <1>3, <1>7, <1>9, <1>10, Zenon
  <2>2. \A j \in i .. Len(h) - 1 : f[j] = FramePacket(h[j + 1]) \o f[j + 1]
    BY <1>3, <1>11, <1>12, Zenon
  <2>3. Framed(h, i, s \o p)
    BY <2>1, <2>2, Zenon DEF Framed
  <2> QED
    BY <2>3 DEF h, p

\* Nothing given, nothing framed.
LEMMA FramedNone ==
  Framed(<< >>, 0, << >>)
<1> DEFINE f == [j \in 0 .. 0 |-> << >>]
           g == << >>
<1>1. Len(g) = 0 /\ << >> \in Seq(Nat)
  OBVIOUS
<1>2. f \in [0 .. 0 -> Seq(Nat)] /\ f[0] = << >>
  BY <1>1
<1>3. \A j \in 0 .. 0 - 1 : FALSE
  OBVIOUS
<1> HIDE DEF f
<1>4. \E rest \in [0 .. Len(g) -> Seq(Nat)] :
        /\ rest[0] = << >> /\ rest[Len(g)] = << >>
        /\ \A j \in 0 .. Len(g) - 1 : rest[j] = FramePacket(g[j + 1]) \o rest[j + 1]
  BY <1>1, <1>2, <1>3
<1> QED
  BY <1>4 DEF Framed

-----------------------------------------------------------------------------
(* What is left of a header is a sequence of bytes.                         *)

\* Of a greeting and its request.
LEMMA SocksLeftType ==
  ASSUME NEW q \in Asked, NEW m \in Offers, NEW s \in SocksSteps
  PROVE  SocksPiece(q, m, s) \in Seq(Nat) /\ SocksLeft(q, m, s) \in Seq(Nat)
<1> DEFINE b5 == <<5>>
           b1 == <<1>>
           b0 == <<0>>
           n == <<Len(m)>>
           k == <<SocksType[q.kind]>>
           l == <<Len(q.addr)>>
           x == q.addr
           o == q.port
           e == << >>
           z == Sizing(q, o)
<1>1. /\ b5 \in Seq(Nat) /\ b1 \in Seq(Nat) /\ b0 \in Seq(Nat) /\ e \in Seq(Nat)
      /\ m \in Seq(Nat) /\ n \in Seq(Nat)
  <2>1. m \in Seq(Nat) /\ Len(m) \in Nat
    BY OfferType, Zenon
  <2> DEFINE i == Len(m)
  <2>2. i \in Nat
    BY <2>1
  <2> HIDE DEF i
  <2>3. <<i>> \in Seq(Nat)
    BY <2>2, Byte, Zenon
  <2>4. e \in Seq(Nat)
    OBVIOUS
  <2> QED
    BY <2>1, <2>3, <2>4, FixedBytes, Zenon DEF i
<1>2. /\ x \in Seq(Nat) /\ o \in Seq(Nat)
      /\ k \in Seq(Nat) /\ l \in Seq(Nat) /\ z \in Seq(Nat)
  <2>1. x \in Seq(Nat) /\ o \in Seq(Nat)
    BY AskedType, Zenon
  <2> QED
    BY <2>1, PieceTypes, Zenon
<1>3. /\ SocksPiece(q, m, "ver") = b5 /\ SocksPiece(q, m, "ver2") = b5
      /\ SocksPiece(q, m, "nmethods") = n /\ SocksPiece(q, m, "methods") = m
      /\ SocksPiece(q, m, "cmd") = b1 /\ SocksPiece(q, m, "rsv") = b0
      /\ SocksPiece(q, m, "atyp") = k /\ SocksPiece(q, m, "len") = l
      /\ SocksPiece(q, m, "addr") = x /\ SocksPiece(q, m, "port") = o
      /\ SocksPiece(q, m, "done") = e
  BY DEF SocksPiece
<1> DEFINE x1 == k \o z
           x2 == b0 \o x1
           x3 == b1 \o x2
           x4 == b5 \o x3
           x5 == m \o x4
           x6 == n \o x5
           x7 == b5 \o x6
           y1 == x \o o
           y2 == l \o y1
<1>4. /\ SocksLeft(q, m, "ver") = x7 /\ SocksLeft(q, m, "nmethods") = x6
      /\ SocksLeft(q, m, "methods") = x5 /\ SocksLeft(q, m, "ver2") = x4
      /\ SocksLeft(q, m, "cmd") = x3 /\ SocksLeft(q, m, "rsv") = x2
      /\ SocksLeft(q, m, "atyp") = x1 /\ SocksLeft(q, m, "len") = y2
      /\ SocksLeft(q, m, "addr") = y1 /\ SocksLeft(q, m, "port") = o
      /\ SocksLeft(q, m, "done") = e
  BY DEF SocksLeft, SocksRequestLeft, SocksAddressLeft
<1> HIDE DEF b5, b1, b0, n, k, l, x, o, e, z
<1>5. x1 \in Seq(Nat) /\ y1 \in Seq(Nat)
  BY <1>2, Joined, Zenon
<1> HIDE DEF x1, y1
<1>6. x2 \in Seq(Nat) /\ y2 \in Seq(Nat)
  BY <1>1, <1>2, <1>5, Joined, Zenon
<1> HIDE DEF x2, y2
<1>7. x3 \in Seq(Nat)
  BY <1>1, <1>6, Joined, Zenon
<1> HIDE DEF x3
<1>8. x4 \in Seq(Nat)
  BY <1>1, <1>7, Joined, Zenon
<1> HIDE DEF x4
<1>9. x5 \in Seq(Nat)
  BY <1>1, <1>8, Joined, Zenon
<1> HIDE DEF x5
<1>10. x6 \in Seq(Nat)
  BY <1>1, <1>9, Joined, Zenon
<1> HIDE DEF x6
<1>11. x7 \in Seq(Nat)
  BY <1>1, <1>10, Joined, Zenon
<1> HIDE DEF x7
<1>12. s \in {"ver", "nmethods", "methods", "ver2", "cmd", "rsv", "atyp", "len", "addr",
              "port", "done"}
  BY DEF SocksSteps
<1>13. SocksPiece(q, m, s) \in Seq(Nat)
  BY <1>1, <1>2, <1>3, <1>12, Zenon
<1>14. SocksLeft(q, m, s) \in Seq(Nat)
  BY <1>1, <1>2, <1>4, <1>5, <1>6, <1>7, <1>8, <1>9, <1>10, <1>11, <1>12, Zenon
<1> QED
  BY <1>13, <1>14

\* Of a VLESS request.
LEMMA VlessLeftType ==
  ASSUME NEW q \in Asked, NEW a \in {<< >>} \cup VisionAddons, NEW c \in {1, 2},
         NEW s \in VlessSteps
  PROVE  VlessPiece(q, a, c, s) \in Seq(Nat) /\ VlessLeft(q, a, c, s) \in Seq(Nat)
<1> DEFINE b0 == <<0>>
           n == <<Len(a)>>
           d == <<c>>
           u == Uuid
           k == <<VlessType[q.kind]>>
           l == <<Len(q.addr)>>
           x == q.addr
           o == q.port
           e == << >>
           z == Sizing(q, e)
<1>0. a \in Seq(Nat) /\ Len(a) \in Nat
  <2>1. CASE a = << >>
    BY <2>1
  <2>2. CASE a \in VisionAddons
    BY <2>2, AddonsUnderstood, Zenon
  <2> QED
    BY <2>1, <2>2
<1>1. /\ b0 \in Seq(Nat) /\ e \in Seq(Nat) /\ u \in Seq(Nat) /\ n \in Seq(Nat) /\ d \in Seq(Nat)
  <2> DEFINE i == Len(a)
  <2>1. i \in Nat /\ c \in Nat
    BY <1>0
  <2> HIDE DEF i
  <2>2. <<i>> \in Seq(Nat) /\ <<c>> \in Seq(Nat)
    BY <2>1, Byte, Zenon
  <2>3. e \in Seq(Nat)
    OBVIOUS
  <2>4. u \in Seq(Nat)
    BY VisionAssumption
  <2> QED
    BY <2>2, <2>3, <2>4, FixedBytes, Zenon DEF i
<1>2. /\ x \in Seq(Nat) /\ o \in Seq(Nat)
      /\ k \in Seq(Nat) /\ l \in Seq(Nat) /\ z \in Seq(Nat)
  <2>1. x \in Seq(Nat) /\ o \in Seq(Nat)
    BY AskedType, Zenon
  <2> QED
    BY <1>1, <2>1, PieceTypes, Zenon
<1>3. /\ VlessPiece(q, a, c, "version") = b0 /\ VlessPiece(q, a, c, "uuid") = u
      /\ VlessPiece(q, a, c, "addonsLen") = n /\ VlessPiece(q, a, c, "addons") = a
      /\ VlessPiece(q, a, c, "command") = d /\ VlessPiece(q, a, c, "port") = o
      /\ VlessPiece(q, a, c, "atyp") = k /\ VlessPiece(q, a, c, "len") = l
      /\ VlessPiece(q, a, c, "addr") = x /\ VlessPiece(q, a, c, "done") = e
  BY DEF VlessPiece
<1> DEFINE x1 == k \o z
           x2 == o \o x1
           x3 == d \o x2
           x4 == a \o x3
           x5 == n \o x4
           x6 == u \o x5
           x7 == b0 \o x6
           y1 == x \o e
           y2 == l \o y1
<1>4. /\ VlessLeft(q, a, c, "version") = x7 /\ VlessLeft(q, a, c, "uuid") = x6
      /\ VlessLeft(q, a, c, "addonsLen") = x5 /\ VlessLeft(q, a, c, "addons") = x4
      /\ VlessLeft(q, a, c, "command") = x3 /\ VlessLeft(q, a, c, "port") = x2
      /\ VlessLeft(q, a, c, "atyp") = x1 /\ VlessLeft(q, a, c, "len") = y2
      /\ VlessLeft(q, a, c, "addr") = y1 /\ VlessLeft(q, a, c, "done") = e
  BY DEF VlessLeft, VlessAddressLeft
<1> HIDE DEF b0, n, d, u, k, l, x, o, e, z
<1>5. x1 \in Seq(Nat) /\ y1 \in Seq(Nat)
  BY <1>1, <1>2, Joined, Zenon
<1> HIDE DEF x1, y1
<1>6. x2 \in Seq(Nat) /\ y2 \in Seq(Nat)
  BY <1>2, <1>5, Joined, Zenon
<1> HIDE DEF x2, y2
<1>7. x3 \in Seq(Nat)
  BY <1>1, <1>6, Joined, Zenon
<1> HIDE DEF x3
<1>8. x4 \in Seq(Nat)
  BY <1>0, <1>7, Joined, Zenon
<1> HIDE DEF x4
<1>9. x5 \in Seq(Nat)
  BY <1>1, <1>8, Joined, Zenon
<1> HIDE DEF x5
<1>10. x6 \in Seq(Nat)
  BY <1>1, <1>9, Joined, Zenon
<1> HIDE DEF x6
<1>11. x7 \in Seq(Nat)
  BY <1>1, <1>10, Joined, Zenon
<1> HIDE DEF x7
<1>12. s \in {"version", "uuid", "addonsLen", "addons", "command", "port", "atyp", "len",
              "addr", "done"}
  BY DEF VlessSteps
<1>13. VlessPiece(q, a, c, s) \in Seq(Nat)
  BY <1>0, <1>1, <1>2, <1>3, <1>12, Zenon
<1>14. VlessLeft(q, a, c, s) \in Seq(Nat)
  BY <1>1, <1>4, <1>5, <1>6, <1>7, <1>8, <1>9, <1>10, <1>11, <1>12, Zenon
<1> QED
  BY <1>13, <1>14

-----------------------------------------------------------------------------
(* One piece read.                                                          *)

\* The parser p of a greeting and a request has s before it.
SocksRead(q, m, p, s) ==
  /\ p \in Parses /\ p.step \in SocksSteps /\ SocksFound(p, q)
  /\ p.need = Len(SocksPiece(q, m, p.step)) /\ s = SocksLeft(q, m, p.step)

\* The decoder p has s before it, body being what follows the header.
VlessRead(q, a, c, p, s, body) ==
  /\ p \in Parses /\ p.step \in VlessSteps /\ VlessFound(p, q, a, c)
  /\ p.need = Len(VlessPiece(q, a, c, p.step))
  /\ s = VlessLeft(q, a, c, p.step) \o body

\* What is left to be read begins with the piece that is read next.
LEMMA SocksHead ==
  ASSUME NEW q \in Asked, NEW m \in Offers, NEW s \in SocksSteps \ {"done"}
  PROVE  \E r \in Seq(Nat) : SocksLeft(q, m, s) = SocksPiece(q, m, s) \o r
<1>1. \A u \in SocksSteps : SocksLeft(q, m, u) \in Seq(Nat)
  BY SocksLeftType, Zenon
<1>2. /\ "nmethods" \in SocksSteps /\ "methods" \in SocksSteps /\ "ver2" \in SocksSteps
      /\ "cmd" \in SocksSteps /\ "rsv" \in SocksSteps /\ "atyp" \in SocksSteps
      /\ "addr" \in SocksSteps /\ "port" \in SocksSteps /\ "done" \in SocksSteps
  BY DEF SocksSteps
<1>3. q.port \in Seq(Nat)
  BY AskedType, Zenon
<1>4. q.port \o << >> = q.port
  BY <1>3, Empty, Zenon
<1>5. Sizing(q, q.port) \in Seq(Nat)
  BY <1>3, PieceTypes, Zenon
<1>6. /\ SocksLeft(q, m, "ver") = SocksPiece(q, m, "ver") \o SocksLeft(q, m, "nmethods")
      /\ SocksLeft(q, m, "nmethods") = SocksPiece(q, m, "nmethods") \o SocksLeft(q, m, "methods")
      /\ SocksLeft(q, m, "methods") = SocksPiece(q, m, "methods") \o SocksLeft(q, m, "ver2")
      /\ SocksLeft(q, m, "ver2") = SocksPiece(q, m, "ver2") \o SocksLeft(q, m, "cmd")
      /\ SocksLeft(q, m, "cmd") = SocksPiece(q, m, "cmd") \o SocksLeft(q, m, "rsv")
      /\ SocksLeft(q, m, "rsv") = SocksPiece(q, m, "rsv") \o SocksLeft(q, m, "atyp")
      /\ SocksLeft(q, m, "atyp") = SocksPiece(q, m, "atyp") \o Sizing(q, q.port)
      /\ SocksLeft(q, m, "len") = SocksPiece(q, m, "len") \o SocksLeft(q, m, "addr")
      /\ SocksLeft(q, m, "addr") = SocksPiece(q, m, "addr") \o SocksLeft(q, m, "port")
  BY DEF SocksLeft, SocksPiece, SocksRequestLeft, SocksAddressLeft
<1>7. SocksLeft(q, m, "port") = SocksPiece(q, m, "port") \o << >>
  BY <1>4 DEF SocksLeft, SocksPiece
<1>8. << >> \in Seq(Nat)
  OBVIOUS
<1>9. s \in {"ver", "nmethods", "methods", "ver2", "cmd", "rsv", "atyp", "len", "addr", "port"}
  BY DEF SocksSteps
<1> QED
  BY <1>1, <1>2, <1>5, <1>6, <1>7, <1>8, <1>9, Zenon

\* consume() takes a piece and leaves the next one at the head.
LEMMA SocksConsumed ==
  ASSUME NEW q \in Asked, NEW m \in Offers, NEW p, NEW b \in Seq(Nat), NEW t \in Seq(Nat),
         SocksRead(q, m, p, b \o t), p.step # "done", Len(b) >= p.need
  PROVE  LET n == SocksStep(p, Take(b, p.need))
         IN  /\ Drop(b, p.need) \in Seq(Nat)
             /\ n.step = "error" \/ SocksRead(q, m, n, Drop(b, p.need) \o t)
<1> DEFINE x == SocksPiece(q, m, p.step)
           n == SocksStep(p, x)
           r == SocksLeft(q, m, n.step)
<1>1. /\ p \in Parses /\ p.step \in SocksSteps /\ SocksFound(p, q)
      /\ p.need = Len(x) /\ b \o t = SocksLeft(q, m, p.step) /\ p.step \in SocksSteps \ {"done"}
  BY DEF SocksRead
<1>2. \/ n.step = "error"
      \/ /\ n \in Parses /\ n.step \in SocksSteps /\ SocksFound(n, q)
         /\ n.need = Len(SocksPiece(q, m, n.step))
         /\ SocksLeft(q, m, p.step) = x \o r
  BY <1>1, SocksUnderstood, Zenon
<1>3. x \in Seq(Nat) /\ Len(b) >= Len(x)
  <2>1. x \in Seq(Nat)
    BY <1>1, SocksLeftType, Zenon
  <2> QED
    BY <1>1, <2>1
<1>r. n.step \in SocksSteps => r \in Seq(Nat)
  BY SocksLeftType, Zenon
<1>h. PICK h \in Seq(Nat) : b \o t = x \o h
  BY <1>1, SocksHead, Zenon
<1> HIDE DEF x, r
<1>4. Taken(b, t, x, h)
  BY <1>3, PieceTaken, Zenon
<1>5. Take(b, Len(x)) = x /\ Drop(b, Len(x)) \in Seq(Nat) /\ Drop(b, Len(x)) \o t = h
  BY <1>3, <1>4, <1>h, Zenon DEF Taken
<1>6. SocksStep(p, Take(b, p.need)) = n
  BY <1>1, <1>5, Zenon
<1>7. n.step # "error" => SocksRead(q, m, n, Drop(b, p.need) \o t)
  <2> HIDE DEF n
  <2> SUFFICES ASSUME n.step # "error"
               PROVE  SocksRead(q, m, n, Drop(b, p.need) \o t)
    OBVIOUS
  <2>1. /\ n \in Parses /\ n.step \in SocksSteps /\ SocksFound(n, q)
        /\ n.need = Len(SocksPiece(q, m, n.step)) /\ b \o t = x \o r /\ r \in Seq(Nat)
    BY <1>1, <1>2, <1>r, Zenon
  <2>2. Taken(b, t, x, r)
    BY <1>3, <2>1, PieceTaken, Zenon
  <2>3. Drop(b, Len(x)) \o t = r
    BY <1>3, <2>1, <2>2, Zenon DEF Taken
  <2>4. Drop(b, p.need) \o t = SocksLeft(q, m, n.step)
    BY <1>1, <2>3, Zenon DEF r
  <2> QED
    BY <2>1, <2>4, Zenon DEF SocksRead
<1> QED
  BY <1>1, <1>5, <1>6, <1>7, Zenon

\* The same of the header of VLESS, which is never refused.
LEMMA VlessConsumed ==
  ASSUME NEW q \in Asked, NEW a \in {<< >>} \cup VisionAddons, NEW c \in {1, 2},
         NEW p, NEW b \in Seq(Nat), NEW t \in Seq(Nat), NEW body \in Seq(Nat),
         VlessRead(q, a, c, p, b \o t, body), p.step # "done", Len(b) >= p.need
  PROVE  LET n == VlessStep(p, Take(b, p.need))
         IN  /\ Drop(b, p.need) \in Seq(Nat)
             /\ VlessRead(q, a, c, n, Drop(b, p.need) \o t, body)
<1> DEFINE x == VlessPiece(q, a, c, p.step)
           n == VlessStep(p, x)
           l == VlessLeft(q, a, c, n.step)
           r == l \o body
<1>1. /\ p \in Parses /\ p.step \in VlessSteps /\ VlessFound(p, q, a, c)
      /\ p.need = Len(x) /\ b \o t = VlessLeft(q, a, c, p.step) \o body
      /\ p.step \in VlessSteps \ {"done"}
  BY DEF VlessRead
<1>2. /\ n \in Parses /\ n.step \in VlessSteps /\ VlessFound(n, q, a, c)
      /\ n.need = Len(VlessPiece(q, a, c, n.step))
      /\ VlessLeft(q, a, c, p.step) = x \o l
  BY <1>1, VlessUnderstood, Zenon
<1>3. x \in Seq(Nat) /\ Len(b) >= Len(x)
  <2>1. x \in Seq(Nat)
    BY <1>1, VlessLeftType, Zenon
  <2> QED
    BY <1>1, <2>1
<1>4. l \in Seq(Nat)
  BY <1>2, VlessLeftType, Zenon
<1> HIDE DEF x, l
<1>5. b \o t = x \o r /\ r \in Seq(Nat)
  <2>1. (x \o l) \o body = x \o (l \o body)
    BY <1>3, <1>4, Chain, Zenon
  <2>2. l \o body \in Seq(Nat)
    BY <1>4, Joined, Zenon
  <2> QED
    BY <1>1, <1>2, <2>1, <2>2, Zenon
<1> HIDE DEF r
<1>6. Taken(b, t, x, r)
  BY <1>3, <1>5, PieceTaken, Zenon
<1>7. Take(b, Len(x)) = x /\ Drop(b, Len(x)) \in Seq(Nat) /\ Drop(b, Len(x)) \o t = r
  BY <1>3, <1>5, <1>6, Zenon DEF Taken
<1>8. VlessStep(p, Take(b, p.need)) = n
  BY <1>1, <1>7, Zenon
<1> HIDE DEF n
<1>9. VlessRead(q, a, c, n, Drop(b, p.need) \o t, body)
  <2>1. Drop(b, p.need) \o t = VlessLeft(q, a, c, n.step) \o body
    BY <1>1, <1>7, Zenon DEF r, l
  <2> QED
    BY <1>2, <2>1, Zenon DEF VlessRead
<1> QED
  BY <1>1, <1>7, <1>8, <1>9, Zenon

-----------------------------------------------------------------------------
(* The inductive invariant.                                                 *)

\* t is what the reader has yet to get of what was sent: what is under way, or all
\* that a broken connection has lost.
Coming(t, l, o) ==
  /\ t \in Seq(Nat)
  /\ o # "broken" => t = l
  /\ o = "broken" => l = << >>

\* The body of a session holds the content given.
Holds(body, o, g) ==
  /\ body \in Seq(Nat)
  /\ o = "tcp" => body = g
  /\ o = "udp" => Framed(g, 0, body)

StateTypes ==
  /\ mode \in Modes /\ ask \in Asked
  /\ line \in Seq(Nat) /\ buf \in Seq(Nat) /\ pieces \in Nat
  /\ mode = "tcp" => given \in Seq(Nat)
  /\ mode = "udp" => given \in Seq(Datagrams)

\* The application's request is being read.
Asking ==
  /\ side = "socks" /\ mode = "tcp" /\ given = << >> /\ delivered = << >>
  /\ \E m \in Offers, t \in Seq(Nat) :
       Coming(t, line, over) /\ SocksRead(ask, m, parse, buf \o t)

\* The header of the session is being read.
Reading ==
  /\ side = "tunnel" /\ delivered = << >>
  /\ \E a \in Extras(mode), t \in Seq(Nat), body \in Seq(Nat) :
       /\ Coming(t, line, over) /\ Holds(body, mode, given)
       /\ VlessRead(ask, a, Command[mode], parse, buf \o t, body)

\* The header has been understood: what is delivered, had and under way is the
\* content given.
Relaying ==
  /\ side = "tunnel" /\ parse.step = "relay"
  /\ ToVlessRequest(parse) = ask /\ parse.cmd = Command[mode]
  /\ parse.flow = IF mode = "vision" THEN VisionName ELSE << >>
  /\ mode = "tcp" => /\ buf = << >> /\ delivered \in Seq(Nat)
                     /\ \E t \in Seq(Nat) : Coming(t, line, over) /\ delivered \o t = given
  /\ mode = "udp" => \E t \in Seq(Nat), i \in 0 .. Len(given) :
                       /\ Coming(t, line, over) /\ delivered = SubSeq(given, 1, i)
                       /\ Framed(given, i, buf \o t)

\* The header has been refused.
Refused == parse.step = "error" /\ delivered = << >>

IInv == StateTypes /\ (Asking \/ Reading \/ Relaying \/ Refused)

-----------------------------------------------------------------------------
(* What the invariant says.                                                 *)

\* The extras and the command of a session.
LEMMA Sessions ==
  ASSUME NEW o \in Modes
  PROVE  /\ Command[o] \in {1, 2}
         /\ \A a \in Extras(o) : /\ a \in {<< >>} \cup VisionAddons
                                 /\ a # << >> <=> o = "vision"
<1>1. Command[o] \in {1, 2}
  BY DEF Command, Modes
<1>2. \A a \in VisionAddons : a # << >>
  BY DEF VisionAddons
<1> QED
  BY <1>1, <1>2 DEF Extras

\* What a parser that is done has found.
LEMMA SocksDone ==
  ASSUME NEW q \in Asked, NEW m \in Offers, NEW p, NEW s,
         SocksRead(q, m, p, s), p.step = "done"
  PROVE  ToVlessRequest(p) = q
<1>1. p.kind = q.kind /\ p.addr = q.addr /\ p.port = q.port
  BY DEF SocksRead, SocksFound
<1>2. q = [kind |-> q.kind, addr |-> q.addr, port |-> q.port]
  BY AskedType, Zenon
<1> QED
  BY <1>1, <1>2, Zenon DEF ToVlessRequest

\* The same of the decoder, and what is before it then.
LEMMA VlessDone ==
  ASSUME NEW q \in Asked, NEW o \in Modes, NEW a \in Extras(o), NEW p, NEW s,
         NEW body \in Seq(Nat), VlessRead(q, a, Command[o], p, s, body), p.step = "done"
  PROVE  /\ ToVlessRequest(p) = q /\ p.cmd = Command[o]
         /\ p.flow = IF o = "vision" THEN VisionName ELSE << >>
         /\ s = body /\ p \in Parses
<1>1. /\ p.kind = q.kind /\ p.addr = q.addr /\ p.port = q.port /\ p.cmd = Command[o]
      /\ p.flow = IF a # << >> THEN VisionName ELSE << >>
      /\ p \in Parses
  BY DEF VlessRead, VlessFound
<1>2. q = [kind |-> q.kind, addr |-> q.addr, port |-> q.port]
  BY AskedType, Zenon
<1>3. ToVlessRequest(p) = q
  BY <1>1, <1>2, Zenon DEF ToVlessRequest
<1>4. a # << >> <=> o = "vision"
  BY Sessions, Zenon
<1>5. s = << >> \o body
  BY DEF VlessRead, VlessLeft
<1>6. s = body
  BY <1>5, Empty, Zenon
<1> QED
  BY <1>1, <1>3, <1>4, <1>6, Zenon

\* What a receive does to what is to come.
Moved(b, l, n, t, o) ==
  Coming(t, l, o) => /\ Coming(Drop(l, n), Drop(l, n), o) /\ t = l
                     /\ Take(l, n) \in Seq(Nat) /\ Drop(l, n) \in Seq(Nat)
                     /\ b \o Take(l, n) \in Seq(Nat)
                     /\ (b \o Take(l, n)) \o Drop(l, n) = b \o t
LEMMA ComingMoved ==
  ASSUME NEW b \in Seq(Nat), NEW l \in Seq(Nat), NEW n \in 1 .. Len(l), NEW t, NEW o
  PROVE  Moved(b, l, n, t, o)
<1> SUFFICES ASSUME Coming(t, l, o)
             PROVE  /\ Coming(Drop(l, n), Drop(l, n), o) /\ t = l
                    /\ Take(l, n) \in Seq(Nat) /\ Drop(l, n) \in Seq(Nat)
                    /\ b \o Take(l, n) \in Seq(Nat)
                    /\ (b \o Take(l, n)) \o Drop(l, n) = b \o t
  BY DEF Moved
<1>1. l # << >>
  <2>1. l = << >> => Len(l) = 0
    OBVIOUS
  <2> QED
    BY <2>1
<1>2. o # "broken" /\ t = l
  BY <1>1, Zenon DEF Coming
<1>3. /\ Take(l, n) \in Seq(Nat) /\ Drop(l, n) \in Seq(Nat)
      /\ b \o Take(l, n) \in Seq(Nat)
      /\ (b \o Take(l, n)) \o Drop(l, n) = b \o l
  BY PieceMoved, Zenon
<1>4. Coming(Drop(l, n), Drop(l, n), o)
  BY <1>2, <1>3, Zenon DEF Coming
<1> QED
  BY <1>2, <1>3, <1>4, Zenon

-----------------------------------------------------------------------------
(* The steps.                                                               *)

\* The session starts with a header to be read.
LEMMA InitInvariant == Init => IInv
<1> SUFFICES ASSUME Init PROVE IInv
  OBVIOUS
<1>e. << >> \in Seq(Nat) /\ Len(<< >>) = 0 /\ << >> \in Seq(Datagrams)
  OBVIOUS
<1>0. /\ mode \in Modes /\ ask \in Asked /\ over = "no" /\ buf = << >>
      /\ given = << >> /\ pieces = 0 /\ delivered = << >>
      /\ side = IF mode = "tcp" THEN "socks" ELSE "tunnel"
  BY DEF Init
<1>1. ASSUME NEW l \in Seq(Nat), line = l
      PROVE  StateTypes
  BY <1>e, <1>0, <1>1 DEF StateTypes
<1>2. ASSUME NEW l \in Seq(Nat)
      PROVE  << >> \o l = l /\ l \o << >> = l /\ (line = l => Coming(l, line, over))
  <2>1. << >> \o l = l /\ l \o << >> = l
    BY Empty, Zenon
  <2>2. line = l => Coming(l, line, over)
    BY <1>0, Zenon DEF Coming
  <2> QED
    BY <2>1, <2>2, Zenon
<1>3. CASE mode = "tcp"
  <2>1. PICK m \in Offers : line = SocksRequest(ask, m)
    BY <1>3 DEF Init, Offers
  <2>2. parse = Start("ver")
    BY <1>3 DEF Init
  <2>3. line \in Seq(Nat) /\ line = SocksLeft(ask, m, "ver")
    BY <1>0, <2>1, SocksWritten, Zenon
  <2>4. SocksRead(ask, m, parse, buf \o line)
    <3>1. parse \in Parses /\ parse.step = "ver" /\ parse.need = 1
      BY <1>e, <2>2, StepNames DEF Start, Parses, Kinds
    <3>2. /\ "ver" \in SocksSteps /\ Len(SocksPiece(ask, m, "ver")) = 1
      BY DEF SocksSteps, SocksPiece
    <3>3. SocksFound(parse, ask)
      BY <3>1 DEF SocksFound
    <3>4. buf \o line = SocksLeft(ask, m, "ver")
      BY <1>0, <1>2, <2>3, Zenon
    <3> QED
      BY <3>1, <3>2, <3>3, <3>4, Zenon DEF SocksRead
  <2>5. Coming(line, line, over)
    BY <1>2, <2>3, Zenon
  <2>6. Asking
    BY <1>0, <1>3, <2>3, <2>4, <2>5, Zenon DEF Asking
  <2> QED
    BY <1>1, <2>3, <2>6, Zenon DEF IInv
<1>4. ASSUME NEW a \in Extras(mode), mode # "tcp", parse = Start("version"),
             line \in Seq(Nat), line = VlessLeft(ask, a, Command[mode], "version"),
             mode = "udp" => Framed(given, 0, << >>)
      PROVE  IInv
  <2>1. parse \in Parses /\ parse.step = "version" /\ parse.need = 1 /\ parse.flow = << >>
    BY <1>e, <1>4, StepNames DEF Start, Parses, Kinds
  <2>2. "version" \in VlessSteps /\ Len(VlessPiece(ask, a, Command[mode], "version")) = 1
    BY DEF VlessSteps, VlessPiece
  <2>3. VlessFound(parse, ask, a, Command[mode])
    BY <2>1 DEF VlessFound
  <2>4. (buf \o line) = VlessLeft(ask, a, Command[mode], "version") \o << >>
    BY <1>0, <1>2, <1>4, Zenon
  <2>5. VlessRead(ask, a, Command[mode], parse, buf \o line, << >>)
    BY <2>1, <2>2, <2>3, <2>4, Zenon DEF VlessRead
  <2>6. Holds(<< >>, mode, given)
    BY <1>e, <1>4, Zenon DEF Holds
  <2>7. Coming(line, line, over)
    BY <1>2, <1>4, Zenon
  <2>8. Reading
    BY <1>e, <1>0, <1>4, <2>5, <2>6, <2>7, Zenon DEF Reading
  <2> QED
    BY <1>1, <1>4, <2>8, Zenon DEF IInv
<1>5. CASE mode = "vision"
  <2>1. PICK a \in VisionAddons : line = ForeignRequest(ask, a)
    BY <1>5 DEF Init
  <2>2. parse = Start("version")
    BY <1>5 DEF Init
  <2>3. a \in Seq(Nat)
    BY AddonBytes DEF VisionAddons
  <2>4. line \in Seq(Nat) /\ line = VlessLeft(ask, a, 1, "version")
    <3>1. 1 \in {1, 2}
      OBVIOUS
    <3> QED
      BY <1>0, <2>1, <2>3, <3>1, VlessWritten, Zenon
  <2>5. Command[mode] = 1 /\ a \in Extras(mode) /\ mode # "tcp" /\ mode # "udp"
    BY <1>5 DEF Command, Extras
  <2> QED
    BY <1>4, <2>2, <2>4, <2>5, Zenon
<1>6. CASE mode = "udp"
  <2>1. <<1>> \in Seq(Nat)
    BY FixedBytes
  <2>2. PICK q \in ParseUdpDatagram(EncodeUdpDatagram(ask, <<1>>)) :
          line = EncodeRequest(ToVlessRequest(q), Command[mode])
    BY <1>6 DEF Init
  <2>3. parse = Start("version")
    BY <1>6 DEF Init
  <2>4. q = [kind |-> ask.kind, addr |-> ask.addr, port |-> ask.port, payload |-> <<1>>]
    <3> DEFINE w == [kind |-> ask.kind, addr |-> ask.addr, port |-> ask.port, payload |-> <<1>>]
    <3>1. ParseUdpDatagram(EncodeUdpDatagram(ask, <<1>>)) = {w}
      BY <1>0, <2>1, DatagramRead, Zenon
    <3> HIDE DEF w
    <3>2. q \in {w}
      BY <3>1, Zenon
    <3>3. q = w
      BY <3>2, Zenon
    <3> QED
      BY <3>3, Zenon DEF w
  <2>5. ToVlessRequest(q) = ask
    <3>1. ToVlessRequest(q) = [kind |-> ask.kind, addr |-> ask.addr, port |-> ask.port]
      BY <2>4 DEF ToVlessRequest
    <3>2. ask = [kind |-> ask.kind, addr |-> ask.addr, port |-> ask.port]
      BY <1>0, AskedType, Zenon
    <3> QED
      BY <3>1, <3>2, Zenon
  <2>6. Command[mode] \in {1, 2} /\ << >> \in Extras(mode) /\ mode # "tcp"
    BY <1>6 DEF Command, Extras
  <2>7. line \in Seq(Nat) /\ line = VlessLeft(ask, << >>, Command[mode], "version")
    BY <1>e, <1>0, <2>2, <2>5, <2>6, VlessWritten, Zenon
  <2>8. Framed(given, 0, << >>)
    BY <1>0, FramedNone, Zenon
  <2> QED
    BY <1>4, <2>3, <2>6, <2>7, <2>8, Zenon
<1> QED
  BY <1>0, <1>3, <1>5, <1>6 DEF Modes

\* Only the reader of a request or a header waits for bytes: it has not refused it,
\* nor begun to relay.
LEMMA Waiting ==
  ASSUME IInv, Waits
  PROVE  Asking \/ Reading
<1>1. parse.step # "relay" /\ parse.step # "error"
  BY DEF Waits
<1> QED
  BY <1>1, Zenon DEF IInv, Relaying, Refused

\* A read adds to the buffer what it takes from the stream.
LEMMA ReceiveInvariant ==
  ASSUME IInv, Receive
  PROVE  IInv'
<1>1. PICK n \in 1 .. Len(line) : buf' = buf \o Take(line, n) /\ line' = Drop(line, n)
  BY DEF Receive
<1>2. /\ mode' = mode /\ ask' = ask /\ side' = side /\ over' = over /\ parse' = parse
      /\ given' = given /\ pieces' = pieces /\ delivered' = delivered
  BY DEF Receive, conversation
<1>3. buf \in Seq(Nat) /\ line \in Seq(Nat) /\ StateTypes
  BY DEF IInv, StateTypes
<1>4. ASSUME NEW t \in Seq(Nat), Coming(t, line, over)
      PROVE  /\ Coming(line', line', over') /\ line' \in Seq(Nat) /\ buf' \in Seq(Nat)
             /\ buf' \o line' = buf \o t
  <2>1. /\ Coming(Drop(line, n), Drop(line, n), over)
        /\ Drop(line, n) \in Seq(Nat) /\ buf \o Take(line, n) \in Seq(Nat)
        /\ (buf \o Take(line, n)) \o Drop(line, n) = buf \o t
    <3>1. Moved(buf, line, n, t, over)
      BY <1>3, ComingMoved, Zenon
    <3> QED
      BY <1>4, <3>1, Zenon DEF Moved
  <2> QED
    BY <1>1, <1>2, <2>1, Zenon
<1>5. ASSUME line' \in Seq(Nat), buf' \in Seq(Nat) PROVE StateTypes'
  BY <1>2, <1>3, <1>5, Zenon DEF StateTypes
<1>6. CASE Asking
  <2>1. PICK m \in Offers, t \in Seq(Nat) :
          Coming(t, line, over) /\ SocksRead(ask, m, parse, buf \o t)
    BY <1>6 DEF Asking
  <2>2. /\ side' = "socks" /\ mode' = "tcp" /\ given' = << >> /\ delivered' = << >>
    BY <1>2, <1>6, Zenon DEF Asking
  <2>3. SocksRead(ask', m, parse', buf' \o line')
    BY <1>2, <1>4, <2>1, Zenon
  <2>4. Asking'
    BY <1>4, <2>1, <2>2, <2>3, Zenon DEF Asking
  <2> QED
    BY <1>4, <1>5, <2>1, <2>4, Zenon DEF IInv
<1>7. CASE Reading
  <2>1. PICK a \in Extras(mode), t \in Seq(Nat), body \in Seq(Nat) :
          /\ Coming(t, line, over) /\ Holds(body, mode, given)
          /\ VlessRead(ask, a, Command[mode], parse, buf \o t, body)
    BY <1>7 DEF Reading
  <2>2. side' = "tunnel" /\ delivered' = << >> /\ a \in Extras(mode') /\ Holds(body, mode', given')
    BY <1>2, <1>7, <2>1, Zenon DEF Reading
  <2>3. VlessRead(ask', a, Command[mode'], parse', buf' \o line', body)
    BY <1>2, <1>4, <2>1, Zenon
  <2>4. Reading'
    BY <1>4, <2>1, <2>2, <2>3, Zenon DEF Reading
  <2> QED
    BY <1>4, <1>5, <2>1, <2>4, Zenon DEF IInv
<1>8. Asking \/ Reading
  BY Waiting DEF Receive
<1> QED
  BY <1>6, <1>7, <1>8, Zenon

\* A header that ends too soon is refused.
LEMMA ReceiveEndInvariant ==
  ASSUME IInv, ReceiveEnd
  PROVE  IInv'
<1>1. /\ mode' = mode /\ ask' = ask /\ line' = line /\ buf' = buf
      /\ given' = given /\ pieces' = pieces /\ delivered' = delivered
      /\ parse' = Bad(parse)
  BY DEF ReceiveEnd, conversation
<1>2. Asking \/ Reading
  BY Waiting DEF ReceiveEnd
<1>3. parse \in Parses /\ delivered = << >>
  BY <1>2 DEF Asking, Reading, SocksRead, VlessRead
<1>4. parse'.step = "error"
  BY <1>1, <1>3 DEF Bad, At, Parses
<1>5. StateTypes'
  BY <1>1, Zenon DEF IInv, StateTypes
<1> QED
  BY <1>1, <1>3, <1>4, <1>5, Zenon DEF IInv, Refused

\* A parser that takes its piece goes on to the next, or refuses.
LEMMA ConsumeInvariant ==
  ASSUME IInv, Consume
  PROVE  IInv'
<1> DEFINE b == Take(buf, parse.need)
<1>1. /\ mode' = mode /\ ask' = ask /\ side' = side /\ line' = line /\ over' = over
      /\ given' = given /\ pieces' = pieces /\ delivered' = delivered
      /\ buf' = Drop(buf, parse.need)
      /\ parse' = IF side = "socks" THEN SocksStep(parse, b) ELSE VlessStep(parse, b)
  BY DEF Consume, conversation
<1>2. parse.step # "done" /\ Len(buf) >= parse.need
  BY DEF Consume, Waits
<1>3. buf \in Seq(Nat) /\ mode \in Modes /\ ask \in Asked
  BY DEF IInv, StateTypes
<1>4. ASSUME buf' \in Seq(Nat) PROVE StateTypes'
  BY <1>1, <1>4, Zenon DEF IInv, StateTypes
<1>5. CASE Asking
  <2>1. PICK m \in Offers, t \in Seq(Nat) :
          Coming(t, line, over) /\ SocksRead(ask, m, parse, buf \o t)
    BY <1>5 DEF Asking
  <2>2. /\ side = "socks" /\ mode = "tcp" /\ given = << >> /\ delivered = << >>
    BY <1>5 DEF Asking
  <2>3. /\ Drop(buf, parse.need) \in Seq(Nat)
        /\ \/ SocksStep(parse, b).step = "error"
           \/ SocksRead(ask, m, SocksStep(parse, b), Drop(buf, parse.need) \o t)
    BY <1>2, <1>3, <2>1, SocksConsumed, Zenon
  <2>4. parse' = SocksStep(parse, b)
    BY <1>1, <2>2, Zenon
  <2>5. StateTypes'
    BY <1>1, <1>4, <2>3, Zenon
  <2>6. CASE SocksStep(parse, b).step = "error"
    BY <1>1, <2>2, <2>4, <2>5, <2>6, Zenon DEF IInv, Refused
  <2>7. CASE SocksRead(ask, m, SocksStep(parse, b), Drop(buf, parse.need) \o t)
    <3>1. SocksRead(ask', m, parse', buf' \o t)
      BY <1>1, <2>4, <2>7, Zenon
    <3>2. Coming(t, line', over')
      BY <1>1, <2>1, Zenon
    <3>3. Asking'
      BY <1>1, <2>1, <2>2, <3>1, <3>2, Zenon DEF Asking
    <3> QED
      BY <2>5, <3>3, Zenon DEF IInv
  <2> QED
    BY <2>3, <2>6, <2>7, Zenon
<1>6. CASE Reading
  <2>1. PICK a \in Extras(mode), t \in Seq(Nat), body \in Seq(Nat) :
          /\ Coming(t, line, over) /\ Holds(body, mode, given)
          /\ VlessRead(ask, a, Command[mode], parse, buf \o t, body)
    BY <1>6 DEF Reading
  <2>2. side = "tunnel" /\ side # "socks" /\ delivered = << >>
    BY <1>6 DEF Reading
  <2>3. a \in {<< >>} \cup VisionAddons /\ Command[mode] \in {1, 2}
    BY <1>3, Sessions, Zenon
  <2>4. /\ Drop(buf, parse.need) \in Seq(Nat)
        /\ VlessRead(ask, a, Command[mode], VlessStep(parse, b),
                     Drop(buf, parse.need) \o t, body)
    BY <1>2, <1>3, <2>1, <2>3, VlessConsumed, Zenon
  <2>5. parse' = VlessStep(parse, b)
    BY <1>1, <2>2, Zenon
  <2>6. StateTypes'
    BY <1>1, <1>4, <2>4, Zenon
  <2>7. VlessRead(ask', a, Command[mode'], parse', buf' \o t, body)
    BY <1>1, <2>4, <2>5, Zenon
  <2>8. Coming(t, line', over') /\ Holds(body, mode', given') /\ a \in Extras(mode')
    BY <1>1, <2>1, Zenon
  <2>9. Reading'
    BY <1>1, <2>1, <2>2, <2>7, <2>8, Zenon DEF Reading
  <2> QED
    BY <2>6, <2>9, Zenon DEF IInv
<1>7. Asking \/ Reading
  BY Waiting DEF Consume
<1> QED
  BY <1>5, <1>6, <1>7, Zenon

\* The client writes the header of what it was asked.
LEMMA AskInvariant ==
  ASSUME IInv, Ask
  PROVE  IInv'
<1>1. /\ mode' = mode /\ ask' = ask /\ given' = given /\ pieces' = pieces
      /\ delivered' = delivered /\ side' = "tunnel" /\ over' = "no" /\ buf' = << >>
      /\ line' = EncodeRequest(ToVlessRequest(parse), Command[mode])
      /\ parse' = Start("version") /\ side = "socks" /\ parse.step = "done"
  BY DEF Ask, conversation
<1>2. Asking
  BY <1>1, Zenon DEF IInv, Reading, Relaying, Refused
<1>3. PICK m \in Offers, t \in Seq(Nat) :
        Coming(t, line, over) /\ SocksRead(ask, m, parse, buf \o t)
  BY <1>2 DEF Asking
<1>4. /\ mode = "tcp" /\ given = << >> /\ delivered = << >> /\ ask \in Asked /\ mode \in Modes
  BY <1>2 DEF Asking, IInv, StateTypes
<1>5. ToVlessRequest(parse) = ask
  BY <1>1, <1>3, <1>4, SocksDone, Zenon
<1>e. << >> \in Seq(Nat) /\ Len(<< >>) = 0
  OBVIOUS
<1>6. Command[mode] \in {1, 2} /\ << >> \in Extras(mode)
  BY <1>4 DEF Command, Extras
<1>7. line' \in Seq(Nat) /\ line' = VlessLeft(ask, << >>, Command[mode], "version")
  BY <1>1, <1>4, <1>5, <1>6, <1>e, VlessWritten, Zenon
<1>8. parse' \in Parses /\ parse'.step = "version" /\ parse'.need = 1 /\ parse'.flow = << >>
  BY <1>e, <1>1, StepNames DEF Start, Parses, Kinds
<1>9. "version" \in VlessSteps /\ Len(VlessPiece(ask, << >>, Command[mode], "version")) = 1
  BY DEF VlessSteps, VlessPiece
<1>10. VlessFound(parse', ask, << >>, Command[mode])
  BY <1>8 DEF VlessFound
<1>11. << >> \o line' = line' /\ line' \o << >> = line'
  <2> DEFINE l == line'
  <2>1. l \in Seq(Nat)
    BY <1>7, Zenon
  <2> HIDE DEF l
  <2>2. << >> \o l = l /\ l \o << >> = l
    BY <2>1, Empty, Zenon
  <2> QED
    BY <2>2, Zenon DEF l
<1>12. VlessRead(ask', << >>, Command[mode'], parse', buf' \o line', << >>)
  <2>1. buf' \o line' = VlessLeft(ask, << >>, Command[mode], "version") \o << >>
    BY <1>1, <1>7, <1>11, Zenon
  <2> QED
    BY <1>1, <1>8, <1>9, <1>10, <2>1, Zenon DEF VlessRead
<1>13. Coming(line', line', over') /\ Holds(<< >>, mode', given')
  BY <1>e, <1>1, <1>4, <1>7 DEF Coming, Holds
<1>14. Reading'
  BY <1>e, <1>1, <1>4, <1>6, <1>7, <1>12, <1>13, Zenon DEF Reading
<1>15. StateTypes'
  BY <1>e, <1>1, <1>4, <1>7, Zenon DEF IInv, StateTypes
<1> QED
  BY <1>14, <1>15, Zenon DEF IInv

\* What is relayed is never read by a parser again.
LEMMA RelayStarted ==
  ASSUME IInv, parse.step = "relay"
  PROVE  Relaying
<1>1. "relay" \notin SocksSteps /\ "relay" \notin VlessSteps /\ "relay" # "error"
  BY DEF SocksSteps, VlessSteps
<1>2. ~Asking /\ ~Reading /\ ~Refused
  BY <1>1, Zenon DEF Asking, Reading, Refused, SocksRead, VlessRead
<1> QED
  BY <1>2, Zenon DEF IInv

\* The relay starts with what was read along with the header.
LEMMA RelayInvariant ==
  ASSUME IInv, Relay
  PROVE  IInv'
<1>1. /\ mode' = mode /\ ask' = ask /\ side' = side /\ line' = line /\ over' = over
      /\ given' = given /\ pieces' = pieces /\ side = "tunnel" /\ parse.step = "done"
      /\ parse' = At(parse, "relay", 0)
  BY DEF Relay, conversation
<1>2. Reading
  BY <1>1 DEF IInv, Asking, Relaying, Refused
<1>3. PICK a \in Extras(mode), t \in Seq(Nat), body \in Seq(Nat) :
        /\ Coming(t, line, over) /\ Holds(body, mode, given)
        /\ VlessRead(ask, a, Command[mode], parse, buf \o t, body)
  BY <1>2 DEF Reading
<1>4. mode \in Modes /\ ask \in Asked /\ buf \in Seq(Nat) /\ delivered = << >>
  BY <1>2 DEF Reading, IInv, StateTypes
<1>5. /\ ToVlessRequest(parse) = ask /\ parse.cmd = Command[mode]
      /\ parse.flow = IF mode = "vision" THEN VisionName ELSE << >>
      /\ buf \o t = body /\ parse \in Parses
  BY <1>1, <1>3, <1>4, VlessDone, Zenon
<1>6. /\ parse'.step = "relay" /\ ToVlessRequest(parse') = ask' /\ parse'.cmd = Command[mode']
      /\ parse'.flow = IF mode' = "vision" THEN VisionName ELSE << >>
  <2>1. "relay" \in ParseSteps /\ 0 \in Nat
    BY StepNames
  <2>2. /\ parse'.step = "relay" /\ parse'.kind = parse.kind /\ parse'.addr = parse.addr
        /\ parse'.port = parse.port /\ parse'.flow = parse.flow /\ parse'.cmd = parse.cmd
    BY <1>1, <1>5, <2>1, AtType, Zenon
  <2> QED
    BY <1>1, <1>5, <2>2, Zenon DEF ToVlessRequest
<1>7. buf' \in Seq(Nat)
  <2>1. buf' = buf \/ buf' = << >>
    BY DEF Relay
  <2>2. << >> \in Seq(Nat)
    OBVIOUS
  <2> QED
    BY <1>4, <2>1, <2>2, Zenon
<1>8. CASE mode = "tcp"
  <2>1. buf' = << >> /\ delivered' = buf
    BY <1>4, <1>8 DEF Relay
  <2>2. buf \o t = given
    BY <1>3, <1>5, <1>8, Zenon DEF Holds
  <2>3. Relaying'
    <3>1. Coming(t, line', over') /\ delivered' \o t = given'
      BY <1>1, <1>3, <2>1, <2>2, Zenon
    <3>2. "tcp" # "udp"
      OBVIOUS
    <3> QED
      BY <1>1, <1>4, <1>6, <1>8, <2>1, <3>1, <3>2, Zenon DEF Relaying
  <2> QED
    BY <1>1, <1>7, <2>3, Zenon DEF IInv, StateTypes
<1>9. CASE mode = "udp"
  <2>1. buf' = buf /\ delivered' = << >>
    BY <1>4, <1>9 DEF Relay
  <2>2. Framed(given, 0, buf \o t)
    BY <1>3, <1>5, <1>9, Zenon DEF Holds
  <2>3. delivered' = SubSeq(given', 1, 0) /\ 0 \in 0 .. Len(given')
    <3>1. given \in Seq(Datagrams)
      BY <1>9 DEF IInv, StateTypes
    <3> QED
      BY <1>1, <2>1, <3>1
  <2>4. Relaying'
    <3>1. Coming(t, line', over') /\ Framed(given', 0, buf' \o t)
      BY <1>1, <1>3, <2>1, <2>2, Zenon
    <3>2. "tcp" # "udp"
      OBVIOUS
    <3> QED
      BY <1>1, <1>6, <1>9, <2>3, <3>1, <3>2, Zenon DEF Relaying
  <2> QED
    BY <1>1, <1>7, <2>4, Zenon DEF IInv, StateTypes
<1>10. CASE mode = "vision"
  <2>1. Relaying'
    BY <1>1, <1>6, <1>10 DEF Relaying
  <2> QED
    BY <1>1, <1>7, <2>1, Zenon DEF IInv, StateTypes
<1> QED
  BY <1>4, <1>8, <1>9, <1>10 DEF Modes

\* The datagrams up to the next one.
LEMMA OneMore ==
  ASSUME NEW g \in Seq(Datagrams), NEW i \in 0 .. Len(g), i < Len(g)
  PROVE  /\ Append(SubSeq(g, 1, i), g[i + 1]) = SubSeq(g, 1, i + 1)
         /\ i + 1 \in 0 .. Len(g) /\ g[i + 1] \in Datagrams
<1>1. i + 1 \in 0 .. Len(g) /\ i + 1 \in 1 .. Len(g) /\ Len(g) \in Nat
  OBVIOUS
<1>2. g[i + 1] \in Datagrams
  BY <1>1, ElementOfSeq
<1> DEFINE u == SubSeq(g, 1, i)
           v == SubSeq(g, 1, i + 1)
           w == Append(u, g[i + 1])
<1>3. u \in Seq(Datagrams) /\ Len(u) = i /\ \A j \in 1 .. i : u[j] = g[j]
  BY <1>1
<1>4. v \in Seq(Datagrams) /\ Len(v) = i + 1 /\ \A j \in 1 .. i + 1 : v[j] = g[j]
  BY <1>1
<1> HIDE DEF u, v
<1>5. w \in Seq(Datagrams) /\ Len(w) = i + 1 /\ w[i + 1] = g[i + 1]
      /\ \A j \in 1 .. i : w[j] = u[j]
  BY <1>2, <1>3
<1> HIDE DEF w
<1>6. \A j \in 1 .. i + 1 : w[j] = v[j]
  <2> SUFFICES ASSUME NEW j \in 1 .. i + 1 PROVE w[j] = v[j]
    OBVIOUS
  <2>1. j = i + 1 \/ j \in 1 .. i
    OBVIOUS
  <2> QED
    BY <1>3, <1>4, <1>5, <2>1
<1>7. w = v
  BY <1>4, <1>5, <1>6, SeqEqual
<1> QED
  BY <1>1, <1>2, <1>7 DEF w, u, v

\* A relay cuts off the frame of the next datagram, and no empty one is framed.
LEMMA CutInvariant ==
  ASSUME IInv, Cut
  PROVE  IInv'
<1>1. /\ mode' = mode /\ ask' = ask /\ side' = side /\ line' = line /\ over' = over
      /\ given' = given /\ pieces' = pieces /\ parse' = parse
      /\ mode = "udp" /\ parse.step = "relay" /\ PacketThere
      /\ buf' = Drop(buf, 2 + PacketLen)
      /\ PacketLen # 0 => delivered' = Append(delivered, SubSeq(buf, 3, 2 + PacketLen))
  BY DEF Cut, conversation
<1>2. Relaying /\ given \in Seq(Datagrams) /\ buf \in Seq(Nat)
  BY <1>1, RelayStarted DEF IInv, StateTypes
<1>3. PICK t \in Seq(Nat), i \in 0 .. Len(given) :
        /\ Coming(t, line, over) /\ delivered = SubSeq(given, 1, i)
        /\ Framed(given, i, buf \o t)
  BY <1>1, <1>2 DEF Relaying
<1>4. Len(buf) >= 2 /\ Len(buf) >= 2 + PacketLen
  BY <1>1 DEF PacketThere
<1>5. i < Len(given)
  <2>1. i = Len(given) => buf \o t = << >>
    BY <1>2, <1>3, FramedHead, Zenon
  <2>2. Len(buf \o t) = Len(buf) + Len(t) /\ Len(buf) \in Nat /\ Len(t) \in Nat
    BY <1>2, Parts, Zenon
  <2>3. buf \o t = << >> => Len(buf \o t) = 0
    OBVIOUS
  <2>4. buf \o t # << >>
    BY <1>4, <2>2, <2>3
  <2> QED
    BY <2>1, <2>4
<1> DEFINE d == given[i + 1]
<1>6. /\ Append(delivered, d) = SubSeq(given, 1, i + 1)
      /\ i + 1 \in 0 .. Len(given) /\ d \in Datagrams
  BY <1>2, <1>3, <1>5, OneMore, Zenon
<1>7. PICK r \in Seq(Nat) : Framed(given, i + 1, r) /\ buf \o t = FramePacket(d) \o r
  BY <1>2, <1>3, <1>5, FramedHead, Zenon
<1> HIDE DEF d
<1>8. /\ Len(buf) >= 2 => buf[1] * Base + buf[2] = Len(d)
      /\ Len(buf) >= 2 + Len(d) => /\ SubSeq(buf, 3, 2 + Len(d)) = d
                                   /\ Drop(buf, 2 + Len(d)) \in Seq(Nat)
                                   /\ Drop(buf, 2 + Len(d)) \o t = r
  <2>1. Seen(d, buf, t, r)
    BY <1>2, <1>6, FrameSeen, Zenon
  <2> QED
    BY <1>7, <2>1, Zenon DEF Seen
<1>9. PacketLen = Len(d) /\ Len(d) # 0
  <2>1. Len(d) > 0 /\ Len(d) \in Nat
    BY <1>6, FrameType
  <2>2. PacketLen = Len(d)
    BY <1>4, <1>8, Zenon DEF PacketLen
  <2> QED
    BY <2>1, <2>2
<1>10. /\ buf' \in Seq(Nat) /\ buf' \o t = r
       /\ delivered' = SubSeq(given, 1, i + 1)
  BY <1>1, <1>4, <1>6, <1>8, <1>9, Zenon
<1>11. /\ Coming(t, line', over') /\ delivered' = SubSeq(given', 1, i + 1)
       /\ Framed(given', i + 1, buf' \o t) /\ i + 1 \in 0 .. Len(given')
  BY <1>1, <1>3, <1>6, <1>7, <1>10, Zenon
<1>12. Relaying'
  <2>1. "tcp" # "udp"
    OBVIOUS
  <2> QED
    BY <1>1, <1>2, <1>11, <2>1, Zenon DEF Relaying
<1> QED
  BY <1>1, <1>10, <1>12, Zenon DEF IInv, StateTypes

\* A relay reads on where it was.
LEMMA RelayReadInvariant ==
  ASSUME IInv, RelayRead
  PROVE  IInv'
<1>1. /\ mode' = mode /\ ask' = ask /\ side' = side /\ over' = over
      /\ given' = given /\ pieces' = pieces /\ parse' = parse /\ parse.step = "relay"
  BY DEF RelayRead, conversation
<1>2. PICK n \in 1 .. Len(line) :
        /\ line' = Drop(line, n)
        /\ \/ mode = "udp" /\ buf' = buf \o Take(line, n) /\ delivered' = delivered
           \/ mode = "tcp" /\ delivered' = delivered \o Take(line, n) /\ buf' = buf
           \/ mode = "vision" /\ buf' = buf
  BY DEF RelayRead
<1>3. Relaying /\ buf \in Seq(Nat) /\ line \in Seq(Nat)
  BY <1>1, RelayStarted DEF IInv, StateTypes
<1>4. Drop(line, n) \in Seq(Nat)
  BY <1>3, PieceMoved, Zenon
<1>5. CASE mode = "udp"
  <2>1. PICK t \in Seq(Nat), i \in 0 .. Len(given) :
          /\ Coming(t, line, over) /\ delivered = SubSeq(given, 1, i)
          /\ Framed(given, i, buf \o t)
    BY <1>3, <1>5 DEF Relaying
  <2>2. buf' = buf \o Take(line, n) /\ delivered' = delivered
    BY <1>2, <1>5
  <2>3. Moved(buf, line, n, t, over)
    BY <1>3, ComingMoved, Zenon
  <2>4. /\ Coming(line', line', over') /\ buf' \in Seq(Nat) /\ line' \in Seq(Nat)
        /\ buf' \o line' = buf \o t
    BY <1>1, <1>2, <2>1, <2>2, <2>3, Zenon DEF Moved
  <2>5. Framed(given', i, buf' \o line') /\ delivered' = SubSeq(given', 1, i)
        /\ i \in 0 .. Len(given')
    BY <1>1, <2>1, <2>2, <2>4, Zenon
  <2>6. Relaying'
    <3>1. "tcp" # "udp"
      OBVIOUS
    <3> QED
      BY <1>1, <1>3, <1>5, <2>4, <2>5, <3>1, Zenon DEF Relaying
  <2> QED
    BY <1>1, <2>4, <2>6, Zenon DEF IInv, StateTypes
<1>6. CASE mode = "tcp"
  <2>1. PICK t \in Seq(Nat) : Coming(t, line, over) /\ delivered \o t = given
    BY <1>3, <1>6 DEF Relaying
  <2>2. buf' = buf /\ delivered' = delivered \o Take(line, n)
    BY <1>2, <1>6
  <2>3. buf = << >> /\ delivered \in Seq(Nat)
    BY <1>3, <1>6 DEF Relaying
  <2>4. Moved(delivered, line, n, t, over)
    BY <1>3, <2>3, ComingMoved, Zenon
  <2>5. /\ Coming(line', line', over') /\ delivered' \in Seq(Nat) /\ line' \in Seq(Nat)
        /\ delivered' \o line' = given'
    BY <1>1, <1>2, <2>1, <2>2, <2>4, Zenon DEF Moved
  <2>6. Relaying'
    <3>1. "tcp" # "udp"
      OBVIOUS
    <3> QED
      BY <1>1, <1>3, <1>6, <2>2, <2>3, <2>5, <3>1, Zenon DEF Relaying
  <2>7. buf' \in Seq(Nat)
    BY <1>3, <2>2, Zenon
  <2> QED
    BY <1>1, <2>5, <2>6, <2>7, Zenon DEF IInv, StateTypes
<1>7. CASE mode = "vision"
  <2>1. buf' = buf /\ line' \in Seq(Nat)
    BY <1>2, <1>4, <1>7
  <2>2. Relaying'
    BY <1>1, <1>3, <1>7 DEF Relaying
  <2> QED
    BY <1>1, <2>1, <2>2, Zenon DEF IInv, StateTypes
<1> QED
  BY <1>2, <1>5, <1>6, <1>7, Zenon

\* Appending is joining.
LEMMA Appended ==
  ASSUME NEW s \in Seq(Nat), NEW n \in Nat
  PROVE  <<n>> \in Seq(Nat) /\ Append(s, n) = s \o <<n>>
<1>1. <<n>> \in Seq(Nat) /\ Len(<<n>>) = 1 /\ <<n>>[1] = n
  BY Byte
<1> DEFINE z == <<n>>
           u == s \o z
           v == Append(s, n)
<1>2. z \in Seq(Nat) /\ Len(z) = 1 /\ z[1] = n
  BY <1>1
<1>3. v \in Seq(Nat) /\ Len(v) = Len(s) + 1 /\ v[Len(s) + 1] = n
      /\ Len(s) \in Nat /\ \A j \in 1 .. Len(s) : v[j] = s[j]
  OBVIOUS
<1> HIDE DEF z, v
<1>4. /\ u \in Seq(Nat) /\ Len(u) = Len(s) + Len(z)
      /\ \A j \in 1 .. Len(s) : u[j] = s[j]
      /\ \A j \in 1 .. Len(z) : u[Len(s) + j] = z[j]
  BY <1>2, Parts, Zenon
<1> HIDE DEF u
<1>5. u[Len(s) + 1] = n
  BY <1>2, <1>4
<1>6. \A j \in 1 .. Len(s) + 1 : u[j] = v[j]
  <2> SUFFICES ASSUME NEW j \in 1 .. Len(s) + 1 PROVE u[j] = v[j]
    OBVIOUS
  <2>1. j = Len(s) + 1 \/ j \in 1 .. Len(s)
    BY <1>3
  <2> QED
    BY <1>3, <1>4, <1>5, <2>1, Zenon
<1>7. u = v
  BY <1>2, <1>3, <1>4, <1>6, SeqEqual
<1> QED
  BY <1>1, <1>7 DEF u, v, z

\* Content that is sent after a header keeps it whole.
Grown(q, a, c, p, b, t, body, z) ==
  VlessRead(q, a, c, p, b \o t, body) => VlessRead(q, a, c, p, b \o (t \o z), body \o z)
LEMMA HeaderKept ==
  ASSUME NEW q \in Asked, NEW a \in {<< >>} \cup VisionAddons, NEW c \in {1, 2}, NEW p,
         NEW b \in Seq(Nat), NEW t \in Seq(Nat), NEW body \in Seq(Nat), NEW z \in Seq(Nat)
  PROVE  Grown(q, a, c, p, b, t, body, z)
<1> SUFFICES ASSUME VlessRead(q, a, c, p, b \o t, body)
             PROVE  VlessRead(q, a, c, p, b \o (t \o z), body \o z)
  BY DEF Grown
<1> DEFINE l == VlessLeft(q, a, c, p.step)
<1>1. l \in Seq(Nat)
  <2>1. p.step \in VlessSteps
    BY DEF VlessRead
  <2> QED
    BY <2>1, VlessLeftType, Zenon
<1>2. b \o t = l \o body
  BY DEF VlessRead
<1> HIDE DEF l
<1>3. (b \o t) \o z = b \o (t \o z)
  BY Chain, Zenon
<1>4. (l \o body) \o z = l \o (body \o z)
  BY <1>1, Chain, Zenon
<1>5. b \o (t \o z) = l \o (body \o z)
  BY <1>2, <1>3, <1>4, Zenon
<1> QED
  BY <1>5, Zenon DEF VlessRead, l

\* A sender adds z, on a UDP session the frame of a datagram.
LEMMA SendInvariant ==
  ASSUME IInv, NEW z \in Seq(Nat), side = "tunnel", over = "no",
         UNCHANGED <<mode, ask, side, over, buf, parse, delivered>>,
         line' = line \o z, pieces' \in Nat,
         mode = "tcp" => given' = given \o z,
         mode = "udp" => \E d \in Datagrams : z = FramePacket(d) /\ given' = Append(given, d)
  PROVE  IInv'
<1>0. /\ mode' = mode /\ ask' = ask /\ side' = side /\ over' = over
      /\ buf' = buf /\ parse' = parse /\ delivered' = delivered
  OBVIOUS
<1>1. /\ mode \in Modes /\ ask \in Asked /\ line \in Seq(Nat) /\ buf \in Seq(Nat)
      /\ mode = "tcp" => given \in Seq(Nat)
      /\ mode = "udp" => given \in Seq(Datagrams)
  BY DEF IInv, StateTypes
<1>2. line' \in Seq(Nat)
  BY <1>1, Joined, Zenon
<1>3. mode = "tcp" => given' \in Seq(Nat)
  BY <1>1, Joined, Zenon
<1>4. mode = "udp" => given' \in Seq(Datagrams)
  <2>1. \A d \in Datagrams : given \in Seq(Datagrams) => Append(given, d) \in Seq(Datagrams)
    OBVIOUS
  <2> QED
    BY <1>1, <2>1, Zenon
<1>5. StateTypes'
  BY <1>0, <1>1, <1>2, <1>3, <1>4, Zenon DEF StateTypes
<1>6. Coming(line', line', over') /\ over # "broken"
  BY <1>0, <1>2 DEF Coming
<1>7. CASE Reading
  <2>1. PICK a \in Extras(mode), t \in Seq(Nat), body \in Seq(Nat) :
          /\ Coming(t, line, over) /\ Holds(body, mode, given)
          /\ VlessRead(ask, a, Command[mode], parse, buf \o t, body)
    BY <1>7 DEF Reading
  <2>2. t = line
    BY <1>6, <2>1, Zenon DEF Coming
  <2>3. parse.step # "relay" /\ delivered = << >> /\ parse \in Parses
    BY <1>7, <2>1 DEF Reading, VlessRead, VlessSteps
  <2>4. a \in {<< >>} \cup VisionAddons /\ Command[mode] \in {1, 2}
    BY <1>1, Sessions, Zenon
  <2>5. Grown(ask, a, Command[mode], parse, buf, t, body, z)
    BY <1>1, <2>4, HeaderKept, Zenon
  <2>6. VlessRead(ask', a, Command[mode'], parse', buf' \o line', body \o z)
    BY <1>0, <2>1, <2>2, <2>5, Zenon DEF Grown
  <2>7. body \o z \in Seq(Nat)
    BY Joined, Zenon
  <2>8. mode = "tcp" => body \o z = given'
    BY <2>1, Zenon DEF Holds
  <2>9. mode = "udp" => Framed(given', 0, body \o z)
    <3> SUFFICES ASSUME mode = "udp" PROVE Framed(given', 0, body \o z)
      OBVIOUS
    <3>1. PICK d \in Datagrams : z = FramePacket(d) /\ given' = Append(given, d)
      OBVIOUS
    <3>2. Framed(given, 0, body) /\ given \in Seq(Datagrams)
      BY <1>1, <2>1, Zenon DEF Holds
    <3>3. 0 \in 0 .. Len(given)
      BY <3>2
    <3> QED
      BY <3>1, <3>2, <3>3, FramedMore, Zenon
  <2>10. Holds(body \o z, mode', given')
    BY <1>0, <2>7, <2>8, <2>9, Zenon DEF Holds
  <2>11. side' = "tunnel" /\ delivered' = << >> /\ a \in Extras(mode')
    BY <1>0, <2>3, Zenon
  <2>12. Reading'
    BY <1>2, <1>6, <2>6, <2>7, <2>10, <2>11, Zenon DEF Reading
  <2> QED
    BY <1>5, <2>12, Zenon DEF IInv
<1>8. CASE Relaying
  <2>1. /\ side' = "tunnel" /\ parse'.step = "relay"
        /\ ToVlessRequest(parse') = ask' /\ parse'.cmd = Command[mode']
        /\ parse'.flow = IF mode' = "vision" THEN VisionName ELSE << >>
    <3>1. ToVlessRequest(parse') = ToVlessRequest(parse)
      BY <1>0, Zenon
    <3> QED
      BY <1>0, <1>8, <3>1, Zenon DEF Relaying
  <2>2. ASSUME mode = "tcp"
        PROVE  /\ buf' = << >> /\ delivered' \in Seq(Nat)
               /\ Coming(line', line', over') /\ delivered' \o line' = given'
    <3>1. PICK t \in Seq(Nat) : Coming(t, line, over) /\ delivered \o t = given
      BY <1>8, <2>2 DEF Relaying
    <3>2. t = line
      BY <1>6, <3>1, Zenon DEF Coming
    <3>3. buf' = << >> /\ delivered \in Seq(Nat) /\ delivered' = delivered
      BY <1>0, <1>8, <2>2 DEF Relaying
    <3>4. (delivered \o line) \o z = delivered \o (line \o z)
      BY <1>1, <3>3, Chain, Zenon
    <3>5. delivered' \o line' = given'
      BY <2>2, <3>1, <3>2, <3>3, <3>4, Zenon
    <3> QED
      BY <1>6, <3>3, <3>5, Zenon
  <2>3. ASSUME mode = "udp"
        PROVE  \E i \in 0 .. Len(given') :
                 delivered' = SubSeq(given', 1, i) /\ Framed(given', i, buf' \o line')
    <3>1. PICK t \in Seq(Nat), i \in 0 .. Len(given) :
            /\ Coming(t, line, over) /\ delivered = SubSeq(given, 1, i)
            /\ Framed(given, i, buf \o t)
      BY <1>8, <2>3 DEF Relaying
    <3>2. t = line
      BY <1>6, <3>1, Zenon DEF Coming
    <3>3. PICK d \in Datagrams : z = FramePacket(d) /\ given' = Append(given, d)
      BY <2>3
    <3>4. given \in Seq(Datagrams) /\ delivered' = delivered
      BY <1>0, <1>1, <2>3
    <3>5. Framed(given', i, (buf \o line) \o z)
      BY <3>1, <3>2, <3>3, <3>4, FramedMore, Zenon
    <3>6. (buf \o line) \o z = buf \o (line \o z)
      BY <1>1, Chain, Zenon
    <3>7. Framed(given', i, buf' \o line')
      BY <1>0, <3>5, <3>6, Zenon
    <3>8. i \in 0 .. Len(given') /\ SubSeq(given', 1, i) = SubSeq(given, 1, i)
      <4>1. \A g \in Seq(Datagrams), e \in Datagrams : \A j \in 0 .. Len(g) :
              /\ j \in 0 .. Len(Append(g, e))
              /\ SubSeq(Append(g, e), 1, j) = SubSeq(g, 1, j)
        <5> SUFFICES ASSUME NEW g \in Seq(Datagrams), NEW e \in Datagrams,
                            NEW j \in 0 .. Len(g)
                     PROVE  /\ j \in 0 .. Len(Append(g, e))
                            /\ SubSeq(Append(g, e), 1, j) = SubSeq(g, 1, j)
          OBVIOUS
        <5> QED
          OBVIOUS
      <4> QED
        BY <3>3, <3>4, <4>1, Zenon
    <3> QED
      BY <3>1, <3>4, <3>7, <3>8, Zenon
  <2>4. Relaying'
    <3>1. mode' = "tcp" => /\ buf' = << >> /\ delivered' \in Seq(Nat)
                           /\ \E t \in Seq(Nat) : Coming(t, line', over') /\ delivered' \o t = given'
      BY <1>0, <1>2, <2>2, Zenon
    <3>2. mode' = "udp" => \E t \in Seq(Nat), i \in 0 .. Len(given') :
                             /\ Coming(t, line', over') /\ delivered' = SubSeq(given', 1, i)
                             /\ Framed(given', i, buf' \o t)
      BY <1>0, <1>2, <1>6, <2>3, Zenon
    <3> QED
      BY <2>1, <3>1, <3>2, Zenon DEF Relaying
  <2> QED
    BY <1>5, <2>4, Zenon DEF IInv
<1>9. CASE Refused
  <2>1. delivered' = << >> /\ parse'.step = "error"
    BY <1>0, <1>9 DEF Refused
  <2> QED
    BY <1>5, <2>1, Zenon DEF IInv, Refused
<1>10. ~Asking
  BY DEF Asking
<1> QED
  BY <1>7, <1>8, <1>9, <1>10, Zenon DEF IInv

\* A byte of a stream.
LEMMA SendBytesInvariant ==
  ASSUME IInv, SendBytes
  PROVE  IInv'
<1> DEFINE n == pieces + 1
           z == <<n>>
<1>1. /\ mode' = mode /\ ask' = ask /\ side' = side /\ over' = over /\ buf' = buf
      /\ parse' = parse /\ delivered' = delivered /\ mode = "tcp" /\ side = "tunnel"
      /\ over = "no" /\ pieces' = n /\ given' = Append(given, n) /\ line' = Append(line, n)
  BY DEF SendBytes, MaySend, conversation
<1>2. line \in Seq(Nat) /\ given \in Seq(Nat) /\ n \in Nat /\ "tcp" # "udp"
  BY <1>1 DEF IInv, StateTypes
<1> HIDE DEF n
<1>3. z \in Seq(Nat) /\ Append(line, n) = line \o z /\ Append(given, n) = given \o z
  BY <1>2, Appended, Zenon
<1> HIDE DEF z
<1>4. /\ UNCHANGED <<mode, ask, side, over, buf, parse, delivered>>
      /\ line' = line \o z /\ pieces' \in Nat
      /\ mode = "tcp" => given' = given \o z
      /\ mode = "udp" => \E d \in Datagrams : z = FramePacket(d) /\ given' = Append(given, d)
  BY <1>1, <1>2, <1>3
<1> QED
  BY <1>1, <1>3, <1>4, SendInvariant, Zenon

\* A datagram: what the relay takes out of the application's is what it put in.
LEMMA SendDatagramInvariant ==
  ASSUME IInv, SendDatagram
  PROVE  IInv'
<1>1. /\ mode' = mode /\ ask' = ask /\ side' = side /\ over' = over /\ buf' = buf
      /\ parse' = parse /\ delivered' = delivered /\ mode = "udp" /\ side = "tunnel"
      /\ over = "no" /\ pieces' = pieces + 1
  BY DEF SendDatagram, MaySend, conversation
<1>2. pieces \in Nat /\ ask \in Asked
  BY DEF IInv, StateTypes
<1>3. PICK size \in 1 .. Base + 1 :
        LET d == [i \in 1 .. size |-> 10 * (pieces + 1) + i]
        IN  \E q \in ParseUdpDatagram(EncodeUdpDatagram(ask, d)) :
              /\ given' = Append(given, d)
              /\ line' = line \o FramePacket(q.payload)
  BY DEF SendDatagram
<1> DEFINE d == [i \in 1 .. size |-> 10 * (pieces + 1) + i]
<1>4. PICK q \in ParseUdpDatagram(EncodeUdpDatagram(ask, d)) :
        given' = Append(given, d) /\ line' = line \o FramePacket(q.payload)
  BY <1>3
<1>5. d \in Seq(Nat) /\ Len(d) = size /\ d \in Datagrams
  <2>1. size \in Nat
    BY VisionAssumption
  <2>2. \A i \in 1 .. size : 10 * (pieces + 1) + i \in Nat
    BY <1>2
  <2>3. d \in [1 .. size -> Nat]
    BY <2>2
  <2>4. d \in Seq(Nat) /\ Len(d) = size
    BY <2>1, <2>3
  <2> QED
    BY <2>4 DEF Datagrams
<1> HIDE DEF d
<1>6. q.payload = d
  <2> DEFINE w == [kind |-> ask.kind, addr |-> ask.addr, port |-> ask.port, payload |-> d]
  <2>1. ParseUdpDatagram(EncodeUdpDatagram(ask, d)) = {w}
    BY <1>2, <1>5, DatagramRead, Zenon
  <2>2. w.payload = d
    OBVIOUS
  <2> HIDE DEF w
  <2>3. q \in {w}
    BY <2>1, Zenon
  <2>4. q = w
    BY <2>3, Zenon
  <2> QED
    BY <2>2, <2>4, Zenon
<1> DEFINE z == FramePacket(d)
<1>7. z \in Seq(Nat) /\ z = FramePacket(d)
  BY <1>5, FrameType, Zenon
<1>8. line' = line \o z
  BY <1>4, <1>6, Zenon
<1> HIDE DEF z
<1>9. /\ UNCHANGED <<mode, ask, side, over, buf, parse, delivered>>
      /\ line' = line \o z /\ pieces' \in Nat
      /\ mode = "tcp" => given' = given \o z
      /\ mode = "udp" => \E e \in Datagrams : z = FramePacket(e) /\ given' = Append(given, e)
  <2>1. pieces' \in Nat /\ "udp" # "tcp"
    BY <1>1, <1>2
  <2>2. \E e \in Datagrams : z = FramePacket(e) /\ given' = Append(given, e)
    BY <1>4, <1>5, <1>7, Zenon
  <2> QED
    BY <1>1, <1>8, <2>1, <2>2, Zenon
<1> QED
  BY <1>1, <1>7, <1>9, SendInvariant, Zenon

\* What a Vision writer makes of a chunk is bytes.
LEMMA Written ==
  ASSUME NEW w, NEW x, NEW c \in Chunks, NEW pad \in Nat
  PROVE  WriterProcess(w, x, c, pad).out \in Seq(Nat)
<1>1. c.bytes \in Seq(Nat) /\ Len(c.bytes) \in Nat
  BY UplinkAssumption, LenProperties
<1>2. ASSUME NEW cmd \in {CONTINUE, END, DIRECT}
      PROVE  Frame(w, c.bytes, cmd, pad) \in Seq(Nat)
  <2> DEFINE k == Len(c.bytes)
             head == IF w.uuidWritten THEN ShortHeader ELSE FullHeader
             most == MaxFrame - head - k
             n == IF pad <= most THEN pad ELSE IF most > 0 THEN most ELSE 0
             u == IF w.uuidWritten THEN << >> ELSE Uuid
             m == <<cmd>>
             dk == Digits(k)
             dn == Digits(n)
             p == [i \in 1 .. n |-> 0]
             bs == c.bytes
  <2>1. FullHeader \in Nat /\ ShortHeader \in Nat /\ MaxFrame \in Nat
    BY VisionAssumption, LenProperties DEF FullHeader, ShortHeader
  <2>2. head \in Nat
    BY <2>1
  <2>k. k \in Nat
    BY <1>1
  <2> HIDE DEF head, k
  <2>3. most \in Int
    BY <2>1, <2>2, <2>k
  <2> HIDE DEF most
  <2>4. n \in Nat
    BY <2>3
  <2> HIDE DEF n
  <2>5. \A j \in Nat : Digits(j) \in Seq(Nat)
    <3> SUFFICES ASSUME NEW j \in Nat PROVE Digits(j) \in Seq(Nat)
      OBVIOUS
    <3>1. (j \div Base) % Base \in Nat /\ j % Base \in Nat
      <4>1. Base \in Nat /\ Base > 0
        BY VisionAssumption
      <4>2. j \div Base \in Nat
        BY <4>1
      <4> QED
        BY <4>1, <4>2
    <3> QED
      BY <3>1, TwoBytes, Zenon DEF Digits
  <2>6. u \in Seq(Nat)
    BY VisionAssumption
  <2>7. m \in Seq(Nat)
    BY DEF CONTINUE, END, DIRECT
  <2>8. p \in Seq(Nat)
    <3>1. p \in [1 .. n -> Nat]
      OBVIOUS
    <3> QED
      BY <2>4, <3>1
  <2>9. dk \in Seq(Nat) /\ dn \in Seq(Nat) /\ bs \in Seq(Nat)
    BY <1>1, <2>4, <2>5, <2>k, Zenon
  <2>10. Frame(w, c.bytes, cmd, pad) = u \o m \o dk \o dn \o bs \o p
    BY DEF Frame, head, k, most, n
  <2> HIDE DEF u, m, dk, dn, bs, p
  <2> DEFINE y1 == u \o m
             y2 == y1 \o dk
             y3 == y2 \o dn
             y4 == y3 \o bs
             y5 == y4 \o p
  <2>11. y1 \in Seq(Nat)
    BY <2>6, <2>7, Joined, Zenon
  <2> HIDE DEF y1
  <2>12. y2 \in Seq(Nat)
    BY <2>9, <2>11, Joined, Zenon
  <2> HIDE DEF y2
  <2>13. y3 \in Seq(Nat)
    BY <2>9, <2>12, Joined, Zenon
  <2> HIDE DEF y3
  <2>14. y4 \in Seq(Nat)
    BY <2>9, <2>13, Joined, Zenon
  <2> HIDE DEF y4
  <2>15. y5 \in Seq(Nat)
    BY <2>8, <2>14, Joined, Zenon
  <2>16. Frame(w, c.bytes, cmd, pad) = y5
    BY <2>10, Zenon DEF y5, y4, y3, y2, y1
  <2> QED
    BY <2>15, <2>16, Zenon
<1>3. \A s : FrameCommand(s, c) \in {CONTINUE, END, DIRECT}
  BY DEF FrameCommand
<1> DEFINE seen == IF x.packets > 0 THEN FilterTls(x, c) ELSE x
           cmd  == FrameCommand(seen, c)
<1>4. cmd \in {CONTINUE, END, DIRECT}
  BY <1>3, Zenon
<1>5. /\ Frame(w, c.bytes, cmd, pad) \in Seq(Nat)
      /\ \/ WriterProcess(w, x, c, pad).out = c.bytes
         \/ WriterProcess(w, x, c, pad).out = Frame(w, c.bytes, cmd, pad)
  <2>1. Frame(w, c.bytes, cmd, pad) \in Seq(Nat)
    BY <1>2, <1>4, Zenon
  <2>2. CASE w.directCopy
    <3>1. WriterProcess(w, x, c, pad) = [w |-> w, ctx |-> x, out |-> c.bytes]
      BY <2>2 DEF WriterProcess
    <3> QED
      BY <2>1, <3>1
  <2>3. CASE ~w.directCopy /\ ~w.isPadding
    <3>1. WriterProcess(w, x, c, pad)
            = [w |-> [w EXCEPT !.directCopy = TRUE], ctx |-> seen, out |-> c.bytes]
      BY <2>3 DEF WriterProcess
    <3> QED
      BY <2>1, <3>1
  <2>4. CASE ~w.directCopy /\ w.isPadding
    <3>1. WriterProcess(w, x, c, pad)
            = [w |-> [uuidWritten |-> TRUE, isPadding |-> cmd = CONTINUE,
                      directCopy |-> cmd = DIRECT],
               ctx |-> seen, out |-> Frame(w, c.bytes, cmd, pad)]
      BY <2>4 DEF WriterProcess
    <3> HIDE DEF cmd, seen
    <3> QED
      BY <2>1, <3>1
  <2> QED
    BY <2>2, <2>3, <2>4, Zenon
<1> QED
  BY <1>1, <1>5, Zenon

\* A chunk of a Vision session.
LEMMA SendChunkInvariant ==
  ASSUME IInv, SendChunk
  PROVE  IInv'
<1>1. /\ mode' = mode /\ ask' = ask /\ side' = side /\ over' = over /\ buf' = buf
      /\ parse' = parse /\ delivered' = delivered /\ mode = "vision" /\ side = "tunnel"
      /\ over = "no" /\ pieces' = pieces + 1
  BY DEF SendChunk, MaySend, conversation
<1>2. PICK c \in Chunks, pad \in Pads : line' = line \o WriterProcess(writer, ctx, c, pad).out
  BY DEF SendChunk
<1>3. pad \in Nat
  BY UplinkAssumption
<1> DEFINE z == WriterProcess(writer, ctx, c, pad).out
<1>4. z \in Seq(Nat)
  BY <1>3, Written, Zenon
<1>5. line' = line \o z
  BY <1>2
<1> HIDE DEF z
<1>6. pieces' \in Nat /\ "vision" # "tcp" /\ "vision" # "udp"
  BY <1>1 DEF IInv, StateTypes
<1>7. /\ UNCHANGED <<mode, ask, side, over, buf, parse, delivered>>
      /\ mode = "tcp" => given' = given \o z
      /\ mode = "udp" => \E e \in Datagrams : z = FramePacket(e) /\ given' = Append(given, e)
  BY <1>1, <1>6
<1> QED
  BY <1>1, <1>4, <1>5, <1>6, <1>7, SendInvariant, Zenon

\* What is not read or sent here leaves everything as it is.
LEMMA StutterInvariant ==
  ASSUME IInv, UNCHANGED <<conversation, side, line, over, buf, parse, given, pieces, delivered>>
  PROVE  IInv'
<1>1. /\ mode' = mode /\ ask' = ask /\ side' = side /\ line' = line /\ over' = over
      /\ buf' = buf /\ parse' = parse /\ given' = given /\ pieces' = pieces
      /\ delivered' = delivered
  BY DEF conversation
<1>2. StateTypes'
  BY <1>1, Zenon DEF IInv, StateTypes
<1>3. Asking' = Asking
  BY <1>1, Zenon DEF Asking
<1>4. Reading' = Reading
  BY <1>1, Zenon DEF Reading
<1>5. Relaying' = Relaying
  BY <1>1, Zenon DEF Relaying
<1>6. Refused' = Refused
  BY <1>1, Zenon DEF Refused
<1> QED
  BY <1>2, <1>3, <1>4, <1>5, <1>6, Zenon DEF IInv

\* A stream that breaks loses what is still to come.
LEMMA FinishInvariant ==
  ASSUME IInv, Finish
  PROVE  IInv'
<1>1. /\ mode' = mode /\ ask' = ask /\ side' = side /\ buf' = buf /\ parse' = parse
      /\ given' = given /\ pieces' = pieces /\ delivered' = delivered /\ over = "no"
      /\ \/ over' = "ended" /\ line' = line
         \/ over' = "broken" /\ line' = << >>
  BY DEF Finish, conversation
<1>2. line' \in Seq(Nat)
  <2>1. << >> \in Seq(Nat) /\ line \in Seq(Nat)
    BY DEF IInv, StateTypes
  <2> QED
    BY <1>1, <2>1, Zenon
<1>3. StateTypes'
  BY <1>1, <1>2, Zenon DEF IInv, StateTypes
<1>4. ASSUME NEW t, Coming(t, line, over) PROVE Coming(t, line', over')
  BY <1>1, <1>4 DEF Coming
<1>5. ASSUME Asking PROVE Asking'
  <2>1. PICK m \in Offers, t \in Seq(Nat) :
          Coming(t, line, over) /\ SocksRead(ask, m, parse, buf \o t)
    BY <1>5 DEF Asking
  <2>2. Coming(t, line', over') /\ SocksRead(ask', m, parse', buf' \o t)
    BY <1>1, <1>4, <2>1, Zenon
  <2> QED
    BY <1>1, <1>5, <2>2, Zenon DEF Asking
<1>6. ASSUME Reading PROVE Reading'
  <2>1. PICK a \in Extras(mode), t \in Seq(Nat), body \in Seq(Nat) :
          /\ Coming(t, line, over) /\ Holds(body, mode, given)
          /\ VlessRead(ask, a, Command[mode], parse, buf \o t, body)
    BY <1>6 DEF Reading
  <2>2. /\ Coming(t, line', over') /\ Holds(body, mode', given') /\ a \in Extras(mode')
        /\ VlessRead(ask', a, Command[mode'], parse', buf' \o t, body)
    BY <1>1, <1>4, <2>1, Zenon
  <2> QED
    BY <1>1, <1>6, <2>2, Zenon DEF Reading
<1>7. ASSUME Relaying PROVE Relaying'
  <2>1. /\ side' = "tunnel" /\ parse'.step = "relay"
        /\ ToVlessRequest(parse') = ask' /\ parse'.cmd = Command[mode']
        /\ parse'.flow = IF mode' = "vision" THEN VisionName ELSE << >>
    <3>1. ToVlessRequest(parse') = ToVlessRequest(parse)
      BY <1>1, Zenon
    <3> QED
      BY <1>1, <1>7, <3>1, Zenon DEF Relaying
  <2>2. mode = "tcp" => /\ buf = << >> /\ delivered \in Seq(Nat)
                        /\ \E t \in Seq(Nat) : Coming(t, line', over') /\ delivered \o t = given
    BY <1>4, <1>7, Zenon DEF Relaying
  <2>3. mode = "udp" => \E t \in Seq(Nat), i \in 0 .. Len(given) :
                          /\ Coming(t, line', over') /\ delivered = SubSeq(given, 1, i)
                          /\ Framed(given, i, buf \o t)
    BY <1>4, <1>7, Zenon DEF Relaying
  <2>4. /\ mode' = "tcp" => /\ buf' = << >> /\ delivered' \in Seq(Nat)
                            /\ \E t \in Seq(Nat) : Coming(t, line', over') /\ delivered' \o t = given'
        /\ mode' = "udp" => \E t \in Seq(Nat), i \in 0 .. Len(given') :
                              /\ Coming(t, line', over') /\ delivered' = SubSeq(given', 1, i)
                              /\ Framed(given', i, buf' \o t)
    BY <1>1, <2>2, <2>3, Zenon
  <2> QED
    BY <2>1, <2>4, Zenon DEF Relaying
<1>8. ASSUME Refused PROVE Refused'
  BY <1>1, <1>8, Zenon DEF Refused
<1> QED
  BY <1>3, <1>5, <1>6, <1>7, <1>8, Zenon DEF IInv

-----------------------------------------------------------------------------
(* Theorems.                                                                *)

\* The invariant holds at the start and every step keeps it.
THEOREM Invariance == Spec => []IInv
<1>1. Init => IInv
  BY InitInvariant
<1>2. IInv /\ [Next]_vars => IInv'
  <2> SUFFICES ASSUME IInv, [Next]_vars PROVE IInv'
    OBVIOUS
  <2>1. CASE Receive
    BY <2>1, ReceiveInvariant
  <2>2. CASE ReceiveEnd
    BY <2>2, ReceiveEndInvariant
  <2>3. CASE Consume
    BY <2>3, ConsumeInvariant
  <2>4. CASE Ask
    BY <2>4, AskInvariant
  <2>5. CASE Relay
    BY <2>5, RelayInvariant
  <2>6. CASE Cut
    BY <2>6, CutInvariant
  <2>7. CASE RelayRead
    BY <2>7, RelayReadInvariant
  <2>8. CASE SendBytes
    BY <2>8, SendBytesInvariant
  <2>9. CASE SendDatagram
    BY <2>9, SendDatagramInvariant
  <2>10. CASE SendChunk
    BY <2>10, SendChunkInvariant
  <2>11. CASE OtherDirection
    BY <2>11, StutterInvariant DEF OtherDirection
  <2>12. CASE Finish
    BY <2>12, FinishInvariant
  <2>13. CASE UNCHANGED vars
    BY <2>13, StutterInvariant DEF vars
  <2> QED
    BY <2>1, <2>2, <2>3, <2>4, <2>5, <2>6, <2>7, <2>8, <2>9, <2>10, <2>11, <2>12, <2>13
       DEF Next
<1> QED
  BY <1>1, <1>2, PTL DEF Spec

\* The server connects where the application asked (RequestHeard): the bytes left to
\* be read are the rest of a header of that destination at every cut of the stream,
\* for addresses of any bytes.
THEOREM ServerHearsRequest == Spec => []RequestHeard
<1>1. IInv => RequestHeard
  <2> SUFFICES ASSUME IInv, side = "tunnel", parse.step \in {"done", "relay"}
               PROVE  /\ ToVlessRequest(parse) = ask /\ parse.cmd = Command[mode]
                      /\ parse.flow = IF mode = "vision" THEN VisionName ELSE << >>
    BY DEF RequestHeard
  <2>1. ~Asking /\ ~Refused
    BY DEF Asking, Refused
  <2>2. CASE Relaying
    BY <2>2 DEF Relaying
  <2>3. CASE Reading
    <3>1. PICK a \in Extras(mode), t \in Seq(Nat), body \in Seq(Nat) :
            VlessRead(ask, a, Command[mode], parse, buf \o t, body)
      BY <2>3 DEF Reading
    <3>2. parse.step = "done"
      BY <3>1 DEF VlessRead, VlessSteps
    <3>3. ask \in Asked /\ mode \in Modes
      BY DEF IInv, StateTypes
    <3>4. /\ ToVlessRequest(parse) = ask /\ parse.cmd = Command[mode]
          /\ parse.flow = IF mode = "vision" THEN VisionName ELSE << >>
          /\ buf \o t = body /\ parse \in Parses
      BY <3>1, <3>2, <3>3, VlessDone, Zenon
    <3> QED
      BY <3>4
  <2> QED
    BY <2>1, <2>2, <2>3, Zenon DEF IInv
<1> QED
  BY <1>1, Invariance, PTL

\* Nothing is delivered before the relay starts.
LEMMA NothingYet ==
  ASSUME IInv, ~Relaying
  PROVE  delivered = << >> /\ parse.step # "relay"
<1>1. delivered = << >>
  BY DEF IInv, Asking, Reading, Refused
<1>2. parse.step # "relay"
  BY RelayStarted
<1> QED
  BY <1>1, <1>2

\* A stream's bytes are delivered as they were given (StreamExact): what the relay
\* has passed on and what is still to come make up what was given.
THEOREM StreamArrives == Spec => []StreamExact
<1>1. IInv => StreamExact
  <2> SUFFICES ASSUME IInv, mode = "tcp" PROVE Heard
    BY DEF StreamExact
  <2>1. given \in Seq(Nat)
    BY DEF IInv, StateTypes
  <2>2. CASE ~Relaying
    <3>1. delivered = << >> /\ parse.step # "relay"
      BY <2>2, NothingYet
    <3>2. IsPrefix(<< >>, given)
      BY <2>1 DEF IsPrefix
    <3> QED
      BY <3>1, <3>2, Zenon DEF Heard
  <2>3. CASE Relaying
    <3>1. PICK t \in Seq(Nat) : Coming(t, line, over) /\ delivered \o t = given
      BY <2>3 DEF Relaying
    <3>2. delivered \in Seq(Nat)
      BY <2>3 DEF Relaying
    <3>3. IsPrefix(delivered, delivered \o t)
      BY <3>2 DEF IsPrefix
    <3>4. line = << >> /\ over # "broken" => delivered = given
      <4>1. delivered \o << >> = delivered
        BY <3>2, Empty, Zenon
      <4> QED
        BY <3>1, <4>1, Zenon DEF Coming
    <3> QED
      BY <3>1, <3>3, <3>4, Zenon DEF Heard
  <2> QED
    BY <2>2, <2>3
<1> QED
  BY <1>1, Invariance, PTL

\* Datagrams are delivered whole and in order (PacketsWhole), however their frames
\* are cut: what the relay has and what is still to come are the frames of those it
\* has not delivered, and it never rests with a whole frame.
THEOREM DatagramsArrive == Spec => []PacketsWhole
<1>1. IInv => PacketsWhole
  <2> SUFFICES ASSUME IInv, mode = "udp", ~PacketThere PROVE Heard
    BY DEF PacketsWhole
  <2>1. given \in Seq(Datagrams) /\ buf \in Seq(Nat)
    BY DEF IInv, StateTypes
  <2>2. CASE ~Relaying
    <3>1. delivered = << >> /\ parse.step # "relay"
      BY <2>2, NothingYet
    <3>2. IsPrefix(<< >>, given)
      BY <2>1 DEF IsPrefix
    <3> QED
      BY <3>1, <3>2, Zenon DEF Heard
  <2>3. CASE Relaying
    <3>1. PICK t \in Seq(Nat), i \in 0 .. Len(given) :
            /\ Coming(t, line, over) /\ delivered = SubSeq(given, 1, i)
            /\ Framed(given, i, buf \o t)
      BY <2>3 DEF Relaying
    <3>2. IsPrefix(SubSeq(given, 1, i), given)
      BY <2>1 DEF IsPrefix
    <3>3. line = << >> /\ over # "broken" => delivered = given
      <4> SUFFICES ASSUME line = << >>, over # "broken" PROVE delivered = given
        OBVIOUS
      <4>1. t = << >>
        BY <3>1, Zenon DEF Coming
      <4>2. ~(i < Len(given))
        <5> SUFFICES ASSUME i < Len(given) PROVE FALSE
          OBVIOUS
        <5>1. PICK r \in Seq(Nat) :
                Framed(given, i + 1, r) /\ buf \o t = FramePacket(given[i + 1]) \o r
          BY <2>1, <3>1, FramedHead, Zenon
        <5> DEFINE d == given[i + 1]
        <5>2. d \in Datagrams
          BY <2>1, <3>1, OneMore, Zenon
        <5> HIDE DEF d
        <5>3. Seen(d, buf, t, r)
          BY <2>1, <5>2, FrameSeen, Zenon
        <5>4. /\ Len(buf) \in Nat /\ Len(buf) >= 2 + Len(d)
              /\ Len(buf) >= 2 => buf[1] * Base + buf[2] = Len(d)
          BY <4>1, <5>1, <5>3, Zenon DEF Seen, d
        <5>5. Len(d) \in Nat
          BY <5>2, FrameType, Zenon
        <5>6. Len(buf) >= 2
          BY <5>4, <5>5
        <5>7. PacketLen = Len(d)
          BY <5>4, <5>6, Zenon DEF PacketLen
        <5> QED
          BY <5>4, <5>6, <5>7, Zenon DEF PacketThere
      <4>3. i = Len(given)
        BY <2>1, <4>2
      <4> QED
        BY <2>1, <3>1, <4>3
    <3> QED
      BY <3>1, <3>2, <3>3, Zenon DEF Heard
  <2> QED
    BY <2>2, <2>3
<1> QED
  BY <1>1, Invariance, PTL
-----------------------------------------------------------------------------
(* What a Vision reader makes of bytes, one after the other.                *)

\* Of the numbers with a property one is the least.
LEMMA Least ==
  ASSUME NEW T, T \subseteq Nat, T # {}
  PROVE  \E m \in T : \A k \in T : m <= k
<1> DEFINE R == OpToRel(<, Nat)
<1>1. IsWellFoundedOn(R, Nat)
  BY NatLessThanWellFounded, Zenon
<1>2. \A m, k \in Nat : k < m => <<k, m>> \in R
  BY DEF OpToRel
<1> HIDE DEF R
<1>3. PICK m \in T : \A k \in T : ~ (<<k, m>> \in R)
  BY <1>1, WFMin, Zenon
<1>4. m \in Nat /\ \A k \in T : k \in Nat /\ ~(k < m)
  BY <1>2, <1>3, Zenon
<1>5. \A k \in T : m <= k
  BY <1>4
<1> QED
  BY <1>3, <1>5, Zenon

\* A reader, and a reader with what it has returned.
Readers == [started : BOOLEAN, directCopy : BOOLEAN, header : 0 .. 5, command : Nat,
            content : Nat, padding : Nat]
Outputs == [r : Readers, out : Seq(Nat)]

\* What VisionReader::process() does with the next byte, and with each of some bytes.
Begin(r) == [r |-> r, out |-> << >>]
After(h, b) == LET s == ReaderByte(h.r, b) IN [r |-> s.r, out |-> h.out \o s.out]
RunOf(r, s, f) ==
  [i \in 0 .. Len(s) |-> IF i = 0 THEN Begin(r) ELSE After(f[i - 1], s[i])]
Runs(r, s, n, f) ==
  /\ f \in [0 .. n -> Outputs] /\ f[0] = Begin(r)
  /\ \A i \in 1 .. n : f[i] = After(f[i - 1], s[i])

\* A field of a reader set along with its header is.
LEMMA HeaderSet ==
  ASSUME NEW q \in Readers, NEW n \in Nat
  PROVE  \A h \in 0 .. 5 : /\ [q EXCEPT !.header = h, !.command = n] \in Readers
                           /\ [q EXCEPT !.header = h, !.content = n] \in Readers
                           /\ [q EXCEPT !.header = h, !.content = @ + n] \in Readers
                           /\ [q EXCEPT !.header = h, !.padding = n] \in Readers
                           /\ [q EXCEPT !.header = h, !.padding = @ + n] \in Readers
<1> SUFFICES ASSUME NEW h \in 0 .. 5
             PROVE  /\ [q EXCEPT !.header = h, !.command = n] \in Readers
                    /\ [q EXCEPT !.header = h, !.content = n] \in Readers
                    /\ [q EXCEPT !.header = h, !.content = @ + n] \in Readers
                    /\ [q EXCEPT !.header = h, !.padding = n] \in Readers
                    /\ [q EXCEPT !.header = h, !.padding = @ + n] \in Readers
  OBVIOUS
<1> DEFINE p == [q EXCEPT !.header = h]
<1>1. p \in Readers
  BY DEF Readers
<1>2. p.content = q.content /\ p.padding = q.padding
  BY DEF Readers
<1>3. /\ [q EXCEPT !.header = h, !.command = n] = [p EXCEPT !.command = n]
      /\ [q EXCEPT !.header = h, !.content = n] = [p EXCEPT !.content = n]
      /\ [q EXCEPT !.header = h, !.content = @ + n] = [p EXCEPT !.content = @ + n]
      /\ [q EXCEPT !.header = h, !.padding = n] = [p EXCEPT !.padding = n]
      /\ [q EXCEPT !.header = h, !.padding = @ + n] = [p EXCEPT !.padding = @ + n]
  BY <1>2 DEF Readers
<1> HIDE DEF p
<1>4. /\ [p EXCEPT !.command = n] \in Readers
      /\ [p EXCEPT !.content = n] \in Readers
      /\ [p EXCEPT !.padding = n] \in Readers
  <2>1. [p EXCEPT !.command = n] \in Readers
    BY <1>1 DEF Readers
  <2>2. [p EXCEPT !.content = n] \in Readers
    BY <1>1 DEF Readers
  <2>3. [p EXCEPT !.padding = n] \in Readers
    BY <1>1 DEF Readers
  <2> QED
    BY <2>1, <2>2, <2>3, Zenon
<1>5. [p EXCEPT !.content = @ + n] \in Readers
  BY <1>1 DEF Readers
<1>6. [p EXCEPT !.padding = @ + n] \in Readers
  BY <1>1 DEF Readers
<1> QED
  BY <1>3, <1>4, <1>5, <1>6, Zenon

\* A byte read leaves a reader, and returns bytes.
LEMMA ByteType ==
  ASSUME NEW r \in Readers, NEW b \in Nat
  PROVE  ReaderByte(r, b) \in Outputs
<1>1. Base \in Nat /\ b * Base \in Nat /\ <<b>> \in Seq(Nat) /\ << >> \in Seq(Nat)
  <2>1. Base \in Nat
    BY VisionAssumption
  <2> QED
    BY <2>1
<1>2. \A q \in Readers : q.header > 0 => HeaderByte(q, b) \in Outputs
  <2> SUFFICES ASSUME NEW q \in Readers, q.header > 0
               PROVE  HeaderByte(q, b) \in Outputs
    OBVIOUS
  <2> DEFINE z == b * Base
  <2>1. z \in Nat
    BY <1>1
  <2>2. /\ q.header = 5 => HeaderByte(q, b) = Skipped([q EXCEPT !.header = 4, !.command = b])
        /\ q.header = 4 => HeaderByte(q, b) = Skipped([q EXCEPT !.header = 3, !.content = z])
        /\ q.header = 3 => HeaderByte(q, b) = Skipped([q EXCEPT !.header = 2, !.content = @ + b])
        /\ q.header = 2 => HeaderByte(q, b) = Skipped([q EXCEPT !.header = 1, !.padding = z])
        /\ q.header = 1 => HeaderByte(q, b) = Skipped([q EXCEPT !.header = 0, !.padding = @ + b])
    BY DEF HeaderByte
  <2>3. q.header \in {1, 2, 3, 4, 5}
    BY DEF Readers
  <2> HIDE DEF z
  <2>4. \A k \in Readers : Skipped(k) \in Outputs
    BY <1>1 DEF Skipped, Outputs
  <2>5. /\ [q EXCEPT !.header = 4, !.command = b] \in Readers
        /\ [q EXCEPT !.header = 3, !.content = z] \in Readers
        /\ [q EXCEPT !.header = 2, !.content = @ + b] \in Readers
        /\ [q EXCEPT !.header = 1, !.padding = z] \in Readers
        /\ [q EXCEPT !.header = 0, !.padding = @ + b] \in Readers
    <3>1. 0 \in 0 .. 5 /\ 1 \in 0 .. 5 /\ 2 \in 0 .. 5 /\ 3 \in 0 .. 5 /\ 4 \in 0 .. 5
      OBVIOUS
    <3> QED
      BY <2>1, <3>1, HeaderSet, Zenon
  <2> QED
    BY <2>2, <2>3, <2>4, <2>5, Zenon
<1>3. \A q \in Readers : Copied(q, b) \in Outputs /\ Skipped(q) \in Outputs
  BY <1>1 DEF Copied, Skipped, Outputs
<1>4. CASE r.directCopy
  BY <1>3, <1>4 DEF ReaderByte
<1>5. CASE ~r.directCopy /\ r.header > 0
  BY <1>2, <1>5 DEF ReaderByte
<1>6. CASE ~r.directCopy /\ r.header = 0 /\ r.content > 0
  <2>1. [r EXCEPT !.content = @ - 1] \in Readers
    BY <1>6 DEF Readers
  <2>2. ReaderByte(r, b) = Copied([r EXCEPT !.content = @ - 1], b)
    BY <1>6 DEF ReaderByte
  <2> QED
    BY <1>3, <2>1, <2>2, Zenon
<1>7. CASE ~r.directCopy /\ r.header = 0 /\ r.content = 0 /\ r.padding > 0
  <2>1. [r EXCEPT !.padding = @ - 1] \in Readers
    BY <1>7 DEF Readers
  <2>2. ReaderByte(r, b) = Skipped([r EXCEPT !.padding = @ - 1])
    BY <1>7 DEF ReaderByte
  <2> QED
    BY <1>3, <2>1, <2>2, Zenon
<1>8. CASE ~r.directCopy /\ r.header = 0 /\ r.content = 0 /\ r.padding = 0
  <2>1. /\ [r EXCEPT !.header = 5] \in Readers /\ [r EXCEPT !.header = 5].header > 0
        /\ [r EXCEPT !.directCopy = TRUE] \in Readers
    <3>1. [r EXCEPT !.header = 5] \in Readers
      BY DEF Readers
    <3>2. [r EXCEPT !.header = 5].header > 0
      BY DEF Readers
    <3>3. [r EXCEPT !.directCopy = TRUE] \in Readers
      BY DEF Readers
    <3> QED
      BY <3>1, <3>2, <3>3, Zenon
  <2>2. ReaderByte(r, b) = IF r.command = CONTINUE
                             THEN HeaderByte([r EXCEPT !.header = 5], b)
                             ELSE Copied([r EXCEPT !.directCopy = TRUE], b)
    BY <1>8 DEF ReaderByte
  <2> QED
    BY <1>2, <1>3, <2>1, <2>2, Zenon
<1>9. /\ r.header > 0 \/ r.header = 0
      /\ r.content > 0 \/ r.content = 0
      /\ r.padding > 0 \/ r.padding = 0
  BY DEF Readers
<1> QED
  BY <1>4, <1>5, <1>6, <1>7, <1>8, <1>9, Zenon

\* The same of a byte more.
LEMMA AfterType ==
  ASSUME NEW h \in Outputs, NEW b \in Nat
  PROVE  After(h, b) \in Outputs
<1> DEFINE s == ReaderByte(h.r, b)
           x == h.out
           y == s.out
<1>1. h.r \in Readers /\ x \in Seq(Nat)
  BY DEF Outputs
<1>2. s \in Outputs
  BY <1>1, ByteType, Zenon
<1> HIDE DEF s
<1>3. s.r \in Readers /\ y \in Seq(Nat)
  BY <1>2 DEF Outputs
<1> HIDE DEF x, y
<1>4. x \o y \in Seq(Nat)
  BY <1>1, <1>3, Joined, Zenon
<1> DEFINE z == x \o y
<1>5. After(h, b) = [r |-> s.r, out |-> z]
  BY Zenon DEF After, s, x, y
<1> HIDE DEF z
<1>6. z \in Seq(Nat)
  BY <1>4, Zenon DEF z
<1> QED
  BY <1>3, <1>5, <1>6 DEF Outputs

\* What is after a byte is a reader's outcome.
LEMMA RunGrows ==
  ASSUME NEW r \in Readers, NEW s \in Seq(Nat), NEW n \in Nat, n < Len(s), NEW f,
         Runs(r, s, n, f)
  PROVE  \E g : Runs(r, s, n + 1, g)
<1> DEFINE e == After(f[n], s[n + 1])
           g == [i \in 0 .. n + 1 |-> IF i <= n THEN f[i] ELSE e]
<1>1. f \in [0 .. n -> Outputs] /\ f[0] = Begin(r) /\ \A i \in 1 .. n : f[i] = After(f[i - 1], s[i])
  BY DEF Runs
<1>2. e \in Outputs
  <2>1. f[n] \in Outputs /\ s[n + 1] \in Nat
    BY <1>1
  <2> QED
    BY <2>1, AfterType, Zenon
<1>3. \A i \in 0 .. n : g[i] = f[i]
  OBVIOUS
<1>4. g[n + 1] = e
  OBVIOUS
<1>5. g \in [0 .. n + 1 -> Outputs]
  <2> HIDE DEF e
  <2> QED
    BY <1>1, <1>2
<1> HIDE DEF g
<1>6. ASSUME NEW i \in 1 .. n + 1 PROVE g[i] = After(g[i - 1], s[i])
  <2>1. CASE i \in 1 .. n
    <3>1. g[i] = f[i] /\ g[i - 1] = f[i - 1]
      BY <1>3, <2>1
    <3>2. f[i] = After(f[i - 1], s[i])
      BY <1>1, <2>1, Zenon
    <3> QED
      BY <3>1, <3>2, Zenon
  <2>2. CASE i = n + 1
    <3>1. g[i - 1] = f[n] /\ g[i] = e
      BY <1>3, <1>4, <2>2
    <3> QED
      BY <2>2, <3>1, Zenon DEF e
  <2> QED
    BY <2>1, <2>2
<1>7. g[0] = Begin(r)
  <2>1. 0 \in 0 .. n
    OBVIOUS
  <2> QED
    BY <1>1, <1>3, <2>1, Zenon
<1> QED
  BY <1>5, <1>6, <1>7, Zenon DEF Runs

\* Bytes can be read one after the other: the least number of them that cannot follows
\* one that can.
LEMMA RunExists ==
  ASSUME NEW r \in Readers, NEW s \in Seq(Nat)
  PROVE  \E f : Runs(r, s, Len(s), f)
<1> DEFINE T == {n \in 0 .. Len(s) : ~ \E f : Runs(r, s, n, f)}
<1>1. Len(s) \in Nat
  OBVIOUS
<1>2. \E f : Runs(r, s, 0, f)
  <2> DEFINE g == [i \in 0 .. 0 |-> Begin(r)]
  <2>1. << >> \in Seq(Nat)
    OBVIOUS
  <2>2. Begin(r) \in Outputs
    BY <2>1 DEF Begin, Outputs
  <2>3. g \in [0 .. 0 -> Outputs] /\ g[0] = Begin(r)
    BY <2>2
  <2>4. 1 .. 0 = {}
    OBVIOUS
  <2> HIDE DEF g
  <2>5. Runs(r, s, 0, g)
    BY <2>3, <2>4, Zenon DEF Runs
  <2> QED
    BY <2>5, Zenon
<1>l. Len(s) \in 0 .. Len(s)
  BY <1>1
<1>3. SUFFICES ASSUME T # {} PROVE FALSE
  <2>1. T = {} => Len(s) \notin T
    BY Zenon
  <2> QED
    BY <1>l, <2>1, Zenon
<1>4. T \subseteq Nat
  BY <1>1
<1>5. PICK m \in T : \A k \in T : m <= k
  BY <1>3, <1>4, Least, Zenon
<1>6. m \in 0 .. Len(s) /\ ~ \E f : Runs(r, s, m, f)
  BY <1>5, Zenon
<1>7. m # 0
  BY <1>2, <1>6, Zenon
<1>8. m - 1 \in 0 .. Len(s) /\ m - 1 \in Nat /\ m - 1 < Len(s) /\ (m - 1) + 1 = m /\ ~(m <= m - 1)
  BY <1>1, <1>6, <1>7
<1>9. PICK f : Runs(r, s, m - 1, f)
  <2>1. m - 1 \notin T
    BY <1>5, <1>8, Zenon
  <2> QED
    BY <1>8, <2>1, Zenon
<1>10. \E g : Runs(r, s, (m - 1) + 1, g)
  BY <1>8, <1>9, RunGrows, Zenon
<1> QED
  BY <1>6, <1>8, <1>10, Zenon

\* In one way.
Agree(r, s, f, g) ==
  Runs(r, s, Len(s), f) /\ g = RunOf(r, s, g) => \A i \in 0 .. Len(s) : g[i] = f[i]
LEMMA RunUnique ==
  ASSUME NEW r, NEW s \in Seq(Nat), NEW f, NEW g
  PROVE  Agree(r, s, f, g)
<1> SUFFICES ASSUME Runs(r, s, Len(s), f), g = RunOf(r, s, g)
             PROVE  \A i \in 0 .. Len(s) : g[i] = f[i]
  BY DEF Agree
<1> DEFINE n == Len(s)
           T == {i \in 0 .. n : g[i] # f[i]}
           d == [i \in 0 .. n |-> IF i = 0 THEN Begin(r) ELSE After(g[i - 1], s[i])]
<1>1. n \in Nat
  OBVIOUS
<1>2. g = d
  BY Zenon DEF RunOf
<1>3. \A i \in 0 .. n : d[i] = IF i = 0 THEN Begin(r) ELSE After(g[i - 1], s[i])
  BY Zenon
<1> HIDE DEF d, n
<1>4. \A i \in 0 .. n : g[i] = IF i = 0 THEN Begin(r) ELSE After(g[i - 1], s[i])
  BY <1>2, <1>3, Zenon
<1>5. f[0] = Begin(r) /\ \A i \in 1 .. n : f[i] = After(f[i - 1], s[i])
  BY Zenon DEF Runs, n
<1>6. SUFFICES ASSUME T # {} PROVE FALSE
  BY Zenon DEF n
<1>7. T \subseteq Nat
  BY <1>1
<1>8. PICK m \in T : \A k \in T : m <= k
  BY <1>6, <1>7, Least, Zenon
<1>9. m \in 0 .. n /\ g[m] # f[m]
  BY <1>8, Zenon
<1>10. CASE m = 0
  BY <1>4, <1>5, <1>9, <1>10, Zenon
<1>11. CASE m # 0
  <2>1. m - 1 \in 0 .. n /\ m \in 1 .. n /\ ~(m <= m - 1)
    BY <1>1, <1>9, <1>11
  <2>2. g[m - 1] = f[m - 1]
    <3>1. m - 1 \notin T
      BY <1>8, <2>1, Zenon
    <3> QED
      BY <2>1, <3>1, Zenon
  <2>3. g[m] = After(g[m - 1], s[m]) /\ f[m] = After(f[m - 1], s[m])
    BY <1>4, <1>5, <1>9, <1>11, <2>1, Zenon
  <2> QED
    BY <1>9, <2>2, <2>3, Zenon
<1> QED
  BY <1>10, <1>11, Zenon

\* A chunk is read that way.
LEMMA BytesRun ==
  ASSUME NEW r, NEW s \in Seq(Nat), NEW f, Runs(r, s, Len(s), f)
  PROVE  ReaderBytes(r, s) = f[Len(s)]
<1> DEFINE g == CHOOSE h : h = RunOf(r, s, h)
           d == [i \in 0 .. Len(s) |-> IF i = 0 THEN Begin(r) ELSE After(f[i - 1], s[i])]
<1>1. f = RunOf(r, s, f)
  <2>1. f \in [0 .. Len(s) -> Outputs]
    BY DEF Runs
  <2>2. \A i \in 0 .. Len(s) : f[i] = IF i = 0 THEN Begin(r) ELSE After(f[i - 1], s[i])
    <3> SUFFICES ASSUME NEW i \in 0 .. Len(s)
                 PROVE  f[i] = IF i = 0 THEN Begin(r) ELSE After(f[i - 1], s[i])
      OBVIOUS
    <3>1. i # 0 => i \in 1 .. Len(s)
      OBVIOUS
    <3>2. f[0] = Begin(r) /\ \A j \in 1 .. Len(s) : f[j] = After(f[j - 1], s[j])
      BY Zenon DEF Runs
    <3> QED
      BY <3>1, <3>2, Zenon
  <2>3. f = d
    BY <2>1, <2>2, Zenon
  <2> QED
    BY <2>3, Zenon DEF RunOf
<1>2. g = RunOf(r, s, g)
  BY <1>1, Zenon
<1>3. ReaderBytes(r, s) = g[Len(s)]
  BY Zenon DEF ReaderBytes, RunOf, Begin, After
<1>4. Len(s) \in 0 .. Len(s)
  OBVIOUS
<1> HIDE DEF g
<1>5. \A i \in 0 .. Len(s) : g[i] = f[i]
  <2>1. Agree(r, s, f, g)
    BY RunUnique, Zenon
  <2> QED
    BY <1>2, <2>1, Zenon DEF Agree
<1> QED
  BY <1>3, <1>4, <1>5, Zenon

\* What a chunk leaves is a reader, and what it returns is bytes.
LEMMA BytesType ==
  ASSUME NEW r \in Readers, NEW s \in Seq(Nat)
  PROVE  ReaderBytes(r, s) \in Outputs
<1>1. PICK f : Runs(r, s, Len(s), f)
  BY RunExists, Zenon
<1>2. ReaderBytes(r, s) = f[Len(s)]
  BY <1>1, BytesRun, Zenon
<1>3. f \in [0 .. Len(s) -> Outputs] /\ Len(s) \in 0 .. Len(s)
  BY <1>1 DEF Runs
<1> QED
  BY <1>2, <1>3, Zenon

\* The same outcome, of a reader that had returned o before.
Since(o, h) == [r |-> h.r, out |-> o \o h.out]
LEMMA SinceAfter ==
  ASSUME NEW o \in Seq(Nat), NEW h \in Outputs, NEW b \in Nat
  PROVE  /\ After(Since(o, h), b) = Since(o, After(h, b))
         /\ Since(o, h) \in Outputs
<1> DEFINE s == ReaderByte(h.r, b)
           x == h.out
           y == s.out
<1>1. h.r \in Readers /\ x \in Seq(Nat)
  BY DEF Outputs
<1>2. s \in Outputs
  BY <1>1, ByteType, Zenon
<1> HIDE DEF s
<1>3. s.r \in Readers /\ y \in Seq(Nat)
  BY <1>2 DEF Outputs
<1> HIDE DEF x, y
<1>4. (o \o x) \o y = o \o (x \o y)
  BY <1>1, <1>3, Chain, Zenon
<1> DEFINE ox == o \o x
<1>5. ox \in Seq(Nat)
  BY <1>1, Joined, Zenon
<1> HIDE DEF ox
<1>6. Since(o, h) = [r |-> h.r, out |-> ox]
  BY Zenon DEF Since, x, ox
<1>7. Since(o, h) \in Outputs /\ Since(o, h).r = h.r /\ Since(o, h).out = ox
  BY <1>1, <1>5, <1>6 DEF Outputs
<1>8. After(Since(o, h), b) = [r |-> s.r, out |-> ox \o y]
  BY <1>7, Zenon DEF After, s, y
<1> DEFINE xy == x \o y
<1>9. After(h, b) = [r |-> s.r, out |-> xy]
  BY Zenon DEF After, s, y, x, xy
<1> HIDE DEF xy
<1>10. After(h, b).r = s.r /\ After(h, b).out = xy
  BY <1>9
<1>11. Since(o, After(h, b)) = [r |-> s.r, out |-> o \o xy]
  BY <1>10, Zenon DEF Since
<1>12. ox \o y = o \o xy
  BY <1>4, Zenon DEF ox, xy
<1> QED
  BY <1>7, <1>8, <1>11, <1>12, Zenon

\* A cut makes no difference: what is read in two chunks is read as in one.
Joint(r, s, t) ==
  LET a == ReaderBytes(r, s)
      b == ReaderBytes(a.r, t)
  IN  ReaderBytes(r, s \o t) = Since(a.out, b)
LEMMA BytesJoined ==
  ASSUME NEW r \in Readers, NEW s \in Seq(Nat), NEW t \in Seq(Nat)
  PROVE  Joint(r, s, t)
<1> DEFINE n == Len(s)
           k == Len(t)
           u == s \o t
           a == ReaderBytes(r, s)
           b == ReaderBytes(a.r, t)
<1>1. /\ n \in Nat /\ k \in Nat /\ u \in Seq(Nat) /\ Len(u) = n + k
      /\ \A i \in 1 .. n : u[i] = s[i]
      /\ \A i \in 1 .. k : u[n + i] = t[i]
  BY Parts, Zenon
<1>2. PICK f : Runs(r, s, n, f)
  BY RunExists, Zenon
<1>3. a = f[n] /\ a \in Outputs
  BY <1>2, BytesRun, BytesType, Zenon
<1>4. a.r \in Readers /\ a.out \in Seq(Nat)
  BY <1>3 DEF Outputs
<1>5. PICK h : Runs(a.r, t, k, h)
  BY <1>4, RunExists, Zenon
<1>6. b = h[k]
  BY <1>5, BytesRun, Zenon
<1> HIDE DEF a, b
<1> DEFINE o == a.out
           g == [i \in 0 .. n + k |-> IF i <= n THEN f[i] ELSE Since(o, h[i - n])]
<1> HIDE DEF n, k, u
<1>7. /\ f \in [0 .. n -> Outputs] /\ f[0] = Begin(r)
      /\ \A i \in 1 .. n : f[i] = After(f[i - 1], s[i])
  BY <1>2, Zenon DEF Runs
<1>8. /\ h \in [0 .. k -> Outputs] /\ h[0] = Begin(a.r)
      /\ \A i \in 1 .. k : h[i] = After(h[i - 1], t[i])
  BY <1>5, Zenon DEF Runs
<1>9. o \in Seq(Nat)
  BY <1>4
<1> HIDE DEF o
<1>10. Since(o, h[0]) = f[n]
  <2>1. Since(o, h[0]) = [r |-> a.r, out |-> o \o << >>]
    <3>1. h[0].r = a.r /\ h[0].out = << >>
      BY <1>8 DEF Begin
    <3> QED
      BY <3>1, Zenon DEF Since
  <2>2. o \o << >> = o
    BY <1>9, Empty, Zenon
  <2>3. a = [r |-> a.r, out |-> a.out]
    BY <1>3 DEF Outputs
  <2> QED
    BY <1>3, <2>1, <2>2, <2>3, Zenon DEF o
<1>11. \A i \in 0 .. n : g[i] = f[i]
  BY <1>1
<1>12. \A i \in 0 .. k : g[n + i] = Since(o, h[i])
  <2> SUFFICES ASSUME NEW i \in 0 .. k PROVE g[n + i] = Since(o, h[i])
    OBVIOUS
  <2>1. CASE i = 0
    <3>1. n + i = n /\ n \in 0 .. n
      BY <1>1, <2>1
    <3> QED
      BY <1>10, <1>11, <2>1, <3>1, Zenon
  <2>2. CASE i # 0
    <3>1. n + i \in 0 .. n + k /\ ~(n + i <= n) /\ (n + i) - n = i
      BY <1>1, <2>2
    <3> QED
      BY <3>1
  <2> QED
    BY <2>1, <2>2, Zenon
<1>13. g \in [0 .. n + k -> Outputs]
  <2>1. \A i \in 0 .. n + k : (IF i <= n THEN f[i] ELSE Since(o, h[i - n])) \in Outputs
    <3> SUFFICES ASSUME NEW i \in 0 .. n + k
                 PROVE  (IF i <= n THEN f[i] ELSE Since(o, h[i - n])) \in Outputs
      OBVIOUS
    <3>1. CASE i <= n
      <4>1. f[i] \in Outputs
        BY <1>1, <1>7, <3>1
      <4> QED
        BY <3>1, <4>1, Zenon
    <3>2. CASE ~(i <= n)
      <4>1. h[i - n] \in Outputs
        BY <1>1, <1>8, <3>2
      <4>2. Since(o, h[i - n]) \in Outputs
        <5>1. 0 \in Nat
          OBVIOUS
        <5> QED
          BY <1>9, <4>1, <5>1, SinceAfter, Zenon
      <4> QED
        BY <3>2, <4>2, Zenon
    <3> QED
      BY <3>1, <3>2, Zenon
  <2> QED
    BY <2>1, Zenon
<1> HIDE DEF g
<1>14. ASSUME NEW i \in 1 .. n + k PROVE g[i] = After(g[i - 1], u[i])
  <2>1. CASE i \in 1 .. n
    <3>1. i \in 0 .. n /\ i - 1 \in 0 .. n
      BY <1>1, <2>1
    <3> QED
      BY <1>1, <1>7, <1>11, <2>1, <3>1, Zenon
  <2>2. CASE i \notin 1 .. n
    <3> DEFINE j == i - n
    <3>1. j \in 1 .. k /\ j \in 0 .. k /\ j - 1 \in 0 .. k /\ n + j = i /\ n + (j - 1) = i - 1
      BY <1>1, <2>2
    <3> HIDE DEF j
    <3>2. g[i] = Since(o, h[j]) /\ g[i - 1] = Since(o, h[j - 1]) /\ u[i] = t[j]
      BY <1>1, <1>12, <3>1, Zenon
    <3>3. h[j] = After(h[j - 1], t[j]) /\ h[j - 1] \in Outputs
      BY <1>8, <3>1, Zenon
    <3>4. t[j] \in Nat
      BY <3>1 DEF k
    <3>5. After(Since(o, h[j - 1]), t[j]) = Since(o, After(h[j - 1], t[j]))
      BY <1>9, <3>3, <3>4, SinceAfter, Zenon
    <3> QED
      BY <3>2, <3>3, <3>5, Zenon
  <2> QED
    BY <2>1, <2>2, Zenon
<1>15. g[0] = Begin(r)
  <2>1. 0 \in 0 .. n
    BY <1>1
  <2> QED
    BY <1>7, <1>11, <2>1, Zenon
<1>16. Runs(r, u, Len(u), g)
  BY <1>1, <1>13, <1>14, <1>15, Zenon DEF Runs
<1>17. ReaderBytes(r, u) = g[Len(u)]
  BY <1>1, <1>16, BytesRun, Zenon
<1>18. g[n + k] = Since(o, h[k])
  <2>1. k \in 0 .. k
    BY <1>1
  <2> QED
    BY <1>12, <2>1, Zenon
<1>19. ReaderBytes(r, u) = Since(a.out, b)
  BY <1>1, <1>6, <1>17, <1>18, Zenon DEF o
<1> QED
  BY <1>19, Zenon DEF Joint, u, a, b

-----------------------------------------------------------------------------
(* What a Vision reader makes of a frame.                                   *)

\* A reader that has started and unpads: what it has of a header, and what is left of
\* the content and of the padding.
Unpadding(h, c, n, k) ==
  [started |-> TRUE, directCopy |-> FALSE, header |-> h, command |-> c, content |-> n,
   padding |-> k]

\* The same, said of its fields.
Unpads(q, h, c, n, k) ==
  /\ q \in Readers /\ q.started = TRUE /\ q.directCopy = FALSE
  /\ q.header = h /\ q.command = c /\ q.content = n /\ q.padding = k

\* Such a reader is one, with those fields.
LEMMA UnpaddingType ==
  ASSUME NEW h \in 0 .. 5, NEW c \in Nat, NEW n \in Nat, NEW k \in Nat
  PROVE  Unpadding(h, c, n, k) \in Readers /\ Unpads(Unpadding(h, c, n, k), h, c, n, k)
BY DEF Unpadding, Readers, Unpads

\* There is no other with the same fields.
LEMMA UnpaddingOne ==
  ASSUME NEW q, NEW h, NEW c, NEW n, NEW k
  PROVE  Unpads(q, h, c, n, k) => q = Unpadding(h, c, n, k)
BY DEF Unpadding, Readers, Unpads

\* A field of it set.
LEMMA UnpadsSet ==
  ASSUME NEW q, NEW h \in 0 .. 5, NEW c \in Nat, NEW n \in Nat, NEW k \in Nat,
         NEW g \in 0 .. 5, NEW m \in Nat
  PROVE  Unpads(q, h, c, n, k) => /\ Unpads([q EXCEPT !.header = g], g, c, n, k)
                                  /\ Unpads([q EXCEPT !.command = m], h, m, n, k)
                                  /\ Unpads([q EXCEPT !.content = m], h, c, m, k)
                                  /\ Unpads([q EXCEPT !.padding = m], h, c, n, m)
<1> SUFFICES ASSUME Unpads(q, h, c, n, k)
             PROVE  /\ Unpads([q EXCEPT !.header = g], g, c, n, k)
                    /\ Unpads([q EXCEPT !.command = m], h, m, n, k)
                    /\ Unpads([q EXCEPT !.content = m], h, c, m, k)
                    /\ Unpads([q EXCEPT !.padding = m], h, c, n, m)
  OBVIOUS
<1>1. Unpads([q EXCEPT !.header = g], g, c, n, k)
  BY DEF Unpads, Readers
<1>2. Unpads([q EXCEPT !.command = m], h, m, n, k)
  BY DEF Unpads, Readers
<1>3. Unpads([q EXCEPT !.content = m], h, c, m, k)
  BY DEF Unpads, Readers
<1>4. Unpads([q EXCEPT !.padding = m], h, c, n, m)
  BY DEF Unpads, Readers
<1> QED
  BY <1>1, <1>2, <1>3, <1>4, Zenon

\* A byte of a header sets its field.
HeaderTaken(h, c, n, k, b) ==
  LET q == Unpadding(h, c, n, k)
  IN  /\ h = 5 => HeaderByte(q, b) = Skipped(Unpadding(4, b, n, k))
      /\ h = 4 => HeaderByte(q, b) = Skipped(Unpadding(3, c, b * Base, k))
      /\ h = 3 => HeaderByte(q, b) = Skipped(Unpadding(2, c, n + b, k))
      /\ h = 2 => HeaderByte(q, b) = Skipped(Unpadding(1, c, n, b * Base))
      /\ h = 1 => HeaderByte(q, b) = Skipped(Unpadding(0, c, n, k + b))
LEMMA HeaderStep ==
  ASSUME NEW h \in 0 .. 5, NEW c \in Nat, NEW n \in Nat, NEW k \in Nat, NEW b \in Nat
  PROVE  HeaderTaken(h, c, n, k, b)
<1> DEFINE q == Unpadding(h, c, n, k)
           z == b * Base
<1>1. Unpads(q, h, c, n, k)
  BY UnpaddingType, Zenon
<1>2. /\ q \in Readers /\ q.header = h /\ q.content = n /\ q.padding = k
  BY <1>1 DEF Unpads
<1>3. z \in Nat /\ n + b \in Nat /\ k + b \in Nat
  BY VisionAssumption
<1> HIDE DEF q, z
<1>4. \A g \in 0 .. 5, m \in Nat :
        /\ [q EXCEPT !.header = g, !.command = m] = Unpadding(g, m, n, k)
        /\ [q EXCEPT !.header = g, !.content = m] = Unpadding(g, c, m, k)
        /\ [q EXCEPT !.header = g, !.padding = m] = Unpadding(g, c, n, m)
  <2> SUFFICES ASSUME NEW g \in 0 .. 5, NEW m \in Nat
               PROVE  /\ [q EXCEPT !.header = g, !.command = m] = Unpadding(g, m, n, k)
                      /\ [q EXCEPT !.header = g, !.content = m] = Unpadding(g, c, m, k)
                      /\ [q EXCEPT !.header = g, !.padding = m] = Unpadding(g, c, n, m)
    OBVIOUS
  <2> DEFINE p == [q EXCEPT !.header = g]
  <2>1. Unpads(p, g, c, n, k)
    BY <1>1, UnpadsSet, Zenon
  <2>2. /\ [q EXCEPT !.header = g, !.command = m] = [p EXCEPT !.command = m]
        /\ [q EXCEPT !.header = g, !.content = m] = [p EXCEPT !.content = m]
        /\ [q EXCEPT !.header = g, !.padding = m] = [p EXCEPT !.padding = m]
    BY <1>2 DEF Readers
  <2> HIDE DEF p
  <2>3. /\ Unpads([p EXCEPT !.command = m], g, m, n, k)
        /\ Unpads([p EXCEPT !.content = m], g, c, m, k)
        /\ Unpads([p EXCEPT !.padding = m], g, c, n, m)
    BY <2>1, UnpadsSet, Zenon
  <2>4. /\ [p EXCEPT !.command = m] = Unpadding(g, m, n, k)
        /\ [p EXCEPT !.content = m] = Unpadding(g, c, m, k)
        /\ [p EXCEPT !.padding = m] = Unpadding(g, c, n, m)
    <3> DEFINE x == [p EXCEPT !.command = m]
               y == [p EXCEPT !.content = m]
               w == [p EXCEPT !.padding = m]
    <3>1. Unpads(x, g, m, n, k) /\ Unpads(y, g, c, m, k) /\ Unpads(w, g, c, n, m)
      BY <2>3, Zenon
    <3> HIDE DEF x, y, w
    <3>2. x = Unpadding(g, m, n, k)
      BY <3>1 DEF Unpads, Unpadding, Readers
    <3>3. y = Unpadding(g, c, m, k)
      BY <3>1 DEF Unpads, Unpadding, Readers
    <3>4. w = Unpadding(g, c, n, m)
      BY <3>1 DEF Unpads, Unpadding, Readers
    <3> QED
      BY <3>2, <3>3, <3>4, Zenon DEF x, y, w
  <2> QED
    BY <2>2, <2>4, Zenon
<1>5. /\ h = 5 => HeaderByte(q, b) = Skipped([q EXCEPT !.header = 4, !.command = b])
      /\ h = 4 => HeaderByte(q, b) = Skipped([q EXCEPT !.header = 3, !.content = z])
      /\ h = 3 => HeaderByte(q, b) = Skipped([q EXCEPT !.header = 2, !.content = @ + b])
      /\ h = 2 => HeaderByte(q, b) = Skipped([q EXCEPT !.header = 1, !.padding = z])
      /\ h = 1 => HeaderByte(q, b) = Skipped([q EXCEPT !.header = 0, !.padding = @ + b])
  BY <1>2 DEF HeaderByte, z
<1>6. /\ [q EXCEPT !.header = 2, !.content = @ + b] = [q EXCEPT !.header = 2, !.content = n + b]
      /\ [q EXCEPT !.header = 0, !.padding = @ + b] = [q EXCEPT !.header = 0, !.padding = k + b]
  BY <1>2
<1>7. 0 \in 0 .. 5 /\ 1 \in 0 .. 5 /\ 2 \in 0 .. 5 /\ 3 \in 0 .. 5 /\ 4 \in 0 .. 5
  OBVIOUS
<1>8. /\ h = 5 => HeaderByte(q, b) = Skipped(Unpadding(4, b, n, k))
      /\ h = 4 => HeaderByte(q, b) = Skipped(Unpadding(3, c, z, k))
      /\ h = 3 => HeaderByte(q, b) = Skipped(Unpadding(2, c, n + b, k))
      /\ h = 2 => HeaderByte(q, b) = Skipped(Unpadding(1, c, n, z))
      /\ h = 1 => HeaderByte(q, b) = Skipped(Unpadding(0, c, n, k + b))
  BY <1>3, <1>4, <1>5, <1>6, <1>7, Zenon
<1> QED
  BY <1>8, Zenon DEF q, z, HeaderTaken

\* What it does with a byte.
ByteTaken(c, n, k, b) ==
  /\ ReaderByte(Unpadding(5, c, n, k), b) = Skipped(Unpadding(4, b, n, k))
  /\ ReaderByte(Unpadding(0, CONTINUE, 0, 0), b) = Skipped(Unpadding(4, b, 0, 0))
  /\ ReaderByte(Unpadding(4, c, n, k), b) = Skipped(Unpadding(3, c, b * Base, k))
  /\ ReaderByte(Unpadding(3, c, n, k), b) = Skipped(Unpadding(2, c, n + b, k))
  /\ ReaderByte(Unpadding(2, c, n, k), b) = Skipped(Unpadding(1, c, n, b * Base))
  /\ ReaderByte(Unpadding(1, c, n, k), b) = Skipped(Unpadding(0, c, n, k + b))
  /\ n > 0 => ReaderByte(Unpadding(0, c, n, k), b) = Copied(Unpadding(0, c, n - 1, k), b)
  /\ k > 0 => ReaderByte(Unpadding(0, c, 0, k), b) = Skipped(Unpadding(0, c, 0, k - 1))
LEMMA UnpaddingStep ==
  ASSUME NEW c \in Nat, NEW n \in Nat, NEW k \in Nat, NEW b \in Nat
  PROVE  ByteTaken(c, n, k, b)
<1>n. /\ 0 \in 0 .. 5 /\ 1 \in 0 .. 5 /\ 2 \in 0 .. 5 /\ 3 \in 0 .. 5 /\ 4 \in 0 .. 5
      /\ 5 \in 0 .. 5 /\ 0 \in Nat /\ CONTINUE \in Nat /\ CONTINUE = 0
  BY DEF CONTINUE
<1>1. \A h \in 1 .. 5 : ReaderByte(Unpadding(h, c, n, k), b) = HeaderByte(Unpadding(h, c, n, k), b)
  BY DEF ReaderByte, Unpadding
<1>2. /\ ReaderByte(Unpadding(5, c, n, k), b) = HeaderByte(Unpadding(5, c, n, k), b)
      /\ ReaderByte(Unpadding(4, c, n, k), b) = HeaderByte(Unpadding(4, c, n, k), b)
      /\ ReaderByte(Unpadding(3, c, n, k), b) = HeaderByte(Unpadding(3, c, n, k), b)
      /\ ReaderByte(Unpadding(2, c, n, k), b) = HeaderByte(Unpadding(2, c, n, k), b)
      /\ ReaderByte(Unpadding(1, c, n, k), b) = HeaderByte(Unpadding(1, c, n, k), b)
  <2>1. 1 \in 1 .. 5 /\ 2 \in 1 .. 5 /\ 3 \in 1 .. 5 /\ 4 \in 1 .. 5 /\ 5 \in 1 .. 5
    OBVIOUS
  <2> QED
    BY <1>1, <2>1, Zenon
<1>3. /\ HeaderByte(Unpadding(5, c, n, k), b) = Skipped(Unpadding(4, b, n, k))
      /\ HeaderByte(Unpadding(5, CONTINUE, 0, 0), b) = Skipped(Unpadding(4, b, 0, 0))
      /\ HeaderByte(Unpadding(4, c, n, k), b) = Skipped(Unpadding(3, c, b * Base, k))
      /\ HeaderByte(Unpadding(3, c, n, k), b) = Skipped(Unpadding(2, c, n + b, k))
      /\ HeaderByte(Unpadding(2, c, n, k), b) = Skipped(Unpadding(1, c, n, b * Base))
      /\ HeaderByte(Unpadding(1, c, n, k), b) = Skipped(Unpadding(0, c, n, k + b))
  <2>1. /\ HeaderTaken(5, c, n, k, b) /\ HeaderTaken(5, CONTINUE, 0, 0, b)
        /\ HeaderTaken(4, c, n, k, b) /\ HeaderTaken(3, c, n, k, b)
        /\ HeaderTaken(2, c, n, k, b) /\ HeaderTaken(1, c, n, k, b)
    BY <1>n, HeaderStep, Zenon
  <2>2. HeaderByte(Unpadding(5, c, n, k), b) = Skipped(Unpadding(4, b, n, k))
    BY <2>1, Zenon DEF HeaderTaken
  <2>3. HeaderByte(Unpadding(5, CONTINUE, 0, 0), b) = Skipped(Unpadding(4, b, 0, 0))
    BY <2>1, Zenon DEF HeaderTaken
  <2>4. HeaderByte(Unpadding(4, c, n, k), b) = Skipped(Unpadding(3, c, b * Base, k))
    BY <2>1, Zenon DEF HeaderTaken
  <2>5. HeaderByte(Unpadding(3, c, n, k), b) = Skipped(Unpadding(2, c, n + b, k))
    BY <2>1, Zenon DEF HeaderTaken
  <2>6. HeaderByte(Unpadding(2, c, n, k), b) = Skipped(Unpadding(1, c, n, b * Base))
    BY <2>1, Zenon DEF HeaderTaken
  <2>7. HeaderByte(Unpadding(1, c, n, k), b) = Skipped(Unpadding(0, c, n, k + b))
    BY <2>1, Zenon DEF HeaderTaken
  <2> QED
    BY <2>2, <2>3, <2>4, <2>5, <2>6, <2>7, Zenon
<1>4. ReaderByte(Unpadding(0, CONTINUE, 0, 0), b) = Skipped(Unpadding(4, b, 0, 0))
  <2> DEFINE q == Unpadding(0, CONTINUE, 0, 0)
             p == [q EXCEPT !.header = 5]
  <2>1. Unpads(q, 0, CONTINUE, 0, 0)
    BY <1>n, UnpaddingType, Zenon
  <2> HIDE DEF q
  <2>2. Unpads(p, 5, CONTINUE, 0, 0)
    <3>1. 5 \in 0 .. 5 /\ 0 \in 0 .. 5
      OBVIOUS
    <3> QED
      BY <1>n, <2>1, <3>1, UnpadsSet, Zenon
  <2> HIDE DEF p
  <2>3. p = Unpadding(5, CONTINUE, 0, 0)
    BY <2>2, UnpaddingOne, Zenon
  <2>4. ReaderByte(q, b) = HeaderByte(p, b)
    BY <2>1 DEF ReaderByte, Unpads, p
  <2> QED
    BY <1>3, <2>3, <2>4, Zenon DEF q
<1>5. n > 0 => ReaderByte(Unpadding(0, c, n, k), b) = Copied(Unpadding(0, c, n - 1, k), b)
  <2> SUFFICES ASSUME n > 0
               PROVE  ReaderByte(Unpadding(0, c, n, k), b) = Copied(Unpadding(0, c, n - 1, k), b)
    OBVIOUS
  <2> DEFINE q == Unpadding(0, c, n, k)
             m == n - 1
             p == [q EXCEPT !.content = m]
  <2>1. Unpads(q, 0, c, n, k) /\ m \in Nat
    BY <1>n, UnpaddingType
  <2> HIDE DEF q
  <2>2. ReaderByte(q, b) = Copied(p, b)
    BY <2>1 DEF ReaderByte, Unpads
  <2> HIDE DEF m
  <2>3. Unpads(p, 0, c, m, k)
    BY <1>n, <2>1, UnpadsSet, Zenon
  <2>4. p = Unpadding(0, c, m, k)
    BY <2>3, UnpaddingOne, Zenon
  <2> QED
    BY <2>2, <2>4, Zenon DEF q, m
<1>6. k > 0 => ReaderByte(Unpadding(0, c, 0, k), b) = Skipped(Unpadding(0, c, 0, k - 1))
  <2> SUFFICES ASSUME k > 0
               PROVE  ReaderByte(Unpadding(0, c, 0, k), b) = Skipped(Unpadding(0, c, 0, k - 1))
    OBVIOUS
  <2> DEFINE q == Unpadding(0, c, 0, k)
             m == k - 1
             p == [q EXCEPT !.padding = m]
  <2>1. Unpads(q, 0, c, 0, k) /\ m \in Nat
    BY <1>n, UnpaddingType
  <2> HIDE DEF q
  <2>2. ReaderByte(q, b) = Skipped(p)
    BY <2>1 DEF ReaderByte, Unpads
  <2> HIDE DEF m
  <2>3. Unpads(p, 0, c, 0, m)
    BY <1>n, <2>1, UnpadsSet, Zenon
  <2>4. p = Unpadding(0, c, 0, m)
    BY <2>3, UnpaddingOne, Zenon
  <2> QED
    BY <2>2, <2>4, Zenon DEF q, m
<1> QED
  BY <1>2, <1>3, <1>4, <1>5, <1>6, Zenon DEF ByteTaken

\* A byte that returns nothing.
LEMMA QuietByte ==
  ASSUME NEW r, NEW b, NEW q
  PROVE  ReaderByte(r, b) = Skipped(q) => After(Begin(r), b) = Begin(q)
<1> SUFFICES ASSUME ReaderByte(r, b) = Skipped(q) PROVE After(Begin(r), b) = Begin(q)
  OBVIOUS
<1>1. Begin(r).r = r /\ Begin(r).out = << >>
  BY DEF Begin
<1>2. Skipped(q).r = q /\ Skipped(q).out = << >>
  BY DEF Skipped
<1>3. << >> \o << >> = << >>
  <2>1. << >> \in Seq(Nat)
    OBVIOUS
  <2> QED
    BY <2>1, Empty, Zenon
<1> QED
  BY <1>1, <1>2, <1>3, Zenon DEF After, Begin

\* The digits of a length give it back.
LEMMA DigitsRead ==
  ASSUME NEW n \in 0 .. Base * Base - 1
  PROVE  /\ Digits(n) \in Seq(Nat) /\ Len(Digits(n)) = 2
         /\ Digits(n)[1] \in Nat /\ Digits(n)[2] \in Nat
         /\ Digits(n)[1] * Base + Digits(n)[2] = n
<1> DEFINE q == n \div Base
           e == n % Base
<1>1. Base \in Nat /\ Base > 0 /\ n \in Nat
  BY VisionAssumption
<1>2. q \in Nat /\ e \in Nat /\ e < Base /\ n = Base * q + e
  BY <1>1
<1> HIDE DEF q, e
<1>3. q < Base
  <2> SUFFICES ASSUME q >= Base PROVE FALSE
    BY <1>1, <1>2
  <2>1. Base * q >= Base * Base
    BY <1>1, <1>2
  <2>2. n < Base * Base
    BY <1>1
  <2> DEFINE x == Base * q
             y == Base * Base
  <2>3. x \in Nat /\ y \in Nat
    BY <1>1, <1>2
  <2> HIDE DEF x, y
  <2>4. x >= y /\ n < y /\ n = x + e
    BY <1>2, <2>1, <2>2, Zenon DEF x, y
  <2> QED
    BY <1>1, <1>2, <2>3, <2>4
<1>4. q % Base = q
  BY <1>1, <1>2, <1>3
<1>5. Digits(n) = <<q, e>>
  BY <1>4, Zenon DEF Digits, q, e
<1>6. q * Base + e = n
  BY <1>1, <1>2
<1>7. <<q, e>> \in Seq(Nat) /\ Len(<<q, e>>) = 2 /\ <<q, e>>[1] = q /\ <<q, e>>[2] = e
  BY <1>2
<1> QED
  BY <1>2, <1>5, <1>6, <1>7, Zenon

\* A reader that waits for a header: it has just started, or has done with a frame that
\* another follows.
Awaiting(r) == r = Unpadding(5, CONTINUE, 0, 0) \/ r = Unpadding(0, CONTINUE, 0, 0)

\* The elements of bytes are bytes.
LEMMA Elements ==
  ASSUME NEW s \in Seq(Nat)
  PROVE  \A i \in 1 .. Len(s) : s[i] \in Nat
OBVIOUS

\* The header of a frame gives its command and its lengths.
HeadTaken(r, h, n, k) ==
  /\ Awaiting(r) /\ Len(h) = 5 /\ h[2] * Base + h[3] = n /\ h[4] * Base + h[5] = k
  => ReaderBytes(r, h) = Begin(Unpadding(0, h[1], n, k))
LEMMA HeadRead ==
  ASSUME NEW r, NEW h \in Seq(Nat), NEW n \in Nat, NEW k \in Nat
  PROVE  HeadTaken(r, h, n, k)
<1> SUFFICES ASSUME Awaiting(r), Len(h) = 5, h[2] * Base + h[3] = n, h[4] * Base + h[5] = k
             PROVE  ReaderBytes(r, h) = Begin(Unpadding(0, h[1], n, k))
  BY DEF HeadTaken
<1>0. CONTINUE \in Nat /\ 0 \in Nat /\ 5 \in 0 .. 5 /\ 0 \in 0 .. 5
  BY DEF CONTINUE
<1>l. h \in Seq(Nat) /\ Len(h) = 5
  OBVIOUS
<1>1. r \in Readers
  BY <1>0, UnpaddingType, Zenon DEF Awaiting
<1>2. PICK f : Runs(r, h, 5, f)
  BY <1>1, RunExists
<1>3. ReaderBytes(r, h) = f[5]
  BY <1>2, BytesRun
<1>4. f[0] = Begin(r) /\ \A i \in 1 .. 5 : f[i] = After(f[i - 1], h[i])
  BY <1>2, Zenon DEF Runs
<1>5. /\ f[1] = After(f[0], h[1]) /\ f[2] = After(f[1], h[2]) /\ f[3] = After(f[2], h[3])
      /\ f[4] = After(f[3], h[4]) /\ f[5] = After(f[4], h[5])
  BY <1>4
<1> DEFINE b1 == h[1]
           b2 == h[2]
           b3 == h[3]
           b4 == h[4]
           b5 == h[5]
           z2 == b2 * Base
           z4 == b4 * Base
<1>6. /\ b1 \in Nat /\ b2 \in Nat /\ b3 \in Nat /\ b4 \in Nat /\ b5 \in Nat
      /\ z2 \in Nat /\ z4 \in Nat /\ z2 + b3 = n /\ z4 + b5 = k
  <2>1. Base \in Nat
    BY VisionAssumption
  <2>2. b1 \in Nat /\ b2 \in Nat /\ b3 \in Nat /\ b4 \in Nat /\ b5 \in Nat
    <3>1. \A i \in 1 .. 5 : h[i] \in Nat
      BY <1>l, Elements, Zenon
    <3>2. 1 \in 1 .. 5 /\ 2 \in 1 .. 5 /\ 3 \in 1 .. 5 /\ 4 \in 1 .. 5 /\ 5 \in 1 .. 5
      OBVIOUS
    <3> QED
      BY <3>1, <3>2, Zenon
  <2>3. z2 + b3 = n /\ z4 + b5 = k
    BY Zenon
  <2> HIDE DEF b1, b2, b3, b4, b5
  <2>4. z2 \in Nat /\ z4 \in Nat
    BY <2>1, <2>2
  <2> QED
    BY <2>2, <2>3, <2>4, Zenon
<1>7. f[1] = Begin(Unpadding(4, b1, 0, 0))
  <2>1. ReaderByte(r, b1) = Skipped(Unpadding(4, b1, 0, 0))
    <3>1. ByteTaken(CONTINUE, 0, 0, b1)
      BY <1>0, <1>6, UnpaddingStep, Zenon
    <3>2. ReaderByte(Unpadding(5, CONTINUE, 0, 0), b1) = Skipped(Unpadding(4, b1, 0, 0))
      BY <3>1, Zenon DEF ByteTaken
    <3>3. ReaderByte(Unpadding(0, CONTINUE, 0, 0), b1) = Skipped(Unpadding(4, b1, 0, 0))
      BY <3>1, Zenon DEF ByteTaken
    <3> QED
      BY <3>2, <3>3, Zenon DEF Awaiting
  <2> QED
    <3>1. After(Begin(r), b1) = Begin(Unpadding(4, b1, 0, 0))
      BY <2>1, QuietByte, Zenon
    <3> QED
      BY <1>4, <1>5, <3>1, Zenon DEF b1
<1> HIDE DEF b1, b2, b3, b4, b5
<1>8. f[2] = Begin(Unpadding(3, b1, z2, 0))
  <2>1. ReaderByte(Unpadding(4, b1, 0, 0), b2) = Skipped(Unpadding(3, b1, z2, 0))
    <3>1. ByteTaken(b1, 0, 0, b2)
      BY <1>0, <1>6, UnpaddingStep, Zenon
    <3> QED
      BY <3>1, Zenon DEF ByteTaken
  <2>2. After(Begin(Unpadding(4, b1, 0, 0)), b2) = Begin(Unpadding(3, b1, z2, 0))
    BY <2>1, QuietByte, Zenon
  <2> QED
    BY <1>5, <1>7, <2>2, Zenon DEF b2
<1> HIDE DEF z2
<1>9. f[3] = Begin(Unpadding(2, b1, n, 0))
  <2>1. ReaderByte(Unpadding(3, b1, z2, 0), b3) = Skipped(Unpadding(2, b1, z2 + b3, 0))
    <3>1. ByteTaken(b1, z2, 0, b3)
      BY <1>0, <1>6, UnpaddingStep, Zenon
    <3> QED
      BY <3>1, Zenon DEF ByteTaken
  <2>2. After(Begin(Unpadding(3, b1, z2, 0)), b3) = Begin(Unpadding(2, b1, z2 + b3, 0))
    BY <2>1, QuietByte, Zenon
  <2> QED
    BY <1>5, <1>6, <1>8, <2>2, Zenon DEF b3
<1>10. f[4] = Begin(Unpadding(1, b1, n, z4))
  <2>1. ReaderByte(Unpadding(2, b1, n, 0), b4) = Skipped(Unpadding(1, b1, n, z4))
    <3>1. ByteTaken(b1, n, 0, b4)
      BY <1>0, <1>6, UnpaddingStep, Zenon
    <3> QED
      BY <3>1, Zenon DEF ByteTaken
  <2>2. After(Begin(Unpadding(2, b1, n, 0)), b4) = Begin(Unpadding(1, b1, n, z4))
    BY <2>1, QuietByte, Zenon
  <2> QED
    BY <1>5, <1>9, <2>2, Zenon DEF b4
<1> HIDE DEF z4
<1>11. f[5] = Begin(Unpadding(0, b1, n, k))
  <2>1. ReaderByte(Unpadding(1, b1, n, z4), b5) = Skipped(Unpadding(0, b1, n, z4 + b5))
    <3>1. ByteTaken(b1, n, z4, b5)
      BY <1>0, <1>6, UnpaddingStep, Zenon
    <3> QED
      BY <3>1, Zenon DEF ByteTaken
  <2>2. After(Begin(Unpadding(1, b1, n, z4)), b5) = Begin(Unpadding(0, b1, n, z4 + b5))
    BY <2>1, QuietByte, Zenon
  <2> QED
    BY <1>5, <1>6, <1>10, <2>2, Zenon DEF b5
<1> QED
  BY <1>3, <1>11, Zenon DEF b1

\* The first bytes of a sequence, one more at a time.
LEMMA PrefixBytes ==
  ASSUME NEW s \in Seq(Nat)
  PROVE  /\ SubSeq(s, 1, 0) = << >> /\ SubSeq(s, 1, Len(s)) = s
         /\ \A i \in 0 .. Len(s) : SubSeq(s, 1, i) \in Seq(Nat)
         /\ \A i \in 1 .. Len(s) : SubSeq(s, 1, i - 1) \o <<s[i]>> = SubSeq(s, 1, i)
<1>1. SubSeq(s, 1, 0) = << >> /\ SubSeq(s, 1, Len(s)) = s
  OBVIOUS
<1>2. \A i \in 0 .. Len(s) : SubSeq(s, 1, i) \in Seq(Nat) /\ Len(SubSeq(s, 1, i)) = i
  OBVIOUS
<1>3. ASSUME NEW i \in 1 .. Len(s)
      PROVE  SubSeq(s, 1, i - 1) \o <<s[i]>> = SubSeq(s, 1, i)
  <2> DEFINE p == SubSeq(s, 1, i - 1)
             q == SubSeq(s, 1, i)
             z == <<s[i]>>
  <2>1. i - 1 \in 0 .. Len(s) /\ i \in 0 .. Len(s) /\ Len(s) \in Nat
    OBVIOUS
  <2>2. /\ p \in Seq(Nat) /\ Len(p) = i - 1 /\ q \in Seq(Nat) /\ Len(q) = i
        /\ z \in Seq(Nat) /\ Len(z) = 1 /\ z[1] = s[i]
    BY <1>2, <2>1
  <2>3. (\A j \in 1 .. i - 1 : p[j] = s[j]) /\ (\A j \in 1 .. i : q[j] = s[j])
    BY <2>1
  <2> HIDE DEF p, q, z
  <2>4. /\ p \o z \in Seq(Nat) /\ Len(p \o z) = Len(p) + Len(z)
        /\ \A j \in 1 .. Len(p) : (p \o z)[j] = p[j]
        /\ \A j \in 1 .. Len(z) : (p \o z)[Len(p) + j] = z[j]
    BY <2>2, Parts, Zenon
  <2>5. \A j \in 1 .. i : (p \o z)[j] = q[j]
    <3> SUFFICES ASSUME NEW j \in 1 .. i PROVE (p \o z)[j] = q[j]
      OBVIOUS
    <3>1. CASE j \in 1 .. i - 1
      BY <2>2, <2>3, <2>4, <3>1
    <3>2. CASE j = i
      <4>1. 1 \in 1 .. Len(z) /\ Len(p) + 1 = j
        BY <2>2, <3>2
      <4> QED
        BY <2>2, <2>3, <2>4, <3>2, <4>1, Zenon
    <3>3. j \in 1 .. i - 1 \/ j = i
      BY <2>1
    <3> QED
      BY <3>1, <3>2, <3>3, Zenon
  <2>6. Len(p \o z) = i
    BY <2>1, <2>2, <2>4
  <2>7. p \o z = q
    BY <2>2, <2>4, <2>5, <2>6, SeqEqual
  <2> QED
    BY <2>7, Zenon DEF p, q, z
<1> QED
  BY <1>1, <1>2, <1>3, Zenon

\* A function with the values of a run is one, and is what the bytes do.
LEMMA RunRead ==
  ASSUME NEW r, NEW s \in Seq(Nat), NEW f, f \in [0 .. Len(s) -> Outputs],
         f[0] = Begin(r), \A i \in 1 .. Len(s) : f[i] = After(f[i - 1], s[i])
  PROVE  ReaderBytes(r, s) = f[Len(s)]
<1>1. Runs(r, s, Len(s), f)
  BY Zenon DEF Runs
<1> QED
  BY <1>1, BytesRun, Zenon

\* The content of a frame is returned.
LEMMA ContentRead ==
  ASSUME NEW c \in Nat, NEW k \in Nat, NEW s \in Seq(Nat)
  PROVE  ReaderBytes(Unpadding(0, c, Len(s), k), s) = [r |-> Unpadding(0, c, 0, k), out |-> s]
<1> DEFINE n == Len(s)
           r == Unpadding(0, c, n, k)
           u(i) == Unpadding(0, c, n - i, k)
           p(i) == SubSeq(s, 1, i)
           f == [i \in 0 .. n |-> [r |-> u(i), out |-> p(i)]]
<1>n. n \in Nat /\ 0 \in 0 .. 5 /\ n - 0 = n /\ n - n = 0 /\ 0 \in 0 .. n /\ n \in 0 .. n
  OBVIOUS
<1>1. /\ p(0) = << >> /\ p(n) = s
      /\ \A i \in 0 .. n : p(i) \in Seq(Nat)
      /\ \A i \in 1 .. n : p(i - 1) \o <<s[i]>> = p(i)
  BY PrefixBytes, Zenon
<1>s. \A i \in 1 .. n : s[i] \in Nat
  BY Elements, Zenon
<1> HIDE DEF n
<1>2. \A i \in 0 .. n : n - i \in Nat /\ u(i) \in Readers
  <2> SUFFICES ASSUME NEW i \in 0 .. n PROVE n - i \in Nat /\ u(i) \in Readers
    OBVIOUS
  <2>1. n - i \in Nat
    BY <1>n
  <2> QED
    BY <1>n, <2>1, UnpaddingType, Zenon
<1> HIDE DEF p
<1>3. \A i \in 1 .. n : After([r |-> u(i - 1), out |-> p(i - 1)], s[i]) = [r |-> u(i), out |-> p(i)]
  <2> SUFFICES ASSUME NEW i \in 1 .. n
               PROVE  After([r |-> u(i - 1), out |-> p(i - 1)], s[i]) = [r |-> u(i), out |-> p(i)]
    OBVIOUS
  <2> DEFINE m == n - (i - 1)
             b == s[i]
             w == [r |-> u(i - 1), out |-> p(i - 1)]
  <2>1. m \in Nat /\ m > 0 /\ m - 1 = n - i
    BY <1>n
  <2>2. b \in Nat
    BY <1>s, Zenon
  <2> HIDE DEF m, b
  <2>3. ByteTaken(c, m, k, b)
    BY <2>1, <2>2, UnpaddingStep, Zenon
  <2>4. ReaderByte(Unpadding(0, c, m, k), b) = Copied(Unpadding(0, c, m - 1, k), b)
    BY <2>1, <2>3, Zenon DEF ByteTaken
  <2>5. ReaderByte(u(i - 1), b) = Copied(u(i), b)
    BY <2>1, <2>4, Zenon DEF m
  <2>6. w.r = u(i - 1) /\ w.out = p(i - 1) /\ Copied(u(i), b).r = u(i) /\ Copied(u(i), b).out = <<b>>
    BY DEF Copied
  <2>7. p(i - 1) \o <<b>> = p(i)
    BY <1>1, Zenon DEF b
  <2> HIDE DEF u, w
  <2>8. After(w, b) = [r |-> u(i), out |-> p(i - 1) \o <<b>>]
    BY <2>5, <2>6, Zenon DEF After
  <2> QED
    BY <2>7, <2>8, Zenon DEF w, b
<1> HIDE DEF u
<1>4. f \in [0 .. n -> Outputs]
  BY <1>1, <1>2 DEF Outputs
<1>5. \A i \in 0 .. n : f[i] = [r |-> u(i), out |-> p(i)]
  BY Zenon
<1> HIDE DEF f
<1>6. \A i \in 1 .. n : f[i] = After(f[i - 1], s[i])
  <2> SUFFICES ASSUME NEW i \in 1 .. n PROVE f[i] = After(f[i - 1], s[i])
    OBVIOUS
  <2>1. i \in 0 .. n /\ i - 1 \in 0 .. n
    BY <1>n
  <2> QED
    BY <1>3, <1>5, <2>1, Zenon
<1>7. f[0] = Begin(r)
  BY <1>n, <1>1, <1>5, Zenon DEF Begin, u
<1>8. ReaderBytes(r, s) = f[n]
  BY <1>4, <1>6, <1>7, RunRead, Zenon DEF n
<1>9. f[n] = [r |-> Unpadding(0, c, 0, k), out |-> s]
  BY <1>n, <1>1, <1>5, Zenon DEF u
<1> QED
  BY <1>8, <1>9, Zenon DEF n

\* The padding is not.
LEMMA PaddingRead ==
  ASSUME NEW c \in Nat, NEW s \in Seq(Nat)
  PROVE  ReaderBytes(Unpadding(0, c, 0, Len(s)), s) = Begin(Unpadding(0, c, 0, 0))
<1> DEFINE n == Len(s)
           r == Unpadding(0, c, 0, n)
           u(i) == Unpadding(0, c, 0, n - i)
           f == [i \in 0 .. n |-> Begin(u(i))]
<1>n. /\ n \in Nat /\ 0 \in Nat /\ 0 \in 0 .. 5 /\ n - 0 = n /\ n - n = 0 /\ 0 \in 0 .. n
      /\ n \in 0 .. n
  OBVIOUS
<1>s. \A i \in 1 .. n : s[i] \in Nat
  BY Elements, Zenon
<1> HIDE DEF n
<1>2. \A i \in 0 .. n : n - i \in Nat /\ u(i) \in Readers
  <2> SUFFICES ASSUME NEW i \in 0 .. n PROVE n - i \in Nat /\ u(i) \in Readers
    OBVIOUS
  <2>1. n - i \in Nat
    BY <1>n
  <2> QED
    BY <1>n, <2>1, UnpaddingType, Zenon
<1>3. \A i \in 1 .. n : After(Begin(u(i - 1)), s[i]) = Begin(u(i))
  <2> SUFFICES ASSUME NEW i \in 1 .. n PROVE After(Begin(u(i - 1)), s[i]) = Begin(u(i))
    OBVIOUS
  <2> DEFINE m == n - (i - 1)
             b == s[i]
  <2>1. m \in Nat /\ m > 0 /\ m - 1 = n - i
    BY <1>n
  <2>2. b \in Nat
    BY <1>s, Zenon
  <2> HIDE DEF m, b
  <2>3. ByteTaken(c, 0, m, b)
    BY <1>n, <2>1, <2>2, UnpaddingStep, Zenon
  <2>4. ReaderByte(Unpadding(0, c, 0, m), b) = Skipped(Unpadding(0, c, 0, m - 1))
    BY <2>1, <2>3, Zenon DEF ByteTaken
  <2>5. ReaderByte(u(i - 1), b) = Skipped(u(i))
    BY <2>1, <2>4, Zenon DEF m
  <2> HIDE DEF u
  <2>6. After(Begin(u(i - 1)), b) = Begin(u(i))
    BY <2>5, QuietByte, Zenon
  <2> QED
    BY <2>6, Zenon DEF b
<1> HIDE DEF u
<1>4. f \in [0 .. n -> Outputs]
  <2>1. << >> \in Seq(Nat)
    OBVIOUS
  <2> QED
    BY <1>2, <2>1 DEF Outputs, Begin
<1>5. \A i \in 0 .. n : f[i] = Begin(u(i))
  BY Zenon
<1> HIDE DEF f
<1>6. \A i \in 1 .. n : f[i] = After(f[i - 1], s[i])
  <2> SUFFICES ASSUME NEW i \in 1 .. n PROVE f[i] = After(f[i - 1], s[i])
    OBVIOUS
  <2>1. i \in 0 .. n /\ i - 1 \in 0 .. n
    BY <1>n
  <2> QED
    BY <1>3, <1>5, <2>1, Zenon
<1>7. f[0] = Begin(r)
  BY <1>n, <1>5, Zenon DEF u
<1>8. ReaderBytes(r, s) = f[n]
  BY <1>4, <1>6, <1>7, RunRead, Zenon DEF n
<1>9. f[n] = Begin(Unpadding(0, c, 0, 0))
  BY <1>n, <1>5, Zenon DEF u
<1> QED
  BY <1>8, <1>9, Zenon DEF n

\* A reader that has seen the last frame: it passes on what comes.
Passing(r) ==
  /\ r \in Readers /\ r.started = TRUE
  /\ \/ r.directCopy
     \/ ~r.directCopy /\ r.header = 0 /\ r.content = 0 /\ r.padding = 0 /\ r.command # CONTINUE

\* What it does with a byte.
LEMMA PassingStep ==
  ASSUME NEW r, NEW b \in Nat, Passing(r)
  PROVE  LET d == [r EXCEPT !.directCopy = TRUE]
         IN  /\ ReaderByte(r, b) = Copied(d, b)
             /\ Passing(d) /\ [d EXCEPT !.directCopy = TRUE] = d
<1> DEFINE d == [r EXCEPT !.directCopy = TRUE]
<1>1. r \in Readers /\ r.started = TRUE
  BY DEF Passing
<1>2. d \in Readers /\ d.started = TRUE /\ d.directCopy = TRUE
  BY <1>1 DEF Readers
<1>3. Passing(d)
  <2> HIDE DEF d
  <2> QED
    BY <1>2 DEF Passing
<1>4. CASE r.directCopy
  <2>1. d = r
    BY <1>1, <1>4 DEF Readers
  <2>2. ReaderByte(r, b) = Copied(r, b)
    BY <1>4 DEF ReaderByte
  <2> QED
    BY <1>3, <2>1, <2>2, Zenon
<1>5. CASE ~r.directCopy
  <2>1. r.header = 0 /\ r.content = 0 /\ r.padding = 0 /\ r.command # CONTINUE
    BY <1>5 DEF Passing
  <2>2. ReaderByte(r, b) = Copied(d, b)
    BY <1>5, <2>1 DEF ReaderByte
  <2>3. [d EXCEPT !.directCopy = TRUE] = d
    <3> HIDE DEF d
    <3> QED
      BY <1>2 DEF Readers
  <2> QED
    BY <1>3, <2>2, <2>3, Zenon
<1> QED
  BY <1>4, <1>5, Zenon

\* What it does with bytes.
LEMMA PassingRead ==
  ASSUME NEW r, NEW s \in Seq(Nat), Passing(r)
  PROVE  Passing(ReaderBytes(r, s).r) /\ ReaderBytes(r, s).out = s
<1> DEFINE n == Len(s)
           d == [r EXCEPT !.directCopy = TRUE]
           u(i) == IF i = 0 THEN r ELSE d
           p(i) == SubSeq(s, 1, i)
           f == [i \in 0 .. n |-> [r |-> u(i), out |-> p(i)]]
<1>n. n \in Nat /\ 0 \in 0 .. n /\ n \in 0 .. n
  OBVIOUS
<1>1. /\ p(0) = << >> /\ p(n) = s
      /\ \A i \in 0 .. n : p(i) \in Seq(Nat)
      /\ \A i \in 1 .. n : p(i - 1) \o <<s[i]>> = p(i)
  BY PrefixBytes, Zenon
<1>s. \A i \in 1 .. n : s[i] \in Nat
  BY Elements, Zenon
<1> HIDE DEF n, p
<1>2. \A b \in Nat : /\ ReaderByte(r, b) = Copied(d, b) /\ ReaderByte(d, b) = Copied(d, b)
  <2> SUFFICES ASSUME NEW b \in Nat
               PROVE  ReaderByte(r, b) = Copied(d, b) /\ ReaderByte(d, b) = Copied(d, b)
    OBVIOUS
  <2>1. ReaderByte(r, b) = Copied(d, b) /\ Passing(d) /\ [d EXCEPT !.directCopy = TRUE] = d
    BY PassingStep, Zenon
  <2> HIDE DEF d
  <2>2. ReaderByte(d, b) = Copied([d EXCEPT !.directCopy = TRUE], b)
    BY <2>1, PassingStep, Zenon
  <2> QED
    BY <2>1, <2>2, Zenon
<1>p. Passing(d)
  <2>1. 0 \in Nat
    OBVIOUS
  <2> QED
    BY <2>1, PassingStep, Zenon
<1> HIDE DEF d
<1>3. \A i \in 0 .. n : Passing(u(i)) /\ u(i) \in Readers
  BY <1>p, Zenon DEF Passing
<1>4. \A i \in 1 .. n : After([r |-> u(i - 1), out |-> p(i - 1)], s[i]) = [r |-> u(i), out |-> p(i)]
  <2> SUFFICES ASSUME NEW i \in 1 .. n
               PROVE  After([r |-> u(i - 1), out |-> p(i - 1)], s[i]) = [r |-> u(i), out |-> p(i)]
    OBVIOUS
  <2> DEFINE b == s[i]
             w == [r |-> u(i - 1), out |-> p(i - 1)]
  <2>1. b \in Nat
    BY <1>s, Zenon
  <2>2. u(i) = d
    OBVIOUS
  <2>3. ReaderByte(u(i - 1), b) = Copied(d, b)
    BY <1>2, <2>1, Zenon
  <2>4. w.r = u(i - 1) /\ w.out = p(i - 1) /\ Copied(d, b).r = d /\ Copied(d, b).out = <<b>>
    BY DEF Copied
  <2>5. p(i - 1) \o <<b>> = p(i)
    BY <1>1, Zenon
  <2> HIDE DEF u, w, b
  <2>6. After(w, b) = [r |-> d, out |-> p(i - 1) \o <<b>>]
    BY <2>3, <2>4, Zenon DEF After
  <2> QED
    BY <2>2, <2>5, <2>6, Zenon DEF w, b
<1>5. f[0] = Begin(r)
  <2>1. f[0] = [r |-> u(0), out |-> p(0)] /\ u(0) = r
    BY <1>n, Zenon
  <2> QED
    BY <1>1, <2>1, Zenon DEF Begin
<1> HIDE DEF u
<1>6. f \in [0 .. n -> Outputs]
  BY <1>1, <1>3 DEF Outputs
<1>7. \A i \in 0 .. n : f[i] = [r |-> u(i), out |-> p(i)]
  BY Zenon
<1> HIDE DEF f
<1>8. \A i \in 1 .. n : f[i] = After(f[i - 1], s[i])
  <2> SUFFICES ASSUME NEW i \in 1 .. n PROVE f[i] = After(f[i - 1], s[i])
    OBVIOUS
  <2>1. i \in 0 .. n /\ i - 1 \in 0 .. n
    BY <1>n
  <2> QED
    BY <1>4, <1>7, <2>1, Zenon
<1>9. ReaderBytes(r, s) = f[n]
  BY <1>5, <1>6, <1>8, RunRead, Zenon DEF n
<1>10. ReaderBytes(r, s) = [r |-> u(n), out |-> s]
  BY <1>n, <1>1, <1>7, <1>9, Zenon
<1>11. ReaderBytes(r, s).r = u(n) /\ ReaderBytes(r, s).out = s
  BY <1>10
<1> QED
  BY <1>n, <1>3, <1>11, Zenon

\* A frame, after the UUID if there is one, brings a reader that waits for it to its end:
\* it returns the content.
LEMMA FrameRead ==
  ASSUME NEW w, NEW s \in Seq(Nat), Len(s) < Base * Base, NEW cmd \in Nat,
         NEW pad \in 0 .. Base * Base - 1
  PROVE  \E y \in Seq(Nat) :
           /\ Frame(w, s, cmd, pad) = (IF w.uuidWritten THEN << >> ELSE Uuid) \o y
           /\ \A r : Awaiting(r)
                       => ReaderBytes(r, y) = [r |-> Unpadding(0, cmd, 0, 0), out |-> s]
<1> DEFINE l == Len(s)
           head == IF w.uuidWritten THEN ShortHeader ELSE FullHeader
           most == MaxFrame - head - l
           n == IF pad <= most THEN pad ELSE IF most > 0 THEN most ELSE 0
           u == IF w.uuidWritten THEN << >> ELSE Uuid
           m == <<cmd>>
           dl == Digits(l)
           dn == Digits(n)
           p == [i \in 1 .. n |-> 0]
<1>1. FullHeader \in Nat /\ ShortHeader \in Nat /\ MaxFrame \in Nat
  BY VisionAssumption, LenProperties DEF FullHeader, ShortHeader
<1>2. head \in Nat
  BY <1>1
<1>3. l \in Nat /\ l \in 0 .. Base * Base - 1
  <2> DEFINE z == Base * Base
  <2>1. z \in Nat /\ l \in Nat
    BY VisionAssumption
  <2>2. l < z
    OBVIOUS
  <2> HIDE DEF z, l
  <2>3. l \in 0 .. z - 1
    BY <2>1, <2>2
  <2> QED
    BY <2>1, <2>3, Zenon DEF z
<1> HIDE DEF head, l
<1>4. most \in Int
  BY <1>1, <1>2, <1>3
<1> HIDE DEF most
<1>5. n \in Nat /\ n \in 0 .. Base * Base - 1
  <2> DEFINE z == Base * Base
  <2>1. z \in Nat /\ pad \in 0 .. z - 1
    BY VisionAssumption
  <2> HIDE DEF z
  <2>2. n \in Nat /\ n \in 0 .. z - 1
    BY <1>4, <2>1
  <2> QED
    BY <2>2, Zenon DEF z
<1>6. Frame(w, s, cmd, pad) = ((((u \o m) \o dl) \o dn) \o s) \o p
  BY Zenon DEF Frame, head, l, most
<1> HIDE DEF n
<1>7. /\ dl \in Seq(Nat) /\ Len(dl) = 2 /\ dl[1] * Base + dl[2] = l
      /\ dn \in Seq(Nat) /\ Len(dn) = 2 /\ dn[1] * Base + dn[2] = n
  BY <1>3, <1>5, DigitsRead, Zenon
<1>8. m \in Seq(Nat) /\ Len(m) = 1 /\ m[1] = cmd
  OBVIOUS
<1>9. p \in Seq(Nat) /\ Len(p) = n
  <2>1. p \in [1 .. n -> Nat]
    OBVIOUS
  <2> QED
    BY <1>5, <2>1
<1>10. u \in Seq(Nat)
  BY VisionAssumption
<1> HIDE DEF u, m, dl, dn, p
<1> DEFINE md == m \o dl
           h == md \o dn
           sp == s \o p
           y == h \o sp
<1>11. /\ md \in Seq(Nat) /\ Len(md) = 3 /\ md[1] = cmd /\ md[2] = dl[1] /\ md[3] = dl[2]
  <2>1. /\ md \in Seq(Nat) /\ Len(md) = Len(m) + Len(dl)
        /\ \A i \in 1 .. Len(m) : md[i] = m[i]
        /\ \A i \in 1 .. Len(dl) : md[Len(m) + i] = dl[i]
    BY <1>7, <1>8, Parts, Zenon
  <2>2. Len(m) = 1 /\ Len(dl) = 2
    BY <1>7, <1>8
  <2> HIDE DEF md
  <2>3. md[1] = m[1] /\ md[1 + 1] = dl[1] /\ md[1 + 2] = dl[2]
    BY <2>1, <2>2
  <2> QED
    BY <1>8, <2>1, <2>2, <2>3
<1> HIDE DEF md
<1>12. /\ h \in Seq(Nat) /\ Len(h) = 5 /\ h[1] = cmd
       /\ h[2] = dl[1] /\ h[3] = dl[2] /\ h[4] = dn[1] /\ h[5] = dn[2]
  <2>1. /\ h \in Seq(Nat) /\ Len(h) = Len(md) + Len(dn)
        /\ \A i \in 1 .. Len(md) : h[i] = md[i]
        /\ \A i \in 1 .. Len(dn) : h[Len(md) + i] = dn[i]
    BY <1>7, <1>11, Parts, Zenon
  <2>2. Len(md) = 3 /\ Len(dn) = 2
    BY <1>7, <1>11
  <2> HIDE DEF h
  <2>3. /\ h[1] = md[1] /\ h[2] = md[2] /\ h[3] = md[3]
        /\ h[3 + 1] = dn[1] /\ h[3 + 2] = dn[2]
    BY <2>1, <2>2
  <2> QED
    BY <1>11, <2>1, <2>2, <2>3
<1> HIDE DEF h
<1>13. sp \in Seq(Nat)
  BY <1>9, Joined, Zenon
<1> HIDE DEF sp
<1>14. y \in Seq(Nat)
  BY <1>12, <1>13, Joined, Zenon
<1>15. Frame(w, s, cmd, pad) = u \o y
  <2> DEFINE uh == u \o h
             hs == h \o s
  <2>1. (u \o m) \o dl = u \o md
    <3>1. (u \o m) \o dl = u \o (m \o dl)
      BY <1>7, <1>8, <1>10, Chain, Zenon
    <3> QED
      BY <3>1, Zenon DEF md
  <2>2. (u \o md) \o dn = uh
    <3>1. (u \o md) \o dn = u \o (md \o dn)
      BY <1>7, <1>10, <1>11, Chain, Zenon
    <3> QED
      BY <3>1, Zenon DEF h
  <2>3. uh \o s = u \o hs
    BY <1>10, <1>12, Chain, Zenon
  <2>4. hs \in Seq(Nat)
    BY <1>12, Joined, Zenon
  <2>5. hs \o p = h \o sp
    <3>1. (h \o s) \o p = h \o (s \o p)
      BY <1>9, <1>12, Chain, Zenon
    <3> QED
      BY <3>1, Zenon DEF sp
  <2> HIDE DEF uh, hs
  <2>6. (u \o hs) \o p = u \o (hs \o p)
    BY <1>9, <1>10, <2>4, Chain, Zenon
  <2> QED
    BY <1>6, <2>1, <2>2, <2>3, <2>5, <2>6, Zenon
<1>16. ASSUME NEW r, Awaiting(r)
       PROVE  ReaderBytes(r, y) = [r |-> Unpadding(0, cmd, 0, 0), out |-> s]
  <2> DEFINE q1 == Unpadding(0, cmd, l, n)
             q2 == Unpadding(0, cmd, 0, n)
             q3 == Unpadding(0, cmd, 0, 0)
  <2>0. 0 \in 0 .. 5 /\ 5 \in 0 .. 5 /\ 0 \in Nat /\ CONTINUE \in Nat
    BY DEF CONTINUE
  <2>1. r \in Readers /\ q1 \in Readers /\ q2 \in Readers
    BY <1>3, <1>5, <1>16, <2>0, UnpaddingType, Zenon DEF Awaiting
  <2>2. ReaderBytes(r, h) = Begin(q1)
    <3>1. HeadTaken(r, h, l, n)
      BY <1>3, <1>5, <1>12, HeadRead, Zenon
    <3> QED
      BY <1>7, <1>12, <1>16, <3>1, Zenon DEF HeadTaken
  <2>3. ReaderBytes(q1, s) = [r |-> q2, out |-> s]
    BY <1>5, ContentRead, Zenon DEF l
  <2>4. ReaderBytes(q2, p) = Begin(q3)
    BY <1>9, PaddingRead, Zenon
  <2> HIDE DEF q1, q2, q3
  <2>5. Begin(q1).r = q1 /\ Begin(q1).out = << >> /\ Begin(q3).r = q3 /\ Begin(q3).out = << >>
    BY DEF Begin
  <2>6. ReaderBytes(q1, s).r = q2 /\ ReaderBytes(q1, s).out = s
    BY <2>3
  <2>7. ReaderBytes(q1, sp) = [r |-> q3, out |-> s]
    <3>1. Joint(q1, s, p)
      BY <1>9, <2>1, BytesJoined, Zenon
    <3>2. ReaderBytes(q1, sp) = Since(s, Begin(q3))
      BY <2>4, <2>6, <3>1, Zenon DEF Joint, sp
    <3>3. Since(s, Begin(q3)) = [r |-> q3, out |-> s \o << >>]
      BY <2>5, Zenon DEF Since
    <3>4. s \o << >> = s
      BY Empty, Zenon
    <3> QED
      BY <3>2, <3>3, <3>4, Zenon
  <2>8. ReaderBytes(q1, sp).r = q3 /\ ReaderBytes(q1, sp).out = s
    BY <2>7
  <2>9. Joint(r, h, sp)
    BY <1>12, <1>13, <2>1, BytesJoined, Zenon
  <2>10. ReaderBytes(r, y) = Since(<< >>, ReaderBytes(q1, sp))
    BY <2>2, <2>5, <2>9, Zenon DEF Joint
  <2>11. Since(<< >>, ReaderBytes(q1, sp)) = [r |-> q3, out |-> << >> \o s]
    BY <2>8, Zenon DEF Since
  <2>12. << >> \o s = s
    BY Empty, Zenon
  <2> QED
    BY <2>10, <2>11, <2>12, Zenon DEF q3
<1> HIDE DEF y
<1> QED
  BY <1>14, <1>15, <1>16, Zenon DEF u

-----------------------------------------------------------------------------
(* A Vision writer and its reader.                                          *)

Writers == [uuidWritten : BOOLEAN, isPadding : BOOLEAN, directCopy : BOOLEAN]

\* The reader is where the writer is: it waits for the next frame, or it has seen the
\* last one.
InStep(w, r) ==
  /\ w \in Writers /\ w.uuidWritten
  /\ w.isPadding => ~w.directCopy /\ r = Unpadding(0, CONTINUE, 0, 0)
  /\ ~w.isPadding => Passing(r)

\* It then is a reader.
LEMMA InStepType ==
  ASSUME NEW w, NEW r, InStep(w, r)
  PROVE  r \in Readers
<1>1. 0 \in 0 .. 5 /\ 0 \in Nat /\ CONTINUE \in Nat
  BY DEF CONTINUE
<1>2. Unpadding(0, CONTINUE, 0, 0) \in Readers
  BY <1>1, UnpaddingType, Zenon
<1>3. CASE w.isPadding
  BY <1>2, <1>3, Zenon DEF InStep
<1>4. CASE ~w.isPadding
  BY <1>4, Zenon DEF InStep, Passing
<1> QED
  BY <1>3, <1>4, Zenon

\* A writer that pads makes a frame, and is in step with who has read it.
FrameMade(w, c, o) ==
  \E y \in Seq(Nat) :
    /\ o.out = (IF w.uuidWritten THEN << >> ELSE Uuid) \o y
    /\ \A r : Awaiting(r) => /\ InStep(o.w, ReaderBytes(r, y).r)
                             /\ ReaderBytes(r, y).out = c.bytes
LEMMA PaddingWritten ==
  ASSUME NEW w, NEW x, NEW c \in Chunks, NEW pad \in Pads, ~w.directCopy, w.isPadding
  PROVE  FrameMade(w, c, WriterProcess(w, x, c, pad))
<1> DEFINE seen == IF x.packets > 0 THEN FilterTls(x, c) ELSE x
           cmd  == FrameCommand(seen, c)
           o    == WriterProcess(w, x, c, pad)
           v    == [uuidWritten |-> TRUE, isPadding |-> cmd = CONTINUE,
                    directCopy |-> cmd = DIRECT]
           f    == Frame(w, c.bytes, cmd, pad)
           q    == Unpadding(0, cmd, 0, 0)
<1>1. \A z : FrameCommand(z, c) \in {CONTINUE, END, DIRECT}
  BY DEF FrameCommand
<1>2. cmd \in {CONTINUE, END, DIRECT}
  BY <1>1, Zenon
<1>3. cmd \in Nat /\ CONTINUE # DIRECT
  BY <1>2 DEF CONTINUE, END, DIRECT
<1>4. o = [w |-> v, ctx |-> seen, out |-> f]
  BY Zenon DEF WriterProcess
<1> HIDE DEF o, f, seen, cmd
<1>5. o.w = v /\ o.out = f
  <2> HIDE DEF v
  <2> QED
    BY <1>4
<1>6. c.bytes \in Seq(Nat) /\ Len(c.bytes) < Base * Base /\ pad \in 0 .. Base * Base - 1
  BY UplinkAssumption, Zenon
<1>7. PICK y \in Seq(Nat) :
        /\ f = (IF w.uuidWritten THEN << >> ELSE Uuid) \o y
        /\ \A r : Awaiting(r) => ReaderBytes(r, y) = [r |-> q, out |-> c.bytes]
  BY <1>3, <1>6, FrameRead, Zenon DEF f
<1>8. InStep(v, q)
  <2>1. v \in Writers /\ v.uuidWritten /\ (v.isPadding <=> cmd = CONTINUE)
        /\ (v.directCopy <=> cmd = DIRECT)
    BY DEF Writers
  <2> HIDE DEF v
  <2>2. CASE cmd = CONTINUE
    BY <1>3, <2>1, <2>2, Zenon DEF InStep
  <2>3. CASE cmd # CONTINUE
    <3>1. q \in Readers /\ Unpads(q, 0, cmd, 0, 0)
      <4>1. 0 \in 0 .. 5 /\ 0 \in Nat
        OBVIOUS
      <4> QED
        BY <1>3, <4>1, UnpaddingType, Zenon
    <3> HIDE DEF q
    <3>2. Passing(q)
      BY <2>3, <3>1 DEF Passing, Unpads
    <3> QED
      BY <2>1, <2>3, <3>2, Zenon DEF InStep
  <2> QED
    BY <2>2, <2>3, Zenon
<1> HIDE DEF v, q
<1>9. \A r : Awaiting(r) => /\ InStep(o.w, ReaderBytes(r, y).r)
                            /\ ReaderBytes(r, y).out = c.bytes
  <2> SUFFICES ASSUME NEW r, Awaiting(r)
               PROVE  InStep(o.w, ReaderBytes(r, y).r) /\ ReaderBytes(r, y).out = c.bytes
    OBVIOUS
  <2>1. ReaderBytes(r, y) = [r |-> q, out |-> c.bytes]
    BY <1>7, Zenon
  <2>2. ReaderBytes(r, y).r = q /\ ReaderBytes(r, y).out = c.bytes
    BY <2>1
  <2> QED
    BY <1>5, <1>8, <2>2, Zenon
<1> QED
  BY <1>5, <1>7, <1>9, Zenon DEF o, FrameMade

\* Who was in step with the writer is, once it has read what the writer makes of a chunk,
\* and has returned the chunk.
Kept(w, x, c, pad, r) ==
  LET o == WriterProcess(w, x, c, pad)
      h == ReaderBytes(r, o.out)
  IN  InStep(w, r) => InStep(o.w, h.r) /\ h.out = c.bytes
LEMMA StepKept ==
  ASSUME NEW w, NEW x, NEW c \in Chunks, NEW pad \in Pads, NEW r
  PROVE  Kept(w, x, c, pad, r)
<1> DEFINE o == WriterProcess(w, x, c, pad)
           h == ReaderBytes(r, o.out)
<1> SUFFICES ASSUME InStep(w, r)
             PROVE  InStep(o.w, h.r) /\ h.out = c.bytes
  BY Zenon DEF Kept
<1>1. c.bytes \in Seq(Nat)
  BY UplinkAssumption
<1>2. CASE w.isPadding
  <2>1. ~w.directCopy /\ w.uuidWritten /\ r = Unpadding(0, CONTINUE, 0, 0)
    BY <1>2, Zenon DEF InStep
  <2>2. Awaiting(r)
    BY <2>1, Zenon DEF Awaiting
  <2>3. PICK y \in Seq(Nat) :
          /\ o.out = (IF w.uuidWritten THEN << >> ELSE Uuid) \o y
          /\ \A k : Awaiting(k) => /\ InStep(o.w, ReaderBytes(k, y).r)
                                   /\ ReaderBytes(k, y).out = c.bytes
    <3>1. FrameMade(w, c, o)
      BY <1>2, <2>1, PaddingWritten, Zenon
    <3> HIDE DEF o
    <3> QED
      BY <3>1, Zenon DEF FrameMade
  <2> HIDE DEF o
  <2>4. o.out = y
    <3>1. << >> \o y = y
      BY <2>3, Empty, Zenon
    <3> QED
      BY <2>1, <2>3, <3>1, Zenon
  <2> QED
    BY <2>2, <2>3, <2>4, Zenon
<1>3. CASE ~w.isPadding
  <2> DEFINE v == [w EXCEPT !.directCopy = TRUE]
             seen == IF x.packets > 0 THEN FilterTls(x, c) ELSE x
  <2>1. w \in Writers /\ w.uuidWritten /\ Passing(r)
    BY <1>3, Zenon DEF InStep
  <2>2. v \in Writers /\ v.uuidWritten /\ ~v.isPadding
    BY <1>3, <2>1 DEF Writers
  <2> HIDE DEF v, seen
  <2>3. /\ o.out = c.bytes
        /\ o.w \in Writers /\ o.w.uuidWritten /\ ~o.w.isPadding
    <3>1. CASE w.directCopy
      <4>1. o = [w |-> w, ctx |-> x, out |-> c.bytes]
        BY <3>1, Zenon DEF WriterProcess
      <4> HIDE DEF o
      <4>2. o.w = w /\ o.out = c.bytes
        BY <4>1
      <4> QED
        BY <1>3, <2>1, <4>2, Zenon
    <3>2. CASE ~w.directCopy
      <4>1. o = [w |-> v, ctx |-> seen, out |-> c.bytes]
        BY <1>3, <3>2, Zenon DEF WriterProcess, v, seen
      <4> HIDE DEF o
      <4>2. o.w = v /\ o.out = c.bytes
        BY <4>1
      <4> QED
        BY <2>2, <4>2, Zenon
    <3> QED
      BY <3>1, <3>2, Zenon
  <2> HIDE DEF o
  <2>4. Passing(h.r) /\ h.out = c.bytes
    BY <1>1, <2>1, <2>3, PassingRead, Zenon
  <2> QED
    BY <2>3, <2>4, Zenon DEF InStep
<1> QED
  BY <1>2, <1>3, Zenon

\* What is to come for the reader, s, brings it in step with the writer, and returns what
\* it lacks of the content given.
Follows(r, s, w, d, g) ==
  LET h == ReaderBytes(r, s) IN d \o h.out = g /\ InStep(w, h.r)

\* So it does when the writer adds a chunk.
Further(r, s, w, d, g, x, c, pad) ==
  LET o == WriterProcess(w, x, c, pad)
  IN  Follows(r, s, w, d, g) => Follows(r, s \o o.out, o.w, d, g \o c.bytes)
LEMMA FollowsFurther ==
  ASSUME NEW r \in Readers, NEW s \in Seq(Nat), NEW w, NEW d \in Seq(Nat), NEW g,
         NEW x, NEW c \in Chunks, NEW pad \in Pads
  PROVE  Further(r, s, w, d, g, x, c, pad)
<1> DEFINE o == WriterProcess(w, x, c, pad)
           h == ReaderBytes(r, s)
           z == o.out
           k == ReaderBytes(h.r, z)
           a == h.out
           b == c.bytes
<1> SUFFICES ASSUME Follows(r, s, w, d, g)
             PROVE  Follows(r, s \o z, o.w, d, g \o b)
  BY Zenon DEF Further
<1>1. z \in Seq(Nat)
  <2>1. pad \in Nat
    BY UplinkAssumption, VisionAssumption
  <2> QED
    BY <2>1, Written, Zenon
<1>2. b \in Seq(Nat)
  BY UplinkAssumption
<1>3. h \in Outputs
  BY BytesType, Zenon
<1>4. d \o a = g /\ InStep(w, h.r)
  BY Zenon DEF Follows
<1>5. Kept(w, x, c, pad, h.r)
  BY StepKept, Zenon
<1>6. InStep(o.w, k.r) /\ k.out = b
  BY <1>4, <1>5, Zenon DEF Kept
<1>7. ReaderBytes(r, s \o z) = Since(a, k)
  <2>1. Joint(r, s, z)
    BY <1>1, BytesJoined, Zenon
  <2> QED
    BY <2>1, Zenon DEF Joint
<1> HIDE DEF o, h, z, k, b
<1>8. a \in Seq(Nat)
  BY <1>3 DEF Outputs
<1> HIDE DEF a
<1>9. Since(a, k).r = k.r /\ Since(a, k).out = a \o b
  BY <1>6 DEF Since
<1>10. (d \o a) \o b = d \o (a \o b)
  BY <1>2, <1>8, Chain, Zenon
<1>11. d \o (a \o b) = g \o b
  BY <1>4, <1>10, Zenon
<1> QED
  BY <1>6, <1>7, <1>9, <1>11, Zenon DEF Follows

-----------------------------------------------------------------------------
(* A Vision reader on its way.                                              *)

\* One that has found the UUID.
Started == [NewReader EXCEPT !.started = TRUE, !.header = 5]

\* It waits for a frame.
LEMMA StartedAwaits == Started = Unpadding(5, CONTINUE, 0, 0) /\ Started \in Readers
<1>1. Started = Unpadding(5, CONTINUE, 0, 0)
  <2> DEFINE n == NewReader
             a == [n EXCEPT !.started = TRUE]
             b == [a EXCEPT !.header = 5]
  <2>1. Started = b
    BY DEF Started
  <2>2. /\ n \in Readers /\ n.directCopy = FALSE /\ n.command = CONTINUE
        /\ n.content = 0 /\ n.padding = 0
    BY DEF NewReader, Readers, CONTINUE
  <2>3. ASSUME NEW q \in Readers
        PROVE  /\ [q EXCEPT !.started = TRUE] \in Readers
               /\ [q EXCEPT !.started = TRUE].started = TRUE
               /\ [q EXCEPT !.started = TRUE].directCopy = q.directCopy
               /\ [q EXCEPT !.started = TRUE].command = q.command
               /\ [q EXCEPT !.started = TRUE].content = q.content
               /\ [q EXCEPT !.started = TRUE].padding = q.padding
               /\ [q EXCEPT !.header = 5] \in Readers
               /\ [q EXCEPT !.header = 5].header = 5
               /\ [q EXCEPT !.header = 5].started = q.started
               /\ [q EXCEPT !.header = 5].directCopy = q.directCopy
               /\ [q EXCEPT !.header = 5].command = q.command
               /\ [q EXCEPT !.header = 5].content = q.content
               /\ [q EXCEPT !.header = 5].padding = q.padding
    <3>1. [q EXCEPT !.started = TRUE] \in Readers
      BY DEF Readers
    <3>2. [q EXCEPT !.header = 5] \in Readers
      BY DEF Readers
    <3>3. /\ [q EXCEPT !.started = TRUE].started = TRUE
          /\ [q EXCEPT !.started = TRUE].directCopy = q.directCopy
          /\ [q EXCEPT !.started = TRUE].command = q.command
          /\ [q EXCEPT !.started = TRUE].content = q.content
          /\ [q EXCEPT !.started = TRUE].padding = q.padding
      BY DEF Readers
    <3>4. /\ [q EXCEPT !.header = 5].header = 5
          /\ [q EXCEPT !.header = 5].started = q.started
          /\ [q EXCEPT !.header = 5].directCopy = q.directCopy
          /\ [q EXCEPT !.header = 5].command = q.command
          /\ [q EXCEPT !.header = 5].content = q.content
          /\ [q EXCEPT !.header = 5].padding = q.padding
      BY DEF Readers
    <3> QED
      BY <3>1, <3>2, <3>3, <3>4, Zenon
  <2> HIDE DEF n
  <2>4. /\ a \in Readers /\ a.started = TRUE /\ a.directCopy = FALSE /\ a.command = CONTINUE
        /\ a.content = 0 /\ a.padding = 0
    BY <2>2, <2>3, Zenon
  <2> HIDE DEF a
  <2>5. Unpads(b, 5, CONTINUE, 0, 0)
    BY <2>3, <2>4, Zenon DEF Unpads
  <2> HIDE DEF b
  <2> QED
    BY <2>1, <2>5, UnpaddingOne, Zenon
<1>2. 5 \in 0 .. 5 /\ 0 \in Nat /\ CONTINUE \in Nat
  BY DEF CONTINUE
<1>3. Unpadding(5, CONTINUE, 0, 0) \in Readers
  BY <1>2, UnpaddingType, Zenon
<1> QED
  BY <1>1, <1>3, Zenon

\* It never looks for the UUID again: after a byte,
LEMMA StepStarted ==
  ASSUME NEW r \in Readers, NEW b \in Nat, r.started
  PROVE  ReaderByte(r, b).r.started
<1>1. \A q : Skipped(q).r = q /\ Copied(q, b).r = q
  BY DEF Skipped, Copied
<1>2. ASSUME NEW q \in Readers, q.started, q.header > 0
      PROVE  HeaderByte(q, b).r.started
  <2>1. /\ [q EXCEPT !.header = 4, !.command = b].started
        /\ [q EXCEPT !.header = 3, !.content = b * Base].started
        /\ [q EXCEPT !.header = 2, !.content = @ + b].started
        /\ [q EXCEPT !.header = 1, !.padding = b * Base].started
        /\ [q EXCEPT !.header = 0, !.padding = @ + b].started
    BY <1>2 DEF Readers
  <2>2. q.header \in {1, 2, 3, 4, 5}
    BY <1>2 DEF Readers
  <2>3. CASE q.header = 5
    <3>1. HeaderByte(q, b) = Skipped([q EXCEPT !.header = 4, !.command = b])
      BY <2>3 DEF HeaderByte
    <3> QED
      BY <1>1, <2>1, <3>1, Zenon
  <2>4. CASE q.header = 4
    <3>1. HeaderByte(q, b) = Skipped([q EXCEPT !.header = 3, !.content = b * Base])
      BY <2>4 DEF HeaderByte
    <3> QED
      BY <1>1, <2>1, <3>1, Zenon
  <2>5. CASE q.header = 3
    <3>1. HeaderByte(q, b) = Skipped([q EXCEPT !.header = 2, !.content = @ + b])
      BY <2>5 DEF HeaderByte
    <3> QED
      BY <1>1, <2>1, <3>1, Zenon
  <2>6. CASE q.header = 2
    <3>1. HeaderByte(q, b) = Skipped([q EXCEPT !.header = 1, !.padding = b * Base])
      BY <2>6 DEF HeaderByte
    <3> QED
      BY <1>1, <2>1, <3>1, Zenon
  <2>7. CASE q.header = 1
    <3>1. HeaderByte(q, b) = Skipped([q EXCEPT !.header = 0, !.padding = @ + b])
      BY <2>7 DEF HeaderByte
    <3> QED
      BY <1>1, <2>1, <3>1, Zenon
  <2> QED
    BY <2>2, <2>3, <2>4, <2>5, <2>6, <2>7
<1> DEFINE c == [r EXCEPT !.content = @ - 1]
           p == [r EXCEPT !.padding = @ - 1]
           n == [r EXCEPT !.header = 5]
           d == [r EXCEPT !.directCopy = TRUE]
<1>3. c.started /\ p.started /\ d.started /\ n \in Readers /\ n.started /\ n.header > 0
  BY DEF Readers
<1>4. \/ ReaderByte(r, b) = Copied(r, b)
      \/ r.header > 0 /\ ReaderByte(r, b) = HeaderByte(r, b)
      \/ ReaderByte(r, b) = Copied(c, b)
      \/ ReaderByte(r, b) = Skipped(p)
      \/ ReaderByte(r, b) = HeaderByte(n, b)
      \/ ReaderByte(r, b) = Copied(d, b)
  <2> HIDE DEF c, p, n, d
  <2>1. r.header \in 0 .. 5 /\ r.content \in Nat /\ r.padding \in Nat /\ r.directCopy \in BOOLEAN
    BY DEF Readers
  <2> QED
    BY <2>1 DEF ReaderByte, c, p, n, d
<1> HIDE DEF c, p, n, d
<1> QED
  BY <1>1, <1>2, <1>3, <1>4, Zenon

\* and after a chunk.
LEMMA BytesStarted ==
  ASSUME NEW r \in Readers, NEW s \in Seq(Nat), r.started
  PROVE  ReaderBytes(r, s).r.started
<1> DEFINE n == Len(s)
<1>0. n \in Nat /\ 0 \in 0 .. n /\ n \in 0 .. n
  OBVIOUS
<1>1. PICK f : Runs(r, s, n, f)
  BY RunExists, Zenon
<1>2. ReaderBytes(r, s) = f[n]
  BY <1>1, BytesRun, Zenon
<1>3. /\ f \in [0 .. n -> Outputs] /\ f[0] = Begin(r)
      /\ \A i \in 1 .. n : f[i] = After(f[i - 1], s[i])
  BY <1>1, Zenon DEF Runs
<1>4. \A i \in 1 .. n : s[i] \in Nat
  BY Elements, Zenon
<1> DEFINE T == {i \in 0 .. n : ~f[i].r.started}
<1> HIDE DEF n
<1>5. T = {}
  <2> SUFFICES ASSUME T # {} PROVE FALSE
    OBVIOUS
  <2>1. T \subseteq Nat
    BY <1>0
  <2>2. PICK m \in T : \A k \in T : m <= k
    <3> HIDE DEF T
    <3> QED
      BY <2>1, Least, Zenon
  <2>3. m \in 0 .. n /\ ~f[m].r.started
    BY <2>2, Zenon DEF T
  <2>4. m # 0
    <3>1. Begin(r).r = r
      BY DEF Begin
    <3> QED
      BY <1>3, <2>3, <3>1, Zenon
  <2>5. m \in 1 .. n /\ m - 1 \in 0 .. n /\ ~(m <= m - 1)
    BY <1>0, <2>3, <2>4
  <2>6. f[m - 1].r.started
    <3>1. m - 1 \notin T
      BY <2>2, <2>5, Zenon
    <3> QED
      BY <2>5, <3>1, Zenon DEF T
  <2>7. f[m - 1].r \in Readers
    <3>1. f[m - 1] \in Outputs
      BY <1>3, <2>5, Zenon
    <3> QED
      BY <3>1 DEF Outputs
  <2>8. f[m] = After(f[m - 1], s[m]) /\ s[m] \in Nat
    BY <1>3, <1>4, <2>5, Zenon
  <2>9. \A h, b : After(h, b).r = ReaderByte(h.r, b).r
    BY DEF After
  <2> DEFINE h == f[m - 1]
             b == s[m]
  <2>10. ReaderByte(h.r, b).r.started
    BY <2>6, <2>7, <2>8, StepStarted, Zenon
  <2>11. f[m] = After(h, b)
    BY <2>8, Zenon
  <2> HIDE DEF h, b
  <2> QED
    BY <2>3, <2>9, <2>10, <2>11, Zenon
<1>6. n \notin T
  BY <1>5, Zenon
<1> QED
  BY <1>0, <1>2, <1>6, Zenon DEF T

\* What is to come, s, for a reader that has read nothing: nothing yet, or the UUID and
\* what follows it.
Fresh(w, s, g) ==
  \/ w = NewWriter /\ s = << >> /\ g = << >>
  \/ \E y \in Seq(Nat) : s = Uuid \o y /\ Follows(Started, y, w, << >>, g)

\* It remains so when the writer adds a chunk.
FreshGrown(w, s, g, x, c, pad) ==
  LET o == WriterProcess(w, x, c, pad)
  IN  Fresh(w, s, g) => Fresh(o.w, s \o o.out, g \o c.bytes)
LEMMA FreshFurther ==
  ASSUME NEW w, NEW s \in Seq(Nat), NEW g, NEW x, NEW c \in Chunks, NEW pad \in Pads
  PROVE  FreshGrown(w, s, g, x, c, pad)
<1> DEFINE o == WriterProcess(w, x, c, pad)
           z == o.out
           b == c.bytes
<1> SUFFICES ASSUME Fresh(w, s, g)
             PROVE  Fresh(o.w, s \o z, g \o b)
  BY Zenon DEF FreshGrown
<1>1. b \in Seq(Nat)
  BY UplinkAssumption
<1>2. z \in Seq(Nat)
  <2>1. pad \in Nat
    BY UplinkAssumption, VisionAssumption
  <2> QED
    BY <2>1, Written, Zenon
<1>3. Uuid \in Seq(Nat)
  BY VisionAssumption
<1>4. CASE w = NewWriter /\ s = << >> /\ g = << >>
  <2>1. ~w.uuidWritten /\ w.isPadding /\ ~w.directCopy
    BY <1>4 DEF NewWriter
  <2>2. FrameMade(w, c, o)
    BY <2>1, PaddingWritten, Zenon
  <2> HIDE DEF o
  <2>3. PICK y \in Seq(Nat) :
          /\ z = (IF w.uuidWritten THEN << >> ELSE Uuid) \o y
          /\ \A r : Awaiting(r) => /\ InStep(o.w, ReaderBytes(r, y).r)
                                   /\ ReaderBytes(r, y).out = b
    BY <2>2, Zenon DEF FrameMade
  <2>4. z = Uuid \o y
    BY <2>1, <2>3, Zenon
  <2>5. Awaiting(Started)
    BY StartedAwaits, Zenon DEF Awaiting
  <2> HIDE DEF z, b
  <2>6. s \o z = z /\ g \o b = b /\ << >> \o b = b
    BY <1>1, <1>2, <1>4, Empty, Zenon
  <2>7. InStep(o.w, ReaderBytes(Started, y).r) /\ ReaderBytes(Started, y).out = b
    BY <2>3, <2>5, Zenon
  <2>8. Follows(Started, y, o.w, << >>, g \o b)
    BY <2>6, <2>7, Zenon DEF Follows
  <2>9. s \o z = Uuid \o y
    BY <2>4, <2>6, Zenon
  <2> QED
    BY <2>8, <2>9, Zenon DEF Fresh
<1>5. ASSUME NEW y \in Seq(Nat), s = Uuid \o y, Follows(Started, y, w, << >>, g)
      PROVE  Fresh(o.w, s \o z, g \o b)
  <2>1. Started \in Readers /\ << >> \in Seq(Nat)
    BY StartedAwaits
  <2>2. Further(Started, y, w, << >>, g, x, c, pad)
    BY <2>1, FollowsFurther, Zenon
  <2>3. Follows(Started, y \o z, o.w, << >>, g \o b)
    BY <1>5, <2>2, Zenon DEF Further
  <2> HIDE DEF o, z, b
  <2> DEFINE yz == y \o z
  <2>4. yz \in Seq(Nat)
    BY <1>2, Joined, Zenon
  <2>5. (Uuid \o y) \o z = Uuid \o (y \o z)
    BY <1>2, <1>3, Chain, Zenon
  <2>6. s \o z = Uuid \o yz
    BY <1>5, <2>5, Zenon
  <2> QED
    BY <2>3, <2>4, <2>6, Zenon DEF Fresh
<1> QED
  BY <1>4, <1>5, Zenon DEF Fresh

\* A reader reads on where it was.
ReadOn(r, x, t, w, d, g) ==
  LET u == ReaderProcess(r, x)
  IN  Follows(r, x \o t, w, d, g)
        => /\ u.r \in Readers /\ u.r.started /\ d \o u.out \in Seq(Nat)
           /\ Follows(u.r, t, w, d \o u.out, g)
LEMMA FollowsOn ==
  ASSUME NEW r \in Readers, r.started, NEW x \in Seq(Nat), NEW t \in Seq(Nat), NEW w,
         NEW d \in Seq(Nat), NEW g
  PROVE  ReadOn(r, x, t, w, d, g)
<1> DEFINE u == ReaderProcess(r, x)
           h == ReaderBytes(r, x)
           k == ReaderBytes(h.r, t)
           a == h.out
           e == k.out
<1> SUFFICES ASSUME Follows(r, x \o t, w, d, g)
             PROVE  /\ u.r \in Readers /\ u.r.started /\ d \o u.out \in Seq(Nat)
                    /\ Follows(u.r, t, w, d \o u.out, g)
  BY Zenon DEF ReadOn
<1>1. u = h
  BY Zenon DEF ReaderProcess
<1>2. h \in Outputs /\ h.r.started
  BY BytesType, BytesStarted, Zenon
<1>3. h.r \in Readers /\ a \in Seq(Nat)
  <2> HIDE DEF h
  <2> QED
    BY <1>2 DEF Outputs
<1>4. e \in Seq(Nat)
  <2>1. k \in Outputs
    BY <1>3, BytesType, Zenon
  <2> HIDE DEF k
  <2> QED
    BY <2>1 DEF Outputs
<1>5. Joint(r, x, t)
  BY BytesJoined, Zenon
<1>6. ReaderBytes(r, x \o t) = Since(a, k)
  BY <1>5, Zenon DEF Joint
<1>7. Since(a, k).r = k.r /\ Since(a, k).out = a \o e
  BY DEF Since
<1>8. d \o (a \o e) = g /\ InStep(w, k.r)
  BY <1>6, <1>7, Zenon DEF Follows
<1> HIDE DEF u, h, k, a, e
<1>9. (d \o a) \o e = d \o (a \o e)
  BY <1>3, <1>4, Chain, Zenon
<1>10. d \o a \in Seq(Nat)
  BY <1>3, Joined, Zenon
<1>11. (d \o a) \o e = g
  BY <1>8, <1>9, Zenon
<1>12. Follows(h.r, t, w, d \o a, g)
  BY <1>8, <1>11, Zenon DEF Follows, k, e
<1> QED
  BY <1>1, <1>2, <1>3, <1>10, <1>12, Zenon DEF a

\* A first chunk that holds the UUID and a header is read past the UUID.
Opened(x, t, w, g) ==
  LET u == ReaderProcess(NewReader, x)
  IN  Fresh(w, x \o t, g) /\ Len(x) >= FullHeader
        => /\ u.r \in Readers /\ u.r.started /\ u.out \in Seq(Nat)
           /\ Follows(u.r, t, w, u.out, g)
LEMMA FirstChunk ==
  ASSUME NEW x \in Seq(Nat), NEW t \in Seq(Nat), NEW w, NEW g
  PROVE  Opened(x, t, w, g)
<1> DEFINE u == ReaderProcess(NewReader, x)
           n == Len(Uuid)
           e == Drop(x, n)
           h == ReaderProcess(Started, e)
           o == << >>
<1> SUFFICES ASSUME Fresh(w, x \o t, g), Len(x) >= FullHeader
             PROVE  /\ u.r \in Readers /\ u.r.started /\ u.out \in Seq(Nat)
                    /\ Follows(u.r, t, w, u.out, g)
  BY Zenon DEF Opened
<1>1. Uuid \in Seq(Nat) /\ n \in Nat /\ Len(x) \in Nat /\ Len(x) >= n /\ Len(x) > 0
  BY VisionAssumption, LenProperties DEF FullHeader, ShortHeader
<1>2. x \o t # << >>
  <2>1. Len(x \o t) = Len(x) + Len(t) /\ Len(t) \in Nat
    BY Parts, Zenon
  <2>2. x \o t = << >> => Len(x \o t) = 0
    OBVIOUS
  <2> QED
    BY <1>1, <2>1, <2>2
<1>3. PICK y \in Seq(Nat) : x \o t = Uuid \o y /\ Follows(Started, y, w, << >>, g)
  BY <1>2, Zenon DEF Fresh
<1>4. Take(x, n) = Uuid /\ e \in Seq(Nat) /\ e \o t = y
  <2>1. Taken(x, t, Uuid, y)
    BY <1>1, PieceTaken, Zenon
  <2> QED
    BY <1>1, <1>3, <2>1, Zenon DEF Taken
<1>5. Started \in Readers /\ Started.started
  BY StartedAwaits DEF Unpadding
<1>6. u = h
  <2>1. ~NewReader.started /\ ~NewReader.directCopy
    BY DEF NewReader
  <2>2. u = ReaderBytes(Started, e)
    BY <1>4, <2>1, Zenon DEF ReaderProcess, Started, Take, Drop
  <2>3. h = ReaderBytes(Started, e)
    BY <1>5, Zenon DEF ReaderProcess
  <2> QED
    BY <2>2, <2>3, Zenon
<1>7. o \in Seq(Nat)
  OBVIOUS
<1>8. Follows(Started, e \o t, w, o, g)
  BY <1>3, <1>4, Zenon
<1> HIDE DEF e, o
<1>9. ReadOn(Started, e, t, w, o, g)
  BY <1>4, <1>5, <1>7, FollowsOn, Zenon
<1>10. /\ h.r \in Readers /\ h.r.started /\ o \o h.out \in Seq(Nat)
       /\ Follows(h.r, t, w, o \o h.out, g)
  BY <1>8, <1>9, Zenon DEF ReadOn
<1>11. o \o h.out = h.out
  <2>1. h.out \in Seq(Nat)
    <3>1. ReaderBytes(Started, e) \in Outputs
      BY <1>4, <1>5, BytesType, Zenon
    <3>2. h = ReaderBytes(Started, e)
      BY <1>5, Zenon DEF ReaderProcess
    <3>3. h \in Outputs
      BY <3>1, <3>2, Zenon
    <3> HIDE DEF h
    <3> QED
      BY <3>3 DEF Outputs
  <2> QED
    BY <2>1, Empty, Zenon DEF o
<1> QED
  BY <1>6, <1>10, <1>11, Zenon

\* Nothing is lost when nothing is to come.
LEMMA NothingToCome ==
  ASSUME NEW r \in Readers, NEW w, NEW d \in Seq(Nat), NEW g, Follows(r, << >>, w, d, g)
  PROVE  d = g
<1> DEFINE h == ReaderBytes(r, << >>)
<1>1. << >> \in Seq(Nat) /\ Len(<< >>) = 0
  OBVIOUS
<1>2. PICK f : Runs(r, << >>, 0, f)
  BY <1>1, RunExists, Zenon
<1>3. h = f[0]
  BY <1>1, <1>2, BytesRun, Zenon
<1>4. h = Begin(r)
  BY <1>2, <1>3, Zenon DEF Runs
<1>5. h.out = << >>
  BY <1>4 DEF Begin
<1>6. d \o << >> = d
  BY Empty, Zenon
<1> QED
  BY <1>5, <1>6, Zenon DEF Follows

-----------------------------------------------------------------------------
(* The invariant of a Vision session.                                       *)

\* The reader has been given nothing.
Unread == first = 0 /\ reader = NewReader /\ delivered = << >>

\* The header of the session is being read, and the frames are behind it.
VisionReading ==
  /\ side = "tunnel" /\ Unread
  /\ \E a \in VisionAddons, t \in Seq(Nat), body \in Seq(Nat) :
       /\ Coming(t, line, over) /\ Fresh(writer, body, given)
       /\ VlessRead(ask, a, Command[mode], parse, buf \o t, body)

\* It has been read, and nothing behind it.
VisionWaiting ==
  /\ parse.step = "relay" /\ buf = << >> /\ Unread
  /\ \E t \in Seq(Nat) : Coming(t, line, over) /\ Fresh(writer, t, given)

\* The frames are being read, and what is to come is the rest of them; unless the first
\* chunk was too short for the reader to find the UUID.
VisionUnwrapping ==
  /\ parse.step = "relay" /\ buf = << >> /\ first \in Nat \ {0}
  /\ first >= FullHeader
       => /\ reader \in Readers /\ reader.started /\ delivered \in Seq(Nat)
          /\ \E t \in Seq(Nat) : /\ Coming(t, line, over)
                                 /\ Follows(reader, t, writer, delivered, given)

\* The header has been refused.
VisionRefused == parse.step = "error" /\ Unread

VisionInv ==
  mode = "vision"
    => /\ given \in Seq(Nat)
       /\ VisionReading \/ VisionWaiting \/ VisionUnwrapping \/ VisionRefused

\* The session starts with the header to be read and no frame made.
LEMMA InitVision == Init => VisionInv
<1> SUFFICES ASSUME Init, mode = "vision"
             PROVE  given \in Seq(Nat) /\ VisionReading
  BY DEF VisionInv
<1>1. /\ ask \in Asked /\ over = "no" /\ buf = << >> /\ writer = NewWriter
      /\ given = << >> /\ side = "tunnel" /\ Unread
  BY DEF Init, Unread
<1>2. PICK a \in VisionAddons : line = ForeignRequest(ask, a)
  BY DEF Init
<1>3. parse = Start("version")
  BY DEF Init
<1>4. a \in Seq(Nat)
  BY AddonBytes DEF VisionAddons
<1>5. line \in Seq(Nat) /\ line = VlessLeft(ask, a, 1, "version")
  <2>1. 1 \in {1, 2}
    OBVIOUS
  <2> QED
    BY <1>1, <1>2, <1>4, <2>1, VlessWritten, Zenon
<1>6. Command[mode] = 1
  BY DEF Command
<1>e. << >> \in Seq(Nat) /\ Len(<< >>) = 0
  OBVIOUS
<1>7. parse \in Parses /\ parse.step = "version" /\ parse.need = 1 /\ parse.flow = << >>
  BY <1>e, <1>3, StepNames DEF Start, Parses, Kinds
<1>8. "version" \in VlessSteps /\ Len(VlessPiece(ask, a, 1, "version")) = 1
  BY DEF VlessSteps, VlessPiece
<1>9. VlessFound(parse, ask, a, 1)
  BY <1>7 DEF VlessFound
<1> DEFINE l == line
<1>l. l \in Seq(Nat) /\ line = l
  BY <1>5
<1> HIDE DEF l
<1>10. << >> \o l = l /\ l \o << >> = l
  BY <1>l, Empty, Zenon
<1>11. buf \o line = VlessLeft(ask, a, 1, "version") \o << >>
  BY <1>1, <1>5, <1>10, <1>l, Zenon
<1>12. VlessRead(ask, a, Command[mode], parse, buf \o line, << >>)
  BY <1>6, <1>7, <1>8, <1>9, <1>11, Zenon DEF VlessRead
<1>13. Coming(line, line, over)
  BY <1>1, <1>5 DEF Coming
<1>14. Fresh(writer, << >>, given)
  BY <1>1, Zenon DEF Fresh
<1> QED
  BY <1>e, <1>1, <1>2, <1>5, <1>12, <1>13, <1>14, Zenon DEF VisionReading

\* Only the reader of the header waits for bytes.
LEMMA VisionWaits ==
  ASSUME VisionInv, mode = "vision", Waits
  PROVE  VisionReading
<1>1. parse.step # "relay" /\ parse.step # "error"
  BY DEF Waits
<1> QED
  BY <1>1, Zenon DEF VisionInv, VisionWaiting, VisionUnwrapping, VisionRefused

\* A read adds to the buffer what it takes from the stream.
LEMMA ReceiveVision ==
  ASSUME IInv, VisionInv, Receive
  PROVE  VisionInv'
<1>1. PICK n \in 1 .. Len(line) : buf' = buf \o Take(line, n) /\ line' = Drop(line, n)
  BY DEF Receive
<1>2. /\ mode' = mode /\ ask' = ask /\ side' = side /\ over' = over /\ parse' = parse
      /\ given' = given /\ delivered' = delivered /\ writer' = writer /\ reader' = reader
      /\ first' = first
  BY DEF Receive, conversation, vision
<1>3. buf \in Seq(Nat) /\ line \in Seq(Nat)
  BY DEF IInv, StateTypes
<1> SUFFICES ASSUME mode = "vision"
             PROVE  given' \in Seq(Nat) /\ VisionReading'
  BY <1>2, Zenon DEF VisionInv
<1>4. VisionReading /\ given \in Seq(Nat)
  BY VisionWaits DEF Receive, VisionInv
<1>5. PICK a \in VisionAddons, t \in Seq(Nat), body \in Seq(Nat) :
        /\ Coming(t, line, over) /\ Fresh(writer, body, given)
        /\ VlessRead(ask, a, Command[mode], parse, buf \o t, body)
  BY <1>4 DEF VisionReading
<1>6. Moved(buf, line, n, t, over)
  BY <1>3, ComingMoved, Zenon
<1>7. /\ Coming(line', line', over') /\ line' \in Seq(Nat) /\ buf' \o line' = buf \o t
  BY <1>1, <1>2, <1>5, <1>6, Zenon DEF Moved
<1>8. VlessRead(ask', a, Command[mode'], parse', buf' \o line', body)
  BY <1>2, <1>5, <1>7, Zenon
<1>9. Fresh(writer', body, given') /\ Unread' /\ side' = "tunnel"
  BY <1>2, <1>4, <1>5, Zenon DEF Unread, VisionReading
<1> QED
  BY <1>2, <1>4, <1>5, <1>7, <1>8, <1>9, Zenon DEF VisionReading

\* A header that ends too soon is refused.
LEMMA ReceiveEndVision ==
  ASSUME VisionInv, ReceiveEnd
  PROVE  VisionInv'
<1>1. /\ mode' = mode /\ given' = given /\ delivered' = delivered /\ reader' = reader
      /\ first' = first /\ parse' = Bad(parse)
  BY DEF ReceiveEnd, conversation, vision
<1> SUFFICES ASSUME mode = "vision"
             PROVE  given' \in Seq(Nat) /\ VisionRefused'
  BY <1>1, Zenon DEF VisionInv
<1>2. VisionReading /\ given \in Seq(Nat)
  BY VisionWaits DEF ReceiveEnd, VisionInv
<1>3. parse \in Parses
  BY <1>2 DEF VisionReading, VlessRead
<1>4. parse'.step = "error"
  BY <1>1, <1>3 DEF Bad, At, Parses
<1>5. Unread'
  BY <1>1, <1>2, Zenon DEF Unread, VisionReading
<1> QED
  BY <1>1, <1>2, <1>4, <1>5, Zenon DEF VisionRefused

\* The decoder that takes its piece goes on to the next.
LEMMA ConsumeVision ==
  ASSUME IInv, VisionInv, Consume
  PROVE  VisionInv'
<1> DEFINE b == Take(buf, parse.need)
<1>1. /\ mode' = mode /\ ask' = ask /\ side' = side /\ line' = line /\ over' = over
      /\ given' = given /\ delivered' = delivered /\ writer' = writer /\ reader' = reader
      /\ first' = first /\ buf' = Drop(buf, parse.need)
      /\ side # "socks" => parse' = VlessStep(parse, b)
  BY DEF Consume, conversation, vision
<1> SUFFICES ASSUME mode = "vision"
             PROVE  given' \in Seq(Nat) /\ VisionReading'
  BY <1>1, Zenon DEF VisionInv
<1>2. VisionReading /\ given \in Seq(Nat)
  BY VisionWaits DEF Consume, VisionInv
<1>3. parse.step # "done" /\ Len(buf) >= parse.need
  BY DEF Consume, Waits
<1>4. buf \in Seq(Nat) /\ ask \in Asked
  BY DEF IInv, StateTypes
<1>5. PICK a \in VisionAddons, t \in Seq(Nat), body \in Seq(Nat) :
        /\ Coming(t, line, over) /\ Fresh(writer, body, given)
        /\ VlessRead(ask, a, Command[mode], parse, buf \o t, body)
  BY <1>2 DEF VisionReading
<1>6. a \in {<< >>} \cup VisionAddons /\ Command[mode] \in {1, 2}
  BY DEF Command
<1>7. /\ Drop(buf, parse.need) \in Seq(Nat)
      /\ VlessRead(ask, a, Command[mode], VlessStep(parse, b),
                   Drop(buf, parse.need) \o t, body)
  BY <1>3, <1>4, <1>5, <1>6, VlessConsumed, Zenon
<1>8. side' = "tunnel" /\ side # "socks"
  BY <1>1, <1>2 DEF VisionReading
<1>9. VlessRead(ask', a, Command[mode'], parse', buf' \o t, body)
  BY <1>1, <1>7, <1>8, Zenon
<1>10. Coming(t, line', over') /\ Fresh(writer', body, given') /\ Unread'
  BY <1>1, <1>2, <1>5, Zenon DEF Unread, VisionReading
<1> QED
  BY <1>1, <1>2, <1>5, <1>8, <1>9, <1>10, Zenon DEF VisionReading

\* A first chunk given to the reader: what follows it is what is to come.
LEMMA FirstUnwrapped ==
  ASSUME NEW x \in Seq(Nat), x # << >>, NEW t \in Seq(Nat), Unread, Unwrap(x),
         Fresh(writer, x \o t, given), writer' = writer, given' = given,
         Coming(t, line', over'), buf' = << >>, parse'.step = "relay"
  PROVE  VisionUnwrapping'
<1> DEFINE u == ReaderProcess(NewReader, x)
<1>1. reader = NewReader /\ first = 0 /\ delivered = << >>
  BY DEF Unread
<1>2. reader' = u.r /\ delivered' = << >> \o u.out /\ first' = Len(x)
  BY <1>1, Zenon DEF Unwrap
<1>3. first' \in Nat \ {0}
  <2>1. Len(x) \in Nat \ {0}
    OBVIOUS
  <2> QED
    BY <1>2, <2>1, Zenon
<1>4. ASSUME first' >= FullHeader
      PROVE  /\ reader' \in Readers /\ reader'.started /\ delivered' \in Seq(Nat)
             /\ Follows(reader', t, writer', delivered', given')
  <2>1. Opened(x, t, writer, given)
    BY FirstChunk, Zenon
  <2>2. Len(x) >= FullHeader
    BY <1>2, <1>4, Zenon
  <2>3. /\ u.r \in Readers /\ u.r.started /\ u.out \in Seq(Nat)
        /\ Follows(u.r, t, writer, u.out, given)
    BY <2>1, <2>2, Zenon DEF Opened
  <2> HIDE DEF u
  <2> DEFINE o == u.out
  <2>4. o \in Seq(Nat)
    BY <2>3, Zenon
  <2> HIDE DEF o
  <2>5. << >> \o o = o
    BY <2>4, Empty, Zenon
  <2>6. delivered' = u.out
    BY <1>2, <2>5, Zenon DEF o
  <2> QED
    BY <1>2, <2>3, <2>6, Zenon
<1>5. FullHeader' = FullHeader
  BY DEF FullHeader, ShortHeader
<1> HIDE DEF u
<1> QED
  BY <1>3, <1>4, <1>5, Zenon DEF VisionUnwrapping

\* What is relayed is being unwrapped, or is about to be.
LEMMA VisionRelays ==
  ASSUME VisionInv, mode = "vision", parse.step = "relay"
  PROVE  VisionWaiting \/ VisionUnwrapping
<1>1. "relay" \notin VlessSteps /\ "relay" # "error"
  BY DEF VlessSteps
<1> QED
  BY <1>1, Zenon DEF VisionInv, VisionReading, VisionRefused, VlessRead

\* The relay starts with what was read along with the header.
LEMMA RelayVision ==
  ASSUME IInv, VisionInv, Relay
  PROVE  VisionInv'
<1>1. /\ mode' = mode /\ side' = side /\ line' = line /\ over' = over /\ given' = given
      /\ writer' = writer /\ side = "tunnel" /\ parse.step = "done"
      /\ parse' = At(parse, "relay", 0)
  BY DEF Relay, conversation
<1> SUFFICES ASSUME mode = "vision"
             PROVE  given' \in Seq(Nat) /\ (VisionWaiting' \/ VisionUnwrapping')
  BY <1>1, Zenon DEF VisionInv
<1>2. VisionReading /\ given \in Seq(Nat)
  BY <1>1 DEF VisionInv, VisionWaiting, VisionUnwrapping, VisionRefused
<1>3. PICK a \in VisionAddons, t \in Seq(Nat), body \in Seq(Nat) :
        /\ Coming(t, line, over) /\ Fresh(writer, body, given)
        /\ VlessRead(ask, a, Command[mode], parse, buf \o t, body)
  BY <1>2 DEF VisionReading
<1>4. mode \in Modes /\ ask \in Asked /\ buf \in Seq(Nat)
  BY DEF IInv, StateTypes
<1>5. a \in Extras(mode)
  BY DEF Extras
<1>6. buf \o t = body /\ parse \in Parses
  <2> DEFINE m == mode
  <2>1. m \in Modes /\ a \in Extras(m) /\ VlessRead(ask, a, Command[m], parse, buf \o t, body)
    BY <1>3, <1>4, <1>5, Zenon
  <2> HIDE DEF m
  <2>2. /\ ToVlessRequest(parse) = ask /\ parse.cmd = Command[m]
        /\ parse.flow = IF m = "vision" THEN VisionName ELSE << >>
        /\ buf \o t = body /\ parse \in Parses
    BY <1>1, <1>4, <2>1, VlessDone, Zenon
  <2> QED
    BY <2>2, Zenon
<1>7. parse'.step = "relay"
  <2>1. "relay" \in ParseSteps /\ 0 \in Nat
    BY StepNames
  <2> QED
    BY <1>1, <1>6, <2>1, AtType, Zenon
<1>8. Coming(t, line', over') /\ Fresh(writer, buf \o t, given) /\ Unread
  BY <1>1, <1>2, <1>3, <1>6, Zenon DEF VisionReading
<1>9. \/ buf = << >> /\ UNCHANGED <<buf, reader, first, delivered>>
      \/ buf # << >> /\ Unwrap(buf) /\ buf' = << >>
  BY DEF Relay
<1>10. CASE buf = << >> /\ UNCHANGED <<buf, reader, first, delivered>>
  <2>1. buf' = << >> /\ reader' = reader /\ first' = first /\ delivered' = delivered
    BY <1>10
  <2>2. << >> \o t = t
    BY Empty, Zenon
  <2>3. Fresh(writer', t, given')
    BY <1>1, <1>8, <1>10, <2>2, Zenon
  <2>4. Unread'
    BY <1>8, <2>1, Zenon DEF Unread
  <2> QED
    BY <1>1, <1>2, <1>7, <1>8, <2>1, <2>3, <2>4, Zenon DEF VisionWaiting
<1>11. CASE buf # << >> /\ Unwrap(buf) /\ buf' = << >>
  <2>1. VisionUnwrapping'
    BY <1>1, <1>4, <1>7, <1>8, <1>11, FirstUnwrapped, Zenon
  <2> QED
    BY <1>1, <1>2, <2>1, Zenon
<1> QED
  BY <1>9, <1>10, <1>11, Zenon

\* A relay reads on where it was.
LEMMA RelayReadVision ==
  ASSUME IInv, VisionInv, RelayRead
  PROVE  VisionInv'
<1>1. /\ mode' = mode /\ over' = over /\ given' = given /\ writer' = writer
      /\ parse' = parse /\ parse.step = "relay"
  BY DEF RelayRead, conversation
<1> SUFFICES ASSUME mode = "vision"
             PROVE  given' \in Seq(Nat) /\ VisionUnwrapping'
  BY <1>1, Zenon DEF VisionInv
<1>2. PICK n \in 1 .. Len(line) :
        line' = Drop(line, n) /\ Unwrap(Take(line, n)) /\ buf' = buf
  BY DEF RelayRead
<1> DEFINE x == Take(line, n)
           l == Drop(line, n)
           o == << >>
<1>3. line \in Seq(Nat) /\ given \in Seq(Nat)
  BY DEF IInv, StateTypes, VisionInv
<1>o. o \in Seq(Nat)
  OBVIOUS
<1> HIDE DEF o
<1>4. ASSUME NEW t, Coming(t, line, over)
      PROVE  Coming(l, line', over') /\ x \o l = t
  <2>1. Moved(o, line, n, t, over)
    BY <1>3, <1>o, ComingMoved, Zenon
  <2>2. /\ Coming(l, l, over) /\ x \in Seq(Nat) /\ (o \o x) \o l = o \o t
        /\ t \in Seq(Nat)
    BY <1>4, <2>1, Zenon DEF Moved, Coming
  <2>3. line' = l
    BY <1>2, Zenon
  <2> HIDE DEF x, l
  <2>4. o \o x = x /\ o \o t = t
    BY <2>2, Empty, Zenon DEF o
  <2> QED
    BY <1>1, <2>2, <2>3, <2>4, Zenon
<1>5. x \in Seq(Nat) /\ x # << >> /\ l \in Seq(Nat)
  <2>1. x \in Seq(Nat) /\ l \in Seq(Nat)
    BY <1>3, PieceMoved, Zenon
  <2>2. Len(x) = n /\ n # 0
    BY <1>3 DEF Take
  <2>3. x = << >> => Len(x) = 0
    OBVIOUS
  <2> QED
    BY <2>1, <2>2, <2>3, Zenon
<1>6. Unwrap(x)
  BY <1>2, Zenon
<1> HIDE DEF x, l
<1>7. CASE VisionWaiting
  <2>1. PICK t \in Seq(Nat) : Coming(t, line, over) /\ Fresh(writer, t, given)
    BY <1>7 DEF VisionWaiting
  <2>2. Coming(l, line', over') /\ Fresh(writer, x \o l, given)
    BY <1>4, <2>1, Zenon
  <2>3. Unread /\ buf' = << >> /\ parse'.step = "relay"
    BY <1>1, <1>2, <1>7, Zenon DEF VisionWaiting
  <2>4. VisionUnwrapping'
    BY <1>1, <1>5, <1>6, <2>2, <2>3, FirstUnwrapped, Zenon
  <2> QED
    BY <1>1, <1>3, <2>4, Zenon
<1>8. CASE VisionUnwrapping
  <2> DEFINE u == ReaderProcess(reader, x)
  <2>1. first \in Nat \ {0} /\ first # 0 /\ buf' = << >> /\ parse'.step = "relay"
    BY <1>1, <1>2, <1>8 DEF VisionUnwrapping
  <2>2. reader' = u.r /\ delivered' = delivered \o u.out /\ first' = first
    BY <1>6, <2>1, Zenon DEF Unwrap
  <2>3. ASSUME first >= FullHeader
        PROVE  /\ reader' \in Readers /\ reader'.started /\ delivered' \in Seq(Nat)
               /\ Follows(reader', l, writer', delivered', given')
    <3>1. PICK t \in Seq(Nat) : /\ Coming(t, line, over)
                                /\ Follows(reader, t, writer, delivered, given)
      BY <1>8, <2>3, Zenon DEF VisionUnwrapping
    <3>2. reader \in Readers /\ reader.started /\ delivered \in Seq(Nat)
      BY <1>8, <2>3, Zenon DEF VisionUnwrapping
    <3>3. Follows(reader, x \o l, writer, delivered, given)
      BY <1>4, <3>1, Zenon
    <3>4. ReadOn(reader, x, l, writer, delivered, given)
      BY <1>5, <3>2, FollowsOn, Zenon
    <3>5. /\ u.r \in Readers /\ u.r.started /\ delivered \o u.out \in Seq(Nat)
          /\ Follows(u.r, l, writer, delivered \o u.out, given)
      BY <3>3, <3>4, Zenon DEF ReadOn
    <3> QED
      BY <1>1, <2>2, <3>5, Zenon
  <2>4. first >= FullHeader => Coming(l, line', over')
    BY <1>4, <1>8, Zenon DEF VisionUnwrapping
  <2>5. FullHeader' = FullHeader
    BY DEF FullHeader, ShortHeader
  <2> HIDE DEF u
  <2>6. VisionUnwrapping'
    BY <1>5, <2>1, <2>2, <2>3, <2>4, <2>5, Zenon DEF VisionUnwrapping
  <2> QED
    BY <1>1, <1>3, <2>6, Zenon
<1> QED
  BY <1>1, <1>7, <1>8, VisionRelays, Zenon

\* A chunk sent adds a frame to what is to come.
LEMMA SendChunkVision ==
  ASSUME IInv, VisionInv, SendChunk
  PROVE  VisionInv'
<1>1. /\ mode' = mode /\ ask' = ask /\ side' = side /\ over' = over /\ buf' = buf
      /\ parse' = parse /\ delivered' = delivered /\ reader' = reader /\ first' = first
      /\ mode = "vision" /\ over = "no"
  BY DEF SendChunk, MaySend, conversation
<1>2. PICK c \in Chunks, pad \in Pads :
        LET s == WriterProcess(writer, ctx, c, pad)
        IN  writer' = s.w /\ line' = line \o s.out /\ given' = given \o c.bytes
  BY DEF SendChunk
<1> DEFINE s == WriterProcess(writer, ctx, c, pad)
           z == s.out
           b == c.bytes
<1>3. writer' = s.w /\ line' = line \o z /\ given' = given \o b
  BY <1>2
<1>4. line \in Seq(Nat) /\ given \in Seq(Nat) /\ buf \in Seq(Nat) /\ ask \in Asked
  BY <1>1 DEF IInv, StateTypes, VisionInv
<1>5. z \in Seq(Nat)
  <2>1. pad \in Nat
    BY UplinkAssumption, VisionAssumption
  <2> QED
    BY <2>1, Written, Zenon
<1>6. b \in Seq(Nat)
  BY UplinkAssumption
<1>7. /\ \A t, g : FreshGrown(writer, t, g, ctx, c, pad) /\ Fresh(writer, t, g)
                     => Fresh(writer', t \o z, g \o b)
      /\ \A t, d, g : Further(reader, t, writer, d, g, ctx, c, pad)
                        /\ Follows(reader, t, writer, d, g)
                     => Follows(reader', t \o z, writer', d, g \o b)
  BY <1>1, <1>3, Zenon DEF FreshGrown, Further
<1> HIDE DEF s, z, b
<1>8. line' \in Seq(Nat) /\ given' \in Seq(Nat)
  BY <1>3, <1>4, <1>5, <1>6, Joined, Zenon
<1>9. Coming(line', line', over') /\ \A t : Coming(t, line, over) => t = line
  BY <1>1, <1>8 DEF Coming
<1>10. CASE VisionReading
  <2>1. PICK a \in VisionAddons, t \in Seq(Nat), body \in Seq(Nat) :
          /\ Coming(t, line, over) /\ Fresh(writer, body, given)
          /\ VlessRead(ask, a, Command[mode], parse, buf \o t, body)
    BY <1>10 DEF VisionReading
  <2>2. t = line
    BY <1>9, <2>1, Zenon
  <2>3. a \in {<< >>} \cup VisionAddons /\ Command[mode] \in {1, 2}
    BY <1>1 DEF Command
  <2>4. Grown(ask, a, Command[mode], parse, buf, t, body, z)
    BY <1>4, <1>5, <2>3, HeaderKept, Zenon
  <2>5. VlessRead(ask', a, Command[mode'], parse', buf' \o line', body \o z)
    BY <1>1, <1>3, <2>1, <2>2, <2>4, Zenon DEF Grown
  <2>6. FreshGrown(writer, body, given, ctx, c, pad)
    BY FreshFurther, Zenon
  <2>7. Fresh(writer', body \o z, given')
    BY <1>3, <1>7, <2>1, <2>6, Zenon
  <2>8. body \o z \in Seq(Nat)
    BY <1>5, Joined, Zenon
  <2>9. side' = "tunnel" /\ Unread'
    BY <1>1, <1>10, Zenon DEF VisionReading, Unread
  <2>10. VisionReading'
    BY <1>8, <1>9, <2>1, <2>5, <2>7, <2>8, <2>9, Zenon DEF VisionReading
  <2> QED
    BY <1>8, <2>10, Zenon DEF VisionInv
<1>11. CASE VisionWaiting
  <2>1. PICK t \in Seq(Nat) : Coming(t, line, over) /\ Fresh(writer, t, given)
    BY <1>11 DEF VisionWaiting
  <2>2. t = line
    BY <1>9, <2>1, Zenon
  <2>3. FreshGrown(writer, t, given, ctx, c, pad)
    BY FreshFurther, Zenon
  <2>4. Fresh(writer', line', given')
    BY <1>3, <1>7, <2>1, <2>2, <2>3, Zenon
  <2>5. parse'.step = "relay" /\ buf' = << >> /\ Unread'
    BY <1>1, <1>11, Zenon DEF VisionWaiting, Unread
  <2>6. VisionWaiting'
    BY <1>8, <1>9, <2>4, <2>5, Zenon DEF VisionWaiting
  <2> QED
    BY <1>8, <2>6, Zenon DEF VisionInv
<1>12. CASE VisionUnwrapping
  <2>1. parse'.step = "relay" /\ buf' = << >> /\ first' \in Nat \ {0}
    BY <1>1, <1>12, Zenon DEF VisionUnwrapping
  <2>2. ASSUME first >= FullHeader
        PROVE  /\ reader' \in Readers /\ reader'.started /\ delivered' \in Seq(Nat)
               /\ Follows(reader', line', writer', delivered', given')
    <3>1. PICK t \in Seq(Nat) : /\ Coming(t, line, over)
                                /\ Follows(reader, t, writer, delivered, given)
      BY <1>12, <2>2, Zenon DEF VisionUnwrapping
    <3>2. reader \in Readers /\ reader.started /\ delivered \in Seq(Nat)
      BY <1>12, <2>2, Zenon DEF VisionUnwrapping
    <3>3. t = line
      BY <1>9, <3>1, Zenon
    <3>4. Further(reader, t, writer, delivered, given, ctx, c, pad)
      BY <3>2, FollowsFurther, Zenon
    <3>5. Follows(reader', line', writer', delivered, given')
      BY <1>3, <1>7, <3>1, <3>3, <3>4, Zenon
    <3> QED
      BY <1>1, <3>2, <3>5, Zenon
  <2>3. FullHeader' = FullHeader
    BY DEF FullHeader, ShortHeader
  <2>4. VisionUnwrapping'
    BY <1>1, <1>8, <1>9, <2>1, <2>2, <2>3, Zenon DEF VisionUnwrapping
  <2> QED
    BY <1>8, <2>4, Zenon DEF VisionInv
<1>13. CASE VisionRefused
  <2>1. VisionRefused'
    BY <1>1, <1>13, Zenon DEF VisionRefused, Unread
  <2> QED
    BY <1>8, <2>1, Zenon DEF VisionInv
<1> QED
  BY <1>1, <1>10, <1>11, <1>12, <1>13, Zenon DEF VisionInv

\* What is not read or sent here leaves everything as it is.
LEMMA StutterVision ==
  ASSUME VisionInv,
         UNCHANGED <<conversation, side, line, over, buf, parse, writer, reader, first,
                     given, delivered>>
  PROVE  VisionInv'
<1>1. /\ mode' = mode /\ ask' = ask /\ side' = side /\ line' = line /\ over' = over
      /\ buf' = buf /\ parse' = parse /\ writer' = writer /\ reader' = reader
      /\ first' = first /\ given' = given /\ delivered' = delivered
  BY DEF conversation
<1>2. Unread' = Unread
  BY <1>1, Zenon DEF Unread
<1>3. VisionReading' = VisionReading
  BY <1>1, <1>2, Zenon DEF VisionReading
<1>4. VisionWaiting' = VisionWaiting
  BY <1>1, <1>2, Zenon DEF VisionWaiting
<1>5. VisionUnwrapping' = VisionUnwrapping
  <2>1. FullHeader' = FullHeader
    BY DEF FullHeader, ShortHeader
  <2> QED
    BY <1>1, <2>1, Zenon DEF VisionUnwrapping
<1>6. VisionRefused' = VisionRefused
  BY <1>1, <1>2, Zenon DEF VisionRefused
<1> QED
  BY <1>1, <1>3, <1>4, <1>5, <1>6, Zenon DEF VisionInv

\* A stream that breaks loses what is still to come.
LEMMA FinishVision ==
  ASSUME VisionInv, Finish
  PROVE  VisionInv'
<1>1. /\ mode' = mode /\ ask' = ask /\ side' = side /\ buf' = buf /\ parse' = parse
      /\ writer' = writer /\ reader' = reader /\ first' = first /\ given' = given
      /\ delivered' = delivered /\ over = "no"
      /\ \/ over' = "ended" /\ line' = line
         \/ over' = "broken" /\ line' = << >>
  BY DEF Finish, conversation, vision
<1>2. \A t : Coming(t, line, over) => Coming(t, line', over')
  BY <1>1 DEF Coming
<1>3. Unread => Unread'
  BY <1>1, Zenon DEF Unread
<1>4. VisionReading => VisionReading'
  <2> SUFFICES ASSUME VisionReading PROVE VisionReading'
    OBVIOUS
  <2>1. PICK a \in VisionAddons, t \in Seq(Nat), body \in Seq(Nat) :
          /\ Coming(t, line, over) /\ Fresh(writer, body, given)
          /\ VlessRead(ask, a, Command[mode], parse, buf \o t, body)
    BY DEF VisionReading
  <2>2. /\ Coming(t, line', over') /\ Fresh(writer', body, given')
        /\ VlessRead(ask', a, Command[mode'], parse', buf' \o t, body)
    BY <1>1, <1>2, <2>1, Zenon
  <2>3. side' = "tunnel" /\ Unread'
    BY <1>1, <1>3, Zenon DEF VisionReading
  <2> QED
    BY <2>1, <2>2, <2>3, Zenon DEF VisionReading
<1>5. VisionWaiting => VisionWaiting'
  BY <1>1, <1>2, <1>3, Zenon DEF VisionWaiting
<1>6. VisionUnwrapping => VisionUnwrapping'
  <2>1. FullHeader' = FullHeader
    BY DEF FullHeader, ShortHeader
  <2> QED
    BY <1>1, <1>2, <2>1, Zenon DEF VisionUnwrapping
<1>7. VisionRefused => VisionRefused'
  BY <1>1, <1>3, Zenon DEF VisionRefused
<1> QED
  BY <1>1, <1>4, <1>5, <1>6, <1>7, Zenon DEF VisionInv

\* Every step keeps the invariant.
THEOREM VisionInvariance == Spec => []VisionInv
<1>1. Init => VisionInv
  BY InitVision
<1>2. IInv /\ VisionInv /\ [Next]_vars => VisionInv'
  <2> SUFFICES ASSUME IInv, VisionInv, [Next]_vars PROVE VisionInv'
    OBVIOUS
  <2>0. ASSUME mode' = mode, mode # "vision" PROVE VisionInv'
    BY <2>0, Zenon DEF VisionInv
  <2>1. CASE Receive
    BY <2>1, ReceiveVision
  <2>2. CASE ReceiveEnd
    BY <2>2, ReceiveEndVision
  <2>3. CASE Consume
    BY <2>3, ConsumeVision
  <2>4. CASE Ask
    <3>1. mode' = mode
      BY <2>4 DEF Ask, conversation
    <3>2. mode # "vision"
      <4>1. side = "socks" /\ parse.step = "done"
        BY <2>4 DEF Ask
      <4>2. "socks" # "tunnel" /\ "done" # "relay" /\ "done" # "error"
        OBVIOUS
      <4> QED
        BY <4>1, <4>2, Zenon DEF VisionInv, VisionReading, VisionWaiting, VisionUnwrapping,
                                 VisionRefused
    <3> QED
      BY <2>0, <3>1, <3>2, Zenon
  <2>5. CASE Relay
    BY <2>5, RelayVision
  <2>6. CASE Cut
    BY <2>0, <2>6 DEF Cut, conversation
  <2>7. CASE RelayRead
    BY <2>7, RelayReadVision
  <2>8. CASE SendBytes
    BY <2>0, <2>8 DEF SendBytes, conversation
  <2>9. CASE SendDatagram
    BY <2>0, <2>9 DEF SendDatagram, conversation
  <2>10. CASE SendChunk
    BY <2>10, SendChunkVision
  <2>11. CASE OtherDirection
    BY <2>11, StutterVision DEF OtherDirection
  <2>12. CASE Finish
    BY <2>12, FinishVision
  <2>13. CASE UNCHANGED vars
    BY <2>13, StutterVision DEF vars, vision
  <2> QED
    BY <2>1, <2>2, <2>3, <2>4, <2>5, <2>6, <2>7, <2>8, <2>9, <2>10, <2>11, <2>12, <2>13
       DEF Next
<1> QED
  BY <1>1, <1>2, Invariance, PTL DEF Spec

\* Vision framing is transparent (VisionTransparent): what the reader has yet to get
\* would bring it in step with the writer and return what is missing of the content, at
\* every cut, for any chunks and any padding.
THEOREM VisionArrives == Spec => []VisionTransparent
<1>1. VisionInv => VisionTransparent
  <2> SUFFICES ASSUME VisionInv, mode = "vision", first = 0 \/ first >= FullHeader
               PROVE  Heard
    BY DEF VisionTransparent
  <2>1. given \in Seq(Nat)
    BY DEF VisionInv
  <2>2. ASSUME delivered = << >> PROVE IsPrefix(delivered, given)
    <3>1. IsPrefix(<< >>, given)
      BY <2>1 DEF IsPrefix
    <3> QED
      BY <2>2, <3>1, Zenon
  <2>3. CASE VisionReading \/ VisionRefused
    <3>1. delivered = << >>
      BY <2>3, Zenon DEF VisionReading, VisionRefused, Unread
    <3>2. parse.step # "relay"
      <4>1. "relay" \notin VlessSteps /\ "relay" # "error"
        BY DEF VlessSteps
      <4> QED
        BY <2>3, <4>1, Zenon DEF VisionReading, VisionRefused, VlessRead
    <3> QED
      BY <2>2, <3>1, <3>2, Zenon DEF Heard
  <2>4. CASE VisionWaiting
    <3>1. PICK t \in Seq(Nat) : Coming(t, line, over) /\ Fresh(writer, t, given)
      BY <2>4 DEF VisionWaiting
    <3>2. delivered = << >>
      BY <2>4, Zenon DEF VisionWaiting, Unread
    <3>3. \A y \in Seq(Nat) : Uuid \o y # << >>
      <4> SUFFICES ASSUME NEW y \in Seq(Nat) PROVE Uuid \o y # << >>
        OBVIOUS
      <4>1. Uuid \in Seq(Nat) /\ Uuid # << >>
        BY VisionAssumption
      <4>2. Len(Uuid \o y) = Len(Uuid) + Len(y) /\ Len(Uuid) \in Nat /\ Len(y) \in Nat
        BY <4>1, Parts, Zenon
      <4>3. Len(Uuid) # 0
        BY <4>1
      <4>4. Uuid \o y = << >> => Len(Uuid \o y) = 0
        OBVIOUS
      <4> QED
        BY <4>2, <4>3, <4>4
    <3>4. line = << >> /\ over # "broken" => delivered = given
      BY <3>1, <3>2, <3>3, Zenon DEF Coming, Fresh
    <3> QED
      BY <2>2, <3>2, <3>4, Zenon DEF Heard
  <2>5. CASE VisionUnwrapping
    <3>1. first >= FullHeader
      <4>1. first # 0
        BY <2>5 DEF VisionUnwrapping
      <4> QED
        BY <4>1, Zenon
    <3>2. reader \in Readers /\ delivered \in Seq(Nat)
      BY <2>5, <3>1, Zenon DEF VisionUnwrapping
    <3>3. PICK t \in Seq(Nat) : /\ Coming(t, line, over)
                                /\ Follows(reader, t, writer, delivered, given)
      BY <2>5, <3>1, Zenon DEF VisionUnwrapping
    <3>4. IsPrefix(delivered, given)
      <4> DEFINE h == ReaderBytes(reader, t)
                 o == h.out
      <4>1. o \in Seq(Nat)
        <5>1. h \in Outputs
          BY <3>2, BytesType, Zenon
        <5> HIDE DEF h
        <5> QED
          BY <5>1 DEF Outputs
      <4>2. delivered \o o = given
        BY <3>3, Zenon DEF Follows
      <4> HIDE DEF o
      <4>3. IsPrefix(delivered, delivered \o o)
        BY <3>2, <4>1 DEF IsPrefix
      <4> QED
        BY <4>2, <4>3, Zenon
    <3>5. line = << >> /\ over # "broken" => delivered = given
      <4> SUFFICES ASSUME line = << >>, over # "broken" PROVE delivered = given
        OBVIOUS
      <4>1. t = << >>
        BY <3>3, Zenon DEF Coming
      <4>2. Follows(reader, << >>, writer, delivered, given)
        BY <3>3, <4>1, Zenon
      <4> QED
        BY <3>2, <4>2, NothingToCome, Zenon
    <3> QED
      BY <3>4, <3>5, Zenon DEF Heard
  <2> QED
    BY <2>3, <2>4, <2>5, Zenon DEF VisionInv
<1> QED
  BY <1>1, VisionInvariance, PTL
=============================================================================
