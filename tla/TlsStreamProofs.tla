--------------------------- MODULE TlsStreamProofs ---------------------------
(***************************************************************************)
(* Theorems about TlsStream, for all sizes of buffers, flights and writes,  *)
(* and all numbers of records.                                              *)
(***************************************************************************)
EXTENDS TlsStream, SequenceTheorems, FiniteSets, FiniteSetTheorems,
        WellFoundedInduction, TLAPS

CallsOf(c) == IF c = "in" THEN {"handshake", "shaken", "read"} ELSE {"write", "shutdown"}

\* Where a coroutine is in its call, and what it then awaits.
CoroControl(c) ==
  /\ waits[c] = "none" <=> op[c] = "none"
  /\ waits[c] = "none" <=> call[c] \in {"none", "ended"}
  /\ waits[c] # "none" => call[c] \in CallsOf(c)
  /\ waits[c] = "fill" => call[c] \in {"handshake", "read"}
  /\ waits[c] = "fin" => call[c] = "shutdown"
  /\ waits[c] # "flush" => chunk[c] = << >>
  /\ waits[c] = "flush" /\ op[c] = "complete" /\ res[c] <= 0 => dead \/ fin

Control ==
  /\ \A c \in Coros : CoroControl(c)
  /\ fin => waits["out"] = "fin" \/ call["out"] = "ended"

\* How far the handshake is, and what it has produced.
Progress ==
  /\ flights <= Owed
  /\ call["in"] \in {"shaken", "read"} => flights = Owed
  /\ call["in"] = "none" => flights = Owed \/ (flights = 0 /\ made = 0)
  /\ call["in"] = "handshake" => flights < Owed /\ made = Produced(flights)
  /\ call["out"] # "none" => Shaken

\* The records of the peer that SSL_read() has not returned.
Pending == rbio \o fed \o net
Count(s, k) == Cardinality({i \in 1 .. Len(s) : s[i] = k})

\* fed holds what a read has brought until the reader goes on.
Buffers ==
  /\ fed # << >> => waits["in"] = "fill" /\ op["in"] = "complete" /\ res["in"] > 0
  /\ call["in"] = "read" => rbio = << >>

\* Every record the peer has sent is processed, returned or pending, and nothing
\* follows its close_notify.
Received ==
  /\ flights + Count(Pending, "flight") = spoken["flight"]
  /\ spoken["flight"] <= Owed
  /\ delivered + Count(Pending, "data") = spoken["data"]
  /\ \A i \in 1 .. Len(Pending) :
       /\ Pending[i] = "update" => spoken["update"] > 0
       /\ Pending[i] = "notify" => spoken["notify"] > 0 /\ i = Len(Pending)

\* What is known at the end of the stream.
AtEnd ==
  /\ waits["in"] = "fill" /\ op["in"] = "complete" /\ res["in"] <= 0
       => dead \/ (eof /\ net = << >>)
  /\ verdict = "eof" /\ ~dead
       => delivered = spoken["data"] /\ (eof \/ spoken["notify"] > 0)

\* Every unit is somewhere.
Occurs(u, s) == \E i \in 1 .. Len(s) : s[i] = u
Kept ==
  ~dead /\ ~fin =>
    /\ Len(sent) + Len(chunk["in"]) + Len(chunk["out"]) + Len(wbio) = made
    /\ \A u \in 1 .. made :
         \/ Occurs(u, sent) \/ Occurs(u, chunk["in"])
         \/ Occurs(u, chunk["out"]) \/ Occurs(u, wbio)

\* Where one coroutine flushes at a time, the units are in order from the first
\* one sent to the last one in wbio.
Alone == session = "tcp" /\ spoken["update"] = 0
Numbered(s) == \A i \in 1 .. Len(s) : s[i] = i
Places == sent \o chunk["in"] \o chunk["out"] \o wbio
Ordered ==
  /\ Alone => Numbered(sent)
  /\ Alone /\ ~dead =>
       /\ Numbered(Places) /\ Len(Places) = made
       /\ Shaken => chunk["in"] = << >> /\ wbio = << >>
       /\ reported <= Len(sent)
       /\ call["out"] = "write" => wrote = made

IInv == TypeOK /\ Control /\ Progress /\ Buffers /\ Received /\ AtEnd /\ Kept /\ Ordered
-----------------------------------------------------------------------------
(* Sequences.                                                               *)

\* A set of natural numbers has a least element.
LEMMA LeastNat ==
  ASSUME NEW M \in SUBSET Nat, M # {}
  PROVE  \E m \in M : \A n \in M : m <= n
<1> DEFINE T == {1 .. m : m \in M}
<1> DEFINE R == StrictSubsetOrdering(Nat)
<1>1. IsWellFoundedOn(R, FiniteSubsetsOf(Nat))
  BY FS_StrictSubsetOrderingWellFounded
<1>2. T \subseteq FiniteSubsetsOf(Nat) /\ T # {}
  <2>1. ASSUME NEW m \in M PROVE 1 .. m \in FiniteSubsetsOf(Nat)
    <3>1. m \in Int /\ 1 \in Int /\ 1 .. m \in SUBSET Nat
      OBVIOUS
    <3>2. IsFiniteSet(1 .. m)
      BY <3>1, FS_Interval
    <3> QED
      BY <3>1, <3>2 DEF FiniteSubsetsOf
  <2> QED
    BY <2>1
<1>4. \E x \in T : \A y \in T : ~ (<<y, x>> \in R)
  <2> HIDE DEF T, R
  <2> QED
    BY <1>1, <1>2, WFMin
<1>3. \A x, y \in Nat : y < x => <<1 .. y, 1 .. x>> \in R
  <2> TAKE x \in Nat, y \in Nat
  <2> HAVE y < x
  <2>1. 1 .. y \subseteq 1 .. x /\ x \in 1 .. x /\ x \notin 1 .. y
    OBVIOUS
  <2>2. 1 .. y \in SUBSET Nat /\ 1 .. x \in SUBSET Nat
    OBVIOUS
  <2> QED
    BY <2>1, <2>2, Zenon DEF StrictSubsetOrdering
<1>5. PICK m \in M : \A n \in M : ~ (<<1 .. n, 1 .. m>> \in R)
  BY <1>4
<1>6. \A n \in M : ~(n < m)
  <2> HIDE DEF R
  <2> QED
    BY <1>3, <1>5
<1> QED
  BY <1>6

\* The number of records of a kind.
LEMMA CountFinite ==
  ASSUME NEW S, NEW s \in Seq(S), NEW k
  PROVE  IsFiniteSet({i \in 1 .. Len(s) : s[i] = k})
<1> DEFINE P == {i \in 1 .. Len(s) : s[i] = k}
<1>1. IsFiniteSet(1 .. Len(s)) /\ P \subseteq 1 .. Len(s)
  BY FS_Interval, LenProperties
<1> QED
  BY <1>1, FS_Subset

\* It is a number, and 0 where there is none.
LEMMA CountType ==
  ASSUME NEW S, NEW s \in Seq(S), NEW k
  PROVE  /\ Count(s, k) \in Nat
         /\ Count(s, k) = 0 <=> \A i \in 1 .. Len(s) : s[i] # k
<1> DEFINE P == {i \in 1 .. Len(s) : s[i] = k}
<1>2. IsFiniteSet(P)
  BY CountFinite
<1>3. Cardinality(P) \in Nat /\ (Cardinality(P) = 0 <=> P = {})
  BY <1>2, FS_CardinalityType, FS_EmptySet
<1> QED
  BY <1>2, <1>3 DEF Count

\* Counting goes by parts.
LEMMA CountConcat ==
  ASSUME NEW S, NEW s \in Seq(S), NEW t \in Seq(S), NEW k
  PROVE  Count(s \o t, k) = Count(s, k) + Count(t, k)
<1> DEFINE P == {i \in 1 .. Len(s) : s[i] = k}
           Q == {i \in 1 .. Len(t) : t[i] = k}
           R == {i \in 1 .. Len(s \o t) : (s \o t)[i] = k}
           Q2 == {i \in R : i > Len(s)}
           f == [i \in Q |-> Len(s) + i]
<1>1. Len(s) \in Nat /\ Len(t) \in Nat /\ Len(s \o t) = Len(s) + Len(t)
  BY LenProperties, ConcatProperties
<1>2. \A i \in 1 .. Len(s) + Len(t) : (s \o t)[i] = IF i <= Len(s) THEN s[i] ELSE t[i - Len(s)]
  BY ConcatProperties
<1>3. R = P \cup Q2 /\ P \cap Q2 = {}
  BY <1>1, <1>2
<1>4. f \in Bijection(Q, Q2)
  <2>1. \A i \in Q : f[i] \in Q2
    BY <1>1, <1>2
  <2>2. \A j \in Q2 : j - Len(s) \in Q /\ f[j - Len(s)] = j
    BY <1>1, <1>2
  <2>3. \A i, j \in Q : f[i] = f[j] => i = j
    BY <1>1
  <2> HIDE DEF Q, Q2
  <2>5. f \in [Q -> Q2]
    BY <2>1
  <2>4. \A j \in Q2 : \E i \in Q : f[i] = j
    BY <2>2
  <2> HIDE DEF f
  <2> QED
    BY <2>5, <2>3, <2>4 DEF Bijection, Injection, Surjection, IsInjective
<1>5. IsFiniteSet(P) /\ IsFiniteSet(Q)
  BY CountFinite
<1>6. IsFiniteSet(Q2) /\ Cardinality(Q2) = Cardinality(Q)
  <2> HIDE DEF Q, Q2, f
  <2> QED
    BY <1>4, <1>5, FS_Bijection DEF ExistsBijection
<1>7. Cardinality(P) \in Nat /\ Cardinality(Q) \in Nat /\ Cardinality(R) = Cardinality(P) + Cardinality(Q2)
  <2> HIDE DEF P, Q, Q2, R
  <2>1. Cardinality(R) = Cardinality(P) + Cardinality(Q2) - Cardinality({})
    BY <1>3, <1>5, <1>6, FS_Union
  <2>2. Cardinality({}) = 0
    BY FS_EmptySet
  <2>3. Cardinality(P) \in Nat /\ Cardinality(Q) \in Nat
    BY <1>5, FS_CardinalityType
  <2> QED
    BY <1>6, <2>1, <2>2, <2>3
<1> QED
  BY <1>6, <1>7 DEF Count

\* Where all records are of the kind, it counts all.
LEMMA CountUniform ==
  ASSUME NEW S, NEW s \in Seq(S), NEW k, \A i \in 1 .. Len(s) : s[i] = k
  PROVE  Count(s, k) = Len(s)
<1>1. {i \in 1 .. Len(s) : s[i] = k} = 1 .. Len(s) /\ Len(s) \in Nat
  BY LenProperties
<1>2. \A n \in Nat : Cardinality(1 .. n) = n
  <2> TAKE n \in Nat
  <2>1. 1 \in Int /\ n \in Int
    OBVIOUS
  <2>2. Cardinality(1 .. n) = IF 1 > n THEN 0 ELSE n - 1 + 1
    BY <2>1, FS_Interval
  <2> QED
    BY <2>2
<1> QED
  BY <1>1, <1>2 DEF Count
\* How many records of kind k stand at the head of s: exactly so many.
LEMMA LeadingIs ==
  ASSUME NEW s \in Seq(Records), NEW k
  PROVE  LET n == Leading(s, k) IN
         /\ n \in 0 .. Len(s)
         /\ \A i \in 1 .. n : s[i] = k
         /\ n < Len(s) => s[n + 1] # k
<1> DEFINE M == {n \in 0 .. Len(s) : n < Len(s) => s[n + 1] # k}
<1>1. Len(s) \in M /\ M \subseteq Nat
  BY LenProperties
<1>2. PICK m \in M : \A n \in M : m <= n
  BY <1>1, LeastNat
<1>3. \A i \in 1 .. m : s[i] = k
  <2> SUFFICES ASSUME NEW i \in 1 .. m, s[i] # k PROVE FALSE
    OBVIOUS
  <2>1. i - 1 \in M /\ i - 1 < m
    OBVIOUS
  <2> QED
    BY <1>2, <2>1
<1> QED
  BY <1>2, <1>3 DEF Leading
\* Taking from a sequence and dropping from it.
LEMMA TakeDrop ==
  ASSUME NEW S, NEW s \in Seq(S), NEW n \in 0 .. Len(s)
  PROVE  /\ Take(s, n) \in Seq(S) /\ Len(Take(s, n)) = n
         /\ Drop(s, n) \in Seq(S) /\ Len(Drop(s, n)) = Len(s) - n
         /\ Take(s, n) \o Drop(s, n) = s
         /\ \A i \in 1 .. n : Take(s, n)[i] = s[i]
         /\ \A i \in 1 .. Len(s) - n : Drop(s, n)[i] = s[n + i]
<1>0. Len(s) \in Nat /\ \A i \in 1 .. Len(s) : s[i] \in S
  BY LenProperties, ElementOfSeq
<1>1. /\ Take(s, n) \in Seq(S) /\ Len(Take(s, n)) = n
      /\ \A i \in 1 .. n : Take(s, n)[i] = s[i]
  <2>1. \A i \in 1 .. n : s[i] \in S
    BY <1>0
  <2> QED
    BY <1>0, <2>1, SubSeqProperties DEF Take
<1>2. /\ Drop(s, n) \in Seq(S) /\ Len(Drop(s, n)) = Len(s) - n
      /\ \A i \in 1 .. Len(s) - n : Drop(s, n)[i] = s[n + i]
  <2>1. \A i \in n + 1 .. Len(s) : s[i] \in S
    BY <1>0
  <2>2. /\ Drop(s, n) \in Seq(S)
        /\ Len(Drop(s, n)) = IF n + 1 <= Len(s) THEN Len(s) - (n + 1) + 1 ELSE 0
        /\ \A i \in 1 .. Len(s) - (n + 1) + 1 : Drop(s, n)[i] = s[n + 1 + i - 1]
    BY <1>0, <2>1, SubSeqProperties DEF Drop
  <2>3. \A i \in 1 .. Len(s) - n : n + 1 + i - 1 = n + i /\ i \in 1 .. Len(s) - (n + 1) + 1
    BY <1>0
  <2> QED
    BY <1>0, <2>2, <2>3
<1>3. Take(s, n) \o Drop(s, n) = s
  <2> DEFINE a == Take(s, n)
             b == Drop(s, n)
  <2>1. /\ a \o b \in Seq(S) /\ Len(a \o b) = Len(s)
        /\ \A i \in 1 .. Len(s) : (a \o b)[i] = IF i <= n THEN a[i] ELSE b[i - n]
    <3> HIDE DEF a, b
    <3>1. a \in Seq(S) /\ b \in Seq(S) /\ Len(a) = n /\ Len(b) = Len(s) - n
      BY <1>1, <1>2 DEF a, b
    <3> QED
      BY <1>0, <3>1, ConcatProperties
  <2>2. ASSUME NEW i \in 1 .. Len(s) PROVE (IF i <= n THEN a[i] ELSE b[i - n]) = s[i]
    <3>1. CASE i <= n
      BY <1>1, <3>1
    <3>2. CASE ~(i <= n)
      <4>1. i - n \in 1 .. Len(s) - n /\ n + (i - n) = i
        BY <1>0, <3>2
      <4> QED
        BY <1>2, <3>2, <4>1
    <3> QED
      BY <3>1, <3>2
  <2> HIDE DEF a, b
  <2>3. a \o b = s
    BY <2>1, <2>2, SeqEqual
  <2> QED
    BY <2>3 DEF a, b
<1> QED
  BY <1>1, <1>2, <1>3

\* What is dropped from the head of a buffer is dropped from what follows too.
LEMMA DropOfConcat ==
  ASSUME NEW S, NEW s \in Seq(S), NEW t \in Seq(S), NEW n \in 0 .. Len(s)
  PROVE  Drop(s, n) \o t = Drop(s \o t, n)
<1>1. /\ Drop(s, n) \in Seq(S) /\ Len(Drop(s, n)) = Len(s) - n
      /\ \A i \in 1 .. Len(s) - n : Drop(s, n)[i] = s[n + i]
  BY TakeDrop
<1>2. /\ s \o t \in Seq(S) /\ Len(s \o t) = Len(s) + Len(t)
      /\ Len(s) \in Nat /\ Len(t) \in Nat
      /\ \A i \in 1 .. Len(s) + Len(t) : (s \o t)[i] = IF i <= Len(s) THEN s[i] ELSE t[i - Len(s)]
  BY ConcatProperties, LenProperties
<1> DEFINE c == s \o t
           d == Drop(s, n)
<1> HIDE DEF c, d
<1>3. /\ Drop(c, n) \in Seq(S) /\ Len(Drop(c, n)) = Len(c) - n
      /\ \A i \in 1 .. Len(c) - n : Drop(c, n)[i] = c[n + i]
  <2>1. c \in Seq(S) /\ n \in 0 .. Len(c)
    BY <1>2 DEF c
  <2> QED
    BY <2>1, TakeDrop
<1>4. /\ d \o t \in Seq(S) /\ Len(d \o t) = Len(c) - n
      /\ \A i \in 1 .. Len(c) - n :
           (d \o t)[i] = IF i <= Len(s) - n THEN d[i] ELSE t[i - (Len(s) - n)]
  <2>1. d \in Seq(S) /\ Len(d) = Len(s) - n /\ Len(c) - n = Len(d) + Len(t)
    BY <1>1, <1>2 DEF c, d
  <2> QED
    BY <2>1, ConcatProperties
<1>5. ASSUME NEW i \in 1 .. Len(c) - n PROVE (d \o t)[i] = Drop(c, n)[i]
  <2>1. n + i \in 1 .. Len(s) + Len(t) /\ Len(c) = Len(s) + Len(t)
    BY <1>2 DEF c
  <2>2. Drop(c, n)[i] = IF n + i <= Len(s) THEN s[n + i] ELSE t[n + i - Len(s)]
    BY <1>2, <1>3, <2>1 DEF c
  <2>3. CASE i <= Len(s) - n
    BY <1>1, <1>2, <1>4, <2>2, <2>3 DEF d
  <2>4. CASE ~(i <= Len(s) - n)
    BY <1>2, <1>4, <2>2, <2>4
  <2> QED
    BY <2>3, <2>4
<1>6. d \o t = Drop(c, n)
  BY <1>3, <1>4, <1>5, SeqEqual
<1> QED
  BY <1>6 DEF c, d

\* Dropping more than there is.
LEMMA DropAll ==
  ASSUME NEW S, NEW s \in Seq(S)
  PROVE  Drop(s, Len(s)) = << >> /\ Drop(s, Len(s) + 1) = << >>
BY DEF Drop

\* The units of a production.
LEMMA UnitsType ==
  ASSUME made \in Nat, NEW n \in Nat
  PROVE  /\ Units(n) \in Seq(Nat) /\ Len(Units(n)) = n
         /\ \A i \in 1 .. n : Units(n)[i] = made + i
BY DEF Units

\* An element of a concatenation is one of a part.
LEMMA OccursConcat ==
  ASSUME NEW S, NEW s \in Seq(S), NEW t \in Seq(S), NEW u
  PROVE  Occurs(u, s \o t) <=> Occurs(u, s) \/ Occurs(u, t)
<1>1. ASSUME NEW i \in 1 .. Len(s \o t), (s \o t)[i] = u PROVE Occurs(u, s) \/ Occurs(u, t)
  <2>1. CASE i <= Len(s)
    BY <1>1, <2>1 DEF Occurs
  <2>2. CASE ~(i <= Len(s))
    <3>1. i - Len(s) \in 1 .. Len(t) /\ t[i - Len(s)] = u
      BY <1>1, <2>2
    <3> QED
      BY <3>1 DEF Occurs
  <2> QED
    BY <2>1, <2>2
<1>2. ASSUME NEW i \in 1 .. Len(s), s[i] = u PROVE Occurs(u, s \o t)
  <2>1. i \in 1 .. Len(s \o t) /\ (s \o t)[i] = u
    BY <1>2
  <2> QED
    BY <2>1 DEF Occurs
<1>3. ASSUME NEW i \in 1 .. Len(t), t[i] = u PROVE Occurs(u, s \o t)
  <2>1. Len(s) + i \in 1 .. Len(s \o t) /\ (s \o t)[Len(s) + i] = u
    BY <1>3
  <2> QED
    BY <2>1 DEF Occurs
<1> QED
  BY <1>1, <1>2, <1>3 DEF Occurs

-----------------------------------------------------------------------------
(* Types.                                                                   *)

CallNames == {"none", "handshake", "shaken", "read", "write", "shutdown", "ended"}

CoroTypes ==
  /\ call \in [Coros -> CallNames]
  /\ waits \in [Coros -> {"none", "fill", "flush", "fin"}]
  /\ op \in [Coros -> {"none", "posted", "complete"}]
  /\ res \in [Coros -> Int]

\* The coroutine that is not c stays where it is.
Others(c) ==
  \A o \in Coros : o # c =>
    call'[o] = call[o] /\ waits'[o] = waits[o] /\ op'[o] = op[o] /\ res'[o] = res[o]

\* What awaiting the inner stream does to the coroutines.
LEMMA AwaitEffect ==
  ASSUME TypeOK, NEW c \in Coros, NEW k \in CallNames,
         NEW w \in {"none", "fill", "flush", "fin"}, Await(c, k, w)
  PROVE  /\ CoroTypes' /\ Others(c)
         /\ call'[c] = k /\ waits'[c] = w /\ op'[c] = "posted" /\ res'[c] = 0
BY DEF Await, TypeOK, CoroTypes, CallNames, Others

\* What returning from a call does.
LEMMA ReturnEffect ==
  ASSUME TypeOK, NEW c \in Coros, NEW k \in CallNames, Return(c, k)
  PROVE  /\ CoroTypes' /\ Others(c)
         /\ call'[c] = k /\ waits'[c] = "none" /\ op'[c] = "none"
BY DEF Return, TypeOK, CoroTypes, CallNames, Others

\* Where a coroutine goes once the flush of call k is over.
LEMMA FlushedEffect ==
  ASSUME TypeOK, NEW c \in Coros, NEW k \in CallsOf(c), Flushed(c, k)
  PROVE  /\ CoroTypes' /\ Others(c)
         /\ \/ /\ k \in {"handshake", "read"} /\ call'[c] = k
               /\ waits'[c] = "fill" /\ op'[c] = "posted"
            \/ /\ k \in {"shaken", "write"} /\ call'[c] = "none"
               /\ waits'[c] = "none" /\ op'[c] = "none"
            \/ /\ k = "shutdown" /\ call'[c] = k
               /\ waits'[c] = "fin" /\ op'[c] = "posted"
<1>1. CASE k \in {"handshake", "read"}
  <2>1. Await(c, k, "fill")
    BY <1>1 DEF Flushed
  <2> QED
    BY <1>1, <2>1, AwaitEffect DEF CallNames
<1>2. CASE k \in {"shaken", "write"}
  <2>1. Return(c, "none")
    BY <1>2 DEF Flushed
  <2> QED
    BY <1>2, <2>1, ReturnEffect DEF CallNames
<1>3. CASE k = "shutdown"
  <2>1. Await(c, k, "fin")
    BY <1>3 DEF Flushed
  <2> QED
    BY <1>3, <2>1, AwaitEffect DEF CallNames
<1> QED
  BY <1>1, <1>2, <1>3 DEF CallsOf

\* flushWriteBio() with s in wbio: what it takes and what it leaves make s, and
\* the coroutine waits for the socket, or there was nothing to take.
LEMMA FlushEffect ==
  ASSUME TypeOK, NEW c \in Coros, NEW k \in CallsOf(c), NEW s \in Seq(Nat), Flush(c, k, s)
  PROVE  /\ CoroTypes' /\ Others(c)
         /\ chunk' \in [Coros -> Seq(Nat)] /\ wbio' \in Seq(Nat)
         /\ \A o \in Coros : o # c => chunk'[o] = chunk[o]
         /\ chunk'[c] \o wbio' = s
         /\ Len(s) <= Bite => wbio' = << >>
         /\ \/ /\ s = << >> /\ chunk'[c] = << >> /\ wbio' = << >>
               /\ Flushed(c, k) /\ ReportWrite(k)
            \/ /\ s # << >> /\ reported' = reported
               /\ call'[c] = k /\ waits'[c] = "flush" /\ op'[c] = "posted"
<1> DEFINE n == Least(Bite, Len(s))
<1>0. k \in CallNames /\ chunk \in [Coros -> Seq(Nat)]
  BY DEF CallsOf, CallNames, TypeOK
<1>1. n \in 0 .. Len(s) /\ (Len(s) <= Bite => n = Len(s))
  BY TlsAssumption DEF Least
<1>2. CASE s = << >>
  <2>1. /\ Flushed(c, k) /\ wbio' = << >> /\ ReportWrite(k)
        /\ chunk' = [chunk EXCEPT ![c] = << >>]
    BY <1>2 DEF Flush, FlushBite
  <2>2. CoroTypes' /\ Others(c)
    BY <2>1, FlushedEffect
  <2>3. << >> \in Seq(Nat) /\ << >> \o << >> = s
    BY <1>2
  <2> QED
    BY <1>0, <1>2, <2>1, <2>2, <2>3
<1>3. CASE s # << >>
  <2>1. /\ Await(c, k, "flush") /\ chunk' = [chunk EXCEPT ![c] = Take(s, n)]
        /\ wbio' = Drop(s, n) /\ reported' = reported
    BY <1>3 DEF Flush, FlushBite
  <2>2. /\ CoroTypes' /\ Others(c)
        /\ call'[c] = k /\ waits'[c] = "flush" /\ op'[c] = "posted"
    BY <1>0, <2>1, AwaitEffect
  <2>3. /\ Take(s, n) \in Seq(Nat) /\ Drop(s, n) \in Seq(Nat)
        /\ Take(s, n) \o Drop(s, n) = s
    BY <1>1, TakeDrop
  <2>4. Len(s) <= Bite => Drop(s, n) = << >>
    BY <1>1, DropAll
  <2> HIDE DEF n
  <2> QED
    BY <1>0, <1>3, <2>1, <2>2, <2>3, <2>4
<1> QED
  BY <1>2, <1>3

-----------------------------------------------------------------------------
(* What the calls into OpenSSL do.                                          *)

RecordTypes == rbio \in Seq(Records) /\ fed \in Seq(Records) /\ net \in Seq(Records)
UnitTypes ==
  /\ chunk \in [Coros -> Seq(Nat)]
  /\ wbio \in Seq(Nat) /\ sent \in Seq(Nat) /\ made \in Nat
CountTypes ==
  /\ {flights, delivered, wrote, reported} \subseteq Nat
  /\ verdict \in {"none", "eof", "error"}
  /\ spoken \in [Records -> Nat]
FlagTypes ==
  /\ isServer \in BOOLEAN /\ session \in {"tcp", "udp"}
  /\ {fin, eof, dead} \subseteq BOOLEAN

\* The type invariant in parts.
LEMMA TypeParts ==
  TypeOK <=> CoroTypes /\ RecordTypes /\ UnitTypes /\ CountTypes /\ FlagTypes
BY DEF TypeOK, CoroTypes, RecordTypes, UnitTypes, CountTypes, FlagTypes, CallNames

\* So it holds after a step.
LEMMA TypePartsNext ==
  ASSUME CoroTypes', RecordTypes', UnitTypes', CountTypes', FlagTypes'
  PROVE  TypeOK'
BY DEF TypeOK, CoroTypes, RecordTypes, UnitTypes, CountTypes, FlagTypes, CallNames

\* The records pending are a sequence.
LEMMA PendingType ==
  ASSUME RecordTypes
  PROVE  /\ Pending \in Seq(Records)
         /\ fed = << >> => Pending = rbio \o net
         /\ Len(Pending) = Len(rbio) + Len(fed) + Len(net)
<1>1. rbio \o fed \in Seq(Records) /\ Len(rbio \o fed) = Len(rbio) + Len(fed)
  BY ConcatProperties DEF RecordTypes
<1>2. (rbio \o fed) \o net \in Seq(Records) /\ Len((rbio \o fed) \o net) = Len(rbio \o fed) + Len(net)
  BY <1>1, ConcatProperties DEF RecordTypes
<1>3. fed = << >> => rbio \o fed = rbio
  BY ConcatEmptySeq DEF RecordTypes
<1> QED
  BY <1>1, <1>2, <1>3 DEF Pending

\* What OpenSSL leaves of a buffer it has processed j records of.
LEMMA PendingDrop ==
  ASSUME RecordTypes, NEW rb \in Seq(Records), rb \o net = Pending,
         NEW j \in 0 .. Len(rb), rbio' = Drop(rb, j), fed' = << >>, net' = net
  PROVE  RecordTypes' /\ Pending' = Drop(Pending, j)
<1>1. Drop(rb, j) \in Seq(Records) /\ << >> \in Seq(Records)
  BY TakeDrop
<1>2. Drop(rb, j) \o << >> = Drop(rb, j)
  BY <1>1, ConcatEmptySeq
<1>3. Drop(rb, j) \o net = Drop(rb \o net, j)
  BY DropOfConcat DEF RecordTypes
<1> QED
  BY <1>1, <1>2, <1>3 DEF RecordTypes, Pending

\* What is left to count once j records of kind k have gone.
LEMMA CountDropped ==
  ASSUME NEW s \in Seq(Records), NEW j \in 0 .. Len(s), NEW k,
         \A i \in 1 .. j : s[i] = k
  PROVE  /\ Count(s, k) = j + Count(Drop(s, j), k)
         /\ Count(Drop(s, j), k) \in Nat
         /\ \A l : l = k \/ Count(s, l) = Count(Drop(s, j), l)
<1> DEFINE a == Take(s, j)
           b == Drop(s, j)
<1>1. /\ a \in Seq(Records) /\ b \in Seq(Records) /\ Len(a) = j /\ a \o b = s
      /\ \A i \in 1 .. j : a[i] = s[i]
  BY TakeDrop
<1> HIDE DEF a, b
<1>2. Count(a, k) = j
  BY <1>1, CountUniform
<1>3. \A l : /\ Count(a, l) \in Nat /\ Count(b, l) \in Nat
              /\ Count(s, l) = Count(a, l) + Count(b, l)
  <2> TAKE l
  <2>1. Count(a \o b, l) = Count(a, l) + Count(b, l)
    BY <1>1, CountConcat
  <2>2. Count(a, l) \in Nat /\ Count(b, l) \in Nat
    BY <1>1, CountType
  <2> QED
    BY <1>1, <2>1, <2>2
<1>4. ASSUME NEW l, l # k PROVE Count(s, l) = Count(b, l)
  <2>1. Count(a, l) = 0
    BY <1>1, <1>4, CountType
  <2> QED
    BY <1>3, <2>1
<1> QED
  BY <1>2, <1>3, <1>4 DEF b

\* The other kinds lose nothing.
LEMMA CountOthers ==
  ASSUME NEW s \in Seq(Records), NEW j \in 0 .. Len(s), NEW k \in Records, NEW l \in Records, l # k,
         \A i \in 1 .. j : s[i] = k
  PROVE  Count(s, l) = Count(Drop(s, j), l)
BY CountDropped, SMTT(60)

\* Of nothing there is none.
LEMMA CountNothing ==
  ASSUME NEW s \in Seq(Records), Len(s) = 0, NEW k \in Records
  PROVE  Count(s, k) = 0
<1>1. \A i \in 1 .. Len(s) : s[i] # k
  OBVIOUS
<1> QED
  BY <1>1, CountType

\* Records that arrive follow those that have.
LEMMA RecordsAssoc ==
  ASSUME NEW s \in Seq(Records), NEW t \in Seq(Records), NEW u \in Seq(Records)
  PROVE  (s \o t) \o u = s \o (t \o u)
BY ConcatAssociative

\* Where m units are produced and coroutine c may take some of them.
Produces(c, m) ==
  /\ chunk[c] = << >> /\ made' = made + m /\ sent' = sent
  /\ \A o \in Coros : o # c => chunk'[o] = chunk[o]
  /\ chunk'[c] \o wbio' = wbio \o Units(m)

\* SSL_accept() and SSL_connect() process the flights at the head of rb and
\* produce what is due, and the flush begins.
LEMMA ShakeHandsEffect ==
  ASSUME IInv, NEW rb \in Seq(Records), rb \o net = Pending, chunk["in"] = << >>,
         made <= Produced(flights), UNCHANGED <<fixed, sent, net>>, fed' = << >>,
         ShakeHands(rb)
  PROVE  /\ RecordTypes' /\ UnitTypes' /\ CoroTypes' /\ Others("in")
         /\ flights' \in flights .. Owed /\ made' = Produced(flights')
         /\ Pending' = Drop(Pending, flights' - flights)
         /\ flights' - flights <= Len(Pending)
         /\ \A i \in 1 .. flights' - flights : Pending[i] = "flight"
         /\ \E m \in Nat : Produces("in", m)
         /\ \E k \in {"handshake", "shaken"} :
              /\ k = "shaken" <=> flights' = Owed
              /\ Flush("in", k, wbio \o Units(made' - made))
<1> DEFINE j == Leading(rb, "flight")
<1>t. /\ RecordTypes /\ UnitTypes /\ CountTypes /\ FlagTypes /\ "in" \in Coros
      /\ flights \in Nat /\ made \in Nat
  BY TypeParts DEF IInv, Coros, UnitTypes, CountTypes
<1>1. j \in 0 .. Len(rb) /\ \A i \in 1 .. j : rb[i] = "flight"
  BY LeadingIs
<1>2. /\ flights' = flights + j /\ made' = Produced(flights + j)
      /\ rbio' = Drop(rb, (flights + j) - flights)
      /\ Flush("in", IF flights + j = Owed THEN "shaken" ELSE "handshake",
               wbio \o Units(Produced(flights + j) - made))
  BY DEF ShakeHands
<1> HIDE DEF j
<1>3. (flights + j) - flights = j
  BY <1>t, <1>1
<1>4. RecordTypes' /\ Pending' = Drop(Pending, j)
  BY <1>t, <1>1, <1>2, <1>3, PendingDrop
<1>5. /\ j <= Len(Pending) /\ Len(rb) \in Nat
      /\ \A i \in 1 .. j : Pending[i] = "flight"
  <2>1. /\ Len(rb \o net) = Len(rb) + Len(net) /\ Len(rb) \in Nat /\ Len(net) \in Nat
        /\ \A i \in 1 .. Len(rb) + Len(net) : (rb \o net)[i] = IF i <= Len(rb) THEN rb[i] ELSE net[i - Len(rb)]
    BY <1>t, ConcatProperties, LenProperties DEF RecordTypes
  <2> QED
    BY <1>1, <2>1
<1>6. flights + j <= Owed
  <2>1. Pending \in Seq(Records)
    BY <1>t, PendingType
  <2>2. j \in 0 .. Len(Pending)
    BY <1>1, <1>5, <2>1, LenProperties
  <2>4. /\ Count(Pending, "flight") = j + Count(Drop(Pending, j), "flight")
        /\ Count(Drop(Pending, j), "flight") \in Nat
    BY <1>5, <2>1, <2>2, CountDropped
  <2>5. flights + Count(Pending, "flight") = spoken["flight"] /\ spoken["flight"] <= Owed
    BY DEF IInv, Received
  <2>6. spoken["flight"] \in Nat /\ Owed \in Nat
    BY <1>t DEF CountTypes, Records, Owed
  <2> QED
    BY <1>t, <1>1, <2>4, <2>5, <2>6
<1>7. Produced(flights + j) - made \in Nat /\ Produced(flights + j) \in Nat
  BY <1>t, <1>1, <1>6, TlsAssumption DEF Produced, Owed
<1> DEFINE m == Produced(flights + j) - made
           s == wbio \o Units(m)
<1>8. s \in Seq(Nat)
  BY <1>t, <1>7, UnitsType, ConcatProperties DEF UnitTypes
<1>9. PICK k \in {"handshake", "shaken"} :
        (k = "shaken" <=> flights' = Owed) /\ Flush("in", k, s)
  BY <1>2
<1>10. TypeOK /\ k \in CallsOf("in")
  BY <1>9 DEF IInv, CallsOf
<1> HIDE DEF s, m
<1>11. /\ CoroTypes' /\ Others("in")
       /\ chunk' \in [Coros -> Seq(Nat)] /\ wbio' \in Seq(Nat)
       /\ \A o \in Coros : o # "in" => chunk'[o] = chunk[o]
       /\ chunk'["in"] \o wbio' = s
  BY <1>t, <1>8, <1>9, <1>10, FlushEffect
<1>12. made' = made + m /\ m \in Nat /\ made' - made = m
  BY <1>t, <1>2, <1>7 DEF m
<1>13. UnitTypes'
  BY <1>t, <1>11, <1>12 DEF UnitTypes
<1>14. Produces("in", m)
  BY <1>11, <1>12 DEF Produces, s
<1> QED
  BY <1>t, <1>1, <1>2, <1>3, <1>4, <1>5, <1>6, <1>9, <1>11, <1>12, <1>13, <1>14 DEF s

\* Dropping one more.
LEMMA DropOneMore ==
  ASSUME NEW s \in Seq(Records), NEW j \in 0 .. Len(s), j < Len(s)
  PROVE  /\ Drop(s, j) \in Seq(Records) /\ 1 \in 0 .. Len(Drop(s, j))
         /\ Drop(s, j)[1] = s[j + 1]
         /\ Drop(Drop(s, j), 1) = Drop(s, j + 1)
<1>0. Len(s) \in Nat
  BY LenProperties
<1> DEFINE d == Drop(s, j)
<1>1. /\ d \in Seq(Records) /\ Len(d) = Len(s) - j
      /\ \A i \in 1 .. Len(s) - j : d[i] = s[j + i]
  BY TakeDrop
<1> HIDE DEF d
<1>2. 1 \in 0 .. Len(d) /\ j + 1 \in 0 .. Len(s)
  BY <1>0, <1>1
<1>3. /\ Drop(d, 1) \in Seq(Records) /\ Len(Drop(d, 1)) = Len(d) - 1
      /\ \A i \in 1 .. Len(d) - 1 : Drop(d, 1)[i] = d[1 + i]
  <2>1. d \in Seq(Records) /\ 1 \in 0 .. Len(d)
    BY <1>1, <1>2
  <2> QED
    BY <2>1, TakeDrop
<1>4. /\ Drop(s, j + 1) \in Seq(Records) /\ Len(Drop(s, j + 1)) = Len(s) - (j + 1)
      /\ \A i \in 1 .. Len(s) - (j + 1) : Drop(s, j + 1)[i] = s[j + 1 + i]
  BY <1>2, TakeDrop
<1>5. ASSUME NEW i \in 1 .. Len(d) - 1 PROVE Drop(d, 1)[i] = Drop(s, j + 1)[i]
  <2>1. 1 + i \in 1 .. Len(s) - j /\ i \in 1 .. Len(s) - (j + 1) /\ j + (1 + i) = j + 1 + i
    BY <1>0, <1>1
  <2> QED
    BY <1>1, <1>3, <1>4, <2>1
<1>6. Drop(d, 1) = Drop(s, j + 1)
  <2> DEFINE x == Drop(d, 1)
             y == Drop(s, j + 1)
  <2>1. /\ x \in Seq(Records) /\ y \in Seq(Records) /\ Len(x) = Len(d) - 1
        /\ Len(y) = Len(x)
    <3>1. Len(s) - (j + 1) = Len(d) - 1
      BY <1>0, <1>1
    <3> QED
      BY <1>3, <1>4, <3>1
  <2>2. \A i \in 1 .. Len(x) : x[i] = y[i]
    BY <1>5, <2>1
  <2> HIDE DEF x, y
  <2>3. x = y
    BY <2>1, <2>2, SeqEqual
  <2> QED
    BY <2>3 DEF x, y
<1>7. d[1] = s[j + 1]
  BY <1>0, <1>1
<1> QED
  BY <1>1, <1>2, <1>6, <1>7 DEF d

\* What SSL_read() has made of the records: it has answered updates and wants
\* more, or it has returned data, or it has seen the end of the stream.
WantsMore(k) ==
  /\ rbio' = << >> /\ UNCHANGED <<delivered, verdict>>
  /\ Flush("in", "read", wbio \o Units(k))
  /\ \A l \in Records \ {"update"} : Count(Pending', l) = Count(Pending, l)
Returned ==
  /\ delivered' = delivered + 1 /\ UNCHANGED <<chunk, verdict, reported>>
  /\ call'["in"] = "none" /\ waits'["in"] = "none" /\ op'["in"] = "none"
  /\ Count(Pending, "data") = 1 + Count(Pending', "data")
  /\ \A l \in {"flight", "notify"} : Count(Pending', l) = Count(Pending, l)
Closed ==
  /\ verdict' = "eof" /\ UNCHANGED <<chunk, delivered, reported>>
  /\ call'["in"] = "ended" /\ waits'["in"] = "none" /\ op'["in"] = "none"
  /\ Count(Pending, "data") = 0 /\ spoken["notify"] > 0
  /\ \A l \in {"flight", "data"} : Count(Pending', l) = Count(Pending, l)

\* Once the handshake is over no flight is pending.
LEMMA NoFlightPending ==
  ASSUME IInv, flights = Owed
  PROVE  \A i \in 1 .. Len(Pending) : Pending[i] # "flight"
<1>1. Pending \in Seq(Records) /\ Owed \in Nat /\ spoken["flight"] \in Nat
  BY TypeParts, PendingType DEF IInv, CountTypes, Records, Owed
<1>2. flights + Count(Pending, "flight") = spoken["flight"] /\ spoken["flight"] <= Owed
  BY DEF IInv, Received
<1>3. Count(Pending, "flight") \in Nat
  BY <1>1, CountType
<1>4. Count(Pending, "flight") = 0
  BY <1>1, <1>2, <1>3
<1> QED
  BY <1>1, <1>4, CountType

\* SSL_read() and what follows it.
LEMMA SslReadEffect ==
  ASSUME IInv, NEW rb \in Seq(Records), rb \o net = Pending, chunk["in"] = << >>,
         flights = Owed, UNCHANGED <<fixed, sent, net, flights>>, fed' = << >>,
         SslRead(rb)
  PROVE  /\ RecordTypes' /\ UnitTypes' /\ CoroTypes' /\ Others("in")
         /\ \E j \in 0 .. Len(Pending) : Pending' = Drop(Pending, j)
         /\ \E k \in Nat :
              /\ Produces("in", k)
              /\ spoken["update"] = 0 => k = 0
              /\ WantsMore(k) \/ Returned \/ Closed
<1> DEFINE h == Leading(rb, "update")
           s == wbio \o Units(h)
<1>t. /\ RecordTypes /\ UnitTypes /\ CountTypes /\ FlagTypes /\ "in" \in Coros
      /\ made \in Nat /\ TypeOK
  BY TypeParts DEF IInv, Coros, UnitTypes
<1>1. /\ h \in 0 .. Len(rb) /\ Len(rb) \in Nat
      /\ \A i \in 1 .. h : rb[i] = "update"
      /\ h < Len(rb) => rb[h + 1] # "update"
  BY LeadingIs, LenProperties
<1>2. /\ made' = made + h /\ rbio' = Drop(rb, h + 1)
      /\ h = Len(rb) => Flush("in", "read", s) /\ UNCHANGED <<delivered, verdict>>
      /\ h # Len(rb) =>
           /\ wbio' = s /\ UNCHANGED <<chunk, reported>>
           /\ rb[h + 1] = "data" =>
                delivered' = delivered + 1 /\ Return("in", "none") /\ UNCHANGED verdict
           /\ rb[h + 1] # "data" =>
                verdict' = "eof" /\ Return("in", "ended") /\ UNCHANGED delivered
  BY DEF SslRead, SslReadLeaving
<1> HIDE DEF h, s
<1>3. /\ Len(Pending) = Len(rb) + Len(net) /\ Len(net) \in Nat /\ Pending \in Seq(Records)
      /\ \A i \in 1 .. Len(rb) : Pending[i] = rb[i]
  <2>1. /\ Len(rb \o net) = Len(rb) + Len(net) /\ Len(net) \in Nat
        /\ rb \o net \in Seq(Records)
        /\ \A i \in 1 .. Len(rb) + Len(net) : (rb \o net)[i] = IF i <= Len(rb) THEN rb[i] ELSE net[i - Len(rb)]
    BY <1>t, ConcatProperties, LenProperties DEF RecordTypes
  <2> QED
    BY <1>1, <2>1
<1>4. \A i \in 1 .. h : Pending[i] = "update"
  BY <1>1, <1>3
<1>5. h \in Nat /\ h \in 0 .. Len(Pending)
  BY <1>1, <1>3
<1>6. s \in Seq(Nat)
  BY <1>t, <1>5, UnitsType, ConcatProperties DEF UnitTypes, s
<1>7. spoken["update"] = 0 => h = 0
  <2> SUFFICES ASSUME spoken["update"] = 0, h # 0 PROVE FALSE
    OBVIOUS
  <2>1. 1 \in 1 .. Len(Pending) /\ Pending[1] = "update"
    BY <1>1, <1>3, <1>4, <1>5
  <2> QED
    BY <2>1 DEF IInv, Received
<1>8. \A l \in Records \ {"update"} : Count(Pending, l) = Count(Drop(Pending, h), l)
  <2> SUFFICES ASSUME NEW l \in Records \ {"update"}
               PROVE  Count(Pending, l) = Count(Drop(Pending, h), l)
    OBVIOUS
  <2>1. l # "update" /\ "update" \in Records /\ l \in Records /\ h \in 0 .. Len(Pending) /\ Pending \in Seq(Records)
    BY <1>3, <1>5 DEF Records
  <2> QED
    BY <1>4, <2>1, CountOthers
<1>9. CASE h = Len(rb)
  <2>1. rbio' = Drop(rb, h) /\ rbio' = << >>
    BY <1>2, <1>9, DropAll
  <2>2. RecordTypes' /\ Pending' = Drop(Pending, h)
    BY <1>t, <1>1, <2>1, PendingDrop
  <2>3. Flush("in", "read", s) /\ UNCHANGED <<delivered, verdict>> /\ "read" \in CallsOf("in")
    BY <1>2, <1>9 DEF CallsOf
  <2>4. /\ CoroTypes' /\ Others("in")
        /\ chunk' \in [Coros -> Seq(Nat)] /\ wbio' \in Seq(Nat)
        /\ \A o \in Coros : o # "in" => chunk'[o] = chunk[o]
        /\ chunk'["in"] \o wbio' = s
    BY <1>t, <1>6, <2>3, FlushEffect
  <2>5. UnitTypes' /\ Produces("in", h)
    BY <1>t, <1>2, <1>5, <2>4 DEF UnitTypes, Produces, s
  <2>6. WantsMore(h)
    BY <1>8, <2>1, <2>2, <2>3 DEF WantsMore, s
  <2> QED
    BY <1>5, <1>7, <2>2, <2>4, <2>5, <2>6
<1>10. CASE h # Len(rb)
  <2>1. h < Len(rb) /\ h + 1 \in 0 .. Len(rb) /\ h + 1 \in 1 .. Len(Pending)
    BY <1>1, <1>3, <1>10
  <2>2. RecordTypes' /\ Pending' = Drop(Pending, h + 1)
    BY <1>t, <1>2, <2>1, PendingDrop
  <2>3. /\ Drop(Pending, h) \in Seq(Records) /\ 1 \in 0 .. Len(Drop(Pending, h))
        /\ Drop(Pending, h)[1] = Pending[h + 1]
        /\ Drop(Drop(Pending, h), 1) = Pending'
    <3>1. h < Len(Pending)
      BY <1>3, <1>5, <2>1
    <3> QED
      BY <1>3, <1>5, <2>2, <3>1, DropOneMore
  <2>4. /\ Count(Drop(Pending, h), Pending[h + 1]) = 1 + Count(Pending', Pending[h + 1])
        /\ \A l : l # Pending[h + 1] => Count(Drop(Pending, h), l) = Count(Pending', l)
    <3> DEFINE d == Drop(Pending, h)
    <3>1. \A i \in 1 .. 1 : d[i] = Pending[h + 1]
      BY <2>3
    <3> HIDE DEF d
    <3>2. /\ Count(d, Pending[h + 1]) = 1 + Count(Drop(d, 1), Pending[h + 1])
          /\ \A l : l # Pending[h + 1] => Count(d, l) = Count(Drop(d, 1), l)
      BY <2>3, <3>1, CountDropped DEF d
    <3> QED
      BY <2>3, <3>2 DEF d
  <2>5. /\ UnitTypes' /\ Produces("in", h)
    <3>1. UNCHANGED chunk /\ wbio' = s /\ << >> \o s = s
      BY <1>2, <1>6, <1>10, ConcatEmptySeq
    <3>2. UnitTypes'
      BY <1>t, <1>2, <1>5, <1>6, <3>1 DEF UnitTypes
    <3>3. chunk'["in"] \o wbio' = s
      BY <3>1
    <3> QED
      BY <1>2, <3>1, <3>2, <3>3 DEF Produces, s
  <2>6. Pending[h + 1] = rb[h + 1] /\ Pending[h + 1] \in Records \ {"update"}
    BY <1>1, <1>3, <2>1, ElementOfSeq
  <2>7. CASE rb[h + 1] = "data"
    <3>1. /\ delivered' = delivered + 1 /\ Return("in", "none")
          /\ UNCHANGED <<chunk, verdict, reported>>
      BY <1>2, <1>10, <2>7
    <3>2. /\ CoroTypes' /\ Others("in")
          /\ call'["in"] = "none" /\ waits'["in"] = "none" /\ op'["in"] = "none"
      BY <1>t, <3>1, ReturnEffect DEF CallNames
    <3>3. /\ Count(Pending, "data") = 1 + Count(Pending', "data")
          /\ \A l \in {"flight", "notify"} : Count(Pending', l) = Count(Pending, l)
      BY <1>8, <2>4, <2>6, <2>7 DEF Records
    <3> QED
      BY <1>5, <1>7, <2>1, <2>2, <2>5, <3>1, <3>2, <3>3 DEF Returned
  <2>8. CASE rb[h + 1] # "data"
    <3>1. /\ verdict' = "eof" /\ Return("in", "ended")
          /\ UNCHANGED <<chunk, delivered, reported>>
      BY <1>2, <1>10, <2>8
    <3>2. /\ CoroTypes' /\ Others("in")
          /\ call'["in"] = "ended" /\ waits'["in"] = "none" /\ op'["in"] = "none"
      BY <1>t, <3>1, ReturnEffect DEF CallNames
    <3>3. Pending[h + 1] = "notify"
      BY <2>1, <2>6, <2>8, NoFlightPending DEF Records
    <3>4. spoken["notify"] > 0 /\ h + 1 = Len(Pending)
      BY <2>1, <3>3 DEF IInv, Received
    <3>5. Pending' = << >>
      BY <1>3, <2>2, <3>4, DropAll
    <3>6. \A l \in {"flight", "data"} : Count(Pending', l) = 0 /\ Count(Pending, l) = 0
      <4>1. \A l : Count(<< >>, l) = 0
        <5> TAKE l
        <5>1. << >> \in Seq(Records) /\ \A i \in 1 .. Len(<< >>) : << >>[i] # l
          OBVIOUS
        <5> DEFINE e == << >>
        <5>2. e \in Seq(Records) /\ \A i \in 1 .. Len(e) : e[i] # l
          BY <5>1
        <5> HIDE DEF e
        <5>3. Count(e, l) = 0
          BY <5>2, CountType
        <5> QED
          BY <5>3 DEF e
      <4>2. \A l : Count(Pending', l) = 0
        BY <3>5, <4>1
      <4> QED
        BY <1>8, <2>4, <3>3, <4>2 DEF Records
    <3> QED
      BY <1>5, <1>7, <2>1, <2>2, <2>5, <3>1, <3>2, <3>4, <3>6 DEF Closed
  <2> QED
    BY <2>7, <2>8
<1> QED
  BY <1>9, <1>10

-----------------------------------------------------------------------------
(* Control.                                                                 *)

\* A step of one coroutine leaves the control of the other.
LEMMA ControlStep ==
  ASSUME Control, NEW c \in Coros, Others(c), \A o \in Coros : o # c => chunk'[o] = chunk[o],
         dead => dead', fin => fin', CoroControl(c)',
         fin' => waits'["out"] = "fin" \/ call'["out"] = "ended"
  PROVE  Control'
<1>1. ASSUME NEW o \in Coros, o # c PROVE CoroControl(o)'
  <2>1. CoroControl(o)
    BY DEF Control
  <2>2. /\ call'[o] = call[o] /\ waits'[o] = waits[o] /\ op'[o] = op[o] /\ res'[o] = res[o]
        /\ chunk'[o] = chunk[o]
    BY <1>1 DEF Others
  <2> QED
    BY <2>1, <2>2 DEF CoroControl
<1> QED
  BY <1>1 DEF Control

\* Where the flush of call k leaves the coroutine.
LEMMA FlushOutcome ==
  ASSUME TypeOK, Control, NEW c \in Coros, NEW k \in CallsOf(c), NEW s \in Seq(Nat),
         Flush(c, k, s), UNCHANGED <<fin, dead>>, c = "out" => ~fin
  PROVE  /\ Control' /\ op'[c] # "complete"
         /\ \/ call'[c] = k
            \/ k \in {"shaken", "write"} /\ call'[c] = "none" /\ s = << >>
         /\ reported' = IF s = << >> /\ k = "write" THEN wrote ELSE reported
         /\ s = << >> => chunk'[c] = << >> /\ wbio' = << >>
<1>1. /\ Others(c) /\ \A o \in Coros : o # c => chunk'[o] = chunk[o]
      /\ \/ /\ s = << >> /\ chunk'[c] = << >> /\ wbio' = << >>
            /\ Flushed(c, k) /\ ReportWrite(k)
         \/ /\ s # << >> /\ reported' = reported
            /\ call'[c] = k /\ waits'[c] = "flush" /\ op'[c] = "posted"
  BY FlushEffect
<1>2. k \notin {"none", "ended"} /\ (k = "shutdown" => c = "out") /\ c \in {"in", "out"}
  BY DEF CallsOf, Coros
<1>3. c = "in" /\ fin' => waits'["out"] = "fin" \/ call'["out"] = "ended"
  BY <1>1 DEF Control, Others, Coros
<1>4. CASE s = << >>
  <2>1. /\ chunk'[c] = << >> /\ wbio' = << >> /\ ReportWrite(k)
        /\ \/ /\ k \in {"handshake", "read"} /\ call'[c] = k
              /\ waits'[c] = "fill" /\ op'[c] = "posted"
           \/ /\ k \in {"shaken", "write"} /\ call'[c] = "none"
              /\ waits'[c] = "none" /\ op'[c] = "none"
           \/ /\ k = "shutdown" /\ call'[c] = k
              /\ waits'[c] = "fin" /\ op'[c] = "posted"
    BY <1>1, <1>4, FlushedEffect
  <2>2. CoroControl(c)'
    BY <1>2, <2>1 DEF CoroControl
  <2>3. fin' => waits'["out"] = "fin" \/ call'["out"] = "ended"
    BY <1>2, <1>3
  <2>4. Control'
    BY <1>1, <2>2, <2>3, ControlStep
  <2> QED
    BY <1>4, <2>1, <2>4 DEF ReportWrite
<1>5. CASE s # << >>
  <2>2. CoroControl(c)'
    BY <1>1, <1>2, <1>5 DEF CoroControl
  <2>3. fin' => waits'["out"] = "fin" \/ call'["out"] = "ended"
    BY <1>2, <1>3
  <2>4. Control'
    BY <1>1, <2>2, <2>3, ControlStep
  <2> QED
    BY <1>1, <1>5, <2>4
<1> QED
  BY <1>4, <1>5

\* Before the handshake is over the writing coroutine has nothing to do.
LEMMA OutIdle ==
  ASSUME IInv, ~Shaken
  PROVE  call["out"] = "none" /\ chunk["out"] = << >> /\ ~fin
<1>1. call["out"] = "none" /\ CoroControl("out")
  BY DEF IInv, Progress, Control, Coros
<1>2. waits["out"] = "none"
  BY <1>1 DEF CoroControl
<1> QED
  BY <1>1, <1>2 DEF IInv, Control, CoroControl

-----------------------------------------------------------------------------
(* What the reading coroutine has to know.                                  *)

\* Nothing of what the reader looks at has changed.
ReaderSame ==
  UNCHANGED <<rbio, fed, net, flights, delivered, spoken, eof, isServer, verdict>>

\* The records are then accounted for as before.
LEMMA ReceivedSame ==
  ASSUME Received, UNCHANGED <<rbio, fed, net, flights, delivered, spoken, isServer>>
  PROVE  Received'
BY DEF Received, Pending, Count, Owed

\* A step of the writing coroutine leaves what the reader relies on.
LEMMA ReaderKeeps ==
  ASSUME IInv, ReaderSame, dead => dead', Others("out")
  PROVE  Buffers' /\ Received' /\ AtEnd'
<1>1. /\ call'["in"] = call["in"] /\ waits'["in"] = waits["in"]
      /\ op'["in"] = op["in"] /\ res'["in"] = res["in"]
  BY DEF Others, Coros
<1>2. Buffers'
  BY <1>1 DEF IInv, Buffers, ReaderSame
<1>3. Received'
  BY ReceivedSame DEF IInv, ReaderSame
<1>4. AtEnd'
  BY <1>1 DEF IInv, AtEnd, ReaderSame
<1> QED
  BY <1>2, <1>3, <1>4

\* What is known of the records left when some have been processed.
LEMMA PendingShift ==
  ASSUME IInv, NEW j \in 0 .. Len(Pending), Pending' = Drop(Pending, j), spoken' = spoken
  PROVE  \A i \in 1 .. Len(Pending') :
           /\ Pending'[i] = "update" => spoken'["update"] > 0
           /\ Pending'[i] = "notify" => spoken'["notify"] > 0 /\ i = Len(Pending')
<1>1. Pending \in Seq(Records)
  BY TypeParts, PendingType DEF IInv
<1>2. /\ Len(Pending') = Len(Pending) - j /\ Len(Pending) \in Nat
      /\ \A i \in 1 .. Len(Pending) - j : Pending'[i] = Pending[j + i]
  BY <1>1, TakeDrop, LenProperties
<1> SUFFICES ASSUME NEW i \in 1 .. Len(Pending')
             PROVE  /\ Pending'[i] = "update" => spoken'["update"] > 0
                    /\ Pending'[i] = "notify" => spoken'["notify"] > 0 /\ i = Len(Pending')
  OBVIOUS
<1>3. j + i \in 1 .. Len(Pending) /\ Pending'[i] = Pending[j + i]
  BY <1>2
<1>4. /\ Pending[j + i] = "update" => spoken["update"] > 0
      /\ Pending[j + i] = "notify" => spoken["notify"] > 0 /\ j + i = Len(Pending)
  BY <1>3 DEF IInv, Received
<1> QED
  BY <1>2, <1>3, <1>4

-----------------------------------------------------------------------------
(* Where the units are.                                                     *)

\* All places together are a sequence, as long as its parts.
LEMMA PlacesType ==
  ASSUME UnitTypes
  PROVE  /\ sent \o chunk["in"] \in Seq(Nat) /\ sent \o chunk["in"] \o chunk["out"] \in Seq(Nat)
         /\ Places \in Seq(Nat)
         /\ Len(Places) = Len(sent) + Len(chunk["in"]) + Len(chunk["out"]) + Len(wbio)
BY DEF UnitTypes, Coros, Places

\* Nothing moves.
LEMMA UnitsSame ==
  ASSUME Kept, UNCHANGED <<sent, chunk, wbio, made>>, dead => dead', fin => fin',
         dead \in BOOLEAN, fin \in BOOLEAN
  PROVE  Kept' /\ Places' = Places
BY DEF Kept, Places, Occurs

\* A unit of a production was there or is new.
LEMMA ProducedOccurs ==
  ASSUME UnitTypes, UnitTypes', NEW c \in Coros, NEW m \in Nat, Produces(c, m),
         NEW u \in 1 .. made'
  PROVE  /\ u \in 1 .. made /\ Occurs(u, wbio) => Occurs(u, chunk'[c]) \/ Occurs(u, wbio')
         /\ u \notin 1 .. made => Occurs(u, chunk'[c]) \/ Occurs(u, wbio')
<1>1. /\ chunk'[c] \in Seq(Nat) /\ wbio \in Seq(Nat) /\ wbio' \in Seq(Nat) /\ made \in Nat
      /\ Units(m) \in Seq(Nat) /\ Len(Units(m)) = m /\ made' = made + m
      /\ \A i \in 1 .. m : Units(m)[i] = made + i
  BY UnitsType DEF UnitTypes, Produces
<1> DEFINE n == Units(m)
<1> HIDE DEF n
<1>2. Occurs(u, chunk'[c] \o wbio') <=> Occurs(u, chunk'[c]) \/ Occurs(u, wbio')
  BY <1>1, OccursConcat
<1>3. Occurs(u, wbio \o n) <=> Occurs(u, wbio) \/ Occurs(u, n)
  <2>1. n \in Seq(Nat)
    BY <1>1 DEF n
  <2> QED
    BY <1>1, <2>1, OccursConcat
<1>4. chunk'[c] \o wbio' = wbio \o n
  BY DEF Produces, n
<1>5. u \notin 1 .. made => Occurs(u, n)
  <2> SUFFICES ASSUME u \notin 1 .. made PROVE Occurs(u, n)
    OBVIOUS
  <2>1. u - made \in 1 .. m /\ made + (u - made) = u
    BY <1>1
  <2>2. Units(m)[u - made] = u /\ u - made \in 1 .. Len(Units(m))
    BY <1>1, <2>1
  <2> QED
    BY <2>2 DEF Occurs, n
<1> QED
  BY <1>2, <1>3, <1>4, <1>5

\* Units are produced: none is lost.
LEMMA KeptProduces ==
  ASSUME Kept, UnitTypes, UnitTypes', NEW c \in Coros, NEW m \in Nat, Produces(c, m),
         UNCHANGED <<dead, fin>>
  PROVE  Kept'
<1> SUFFICES ASSUME ~dead, ~fin
             PROVE  /\ Len(sent') + Len(chunk'["in"]) + Len(chunk'["out"]) + Len(wbio') = made'
                    /\ \A u \in 1 .. made' :
                         \/ Occurs(u, sent') \/ Occurs(u, chunk'["in"])
                         \/ Occurs(u, chunk'["out"]) \/ Occurs(u, wbio')
  BY DEF Kept, Occurs
<1>1. /\ chunk[c] = << >> /\ made' = made + m /\ sent' = sent
      /\ \A o \in Coros : o # c => chunk'[o] = chunk[o]
      /\ chunk'[c] \o wbio' = wbio \o Units(m) /\ c \in {"in", "out"}
      /\ "in" \in Coros /\ "out" \in Coros
  BY DEF Produces, Coros
<1>2. /\ Len(sent) \in Nat /\ Len(wbio) \in Nat /\ Len(wbio') \in Nat /\ made \in Nat
      /\ Len(chunk["in"]) \in Nat /\ Len(chunk["out"]) \in Nat
      /\ Len(chunk'["in"]) \in Nat /\ Len(chunk'["out"]) \in Nat
  BY LenProperties DEF UnitTypes, Coros
<1>3. Len(chunk'[c]) + Len(wbio') = Len(wbio) + m
  <2>1. Len(chunk'[c] \o wbio') = Len(chunk'[c]) + Len(wbio')
    BY ConcatProperties DEF UnitTypes
  <2>2. Len(wbio \o Units(m)) = Len(wbio) + m
    <3>1. Units(m) \in Seq(Nat) /\ Len(Units(m)) = m
      BY UnitsType DEF UnitTypes
    <3> QED
      BY <3>1, ConcatProperties DEF UnitTypes
  <2> QED
    BY <1>1, <2>1, <2>2
<1>4. Len(chunk[c]) = 0
  BY <1>1
<1>5. Len(sent) + Len(chunk["in"]) + Len(chunk["out"]) + Len(wbio) = made
  BY DEF Kept
<1>a. Len(sent') = Len(sent) /\ made' = made + m
  BY <1>1
<1>6. Len(sent') + Len(chunk'["in"]) + Len(chunk'["out"]) + Len(wbio') = made'
  <2> DEFINE a == Len(sent)
             i == Len(chunk["in"])
             o == Len(chunk["out"])
             w == Len(wbio)
             i2 == Len(chunk'["in"])
             o2 == Len(chunk'["out"])
             w2 == Len(wbio')
  <2>1. /\ a \in Nat /\ i \in Nat /\ o \in Nat /\ w \in Nat
        /\ i2 \in Nat /\ o2 \in Nat /\ w2 \in Nat
    BY <1>2
  <2>2. a + i + o + w = made /\ Len(sent') = a
    BY <1>5, <1>a
  <2>3. (i = 0 /\ o2 = o /\ i2 + w2 = w + m) \/ (o = 0 /\ i2 = i /\ o2 + w2 = w + m)
    BY <1>1, <1>3, <1>4
  <2> HIDE DEF a, i, o, w, i2, o2, w2
  <2>4. a + i2 + o2 + w2 = made + m
    BY <2>1, <2>2, <2>3
  <2> QED
    BY <1>a, <2>2, <2>4 DEF a, i2, o2, w2
<1>7. ASSUME NEW u \in 1 .. made'
      PROVE  \/ Occurs(u, sent') \/ Occurs(u, chunk'["in"])
             \/ Occurs(u, chunk'["out"]) \/ Occurs(u, wbio')
  <2>1. /\ u \in 1 .. made /\ Occurs(u, wbio) => Occurs(u, chunk'[c]) \/ Occurs(u, wbio')
        /\ u \notin 1 .. made => Occurs(u, chunk'[c]) \/ Occurs(u, wbio')
    BY <1>7, ProducedOccurs
  <2>2. u \in 1 .. made => \/ Occurs(u, sent) \/ Occurs(u, chunk["in"])
                           \/ Occurs(u, chunk["out"]) \/ Occurs(u, wbio)
    BY DEF Kept
  <2>3. ~Occurs(u, chunk[c])
    BY <1>4 DEF Occurs
  <2>4. \A o \in Coros : o # c => (Occurs(u, chunk[o]) => Occurs(u, chunk'[o]))
    BY <1>1
  <2> QED
    BY <1>1, <2>1, <2>2, <2>3, <2>4
<1> QED
  BY <1>6, <1>7

\* Concatenating sequences of units.
LEMMA UnitsConcat ==
  ASSUME NEW s \in Seq(Nat), NEW t \in Seq(Nat)
  PROVE  /\ s \o t \in Seq(Nat) /\ Len(s \o t) = Len(s) + Len(t)
         /\ \A i \in 1 .. Len(s) : (s \o t)[i] = s[i]
         /\ \A i \in 1 .. Len(t) : (s \o t)[Len(s) + i] = t[i]
OBVIOUS

\* It is associative, and the empty sequence adds nothing.
LEMMA UnitsAssoc ==
  ASSUME NEW s \in Seq(Nat), NEW t \in Seq(Nat), NEW u \in Seq(Nat)
  PROVE  (s \o t) \o u = s \o (t \o u) /\ s \o << >> = s
BY ConcatAssociative, ConcatEmptySeq

\* Units are sent: none is lost.
LEMMA KeptSends ==
  ASSUME Kept, UnitTypes, NEW c \in Coros, NEW n \in 0 .. Len(chunk[c]),
         sent' = sent \o Take(chunk[c], n),
         chunk' = [chunk EXCEPT ![c] = Drop(@, n)],
         UNCHANGED <<made, wbio, dead, fin>>
  PROVE  Kept' /\ UnitTypes'
<1> DEFINE x == Take(chunk[c], n)
           y == Drop(chunk[c], n)
<1>1. /\ x \in Seq(Nat) /\ Len(x) = n /\ y \in Seq(Nat) /\ Len(y) = Len(chunk[c]) - n
      /\ x \o y = chunk[c] /\ Len(chunk[c]) \in Nat
  <2>1. chunk[c] \in Seq(Nat)
    BY DEF UnitTypes
  <2> QED
    BY <2>1, TakeDrop, LenProperties
<1>2. sent' = sent \o x /\ chunk' = [chunk EXCEPT ![c] = y]
  OBVIOUS
<1> HIDE DEF x, y
<1>3. /\ chunk'[c] = y /\ \A o \in Coros : o # c => chunk'[o] = chunk[o]
      /\ chunk' \in [Coros -> Seq(Nat)] /\ c \in {"in", "out"}
      /\ "in" \in Coros /\ "out" \in Coros
  BY <1>1, <1>2 DEF UnitTypes, Coros
<1>4. sent' \in Seq(Nat) /\ Len(sent') = Len(sent) + n /\ sent \in Seq(Nat)
  <2>1. sent \in Seq(Nat)
    BY DEF UnitTypes
  <2>2. sent \o x \in Seq(Nat) /\ Len(sent \o x) = Len(sent) + Len(x)
    BY <1>1, <2>1, UnitsConcat
  <2> QED
    BY <1>1, <1>2, <2>1, <2>2
<1>5. UnitTypes'
  BY <1>3, <1>4 DEF UnitTypes
<1> SUFFICES ASSUME ~dead, ~fin
             PROVE  /\ Len(sent') + Len(chunk'["in"]) + Len(chunk'["out"]) + Len(wbio') = made'
                    /\ \A u \in 1 .. made' :
                         \/ Occurs(u, sent') \/ Occurs(u, chunk'["in"])
                         \/ Occurs(u, chunk'["out"]) \/ Occurs(u, wbio')
  BY <1>5 DEF Kept, Occurs
<1>6. /\ Len(sent) \in Nat /\ Len(wbio) \in Nat /\ made \in Nat
      /\ Len(chunk["in"]) \in Nat /\ Len(chunk["out"]) \in Nat
      /\ Len(wbio') = Len(wbio) /\ made' = made
  BY LenProperties DEF UnitTypes, Coros
<1>7. Len(sent) + Len(chunk["in"]) + Len(chunk["out"]) + Len(wbio) = made
  BY DEF Kept
<1>8. Len(sent') + Len(chunk'["in"]) + Len(chunk'["out"]) + Len(wbio') = made'
  <2> DEFINE a == Len(sent)
             i == Len(chunk["in"])
             o == Len(chunk["out"])
             w == Len(wbio)
             i2 == Len(chunk'["in"])
             o2 == Len(chunk'["out"])
  <2>1. a \in Nat /\ i \in Nat /\ o \in Nat /\ w \in Nat
    BY <1>6
  <2>2. a + i + o + w = made /\ Len(sent') = a + n
    BY <1>4, <1>7
  <2>3. (i2 = i - n /\ o2 = o) \/ (o2 = o - n /\ i2 = i)
    BY <1>1, <1>3
  <2> HIDE DEF a, i, o, w, i2, o2
  <2>4. n \in Nat
    BY <1>1
  <2>5. (a + n) + i2 + o2 + w = made
    BY <2>1, <2>2, <2>3, <2>4
  <2> QED
    BY <1>6, <2>2, <2>5 DEF i2, o2, w
<1>9. ASSUME NEW u \in 1 .. made'
      PROVE  \/ Occurs(u, sent') \/ Occurs(u, chunk'["in"])
             \/ Occurs(u, chunk'["out"]) \/ Occurs(u, wbio')
  <2>1. Occurs(u, chunk[c]) <=> Occurs(u, x) \/ Occurs(u, chunk'[c])
    <3>1. Occurs(u, x \o y) <=> Occurs(u, x) \/ Occurs(u, y)
      BY <1>1, OccursConcat
    <3> QED
      BY <1>1, <1>3, <3>1
  <2>2. Occurs(u, sent') <=> Occurs(u, sent) \/ Occurs(u, x)
    <3>1. Occurs(u, sent \o x) <=> Occurs(u, sent) \/ Occurs(u, x)
      BY <1>1, <1>4, OccursConcat
    <3> QED
      BY <1>2, <3>1
  <2>3. \/ Occurs(u, sent) \/ Occurs(u, chunk["in"])
        \/ Occurs(u, chunk["out"]) \/ Occurs(u, wbio)
    <3>1. u \in 1 .. made
      BY <1>6
    <3> QED
      BY <3>1 DEF Kept
  <2>4. \A o \in Coros : o # c => (Occurs(u, chunk[o]) => Occurs(u, chunk'[o]))
    BY <1>3
  <2>5. wbio' = wbio
    OBVIOUS
  <2> QED
    BY <1>3, <2>1, <2>2, <2>3, <2>4, <2>5
<1> QED
  BY <1>8, <1>9

\* Units produced are numbered on from those in their places, where both
\* coroutines have handed on what they took.
LEMMA PlacesProduces ==
  ASSUME UnitTypes, UnitTypes', NEW c \in Coros, NEW m \in Nat, Produces(c, m),
         chunk["in"] = << >>, chunk["out"] = << >>, Numbered(Places), Len(Places) = made
  PROVE  Numbered(Places') /\ Len(Places') = made'
<1> DEFINE n == Units(m)
           q == chunk'[c] \o wbio'
<1>1. /\ made' = made + m /\ sent' = sent /\ q = wbio \o n /\ c \in {"in", "out"}
      /\ \A o \in Coros : o # c => chunk'[o] = chunk[o]
      /\ "in" \in Coros /\ "out" \in Coros
  BY DEF Produces, Coros
<1>2. /\ n \in Seq(Nat) /\ Len(n) = m /\ \A i \in 1 .. m : n[i] = made + i
  BY UnitsType DEF UnitTypes
<1>3. Places = sent \o wbio
  <2>1. sent \o << >> = sent
    BY UnitsAssoc DEF UnitTypes
  <2> QED
    BY <2>1 DEF Places
<1>4. Places' = sent \o q
  <2>1. sent' \o << >> = sent'
    BY UnitsAssoc DEF UnitTypes
  <2>2. CASE c = "in"
    <3>1. Places' = sent' \o chunk'["in"] \o << >> \o wbio'
      BY <1>1, <2>2 DEF Places
    <3>2. (sent' \o chunk'["in"]) \o << >> = sent' \o chunk'["in"]
      <4>1. sent' \o chunk'["in"] \in Seq(Nat)
        BY <1>1, UnitsConcat DEF UnitTypes
      <4> QED
        BY <4>1, UnitsAssoc
    <3>3. (sent' \o chunk'["in"]) \o wbio' = sent' \o (chunk'["in"] \o wbio')
      <4>1. sent' \in Seq(Nat) /\ chunk'["in"] \in Seq(Nat) /\ wbio' \in Seq(Nat)
        BY <1>1 DEF UnitTypes
      <4> QED
        BY <4>1, UnitsAssoc
    <3> QED
      BY <1>1, <2>2, <3>1, <3>2, <3>3
  <2>3. CASE c = "out"
    <3>1. Places' = sent' \o << >> \o chunk'["out"] \o wbio'
      BY <1>1, <2>3 DEF Places
    <3>2. (sent' \o chunk'["out"]) \o wbio' = sent' \o (chunk'["out"] \o wbio')
      <4>1. sent' \in Seq(Nat) /\ chunk'["out"] \in Seq(Nat) /\ wbio' \in Seq(Nat)
        BY <1>1 DEF UnitTypes
      <4> QED
        BY <4>1, UnitsAssoc
    <3> QED
      BY <1>1, <2>1, <2>3, <3>1, <3>2
  <2> QED
    BY <1>1, <2>2, <2>3
<1> HIDE DEF n, q
<1>5. sent \o q = (sent \o wbio) \o n
  <2>1. sent \in Seq(Nat) /\ wbio \in Seq(Nat)
    BY DEF UnitTypes
  <2>2. (sent \o wbio) \o n = sent \o (wbio \o n)
    BY <1>2, <2>1, UnitsAssoc
  <2> QED
    BY <1>1, <2>2
<1> DEFINE p == sent \o wbio
<1>6. p \in Seq(Nat) /\ Len(p) = made /\ \A i \in 1 .. Len(p) : p[i] = i
  <2>1. p \in Seq(Nat)
    BY UnitsConcat DEF UnitTypes
  <2> QED
    BY <1>3, <2>1 DEF Numbered
<1>7. Places' = p \o n
  BY <1>4, <1>5
<1> HIDE DEF p
<1>8. /\ Len(p \o n) = made + m /\ made \in Nat
      /\ \A i \in 1 .. made : (p \o n)[i] = p[i]
      /\ \A i \in 1 .. m : (p \o n)[made + i] = n[i]
  <2>1. /\ Len(p \o n) = Len(p) + Len(n)
        /\ \A i \in 1 .. Len(p) : (p \o n)[i] = p[i]
        /\ \A i \in 1 .. Len(n) : (p \o n)[Len(p) + i] = n[i]
    BY <1>2, <1>6, UnitsConcat
  <2>2. made \in Nat
    BY DEF UnitTypes
  <2> QED
    BY <1>2, <1>6, <2>1, <2>2
<1>9. ASSUME NEW i \in 1 .. made + m PROVE (p \o n)[i] = i
  <2>1. CASE i <= made
    BY <1>6, <1>8, <2>1
  <2>2. CASE ~(i <= made)
    <3>1. i - made \in 1 .. m /\ made + (i - made) = i
      BY <1>8, <2>2
    <3>2. n[i - made] = made + (i - made)
      BY <1>2, <3>1
    <3> QED
      BY <1>8, <2>2, <3>1, <3>2
  <2> QED
    BY <2>1, <2>2
<1> QED
  BY <1>1, <1>7, <1>8, <1>9 DEF Numbered

\* Sending leaves the units in their order, and the socket has the first of them.
LEMMA PlacesSends ==
  ASSUME UnitTypes, UnitTypes', NEW c \in Coros, NEW n \in 0 .. Len(chunk[c]),
         sent' = sent \o Take(chunk[c], n), c = "out" => chunk["in"] = << >>,
         chunk' = [chunk EXCEPT ![c] = Drop(@, n)], wbio' = wbio, Numbered(Places)
  PROVE  Places' = Places /\ Numbered(sent') /\ Len(sent) <= Len(sent')
<1> DEFINE x == Take(chunk[c], n)
           y == Drop(chunk[c], n)
<1>1. /\ x \in Seq(Nat) /\ Len(x) = n /\ y \in Seq(Nat) /\ Len(y) = Len(chunk[c]) - n
      /\ x \o y = chunk[c] /\ Len(chunk[c]) \in Nat
  <2> DEFINE w == chunk[c]
  <2>1. w \in Seq(Nat) /\ n \in 0 .. Len(w)
    BY DEF UnitTypes
  <2> HIDE DEF w
  <2>2. Len(w) \in Nat
    BY <2>1, LenProperties
  <2>3. /\ Take(w, n) \in Seq(Nat) /\ Len(Take(w, n)) = n
        /\ Drop(w, n) \in Seq(Nat) /\ Len(Drop(w, n)) = Len(w) - n
        /\ Take(w, n) \o Drop(w, n) = w
    BY <2>1, TakeDrop
  <2> QED
    BY <2>2, <2>3 DEF w
<1>2. sent' = sent \o x /\ chunk' = [chunk EXCEPT ![c] = y]
  OBVIOUS
<1> HIDE DEF x, y
<1>3. /\ chunk'[c] = y /\ \A o \in Coros : o # c => chunk'[o] = chunk[o]
      /\ c \in {"in", "out"} /\ "in" \in Coros /\ "out" \in Coros
  BY <1>1, <1>2 DEF UnitTypes, Coros
<1>4. sent' \o y = sent \o chunk[c]
  <2>1. sent \in Seq(Nat)
    BY DEF UnitTypes
  <2>2. (sent \o x) \o y = sent \o (x \o y)
    BY <1>1, <2>1, UnitsAssoc
  <2> QED
    BY <1>1, <1>2, <2>2
<1>5. sent' \o chunk'["in"] \o chunk'["out"] = sent \o chunk["in"] \o chunk["out"]
  <2>1. CASE c = "in"
    BY <1>3, <1>4, <2>1
  <2>2. CASE c = "out"
    <3>1. sent \o << >> = sent /\ sent' \o << >> = sent'
      BY UnitsAssoc DEF UnitTypes
    <3>2. chunk'["in"] = << >> /\ chunk["in"] = << >>
      BY <1>3, <2>2
    <3> QED
      BY <1>3, <1>4, <2>2, <3>1, <3>2
  <2> QED
    BY <1>3, <2>1, <2>2
<1>6. Places' = Places
  BY <1>5 DEF Places
<1>7. Len(sent') = Len(sent) + n /\ Len(sent) \in Nat
  BY <1>1, <1>2, UnitsConcat, LenProperties DEF UnitTypes
<1>8. Numbered(sent')
  <2> DEFINE a == sent'
             e == chunk'["in"]
             f == chunk'["out"]
             g == wbio'
  <2>1. a \in Seq(Nat) /\ e \in Seq(Nat) /\ f \in Seq(Nat) /\ g \in Seq(Nat)
    BY <1>3 DEF UnitTypes
  <2>2. Places' = a \o e \o f \o g
    BY DEF Places
  <2>3. ASSUME NEW i \in 1 .. Len(sent') PROVE sent'[i] = i
    <3>1. Places[i] = i /\ i \in 1 .. Len(a)
      <4> HIDE DEF a, e, f, g
      <4>1. i \in 1 .. Len(a)
        BY <2>3 DEF a
      <4>2. i \in 1 .. Len(a \o e \o f \o g)
        BY <2>1, <4>1
      <4> QED
        BY <1>6, <2>2, <4>1, <4>2 DEF Numbered
    <3> HIDE DEF a, e, f, g
    <3>2. i \in 1 .. Len(a \o e) /\ (a \o e)[i] = a[i]
      BY <2>1, <3>1
    <3>3. i \in 1 .. Len((a \o e) \o f) /\ ((a \o e) \o f)[i] = a[i]
      BY <2>1, <3>2
    <3>4. (((a \o e) \o f) \o g)[i] = a[i]
      BY <2>1, <3>3
    <3> QED
      BY <1>6, <2>2, <3>1, <3>4 DEF a
  <2> QED
    BY <2>3 DEF Numbered
<1> QED
  BY <1>6, <1>7, <1>8

-----------------------------------------------------------------------------
(* The steps preserve the invariant.                                        *)

\* Alone, the units stay in order while the handshake goes on.
LEMMA HandshakeOrdered ==
  ASSUME IInv, ~Shaken, UnitTypes', NEW m \in Nat, Produces("in", m), Others("out") \/ Others("in"),
         call'["out"] = "none", UNCHANGED <<session, spoken, dead>>, chunk["in"] = << >>,
         reported' = reported, Shaken' => chunk'["in"] = << >> /\ wbio' = << >>
  PROVE  Ordered'
<1>1. chunk["out"] = << >> /\ "in" \in Coros /\ sent' = sent /\ UnitTypes
  BY OutIdle, TypeParts DEF Coros, Produces, IInv
<1>2. Ordered /\ (Alone' <=> Alone)
  BY DEF IInv, Alone
<1>3. Alone /\ ~dead => Numbered(Places') /\ Len(Places') = made'
  BY <1>1, <1>2, PlacesProduces DEF Ordered
<1>4. Alone => Numbered(sent')
  BY <1>1, <1>2 DEF Ordered
<1> QED
  BY <1>1, <1>2, <1>3, <1>4 DEF Ordered, Numbered

\* The handshake processes what has arrived and flushes what it produces.
LEMMA HandshakeStep ==
  ASSUME IInv, NEW rb \in Seq(Records), rb \o net = Pending, flights < Owed,
         call["in"] \in {"none", "handshake"}, chunk["in"] = << >>,
         made <= Produced(flights), ShakeHands(rb), fed' = << >>,
         UNCHANGED <<fixed, sent, fin, peer, delivered, wrote, verdict>>
  PROVE  IInv'
<1>1. /\ UNCHANGED <<isServer, session, sent, fin, net, spoken, eof, dead, delivered, wrote, verdict>>
      /\ ~Shaken /\ "in" \in Coros
  <2>1. flights \in Nat /\ Owed \in Nat
    BY TypeParts DEF IInv, CountTypes, Owed
  <2> QED
    BY <2>1 DEF fixed, peer, Shaken, Coros
<1>2. /\ RecordTypes' /\ UnitTypes' /\ CoroTypes' /\ Others("in")
      /\ flights' \in flights .. Owed /\ made' = Produced(flights')
      /\ Pending' = Drop(Pending, flights' - flights)
      /\ flights' - flights <= Len(Pending)
      /\ \A i \in 1 .. flights' - flights : Pending[i] = "flight"
      /\ \E m \in Nat : Produces("in", m)
      /\ \E k \in {"handshake", "shaken"} :
           /\ k = "shaken" <=> flights' = Owed
           /\ Flush("in", k, wbio \o Units(made' - made))
  <2>1. UNCHANGED <<fixed, sent, net>>
    BY <1>1 DEF fixed
  <2> QED
    BY <2>1, ShakeHandsEffect
<1>3. PICK m \in Nat : Produces("in", m)
  BY <1>2
<1>4. PICK k \in {"handshake", "shaken"} :
        /\ k = "shaken" <=> flights' = Owed
        /\ Flush("in", k, wbio \o Units(made' - made))
  BY <1>2
<1>5. TypeOK /\ Control /\ RecordTypes /\ UnitTypes /\ CountTypes /\ FlagTypes /\ Kept
  BY TypeParts DEF IInv
<1>6. flights \in Nat /\ Owed \in Nat /\ flights' \in Nat /\ Owed' = Owed /\ flights' <= Owed
  BY <1>1, <1>2, <1>5 DEF CountTypes, Owed
<1>7. wbio \o Units(made' - made) \in Seq(Nat)
  <2>1. made' - made = m
    BY <1>3, <1>5 DEF Produces, UnitTypes
  <2> QED
    BY <1>5, <2>1, UnitsType, UnitsConcat DEF UnitTypes
<1> DEFINE s == wbio \o Units(made' - made)
<1> HIDE DEF s
<1>8. /\ Control' /\ op'["in"] # "complete"
      /\ \/ call'["in"] = k
         \/ k \in {"shaken", "write"} /\ call'["in"] = "none" /\ s = << >>
      /\ reported' = IF s = << >> /\ k = "write" THEN wrote ELSE reported
      /\ s = << >> => chunk'["in"] = << >> /\ wbio' = << >>
  <2>1. k \in CallsOf("in") /\ Flush("in", k, s) /\ s \in Seq(Nat)
    BY <1>4, <1>7 DEF CallsOf, s
  <2> QED
    BY <1>1, <1>5, <2>1, FlushOutcome
<1>9. reported' = reported /\ call'["out"] = "none"
  BY <1>1, <1>2, <1>4, <1>8, OutIdle DEF Others, Coros
<1>10. TypeOK'
  <2>1. CountTypes' /\ FlagTypes'
    BY <1>1, <1>5, <1>6, <1>9 DEF CountTypes, FlagTypes
  <2> QED
    BY <1>2, <2>1, TypePartsNext
<1>11. Progress'
  <2>1. call'["in"] = "handshake" => k = "handshake"
    BY <1>8
  <2>2. call'["in"] \in {"none", "shaken"} => k = "shaken"
    BY <1>8
  <2>3. call'["in"] # "read"
    BY <1>8
  <2> QED
    <3>1. made' = Produced(flights)'
      BY <1>1, <1>2 DEF Produced
    <3>2. k = "handshake" => flights' < Owed
      BY <1>4, <1>6
    <3> QED
      BY <1>4, <1>6, <1>9, <2>1, <2>2, <2>3, <3>1, <3>2 DEF Progress
<1>12. Buffers'
  BY <1>8 DEF Buffers
<1>13. Received'
  <2> DEFINE j == flights' - flights
  <2>1. /\ j \in Nat /\ Pending \in Seq(Records) /\ j \in 0 .. Len(Pending)
        /\ \A i \in 1 .. j : Pending[i] = "flight"
        /\ flights' = flights + j
    <3>1. flights <= flights' /\ flights \in Nat /\ flights' \in Nat
      BY <1>2, <1>6
    <3>2. j \in Nat /\ flights' = flights + j
      <4>1. ASSUME NEW a \in Nat, NEW b \in Nat, a <= b
            PROVE  b - a \in Nat /\ b = a + (b - a)
        BY <4>1
      <4> QED
        BY <3>1, <4>1, Zenon
    <3>3. Pending \in Seq(Records)
      BY <1>5, PendingType
    <3>4. Len(Pending) \in Nat /\ j <= Len(Pending) /\ \A i \in 1 .. j : Pending[i] = "flight"
      BY <1>2, <3>3, LenProperties
    <3> DEFINE l == Len(Pending)
    <3>5. l \in Nat /\ j <= l /\ \A i \in 1 .. j : Pending[i] = "flight"
      BY <3>4
    <3> HIDE DEF j, l
    <3>6. j \in 0 .. l
      BY <3>2, <3>5
    <3> QED
      BY <3>2, <3>3, <3>5, <3>6 DEF l
  <2>2. Pending' = Drop(Pending, j)
    BY <1>2
  <2> HIDE DEF j
  <2>3. /\ Count(Pending, "flight") = j + Count(Pending', "flight")
        /\ Count(Pending', "flight") \in Nat
    BY <2>1, <2>2, CountDropped
  <2>4. "flight" \in Records /\ "data" \in Records /\ "data" # "flight"
    BY DEF Records
  <2>5. Count(Pending, "data") = Count(Pending', "data")
    BY <2>1, <2>2, <2>4, CountOthers
  <2>6. \A i \in 1 .. Len(Pending') :
           /\ Pending'[i] = "update" => spoken'["update"] > 0
           /\ Pending'[i] = "notify" => spoken'["notify"] > 0 /\ i = Len(Pending')
    BY <1>1, <2>1, <2>2, PendingShift
  <2>7. /\ flights + Count(Pending, "flight") = spoken["flight"]
        /\ spoken["flight"] <= Owed
        /\ delivered + Count(Pending, "data") = spoken["data"]
    BY DEF IInv, Received
  <2>8. flights' + Count(Pending', "flight") = spoken["flight"]
    BY <1>6, <2>1, <2>3, <2>7
  <2> QED
    BY <1>1, <1>6, <2>5, <2>6, <2>7, <2>8 DEF Received
<1>14. AtEnd'
  BY <1>1, <1>8 DEF IInv, AtEnd
<1>15. Kept'
  <2>1. UNCHANGED <<dead, fin>>
    BY <1>1
  <2> QED
    BY <1>1, <1>2, <1>3, <1>5, <2>1, KeptProduces
<1>16. Ordered'
  <2>1. Shaken' => chunk'["in"] = << >> /\ wbio' = << >>
    BY <1>4, <1>6, <1>8 DEF Shaken
  <2>2. UNCHANGED <<session, spoken, dead>>
    BY <1>1
  <2> QED
    BY <1>1, <1>2, <1>3, <1>9, <2>1, <2>2, HandshakeOrdered
<1> QED
  BY <1>8, <1>10, <1>11, <1>12, <1>13, <1>14, <1>15, <1>16 DEF IInv

\* SSL_read() processes what has arrived and returns, or flushes and reads on.
LEMMA ReadStep ==
  ASSUME IInv, NEW rb \in Seq(Records), rb \o net = Pending, Shaken,
         call["in"] \in {"none", "read"}, chunk["in"] = << >>, SslRead(rb), fed' = << >>,
         UNCHANGED <<fixed, flights, wrote, sent, fin, peer>>
  PROVE  IInv'
<1>1. /\ UNCHANGED <<isServer, session, sent, fin, net, spoken, eof, dead, flights, wrote>>
      /\ flights = Owed /\ "in" \in Coros /\ "out" \in Coros /\ Owed' = Owed
  BY DEF fixed, peer, Shaken, Coros, Owed
<1>2. /\ RecordTypes' /\ UnitTypes' /\ CoroTypes' /\ Others("in")
      /\ \E j \in 0 .. Len(Pending) : Pending' = Drop(Pending, j)
      /\ \E h \in Nat :
           /\ Produces("in", h)
           /\ spoken["update"] = 0 => h = 0
           /\ WantsMore(h) \/ Returned \/ Closed
  <2>1. UNCHANGED <<fixed, sent, net, flights>>
    BY <1>1 DEF fixed
  <2> QED
    BY <1>1, <2>1, SslReadEffect
<1>3. PICK h \in Nat :
        /\ Produces("in", h)
        /\ spoken["update"] = 0 => h = 0
        /\ WantsMore(h) \/ Returned \/ Closed
  BY <1>2
<1>4. TypeOK /\ Control /\ RecordTypes /\ UnitTypes /\ CountTypes /\ FlagTypes /\ Kept
  BY TypeParts DEF IInv
<1>5. /\ Pending \in Seq(Records) /\ Pending' \in Seq(Records)
      /\ Count(Pending, "data") \in Nat /\ Count(Pending', "data") \in Nat
      /\ delivered \in Nat /\ spoken["data"] \in Nat
  <2>1. Pending \in Seq(Records) /\ Pending' \in Seq(Records)
    BY <1>2, <1>4, PendingType, TakeDrop
  <2> QED
    BY <1>4, <2>1, CountType DEF CountTypes, Records
<1>6. /\ flights + Count(Pending, "flight") = spoken["flight"]
      /\ spoken["flight"] <= Owed
      /\ delivered + Count(Pending, "data") = spoken["data"]
  BY DEF IInv, Received
<1>7. \A i \in 1 .. Len(Pending') :
         /\ Pending'[i] = "update" => spoken'["update"] > 0
         /\ Pending'[i] = "notify" => spoken'["notify"] > 0 /\ i = Len(Pending')
  BY <1>1, <1>2, PendingShift
<1>8. /\ Control' /\ op'["in"] # "complete" /\ reported' = reported
      /\ call'["in"] \in {"read", "none", "ended"}
      /\ call'["in"] = "read" => rbio' = << >>
      /\ wbio = << >> /\ h = 0 => chunk'["in"] = << >> /\ wbio' = << >>
  <2>1. ASSUME WantsMore(h)
        PROVE  /\ Control' /\ op'["in"] # "complete" /\ reported' = reported
               /\ call'["in"] = "read"
               /\ wbio \o Units(h) = << >> => chunk'["in"] = << >> /\ wbio' = << >>
    <3> DEFINE s == wbio \o Units(h)
    <3>1. s \in Seq(Nat)
      BY <1>4, UnitsType, UnitsConcat DEF UnitTypes
    <3>2. Flush("in", "read", s) /\ "read" \in CallsOf("in")
      BY <2>1 DEF WantsMore, CallsOf
    <3> HIDE DEF s
    <3>3. /\ Control' /\ op'["in"] # "complete"
          /\ \/ call'["in"] = "read"
             \/ "read" \in {"shaken", "write"} /\ call'["in"] = "none" /\ s = << >>
          /\ reported' = IF s = << >> /\ "read" = "write" THEN wrote ELSE reported
          /\ s = << >> => chunk'["in"] = << >> /\ wbio' = << >>
      BY <1>1, <1>4, <3>1, <3>2, FlushOutcome
    <3> QED
      BY <3>3 DEF s
  <2>2. ASSUME Returned \/ Closed
        PROVE  /\ Control' /\ op'["in"] = "none" /\ reported' = reported
               /\ call'["in"] \in {"none", "ended"} /\ chunk' = chunk
    <3>1. /\ waits'["in"] = "none" /\ op'["in"] = "none" /\ call'["in"] \in {"none", "ended"}
          /\ chunk' = chunk /\ reported' = reported
      BY <2>2 DEF Returned, Closed
    <3>2. CoroControl("in")'
      BY <3>1 DEF CoroControl
    <3>3. fin' => waits'["out"] = "fin" \/ call'["out"] = "ended"
      BY <1>1, <1>2, <1>4 DEF Control, Others
    <3>4. Control'
      BY <1>1, <1>2, <1>4, <3>1, <3>2, <3>3, ControlStep
    <3> QED
      BY <3>1, <3>4
  <2>3. wbio = << >> /\ h = 0 => wbio \o Units(h) = << >>
    BY <1>4 DEF UnitTypes, Units
  <2>4. wbio = << >> /\ h = 0 /\ chunk' = chunk => wbio' = << >>
    <3>1. chunk'["in"] \o wbio' = wbio \o Units(h)
      BY <1>3 DEF Produces
    <3>2. wbio' \in Seq(Nat) /\ << >> \o wbio' = wbio'
      BY <1>2, ConcatEmptySeq DEF UnitTypes
    <3> QED
      BY <2>3, <3>1, <3>2
  <2>5. WantsMore(h) => rbio' = << >>
    BY DEF WantsMore
  <2> QED
    BY <1>3, <2>1, <2>2, <2>3, <2>4, <2>5
<1>9. delivered' \in Nat /\ verdict' \in {"none", "eof", "error"}
  BY <1>3, <1>4 DEF WantsMore, Returned, Closed, CountTypes
<1>10. TypeOK'
  <2>1. CountTypes' /\ FlagTypes'
    BY <1>1, <1>4, <1>8, <1>9 DEF CountTypes, FlagTypes
  <2> QED
    BY <1>2, <2>1, TypePartsNext
<1>11. Progress'
  <2>1. Shaken'
    BY <1>1, <1>8 DEF Shaken
  <2> QED
    BY <1>1, <1>4, <1>8, <2>1 DEF Progress, CountTypes, Owed
<1>12. Buffers'
  BY <1>8 DEF Buffers
<1>13. /\ Count(Pending', "flight") = Count(Pending, "flight")
       /\ delivered' + Count(Pending', "data") = delivered + Count(Pending, "data")
  <2>1. ASSUME WantsMore(h)
        PROVE  /\ Count(Pending', "flight") = Count(Pending, "flight")
               /\ delivered' = delivered /\ Count(Pending', "data") = Count(Pending, "data")
    BY <2>1 DEF WantsMore, Records
  <2>2. ASSUME Returned
        PROVE  /\ Count(Pending', "flight") = Count(Pending, "flight")
               /\ delivered' = delivered + 1 /\ Count(Pending, "data") = 1 + Count(Pending', "data")
    BY <2>2 DEF Returned
  <2>3. ASSUME Closed
        PROVE  /\ Count(Pending', "flight") = Count(Pending, "flight")
               /\ delivered' = delivered /\ Count(Pending', "data") = Count(Pending, "data")
    BY <2>3 DEF Closed
  <2> QED
    BY <1>3, <1>5, <2>1, <2>2, <2>3
<1>14. Received'
  BY <1>1, <1>6, <1>7, <1>13 DEF Received
<1>15. AtEnd'
  <2>1. CASE UNCHANGED <<delivered, verdict>>
    BY <1>1, <1>8, <2>1 DEF IInv, AtEnd
  <2>2. CASE Returned
    <3>1. /\ delivered' = delivered + 1 /\ verdict' = verdict
          /\ Count(Pending, "data") = 1 + Count(Pending', "data")
      BY <2>2 DEF Returned
    <3>2. delivered # spoken["data"]
      BY <1>5, <1>6, <3>1
    <3> QED
      BY <1>1, <1>8, <3>1, <3>2 DEF IInv, AtEnd
  <2>3. CASE Closed
    <3>1. delivered' = delivered /\ Count(Pending, "data") = 0 /\ spoken["notify"] > 0
      BY <2>3 DEF Closed
    <3>2. delivered' = spoken'["data"]
      BY <1>1, <1>5, <1>6, <3>1
    <3> QED
      BY <1>1, <1>8, <3>1, <3>2 DEF AtEnd
  <2> QED
    BY <1>3, <2>1, <2>2, <2>3 DEF WantsMore
<1>16. Kept'
  <2>1. UNCHANGED <<dead, fin>>
    BY <1>1
  <2> QED
    BY <1>1, <1>2, <1>3, <1>4, <2>1, KeptProduces
<1>17. Ordered'
  <2>1. Ordered /\ (Alone' <=> Alone) /\ sent' = sent
    BY <1>1 DEF IInv, Alone
  <2>2. ASSUME Alone, ~dead
        PROVE  /\ chunk'["in"] = << >> /\ wbio' = << >> /\ made' = made /\ Places' = Places
    <3>1. h = 0 /\ chunk["in"] = << >> /\ wbio = << >>
      BY <1>3, <2>1, <2>2 DEF Alone, Ordered
    <3>2. chunk'["in"] = << >> /\ wbio' = << >>
      BY <1>8, <3>1
    <3>3. made' = made + h /\ chunk'["out"] = chunk["out"]
      BY <1>1, <1>3 DEF Produces
    <3>4. Places' = Places
      BY <1>1, <3>1, <3>2, <3>3 DEF Places
    <3> QED
      BY <1>4, <3>1, <3>2, <3>3, <3>4 DEF UnitTypes
  <2>3. call'["out"] = call["out"] /\ wrote' = wrote /\ reported' = reported
    BY <1>1, <1>2, <1>8 DEF Others
  <2> QED
    BY <1>1, <2>1, <2>2, <2>3 DEF Ordered, Numbered
<1> QED
  BY <1>8, <1>10, <1>11, <1>12, <1>14, <1>15, <1>16, <1>17 DEF IInv

\* SSL_write() and SSL_shutdown() produce units, and the flush begins.
LEMMA OutStep ==
  ASSUME IInv, call["out"] = "none", Shaken, NEW k \in {"write", "shutdown"},
         NEW n \in Nat \ {0}, session = "tcp" => n <= Bite, made' = made + n,
         wrote' = IF k = "write" THEN made' ELSE wrote, FlushOut(k, wbio \o Units(n)),
         UNCHANGED <<fixed, rbio, flights, delivered, verdict, socket, peer>>
  PROVE  IInv'
<1>1. /\ UNCHANGED <<isServer, session, sent, fin, fed, net, spoken, eof, dead,
                     rbio, flights, delivered, verdict>>
      /\ "in" \in Coros /\ "out" \in Coros /\ n \in Nat /\ Owed' = Owed
  BY DEF fixed, socket, peer, Coros, Owed
<1>2. TypeOK /\ Control /\ RecordTypes /\ UnitTypes /\ CountTypes /\ FlagTypes /\ Kept
  BY TypeParts DEF IInv
<1>3. CoroControl("out") /\ CoroControl("in") /\ ~fin /\ chunk["out"] = << >>
  BY <1>1, <1>2 DEF Control, CoroControl
<1>u. Units(n) \in Seq(Nat) /\ Len(Units(n)) = n
  BY <1>1, <1>2, UnitsType DEF UnitTypes
<1> DEFINE s == wbio \o Units(n)
<1>4. /\ s \in Seq(Nat) /\ s # << >>
      /\ wbio = << >> => Len(s) = n
  <2> DEFINE x == Units(n)
  <2>1. x \in Seq(Nat) /\ Len(x) = n /\ n > 0 /\ wbio \in Seq(Nat)
    BY <1>2, <1>u DEF UnitTypes
  <2> HIDE DEF x
  <2>2. wbio \o x \in Seq(Nat) /\ Len(wbio \o x) = Len(wbio) + n
    BY <2>1, UnitsConcat
  <2> QED
    BY <2>1, <2>2 DEF x
<1>5. Flush("out", k, s) /\ k \in CallsOf("out")
  BY DEF FlushOut, CallsOf
<1> HIDE DEF s
<1>6. /\ Control' /\ op'["out"] # "complete"
      /\ call'["out"] = k \/ (k \in {"shaken", "write"} /\ call'["out"] = "none" /\ s = << >>)
      /\ reported' = IF s = << >> /\ k = "write" THEN wrote ELSE reported
  BY <1>1, <1>2, <1>3, <1>4, <1>5, FlushOutcome
<1>7. /\ CoroTypes' /\ Others("out")
      /\ chunk' \in [Coros -> Seq(Nat)] /\ wbio' \in Seq(Nat)
      /\ \A o \in Coros : o # "out" => chunk'[o] = chunk[o]
      /\ chunk'["out"] \o wbio' = s
      /\ Len(s) <= Bite => wbio' = << >>
  BY <1>1, <1>2, <1>4, <1>5, FlushEffect
<1>8. call'["out"] = k /\ reported' = reported /\ call'["in"] = call["in"]
  BY <1>1, <1>4, <1>6, <1>7 DEF Others, Coros
<1>9. UnitTypes' /\ Produces("out", n)
  <2>1. made' \in Nat
    BY <1>1, <1>2 DEF UnitTypes
  <2> QED
    BY <1>1, <1>2, <1>3, <1>7, <2>1 DEF UnitTypes, Produces, s
<1>10. TypeOK'
  <2>1. CountTypes' /\ FlagTypes' /\ RecordTypes'
    BY <1>1, <1>2, <1>8, <1>9 DEF CountTypes, FlagTypes, RecordTypes, UnitTypes
  <2> QED
    BY <1>7, <1>9, <2>1, TypePartsNext
<1>11. Progress'
  BY <1>1, <1>2, <1>8 DEF IInv, Progress, Shaken, CountTypes, Owed
<1>12. Buffers' /\ Received' /\ AtEnd'
  <2>1. ReaderSame /\ (dead => dead')
    BY <1>1 DEF ReaderSame
  <2> QED
    BY <1>7, <2>1, ReaderKeeps
<1>13. Kept'
  <2>1. UNCHANGED <<dead, fin>>
    BY <1>1
  <2> QED
    BY <1>1, <1>2, <1>9, <2>1, KeptProduces
<1>14. Ordered'
  <2>1. Ordered /\ (Alone' <=> Alone) /\ (Alone => session = "tcp")
    BY <1>1 DEF IInv, Alone
  <2>2. ASSUME Alone, ~dead
        PROVE  /\ Numbered(Places') /\ Len(Places') = made'
               /\ chunk'["in"] = << >> /\ wbio' = << >>
    <3>1. chunk["in"] = << >> /\ wbio = << >> /\ Numbered(Places) /\ Len(Places) = made
      BY <2>1, <2>2 DEF Ordered
    <3>2. Numbered(Places') /\ Len(Places') = made'
      BY <1>1, <1>2, <1>3, <1>9, <3>1, PlacesProduces
    <3>3. chunk'["in"] = << >>
      BY <1>1, <1>7, <3>1 DEF Coros
    <3>4. wbio' = << >>
      BY <1>4, <1>7, <2>1, <2>2, <3>1
    <3> QED
      BY <3>2, <3>3, <3>4
  <2>3. call'["out"] = "write" => wrote' = made'
    BY <1>8
  <2> QED
    BY <1>1, <1>8, <2>1, <2>2, <2>3 DEF Ordered, Numbered
<1> QED
  BY <1>6, <1>10, <1>11, <1>12, <1>13, <1>14 DEF IInv

\* A send has completed: the rest is sent, or the flush goes on, or it fails.
LEMMA FlushGoesOn ==
  ASSUME IInv, NEW c \in Coros, waits[c] = "flush", op[c] = "complete", chunk[c] = << >>,
         Flush(c, call[c], wbio),
         UNCHANGED <<verdict, fixed, rbio, made, flights, delivered, wrote, socket, peer>>
  PROVE  IInv'
<1>1. /\ UNCHANGED <<isServer, session, sent, fin, fed, net, spoken, eof, dead,
                     rbio, flights, delivered, verdict, made, wrote>>
      /\ "in" \in Coros /\ "out" \in Coros /\ c \in {"in", "out"} /\ Owed' = Owed
  BY DEF fixed, socket, peer, Coros, Owed
<1>2. TypeOK /\ Control /\ RecordTypes /\ UnitTypes /\ CountTypes /\ FlagTypes /\ Kept
  BY TypeParts DEF IInv
<1>3. CoroControl(c) /\ call[c] \in CallsOf(c) /\ wbio \in Seq(Nat)
  BY <1>2 DEF Control, CoroControl, UnitTypes
<1>4. c = "out" => ~fin
  BY <1>2 DEF Control, CoroControl
<1>5. /\ Control' /\ op'[c] # "complete"
      /\ call'[c] = call[c] \/ (call[c] \in {"shaken", "write"} /\ call'[c] = "none" /\ wbio = << >>)
      /\ reported' = IF wbio = << >> /\ call[c] = "write" THEN wrote ELSE reported
      /\ wbio = << >> => chunk'[c] = << >> /\ wbio' = << >>
  BY <1>1, <1>2, <1>3, <1>4, FlushOutcome
<1>6. /\ CoroTypes' /\ Others(c)
      /\ chunk' \in [Coros -> Seq(Nat)] /\ wbio' \in Seq(Nat)
      /\ \A o \in Coros : o # c => chunk'[o] = chunk[o]
      /\ chunk'[c] \o wbio' = wbio
  BY <1>2, <1>3, FlushEffect
<1>7. UnitTypes' /\ Produces(c, 0)
  <2>1. UnitTypes'
    BY <1>1, <1>2, <1>6 DEF UnitTypes
  <2>2. wbio \o Units(0) = wbio /\ made' = made + 0
    <3>1. Units(0) \in Seq(Nat) /\ Len(Units(0)) = 0
      BY <1>2, UnitsType DEF UnitTypes
    <3>2. Units(0) = << >>
      BY <3>1, EmptySeq
    <3>3. wbio \o << >> = wbio
      BY <1>3, UnitsAssoc
    <3> QED
      BY <1>1, <1>2, <3>2, <3>3 DEF UnitTypes
  <2> QED
    BY <1>1, <1>6, <2>1, <2>2 DEF Produces
<1>8. TypeOK'
  <2>1. CountTypes' /\ FlagTypes' /\ RecordTypes'
    BY <1>1, <1>2, <1>5 DEF CountTypes, FlagTypes, RecordTypes
  <2> QED
    BY <1>6, <1>7, <2>1, TypePartsNext
<1>9. /\ call'["in"] = call["in"] \/ (call["in"] = "shaken" /\ call'["in"] = "none" /\ wbio = << >>)
      /\ call["out"] = "none" => call'["out"] = "none"
      /\ call'["out"] = "write" => call["out"] = "write"
  BY <1>1, <1>3, <1>5, <1>6 DEF Others, CallsOf
<1>10. Produced(flights)' = Produced(flights)
  BY <1>1 DEF Produced
<1>11. Progress' /\ (Shaken => Shaken')
  BY <1>1, <1>2, <1>9, <1>10 DEF IInv, Progress, Shaken, CountTypes, Owed
<1>12. Buffers' /\ Received' /\ AtEnd'
  <2>1. Buffers'
    BY <1>1, <1>5, <1>6, <1>9 DEF IInv, Buffers, Others
  <2>2. Received'
    BY <1>1, ReceivedSame DEF IInv
  <2>3. AtEnd'
    BY <1>1, <1>5, <1>6 DEF IInv, AtEnd, Others
  <2> QED
    BY <2>1, <2>2, <2>3
<1>13. Kept'
  <2>1. UNCHANGED <<dead, fin>>
    BY <1>1
  <2> QED
    BY <1>1, <1>2, <1>7, <2>1, KeptProduces
<1>14. Ordered'
  <2>1. Ordered /\ (Alone' <=> Alone) /\ sent' = sent
    BY <1>1 DEF IInv, Alone
  <2>2. ASSUME Alone, ~dead, Shaken
        PROVE  /\ Numbered(Places') /\ Len(Places') = made' /\ reported' <= Len(sent')
               /\ chunk'["in"] = << >> /\ wbio' = << >>
    <3>1. /\ chunk["in"] = << >> /\ wbio = << >> /\ Numbered(Places) /\ Len(Places) = made
          /\ reported <= Len(sent) /\ (call["out"] = "write" => wrote = made)
      BY <2>1, <2>2 DEF Ordered
    <3>2. wbio' = << >> /\ chunk'[c] = << >>
      BY <1>5, <3>1
    <3>3. /\ chunk'["in"] = chunk["in"] /\ chunk'["out"] = chunk["out"]
      BY <1>1, <1>6, <3>2
    <3>4. Places' = Places
      BY <1>1, <3>1, <3>2, <3>3 DEF Places
    <3>5. ASSUME call[c] = "write" PROVE wrote <= Len(sent)
      <4>1. c = "out"
        BY <1>1, <1>3, <3>5 DEF CallsOf
      <4>2. Places = sent
        <5>1. sent \o << >> = sent
          BY <1>2, UnitsAssoc DEF UnitTypes
        <5> QED
          BY <3>1, <4>1, <5>1 DEF Places
      <4>3. Len(sent) \in Nat
        BY <1>2 DEF UnitTypes
      <4> QED
        BY <3>1, <3>5, <4>1, <4>2, <4>3
    <3>6. reported' <= Len(sent')
      BY <1>1, <1>5, <3>1, <3>5
    <3> QED
      BY <1>1, <3>1, <3>2, <3>3, <3>4, <3>6
  <2>3. ASSUME Alone, ~dead, ~Shaken
        PROVE  /\ Numbered(Places') /\ Len(Places') = made' /\ reported' <= Len(sent')
               /\ Shaken' => chunk'["in"] = << >> /\ wbio' = << >>
    <3>1. call["out"] = "none" /\ chunk["out"] = << >> /\ CoroControl("out")
      BY <1>1, <1>2, <2>3, OutIdle DEF Control
    <3>2. c = "in"
      BY <1>1, <1>3, <3>1 DEF CallsOf
    <3>3. Numbered(Places') /\ Len(Places') = made'
      BY <1>2, <1>7, <2>1, <2>3, <3>1, <3>2, PlacesProduces DEF Ordered
    <3>4. reported' <= Len(sent')
      BY <1>1, <1>3, <1>5, <2>1, <2>3, <3>2 DEF Ordered, CallsOf
    <3>5. Shaken' => wbio = << >>
      BY <1>1, <1>9, <2>3 DEF Shaken
    <3> QED
      BY <1>5, <3>2, <3>3, <3>4, <3>5
  <2>4. call'["out"] = "write" => call["out"] = "write" /\ wrote' = wrote /\ made' = made
    BY <1>1, <1>9
  <2> QED
    BY <1>1, <2>1, <2>2, <2>3, <2>4 DEF Ordered, Numbered
<1> QED
  BY <1>5, <1>8, <1>11, <1>12, <1>13, <1>14 DEF IInv

\* A short send goes on.
LEMMA SendRestStep ==
  ASSUME IInv, NEW c \in Coros, waits[c] = "flush", SendRest(c),
         UNCHANGED <<fixed, rbio, made, flights, delivered, wrote, socket, peer>>
  PROVE  IInv'
<1>1. /\ UNCHANGED <<isServer, session, sent, fin, fed, net, spoken, eof, dead, chunk, wbio,
                     rbio, flights, delivered, verdict, made, wrote, reported>>
      /\ "in" \in Coros /\ "out" \in Coros /\ c \in {"in", "out"} /\ Owed' = Owed
  BY DEF fixed, socket, peer, Coros, Owed, SendRest
<1>2. TypeOK /\ Control /\ RecordTypes /\ UnitTypes /\ CountTypes /\ FlagTypes /\ Kept
  BY TypeParts DEF IInv
<1>3. CoroControl(c) /\ call[c] \in CallsOf(c) /\ call[c] \in CallNames
  BY <1>2 DEF Control, CoroControl, CallsOf, CallNames
<1>4. /\ CoroTypes' /\ Others(c)
      /\ call'[c] = call[c] /\ waits'[c] = "flush" /\ op'[c] = "posted"
  BY <1>2, <1>3, AwaitEffect DEF SendRest
<1>5. TypeOK'
  <2>1. UnitTypes' /\ CountTypes' /\ FlagTypes' /\ RecordTypes'
    BY <1>1, <1>2 DEF UnitTypes, CountTypes, FlagTypes, RecordTypes
  <2> QED
    BY <1>4, <2>1, TypePartsNext
<1>6. call'["in"] = call["in"] /\ call'["out"] = call["out"]
  BY <1>1, <1>4 DEF Others
<1>7. Control'
  <2>1. CoroControl(c)'
    BY <1>1, <1>3, <1>4 DEF CoroControl, CallsOf
  <2>2. fin' => waits'["out"] = "fin" \/ call'["out"] = "ended"
    BY <1>1, <1>2, <1>3, <1>4, <1>6 DEF Control, Others
  <2> QED
    BY <1>1, <1>2, <1>4, <2>1, <2>2, ControlStep
<1>8. Produced(flights)' = Produced(flights) /\ (Shaken' <=> Shaken)
  BY <1>1, <1>6 DEF Produced, Shaken
<1>9. Progress'
  BY <1>1, <1>6, <1>8 DEF IInv, Progress
<1>10. Buffers' /\ Received' /\ AtEnd'
  <2>1. Buffers'
    BY <1>1, <1>4, <1>6 DEF IInv, Buffers, Others
  <2>2. Received'
    BY <1>1, ReceivedSame DEF IInv
  <2>3. AtEnd'
    BY <1>1, <1>4 DEF IInv, AtEnd, Others
  <2> QED
    BY <2>1, <2>2, <2>3
<1>11. Kept' /\ Places' = Places
  BY <1>1, <1>2, UnitsSame DEF FlagTypes
<1>12. Ordered'
  BY <1>1, <1>6, <1>8, <1>11 DEF IInv, Ordered, Alone, Numbered
<1> QED
  BY <1>5, <1>7, <1>9, <1>10, <1>11, <1>12 DEF IInv

\* A coroutine that stops waiting and moves no unit.
LEMMA StopWaiting ==
  ASSUME IInv, NEW c \in Coros, waits[c] # "none", CoroTypes', Others(c),
         \A o \in Coros : o # c => chunk'[o] = chunk[o],
         waits'[c] = "none" \/ (waits'[c] = "fin" /\ call'[c] = "shutdown" /\ c = "out"),
         waits'[c] = "none" <=> op'[c] = "none", op'[c] # "complete",
         waits'[c] = "none" <=> call'[c] \in {"none", "ended"},
         call'[c] = "none" => call[c] \in {"shaken", "write"}, chunk'[c] = << >>, fin' = fin,
         dead' = dead, c = "out" /\ fin => call'["out"] = "ended"
  PROVE  Control'
<1>1. CoroControl(c)'
  BY DEF CoroControl, CallsOf, Coros
<1>2. fin' => waits'["out"] = "fin" \/ call'["out"] = "ended"
  BY DEF IInv, Control, Others, Coros
<1>3. Control
  BY DEF IInv
<1> QED
  BY <1>1, <1>2, <1>3, ControlStep

\* flushWriteBio() fails.
LEMMA FlushFailedStep ==
  ASSUME IInv, NEW c \in Coros, waits[c] = "flush", op[c] = "complete", res[c] <= 0,
         FlushFailed(c, call[c]),
         UNCHANGED <<fixed, rbio, made, flights, delivered, wrote, socket, peer>>
  PROVE  IInv'
<1>1. /\ UNCHANGED <<isServer, session, sent, fin, fed, net, spoken, eof, dead, wbio,
                     rbio, flights, delivered, made, wrote>>
      /\ "in" \in Coros /\ "out" \in Coros /\ c \in {"in", "out"} /\ Owed' = Owed
  BY DEF fixed, socket, peer, Coros, Owed, FlushFailed
<1>2. TypeOK /\ Control /\ RecordTypes /\ UnitTypes /\ CountTypes /\ FlagTypes /\ Kept
  BY TypeParts DEF IInv
<1>3. CoroControl(c) /\ call[c] \in CallsOf(c) /\ (dead \/ fin)
  BY <1>2 DEF Control, CoroControl
<1>4. /\ chunk' = [chunk EXCEPT ![c] = << >>]
      /\ reported' = IF call[c] = "write" THEN wrote ELSE reported
      /\ verdict' = IF call[c] = "read" THEN "error" ELSE verdict
  BY DEF FlushFailed, ReportWrite
<1>5. /\ chunk'[c] = << >> /\ \A o \in Coros : o # c => chunk'[o] = chunk[o]
      /\ chunk' \in [Coros -> Seq(Nat)]
  BY <1>2, <1>4 DEF UnitTypes
<1>6. /\ CoroTypes' /\ Others(c)
      /\ \/ /\ call[c] \in {"handshake", "read"} /\ call'[c] = "ended"
            /\ waits'[c] = "none" /\ op'[c] = "none"
         \/ /\ call[c] \in {"shaken", "write"} /\ call'[c] = "none"
            /\ waits'[c] = "none" /\ op'[c] = "none"
         \/ /\ call[c] = "shutdown" /\ call'[c] = "shutdown"
            /\ waits'[c] = "fin" /\ op'[c] = "posted"
  <2>1. CASE call[c] \in {"handshake", "read"}
    <3>1. Return(c, "ended")
      BY <2>1 DEF FlushFailed
    <3> QED
      BY <1>2, <2>1, <3>1, ReturnEffect DEF CallNames
  <2>2. CASE call[c] \in {"shaken", "write"}
    <3>1. Return(c, "none")
      BY <2>2 DEF FlushFailed
    <3> QED
      BY <1>2, <2>2, <3>1, ReturnEffect DEF CallNames
  <2>3. CASE call[c] = "shutdown"
    <3>1. Await(c, "shutdown", "fin")
      BY <2>3 DEF FlushFailed
    <3> QED
      BY <1>2, <2>3, <3>1, AwaitEffect DEF CallNames
  <2> QED
    BY <1>3, <2>1, <2>2, <2>3 DEF CallsOf
<1>7. c = "out" => ~fin /\ dead
  BY <1>2, <1>3 DEF Control, CoroControl
<1>8. TypeOK'
  <2>1. UnitTypes' /\ FlagTypes' /\ RecordTypes'
    BY <1>1, <1>2, <1>5 DEF UnitTypes, FlagTypes, RecordTypes
  <2>2. CountTypes'
    BY <1>1, <1>2, <1>4 DEF CountTypes
  <2> QED
    BY <1>6, <2>1, <2>2, TypePartsNext
<1>9. Control'
  <2>1. c = "in" => call[c] # "shutdown"
    BY <1>3 DEF CallsOf
  <2> QED
    BY <1>1, <1>5, <1>6, <1>7, <2>1, StopWaiting
<1>10. /\ call'["in"] = call["in"] \/ (call["in"] = "shaken" /\ call'["in"] = "none") \/ call'["in"] = "ended"
       /\ call["out"] = "none" => call'["out"] = "none"
       /\ Produced(flights)' = Produced(flights)
  BY <1>1, <1>3, <1>6 DEF Others, CallsOf, Produced
<1>11. Progress' /\ (Shaken => Shaken')
  BY <1>1, <1>2, <1>10 DEF IInv, Progress, Shaken, CountTypes, Owed
<1>12. Buffers' /\ Received' /\ AtEnd'
  <2>1. Buffers'
    BY <1>1, <1>6, <1>10 DEF IInv, Buffers, Others
  <2>2. Received'
    BY <1>1, ReceivedSame DEF IInv
  <2>3. AtEnd'
    BY <1>1, <1>4, <1>6 DEF IInv, AtEnd, Others
  <2> QED
    BY <2>1, <2>2, <2>3
<1>13. Kept'
  BY <1>1, <1>3 DEF Kept
<1>14. Ordered'
  <2>1. Ordered /\ (Alone' <=> Alone) /\ sent' = sent
    BY <1>1 DEF IInv, Alone
  <2>2. ASSUME Alone, ~dead
        PROVE  /\ Shaken /\ chunk' = chunk /\ reported' = reported /\ call'["out"] = call["out"]
    <3>1. c = "in" /\ fin
      BY <1>1, <1>3, <1>7, <2>2
    <3>2. Shaken
      BY <3>1, OutIdle
    <3>3. chunk["in"] = << >>
      BY <2>1, <2>2, <3>2 DEF Ordered
    <3>4. chunk' = chunk
      BY <1>2, <1>4, <3>1, <3>3 DEF UnitTypes
    <3> QED
      BY <1>1, <1>3, <1>4, <1>6, <3>1, <3>2, <3>4 DEF Others, CallsOf
  <2>3. Alone /\ ~dead => Places' = Places
    BY <1>1, <2>2 DEF Places
  <2> QED
    BY <1>1, <1>11, <2>1, <2>2, <2>3 DEF Ordered, Numbered
<1> QED
  BY <1>8, <1>9, <1>11, <1>12, <1>13, <1>14 DEF IInv

\* A coroutine goes on when a send has completed.
LEMMA OnFlushStep ==
  ASSUME IInv, NEW c \in Coros, OnFlush(c)
  PROVE  IInv'
<1>1. /\ waits[c] = "flush" /\ op[c] = "complete"
      /\ UNCHANGED <<fixed, rbio, made, flights, delivered, wrote, socket, peer>>
  BY DEF OnFlush
<1>2. CASE SendRest(c)
  BY <1>1, <1>2, SendRestStep
<1>3. CASE chunk[c] = << >> /\ Flush(c, call[c], wbio) /\ UNCHANGED verdict
  BY <1>1, <1>3, FlushGoesOn
<1>4. CASE res[c] <= 0 /\ FlushFailed(c, call[c])
  BY <1>1, <1>4, FlushFailedStep
<1> QED
  BY <1>2, <1>3, <1>4 DEF OnFlush

\* fillReadBio() fails, at the end of the stream or on an error.
LEMMA FillFailedStep ==
  ASSUME IInv, waits["in"] = "fill", op["in"] = "complete", FillFailed, fed' = << >>,
         UNCHANGED <<fixed, wrote, sent, fin, peer>>
  PROVE  IInv'
<1>1. /\ UNCHANGED <<isServer, session, sent, fin, net, spoken, eof, dead, chunk, wbio,
                     rbio, flights, delivered, made, wrote, reported>>
      /\ "in" \in Coros /\ "out" \in Coros /\ Owed' = Owed
      /\ res["in"] <= 0 /\ Return("in", "ended")
      /\ verdict' = IF call["in"] = "read" THEN "eof" ELSE verdict
  BY DEF fixed, ssl, peer, Coros, Owed, FillFailed
<1>2. TypeOK /\ Control /\ RecordTypes /\ UnitTypes /\ CountTypes /\ FlagTypes /\ Kept
  BY TypeParts DEF IInv
<1>3. /\ CoroTypes' /\ Others("in")
      /\ call'["in"] = "ended" /\ waits'["in"] = "none" /\ op'["in"] = "none"
  BY <1>1, <1>2, ReturnEffect DEF CallNames
<1>4. CoroControl("in") /\ call["in"] \in {"handshake", "read"} /\ chunk["in"] = << >>
  BY <1>1, <1>2 DEF Control, CoroControl
<1>5. fed = << >> /\ fed' = fed
  <2>1. res["in"] \in Int
    BY <1>1, <1>2 DEF TypeOK
  <2> QED
    BY <1>1, <2>1 DEF IInv, Buffers
<1>6. TypeOK'
  <2>1. UnitTypes' /\ FlagTypes' /\ RecordTypes' /\ CountTypes'
    BY <1>1, <1>2, <1>5 DEF UnitTypes, FlagTypes, RecordTypes, CountTypes
  <2> QED
    BY <1>3, <2>1, TypePartsNext
<1>7. Control'
  BY <1>1, <1>3, <1>4, StopWaiting
<1>8. call'["out"] = call["out"] /\ (Shaken => Shaken')
  BY <1>1, <1>3 DEF Others, Shaken
<1>9. Progress' /\ (Shaken' => Shaken)
  <2>1. flights \in Nat /\ Owed \in Nat
    BY <1>2 DEF CountTypes, Owed
  <2> QED
    BY <1>1, <1>3, <1>4, <1>8, <2>1 DEF IInv, Progress, Shaken
<1>10. Buffers'
  BY <1>3 DEF Buffers
<1>11. Received'
  BY <1>1, <1>5, ReceivedSame DEF IInv
<1>12. AtEnd'
  <2>1. ASSUME ~dead, call["in"] = "read"
        PROVE  delivered = spoken["data"] /\ eof
    <3>1. eof /\ net = << >> /\ rbio = << >>
      BY <1>1, <2>1 DEF IInv, AtEnd, Buffers
    <3>2. /\ Pending \in Seq(Records) /\ Len(Pending) = Len(rbio) + Len(fed) + Len(net)
      BY <1>2, PendingType
    <3>3. Len(Pending) = 0
      BY <1>5, <3>1, <3>2
    <3>4. Count(Pending, "data") = 0
      <4>1. "data" \in Records
        BY DEF Records
      <4> QED
        BY <3>2, <3>3, <4>1, CountNothing
    <3>5. delivered \in Nat /\ delivered + Count(Pending, "data") = spoken["data"]
      BY <1>2 DEF CountTypes, IInv, Received
    <3> QED
      BY <3>1, <3>4, <3>5
  <2> QED
    BY <1>1, <1>3, <2>1 DEF IInv, AtEnd
<1>13. Kept' /\ Places' = Places
  BY <1>1, <1>2, UnitsSame DEF FlagTypes
<1>14. Ordered'
  BY <1>1, <1>8, <1>9, <1>13 DEF IInv, Ordered, Alone, Numbered
<1> QED
  BY <1>6, <1>7, <1>9, <1>10, <1>11, <1>12, <1>13, <1>14 DEF IInv

\* A coroutine goes on when a read has completed.
LEMMA OnFillStep ==
  ASSUME IInv, OnFill
  PROVE  IInv'
<1>1. /\ waits["in"] = "fill" /\ op["in"] = "complete" /\ fed' = << >>
      /\ UNCHANGED <<fixed, wrote, sent, fin, peer>>
  BY DEF OnFill
<1>2. CoroControl("in") /\ chunk["in"] = << >> /\ RecordTypes /\ Control
  <2>1. CoroControl("in") /\ RecordTypes /\ Control
    BY TypeParts DEF IInv, Control, Coros
  <2> QED
    BY <1>1, <2>1 DEF CoroControl
<1>3. rbio \o fed \in Seq(Records) /\ (rbio \o fed) \o net = Pending
  <2>1. rbio \o fed \in Seq(Records)
    BY <1>2, ConcatProperties DEF RecordTypes
  <2> QED
    BY <2>1 DEF Pending
<1>4. CASE FillFailed
  BY <1>1, <1>4, FillFailedStep
<1>5. CASE call["in"] = "handshake" /\ ShakeHands(rbio \o fed) /\ UNCHANGED <<delivered, verdict>>
  <2>1. flights < Owed /\ made <= Produced(flights)
    <3>1. made \in Nat /\ made = Produced(flights) /\ flights < Owed
      BY <1>5, TypeParts DEF IInv, Progress, UnitTypes
    <3> QED
      BY <3>1
  <2> QED
    BY <1>1, <1>2, <1>3, <1>5, <2>1, HandshakeStep
<1>6. CASE call["in"] = "read" /\ SslRead(rbio \o fed) /\ UNCHANGED flights
  <2>1. Shaken
    BY <1>6 DEF IInv, Progress, Shaken
  <2> QED
    BY <1>1, <1>2, <1>3, <1>6, <2>1, ReadStep
<1> QED
  BY <1>4, <1>5, <1>6 DEF OnFill

\* The calls.
LEMMA CallStep ==
  ASSUME IInv, Handshake \/ Read \/ Write \/ ShutdownWrite
  PROVE  IInv'
<1>1. ASSUME call["in"] = "none"
      PROVE  /\ fed = << >> /\ chunk["in"] = << >>
             /\ rbio \in Seq(Records) /\ rbio \o net = Pending
  <2>1. CoroControl("in") /\ RecordTypes
    BY TypeParts DEF IInv, Control, Coros
  <2>2. waits["in"] = "none" /\ chunk["in"] = << >>
    BY <1>1, <2>1 DEF CoroControl
  <2>3. fed = << >>
    BY <2>2 DEF IInv, Buffers
  <2>4. Pending = rbio \o net
    BY <2>1, <2>3, PendingType
  <2> QED
    BY <2>1, <2>2, <2>3, <2>4 DEF RecordTypes
<1>2. CASE Handshake
  <2>1. /\ call["in"] = "none" /\ flights = 0 /\ ShakeHands(rbio)
        /\ UNCHANGED <<fixed, delivered, wrote, verdict, socket, peer>>
    BY <1>2 DEF Handshake
  <2>2. flights < Owed /\ made <= Produced(flights)
    <3>1. made = 0 /\ 0 < Owed
      BY <2>1 DEF IInv, Progress, Owed
    <3> QED
      BY <2>1, <3>1, TlsAssumption DEF Produced
  <2>3. fed' = << >> /\ UNCHANGED <<sent, fin>>
    BY <1>1, <2>1 DEF socket
  <2> QED
    BY <1>1, <2>1, <2>2, <2>3, HandshakeStep
<1>3. CASE Read
  <2>1. /\ call["in"] = "none" /\ Shaken /\ SslRead(rbio)
        /\ UNCHANGED <<fixed, flights, wrote, socket, peer>>
    BY <1>3 DEF Read
  <2>2. fed' = << >> /\ UNCHANGED <<sent, fin>>
    BY <1>1, <2>1 DEF socket
  <2> QED
    BY <1>1, <2>1, <2>2, ReadStep
<1>4. CASE Write
  <2>1. /\ call["out"] = "none" /\ Shaken
        /\ UNCHANGED <<fixed, rbio, flights, delivered, verdict, socket, peer>>
    BY <1>4 DEF Write
  <2>2. PICK n \in Sizes :
          /\ session = "tcp" => n <= Bite
          /\ made' = made + n /\ wrote' = made + n
          /\ FlushOut("write", wbio \o Units(n))
    BY <1>4 DEF Write
  <2>3. n \in Nat \ {0}
    BY TlsAssumption
  <2> QED
    BY <2>1, <2>2, <2>3, OutStep
<1>5. CASE ShutdownWrite
  <2>1. /\ call["out"] = "none" /\ Shaken /\ made' = made + 1 /\ wrote' = wrote
        /\ UNCHANGED <<fixed, rbio, flights, delivered, verdict, socket, peer>>
        /\ FlushOut("shutdown", wbio \o Units(1))
    BY <1>5 DEF ShutdownWrite
  <2>2. 1 \in Nat \ {0} /\ 1 <= Bite /\ "shutdown" # "write"
    BY TlsAssumption
  <2> QED
    BY <2>1, <2>2, OutStep
<1> QED
  BY <1>2, <1>3, <1>4, <1>5

\* shutdownWrite() is over.
LEMMA OnFinStep ==
  ASSUME IInv, OnFin
  PROVE  IInv'
<1>1. /\ UNCHANGED <<isServer, session, sent, fin, fed, net, spoken, eof, dead, chunk, wbio,
                     rbio, flights, delivered, made, wrote, reported, verdict>>
      /\ "in" \in Coros /\ "out" \in Coros /\ Owed' = Owed
      /\ waits["out"] = "fin" /\ Return("out", "ended")
  BY DEF fixed, ssl, user, socket, peer, Coros, Owed, OnFin
<1>2. TypeOK /\ Control /\ RecordTypes /\ UnitTypes /\ CountTypes /\ FlagTypes /\ Kept
  BY TypeParts DEF IInv
<1>3. /\ CoroTypes' /\ Others("out")
      /\ call'["out"] = "ended" /\ waits'["out"] = "none" /\ op'["out"] = "none"
  BY <1>1, <1>2, ReturnEffect DEF CallNames
<1>4. chunk["out"] = << >> /\ call["out"] = "shutdown"
  BY <1>1, <1>2 DEF Control, CoroControl
<1>5. TypeOK'
  <2>1. UnitTypes' /\ FlagTypes' /\ RecordTypes' /\ CountTypes'
    BY <1>1, <1>2 DEF UnitTypes, FlagTypes, RecordTypes, CountTypes
  <2> QED
    BY <1>3, <2>1, TypePartsNext
<1>6. Control'
  BY <1>1, <1>3, <1>4, StopWaiting
<1>7. call'["in"] = call["in"] /\ (Shaken' <=> Shaken) /\ Produced(flights)' = Produced(flights)
  BY <1>1, <1>3 DEF Others, Shaken, Produced
<1>8. Progress'
  BY <1>1, <1>3, <1>4, <1>7 DEF IInv, Progress
<1>9. Buffers' /\ Received' /\ AtEnd'
  <2>1. ReaderSame /\ (dead => dead')
    BY <1>1 DEF ReaderSame
  <2> QED
    BY <1>3, <2>1, ReaderKeeps
<1>10. Kept' /\ Places' = Places
  BY <1>1, <1>2, UnitsSame DEF FlagTypes
<1>11. Ordered'
  BY <1>1, <1>3, <1>7, <1>10 DEF IInv, Ordered, Alone, Numbered
<1> QED
  BY <1>5, <1>6, <1>8, <1>9, <1>10, <1>11 DEF IInv

\* The kernel completes a send: some of what was posted, or an error.
LEMMA KernelSendStep ==
  ASSUME IInv, NEW c \in Coros, KernelSend(c)
  PROVE  IInv'
<1>1. /\ UNCHANGED <<isServer, session, fin, fed, net, spoken, eof, dead, wbio, call, waits,
                     rbio, flights, delivered, made, wrote, reported, verdict>>
      /\ "in" \in Coros /\ "out" \in Coros /\ c \in {"in", "out"} /\ Owed' = Owed
      /\ waits[c] = "flush" /\ op[c] = "posted"
  BY DEF fixed, ssl, user, Coros, Owed, KernelSend, Complete
<1>2. TypeOK /\ Control /\ RecordTypes /\ UnitTypes /\ CountTypes /\ FlagTypes /\ Kept
  BY TypeParts DEF IInv
<1>3. PICK r \in Int :
        /\ Complete(c, r)
        /\ \/ (dead \/ fin) /\ r = -1 /\ UNCHANGED <<chunk, sent>>
           \/ /\ ~dead /\ ~fin /\ r > 0 /\ r \in 0 .. Len(chunk[c])
              /\ sent' = sent \o Take(chunk[c], r)
              /\ chunk' = [chunk EXCEPT ![c] = Drop(@, r)]
  <2>1. Len(chunk[c]) \in Nat
    BY <1>2, LenProperties DEF UnitTypes
  <2>2. \A n \in 1 .. Len(chunk[c]) : n \in Int /\ n > 0 /\ n \in 0 .. Len(chunk[c])
    BY <2>1
  <2>3. -1 \in Int
    OBVIOUS
  <2> QED
    BY <2>2, <2>3 DEF KernelSend
<1>4. /\ CoroTypes' /\ Others(c) /\ op'[c] = "complete" /\ res'[c] = r
  BY <1>1, <1>2, <1>3 DEF Complete, TypeOK, CoroTypes, CallNames, Others
<1>5. /\ UnitTypes' /\ Kept' /\ \A o \in Coros : o # c => chunk'[o] = chunk[o]
  <2>1. CASE UNCHANGED <<chunk, sent>>
    BY <1>1, <1>2, <2>1, UnitsSame DEF UnitTypes, FlagTypes
  <2>2. CASE /\ r \in 0 .. Len(chunk[c])
             /\ sent' = sent \o Take(chunk[c], r)
             /\ chunk' = [chunk EXCEPT ![c] = Drop(@, r)]
    <3>1. UNCHANGED <<made, wbio, dead, fin>>
      BY <1>1
    <3>2. \A o \in Coros : o # c => chunk'[o] = chunk[o]
      BY <1>2, <2>2 DEF UnitTypes
    <3> QED
      BY <1>2, <2>2, <3>1, <3>2, KeptSends
  <2> QED
    BY <1>3, <2>1, <2>2
<1>6. TypeOK'
  <2>1. FlagTypes' /\ RecordTypes' /\ CountTypes'
    BY <1>1, <1>2 DEF FlagTypes, RecordTypes, CountTypes
  <2> QED
    BY <1>4, <1>5, <2>1, TypePartsNext
<1>7. Control'
  <2>1. CoroControl(c)
    BY <1>2 DEF Control
  <2>2. CoroControl(c)'
    BY <1>1, <1>3, <1>4, <2>1 DEF CoroControl
  <2>3. fin' => waits'["out"] = "fin" \/ call'["out"] = "ended"
    BY <1>1, <1>2 DEF Control
  <2> QED
    BY <1>1, <1>2, <1>4, <1>5, <2>2, <2>3, ControlStep
<1>8. Progress' /\ (Shaken' <=> Shaken)
  <2>1. Produced(flights)' = Produced(flights) /\ (Shaken' <=> Shaken)
    BY <1>1 DEF Produced, Shaken
  <2> QED
    BY <1>1, <2>1 DEF IInv, Progress
<1>9. Buffers' /\ Received' /\ AtEnd'
  <2>1. fed = << >> \/ c = "out"
    BY <1>1 DEF IInv, Buffers
  <2>2. Buffers'
    BY <1>1, <1>4, <2>1 DEF IInv, Buffers, Others
  <2>3. Received'
    BY <1>1, ReceivedSame DEF IInv
  <2>4. AtEnd'
    BY <1>1, <1>4 DEF IInv, AtEnd, Others
  <2> QED
    BY <2>2, <2>3, <2>4
<1>10. Ordered'
  <2>1. Ordered /\ (Alone' <=> Alone)
    BY <1>1 DEF IInv, Alone
  <2>2. CASE UNCHANGED <<chunk, sent>>
    <3>1. Places' = Places
      BY <1>1, <2>2 DEF Places
    <3> QED
      BY <1>1, <1>8, <2>1, <2>2, <3>1 DEF Ordered, Numbered
  <2>3. CASE /\ ~dead /\ r > 0 /\ r \in 0 .. Len(chunk[c])
             /\ sent' = sent \o Take(chunk[c], r)
             /\ chunk' = [chunk EXCEPT ![c] = Drop(@, r)]
    <3>1. ASSUME c = "out" PROVE Shaken
      <4>1. call["out"] # "none"
        BY <1>1, <1>2, <3>1 DEF Control, CoroControl
      <4> QED
        BY <4>1 DEF IInv, Progress
    <3> SUFFICES ASSUME Alone
                 PROVE  Ordered'
      BY <2>1 DEF Ordered
    <3>2. /\ Numbered(Places) /\ Len(Places) = made /\ reported <= Len(sent)
          /\ Shaken => chunk["in"] = << >> /\ wbio = << >>
          /\ call["out"] = "write" => wrote = made
      BY <2>1, <2>3 DEF Ordered
    <3>3. /\ wbio' = wbio /\ (c = "out" => chunk["in"] = << >>)
      BY <1>1, <3>1, <3>2
    <3>4. Places' = Places /\ Numbered(sent') /\ Len(sent) <= Len(sent')
      BY <1>2, <1>5, <2>3, <3>2, <3>3, PlacesSends
    <3>5. Shaken => c = "out"
      BY <1>1, <2>3, <3>2
    <3>6. Shaken' => chunk'["in"] = << >> /\ wbio' = << >>
      BY <1>1, <1>5, <1>8, <3>2, <3>5
    <3>7. reported' <= Len(sent')
      <4>1. reported \in Nat /\ Len(sent) \in Nat /\ Len(sent') \in Nat
        BY <1>2, <1>5, LenProperties DEF CountTypes, UnitTypes
      <4> QED
        BY <1>1, <3>2, <3>4, <4>1
    <3> QED
      BY <1>1, <3>2, <3>4, <3>6, <3>7 DEF Ordered, Numbered
  <2> QED
    BY <1>3, <2>2, <2>3
<1> QED
  BY <1>5, <1>6, <1>7, <1>8, <1>9, <1>10 DEF IInv

\* A completion of a read or of a FIN, and a step of the peer, move no unit.
LEMMA NoUnitMoves ==
  ASSUME IInv, UNCHANGED <<isServer, session, call, waits, flights, wrote, reported,
                           sent, chunk, wbio, made>>,
         dead => dead', fin => fin', FlagTypes', spoken'["update"] = 0 => spoken["update"] = 0
  PROVE  Progress' /\ Kept' /\ Ordered' /\ UnitTypes'
<1>1. /\ UnitTypes /\ FlagTypes /\ Kept /\ Owed' = Owed
      /\ Produced(flights)' = Produced(flights) /\ (Shaken' <=> Shaken)
  BY TypeParts DEF IInv, Owed, Produced, Shaken
<1>2. Progress'
  BY <1>1 DEF IInv, Progress
<1>3. Kept' /\ Places' = Places
  BY <1>1, UnitsSame DEF FlagTypes
<1>4. Ordered'
  BY <1>1, <1>3 DEF IInv, Ordered, Alone, Numbered
<1>5. UnitTypes'
  BY <1>1 DEF UnitTypes
<1> QED
  BY <1>2, <1>3, <1>4, <1>5

\* The kernel completes a read.
LEMMA KernelFillStep ==
  ASSUME IInv, KernelFill
  PROVE  IInv'
<1>1. /\ UNCHANGED <<isServer, session, fin, spoken, eof, dead, wbio, call, waits, chunk, sent,
                     rbio, flights, delivered, made, wrote, reported, verdict>>
      /\ "in" \in Coros /\ "out" \in Coros /\ Owed' = Owed
      /\ waits["in"] = "fill" /\ op["in"] = "posted"
  BY DEF fixed, ssl, user, Coros, Owed, KernelFill, Complete
<1>2. TypeOK /\ Control /\ RecordTypes /\ UnitTypes /\ CountTypes /\ FlagTypes /\ Kept
  BY TypeParts DEF IInv
<1>3. fed = << >>
  BY <1>1 DEF IInv, Buffers
<1>4. PICK r \in Int :
        /\ Complete("in", r)
        /\ \/ /\ r > 0 /\ r \in 0 .. Len(net)
              /\ fed' = Take(net, r) /\ net' = Drop(net, r)
           \/ UNCHANGED <<fed, net>> /\ (dead \/ (eof /\ net = << >>))
  <2>1. Len(net) \in Nat
    BY <1>2, LenProperties DEF RecordTypes
  <2>2. \A n \in 1 .. Len(net) : n \in Int /\ n > 0 /\ n \in 0 .. Len(net)
    BY <2>1
  <2>3. -1 \in Int /\ 0 \in Int
    OBVIOUS
  <2> QED
    BY <2>2, <2>3 DEF KernelFill
<1>5. /\ CoroTypes' /\ Others("in") /\ op'["in"] = "complete" /\ res'["in"] = r
  BY <1>1, <1>2, <1>4 DEF Complete, TypeOK, CoroTypes, CallNames, Others
<1>6. RecordTypes' /\ Pending' = Pending
  <2>1. CASE UNCHANGED <<fed, net>>
    BY <1>1, <1>2, <2>1 DEF RecordTypes, Pending
  <2>2. CASE r \in 0 .. Len(net) /\ fed' = Take(net, r) /\ net' = Drop(net, r)
    <3>1. fed' \in Seq(Records) /\ net' \in Seq(Records) /\ fed' \o net' = net
      BY <1>2, <2>2, TakeDrop DEF RecordTypes
    <3>2. rbio \in Seq(Records)
      BY <1>2 DEF RecordTypes
    <3>3. (rbio \o fed') \o net' = rbio \o (fed' \o net')
      BY <3>1, <3>2, RecordsAssoc
    <3>4. Pending = rbio \o net
      BY <1>2, <1>3, PendingType
    <3> QED
      BY <1>1, <3>1, <3>2, <3>3, <3>4 DEF RecordTypes, Pending
  <2> QED
    BY <1>4, <2>1, <2>2
<1>7. TypeOK' /\ FlagTypes'
  <2>1. FlagTypes' /\ CountTypes' /\ UnitTypes'
    BY <1>1, <1>2 DEF FlagTypes, CountTypes, UnitTypes
  <2> QED
    BY <1>5, <1>6, <2>1, TypePartsNext
<1>8. Control'
  <2>1. CoroControl("in")
    BY <1>1, <1>2 DEF Control
  <2>2. CoroControl("in")'
    BY <1>1, <1>5, <2>1 DEF CoroControl
  <2>3. fin' => waits'["out"] = "fin" \/ call'["out"] = "ended"
    BY <1>1, <1>2 DEF Control
  <2> QED
    BY <1>1, <1>2, <1>5, <2>2, <2>3, ControlStep
<1>9. Progress' /\ Kept' /\ Ordered'
  BY <1>1, <1>7, NoUnitMoves
<1>10. Buffers'
  BY <1>1, <1>3, <1>4, <1>5 DEF IInv, Buffers
<1>11. Received'
  BY <1>1, <1>6 DEF IInv, Received
<1>12. AtEnd'
  BY <1>1, <1>4, <1>5 DEF IInv, AtEnd
<1> QED
  BY <1>7, <1>8, <1>9, <1>10, <1>11, <1>12 DEF IInv

\* The kernel completes the FIN.
LEMMA KernelFinStep ==
  ASSUME IInv, KernelFin
  PROVE  IInv'
<1>1. /\ UNCHANGED <<isServer, session, spoken, eof, dead, wbio, call, waits, chunk, sent, fed,
                     net, rbio, flights, delivered, made, wrote, reported, verdict>>
      /\ "in" \in Coros /\ "out" \in Coros /\ fin' = TRUE
      /\ waits["out"] = "fin" /\ op["out"] = "posted" /\ Complete("out", 0)
  BY DEF fixed, ssl, user, Coros, KernelFin, Complete
<1>2. TypeOK /\ Control /\ RecordTypes /\ UnitTypes /\ CountTypes /\ FlagTypes /\ Kept
  BY TypeParts DEF IInv
<1>3. /\ CoroTypes' /\ Others("out") /\ op'["out"] = "complete"
  BY <1>1, <1>2 DEF Complete, TypeOK, CoroTypes, CallNames, Others
<1>4. TypeOK' /\ FlagTypes'
  <2>1. FlagTypes' /\ CountTypes' /\ UnitTypes' /\ RecordTypes'
    BY <1>1, <1>2 DEF FlagTypes, CountTypes, UnitTypes, RecordTypes
  <2> QED
    BY <1>3, <2>1, TypePartsNext
<1>5. Control'
  <2>1. CoroControl("out")
    BY <1>1, <1>2 DEF Control
  <2>2. CoroControl("out")'
    BY <1>1, <1>3, <2>1 DEF CoroControl
  <2> QED
    BY <1>1, <1>2, <1>3, <2>2, ControlStep
<1>6. Progress' /\ Kept' /\ Ordered'
  BY <1>1, <1>4, NoUnitMoves
<1>7. Buffers' /\ Received' /\ AtEnd'
  <2>1. ReaderSame /\ (dead => dead')
    BY <1>1 DEF ReaderSame
  <2> QED
    BY <1>3, <2>1, ReaderKeeps
<1> QED
  BY <1>4, <1>5, <1>6, <1>7 DEF IInv

\* A record the peer sends is the last one pending.
LEMMA PendingAppend ==
  ASSUME RecordTypes, NEW k \in Records, net' = Append(net, k), rbio' = rbio, fed' = fed
  PROVE  /\ RecordTypes' /\ Pending' = Append(Pending, k)
         /\ Len(Pending') = Len(Pending) + 1 /\ Len(Pending) \in Nat
         /\ \A i \in 1 .. Len(Pending) : Pending'[i] = Pending[i]
         /\ Pending'[Len(Pending) + 1] = k
<1>1. /\ Pending \in Seq(Records) /\ rbio \o fed \in Seq(Records) /\ net \in Seq(Records)
  BY PendingType, ConcatProperties DEF RecordTypes
<1>2. net' \in Seq(Records)
  BY <1>1, AppendProperties
<1>3. Pending' = Append(Pending, k)
  <2> DEFINE b == rbio \o fed
  <2>1. Pending = b \o net /\ Pending' = b \o Append(net, k) /\ b \in Seq(Records)
    BY <1>1 DEF Pending
  <2> HIDE DEF b
  <2>2. b \o Append(net, k) = Append(b \o net, k)
    BY <1>1, <2>1
  <2> QED
    BY <2>1, <2>2
<1>4. /\ Len(Append(Pending, k)) = Len(Pending) + 1 /\ Len(Pending) \in Nat
      /\ \A i \in 1 .. Len(Pending) : Append(Pending, k)[i] = Pending[i]
      /\ Append(Pending, k)[Len(Pending) + 1] = k
  BY <1>1, AppendProperties, LenProperties
<1> QED
  BY <1>2, <1>3, <1>4 DEF RecordTypes

\* It counts as one of its kind.
LEMMA CountAppend ==
  ASSUME NEW s \in Seq(Records), NEW k \in Records, NEW l \in Records
  PROVE  Count(Append(s, k), l) = IF k = l THEN Count(s, l) + 1 ELSE Count(s, l)
<1> DEFINE t == <<k>>
<1>1. t \in Seq(Records) /\ Len(t) = 1 /\ \A i \in 1 .. Len(t) : t[i] = k
  OBVIOUS
<1>2. Append(s, k) = s \o t
  OBVIOUS
<1> HIDE DEF t
<1>3. Count(s \o t, l) = Count(s, l) + Count(t, l)
  BY <1>1, CountConcat
<1>4. Count(s, l) \in Nat
  BY CountType
<1>5. CASE k = l
  <2>1. Count(t, l) = 1
    BY <1>1, <1>5, CountUniform
  <2> QED
    BY <1>2, <1>3, <1>5, <2>1
<1>6. CASE k # l
  <2>1. \A i \in 1 .. Len(t) : t[i] # l
    BY <1>1, <1>6
  <2>2. Count(t, l) = 0
    BY <1>1, <2>1, CountType
  <2> QED
    BY <1>2, <1>3, <1>4, <1>6, <2>2
<1> QED
  BY <1>5, <1>6

\* The peer sends a record.
LEMMA SpeakStep ==
  ASSUME IInv, NEW k \in Records, Speak(k), k = "flight" => spoken["flight"] < Owed
  PROVE  IInv'
<1>1. /\ UNCHANGED <<isServer, session, fin, fed, eof, dead, wbio, call, waits, op, res, chunk,
                     sent, rbio, flights, delivered, made, wrote, reported, verdict>>
      /\ "in" \in Coros /\ "out" \in Coros /\ Owed' = Owed
      /\ net' = Append(net, k) /\ spoken' = [spoken EXCEPT ![k] = @ + 1]
      /\ ~eof /\ ~dead /\ spoken["notify"] = 0
  BY DEF fixed, ssl, user, socket, Coros, Owed, Speak, Untouched, CanSpeak
<1>2. TypeOK /\ Control /\ CoroTypes /\ RecordTypes /\ UnitTypes /\ CountTypes /\ FlagTypes
  BY TypeParts DEF IInv
<1>3. /\ RecordTypes' /\ Pending' = Append(Pending, k)
      /\ Len(Pending') = Len(Pending) + 1 /\ Len(Pending) \in Nat
      /\ \A i \in 1 .. Len(Pending) : Pending'[i] = Pending[i]
      /\ Pending'[Len(Pending) + 1] = k
  BY <1>1, <1>2, PendingAppend
<1>4. /\ spoken' \in [Records -> Nat] /\ spoken'[k] = spoken[k] + 1
      /\ \A l \in Records : spoken[l] \in Nat
      /\ \A l \in Records : l # k => spoken'[l] = spoken[l]
      /\ "flight" \in Records /\ "data" \in Records /\ "update" \in Records /\ "notify" \in Records
  BY <1>1, <1>2 DEF CountTypes, Records
<1>5. TypeOK' /\ FlagTypes'
  <2>1. CoroTypes' /\ FlagTypes' /\ UnitTypes'
    BY <1>1, <1>2 DEF CoroTypes, FlagTypes, UnitTypes
  <2>2. CountTypes'
    BY <1>1, <1>2, <1>4 DEF CountTypes
  <2> QED
    BY <1>3, <2>1, <2>2, TypePartsNext
<1>6. Control'
  BY <1>1, <1>2 DEF Control, CoroControl
<1>7. Progress' /\ Kept' /\ Ordered'
  <2>1. spoken'["update"] = 0 => spoken["update"] = 0
    BY <1>4
  <2> QED
    BY <1>1, <1>5, <2>1, NoUnitMoves
<1>8. Buffers'
  BY <1>1 DEF IInv, Buffers
<1>9. Received'
  <2>1. /\ flights + Count(Pending, "flight") = spoken["flight"]
        /\ spoken["flight"] <= Owed
        /\ delivered + Count(Pending, "data") = spoken["data"]
    BY DEF IInv, Received
  <2>2. \A i \in 1 .. Len(Pending) :
          /\ Pending[i] = "update" => spoken["update"] > 0
          /\ Pending[i] = "notify" => spoken["notify"] > 0 /\ i = Len(Pending)
    BY DEF IInv, Received
  <2>3. \A l \in Records :
          /\ Count(Pending', l) = IF k = l THEN Count(Pending, l) + 1 ELSE Count(Pending, l)
          /\ Count(Pending, l) \in Nat
    <3>1. Pending \in Seq(Records)
      BY <1>2, PendingType
    <3> QED
      BY <1>3, <3>1, CountAppend, CountType
  <2>4. flights \in Nat /\ delivered \in Nat
    BY <1>2 DEF CountTypes
  <2>5. /\ flights' + Count(Pending', "flight") = spoken'["flight"]
        /\ delivered' + Count(Pending', "data") = spoken'["data"]
    <3> DEFINE f == Count(Pending, "flight")
               d == Count(Pending, "data")
    <3>1. "flight" \in Records /\ "data" \in Records /\ "data" # "flight"
      BY DEF Records
    <3>2. /\ f \in Nat /\ d \in Nat
          /\ Count(Pending', "flight") = IF k = "flight" THEN f + 1 ELSE f
          /\ Count(Pending', "data") = IF k = "data" THEN d + 1 ELSE d
      BY <2>3, <3>1
    <3>3. flights + f = spoken["flight"] /\ delivered + d = spoken["data"]
      BY <2>1
    <3> HIDE DEF f, d
    <3>4. /\ flights' = flights /\ delivered' = delivered
          /\ spoken'["flight"] = IF k = "flight" THEN spoken["flight"] + 1 ELSE spoken["flight"]
          /\ spoken'["data"] = IF k = "data" THEN spoken["data"] + 1 ELSE spoken["data"]
      BY <1>1, <1>4, <3>1
    <3> QED
      BY <2>4, <3>2, <3>3, <3>4
  <2>6. spoken'["flight"] <= Owed'
    <3>1. Owed \in Nat
      BY DEF Owed
    <3> QED
      BY <1>1, <1>4, <2>1, <3>1
  <2>7. ASSUME NEW i \in 1 .. Len(Pending')
        PROVE  /\ Pending'[i] = "update" => spoken'["update"] > 0
               /\ Pending'[i] = "notify" => spoken'["notify"] > 0 /\ i = Len(Pending')
    <3>1. CASE i = Len(Pending) + 1
      BY <1>3, <1>4, <3>1
    <3>2. CASE i # Len(Pending) + 1
      <4>1. i \in 1 .. Len(Pending) /\ Pending'[i] = Pending[i]
        BY <1>3, <3>2
      <4>2. Pending[i] # "notify"
        BY <1>1, <2>2, <4>1
      <4> QED
        BY <1>4, <2>2, <4>1, <4>2
    <3> QED
      BY <3>1, <3>2
  <2> QED
    BY <2>5, <2>6, <2>7 DEF Received
<1>10. AtEnd'
  BY <1>1 DEF IInv, AtEnd
<1> QED
  BY <1>5, <1>6, <1>7, <1>8, <1>9, <1>10 DEF IInv

\* The peer ends its stream, or resets the connection.
LEMMA PeerEndsStep ==
  ASSUME IInv, PeerEnds
  PROVE  IInv'
<1>1. /\ UNCHANGED <<isServer, session, fin, fed, net, spoken, wbio, call, waits, op, res, chunk,
                     sent, rbio, flights, delivered, made, wrote, reported, verdict>>
      /\ "in" \in Coros /\ "out" \in Coros
      /\ eof' \in BOOLEAN /\ dead' \in BOOLEAN /\ (eof => eof') /\ (dead => dead')
  <2>1. eof \in BOOLEAN /\ dead \in BOOLEAN
    BY DEF IInv, TypeOK
  <2>2. Untouched /\ UNCHANGED <<net, spoken>>
    BY DEF PeerEnds
  <2>3. (eof' = TRUE /\ dead' = dead) \/ (dead' = TRUE /\ eof' = eof)
    BY DEF PeerEnds
  <2>4. eof' \in BOOLEAN /\ dead' \in BOOLEAN /\ (eof => eof') /\ (dead => dead')
    BY <2>1, <2>3, Zenon
  <2> QED
    BY <2>2, <2>4 DEF fixed, ssl, user, socket, Coros, Untouched
<1>2. TypeOK /\ Control /\ CoroTypes /\ RecordTypes /\ UnitTypes /\ CountTypes /\ FlagTypes
  BY TypeParts DEF IInv
<1>3. TypeOK' /\ FlagTypes'
  <2>1. CoroTypes' /\ FlagTypes' /\ UnitTypes' /\ RecordTypes' /\ CountTypes'
    BY <1>1, <1>2 DEF CoroTypes, FlagTypes, UnitTypes, RecordTypes, CountTypes
  <2> QED
    BY <2>1, TypePartsNext
<1>4. Control'
  BY <1>1, <1>2 DEF Control, CoroControl
<1>5. Progress' /\ Kept' /\ Ordered'
  BY <1>1, <1>3, NoUnitMoves
<1>6. Buffers' /\ Received' /\ AtEnd'
  <2>1. Received'
    BY <1>1, ReceivedSame DEF IInv
  <2>2. Buffers' /\ AtEnd'
    BY <1>1 DEF IInv, Buffers, AtEnd
  <2> QED
    BY <2>1, <2>2
<1> QED
  BY <1>3, <1>4, <1>5, <1>6 DEF IInv

-----------------------------------------------------------------------------
(* The theorems.                                                            *)

\* Nothing is under way when the stream is created.
LEMMA InitIInv == Init => IInv
<1> SUFFICES ASSUME Init PROVE IInv
  OBVIOUS
<1>1. /\ call = [c \in Coros |-> "none"] /\ waits = [c \in Coros |-> "none"]
      /\ op = [c \in Coros |-> "none"] /\ res = [c \in Coros |-> 0]
      /\ chunk = [c \in Coros |-> << >>]
      /\ wbio = << >> /\ rbio = << >> /\ fed = << >>
      /\ made = 0 /\ flights = 0 /\ delivered = 0 /\ wrote = 0 /\ reported = 0
      /\ verdict = "none" /\ sent = << >> /\ fin = FALSE
      /\ net = << >> /\ spoken = [k \in Records |-> 0] /\ eof = FALSE /\ dead = FALSE
      /\ "in" \in Coros /\ "out" \in Coros
  BY DEF Init, Coros
<1>2. TypeOK
  <2>1. CoroTypes
    BY <1>1 DEF CoroTypes, CallNames
  <2>2. RecordTypes /\ UnitTypes /\ CountTypes
    BY <1>1 DEF RecordTypes, UnitTypes, CountTypes
  <2>3. FlagTypes
    BY <1>1 DEF Init, FlagTypes
  <2> QED
    BY <2>1, <2>2, <2>3, TypeParts
<1>3. Control
  BY <1>1 DEF Control, CoroControl
<1>4. Progress
  BY <1>1 DEF Progress, Owed
<1>5. Buffers
  BY <1>1 DEF Buffers
<1>6. Received
  <2>1. Pending \in Seq(Records) /\ Len(Pending) = 0
    <3>1. RecordTypes /\ Len(rbio) = 0 /\ Len(fed) = 0 /\ Len(net) = 0
      BY <1>1 DEF RecordTypes
    <3> QED
      BY <3>1, PendingType
  <2>2. \A k \in Records : Count(Pending, k) = 0 /\ spoken[k] = 0
    BY <1>1, <2>1, CountNothing
  <2>3. "flight" \in Records /\ "data" \in Records
    BY DEF Records
  <2> QED
    BY <1>1, <2>1, <2>2, <2>3 DEF Received, Owed
<1>7. AtEnd
  BY <1>1 DEF AtEnd
<1>8. Kept
  BY <1>1 DEF Kept
<1>9. Ordered
  <2>1. Places = << >>
    BY <1>1 DEF Places
  <2> QED
    BY <1>1, <2>1 DEF Ordered, Numbered
<1> QED
  BY <1>2, <1>3, <1>4, <1>5, <1>6, <1>7, <1>8, <1>9 DEF IInv

\* Every step preserves the invariant.
LEMMA NextIInv == IInv /\ [Next]_vars => IInv'
<1> SUFFICES ASSUME IInv, [Next]_vars PROVE IInv'
  OBVIOUS
<1>1. CASE Handshake \/ Read \/ Write \/ ShutdownWrite
  BY <1>1, CallStep
<1>2. ASSUME NEW c \in Coros, Run(c) PROVE IInv'
  BY <1>2, OnFlushStep, OnFillStep, OnFinStep DEF Run
<1>3. ASSUME NEW c \in Coros, Kernel(c) PROVE IInv'
  BY <1>3, KernelSendStep, KernelFillStep, KernelFinStep DEF Kernel
<1>4. CASE PeerFlight
  <2>1. "flight" \in Records /\ Speak("flight") /\ spoken["flight"] < Owed
    BY <1>4 DEF PeerFlight, Records
  <2> QED
    BY <2>1, SpeakStep
<1>5. CASE PeerSpeaks
  <2>1. PICK k \in {"data", "update", "notify"} : Speak(k)
    BY <1>5 DEF PeerSpeaks
  <2>2. k \in Records /\ k # "flight"
    BY DEF Records
  <2> QED
    BY <2>1, <2>2, SpeakStep
<1>6. CASE PeerEnds
  BY <1>6, PeerEndsStep
<1>7. CASE UNCHANGED vars
  <2>1. UNCHANGED <<isServer, session, call, waits, op, res, chunk, wbio, rbio, made, flights,
                    delivered, wrote, reported, verdict, sent, fin, fed, net, spoken, eof, dead>>
    BY <1>7 DEF vars, fixed, ssl, user, socket, peer
  <2>2. TypeOK /\ FlagTypes /\ Kept
    BY TypeParts DEF IInv
  <2>3. TypeOK' /\ FlagTypes'
    BY <2>1, <2>2 DEF TypeOK, FlagTypes
  <2>4. Control' /\ Buffers' /\ AtEnd'
    BY <2>1 DEF IInv, Control, CoroControl, Buffers, AtEnd
  <2>5. Received'
    BY <2>1, ReceivedSame DEF IInv
  <2>6. (dead => dead') /\ (fin => fin')
    BY <2>1
  <2>7. Progress' /\ Kept' /\ Ordered'
    BY <2>1, <2>3, <2>6, NoUnitMoves
  <2> QED
    BY <2>3, <2>4, <2>5, <2>7 DEF IInv
<1> QED
  BY <1>1, <1>2, <1>3, <1>4, <1>5, <1>6, <1>7 DEF Next

\* The inductive invariant of the stream.
THEOREM Invariance == Spec => []IInv
BY InitIInv, NextIInv, PTL DEF Spec

\* Every variable has its type.
THEOREM TypeCorrect == Spec => []TypeOK
<1>1. IInv => TypeOK
  BY DEF IInv
<1> QED
  BY <1>1, Invariance, PTL

\* A unit in one of two places is in their concatenation: where every unit made
\* is kept, the four places together have each of them.
LEMMA KeptIsConserved == IInv => Conserved
<1> SUFFICES ASSUME IInv, ~dead, ~fin
             PROVE  /\ Len(Places) = made
                    /\ \A u \in 1 .. made : \E i \in 1 .. made : Places[i] = u
  BY DEF Conserved, Places
<1>1. UnitTypes /\ Kept
  BY TypeParts DEF IInv
<1>2. Len(Places) = made
  BY <1>1, PlacesType DEF Kept
<1>3. ASSUME NEW u \in 1 .. made PROVE Occurs(u, Places)
  <2> DEFINE a == sent \o chunk["in"]
             b == sent \o chunk["in"] \o chunk["out"]
  <2>1. /\ sent \in Seq(Nat) /\ chunk["in"] \in Seq(Nat) /\ chunk["out"] \in Seq(Nat)
        /\ wbio \in Seq(Nat) /\ a \in Seq(Nat) /\ b \in Seq(Nat)
    BY <1>1, PlacesType DEF UnitTypes, Coros
  <2>2. Occurs(u, a) <=> Occurs(u, sent) \/ Occurs(u, chunk["in"])
    BY <2>1, OccursConcat
  <2>3. Occurs(u, b) <=> Occurs(u, a) \/ Occurs(u, chunk["out"])
    <3> HIDE DEF a
    <3>1. Occurs(u, a \o chunk["out"]) <=> Occurs(u, a) \/ Occurs(u, chunk["out"])
      BY <2>1, OccursConcat
    <3> QED
      BY <3>1 DEF a
  <2>4. Occurs(u, Places) <=> Occurs(u, b) \/ Occurs(u, wbio)
    <3> HIDE DEF b
    <3>1. Occurs(u, b \o wbio) <=> Occurs(u, b) \/ Occurs(u, wbio)
      BY <2>1, OccursConcat
    <3> QED
      BY <3>1 DEF b, Places
  <2>5. \/ Occurs(u, sent) \/ Occurs(u, chunk["in"])
        \/ Occurs(u, chunk["out"]) \/ Occurs(u, wbio)
    BY <1>1 DEF Kept
  <2> QED
    BY <2>2, <2>3, <2>4, <2>5
<1> QED
  BY <1>2, <1>3 DEF Occurs

\* While the connection lives every unit of ciphertext is in one place, whatever
\* the interleaving of the two coroutines and however short the sends.
THEOREM UnitsConserved == Spec => []Conserved
BY Invariance, KeptIsConserved, PTL

\* Where one coroutine flushes at a time, the peer receives the ciphertext in
\* the order OpenSSL produced it.
THEOREM OrderAlone == Spec => []InOrderAlone
<1>1. IInv => InOrderAlone
  BY DEF IInv, Ordered, Alone, Numbered, InOrderAlone, InOrder
<1> QED
  BY <1>1, Invariance, PTL

\* What is left to send once the FIN is out: nothing.
LEMMA NothingAfterFin == IInv => FinIsLast
<1> SUFFICES ASSUME IInv, Alone, ~dead
             PROVE  reported <= Len(sent) /\ (fin => Len(sent) = made)
  BY DEF FinIsLast, Alone
<1>1. reported <= Len(sent) /\ Len(Places) = made
  BY DEF IInv, Ordered
<1>2. ASSUME fin PROVE Len(sent) = made
  <2>1. UnitTypes /\ Shaken /\ chunk["in"] = << >> /\ wbio = << >>
    BY <1>2, OutIdle, TypeParts DEF IInv, Ordered
  <2>2. chunk["out"] = << >>
    BY <1>2 DEF IInv, Control, CoroControl, Coros
  <2>3. Len(Places) = Len(sent) + 0 + 0 + 0 /\ Len(sent) \in Nat
    BY <2>1, <2>2, PlacesType, LenProperties DEF UnitTypes
  <2> QED
    BY <1>1, <2>3
<1> QED
  BY <1>1, <1>2

\* What writeFull has reported as written is on the socket, and the FIN follows
\* all of it, where one coroutine flushes at a time.
THEOREM FinFollowsAll == Spec => []FinIsLast
BY Invariance, NothingAfterFin, PTL

\* A read reports the end of the stream only when all data has been returned.
THEOREM EndAfterAll == Spec => []NothingUnread
<1>1. IInv => NothingUnread
  BY DEF IInv, AtEnd, NothingUnread
<1> QED
  BY <1>1, Invariance, PTL
=============================================================================
