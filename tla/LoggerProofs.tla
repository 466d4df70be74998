---------------------------- MODULE LoggerProofs ----------------------------
(***************************************************************************)
(* The safety properties of the logger, for any number of threads, any      *)
(* queue limit and any batch size.                                          *)
(***************************************************************************)
EXTENDS Logger, SequenceTheorems, TLAPS

-----------------------------------------------------------------------------
(* Type correctness.                                                        *)

\* Taking a batch cuts the queue in two: its parts, put together again, are the
\* queue, and what remains is shorter.
LEMMA BatchOfQueue ==
  ASSUME TypeOK, Check, queue # << >>
  PROVE  /\ batch' \in Seq(Nat) /\ queue' \in Seq(Nat)
         /\ batch' \o queue' = queue
         /\ Len(queue') <= Len(queue)
<1> DEFINE take == IF Len(queue) < kBatchLimit THEN Len(queue) ELSE kBatchLimit
<1>1. queue \in Seq(Nat) /\ Len(queue) \in Nat /\ take \in 0 .. Len(queue)
  BY LoggerAssumption DEF TypeOK
<1>2. /\ batch' = SubSeq(queue, 1, take)
      /\ queue' = SubSeq(queue, take + 1, Len(queue))
  BY DEF Check
<1> HIDE DEF take
<1>a. \A i \in 1 .. Len(queue) : queue[i] \in Nat
  BY <1>1, ElementOfSeq
<1>b. batch' \in Seq(Nat)
  <2>1. \A i \in 1 .. take : queue[i] \in Nat
    BY <1>1, <1>a
  <2> QED
    BY <1>1, <1>2, <2>1, SubSeqProperties
<1>c. /\ queue' \in Seq(Nat)
      /\ Len(queue') = IF take + 1 <= Len(queue) THEN Len(queue) - (take + 1) + 1 ELSE 0
  <2>1. \A i \in take + 1 .. Len(queue) : queue[i] \in Nat
    BY <1>1, <1>a
  <2>2. take + 1 \in Int /\ Len(queue) \in Int
    BY <1>1
  <2> QED
    BY <1>2, <2>1, <2>2, SubSeqProperties
<1>3. batch' \in Seq(Nat) /\ queue' \in Seq(Nat) /\ Len(queue') <= Len(queue)
  BY <1>1, <1>b, <1>c
<1>4. \A m \in 1 .. Len(queue) + 1 : \A k \in m - 1 .. Len(queue) :
        \A n \in k .. Len(queue) :
          SubSeq(queue, m, k) \o SubSeq(queue, k + 1, n) = SubSeq(queue, m, n)
  BY <1>1, ConcatAdjacentSubSeq
<1>5. SubSeq(queue, 1, Len(queue)) = queue
  BY <1>1, SubSeqFull
<1>6. SubSeq(queue, 1, take) \o SubSeq(queue, take + 1, Len(queue))
        = SubSeq(queue, 1, Len(queue))
  <2>1. /\ 1 \in 1 .. Len(queue) + 1
        /\ take \in 1 - 1 .. Len(queue)
        /\ Len(queue) \in take .. Len(queue)
    BY <1>1
  <2> QED
    BY <1>4, <2>1
<1>7. batch' \o queue' = queue
  BY <1>2, <1>5, <1>6
<1> QED
  BY <1>3, <1>7

\* The beginning of a batch.
LEMMA Beginning ==
  ASSUME NEW t \in Seq(Nat), NEW n \in 0 .. Len(t)
  PROVE  /\ SubSeq(t, 1, n) \in Seq(Nat) /\ Len(SubSeq(t, 1, n)) = n
         /\ \A i \in 1 .. n : SubSeq(t, 1, n)[i] = t[i]
         /\ SubSeq(t, 1, Len(t)) = t
<1>1. \A i \in 1 .. n : t[i] \in Nat
  BY ElementOfSeq
<1>2. SubSeq(t, 1, n) \in Seq(Nat) /\ Len(SubSeq(t, 1, n)) = n
  BY <1>1, SubSeqProperties
<1>3. \A i \in 1 .. n : SubSeq(t, 1, n)[i] = t[i]
  BY <1>1, <1>2, SubSeqProperties
<1> QED
  BY <1>2, <1>3, SubSeqFull

\* TypeOK is an invariant of the logger: the queue never exceeds its limit.
THEOREM TypeCorrect == Spec => []TypeOK
<1> USE LoggerAssumption DEF output, history
<1>1. Init => TypeOK
  <2>1. << >> \in Seq(Nat) /\ << >> \in Seq(Int) /\ Len(<< >>) = 0
    BY EmptySeq
  <2> HAVE Init
  <2>2. caller \in [Threads -> {"idle", "notify", "notify_all", "join"}]
    BY DEF Init
  <2>3. stop \in BOOLEAN /\ fileFd \in BOOLEAN /\ cut \in SUBSET {"stderr", "file"}
    BY Zenon DEF Init
  <2>4. /\ queue \in Seq(Nat) /\ batch \in Seq(Nat) /\ stderr \in Seq(Int)
        /\ file \in Seq(Nat) /\ accepted \in Seq(Nat)
    BY <2>1, Zenon DEF Init
  <2>5. Len(queue) <= kMaxQueueSize
    BY <2>1 DEF Init
  <2>6. /\ dropped \in Nat /\ reported \in Nat /\ lost \in Nat /\ atStop \in Nat
        /\ worker \in {"check", "asleep", "write", "file", "report", "done"}
    BY DEF Init
  <2> QED
    BY <2>2, <2>3, <2>4, <2>5, <2>6 DEF TypeOK
<1>2. TypeOK /\ [Next]_vars => TypeOK'
  <2> SUFFICES ASSUME TypeOK, [Next]_vars PROVE TypeOK'
    OBVIOUS
  <2>1. ASSUME NEW t \in Threads, Enqueue(t) PROVE TypeOK'
    <3>1. CASE Len(queue) >= kMaxQueueSize
      BY <2>1, <3>1 DEF TypeOK, Enqueue
    <3>2. CASE Len(queue) < kMaxQueueSize
      <4> DEFINE line == Len(accepted) + lost + 1
      <4>1. line \in Nat /\ Len(queue) \in Nat
        BY DEF TypeOK
      <4>2. /\ Append(queue, line) \in Seq(Nat)
            /\ Len(Append(queue, line)) = Len(queue) + 1
            /\ Append(accepted, line) \in Seq(Nat)
        BY <4>1, AppendProperties DEF TypeOK
      <4>3. /\ queue' = Append(queue, line) /\ accepted' = Append(accepted, line)
            /\ caller' = [caller EXCEPT ![t] = "notify"]
            /\ UNCHANGED <<dropped, lost, stop, fileFd, worker, batch, stderr,
                           file, reported, cut, atStop>>
        BY <2>1, <3>2 DEF Enqueue
      <4> HIDE DEF line
      <4>4. queue' \in Seq(Nat) /\ Len(queue') <= kMaxQueueSize
        BY <3>2, <4>1, <4>2, <4>3
      <4> QED
        BY <4>2, <4>3, <4>4 DEF TypeOK
    <3> QED
      BY <3>1, <3>2 DEF TypeOK
  <2>2. ASSUME NEW t \in Threads, Shutdown(t) PROVE TypeOK'
    BY <2>2 DEF TypeOK, Shutdown
  <2>3. ASSUME NEW t \in Threads, Notify(t) PROVE TypeOK'
    BY <2>3 DEF TypeOK, Notify
  <2>4. ASSUME NEW t \in Threads, Join(t) PROVE TypeOK'
    BY <2>4 DEF TypeOK, Join
  <2>5. CASE SetLogFile
    BY <2>5 DEF TypeOK, SetLogFile
  <2>6. CASE Check
    <3>1. /\ batch' \in Seq(Nat) /\ queue' \in Seq(Nat)
          /\ Len(queue') <= kMaxQueueSize
      <4>1. CASE queue = << >>
        BY <2>6, <4>1 DEF TypeOK, Check
      <4>2. CASE queue # << >>
        <5>1. batch' \in Seq(Nat) /\ queue' \in Seq(Nat) /\ Len(queue') <= Len(queue)
          BY <2>6, <4>2, BatchOfQueue
        <5>2. Len(queue') \in Nat /\ Len(queue) \in Nat /\ Len(queue) <= kMaxQueueSize
          BY <5>1 DEF TypeOK
        <5> QED
          BY <5>1, <5>2
      <4> QED
        BY <4>1, <4>2
    <3>2. worker' \in {"check", "asleep", "write", "file", "report", "done"}
      BY <2>6 DEF Check
    <3>3. UNCHANGED <<dropped, stop, fileFd, stderr, file, reported, cut, caller,
                      accepted, lost, atStop>>
      BY <2>6 DEF Check
    <3> QED
      BY <3>1, <3>2, <3>3 DEF TypeOK
  <2>7. CASE WriteStderr
    <3>1. PICK n \in 0 .. Len(batch) :
            /\ stderr' = stderr \o SubSeq(batch, 1, n)
            /\ cut' = IF n < Len(batch) THEN cut \union {"stderr"} ELSE cut
      BY <2>7 DEF WriteStderr
    <3>2. SubSeq(batch, 1, n) \in Seq(Nat)
      BY Beginning DEF TypeOK
    <3>3. stderr' \in Seq(Int) /\ cut' \in SUBSET {"stderr", "file"}
      BY <3>1, <3>2 DEF TypeOK
    <3> QED
      BY <2>7, <3>3 DEF TypeOK, WriteStderr
  <2>8. CASE WriteFile
    <3>1. CASE ~fileFd
      BY <2>8, <3>1, EmptySeq DEF TypeOK, WriteFile
    <3>2. CASE fileFd
      <4>1. PICK n \in 0 .. Len(batch) :
              /\ file' = file \o SubSeq(batch, 1, n)
              /\ cut' = IF n < Len(batch) THEN cut \union {"file"} ELSE cut
        BY <2>8, <3>2 DEF WriteFile
      <4>2. SubSeq(batch, 1, n) \in Seq(Nat)
        BY Beginning DEF TypeOK
      <4>3. file' \in Seq(Nat) /\ cut' \in SUBSET {"stderr", "file"}
        BY <4>1, <4>2 DEF TypeOK
      <4>4. batch' \in Seq(Nat)
        BY <2>8, EmptySeq DEF WriteFile
      <4> QED
        BY <2>8, <4>3, <4>4 DEF TypeOK, WriteFile
    <3> QED
      BY <3>1, <3>2
  <2>9. CASE Report
    <3>a. stderr' \in Seq(Int)
      <4>1. Notice(dropped) \in Int
        BY DEF TypeOK, Notice
      <4>2. stderr' = stderr \/ stderr' = Append(stderr, Notice(dropped))
        BY <2>9 DEF Report
      <4>3. stderr \in Seq(Int)
        BY DEF TypeOK
      <4>4. Append(stderr, Notice(dropped)) \in Seq(Int)
        BY <4>1, <4>3, AppendProperties, Zenon
      <4> QED
        BY <4>2, <4>3, <4>4, Zenon
    <3>b. cut' \in SUBSET {"stderr", "file"}
      BY <2>9 DEF TypeOK, Report
    <3>c. reported' \in Nat
      BY <2>9 DEF TypeOK, Report
    <3>1. stderr' \in Seq(Int) /\ cut' \in SUBSET {"stderr", "file"} /\ reported' \in Nat
      BY <3>a, <3>b, <3>c
    <3> QED
      BY <2>9, <3>1 DEF TypeOK, Report
  <2>10. CASE SpuriousWake
    BY <2>10 DEF TypeOK, SpuriousWake
  <2>11. CASE UNCHANGED vars
    BY <2>11 DEF TypeOK, vars
  <2> QED
    BY <2>1, <2>2, <2>3, <2>4, <2>5, <2>6, <2>7, <2>8, <2>9, <2>10, <2>11
    DEF Next, Caller, Worker
<1> QED
  BY <1>1, <1>2, PTL DEF Spec

-----------------------------------------------------------------------------
(* Nothing is lost between the queue and stderr.                            *)

\* What is on stderr, for stderr in the worker's hands, and queued.
All == (stderr \o ForStderr) \o queue

\* Every line of s was logged by now.
Logged(s) == \A i \in DOMAIN s : s[i] <= Len(accepted) + lost

\* Two sequences put together.
LEMMA TwoParts ==
  ASSUME NEW s \in Seq(Int), NEW t \in Seq(Int)
  PROVE  /\ s \o t \in Seq(Int) /\ Len(s \o t) = Len(s) + Len(t)
         /\ \A i \in 1 .. Len(s \o t) :
              (s \o t)[i] = IF i <= Len(s) THEN s[i] ELSE t[i - Len(s)]
BY ConcatProperties

\* An element of three sequences put together.
LEMMA ThreeParts ==
  ASSUME NEW s \in Seq(Int), NEW t \in Seq(Int), NEW u \in Seq(Int)
  PROVE  /\ (s \o t) \o u \in Seq(Int)
         /\ Len((s \o t) \o u) = Len(s) + Len(t) + Len(u)
         /\ \A i \in 1 .. Len((s \o t) \o u) : ((s \o t) \o u)[i] =
              IF i <= Len(s) THEN s[i]
              ELSE IF i <= Len(s) + Len(t) THEN t[i - Len(s)]
              ELSE u[i - (Len(s) + Len(t))]
<1> DEFINE st == s \o t
<1>1. /\ st \in Seq(Int) /\ Len(st) = Len(s) + Len(t)
      /\ \A i \in 1 .. Len(st) : st[i] = IF i <= Len(s) THEN s[i] ELSE t[i - Len(s)]
  BY ConcatProperties
<1> HIDE DEF st
<1>2. /\ st \o u \in Seq(Int) /\ Len(st \o u) = Len(st) + Len(u)
      /\ \A i \in 1 .. Len(st \o u) : (st \o u)[i] =
           IF i <= Len(st) THEN st[i] ELSE u[i - Len(st)]
  BY <1>1, TwoParts, Zenon
<1>3. Len(s) \in Nat /\ Len(t) \in Nat /\ Len(u) \in Nat
  OBVIOUS
<1>4. ASSUME NEW i \in 1 .. Len(st \o u)
      PROVE  (st \o u)[i] = IF i <= Len(s) THEN s[i]
                            ELSE IF i <= Len(s) + Len(t) THEN t[i - Len(s)]
                            ELSE u[i - (Len(s) + Len(t))]
  <2>1. CASE i <= Len(s) + Len(t)
    <3>1. i \in 1 .. Len(st) /\ i <= Len(st)
      BY <1>1, <1>2, <1>3, <2>1
    <3> QED
      BY <1>1, <1>2, <3>1, <2>1
  <2>2. CASE ~(i <= Len(s) + Len(t))
    BY <1>1, <1>2, <1>3, <2>2
  <2> QED
    BY <2>1, <2>2
<1> QED
  BY <1>1, <1>2, <1>4 DEF st

\* A sequence whose lines are, in order, lines of an ordered one is ordered.
LEMMA OrderedPart ==
  ASSUME NEW a \in Seq(Int), NEW b \in Seq(Int), NEW f \in [DOMAIN a -> Int],
         \A i \in DOMAIN a : IsLine(a[i]) => f[i] \in DOMAIN b /\ b[f[i]] = a[i],
         \A i, j \in DOMAIN a : i < j /\ IsLine(a[i]) /\ IsLine(a[j]) => f[i] < f[j],
         Ordered(b), Logged(b), Len(accepted) + lost \in Nat
  PROVE  Ordered(a) /\ Logged(a)
<1>1. Ordered(a)
  <2> SUFFICES ASSUME NEW i \in DOMAIN a, NEW j \in DOMAIN a,
                      i < j, IsLine(a[i]), IsLine(a[j])
               PROVE  a[i] < a[j]
    BY DEF Ordered
  <2>1. /\ f[i] \in DOMAIN b /\ b[f[i]] = a[i]
        /\ f[j] \in DOMAIN b /\ b[f[j]] = a[j]
        /\ f[i] < f[j]
    OBVIOUS
  <2>2. b[f[i]] < b[f[j]]
    BY <2>1 DEF Ordered
  <2> QED
    BY <2>1, <2>2
<1>2. ASSUME NEW i \in DOMAIN a PROVE a[i] <= Len(accepted) + lost
  <2>1. CASE IsLine(a[i])
    BY <2>1 DEF Logged
  <2>2. CASE ~IsLine(a[i])
    <3>1. a[i] \in Int
      BY ElementOfSeq
    <3> QED
      BY <2>2, <3>1 DEF IsLine
  <2> QED
    BY <2>1, <2>2
<1> QED
  BY <1>1, <1>2 DEF Logged

\* A sequence and one more element.
LEMMA OneMore ==
  ASSUME NEW s \in Seq(Int), NEW x \in Int
  PROVE  /\ s \o <<x>> \in Seq(Int) /\ Len(s \o <<x>>) = Len(s) + 1
         /\ \A i \in DOMAIN s : i \in DOMAIN (s \o <<x>>) /\ (s \o <<x>>)[i] = s[i]
         /\ (s \o <<x>>)[Len(s) + 1] = x
<1> DEFINE new == <<x>>
           all == s \o new
<1>1. new \in Seq(Int) /\ Len(new) = 1 /\ new[1] = x /\ Len(s) \in Nat
  OBVIOUS
<1> HIDE DEF new
<1>a. /\ all \in Seq(Int) /\ Len(all) = Len(s) + Len(new)
      /\ \A i \in 1 .. Len(all) : all[i] = IF i <= Len(s) THEN s[i] ELSE new[i - Len(s)]
  BY <1>1, TwoParts, Zenon
<1> HIDE DEF all
<1>2. /\ all \in Seq(Int) /\ Len(all) = Len(s) + 1
      /\ \A i \in 1 .. Len(all) : all[i] = IF i <= Len(s) THEN s[i] ELSE new[i - Len(s)]
  BY <1>1, <1>a
<1>3. DOMAIN all = 1 .. Len(s) + 1 /\ DOMAIN s = 1 .. Len(s)
  BY <1>2
<1>4. all[Len(s) + 1] = x
  BY <1>1, <1>2
<1> QED
  BY <1>1, <1>2, <1>3, <1>4 DEF all, new

\* The inductive invariant behind NoLineLost: line numbers grow, so a new line
\* comes after all others.
OrderInv ==
  /\ Ordered(All) /\ Logged(All)
  /\ \A n \in DOMAIN accepted : accepted[n] \in 1 .. Len(accepted) + lost
  /\ "stderr" \notin cut =>
       \A n \in DOMAIN accepted : \E i \in DOMAIN All : All[i] = accepted[n]

\* A caller's line goes to the end of the queue, or is counted as dropped.
LEMMA OrderEnqueue ==
  ASSUME TypeOK, OrderInv, NEW t \in Threads, Enqueue(t)
  PROVE  OrderInv'
<1> DEFINE line == Len(accepted) + lost + 1
<1>0. /\ queue \in Seq(Nat) /\ Len(queue) \in Nat /\ kMaxQueueSize \in Nat
      /\ accepted \in Seq(Nat) /\ Len(accepted) \in Nat /\ lost \in Nat
      /\ stderr \o ForStderr \in Seq(Int) /\ All \in Seq(Int)
  <2>1. stderr \in Seq(Int) /\ ForStderr \in Seq(Int) /\ queue \in Seq(Int)
    BY EmptySeq DEF TypeOK, ForStderr
  <2> QED
    BY <2>1, LoggerAssumption, ConcatProperties DEF TypeOK, All
<1>1. CASE Len(queue) >= kMaxQueueSize
  <2>1. /\ UNCHANGED <<stderr, ForStderr, queue, accepted, cut>> /\ lost' = lost + 1
    BY <1>0, <1>1 DEF Enqueue, output, ForStderr
  <2>2. All' = All
    BY <2>1 DEF All
  <2>3. Ordered(All') /\ Logged(All)'
    <3>1. \A i \in DOMAIN All : All[i] \in Int
      BY <1>0, ElementOfSeq
    <3> QED
      BY <1>0, <2>1, <2>2, <3>1 DEF OrderInv, Logged
  <2>4. \A n \in DOMAIN accepted' : accepted'[n] \in 1 .. Len(accepted') + lost'
    BY <1>0, <2>1 DEF OrderInv
  <2> QED
    BY <2>1, <2>2, <2>3, <2>4 DEF OrderInv, Ordered
<1>2. CASE Len(queue) < kMaxQueueSize
  <2>1. /\ queue' = Append(queue, line) /\ accepted' = Append(accepted, line)
        /\ UNCHANGED <<stderr, ForStderr, lost, cut>>
    BY <1>0, <1>2 DEF Enqueue, output, ForStderr
  <2>2. line \in Nat /\ IsLine(line)
    BY <1>0 DEF IsLine
  <2> DEFINE front == stderr \o ForStderr
             new == <<line>>
  <2>3. All' = All \o new
    <3>1. queue' = queue \o new
      BY <1>0, <2>1, <2>2, AppendIsConcat
    <3>2. front \in Seq(Int) /\ queue \in Seq(Int) /\ new \in Seq(Int)
      BY <1>0, <2>2
    <3>3. All' = front \o queue' /\ All = front \o queue
      BY <2>1 DEF All
    <3> HIDE DEF front, new
    <3> QED
      BY <3>1, <3>2, <3>3, ConcatAssociative
  <2>4. /\ All' \in Seq(Int) /\ Len(All') = Len(All) + 1
        /\ \A i \in DOMAIN All : i \in DOMAIN All' /\ All'[i] = All[i]
        /\ All'[Len(All) + 1] = line
    <3>1. line \in Int
      BY <2>2
    <3> HIDE DEF line
    <3> QED
      BY <1>0, <2>3, <3>1, OneMore
  <2>5. /\ Len(accepted') = Len(accepted) + 1
        /\ \A n \in 1 .. Len(accepted) : accepted'[n] = accepted[n]
        /\ accepted'[Len(accepted) + 1] = line
        /\ DOMAIN accepted' = 1 .. Len(accepted) + 1
    BY <1>0, <2>1, <2>2, AppendProperties
  <2>6. DOMAIN All = 1 .. Len(All) /\ DOMAIN All' = 1 .. Len(All) + 1 /\ Len(All) \in Nat
        /\ DOMAIN accepted = 1 .. Len(accepted)
    BY <1>0, <2>4
  <2>7. \A i \in DOMAIN All : All[i] \in Int /\ All[i] <= Len(accepted) + lost
    BY <1>0, ElementOfSeq DEF OrderInv, Logged
  <2>8. Ordered(All')
    <3> SUFFICES ASSUME NEW i \in DOMAIN All', NEW j \in DOMAIN All',
                        i < j, IsLine(All'[i]), IsLine(All'[j])
                 PROVE  All'[i] < All'[j]
      BY DEF Ordered
    <3>1. i \in DOMAIN All
      BY <2>6
    <3>2. CASE j \in DOMAIN All
      BY <2>4, <3>1, <3>2 DEF OrderInv, Ordered
    <3>3. CASE j = Len(All) + 1
      BY <1>0, <2>4, <2>7, <3>1, <3>3
    <3> QED
      BY <2>6, <3>2, <3>3
  <2>9. \A i \in DOMAIN All' : All'[i] <= Len(accepted') + lost'
    <3> TAKE i \in DOMAIN All'
    <3>1. CASE i \in DOMAIN All
      <4>1. All'[i] = All[i] /\ All[i] \in Int /\ All[i] <= Len(accepted) + lost
        BY <2>4, <2>7, <3>1
      <4> QED
        BY <1>0, <2>1, <2>5, <4>1
    <3>2. CASE i = Len(All) + 1
      BY <1>0, <2>1, <2>4, <2>5, <3>2
    <3> QED
      BY <2>6, <3>1, <3>2
  <2>10. \A n \in DOMAIN accepted' : accepted'[n] \in 1 .. Len(accepted') + lost'
    <3> TAKE n \in DOMAIN accepted'
    <3>1. CASE n \in 1 .. Len(accepted)
      <4>1. accepted'[n] = accepted[n] /\ accepted[n] \in 1 .. Len(accepted) + lost
        BY <2>5, <2>6, <3>1 DEF OrderInv
      <4> QED
        BY <1>0, <2>1, <2>5, <4>1
    <3>2. CASE n = Len(accepted) + 1
      BY <1>0, <2>1, <2>5, <3>2
    <3> QED
      BY <1>0, <2>5, <3>1, <3>2
  <2>11. "stderr" \notin cut' =>
           \A n \in DOMAIN accepted' : \E i \in DOMAIN All' : All'[i] = accepted'[n]
    <3> SUFFICES ASSUME "stderr" \notin cut', NEW n \in DOMAIN accepted'
                 PROVE  \E i \in DOMAIN All' : All'[i] = accepted'[n]
      OBVIOUS
    <3>1. CASE n \in 1 .. Len(accepted)
      <4>1. PICK i \in DOMAIN All : All[i] = accepted[n]
        BY <2>1, <2>6, <3>1 DEF OrderInv
      <4> QED
        BY <2>4, <2>5, <3>1, <4>1
    <3>2. CASE n = Len(accepted) + 1
      <4>1. Len(All) + 1 \in DOMAIN All'
        BY <2>6
      <4>2. All'[Len(All) + 1] = accepted'[n]
        BY <2>4, <2>5, <3>2
      <4> QED
        BY <4>1, <4>2
    <3>3. n \in 1 .. Len(accepted) \/ n = Len(accepted) + 1
      BY <1>0, <2>5
    <3> QED
      BY <3>1, <3>2, <3>3
  <2> QED
    BY <2>8, <2>9, <2>10, <2>11 DEF OrderInv, Ordered, Logged
<1> QED
  BY <1>0, <1>1, <1>2

\* A write to stderr, short or not, leaves the order as it is; only a short one
\* leaves something out.
LEMMA OrderWrite ==
  ASSUME TypeOK, OrderInv, WriteStderr
  PROVE  OrderInv'
<1>1. PICK n \in 0 .. Len(batch) :
        /\ stderr' = stderr \o SubSeq(batch, 1, n)
        /\ cut' = IF n < Len(batch) THEN cut \union {"stderr"} ELSE cut
  BY DEF WriteStderr
<1> DEFINE part == SubSeq(batch, 1, n)
           now  == stderr \o part
<1>2. /\ part \in Seq(Nat) /\ Len(part) = n /\ \A i \in 1 .. n : part[i] = batch[i]
      /\ n = Len(batch) => part = batch
  BY Beginning DEF TypeOK
<1>3. /\ stderr \in Seq(Int) /\ batch \in Seq(Int) /\ queue \in Seq(Int)
      /\ part \in Seq(Int) /\ << >> \in Seq(Int) /\ Len(<< >>) = 0
      /\ n \in Nat /\ n <= Len(batch) /\ Len(accepted) + lost \in Nat
      /\ Len(stderr) \in Nat /\ Len(batch) \in Nat /\ Len(queue) \in Nat
  BY <1>2, EmptySeq DEF TypeOK
<1>4. worker = "write" /\ worker' = "file" /\ UNCHANGED <<batch, queue, accepted, lost>>
  BY DEF WriteStderr, history
<1> HIDE DEF part
<1>5. now \in Seq(Int) /\ stderr' = now
  BY <1>1, <1>3, TwoParts DEF part
<1>6. All = (stderr \o batch) \o queue
  BY <1>4 DEF All, ForStderr
<1>7. All' = (stderr \o part) \o queue
  <2>1. All' = (now \o << >>) \o queue
    BY <1>4, <1>5 DEF All, ForStderr
  <2>2. now \o << >> = now
    BY <1>5, ConcatEmptySeq, Zenon
  <2> QED
    BY <2>1, <2>2
<1>8. /\ All \in Seq(Int) /\ Len(All) = Len(stderr) + Len(batch) + Len(queue)
      /\ \A i \in 1 .. Len(All) : All[i] =
           IF i <= Len(stderr) THEN stderr[i]
           ELSE IF i <= Len(stderr) + Len(batch) THEN batch[i - Len(stderr)]
           ELSE queue[i - (Len(stderr) + Len(batch))]
  BY <1>3, <1>6, ThreeParts
<1>9. /\ All' \in Seq(Int) /\ Len(All') = Len(stderr) + Len(part) + Len(queue)
      /\ \A i \in 1 .. Len(All') : All'[i] =
           IF i <= Len(stderr) THEN stderr[i]
           ELSE IF i <= Len(stderr) + Len(part) THEN part[i - Len(stderr)]
           ELSE queue[i - (Len(stderr) + Len(part))]
  <2>1. ASSUME NEW a, a = (stderr \o part) \o queue
        PROVE  /\ a \in Seq(Int) /\ Len(a) = Len(stderr) + Len(part) + Len(queue)
               /\ \A i \in 1 .. Len(a) : a[i] =
                    IF i <= Len(stderr) THEN stderr[i]
                    ELSE IF i <= Len(stderr) + Len(part) THEN part[i - Len(stderr)]
                    ELSE queue[i - (Len(stderr) + Len(part))]
    BY <1>3, <2>1, ThreeParts
  <2> QED
    BY <1>7, <2>1
<1> DEFINE f == [i \in DOMAIN All' |->
                   IF i <= Len(stderr) + n THEN i ELSE i + (Len(batch) - n)]
<1>d. /\ DOMAIN All' = 1 .. Len(stderr) + n + Len(queue)
      /\ DOMAIN All = 1 .. Len(stderr) + Len(batch) + Len(queue)
  BY <1>2, <1>3, <1>8, <1>9
<1>f. /\ f \in [DOMAIN All' -> Int]
      /\ \A i \in DOMAIN All' :
           f[i] = IF i <= Len(stderr) + n THEN i ELSE i + (Len(batch) - n)
  BY <1>3, <1>d
<1> HIDE DEF f
<1>10. \A i, j \in DOMAIN All' : i < j => f[i] < f[j]
  <2> SUFFICES ASSUME NEW i \in DOMAIN All', NEW j \in DOMAIN All', i < j
               PROVE  f[i] < f[j]
    OBVIOUS
  <2>1. i \in Int /\ j \in Int
    BY <1>d
  <2>2. /\ f[i] = IF i <= Len(stderr) + n THEN i ELSE i + (Len(batch) - n)
        /\ f[j] = IF j <= Len(stderr) + n THEN j ELSE j + (Len(batch) - n)
    BY <1>f
  <2> QED
    BY <1>3, <2>1, <2>2
<1>11. ASSUME NEW i \in DOMAIN All' PROVE f[i] \in DOMAIN All /\ All[f[i]] = All'[i]
  <2>0. /\ i \in 1 .. Len(stderr) + n + Len(queue)
        /\ f[i] = IF i <= Len(stderr) + n THEN i ELSE i + (Len(batch) - n)
    BY <1>d, <1>f
  <2>1. f[i] \in 1 .. Len(All) /\ DOMAIN All = 1 .. Len(All)
    <3>1. Len(All) = Len(stderr) + Len(batch) + Len(queue)
      BY <1>8
    <3>2. i \in Int /\ 1 <= i /\ i <= Len(stderr) + n + Len(queue)
      BY <1>3, <2>0
    <3>3. f[i] \in Int /\ 1 <= f[i] /\ f[i] <= Len(stderr) + Len(batch) + Len(queue)
      BY <1>3, <2>0, <3>2
    <3> QED
      BY <1>d, <3>1, <3>3
  <2>2. CASE i <= Len(stderr)
    <3>1. f[i] = i /\ i \in 1 .. Len(All')
      BY <1>2, <1>3, <1>9, <2>0, <2>2
    <3> QED
      BY <1>8, <1>9, <2>1, <2>2, <3>1
  <2>3. CASE ~(i <= Len(stderr)) /\ i <= Len(stderr) + n
    <3>1. i - Len(stderr) \in 1 .. n /\ f[i] = i /\ i <= Len(stderr) + Len(batch)
      BY <1>3, <2>0, <2>3
    <3>2. All[f[i]] = batch[i - Len(stderr)]
      BY <1>8, <2>1, <2>3, <3>1
    <3>3. All'[i] = part[i - Len(stderr)]
      BY <1>2, <1>9, <2>3
    <3> QED
      BY <1>2, <2>1, <3>1, <3>2, <3>3
  <2>4. CASE ~(i <= Len(stderr) + n)
    <3>1. /\ f[i] = i + (Len(batch) - n) /\ ~(f[i] <= Len(stderr))
          /\ ~(f[i] <= Len(stderr) + Len(batch)) /\ ~(i <= Len(stderr))
          /\ f[i] - (Len(stderr) + Len(batch)) = i - (Len(stderr) + n)
      BY <1>3, <2>0, <2>4
    <3>2. All[f[i]] = queue[i - (Len(stderr) + n)]
      BY <1>8, <2>1, <3>1
    <3>3. All'[i] = queue[i - (Len(stderr) + n)]
      BY <1>2, <1>9, <2>4, <3>1
    <3> QED
      BY <2>1, <3>2, <3>3
  <2> QED
    BY <2>2, <2>3, <2>4
<1>12. Ordered(All') /\ Logged(All')
  BY <1>3, <1>8, <1>9, <1>f, <1>10, <1>11, OrderedPart DEF OrderInv
<1>13. "stderr" \notin cut' => All' = All /\ cut' = cut
  <2>1. n < Len(batch) \/ n = Len(batch)
    BY <1>3
  <2>2. n = Len(batch) => part = batch
    BY <1>2
  <2>3. part = batch => All' = All
    BY <1>6, <1>7
  <2> QED
    BY <1>1, <2>1, <2>2, <2>3
<1> QED
  BY <1>4, <1>12, <1>13 DEF OrderInv, Ordered, Logged

\* An announcement comes between two batches and disturbs none.
LEMMA OrderReport ==
  ASSUME TypeOK, OrderInv, Report
  PROVE  OrderInv'
<1>1. /\ worker = "report" /\ worker' = "check" /\ UNCHANGED <<queue, accepted, lost>>
  BY DEF Report, history
<1>2. /\ stderr \in Seq(Int) /\ queue \in Seq(Int) /\ << >> \in Seq(Int)
      /\ stderr \o << >> = stderr
      /\ Len(accepted) + lost \in Nat /\ Len(stderr) \in Nat /\ Len(queue) \in Nat
  BY EmptySeq, ConcatEmptySeq DEF TypeOK
<1>3. All = stderr \o queue
  BY <1>1, <1>2 DEF All, ForStderr
<1>4. CASE stderr' = stderr
  <2>1. All' = All
    BY <1>1, <1>4 DEF All, ForStderr
  <2>2. "stderr" \notin cut' => "stderr" \notin cut
    BY DEF Report
  <2> QED
    BY <1>1, <2>1, <2>2 DEF OrderInv, Ordered, Logged
<1>5. CASE stderr' = Append(stderr, Notice(dropped)) /\ dropped > 0 /\ cut' = cut
  <2> DEFINE x   == Notice(dropped)
             now == stderr \o <<x>>
             f   == [i \in DOMAIN All' |-> IF i <= Len(stderr) THEN i ELSE i - 1]
  <2>1. x \in Int /\ ~IsLine(x) /\ <<x>> \in Seq(Int)
    BY <1>5 DEF TypeOK, Notice, IsLine
  <2> HIDE DEF x
  <2>2. /\ now \in Seq(Int) /\ Len(now) = Len(stderr) + 1
        /\ \A i \in DOMAIN stderr : i \in DOMAIN now /\ now[i] = stderr[i]
        /\ now[Len(stderr) + 1] = x
    BY <1>2, <2>1, OneMore
  <2>3. stderr' = now
    BY <1>2, <1>5, <2>1, AppendIsConcat DEF x
  <2> HIDE DEF now
  <2>4. All' = now \o queue
    <3>1. All' = (now \o << >>) \o queue
      BY <1>1, <2>3 DEF All, ForStderr
    <3>2. now \o << >> = now
      BY <2>2, ConcatEmptySeq, Zenon
    <3> QED
      BY <3>1, <3>2
  <2>5. /\ All \in Seq(Int) /\ Len(All) = Len(stderr) + Len(queue)
        /\ \A i \in 1 .. Len(All) : All[i] =
             IF i <= Len(stderr) THEN stderr[i] ELSE queue[i - Len(stderr)]
    BY <1>2, <1>3, TwoParts
  <2>6. /\ All' \in Seq(Int) /\ Len(All') = Len(now) + Len(queue)
        /\ \A i \in 1 .. Len(All') : All'[i] =
             IF i <= Len(now) THEN now[i] ELSE queue[i - Len(now)]
    <3>1. ASSUME NEW a, a = now \o queue
          PROVE  /\ a \in Seq(Int) /\ Len(a) = Len(now) + Len(queue)
                 /\ \A i \in 1 .. Len(a) : a[i] =
                      IF i <= Len(now) THEN now[i] ELSE queue[i - Len(now)]
      BY <1>2, <2>2, <3>1, TwoParts
    <3> QED
      BY <2>4, <3>1
  <2>7. f \in [DOMAIN All' -> Int]
    BY <1>2, <2>6
  <2>8. ASSUME NEW i \in DOMAIN All'
        PROVE  /\ f[i] = IF i <= Len(stderr) THEN i ELSE i - 1
               /\ i \in 1 .. Len(stderr) + 1 + Len(queue)
               /\ i = Len(stderr) + 1 => All'[i] = x
               /\ i # Len(stderr) + 1 => f[i] \in DOMAIN All /\ All[f[i]] = All'[i]
    <3>0. /\ i \in 1 .. Len(stderr) + 1 + Len(queue)
          /\ f[i] = IF i <= Len(stderr) THEN i ELSE i - 1
          /\ DOMAIN All = 1 .. Len(stderr) + Len(queue)
          /\ DOMAIN stderr = 1 .. Len(stderr)
      BY <1>2, <2>2, <2>5, <2>6
    <3>a. All'[i] = IF i <= Len(stderr) + 1 THEN now[i] ELSE queue[i - (Len(stderr) + 1)]
      BY <2>2, <2>6
    <3> HIDE DEF f
    <3>1. CASE i <= Len(stderr)
      <4>1. i \in DOMAIN stderr /\ f[i] = i /\ i <= Len(stderr) + 1 /\ i # Len(stderr) + 1
        BY <1>2, <3>0, <3>1
      <4> QED
        BY <1>2, <2>2, <2>5, <3>0, <3>a, <3>1, <4>1
    <3>2. CASE i = Len(stderr) + 1
      BY <1>2, <2>2, <3>0, <3>a, <3>2
    <3>3. CASE ~(i <= Len(stderr) + 1)
      <4>1. /\ f[i] = i - 1 /\ f[i] \in 1 .. Len(stderr) + Len(queue)
            /\ ~(f[i] <= Len(stderr)) /\ f[i] - Len(stderr) = i - (Len(stderr) + 1)
        BY <1>2, <3>0, <3>3
      <4>2. All[f[i]] = queue[f[i] - Len(stderr)] /\ All'[i] = queue[i - (Len(stderr) + 1)]
        BY <2>5, <3>0, <3>a, <3>3, <4>1
      <4> QED
        BY <1>2, <3>0, <3>3, <4>1, <4>2
    <3> QED
      BY <1>2, <3>0, <3>1, <3>2, <3>3
  <2> HIDE DEF f
  <2>9. ASSUME NEW i \in DOMAIN All', IsLine(All'[i])
        PROVE  i # Len(stderr) + 1 /\ f[i] \in DOMAIN All /\ All[f[i]] = All'[i]
    BY <2>1, <2>8, <2>9
  <2>10. ASSUME NEW i \in DOMAIN All', NEW j \in DOMAIN All', i < j,
                IsLine(All'[i]), IsLine(All'[j])
         PROVE  f[i] < f[j]
    <3>1. i # Len(stderr) + 1 /\ j # Len(stderr) + 1
      BY <2>9, <2>10
    <3> QED
      BY <1>2, <2>8, <2>10, <3>1
  <2>11. Ordered(All') /\ Logged(All')
    BY <1>2, <2>5, <2>6, <2>7, <2>9, <2>10, OrderedPart DEF OrderInv
  <2>d. /\ DOMAIN All = 1 .. Len(stderr) + Len(queue)
        /\ DOMAIN All' = 1 .. Len(stderr) + 1 + Len(queue)
    BY <1>2, <2>2, <2>5, <2>6
  <2>12. ASSUME NEW i \in DOMAIN All PROVE \E j \in DOMAIN All' : All'[j] = All[i]
    <3>1. CASE i <= Len(stderr)
      <4>1. i \in DOMAIN All' /\ i # Len(stderr) + 1
        BY <1>2, <2>d, <3>1
      <4>2. f[i] = i
        BY <2>8, <3>1, <4>1
      <4> QED
        BY <2>8, <4>1, <4>2
    <3>2. CASE ~(i <= Len(stderr))
      <4>1. i + 1 \in DOMAIN All' /\ i + 1 # Len(stderr) + 1 /\ i + 1 - 1 = i
            /\ ~(i + 1 <= Len(stderr))
        BY <1>2, <2>d, <3>2
      <4>2. PICK k \in DOMAIN All' : k = i + 1
        BY <4>1
      <4>3. k # Len(stderr) + 1 /\ ~(k <= Len(stderr)) /\ f[k] = k - 1
        BY <2>8, <4>1, <4>2
      <4>4. f[k] = i
        BY <2>d, <4>2, <4>3
      <4> QED
        BY <2>8, <4>3, <4>4
    <3> QED
      BY <3>1, <3>2
  <2>13. "stderr" \notin cut' =>
           \A n \in DOMAIN accepted' : \E i \in DOMAIN All' : All'[i] = accepted'[n]
    <3> SUFFICES ASSUME "stderr" \notin cut', NEW n \in DOMAIN accepted
                 PROVE  \E i \in DOMAIN All' : All'[i] = accepted[n]
      BY <1>1
    <3>1. PICK i \in DOMAIN All : All[i] = accepted[n]
      BY <1>5 DEF OrderInv
    <3> QED
      BY <2>12, <3>1
  <2> QED
    BY <1>1, <2>11, <2>13 DEF OrderInv, Ordered, Logged
<1>6. \/ stderr' = stderr
      \/ stderr' = Append(stderr, Notice(dropped)) /\ dropped > 0 /\ cut' = cut
  BY DEF Report
<1> QED
  BY <1>4, <1>5, <1>6

\* A step of the logger keeps OrderInv.
LEMMA OrderStep ==
  ASSUME TypeOK, OrderInv, [Next]_vars
  PROVE  OrderInv'
<1> USE DEF output, history
<1>u. ASSUME All' = All, UNCHANGED <<accepted, lost>>,
             "stderr" \notin cut' => "stderr" \notin cut
      PROVE  OrderInv'
  BY <1>u DEF OrderInv, Ordered, Logged
<1>0. stderr \in Seq(Int) /\ batch \in Seq(Int) /\ queue \in Seq(Int)
        /\ << >> \in Seq(Int) /\ stderr \o << >> = stderr
  BY EmptySeq, ConcatEmptySeq DEF TypeOK
<1>1. ASSUME NEW t \in Threads, Enqueue(t) PROVE OrderInv'
  BY <1>1, OrderEnqueue
<1>2. CASE WriteStderr
  BY <1>2, OrderWrite
<1>3. CASE Report
  BY <1>3, OrderReport
<1>4. CASE Check
  <2>1. CASE queue = << >>
    <3>1. ForStderr = << >> /\ ForStderr' = << >>
      BY <1>4, <2>1 DEF Check, ForStderr
    <3>2. All' = All
      BY <1>4, <2>1, <3>1 DEF Check, All
    <3> QED
      BY <1>4, <1>u, <3>2 DEF Check
  <2>2. CASE queue # << >>
    <3>1. batch' \in Seq(Nat) /\ queue' \in Seq(Nat) /\ batch' \o queue' = queue
      BY <1>4, <2>2, BatchOfQueue
    <3> DEFINE b == batch'
               q == queue'
    <3>a. b \in Seq(Int) /\ q \in Seq(Int)
      BY <3>1
    <3>2. b \o q = queue
      BY <3>1
    <3>3. /\ All = (stderr \o << >>) \o queue /\ All' = (stderr \o b) \o q
      BY <1>4, <2>2 DEF Check, All, ForStderr
    <3> HIDE DEF b, q
    <3>4. (stderr \o b) \o q = stderr \o (b \o q)
      BY <1>0, <3>a, ConcatAssociative
    <3>5. All' = All
      BY <1>0, <3>2, <3>3, <3>4
    <3> QED
      BY <1>4, <1>u, <3>5 DEF Check
  <2> QED
    BY <2>1, <2>2
<1>5. ASSUME UNCHANGED <<stderr, queue, ForStderr, accepted, lost>>,
             "stderr" \notin cut' => "stderr" \notin cut
      PROVE  OrderInv'
  BY <1>5, <1>u DEF All
<1>6. CASE WriteFile
  BY <1>6, <1>5 DEF WriteFile, ForStderr
<1>7. CASE SpuriousWake
  BY <1>7, <1>5 DEF SpuriousWake, ForStderr
<1>8. CASE SetLogFile
  BY <1>8, <1>5 DEF SetLogFile, ForStderr
<1>9. ASSUME NEW t \in Threads, Shutdown(t) PROVE OrderInv'
  BY <1>9, <1>5 DEF Shutdown, ForStderr
<1>10. ASSUME NEW t \in Threads, Notify(t) PROVE OrderInv'
  BY <1>10, <1>5 DEF Notify, ForStderr
<1>11. ASSUME NEW t \in Threads, Join(t) PROVE OrderInv'
  BY <1>11, <1>5 DEF Join, ForStderr
<1>12. CASE UNCHANGED vars
  BY <1>12, <1>5 DEF vars, ForStderr
<1> QED
  BY <1>1, <1>2, <1>3, <1>4, <1>6, <1>7, <1>8, <1>9, <1>10, <1>11, <1>12
  DEF Next, Caller, Worker

\* Initially nothing is anywhere.
LEMMA OrderInit == Init => OrderInv
<1> HAVE Init
<1>1. << >> \in Seq(Int) /\ << >> \o << >> = << >>
  BY EmptySeq, ConcatEmptySeq
<1>2. All = << >>
  BY <1>1 DEF Init, All, ForStderr
<1>3. DOMAIN << >> = {}
  BY EmptySeq
<1> QED
  BY <1>2, <1>3 DEF Init, OrderInv, Ordered, Logged

\* No accepted line is doubled or reordered on its way to stderr, and none is
\* lost but in a short write.
THEOREM LinesInOrder == Spec => []NoLineLost
<1>1. OrderInv => NoLineLost
  BY DEF OrderInv, NoLineLost, All
<1> QED
  BY <1>1, OrderInit, OrderStep, TypeCorrect, PTL DEF Spec
-----------------------------------------------------------------------------
(* shutdown() drains, and no drop stays silent.                             *)

\* What holds of atStop on the way: it counts accepted lines, and the worker
\* leaves its loop only when stop is set and none of those is queued.
DrainInv ==
  /\ atStop <= Len(accepted)
  /\ worker = "done" =>
       /\ stop
       /\ \A n \in 1 .. atStop : \A i \in DOMAIN queue : queue[i] # accepted[n]

\* A step of the logger keeps DrainInv.
LEMMA DrainStep ==
  ASSUME TypeOK, OrderInv, DrainInv, [Next]_vars
  PROVE  DrainInv'
<1> USE DEF output, history
<1>0. /\ accepted \in Seq(Nat) /\ queue \in Seq(Nat) /\ atStop \in Nat /\ lost \in Nat
      /\ Len(accepted) \in Nat /\ Len(queue) \in Nat
  BY DEF TypeOK
<1>u. ASSUME UNCHANGED <<atStop, accepted, queue>>, stop => stop', worker' # "done"
      PROVE  DrainInv'
  BY <1>u DEF DrainInv
<1>1. ASSUME NEW t \in Threads, Enqueue(t) PROVE DrainInv'
  <2> DEFINE line == Len(accepted) + lost + 1
  <2>0. line \in Nat /\ kMaxQueueSize \in Nat
    BY <1>0, LoggerAssumption
  <2>1. CASE Len(queue) >= kMaxQueueSize
    <3>1. UNCHANGED <<atStop, accepted, queue, stop, worker>>
      BY <1>0, <1>1, <2>0, <2>1 DEF Enqueue
    <3> QED
      BY <3>1 DEF DrainInv
  <2>2. CASE Len(queue) < kMaxQueueSize
    <3>1. /\ queue' = Append(queue, line) /\ accepted' = Append(accepted, line)
          /\ UNCHANGED <<atStop, stop, worker>>
      BY <1>0, <1>1, <2>0, <2>2 DEF Enqueue
    <3> HIDE DEF line
    <3>2. /\ Len(accepted') = Len(accepted) + 1
          /\ \A n \in 1 .. Len(accepted) : accepted'[n] = accepted[n]
          /\ DOMAIN queue' = 1 .. Len(queue) + 1 /\ DOMAIN queue = 1 .. Len(queue)
          /\ \A i \in 1 .. Len(queue) : queue'[i] = queue[i]
          /\ queue'[Len(queue) + 1] = line
      BY <1>0, <2>0, <3>1, AppendProperties
    <3>3. ASSUME worker' = "done", NEW n \in 1 .. atStop', NEW i \in DOMAIN queue'
          PROVE  queue'[i] # accepted'[n]
      <4>1. n \in 1 .. Len(accepted) /\ n \in 1 .. atStop
        BY <1>0, <3>1 DEF DrainInv
      <4>2. accepted'[n] = accepted[n] /\ accepted[n] \in 1 .. Len(accepted) + lost
        BY <1>0, <3>2, <4>1 DEF OrderInv
      <4>3. CASE i \in 1 .. Len(queue)
        BY <3>1, <3>2, <3>3, <4>1, <4>2, <4>3 DEF DrainInv
      <4>4. CASE i = Len(queue) + 1
        <5>1. queue'[i] = Len(accepted) + lost + 1
          BY <3>2, <4>4 DEF line
        <5> QED
          BY <1>0, <4>2, <5>1
      <4>5. i \in 1 .. Len(queue) \/ i = Len(queue) + 1
        BY <1>0, <3>2
      <4> QED
        BY <4>3, <4>4, <4>5
    <3>4. atStop' <= Len(accepted')
      BY <1>0, <3>1, <3>2 DEF DrainInv
    <3> QED
      BY <3>1, <3>3, <3>4 DEF DrainInv
  <2> QED
    BY <1>0, <2>0, <2>1, <2>2
<1>2. ASSUME NEW t \in Threads, Shutdown(t) PROVE DrainInv'
  BY <1>2, <1>0 DEF Shutdown, DrainInv
<1>3. CASE Check
  <2>1. CASE queue = << >>
    <3>1. DOMAIN << >> = {} /\ queue' = << >>
      BY <1>3, <2>1, EmptySeq DEF Check
    <3>2. (worker' = "done" => stop) /\ UNCHANGED <<atStop, accepted, stop>>
      BY <1>3, <2>1 DEF Check
    <3> QED
      BY <3>1, <3>2 DEF DrainInv
  <2>2. CASE queue # << >>
    <3>1. worker' = "write" /\ UNCHANGED <<atStop, accepted>>
      BY <1>3, <2>2 DEF Check
    <3> QED
      BY <3>1 DEF DrainInv
  <2> QED
    BY <2>1, <2>2
<1>4. CASE WriteStderr
  BY <1>4, <1>u DEF WriteStderr
<1>5. CASE WriteFile
  BY <1>5, <1>u DEF WriteFile
<1>6. CASE Report
  BY <1>6, <1>u DEF Report
<1>7. CASE SpuriousWake
  BY <1>7, <1>u DEF SpuriousWake
<1>8. CASE SetLogFile
  BY <1>8, <1>0 DEF SetLogFile, DrainInv
<1>9. ASSUME NEW t \in Threads, Notify(t) PROVE DrainInv'
  <2>1. (worker' = "done" => worker = "done") /\ UNCHANGED <<atStop, accepted, queue, stop>>
    BY <1>9 DEF Notify
  <2> QED
    BY <2>1 DEF DrainInv
<1>10. ASSUME NEW t \in Threads, Join(t) PROVE DrainInv'
  BY <1>10, <1>0 DEF Join, DrainInv
<1>11. CASE UNCHANGED vars
  BY <1>11 DEF vars, DrainInv
<1> QED
  BY <1>1, <1>2, <1>3, <1>4, <1>5, <1>6, <1>7, <1>8, <1>9, <1>10, <1>11
  DEF Next, Caller, Worker

\* When the worker has ended, all that was accepted before stop is on stderr,
\* unless a write to it came short.
THEOREM DrainsOnShutdown == Spec => []ShutdownDrains
<1>1. Init => DrainInv
  BY EmptySeq DEF Init, DrainInv
<1>2. TypeOK /\ OrderInv /\ DrainInv => ShutdownDrains
  <2> SUFFICES ASSUME TypeOK, OrderInv, DrainInv, worker = "done", "stderr" \notin cut,
                      NEW n \in 1 .. atStop
               PROVE  \E i \in DOMAIN stderr : stderr[i] = accepted[n]
    BY DEF ShutdownDrains
  <2>1. /\ stderr \in Seq(Int) /\ queue \in Seq(Int) /\ stderr \o << >> = stderr
        /\ Len(stderr) \in Nat /\ Len(queue) \in Nat
        /\ accepted \in Seq(Nat) /\ Len(accepted) \in Nat /\ atStop \in Nat
    BY ConcatEmptySeq DEF TypeOK
  <2>2. All = stderr \o queue
    BY <2>1 DEF All, ForStderr
  <2>3. n \in DOMAIN accepted
    BY <2>1 DEF DrainInv
  <2>4. PICK i \in DOMAIN All : All[i] = accepted[n]
    BY <2>3 DEF OrderInv
  <2>5. /\ DOMAIN All = 1 .. Len(stderr) + Len(queue)
        /\ All[i] = IF i <= Len(stderr) THEN stderr[i] ELSE queue[i - Len(stderr)]
    <3>1. /\ All \in Seq(Int) /\ Len(All) = Len(stderr) + Len(queue)
          /\ \A k \in 1 .. Len(All) :
               All[k] = IF k <= Len(stderr) THEN stderr[k] ELSE queue[k - Len(stderr)]
      BY <2>1, <2>2, TwoParts
    <3> QED
      BY <3>1
  <2>6. CASE i <= Len(stderr)
    BY <2>1, <2>4, <2>5, <2>6
  <2>7. CASE ~(i <= Len(stderr))
    <3>1. i - Len(stderr) \in DOMAIN queue
      BY <2>1, <2>5, <2>7
    <3> QED
      BY <2>4, <2>5, <2>7, <3>1 DEF DrainInv
  <2> QED
    BY <2>6, <2>7
<1> QED
  BY <1>1, <1>2, DrainStep, OrderInit, OrderStep, TypeCorrect, PTL DEF Spec

\* Every drop is announced or still counted, and one that is still counted when
\* the worker is between two batches was caused by a queue that is still full.
DropInv ==
  /\ "stderr" \notin cut => lost = reported + dropped
  /\ worker \in {"check", "asleep", "done"} /\ dropped > 0
       => Len(queue) >= kMaxQueueSize

\* A step of the logger keeps DropInv.
LEMMA DropStep ==
  ASSUME TypeOK, DropInv, [Next]_vars
  PROVE  DropInv'
<1> USE LoggerAssumption DEF output, history
<1>0. /\ queue \in Seq(Nat) /\ Len(queue) \in Nat
      /\ dropped \in Nat /\ lost \in Nat /\ reported \in Nat
  BY DEF TypeOK
<1>1. ASSUME NEW t \in Threads, Enqueue(t) PROVE DropInv'
  <2>1. CASE Len(queue) >= kMaxQueueSize
    BY <1>1, <2>1, <1>0 DEF Enqueue, DropInv
  <2>2. CASE Len(queue) < kMaxQueueSize
    <3> DEFINE line == Len(accepted) + lost + 1
    <3>1. line \in Nat
      BY DEF TypeOK
    <3>2. /\ queue' = Append(queue, line)
          /\ UNCHANGED <<lost, reported, dropped, worker, cut>>
      BY <1>1, <2>2, <1>0 DEF Enqueue
    <3> HIDE DEF line
    <3>3. Len(queue') = Len(queue) + 1
      BY <3>1, <3>2, <1>0
    <3> QED
      BY <3>2, <3>3, <1>0 DEF DropInv
  <2> QED
    BY <2>1, <2>2, <1>0
<1>2. CASE Check
  <2>1. CASE queue = << >>
    <3>1. Len(queue) = 0
      BY <2>1
    <3>2. UNCHANGED <<queue, lost, reported, dropped, cut>> /\ worker = "check"
      BY <1>2, <2>1 DEF Check
    <3>3. ~(dropped > 0)
      BY <3>1, <3>2 DEF DropInv
    <3> QED
      BY <3>2, <3>3 DEF DropInv
  <2>2. CASE queue # << >>
    BY <1>2, <2>2 DEF Check, DropInv
  <2> QED
    BY <2>1, <2>2
<1>3. CASE Report
  BY <1>3, <1>0 DEF Report, DropInv
<1>4. CASE WriteStderr
  <2>1. /\ UNCHANGED <<lost, reported, dropped>> /\ worker' = "file"
        /\ "stderr" \notin cut' => "stderr" \notin cut
    BY <1>4 DEF WriteStderr
  <2> QED
    BY <2>1 DEF DropInv
<1>5. CASE WriteFile
  <2>1. /\ UNCHANGED <<lost, reported, dropped>> /\ worker' = "report"
        /\ "stderr" \notin cut' => "stderr" \notin cut
    BY <1>5 DEF WriteFile
  <2> QED
    BY <2>1 DEF DropInv
<1>6. CASE SpuriousWake
  BY <1>6, <1>0 DEF SpuriousWake, DropInv
<1>7. CASE SetLogFile
  BY <1>7, <1>0 DEF SetLogFile, DropInv
<1>8. ASSUME NEW t \in Threads, Shutdown(t) PROVE DropInv'
  BY <1>8, <1>0 DEF Shutdown, DropInv
<1>9. ASSUME NEW t \in Threads, Notify(t) PROVE DropInv'
  BY <1>9, <1>0 DEF Notify, DropInv
<1>10. ASSUME NEW t \in Threads, Join(t) PROVE DropInv'
  BY <1>10, <1>0 DEF Join, DropInv
<1>11. CASE UNCHANGED vars
  BY <1>11 DEF vars, DropInv
<1> QED
  BY <1>1, <1>2, <1>3, <1>4, <1>5, <1>6, <1>7, <1>8, <1>9, <1>10, <1>11
  DEF Next, Caller, Worker

\* When the worker has ended and the queue is not full, every line the logger
\* ever dropped has been announced.
THEOREM NoSilentDrop == Spec => []DropsAreReported
<1>1. Init => DropInv
  BY DEF Init, DropInv
<1>2. TypeOK /\ DropInv => DropsAreReported
  BY LoggerAssumption DEF TypeOK, DropInv, DropsAreReported
<1> QED
  BY <1>1, <1>2, DropStep, TypeCorrect, PTL DEF Spec
-----------------------------------------------------------------------------
(* The log file.                                                            *)

\* What is in the log file, for it in the worker's hands, and queued.
FileAll == (file \o ForFile) \o queue

\* f is the end of s.
EndsIn(s, f) == \E p \in Seq(Nat) : s = p \o f

\* Until there is a file it is empty; then what is in it and on its way to it is
\* the end of what was accepted.
FileInv ==
  /\ ~fileFd => file = << >>
  /\ "file" \notin cut => EndsIn(accepted, FileAll)

\* Putting together is associative.
LEMMA Assoc ==
  ASSUME NEW a \in Seq(Nat), NEW b \in Seq(Nat), NEW c \in Seq(Nat)
  PROVE  (a \o b) \o c = a \o (b \o c)
BY ConcatAssociative

\* A step of the logger keeps FileInv.
LEMMA FileStep ==
  ASSUME TypeOK, FileInv, [Next]_vars
  PROVE  FileInv'
<1> USE DEF output, history
<1>0. /\ file \in Seq(Nat) /\ batch \in Seq(Nat) /\ queue \in Seq(Nat)
      /\ accepted \in Seq(Nat) /\ << >> \in Seq(Nat)
      /\ ForFile \in Seq(Nat) /\ FileAll \in Seq(Nat) /\ file \o ForFile \in Seq(Nat)
  <2>1. << >> \in Seq(Nat)
    BY EmptySeq
  <2>2. file \in Seq(Nat) /\ batch \in Seq(Nat) /\ queue \in Seq(Nat) /\ accepted \in Seq(Nat)
    BY DEF TypeOK
  <2>3. ForFile \in Seq(Nat)
    BY <2>1, <2>2 DEF ForFile
  <2>4. file \o ForFile \in Seq(Nat)
    BY <2>2, <2>3, ConcatProperties
  <2>5. FileAll \in Seq(Nat)
    BY <2>2, <2>4, ConcatProperties DEF FileAll
  <2> QED
    BY <2>1, <2>2, <2>3, <2>4, <2>5
<1>u. ASSUME UNCHANGED <<file, FileAll, accepted>>, fileFd => fileFd',
             "file" \notin cut' => "file" \notin cut
      PROVE  FileInv'
  BY <1>u DEF FileInv
<1>v. ASSUME UNCHANGED <<file, ForFile, queue, accepted>>, fileFd => fileFd',
             "file" \notin cut' => "file" \notin cut
      PROVE  FileInv'
  <2>1. FileAll' = FileAll
    BY <1>v DEF FileAll
  <2> QED
    BY <1>u, <1>v, <2>1
<1>1. CASE WriteStderr
  BY <1>1, <1>v DEF WriteStderr, ForFile
<1>2. CASE WriteFile
  <2>1. /\ worker = "file" /\ worker' = "report"
        /\ UNCHANGED <<queue, accepted, fileFd>>
    BY <1>2 DEF WriteFile
  <2>2. FileAll = (file \o batch) \o queue /\ FileAll' = (file' \o << >>) \o queue
    BY <2>1 DEF FileAll, ForFile
  <2>3. CASE fileFd
    <3>1. PICK n \in 0 .. Len(batch) :
            /\ file' = file \o SubSeq(batch, 1, n)
            /\ cut' = IF n < Len(batch) THEN cut \union {"file"} ELSE cut
      BY <1>2, <2>3 DEF WriteFile
    <3>2. ASSUME "file" \notin cut'
          PROVE  FileAll' = FileAll /\ "file" \notin cut
      <4>1. n = Len(batch) /\ Len(batch) \in Nat
        BY <1>0, <3>1, <3>2
      <4>2. SubSeq(batch, 1, n) = batch
        BY <1>0, <4>1, Beginning
      <4>3. file' = file \o batch
        BY <3>1, <4>2
      <4> DEFINE fb == file \o batch
      <4>4. fb \in Seq(Nat)
        BY <1>0, ConcatProperties
      <4> HIDE DEF fb
      <4>5. fb \o << >> = fb
        BY <4>4, ConcatEmptySeq
      <4> QED
        BY <2>2, <3>1, <3>2, <4>1, <4>3, <4>5 DEF fb
    <3> QED
      BY <2>1, <2>3, <3>2 DEF FileInv
  <2>4. CASE ~fileFd
    <3>1. file = << >> /\ file' = << >> /\ cut' = cut
      BY <1>2, <2>4 DEF WriteFile, FileInv
    <3>2. << >> \o batch = batch /\ << >> \o << >> = << >> /\ << >> \o queue = queue
      BY <1>0, ConcatEmptySeq
    <3>3. FileAll = batch \o queue /\ FileAll' = queue
      BY <2>2, <3>1, <3>2
    <3>4. ASSUME "file" \notin cut PROVE EndsIn(accepted, queue)
      <4>1. PICK p \in Seq(Nat) : accepted = p \o (batch \o queue)
        BY <3>3, <3>4 DEF FileInv, EndsIn
      <4>2. (p \o batch) \o queue = p \o (batch \o queue)
        BY <1>0, Assoc, Zenon
      <4>3. p \o batch \in Seq(Nat)
        BY <1>0, ConcatProperties
      <4> QED
        BY <4>1, <4>2, <4>3 DEF EndsIn
    <3> QED
      BY <2>1, <3>1, <3>3, <3>4 DEF FileInv
  <2> QED
    BY <2>3, <2>4
<1>3. CASE Check
  <2>1. CASE queue = << >>
    BY <1>3, <2>1, <1>v DEF Check, ForFile
  <2>2. CASE queue # << >>
    <3>1. batch' \in Seq(Nat) /\ queue' \in Seq(Nat) /\ batch' \o queue' = queue
      BY <1>3, <2>2, BatchOfQueue
    <3> DEFINE b == batch'
               q == queue'
    <3>a. b \in Seq(Nat) /\ q \in Seq(Nat)
      BY <3>1
    <3>2. b \o q = queue
      BY <3>1
    <3>3. /\ UNCHANGED <<file, accepted, fileFd, cut>>
          /\ FileAll = (file \o << >>) \o queue /\ FileAll' = (file \o b) \o q
      BY <1>3, <2>2 DEF Check, FileAll, ForFile
    <3> HIDE DEF b, q
    <3>b. file \in Seq(Nat)
      BY <1>0
    <3>4. (file \o b) \o q = file \o (b \o q)
      BY <3>a, <3>b, Assoc
    <3>5. file \o << >> = file
      BY <1>0, ConcatEmptySeq
    <3>6. FileAll' = FileAll
      BY <3>2, <3>3, <3>4, <3>5
    <3> QED
      BY <1>u, <3>3, <3>6
  <2> QED
    BY <2>1, <2>2
<1>4. CASE Report
  BY <1>4, <1>v DEF Report, ForFile
<1>5. CASE SpuriousWake
  BY <1>5, <1>v DEF SpuriousWake, ForFile
<1>6. CASE SetLogFile
  BY <1>6, <1>v DEF SetLogFile, ForFile
<1>7. ASSUME NEW t \in Threads, Enqueue(t) PROVE FileInv'
  <2> DEFINE line == Len(accepted) + lost + 1
             new  == <<line>>
             fw   == file \o ForFile
  <2>0. line \in Nat /\ Len(queue) \in Nat /\ kMaxQueueSize \in Nat
    BY <1>0, LoggerAssumption DEF TypeOK
  <2>1. CASE Len(queue) >= kMaxQueueSize
    <3>1. UNCHANGED <<file, ForFile, queue, accepted, fileFd, cut>>
      BY <1>7, <2>0, <2>1 DEF Enqueue, ForFile
    <3> QED
      BY <1>v, <3>1
  <2>2. CASE Len(queue) < kMaxQueueSize
    <3>1. /\ queue' = Append(queue, line) /\ accepted' = Append(accepted, line)
          /\ UNCHANGED <<file, ForFile, fileFd, cut>>
      BY <1>7, <2>0, <2>2 DEF Enqueue, ForFile
    <3>2. queue' = queue \o new /\ accepted' = accepted \o new /\ new \in Seq(Nat)
      BY <1>0, <2>0, <3>1, AppendIsConcat
    <3>3. FileAll = fw \o queue /\ FileAll' = fw \o queue' /\ fw \in Seq(Nat)
      BY <1>0, <3>1 DEF FileAll
    <3> HIDE DEF new, fw, line
    <3>a. fw \in Seq(Nat) /\ queue \in Seq(Nat) /\ new \in Seq(Nat) /\ FileAll \in Seq(Nat)
      BY <1>0, <3>2, <3>3
    <3>4. (fw \o queue) \o new = fw \o (queue \o new)
      BY <3>a, Assoc
    <3>5. FileAll' = FileAll \o new
      BY <3>2, <3>3, <3>4
    <3>6. ASSUME "file" \notin cut PROVE EndsIn(accepted', FileAll')
      <4>1. PICK p \in Seq(Nat) : accepted = p \o FileAll
        BY <3>6 DEF FileInv, EndsIn
      <4>2. (p \o FileAll) \o new = p \o (FileAll \o new)
        BY <3>a, Assoc
      <4>3. accepted' = p \o FileAll'
        BY <3>2, <3>5, <4>1, <4>2
      <4> QED
        BY <4>3 DEF EndsIn
    <3> QED
      BY <3>1, <3>6 DEF FileInv
  <2> QED
    BY <2>0, <2>1, <2>2
<1>8. ASSUME NEW t \in Threads, Shutdown(t) PROVE FileInv'
  BY <1>8, <1>v DEF Shutdown, ForFile
<1>9. ASSUME NEW t \in Threads, Notify(t) PROVE FileInv'
  BY <1>9, <1>v DEF Notify, ForFile
<1>10. ASSUME NEW t \in Threads, Join(t) PROVE FileInv'
  BY <1>10, <1>v DEF Join, ForFile
<1>11. CASE UNCHANGED vars
  BY <1>11, <1>v DEF vars, ForFile
<1> QED
  BY <1>1, <1>2, <1>3, <1>4, <1>5, <1>6, <1>7, <1>8, <1>9, <1>10, <1>11
  DEF Next, Caller, Worker

\* The end of a sequence is what SubSeq cuts off.
LEMMA EndIsSubSeq ==
  ASSUME NEW p \in Seq(Nat), NEW f \in Seq(Nat)
  PROVE  /\ Len(f) <= Len(p \o f)
         /\ f = SubSeq(p \o f, Len(p \o f) - Len(f) + 1, Len(p \o f))
<1> DEFINE s == p \o f
           e == SubSeq(s, Len(p) + 1, Len(s))
<1>1. /\ s \in Seq(Nat) /\ Len(s) = Len(p) + Len(f)
      /\ \A i \in 1 .. Len(s) : s[i] = IF i <= Len(p) THEN p[i] ELSE f[i - Len(p)]
  BY ConcatProperties
<1>2. Len(p) \in Nat /\ Len(f) \in Nat
  OBVIOUS
<1> HIDE DEF s
<1>3. \A i \in Len(p) + 1 .. Len(s) : s[i] \in Nat
  BY <1>1, <1>2, ElementOfSeq
<1>4. /\ e \in Seq(Nat) /\ Len(e) = Len(f)
      /\ \A i \in 1 .. Len(e) : e[i] = s[Len(p) + i]
  <2>1. Len(p) + 1 \in Int /\ Len(s) \in Int
    BY <1>1, <1>2
  <2>2. /\ e \in Seq(Nat)
        /\ Len(e) = IF Len(p) + 1 <= Len(s) THEN Len(s) - (Len(p) + 1) + 1 ELSE 0
        /\ \A i \in 1 .. Len(e) : e[i] = s[Len(p) + 1 + i - 1]
    BY <1>3, <2>1, SubSeqProperties
  <2>3. Len(e) = Len(f)
    BY <1>1, <1>2, <2>2
  <2>4. \A i \in 1 .. Len(f) : Len(p) + 1 + i - 1 = Len(p) + i
    BY <1>2
  <2> QED
    BY <2>2, <2>3, <2>4
<1> HIDE DEF e
<1>5. \A i \in 1 .. Len(f) : e[i] = f[i]
  <2> TAKE i \in 1 .. Len(f)
  <2>1. Len(p) + i \in 1 .. Len(s) /\ ~(Len(p) + i <= Len(p)) /\ Len(p) + i - Len(p) = i
    BY <1>1, <1>2
  <2>2. s[Len(p) + i] = f[Len(p) + i - Len(p)]
    BY <1>1, <2>1
  <2>3. e[i] = s[Len(p) + i]
    BY <1>4
  <2> QED
    BY <2>1, <2>2, <2>3
<1>6. e = f
  BY <1>4, <1>5, SeqEqual
<1>7. Len(s) - Len(f) + 1 = Len(p) + 1 /\ Len(f) <= Len(s)
  BY <1>1, <1>2
<1> QED
  BY <1>6, <1>7 DEF e, s

\* The log file misses no line since its first, unless a write to it came short.
THEOREM FileIsComplete == Spec => []FileMissesNothing
<1>1. Init => FileInv
  <2> HAVE Init
  <2>1. << >> \in Seq(Nat) /\ << >> \o << >> = << >>
    BY EmptySeq, ConcatEmptySeq
  <2>2. FileAll = << >> /\ accepted = << >> /\ file = << >>
    BY <2>1 DEF Init, FileAll, ForFile
  <2>3. EndsIn(accepted, FileAll)
    BY <2>1, <2>2 DEF EndsIn
  <2> QED
    BY <2>2, <2>3 DEF FileInv
<1>2. TypeOK /\ FileInv => FileMissesNothing
  <2> SUFFICES ASSUME TypeOK, FileInv, "file" \notin cut
               PROVE  \E n \in 0 .. Len(accepted) :
                        SubSeq(accepted, n + 1, Len(accepted)) = FileAll
    BY DEF FileMissesNothing, FileAll
  <2>1. PICK p \in Seq(Nat) : accepted = p \o FileAll
    BY DEF FileInv, EndsIn
  <2>2. FileAll \in Seq(Nat)
    <3>1. << >> \in Seq(Nat)
      BY EmptySeq
    <3>2. ForFile \in Seq(Nat) /\ file \in Seq(Nat) /\ queue \in Seq(Nat)
      BY <3>1 DEF TypeOK, ForFile
    <3>3. file \o ForFile \in Seq(Nat)
      BY <3>2, ConcatProperties
    <3> QED
      BY <3>2, <3>3, ConcatProperties DEF FileAll
  <2>3. /\ Len(FileAll) <= Len(p \o FileAll)
        /\ FileAll = SubSeq(p \o FileAll, Len(p \o FileAll) - Len(FileAll) + 1,
                            Len(p \o FileAll))
    BY <2>2, EndIsSubSeq
  <2>4. /\ Len(FileAll) <= Len(accepted)
        /\ FileAll = SubSeq(accepted, Len(accepted) - Len(FileAll) + 1, Len(accepted))
    BY <2>1, <2>3
  <2>5. Len(FileAll) \in Nat /\ Len(accepted) \in Nat
    BY <2>2 DEF TypeOK
  <2>6. Len(accepted) - Len(FileAll) \in 0 .. Len(accepted)
    BY <2>4, <2>5
  <2> QED
    BY <2>4, <2>6
<1> QED
  BY <1>1, <1>2, FileStep, TypeCorrect, PTL DEF Spec
=============================================================================
