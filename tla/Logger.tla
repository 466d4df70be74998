------------------------------- MODULE Logger -------------------------------
(***************************************************************************)
(* The asynchronous logger (src/common/log.cpp).  Any thread enqueues a     *)
(* line under the mutex and then notifies; one background worker takes a    *)
(* batch under the mutex, writes it after unlocking, and then reports what  *)
(* the full queue made callers drop.  shutdown() sets stop, notifies and    *)
(* joins the worker.                                                        *)
(*                                                                          *)
(* A critical section of impl_->mtx is one action, notify is an action of   *)
(* its own because it comes after the unlock, and cv.wait is two states of  *)
(* the worker: "check" evaluates the predicate, "asleep" waits.  A line is  *)
(* its position in the order in which callers entered the critical section. *)
(*                                                                          *)
(* Nobody looks at what write(2) returns: each write may take only the      *)
(* beginning of what it is given, or nothing (a line cut in two counts as   *)
(* not written).                                                            *)
(***************************************************************************)
EXTENDS Integers, Sequences

CONSTANTS
  Threads,        \* the threads that log
  kMaxQueueSize,  \* queue limit
  kBatchLimit,    \* lines per batch
  MaxLines        \* bound: lines logged over the run

ASSUME LoggerAssumption ==
  /\ kMaxQueueSize \in Nat \ {0}
  /\ kBatchLimit \in Nat \ {0}
  /\ MaxLines \in Nat

VARIABLES
  queue, dropped, stop,  \* Logger::Impl, under mtx
  fileFd,    \* setLogFile() has opened a file
  worker,    \* where workerLoop() stands
  batch,     \* the lines it took and has not written yet
  stderr,    \* what is on stderr: lines, and announcements of drops
  file,      \* lines in the log file
  caller,    \* where each thread stands in enqueue() or shutdown()
  accepted,  \* history: the lines that entered the queue, in order
  lost,      \* history: how many lines were dropped
  atStop,    \* history: how many lines had been accepted when stop was set
  reported,  \* history: what the announcements on stderr add up to
  cut        \* history: the outputs on which a write came short

vars == <<queue, dropped, stop, fileFd, worker, batch, stderr, file, caller,
          accepted, lost, atStop, reported, cut>>
output  == <<stderr, file, reported, cut>>
history == <<accepted, lost, atStop>>

\* On stderr a line is a positive number; "dropped n log lines" is -n.
IsLine(x) == x > 0
Notice(n) == -n

TypeOK ==
  /\ queue \in Seq(Nat) /\ Len(queue) <= kMaxQueueSize
  /\ dropped \in Nat
  /\ stop \in BOOLEAN
  /\ fileFd \in BOOLEAN
  /\ worker \in {"check", "asleep", "write", "file", "report", "done"}
  /\ batch \in Seq(Nat)
  /\ stderr \in Seq(Int)
  /\ file \in Seq(Nat)
  /\ caller \in [Threads -> {"idle", "notify", "notify_all", "join"}]
  /\ accepted \in Seq(Nat)
  /\ lost \in Nat
  /\ atStop \in Nat
  /\ reported \in Nat
  /\ cut \in SUBSET {"stderr", "file"}

Init ==
  /\ queue = << >> /\ dropped = 0 /\ stop = FALSE
  /\ fileFd = FALSE
  /\ worker = "check" /\ batch = << >>
  /\ stderr = << >> /\ file = << >>
  /\ caller = [t \in Threads |-> "idle"]
  /\ accepted = << >> /\ lost = 0 /\ atStop = 0
  /\ reported = 0 /\ cut = {}

-----------------------------------------------------------------------------
(* The callers.                                                             *)

\* Fault: a line that does not fit is discarded without being counted.
EnqueueUncounted(t) ==
  /\ caller[t] = "idle"
  /\ Len(accepted) + lost < MaxLines
  /\ LET line == Len(accepted) + lost + 1
     IN  \/ /\ Len(queue) >= kMaxQueueSize
            /\ lost' = lost + 1
            /\ UNCHANGED <<queue, dropped, caller, accepted>>
         \/ /\ Len(queue) < kMaxQueueSize
            /\ queue' = Append(queue, line)
            /\ accepted' = Append(accepted, line)
            /\ caller' = [caller EXCEPT ![t] = "notify"]
            /\ UNCHANGED <<dropped, lost>>
  /\ UNCHANGED <<stop, fileFd, worker, batch, output, atStop>>

\* enqueue(): drop and count when the queue is full, otherwise push.
Enqueue(t) ==
  /\ caller[t] = "idle"
  /\ Len(accepted) + lost < MaxLines
  /\ LET line == Len(accepted) + lost + 1
     IN  \/ /\ Len(queue) >= kMaxQueueSize
            /\ dropped' = dropped + 1
            /\ lost' = lost + 1
            /\ UNCHANGED <<queue, caller, accepted>>
         \/ /\ Len(queue) < kMaxQueueSize
            /\ queue' = Append(queue, line)
            /\ accepted' = Append(accepted, line)
            /\ caller' = [caller EXCEPT ![t] = "notify"]
            /\ UNCHANGED <<dropped, lost>>
  /\ UNCHANGED <<stop, fileFd, worker, batch, output, atStop>>

\* Fault: shutdown() sets stop and joins without waking the worker.
ShutdownQuietly(t) ==
  /\ caller[t] = "idle" /\ ~stop
  /\ stop' = TRUE
  /\ atStop' = Len(accepted)
  /\ caller' = [caller EXCEPT ![t] = "join"]
  /\ UNCHANGED <<queue, dropped, fileFd, worker, batch, output, accepted, lost>>

\* shutdown() up to its notify_all(); with stop already set it just returns.
Shutdown(t) ==
  /\ caller[t] = "idle" /\ ~stop
  /\ stop' = TRUE
  /\ atStop' = Len(accepted)
  /\ caller' = [caller EXCEPT ![t] = "notify_all"]
  /\ UNCHANGED <<queue, dropped, fileFd, worker, batch, output, accepted, lost>>

\* Fault: only shutdown() wakes a sleeping worker.
NotifyOnShutdownOnly(t) ==
  /\ caller[t] \in {"notify", "notify_all"}
  /\ worker' = IF worker = "asleep" /\ caller[t] = "notify_all"
                 THEN "check" ELSE worker
  /\ caller' = [caller EXCEPT ![t] = IF @ = "notify" THEN "idle" ELSE "join"]
  /\ UNCHANGED <<queue, dropped, stop, fileFd, batch, output, history>>

\* cv.notify_one() or cv.notify_all(): the worker is the only waiter.
Notify(t) ==
  /\ caller[t] \in {"notify", "notify_all"}
  /\ worker' = IF worker = "asleep" THEN "check" ELSE worker
  /\ caller' = [caller EXCEPT ![t] = IF @ = "notify" THEN "idle" ELSE "join"]
  /\ UNCHANGED <<queue, dropped, stop, fileFd, batch, output, history>>

\* worker.join() returns.
Join(t) ==
  /\ caller[t] = "join" /\ worker = "done"
  /\ caller' = [caller EXCEPT ![t] = "idle"]
  /\ UNCHANGED <<queue, dropped, stop, fileFd, worker, batch, output, history>>

\* setLogFile(), which the two programs call once.
SetLogFile ==
  /\ ~fileFd /\ fileFd' = TRUE
  /\ UNCHANGED <<queue, dropped, stop, worker, batch, output, caller, history>>

-----------------------------------------------------------------------------
(* workerLoop().                                                            *)

\* Fault: stop ends the loop although lines are queued.
CheckStopsAtOnce ==
  /\ worker = "check"
  /\ \/ stop /\ worker' = "done" /\ UNCHANGED <<queue, batch>>
     \/ ~stop /\ queue = << >> /\ worker' = "asleep" /\ UNCHANGED <<queue, batch>>
     \/ /\ ~stop /\ queue # << >>
        /\ batch' = queue /\ queue' = << >> /\ worker' = "write"
  /\ UNCHANGED <<dropped, stop, fileFd, output, caller, history>>

\* Fault: a full batch is taken but one line more leaves the queue.
CheckSkipsOne ==
  /\ worker = "check" /\ queue # << >>
  /\ LET take == IF Len(queue) < kBatchLimit THEN Len(queue) ELSE kBatchLimit
     IN  /\ batch' = SubSeq(queue, 1, take)
         /\ queue' = SubSeq(queue, take + 2, Len(queue))
  /\ worker' = "write"
  /\ UNCHANGED <<dropped, stop, fileFd, output, caller, history>>

\* The critical section that ends cv.wait(): sleep, leave the loop, or take up
\* to kBatchLimit lines.
Check ==
  /\ worker = "check"
  /\ \/ /\ queue = << >>
        /\ worker' = IF stop THEN "done" ELSE "asleep"
        /\ UNCHANGED <<queue, batch>>
     \/ /\ queue # << >>
        /\ LET take == IF Len(queue) < kBatchLimit THEN Len(queue) ELSE kBatchLimit
           IN  /\ batch' = SubSeq(queue, 1, take)
               /\ queue' = SubSeq(queue, take + 1, Len(queue))
        /\ worker' = "write"
  /\ UNCHANGED <<dropped, stop, fileFd, output, caller, history>>

\* cv.wait() may return without a notification.
SpuriousWake ==
  /\ worker = "asleep" /\ worker' = "check"
  /\ UNCHANGED <<queue, dropped, stop, fileFd, batch, output, caller, history>>

\* One write() of the whole batch to stderr.
WriteStderr ==
  /\ worker = "write" /\ worker' = "file"
  /\ \E n \in 0 .. Len(batch) :
       /\ stderr' = stderr \o SubSeq(batch, 1, n)
       /\ cut' = IF n < Len(batch) THEN cut \union {"stderr"} ELSE cut
  /\ UNCHANGED <<queue, dropped, stop, fileFd, batch, file, reported, caller,
                 history>>

\* Fault: while draining, the file is forgotten.
WriteFileUnlessStopping ==
  /\ worker = "file" /\ worker' = "report"
  /\ file' = IF fileFd /\ ~stop THEN file \o batch ELSE file
  /\ batch' = << >>
  /\ UNCHANGED <<queue, dropped, stop, fileFd, stderr, reported, cut, caller,
                 history>>

\* The same to the log file, if there is one by now.
WriteFile ==
  /\ worker = "file" /\ worker' = "report"
  /\ \/ ~fileFd /\ UNCHANGED <<file, cut>>
     \/ /\ fileFd
        /\ \E n \in 0 .. Len(batch) :
             /\ file' = file \o SubSeq(batch, 1, n)
             /\ cut' = IF n < Len(batch) THEN cut \union {"file"} ELSE cut
  /\ batch' = << >>
  /\ UNCHANGED <<queue, dropped, stop, fileFd, stderr, reported, caller, history>>

\* Fetch and reset the drop count under the lock; announce it, on stderr only.
Report ==
  /\ worker = "report" /\ worker' = "check"
  /\ dropped' = 0
  /\ \/ dropped = 0 /\ UNCHANGED <<stderr, reported, cut>>
     \/ /\ dropped > 0
        /\ stderr' = Append(stderr, Notice(dropped))
        /\ reported' = reported + dropped
        /\ UNCHANGED cut
     \/ /\ dropped > 0
        /\ cut' = cut \union {"stderr"}
        /\ UNCHANGED <<stderr, reported>>
  /\ UNCHANGED <<queue, stop, fileFd, batch, file, caller, history>>

Caller(t) == Enqueue(t) \/ Shutdown(t) \/ Notify(t) \/ Join(t)
Worker    == Check \/ WriteStderr \/ WriteFile \/ Report

Next == (\E t \in Threads : Caller(t)) \/ SetLogFile \/ Worker \/ SpuriousWake

Spec == Init /\ [][Next]_vars

\* Threads are scheduled; nobody has to log, shut down or set a log file.
FairSpec ==
  /\ Spec
  /\ WF_vars(Worker)
  /\ \A t \in Threads : WF_vars(Notify(t) \/ Join(t))
-----------------------------------------------------------------------------
\* What the worker has in its hands for stderr, and for the log file.
ForStderr == IF worker = "write" THEN batch ELSE << >>
ForFile   == IF worker \in {"write", "file"} THEN batch ELSE << >>

\* The lines of s, whatever announcements are among them, are in the order in
\* which they were logged, and none is there twice.
Ordered(s) ==
  \A i, j \in DOMAIN s : i < j /\ IsLine(s[i]) /\ IsLine(s[j]) => s[i] < s[j]

\* Accepted lines go through the queue and the worker's batch to stderr without
\* being doubled or overtaken (enqueue and workerLoop), and unless a write to
\* stderr came short every one of them is on its way or there.
NoLineLost ==
  LET all == (stderr \o ForStderr) \o queue
  IN  /\ Ordered(all)
      /\ "stderr" \notin cut =>
           \A n \in DOMAIN accepted : \E i \in DOMAIN all : all[i] = accepted[n]

\* log.h:45: shutdown() drains the queue.  When the worker has ended, all that
\* was accepted before stop was set is on stderr, unless a write came short.
ShutdownDrains ==
  worker = "done" /\ "stderr" \notin cut =>
    \A n \in 1 .. atStop : \E i \in DOMAIN stderr : stderr[i] = accepted[n]

\* No silent loss (log.cpp:171): when the worker ends, the announcements on
\* stderr add up to the lines dropped, unless a write came short; later ones are
\* dropped only when the queue has filled again.
DropsAreReported ==
  worker = "done" /\ "stderr" \notin cut /\ Len(queue) < kMaxQueueSize =>
    reported = lost

\* From the first line it holds, and unless a write to it came short, the log
\* file misses none: what it holds, what the worker has for it and what is
\* queued are the last lines accepted (setLogFile and workerLoop).
FileMissesNothing ==
  "file" \notin cut =>
    \E n \in 0 .. Len(accepted) :
      SubSeq(accepted, n + 1, Len(accepted)) = (file \o ForFile) \o queue

\* Liveness: a line the queue accepted while the worker ran is handed to
\* write(), so no notification is lost between enqueue()'s unlock and the wait.
EveryLineIsWritten ==
  \A n \in 1 .. MaxLines :
    (Len(accepted) >= n /\ worker # "done")
      ~> Len(queue) + Len(ForStderr) <= Len(accepted) - n

\* Liveness: shutdown() returns.
ShutdownReturns == \A t \in Threads : caller[t] = "join" ~> caller[t] = "idle"
=============================================================================
