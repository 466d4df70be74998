------------------------------ MODULE UringOps ------------------------------
(***************************************************************************)
(* The bridge between io_uring and the coroutines of one event-loop thread  *)
(* (include/coro/uring_awaitable.h): an operation object lives in the frame *)
(* of the coroutine that awaits it, its address is the user_data of the     *)
(* SQE, and the CQE calls it back without any lookup.  PendingUringOps      *)
(* indexes the waiting operations by fd so that cancelFd() can disarm them. *)
(*                                                                          *)
(* A frame is a block of memory: a destroyed frame's block may be the next  *)
(* coroutine's.  An operation is one await; it is used once, so that an     *)
(* answer can be told from the answer to an earlier await in the same       *)
(* block.                                                                   *)
(***************************************************************************)
EXTENDS Integers, FiniteSets

CONSTANTS
  Frames,        \* memory blocks that hold coroutine frames
  Fds,           \* file descriptors
  Ops,           \* bound: the awaits of a run
  NoOp,          \* stands for "no operation"
  Entries        \* slots of the submission queue

ASSUME UringAssumption ==
  /\ Fds \subseteq Nat
  /\ NoOp \notin Ops
  /\ Entries \in Nat

NoFd == -1

VARIABLES
  relays,    \* the thread runs SOCKS5 UDP relays; a server's does not
  coro,      \* what the coroutine in each block is doing
  waits,     \* history: the await whose UringOp the block holds
  armed,     \* UringOp::onComplete and handle are set
  opFd,      \* UringOp::fd
  byFd,      \* PendingUringOps::byFd_
  stage,     \* how far the kernel is with each operation
  userData,  \* the block an operation's SQE points to
  answer     \* history: the operation that resumed the coroutine last

opsVars == <<relays, coro, waits, armed, opFd, byFd, stage, userData, answer>>

OpsTypeOK ==
  /\ relays \in BOOLEAN
  /\ coro \in [Frames -> {"free", "running", "suspended", "cancelled"}]
  /\ waits \in [Frames -> Ops \cup {NoOp}]
  /\ armed \in [Frames -> BOOLEAN]
  /\ opFd \in [Frames -> Fds \cup {NoFd}]
  /\ byFd \in [Fds -> SUBSET Frames]
  /\ stage \in [Ops -> {"unused", "prepared", "inflight", "completed", "gone"}]
  /\ userData \in [Ops -> Frames]
  /\ answer \in [Frames -> Ops \cup {NoOp}]

OpsInit ==
  /\ relays \in BOOLEAN
  /\ coro = [b \in Frames |-> "free"]
  /\ waits = [b \in Frames |-> NoOp]
  /\ armed = [b \in Frames |-> FALSE]
  /\ opFd = [b \in Frames |-> NoFd]
  /\ byFd = [f \in Fds |-> {}]
  /\ stage = [o \in Ops |-> "unused"]
  /\ userData \in [Ops -> Frames]
  /\ answer = [b \in Frames |-> NoOp]

-----------------------------------------------------------------------------
\* PendingUringOps::add() and remove(), which ignore an invalid fd.
Add(b, f)    == [g \in Fds |-> IF g = f THEN byFd[g] \cup {b} ELSE byFd[g]]
Remove(b, f) == [g \in Fds |-> IF g = f THEN byFd[g] \ {b} ELSE byFd[g]]

\* A coroutine is called: its frame is allocated and it runs.
Call(b) ==
  /\ coro[b] = "free"
  /\ coro' = [coro EXCEPT ![b] = "running"]
  /\ waits' = [waits EXCEPT ![b] = NoOp]
  /\ armed' = [armed EXCEPT ![b] = FALSE]
  /\ answer' = [answer EXCEPT ![b] = NoOp]
  /\ UNCHANGED <<relays, opFd, byFd, stage, userData>>

\* Fault: an awaitable that gets no SQE leaves its coroutine suspended.
AwaitWithoutAbort(b, f, o) ==
  /\ coro[b] = "running" /\ stage[o] = "unused"
  /\ waits' = [waits EXCEPT ![b] = o]
  /\ opFd' = [opFd EXCEPT ![b] = f]
  /\ answer' = [answer EXCEPT ![b] = NoOp]
  /\ userData' = [userData EXCEPT ![o] = b]
  /\ coro' = [coro EXCEPT ![b] = "suspended"]
  /\ armed' = [armed EXCEPT ![b] = TRUE]
  /\ byFd' = Add(b, f)
  /\ stage' = [stage EXCEPT ![o] =
                 IF Cardinality({p \in Ops : stage[p] = "prepared"}) < Entries
                   THEN "prepared" ELSE "gone"]
  /\ UNCHANGED relays

\* await_suspend() of every awaitable: arm and track the operation and prepare
\* an SQE, or abort it with an error result and go on when the queue is full.
Await(b, f, o) ==
  /\ coro[b] = "running" /\ stage[o] = "unused"
  /\ waits' = [waits EXCEPT ![b] = o]
  /\ opFd' = [opFd EXCEPT ![b] = f]
  /\ \/ /\ Cardinality({p \in Ops : stage[p] = "prepared"}) < Entries
        /\ coro' = [coro EXCEPT ![b] = "suspended"]
        /\ armed' = [armed EXCEPT ![b] = TRUE]
        /\ byFd' = Add(b, f)
        /\ stage' = [stage EXCEPT ![o] = "prepared"]
        /\ userData' = [userData EXCEPT ![o] = b]
        /\ answer' = [answer EXCEPT ![b] = NoOp]
     \/ /\ Cardinality({p \in Ops : stage[p] = "prepared"}) >= Entries
        /\ stage' = [stage EXCEPT ![o] = "gone"]
        /\ answer' = [answer EXCEPT ![b] = o]
        /\ UNCHANGED <<coro, armed, byFd, userData>>
  /\ UNCHANGED relays

\* io_uring_submit_and_wait() hands over all prepared SQEs.
Submit ==
  /\ \E o \in Ops : stage[o] = "prepared"
  /\ stage' = [o \in Ops |-> IF stage[o] = "prepared" THEN "inflight" ELSE stage[o]]
  /\ UNCHANGED <<relays, coro, waits, armed, opFd, byFd, userData, answer>>

\* The kernel completes operations in any order.
KernelComplete(o) ==
  /\ stage[o] = "inflight"
  /\ stage' = [stage EXCEPT ![o] = "completed"]
  /\ UNCHANGED <<relays, coro, waits, armed, opFd, byFd, userData, answer>>

\* Fault: the completed operation stays in the table.
DispatchWithoutRemove(o) ==
  /\ stage[o] = "completed"
  /\ stage' = [stage EXCEPT ![o] = "gone"]
  /\ LET b == userData[o]
     IN  \/ ~armed[b] /\ UNCHANGED <<coro, armed, answer>>
         \/ /\ armed[b]
            /\ coro' = [coro EXCEPT ![b] = "running"]
            /\ armed' = [armed EXCEPT ![b] = FALSE]
            /\ answer' = [answer EXCEPT ![b] = o]
  /\ UNCHANGED <<relays, waits, opFd, byFd, userData>>

\* completeFromCqe() on the block the CQE points to: an operation that is not
\* armed is ignored, another is completed, removed and its coroutine resumed.
\* (In a block that has been freed it reads whatever is there: not armed, until
\* the block is in use again.)
Dispatch(o) ==
  /\ stage[o] = "completed"
  /\ stage' = [stage EXCEPT ![o] = "gone"]
  /\ LET b == userData[o]
     IN  \/ ~armed[b] /\ UNCHANGED <<coro, armed, byFd, answer>>
         \/ /\ armed[b]
            /\ coro' = [coro EXCEPT ![b] = "running"]
            /\ armed' = [armed EXCEPT ![b] = FALSE]
            /\ byFd' = Remove(b, opFd[b])
            /\ answer' = [answer EXCEPT ![b] = o]
  /\ UNCHANGED <<relays, waits, opFd, userData>>

\* Fault: cancelFd() drops the table entry and leaves the callbacks in place.
CancelFdKeepsCallbacks(f) ==
  /\ byFd' = [byFd EXCEPT ![f] = {}]
  /\ coro' = [b \in Frames |-> IF b \in byFd[f] THEN "cancelled" ELSE coro[b]]
  /\ UNCHANGED <<relays, waits, armed, opFd, stage, userData, answer>>

\* cancelFd(): disarm every operation waiting on f and forget them.
CancelFd(f) ==
  /\ byFd[f] # {}
  /\ armed' = [b \in Frames |-> armed[b] /\ b \notin byFd[f]]
  /\ coro' = [b \in Frames |-> IF b \in byFd[f] THEN "cancelled" ELSE coro[b]]
  /\ byFd' = [byFd EXCEPT ![f] = {}]
  /\ UNCHANGED <<relays, waits, opFd, stage, userData, answer>>

\* Fault: frames are also destroyed while their operation is only cancelled.
DestroyAnytime(b) ==
  /\ coro[b] \in {"running", "cancelled"}
  /\ coro' = [coro EXCEPT ![b] = "free"]
  /\ answer' = [answer EXCEPT ![b] = NoOp]
  /\ UNCHANGED <<relays, waits, armed, opFd, byFd, stage, userData>>

\* ~Task() destroys the frame of a coroutine that has returned.
Destroy(b) ==
  /\ coro[b] = "running"
  /\ coro' = [coro EXCEPT ![b] = "free"]
  /\ answer' = [answer EXCEPT ![b] = NoOp]
  /\ UNCHANGED <<relays, waits, armed, opFd, byFd, stage, userData>>

\* Socks5UdpRelay::stop() on one of its sockets: cancelFd(), close(), which
\* leaves the operation with the kernel, and then the session that owns the
\* waiting coroutines is destroyed, and their frames with it.
StopRelay(f) ==
  /\ relays /\ byFd[f] # {}
  /\ armed' = [b \in Frames |-> armed[b] /\ b \notin byFd[f]]
  /\ coro' = [b \in Frames |-> IF b \in byFd[f] THEN "free" ELSE coro[b]]
  /\ answer' = [b \in Frames |-> IF b \in byFd[f] THEN NoOp ELSE answer[b]]
  /\ byFd' = [byFd EXCEPT ![f] = {}]
  /\ UNCHANGED <<relays, waits, opFd, stage, userData>>

OpsNext ==
  \/ Submit
  \/ \E o \in Ops : KernelComplete(o) \/ Dispatch(o)
  \/ \E f \in Fds : CancelFd(f) \/ StopRelay(f)
  \/ \E b \in Frames : Call(b) \/ Destroy(b)
  \/ \E b \in Frames, f \in Fds \cup {NoFd}, o \in Ops : Await(b, f, o)

OpsSpec == OpsInit /\ [][OpsNext]_opsVars
-----------------------------------------------------------------------------
\* The tracking table is exact: byFd_ holds under f precisely the operations on
\* f whose coroutines are suspended, so cancelFd() misses none and never follows
\* a pointer into a frame that is gone (add, remove, cancelFd, complete).
TableExact ==
  \A f \in Fds :
    byFd[f] = {b \in Frames : coro[b] = "suspended" /\ opFd[b] = f}

\* Nobody waits for nothing: a suspended coroutine's own operation is on its way
\* through the ring (the abort path of await_suspend, submitAndWait).
NobodyForgotten ==
  \A b \in Frames :
    coro[b] = "suspended" =>
      /\ waits[b] \in Ops /\ userData[waits[b]] = b
      /\ stage[waits[b]] \in {"prepared", "inflight", "completed"}

\* uring_awaitable.h:54-55: a late CQE is ignored and never resumes a frame that
\* is gone.  A coroutine is resumed only by the operation it waits for.
LateCqeIgnored == \A b \in Frames : answer[b] # NoOp => answer[b] = waits[b]

\* What the code does: so it is in a thread without UDP relays, where a frame is
\* destroyed only after its coroutine has returned (~Task, EventLoop::run).
LateCqeIgnoredByServers == ~relays => LateCqeIgnored

\* A cancelled coroutine is never resumed (cancelFd, completeFromCqe).
CancelledStaysCancelled ==
  [][\A b \in Frames : coro[b] = "cancelled" => coro'[b] = "cancelled"]_opsVars
=============================================================================
