------------------------------- MODULE Poller --------------------------------
(***************************************************************************)
(* The asyncio poller of one machine (shared/focas/poller.py).  Its task   *)
(* run() lives on the event loop and hands every call into the control to  *)
(* an executor of one thread; a consumer iterates over snapshots(); an     *)
(* owner starts and stops it.  Tasks can be cancelled wherever they await, *)
(* and a call the thread has begun goes on after that.                     *)
(*                                                                         *)
(* Between two awaits the event loop runs one task: an action is such a    *)
(* stretch, or a step of the thread.  Sleeps take any time.  A snapshot is *)
(* represented by its age: how many were made since, 0 for the newest.     *)
(***************************************************************************)
EXTENDS Naturals, Sequences

CONSTANTS
  Threshold,   (* circuit_breaker_threshold                                *)
  QueueSize,   (* snapshot_queue_size                                      *)
  StaleRaises, (* what a read through a forgotten handle raises: "handle"  *)
               (* (FocasHandleError) or "focas" (any other exception)      *)
  MaxStarts, MaxCancels  (* bounds on the run                              *)

ASSUME PollerAssumption ==
  /\ Threshold \in Nat \ {0} /\ QueueSize \in Nat \ {0}
  /\ StaleRaises \subseteq {"handle", "focas"} /\ StaleRaises # {}
  /\ MaxStarts \in Nat /\ MaxCancels \in Nat

VARIABLES
  loop,     (* where the task of run() is                                  *)
  state,    (* self._state                                                 *)
  handle,   (* self._source: none, a live one, one the control forgot      *)
  fails,    (* self._consecutive_failures, up to Threshold                 *)
  stop,     (* self._stop                                                  *)
  jobs,     (* calls handed to the FOCAS thread, the head is running       *)
  answer,   (* outcome of the call the task awaits                         *)
  queue,    (* self._queue                                                 *)
  consumer, (* the iteration over snapshots()                              *)
  orphans,  (* getter tasks of iterations that were cancelled              *)
  stopping, (* the owner is inside stop()                                  *)
  link,     (* the control: answering, now and then, or off                *)
  starts, cancels,  (* so far                                              *)
  failed,   (* history: failed cycles in a row, up to Threshold            *)
  got, lost, (* history: age of the last snapshot a consumer took, and of  *)
             (* the last an orphan took                                    *)
  cut       (* history: the final disconnect of a run was itself cancelled *)

loopVars == <<loop, stop>>
srcVars  == <<handle, fails, state, failed>>
outVars  == <<queue, orphans, got, lost>>
envVars  == <<link, starts, cancels, stopping>>
vars == <<loopVars, srcVars, jobs, answer, outVars, consumer, envVars, cut>>

Ancient == QueueSize + 1
Older(age) == IF age < Ancient THEN age + 1 ELSE Ancient
Counted(n) == IF n < Threshold THEN n + 1 ELSE Threshold

Init ==
  /\ loop = "none" /\ stop = FALSE
  /\ state = "init" /\ handle = "none" /\ fails = 0 /\ failed = 0
  /\ jobs = <<>> /\ answer = "none"
  /\ queue = <<>> /\ orphans = 0 /\ got = 0 /\ lost = Ancient
  /\ consumer = "away"
  /\ link \in {"up", "down"} /\ starts = 0 /\ cancels = 0 /\ stopping = FALSE
  /\ cut = FALSE

-----------------------------------------------------------------------------
(* Pieces of run().                                                        *)

\* _stop.set() releases a consumer that waits for it.
SetStop ==
  /\ stop' = TRUE
  /\ consumer' = IF consumer = "wait" THEN "woken" ELSE consumer

Submit(call, l, before) ==
  /\ jobs' = Append(before, call)
  /\ loop' = l /\ answer' = "none"

\* (Variants of the finally clause: the guard against a waiting consumer, and
\* the disconnect, are left out.)
FinallySilent(before) ==
  /\ UNCHANGED <<stop, consumer>> /\ Submit("close", "closing", before)
FinallyOpen(before) ==
  /\ SetStop /\ loop' = "done" /\ jobs' = before /\ answer' = "none"

\* The finally clause up to its await; state is set by whoever takes it.
Finally(before) == SetStop /\ Submit("close", "closing", before)

\* _on_failure; (a variant opens the breaker one failure late).
TrippedLate(n) == n > Threshold
Tripped(n) == n >= Threshold
OnFailure ==
  /\ fails' = Counted(fails)
  /\ state' = IF Tripped(fails + 1) THEN "circuit_open" ELSE "degraded"

\* The test of the while loop, and where a cycle ends.
Poll ==
  IF stop THEN Finally(<<>>) /\ state' = "shutdown"
  ELSE Submit("read", "read", <<>>) /\ UNCHANGED <<stop, consumer, state>>

\* The test after a cycle: break, or sleep for the cadence or the cooldown.
CycleEnds(s) ==
  IF stop THEN Finally(<<>>) /\ state' = "shutdown"
  ELSE /\ UNCHANGED <<stop, consumer, jobs>> /\ answer' = "none" /\ state' = s
       /\ loop' = IF s = "circuit_open" THEN "cooldown" ELSE "sleep"

-----------------------------------------------------------------------------
(* The task of run().                                                      *)

Enter ==
  /\ loop = "scheduled"
  /\ Submit("connect", "connect", jobs)
  /\ UNCHANGED <<stop, srcVars, outVars, consumer, envVars, cut>>

Connected ==
  /\ loop = "connect" /\ answer # "none"
  /\ Poll
  /\ UNCHANGED <<handle, fails, failed, outVars, envVars, cut>>

\* (Variants: no room is made, the newest is dropped.)
OfferedUnbounded == Append([i \in 1..Len(queue) |-> queue[i] + 1], 0)
OfferedStale ==
  LET aged == [i \in 1..Len(queue) |-> queue[i] + 1] IN
  IF Len(queue) = QueueSize THEN aged ELSE Append(aged, 0)

\* The queue after a new snapshot: the oldest makes room for it.
Offered ==
  LET kept == IF Len(queue) = QueueSize THEN Tail(queue) ELSE queue IN
  Append([i \in 1..Len(kept) |-> kept[i] + 1], 0)

OnSuccess ==
  /\ loop = "read" /\ answer = "ok"
  /\ fails' = 0 /\ failed' = 0
  /\ queue' = Offered /\ got' = Older(got) /\ lost' = Older(lost)
  /\ CycleEnds("healthy")
  /\ UNCHANGED <<handle, orphans, envVars, cut>>

\* A failed cycle; after FocasHandleError the source is closed, here, on the
\* event loop.  (A variant keeps it.)
ClosesNever(exc) == FALSE
Closes(exc) == exc = "handle"

OnError ==
  /\ loop = "read" /\ answer \in {"handle", "focas"}
  /\ fails' = Counted(fails) /\ failed' = Counted(failed)
  /\ handle' = IF Closes(answer) THEN "none" ELSE handle
  /\ CycleEnds(IF Tripped(fails + 1) THEN "circuit_open" ELSE "degraded")
  /\ UNCHANGED <<outVars, envVars, cut>>

\* The sleep times out, or is woken by _stop.
Wake ==
  /\ loop \in {"sleep", "cooldown"}
  /\ Poll
  /\ UNCHANGED <<handle, fails, failed, outVars, envVars, cut>>

Closed ==
  /\ loop = "closing" /\ answer # "none"
  /\ loop' = "done" /\ answer' = "none"
  /\ UNCHANGED <<stop, srcVars, jobs, outVars, consumer, envVars, cut>>

LoopStep == Enter \/ Connected \/ OnSuccess \/ OnError \/ Wake \/ Closed

-----------------------------------------------------------------------------
(* Cancellation of that task.                                              *)

\* What is left of the jobs when the last of them is no longer awaited: one
\* the thread has not begun is never made.
Dropped == SubSeq(jobs, 1, Len(jobs) - 1)
Remaining == IF answer # "none" \/ jobs = <<>> THEN {jobs}
             ELSE IF Len(jobs) > 1 THEN {Dropped} ELSE {jobs, Dropped}

Cancel ==
  /\ cancels < MaxCancels /\ cancels' = cancels + 1
  /\ \/ /\ loop \in {"connect", "read", "sleep", "cooldown"}
        /\ \E rest \in IF loop \in {"connect", "read"} THEN Remaining ELSE {jobs} :
             Finally(rest)
        /\ state' = "shutdown" /\ UNCHANGED cut
     \/ /\ loop = "closing"
        /\ jobs' \in Remaining
        /\ loop' = "done" /\ answer' = "none" /\ cut' = TRUE
        /\ UNCHANGED <<stop, consumer, state>>
     \/ /\ loop = "scheduled"   \* the body of run() is never entered
        /\ loop' = "stillborn"
        /\ UNCHANGED <<stop, consumer, state, jobs, answer, cut>>
  /\ UNCHANGED <<handle, fails, failed, outVars, link, starts, stopping>>

-----------------------------------------------------------------------------
(* The FOCAS thread: one call after the other, awaited or not.             *)

Awaited == Len(jobs) = 1 /\ loop \in {"connect", "read", "closing"}
Finish(outcome) ==
  /\ jobs' = Tail(jobs)
  /\ answer' = IF Awaited THEN outcome ELSE answer

\* _connect; a failure is counted by the thread itself.
ThreadConnects ==
  /\ jobs # <<>> /\ Head(jobs) = "connect"
  /\ \/ /\ link # "down"
        /\ handle' = "live" /\ UNCHANGED <<fails, state, failed>>
     \/ /\ link # "up"
        /\ handle' = "none" /\ OnFailure /\ failed' = Counted(failed)
  /\ Finish("ok")
  /\ UNCHANGED <<loopVars, outVars, consumer, envVars, cut>>

\* The same inside a cycle: the failure is counted here, and again by OnError
\* for the assertion that follows.
ThreadReconnects ==
  /\ jobs # <<>> /\ Head(jobs) = "read" /\ handle = "none"
  /\ \/ /\ link # "down"
        /\ handle' = "live" /\ UNCHANGED <<fails, state, jobs, answer>>
     \/ /\ link # "up"
        /\ OnFailure /\ Finish("focas") /\ UNCHANGED handle
  /\ UNCHANGED <<loopVars, failed, outVars, consumer, envVars, cut>>

ThreadReads ==
  /\ jobs # <<>> /\ Head(jobs) = "read" /\ handle # "none"
  /\ \/ handle = "live" /\ link # "down" /\ Finish("ok")
     \/ handle = "live" /\ link # "up" /\ Finish("focas")
     \/ handle = "stale" /\ \E exc \in StaleRaises : Finish(exc)
  /\ UNCHANGED <<loopVars, srcVars, outVars, consumer, envVars, cut>>

ThreadCloses ==
  /\ jobs # <<>> /\ Head(jobs) = "close"
  /\ handle' = "none" /\ Finish("ok")
  /\ UNCHANGED <<loopVars, fails, state, failed, outVars, consumer, envVars, cut>>

ThreadStep == ThreadConnects \/ ThreadReconnects \/ ThreadReads \/ ThreadCloses

-----------------------------------------------------------------------------
(* snapshots(): a getter task raced against _stop.wait().                  *)

AskNext ==
  /\ consumer = "away"
  /\ consumer' = IF stop THEN "woken" ELSE "wait"
  /\ UNCHANGED <<loopVars, srcVars, jobs, answer, outVars, envVars, cut>>

\* Getters are served in the order they came, orphans first.
Take ==
  /\ consumer \in {"wait", "woken"} /\ queue # <<>> /\ orphans = 0
  /\ queue' = Tail(queue) /\ got' = Head(queue)
  /\ consumer' = "away"
  /\ UNCHANGED <<loopVars, srcVars, jobs, answer, orphans, lost, envVars, cut>>

OrphanTakes ==
  /\ orphans > 0 /\ queue # <<>>
  /\ queue' = Tail(queue) /\ lost' = Head(queue) /\ orphans' = orphans - 1
  /\ UNCHANGED <<loopVars, srcVars, jobs, answer, got, consumer, envVars, cut>>

\* _stop came first: what is left is drained, and the iteration ends.
Drain ==
  /\ consumer \in {"woken", "drain"}
  /\ IF queue = <<>> THEN consumer' = "ended" /\ UNCHANGED <<queue, got>>
     ELSE consumer' = "drain" /\ queue' = Tail(queue) /\ got' = Head(queue)
  /\ UNCHANGED <<loopVars, srcVars, jobs, answer, orphans, lost, envVars, cut>>

\* asyncio.wait does not cancel what it waits for: the getter stays behind.
ConsumerCancelled ==
  /\ cancels < MaxCancels /\ cancels' = cancels + 1
  /\ consumer \in {"wait", "woken"}
  /\ consumer' = "away" /\ orphans' = orphans + 1
  /\ UNCHANGED <<loopVars, srcVars, jobs, answer, queue, got, lost, link, starts,
                 stopping, cut>>

\* A new iteration after one that has ended.
IterateAgain ==
  /\ consumer = "ended" /\ ~stop /\ consumer' = "away"
  /\ UNCHANGED <<loopVars, srcVars, jobs, answer, outVars, envVars, cut>>

ConsumerStep == Take \/ Drain

-----------------------------------------------------------------------------
(* The owner, and the control.                                             *)

Over == {"none", "done", "stillborn"}

\* start() raises while a task is running.
Start ==
  /\ loop \in Over /\ ~stopping
  /\ starts < MaxStarts /\ starts' = starts + 1
  /\ stop' = FALSE /\ loop' = "scheduled" /\ answer' = "none" /\ cut' = FALSE
  /\ UNCHANGED <<srcVars, jobs, outVars, consumer, link, cancels, stopping>>

\* (A variant awaits the task without telling it.)
StopCalledQuietly ==
  /\ ~stopping /\ stopping' = TRUE
  /\ UNCHANGED <<loopVars, srcVars, jobs, answer, outVars, consumer, link, starts,
                 cancels, cut>>

StopCalled ==
  /\ ~stopping /\ stopping' = TRUE
  /\ SetStop
  /\ UNCHANGED <<loop, srcVars, jobs, answer, outVars, link, starts, cancels, cut>>

\* The task has ended, and shutdown(wait=True) has seen the last job out.
StopReturns ==
  /\ stopping /\ loop \in Over /\ jobs = <<>>
  /\ stopping' = FALSE /\ loop' = "none"
  /\ UNCHANGED <<stop, srcVars, jobs, answer, outVars, consumer, link, starts,
                 cancels, cut>>

LinkChanges(l) ==
  /\ l # link /\ link' = l
  /\ handle' = IF l = "down" /\ handle = "live" THEN "stale" ELSE handle
  /\ UNCHANGED <<loopVars, fails, state, failed, jobs, answer, outVars, consumer,
                 starts, cancels, stopping, cut>>

World ==
  \/ Cancel \/ AskNext \/ OrphanTakes \/ ConsumerCancelled \/ IterateAgain
  \/ Start \/ StopCalled
  \/ \E l \in {"up", "flaky", "down"} : LinkChanges(l)

Next == LoopStep \/ ThreadStep \/ ConsumerStep \/ StopReturns \/ World
Spec == Init /\ [][Next]_vars

\* Tasks that can go on are scheduled, calls into the library time out,
\* sleeps end, and stop() is resumed.
FairSpec ==
  /\ Spec
  /\ WF_vars(LoopStep) /\ WF_vars(ThreadStep)
  /\ WF_vars(ConsumerStep) /\ WF_vars(StopReturns)

-----------------------------------------------------------------------------
Locations == {"scheduled", "connect", "read", "sleep", "cooldown", "closing"}
               \cup Over
Calls == {"connect", "read", "close"}

\* Besides the types: the last call is the one the task awaits, and an answer
\* is there only for a task that awaits one.
Coherent ==
  /\ loop \in {"connect", "read", "closing"} =>
       \/ /\ jobs # <<>> /\ answer = "none"
          /\ jobs[Len(jobs)] = IF loop = "closing" THEN "close" ELSE loop
       \/ jobs = <<>> /\ answer # "none"
  /\ loop \notin {"connect", "read", "closing"} => answer = "none"

TypeOK ==
  /\ loop \in Locations /\ stop \in BOOLEAN /\ stopping \in BOOLEAN
  /\ state \in {"init", "healthy", "degraded", "circuit_open", "shutdown"}
  /\ handle \in {"none", "live", "stale"}
  /\ fails \in 0..Threshold /\ failed \in 0..Threshold
  /\ jobs \in Seq(Calls) /\ answer \in {"none", "ok", "handle", "focas"}
  /\ queue \in Seq(Nat) /\ Len(queue) <= QueueSize
  /\ consumer \in {"away", "wait", "woken", "drain", "ended"}
  /\ orphans \in Nat /\ starts \in Nat /\ cancels \in Nat
  /\ link \in {"up", "flaky", "down"}
  /\ got \in Nat /\ lost \in Nat
  /\ cut \in BOOLEAN
  /\ Coherent

(* A consumer never waits on a loop that has ended, however it ended        *)
(* ("Defect-B guard", poller.py:351-363): run() releases it on its way out. *)
NobodyWaitsForTheDead == loop \in {"closing", "done"} => consumer # "wait"

(* A slow consumer loses old snapshots, never new ones, and sees the rest   *)
(* in order (poller.py:415-419): what is queued is younger than all it has  *)
(* taken and sorted, and the newest is queued or taken.                     *)
QueueIsFresh ==
  /\ \A i \in 1..Len(queue) : queue[i] < got
  /\ \A i, j \in 1..Len(queue) : i < j => queue[j] < queue[i]
  /\ IF queue = <<>> THEN 0 \in {got, lost} ELSE queue[Len(queue)] = 0

(* The handle is released on shutdown (poller.py:11), on every way out of   *)
(* run() but one: a second cancellation, during the final disconnect.       *)
HandleReleased ==
  (loop = "done" /\ jobs = <<>> /\ ~cut) => handle = "none"

(* The breaker is never late: after Threshold failed cycles in a row the    *)
(* loop cools down, whatever raised them and wherever they were counted     *)
(* (poller.py:24-28).                                                       *)
BreakerNotLate == loop = "sleep" => failed < Threshold

(* stop() returns, from every wait of the task and of the thread.           *)
StopEnds == stopping ~> ~stopping

(* "Reconnects on stale-handle errors (FOCAS handle invalidated by control  *)
(* reboot, network reset, etc.)" (poller.py:9-10): once the control        *)
(* answers for good, a running poller becomes healthy over and over.        *)
Recovers ==
  <>[](link = "up" /\ loop \in {"connect", "read", "sleep", "cooldown"})
    => []<>(state = "healthy")
=============================================================================
