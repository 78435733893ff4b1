---------------------------- MODULE PollerProofs -----------------------------
(* Theorems about Poller for every threshold, queue size and number of      *)
(* starts and cancellations.                                                *)
EXTENDS Poller, TLAPS

-----------------------------------------------------------------------------
(* Types.                                                                   *)

\* The constants, and what the counters stay in.
LEMMA Counting ==
  ASSUME PollerAssumption
  PROVE  /\ Threshold \in Nat \ {0} /\ QueueSize \in Nat \ {0} /\ Ancient \in Nat
         /\ \A n \in 0..Threshold : Counted(n) \in 0..Threshold
         /\ \A a \in Nat : Older(a) \in Nat
         /\ StaleRaises \subseteq {"handle", "focas"}
  BY DEF PollerAssumption, Counted, Older, Ancient

\* Handing a call over leaves the task waiting for that call.
LEMMA SubmitTypes ==
  ASSUME NEW call \in Calls, NEW l \in {"connect", "read", "closing"},
         NEW before \in Seq(Calls), Submit(call, l, before),
         call = IF l = "closing" THEN "close" ELSE l
  PROVE  jobs' \in Seq(Calls) /\ loop' = l /\ answer' = "none" /\ Coherent'
  <1>1. /\ jobs' = Append(before, call) /\ loop' = l /\ answer' = "none"
        /\ jobs' \in Seq(Calls) /\ Len(jobs') = Len(before) + 1
        /\ jobs'[Len(jobs')] = call
    BY DEF Submit
  <1>2. jobs' # <<>>
    BY <1>1
  <1>3. QED
    BY <1>1, <1>2 DEF Coherent

\* The end of a call keeps the types, and answers the task that awaits it.
LEMMA FinishTypes ==
  ASSUME TypeOK, jobs # <<>>, NEW o \in {"ok", "handle", "focas"}, Finish(o),
         loop' = loop
  PROVE  jobs' \in Seq(Calls) /\ answer' \in {"none", "ok", "handle", "focas"}
         /\ Coherent'
  <1>1. /\ jobs \in Seq(Calls) /\ jobs' = Tail(jobs) /\ jobs' \in Seq(Calls)
        /\ Len(jobs') = Len(jobs) - 1 /\ Len(jobs) \in Nat \ {0}
        /\ \A i \in 1..Len(jobs') : jobs'[i] = jobs[i + 1]
    BY DEF Finish, TypeOK
  <1>2. CASE loop \notin {"connect", "read", "closing"}
    BY <1>1, <1>2 DEF Finish, Awaited, TypeOK, Coherent
  <1>3. CASE loop \in {"connect", "read", "closing"} /\ Len(jobs) = 1
    <2>1. jobs' = <<>>
      BY <1>1, <1>3
    <2>2. QED
      BY <1>1, <1>3, <2>1 DEF Finish, Awaited, TypeOK, Coherent
  <1>4. CASE loop \in {"connect", "read", "closing"} /\ Len(jobs) # 1
    <2>1. Len(jobs') \in 1..Len(jobs') /\ Len(jobs') + 1 = Len(jobs)
      BY <1>1, <1>4
    <2>2. jobs' # <<>>
      BY <2>1
    <2>3. jobs'[Len(jobs')] = jobs[Len(jobs)]
      BY <1>1, <2>1
    <2>4. answer' = answer
      BY <1>4 DEF Finish, Awaited
    <2>5. QED
      BY <1>1, <1>4, <2>2, <2>3, <2>4 DEF TypeOK, Coherent
  <1>5. QED
    BY <1>2, <1>3, <1>4

\* What a cancellation leaves of the jobs are jobs.
LEMMA RemainingTypes ==
  ASSUME TypeOK PROVE Remaining \subseteq Seq(Calls)
  <1>1. Len(jobs) > 1 \/ jobs # <<>> => Dropped \in Seq(Calls)
    BY DEF Dropped, TypeOK
  <1>2. QED
    BY <1>1 DEF Remaining, TypeOK

\* The queue after a snapshot is no longer than its size.
LEMMA OfferedTypes ==
  ASSUME TypeOK, PollerAssumption
  PROVE  /\ Offered \in Seq(Nat) /\ Len(Offered) <= QueueSize
         /\ Len(Offered) = IF Len(queue) = QueueSize THEN QueueSize
                           ELSE Len(queue) + 1
  <1> DEFINE kept == IF Len(queue) = QueueSize THEN Tail(queue) ELSE queue
  <1>1. QueueSize \in Nat \ {0} /\ queue \in Seq(Nat) /\ Len(queue) <= QueueSize
    BY DEF PollerAssumption, TypeOK
  <1>2. /\ kept \in Seq(Nat)
        /\ Len(kept) = IF Len(queue) = QueueSize THEN QueueSize - 1 ELSE Len(queue)
    BY <1>1
  <1>3. [i \in 1..Len(kept) |-> kept[i] + 1] \in Seq(Nat)
    BY <1>2
  <1>4. Len([i \in 1..Len(kept) |-> kept[i] + 1]) = Len(kept)
    BY <1>2
  <1>5. Offered = Append([i \in 1..Len(kept) |-> kept[i] + 1], 0)
    BY DEF Offered
  <1>6. QED
    BY <1>1, <1>2, <1>3, <1>4, <1>5

\* Init is well typed.
LEMMA InitTypeOK == ASSUME PollerAssumption, Init PROVE TypeOK
  <1>1. <<>> \in Seq(Calls) /\ <<>> \in Seq(Nat) /\ Len(<<>>) = 0
    OBVIOUS
  <1>2. QueueSize \in Nat /\ Ancient \in Nat /\ 0 \in 0..Threshold
    BY Counting
  <1>3. Coherent
    BY DEF Init, Coherent
  <1>4. /\ queue \in Seq(Nat) /\ Len(queue) <= QueueSize /\ jobs \in Seq(Calls)
        /\ fails \in 0..Threshold /\ failed \in 0..Threshold
        /\ got \in Nat /\ lost \in Nat
    BY <1>1, <1>2 DEF Init
  <1>5. QED
    BY <1>3, <1>4 DEF Init, TypeOK, Locations, Over

\* Every step keeps the types.
LEMMA NextTypeOK == ASSUME PollerAssumption, TypeOK, [Next]_vars PROVE TypeOK'
  <1>0. Len(queue) \in Nat /\ QueueSize \in Nat
    BY DEF TypeOK, PollerAssumption
  <1>1. CASE UNCHANGED vars
    BY <1>1 DEF vars, loopVars, srcVars, outVars, envVars, TypeOK, Coherent
  <1> DEFINE Rest == /\ stop \in BOOLEAN /\ stopping \in BOOLEAN
                     /\ state \in {"init", "healthy", "degraded", "circuit_open", "shutdown"}
                     /\ handle \in {"none", "live", "stale"}
                     /\ fails \in 0..Threshold /\ failed \in 0..Threshold
                     /\ queue \in Seq(Nat) /\ Len(queue) <= QueueSize
                     /\ consumer \in {"away", "wait", "woken", "drain", "ended"}
                     /\ orphans \in Nat /\ starts \in Nat /\ cancels \in Nat
                     /\ link \in {"up", "flaky", "down"}
                     /\ got \in Nat /\ lost \in Nat
                     /\ cut \in BOOLEAN
             Task == /\ loop \in Locations /\ jobs \in Seq(Calls)
                     /\ answer \in {"none", "ok", "handle", "focas"}
                     /\ Coherent
  <1>2. TypeOK' <=> Rest' /\ Task'
    BY DEF TypeOK
  <1>3. Rest'
    <2> USE DEF TypeOK
    <2>1. CASE Enter
      BY <2>1, Counting DEF Enter, srcVars, outVars, envVars
    <2>2. CASE Connected
      BY <2>2, Counting DEF Connected, Poll, Finally, SetStop, outVars, envVars
    <2>3. CASE OnSuccess
      <3>1. /\ queue' \in Seq(Nat) /\ Len(queue') <= QueueSize
            /\ got' \in Nat /\ lost' \in Nat
            /\ fails' \in 0..Threshold /\ failed' \in 0..Threshold
        <4>1. /\ queue' = Offered /\ got' = Older(got) /\ lost' = Older(lost)
              /\ fails' = 0 /\ failed' = 0
          BY <2>3 DEF OnSuccess
        <4>2. Older(got) \in Nat /\ Older(lost) \in Nat /\ 0 \in 0..Threshold
          BY DEF Older, Ancient, PollerAssumption
        <4>3. Offered \in Seq(Nat) /\ Len(Offered) <= QueueSize
          BY OfferedTypes
        <4>4. QED
          BY <4>1, <4>2, <4>3
      <3>2. /\ stop' \in {stop, TRUE} /\ consumer' \in {consumer, "woken"}
            /\ state' \in {"healthy", "shutdown"}
        BY <2>3 DEF OnSuccess, CycleEnds, Finally, SetStop
      <3>3. QED
        BY <2>3, <3>1, <3>2 DEF OnSuccess, envVars
    <2>4. CASE OnError
      BY <2>4, Counting DEF OnError, CycleEnds, Finally, SetStop, outVars, envVars
    <2>5. CASE Wake
      BY <2>5, Counting DEF Wake, Poll, Finally, SetStop, outVars, envVars
    <2>6. CASE Closed
      BY <2>6, Counting DEF Closed, srcVars, outVars, envVars
    <2>7. CASE ThreadStep
      <3>1. /\ fails' \in 0..Threshold /\ failed' \in 0..Threshold
            /\ handle' \in {"none", "live", "stale"}
            /\ state' \in {state, "degraded", "circuit_open"}
            /\ UNCHANGED <<stop, outVars, consumer, envVars, cut>>
        <4>1. CASE ThreadConnects
          BY <4>1, Counting DEF ThreadConnects, OnFailure, loopVars
        <4>2. CASE ThreadReconnects
          BY <4>2, Counting DEF ThreadReconnects, OnFailure, loopVars
        <4>3. CASE ThreadReads
          BY <4>3 DEF ThreadReads, loopVars, srcVars
        <4>4. CASE ThreadCloses
          BY <4>4 DEF ThreadCloses, loopVars
        <4>5. QED
          BY <2>7, <4>1, <4>2, <4>3, <4>4 DEF ThreadStep
      <3>2. QED
        BY <3>1 DEF outVars, envVars
    <2>8. CASE ConsumerStep \/ AskNext \/ OrphanTakes \/ ConsumerCancelled \/ IterateAgain
      <3>1. queue # <<>> => /\ Head(queue) \in Nat /\ Tail(queue) \in Seq(Nat)
                           /\ Len(Tail(queue)) <= QueueSize
        BY <1>0
      <3>2. CASE Take \/ OrphanTakes \/ Drain
        <4>1. /\ queue' \in Seq(Nat) /\ Len(queue') <= QueueSize
              /\ got' \in Nat /\ lost' \in Nat
          BY <3>1, <3>2 DEF Take, OrphanTakes, Drain
        <4>2. consumer' \in {consumer, "away", "ended", "drain"} /\ orphans' \in Nat
          BY <3>2 DEF Take, OrphanTakes, Drain
        <4>3. UNCHANGED <<loopVars, srcVars, envVars, cut>>
          BY <3>2 DEF Take, OrphanTakes, Drain
        <4>4. UNCHANGED <<stop, state, handle, fails, failed, stopping, starts, cancels,
                          link, cut>>
          BY <4>3 DEF loopVars, srcVars, envVars
        <4>5. QED
          BY <4>1, <4>2, <4>4
      <3>3. CASE AskNext \/ IterateAgain
        BY <3>3 DEF AskNext, IterateAgain, loopVars, srcVars, outVars, envVars
      <3>4. CASE ConsumerCancelled
        BY <3>4 DEF ConsumerCancelled, loopVars, srcVars
      <3>5. QED
        BY <2>8, <3>2, <3>3, <3>4 DEF ConsumerStep
    <2>9. CASE Cancel
      <3>1. /\ stop' \in {stop, TRUE} /\ consumer' \in {consumer, "woken"}
            /\ state' \in {state, "shutdown"} /\ cut' \in {cut, TRUE}
        BY <2>9 DEF Cancel, Finally, SetStop
      <3>2. /\ cancels' \in Nat
            /\ UNCHANGED <<handle, fails, failed, queue, orphans, got, lost, link, starts,
                           stopping>>
        BY <2>9 DEF Cancel, outVars
      <3>3. state' \in {"init", "healthy", "degraded", "circuit_open", "shutdown"}
        BY <3>1
      <3>4. /\ stop' \in BOOLEAN /\ cut' \in BOOLEAN
            /\ consumer' \in {"away", "wait", "woken", "drain", "ended"}
        BY <3>1
      <3>5. QED
        BY <3>2, <3>3, <3>4
    <2>10. CASE Start \/ StopCalled \/ StopReturns
      <3>1. CASE Start
        <4>1. starts' \in Nat
          BY <3>1 DEF Start
        <4>2. /\ stop' = FALSE /\ cut' = FALSE
              /\ UNCHANGED <<srcVars, outVars, consumer, link, cancels, stopping>>
          BY <3>1 DEF Start
        <4>3. QED
          BY <4>1, <4>2 DEF srcVars, outVars
      <3>2. CASE StopCalled
        BY <3>2 DEF StopCalled, SetStop, srcVars, outVars
      <3>3. CASE StopReturns
        BY <3>3 DEF StopReturns, srcVars, outVars
      <3>4. QED
        BY <2>10, <3>1, <3>2, <3>3
    <2>11. ASSUME NEW l \in {"up", "flaky", "down"}, LinkChanges(l) PROVE Rest'
      BY <2>11, Counting DEF LinkChanges, loopVars, outVars
    <2>12. QED
      BY <1>1, <2>1, <2>2, <2>3, <2>4, <2>5, <2>6, <2>7, <2>8, <2>9, <2>10, <2>11
      DEF Next, LoopStep, World, vars, loopVars, srcVars, outVars, envVars
  <1>4. Task'
    <2>0. /\ {"connect", "read", "close"} = Calls /\ <<>> \in Seq(Calls)
          /\ loop \in Locations /\ jobs \in Seq(Calls)
          /\ answer \in {"none", "ok", "handle", "focas"} /\ Coherent
          /\ {"connect", "read", "closing", "sleep", "cooldown", "done", "stillborn",
              "none", "scheduled"} = Locations
      BY DEF Calls, TypeOK, Locations, Over
    <2>1. ASSUME NEW before \in Seq(Calls), Finally(before) PROVE Task'
      BY <2>0, <2>1, SubmitTypes DEF Finally, SetStop
    <2>2. ASSUME Submit("read", "read", <<>>) PROVE Task'
      BY <2>0, <2>2, SubmitTypes
    <2>3. ASSUME jobs' = jobs, answer' = "none",
                 loop' \in Locations \ {"connect", "read", "closing"}
          PROVE  Task'
      BY <2>0, <2>3 DEF Coherent
    <2>4. ASSUME jobs' = jobs, answer' = answer, loop' = loop PROVE Task'
      BY <2>0, <2>4 DEF Coherent
    <2>5. ASSUME NEW o \in {"ok", "handle", "focas"}, jobs # <<>>, Finish(o), loop' = loop
          PROVE  Task'
      BY <2>0, <2>5, FinishTypes
    <2>6. CASE Enter
      BY <2>0, <2>6, SubmitTypes DEF Enter
    <2>7. CASE Connected \/ Wake
      BY <2>0, <2>7, <2>1, <2>2 DEF Connected, Wake, Poll
    <2>8. CASE OnSuccess \/ OnError
      <3>1. PICK s \in {"healthy", "circuit_open", "degraded"} : CycleEnds(s)
        BY <2>8 DEF OnSuccess, OnError
      <3>2. QED
        BY <2>0, <2>1, <2>3, <3>1 DEF CycleEnds
    <2>9. CASE Closed
      BY <2>0, <2>3, <2>9 DEF Closed
    <2>10. CASE ThreadStep
      BY <2>4, <2>5, <2>10, Counting DEF ThreadStep, ThreadConnects, ThreadReconnects,
         ThreadReads, ThreadCloses, loopVars
    <2>11. CASE ConsumerStep \/ AskNext \/ OrphanTakes \/ ConsumerCancelled
                \/ IterateAgain \/ StopCalled
      BY <2>4, <2>11 DEF ConsumerStep, Take, Drain, AskNext, OrphanTakes,
         ConsumerCancelled, IterateAgain, StopCalled, loopVars
    <2>12. CASE Cancel
      <3>1. Remaining \subseteq Seq(Calls)
        BY RemainingTypes
      <3>2. ASSUME jobs' \in Remaining, loop' = "done", answer' = "none" PROVE Task'
        BY <2>0, <3>1, <3>2 DEF Coherent
      <3>3. CASE loop = "scheduled"
        <4>1. loop' = "stillborn" /\ jobs' = jobs /\ answer' = answer
          BY <2>12, <3>3 DEF Cancel
        <4>2. answer = "none"
          BY <2>0, <3>3 DEF Coherent
        <4>3. QED
          BY <2>0, <2>3, <4>1, <4>2
      <3>4. CASE loop = "closing"
        BY <2>12, <3>2, <3>4 DEF Cancel
      <3>5. CASE loop \in {"connect", "read", "sleep", "cooldown"}
        BY <2>0, <2>1, <2>12, <3>1, <3>5 DEF Cancel
      <3>6. QED
        BY <2>12, <3>3, <3>4, <3>5 DEF Cancel
    <2>13. CASE Start \/ StopReturns
      <3>1. StopReturns => answer' = "none"
        BY <2>0 DEF StopReturns, Over, Coherent
      <3>2. QED
        BY <2>0, <2>3, <2>13, <3>1 DEF Start, StopReturns
    <2>14. ASSUME NEW l \in {"up", "flaky", "down"}, LinkChanges(l) PROVE Task'
      BY <2>4, <2>14 DEF LinkChanges, loopVars
    <2>15. QED
      BY <1>1, <1>2, <2>6, <2>7, <2>8, <2>9, <2>10, <2>11, <2>12, <2>13, <2>14
      DEF Next, LoopStep, World
  <1>5. QED
    BY <1>2, <1>3, <1>4

(* Every variable keeps its type, and the task awaits the last call handed  *)
(* over or has its answer (poller.py:267-271), whatever is cancelled.       *)
THEOREM TypeCorrect == Spec => []TypeOK
  <1>1. TypeOK /\ [Next]_vars => TypeOK'
    BY PollerAssumption, NextTypeOK
  <1>2. Init => TypeOK
    BY PollerAssumption, InitTypeOK
  <1>3. QED
    BY <1>1, <1>2, PTL DEF Spec
-----------------------------------------------------------------------------
(* The inductive invariant.                                                 *)

(* A loop that sleeps has no call under way: all its failures are counted.  *)
Quiet == loop \in {"sleep", "cooldown"} => jobs = <<>>

(* The handle goes with the call that closes it, and does not come back.    *)
Released ==
  /\ loop = "done" /\ ~cut => jobs = <<>> /\ handle = "none"
  /\ loop = "closing" /\ answer # "none" => handle = "none"

(* A run that is ending has set _stop, and who waits for it was released.   *)
Ended ==
  /\ loop \in {"closing", "done"} => stop
  /\ stop => consumer # "wait"

(* The queue holds the newest snapshots without a gap, and a consumer has   *)
(* been served nothing as young as its head.                                *)
Consecutive ==
  /\ \A i \in 1..Len(queue) : queue[i] = Len(queue) - i
  /\ Len(queue) <= got
  /\ queue = <<>> => 0 \in {got, lost}

(* No failed cycle escapes the counter, and none at the limit gets past it. *)
AllCounted == failed <= fails /\ (loop = "sleep" => failed < Threshold)

IInv == TypeOK /\ Quiet /\ Released /\ Ended /\ Consecutive /\ AllCounted

\* A task with its answer has no call under way.
LEMMA Answered ==
  ASSUME TypeOK, answer # "none"
  PROVE  jobs = <<>> /\ loop \in {"connect", "read", "closing"}
  BY DEF TypeOK, Coherent

\* The call the thread runs is the awaited one only if it is the right one.
LEMMA AwaitedCall ==
  ASSUME TypeOK, jobs # <<>>, Awaited
  PROVE  Head(jobs) = IF loop = "closing" THEN "close" ELSE loop
  <1>1. Len(jobs) = 1 /\ Head(jobs) = jobs[Len(jobs)]
    BY DEF TypeOK, Awaited
  <1>2. QED
    BY <1>1 DEF Awaited, TypeOK, Coherent

\* Every step keeps the thread idle while the loop sleeps.
LEMMA NextQuiet == ASSUME TypeOK, Quiet, [Next]_vars PROVE Quiet'
  <1>1. CASE UNCHANGED vars
    BY <1>1 DEF vars, loopVars, Quiet
  <1>2. CASE LoopStep
    BY <1>2, Answered DEF LoopStep, Enter, Connected, OnSuccess, OnError, Wake, Closed, Poll,
       CycleEnds, Finally, Submit, Quiet
  <1>3. CASE ThreadStep
    BY <1>3 DEF ThreadStep, ThreadConnects, ThreadReconnects, ThreadReads, ThreadCloses,
       loopVars, Quiet
  <1>4. CASE ConsumerStep \/ AskNext \/ OrphanTakes \/ ConsumerCancelled \/ IterateAgain
             \/ StopCalled
    BY <1>4 DEF ConsumerStep, Take, Drain, AskNext, OrphanTakes, ConsumerCancelled,
       IterateAgain, StopCalled, loopVars, Quiet
  <1>5. CASE Cancel
    BY <1>5 DEF Cancel, Finally, Submit, Quiet
  <1>6. CASE Start \/ StopReturns
    BY <1>6 DEF Start, StopReturns, Quiet
  <1>7. ASSUME NEW l \in {"up", "flaky", "down"}, LinkChanges(l) PROVE Quiet'
    BY <1>7 DEF LinkChanges, loopVars, Quiet
  <1>8. QED
    BY <1>1, <1>2, <1>3, <1>4, <1>5, <1>6, <1>7 DEF Next, World

\* No call is left that could open the handle again after the last close.
LEMMA NextReleased == ASSUME TypeOK, Released, [Next]_vars PROVE Released'
  <1>1. CASE UNCHANGED vars
    BY <1>1 DEF vars, loopVars, srcVars, Released
  <1>2. CASE LoopStep
    BY <1>2, Answered DEF LoopStep, Enter, Connected, OnSuccess, OnError, Wake, Closed, Poll,
       CycleEnds, Finally, Submit, srcVars, Released
  <1>3. CASE ThreadStep
    <2>1. jobs # <<>> /\ UNCHANGED <<loop, cut>>
      BY <1>3 DEF ThreadStep, ThreadConnects, ThreadReconnects, ThreadReads, ThreadCloses,
         loopVars
    <2>2. ~(loop = "done" /\ ~cut) /\ answer = "none"
      BY <2>1, Answered DEF Released
    <2>3. CASE Head(jobs) = "close"
      BY <1>3, <2>1, <2>2, <2>3 DEF ThreadStep, ThreadConnects, ThreadReconnects,
         ThreadReads, ThreadCloses, Released
    <2>4. CASE Head(jobs) # "close"
      <3>1. loop = "closing" => ~Awaited
        BY <2>1, <2>4, AwaitedCall
      <3>2. loop = "closing" => answer' = answer
        BY <1>3, <3>1 DEF ThreadStep, ThreadConnects, ThreadReconnects, ThreadReads,
           ThreadCloses, Finish
      <3>3. QED
        BY <2>1, <2>2, <3>2 DEF Released
    <2>5. QED
      BY <2>3, <2>4
  <1>4. CASE ConsumerStep \/ AskNext \/ OrphanTakes \/ ConsumerCancelled \/ IterateAgain
             \/ StopCalled
    BY <1>4 DEF ConsumerStep, Take, Drain, AskNext, OrphanTakes, ConsumerCancelled,
       IterateAgain, StopCalled, loopVars, srcVars, Released
  <1>5. CASE Cancel
    BY <1>5 DEF Cancel, Finally, Submit, Released
  <1>6. CASE Start \/ StopReturns
    BY <1>6 DEF Start, StopReturns, Released
  <1>7. ASSUME NEW l \in {"up", "flaky", "down"}, LinkChanges(l) PROVE Released'
    BY <1>7 DEF LinkChanges, loopVars, Released
  <1>8. QED
    BY <1>1, <1>2, <1>3, <1>4, <1>5, <1>6, <1>7 DEF Next, World

\* Every way into the finally clause sets _stop.
LEMMA NextEnded == ASSUME TypeOK, Ended, [Next]_vars PROVE Ended'
  <1>1. CASE UNCHANGED vars
    BY <1>1 DEF vars, loopVars, Ended
  <1>2. CASE LoopStep
    BY <1>2 DEF LoopStep, Enter, Connected, OnSuccess, OnError, Wake, Closed, Poll,
       CycleEnds, Finally, SetStop, Submit, Ended
  <1>3. CASE ThreadStep
    BY <1>3 DEF ThreadStep, ThreadConnects, ThreadReconnects, ThreadReads, ThreadCloses,
       loopVars, Ended
  <1>4. CASE ConsumerStep \/ AskNext \/ OrphanTakes \/ ConsumerCancelled \/ IterateAgain
    BY <1>4 DEF ConsumerStep, Take, Drain, AskNext, OrphanTakes, ConsumerCancelled,
       IterateAgain, loopVars, Ended
  <1>5. CASE Cancel
    BY <1>5 DEF Cancel, Finally, SetStop, Submit, Ended
  <1>6. CASE Start \/ StopCalled \/ StopReturns
    BY <1>6 DEF Start, StopCalled, StopReturns, SetStop, Ended
  <1>7. ASSUME NEW l \in {"up", "flaky", "down"}, LinkChanges(l) PROVE Ended'
    BY <1>7 DEF LinkChanges, loopVars, Ended
  <1>8. QED
    BY <1>1, <1>2, <1>3, <1>4, <1>5, <1>6, <1>7 DEF Next, World

\* Every step counts no fewer failures than there were failed cycles.
LEMMA NextAllCounted ==
  ASSUME PollerAssumption, TypeOK, Quiet, AllCounted, [Next]_vars PROVE AllCounted'
  <1>0. /\ Threshold \in Nat \ {0} /\ fails \in 0..Threshold /\ failed \in 0..Threshold
        /\ failed <= fails
    BY DEF PollerAssumption, TypeOK, AllCounted
  <1>1. CASE UNCHANGED vars
    BY <1>1 DEF vars, loopVars, srcVars, AllCounted
  <1>2. CASE Enter \/ Connected \/ Wake \/ Closed
    BY <1>2 DEF Enter, Connected, Wake, Closed, Poll, Finally, Submit, srcVars, AllCounted
  <1>3. CASE OnSuccess
    BY <1>0, <1>3 DEF OnSuccess, AllCounted
  <1>4. CASE OnError
    <2>1. failed' = Counted(failed) /\ fails' = Counted(fails)
      BY <1>4 DEF OnError
    <2>2. failed' <= fails' /\ (fails + 1 < Threshold => failed' < Threshold)
      BY <1>0, <2>1 DEF Counted
    <2>3. loop' = "sleep" => ~Tripped(fails + 1)
      BY <1>4 DEF OnError, CycleEnds, Finally, Submit
    <2>4. QED
      BY <1>0, <2>2, <2>3 DEF Tripped, AllCounted
  <1>5. CASE ThreadStep
    <2>1. loop' = loop /\ loop # "sleep"
      BY <1>5 DEF ThreadStep, ThreadConnects, ThreadReconnects, ThreadReads, ThreadCloses,
         loopVars, Quiet
    <2>2. \/ UNCHANGED <<fails, failed>>
          \/ fails' = Counted(fails) /\ failed' \in {failed, Counted(failed)}
      BY <1>5 DEF ThreadStep, ThreadConnects, ThreadReconnects, ThreadReads, ThreadCloses,
         OnFailure, srcVars
    <2>3. failed' <= fails'
      BY <1>0, <2>2 DEF Counted
    <2>4. QED
      BY <2>1, <2>3 DEF AllCounted
  <1>6. CASE ConsumerStep \/ AskNext \/ OrphanTakes \/ ConsumerCancelled \/ IterateAgain
             \/ StopCalled
    BY <1>6 DEF ConsumerStep, Take, Drain, AskNext, OrphanTakes, ConsumerCancelled,
       IterateAgain, StopCalled, loopVars, srcVars, AllCounted
  <1>7. CASE Cancel
    BY <1>7 DEF Cancel, Finally, Submit, AllCounted
  <1>8. CASE Start \/ StopReturns
    BY <1>8 DEF Start, StopReturns, srcVars, AllCounted
  <1>9. ASSUME NEW l \in {"up", "flaky", "down"}, LinkChanges(l) PROVE AllCounted'
    BY <1>9 DEF LinkChanges, loopVars, AllCounted
  <1>10. QED
    BY <1>1, <1>2, <1>3, <1>4, <1>5, <1>6, <1>7, <1>8, <1>9 DEF Next, LoopStep, World

\* Taking the head leaves the rest without a gap.
LEMMA TakeKeeps ==
  ASSUME TypeOK, Consecutive, queue # <<>>, queue' = Tail(queue),
         got' \in {got, Head(queue)},
         Head(queue) \in {got', lost'}
  PROVE  Consecutive'
  <1>1. /\ queue \in Seq(Nat) /\ Len(queue) \in Nat \ {0} /\ Len(queue') = Len(queue) - 1
        /\ \A i \in 1..Len(queue') : queue'[i] = queue[i + 1]
        /\ Head(queue) = queue[1] /\ got \in Nat
    BY DEF TypeOK
  <1>2. Head(queue) = Len(queue) - 1 /\ Len(queue) <= got
    BY <1>1 DEF Consecutive
  <1>3. \A i \in 1..Len(queue') : queue'[i] = Len(queue') - i
    BY <1>1 DEF Consecutive
  <1>4. Len(queue') <= got'
    BY <1>1, <1>2
  <1>5. queue' = <<>> => 0 \in {got', lost'}
    BY <1>1, <1>2
  <1>6. QED
    BY <1>3, <1>4, <1>5 DEF Consecutive

\* The new snapshot is one younger than the youngest there was.
LEMMA OfferKeeps ==
  ASSUME PollerAssumption, TypeOK, Consecutive, queue' = Offered, got' = Older(got)
  PROVE  Consecutive'
  <1> DEFINE kept == IF Len(queue) = QueueSize THEN Tail(queue) ELSE queue
             aged == [i \in 1..Len(kept) |-> kept[i] + 1]
  <1>1. /\ QueueSize \in Nat \ {0} /\ queue \in Seq(Nat) /\ Len(queue) <= QueueSize
        /\ got \in Nat /\ Len(queue) <= got
    BY DEF PollerAssumption, TypeOK, Consecutive
  <1>2. /\ kept \in Seq(Nat) /\ Len(kept) \in Nat
        /\ Len(kept) < QueueSize /\ Len(kept) <= Len(queue)
    BY <1>1
  <1>3. \A i \in 1..Len(kept) : kept[i] = Len(kept) - i
    <2>1. CASE Len(queue) = QueueSize
      BY <1>1, <2>1 DEF Consecutive
    <2>2. CASE Len(queue) # QueueSize
      BY <2>2 DEF Consecutive
    <2>3. QED
      BY <2>1, <2>2
  <1>4. aged \in Seq(Nat) /\ Len(aged) = Len(kept)
    BY <1>2
  <1>5. queue' = Append(aged, 0)
    BY DEF Offered
  <1> HIDE DEF kept
  <1>6. Len(queue') = Len(kept) + 1
    BY <1>4, <1>5
  <1>7. \A i \in 1..Len(queue') : queue'[i] = Len(queue') - i
    <2> TAKE i \in 1..Len(queue')
    <2>1. CASE i = Len(kept) + 1
      BY <1>2, <1>4, <1>5, <1>6, <2>1
    <2>2. CASE i # Len(kept) + 1
      <3>1. i \in 1..Len(kept)
        BY <1>2, <1>6, <2>2
      <3>2. queue'[i] = aged[i] /\ aged[i] = kept[i] + 1
        BY <1>4, <1>5, <3>1
      <3>3. QED
        BY <1>2, <1>3, <1>6, <3>1, <3>2
    <2>3. QED
      BY <2>1, <2>2
  <1>8. Len(queue') <= got'
    BY <1>1, <1>2, <1>6 DEF Older, Ancient
  <1>9. queue' # <<>>
    BY <1>2, <1>6
  <1>10. QED
    BY <1>7, <1>8, <1>9 DEF Consecutive

\* Every step keeps the queue without a gap.
LEMMA NextConsecutive ==
  ASSUME PollerAssumption, TypeOK, Consecutive, [Next]_vars PROVE Consecutive'
  <1>1. CASE UNCHANGED <<queue, got, lost>>
    BY <1>1 DEF Consecutive
  <1>2. CASE OnSuccess
    BY <1>2, OfferKeeps DEF OnSuccess
  <1>3. CASE Take \/ OrphanTakes \/ (Drain /\ queue # <<>>)
    BY <1>3, TakeKeeps DEF Take, OrphanTakes, Drain
  <1>4. CASE Drain /\ queue = <<>>
    BY <1>1, <1>4 DEF Drain
  <1>5. CASE Enter \/ Connected \/ OnError \/ Wake \/ Closed \/ ThreadStep
    BY <1>1, <1>5 DEF Enter, Connected, OnError, Wake, Closed, ThreadStep, ThreadConnects,
       ThreadReconnects, ThreadReads, ThreadCloses, outVars
  <1>6. CASE AskNext \/ ConsumerCancelled \/ IterateAgain \/ Cancel \/ Start \/ StopCalled
             \/ StopReturns
    BY <1>1, <1>6 DEF AskNext, ConsumerCancelled, IterateAgain, Cancel, Start, StopCalled,
       StopReturns, outVars
  <1>7. ASSUME NEW l \in {"up", "flaky", "down"}, LinkChanges(l) PROVE Consecutive'
    BY <1>1, <1>7 DEF LinkChanges, outVars
  <1>8. CASE UNCHANGED vars
    BY <1>1, <1>8 DEF vars, outVars
  <1>9. QED
    BY <1>2, <1>3, <1>4, <1>5, <1>6, <1>7, <1>8 DEF Next, LoopStep, ConsumerStep, World

\* The invariant holds at the start.
LEMMA InitInvariant == ASSUME PollerAssumption, Init PROVE IInv
  <1>1. Threshold \in Nat \ {0} /\ Len(<<>>) = 0 /\ 1..0 = {}
    BY DEF PollerAssumption
  <1>2. TypeOK
    BY InitTypeOK
  <1>3. Quiet /\ Released /\ Ended
    BY DEF Init, Quiet, Released, Ended
  <1>4. Consecutive /\ AllCounted
    BY <1>1 DEF Init, Consecutive, AllCounted
  <1>5. QED
    BY <1>2, <1>3, <1>4 DEF IInv

\* The invariant is inductive.
LEMMA Invariant == Spec => []IInv
  <1>1. Init => IInv
    BY PollerAssumption, InitInvariant
  <1>2. IInv /\ [Next]_vars => IInv'
    BY PollerAssumption, NextTypeOK, NextQuiet, NextReleased, NextEnded, NextConsecutive,
       NextAllCounted DEF IInv
  <1>3. QED
    BY <1>1, <1>2, PTL DEF Spec

(* A consumer never waits on a loop that is ending or has ended, whoever    *)
(* cancels what and when (poller.py:351-362).                               *)
THEOREM ConsumersAreReleased == Spec => []NobodyWaitsForTheDead
  <1>1. IInv => NobodyWaitsForTheDead
    BY DEF IInv, Ended, NobodyWaitsForTheDead
  <1>2. QED
    BY <1>1, Invariant, PTL

(* The handle is closed when run() has ended, unless its last disconnect    *)
(* was cancelled too (poller.py:362-365).                                   *)
THEOREM HandleIsReleased == Spec => []HandleReleased
  <1>1. IInv => HandleReleased
    BY DEF IInv, Released, HandleReleased
  <1>2. QED
    BY <1>1, Invariant, PTL

(* Overflow drops the oldest: what is queued is in order, younger than what *)
(* was taken, and ends with the newest (poller.py:414-419).                 *)
THEOREM NewestIsNeverDropped == Spec => []QueueIsFresh
  <1>1. IInv => QueueIsFresh
    <2> SUFFICES ASSUME TypeOK, Consecutive PROVE QueueIsFresh
      BY DEF IInv
    <2>1. queue \in Seq(Nat) /\ Len(queue) \in Nat /\ got \in Nat
      BY DEF TypeOK
    <2>2. queue # <<>> => Len(queue) \in 1..Len(queue)
      BY <2>1
    <2>3. QED
      BY <2>1, <2>2 DEF Consecutive, QueueIsFresh
  <1>2. QED
    BY <1>1, Invariant, PTL

(* The loop never sleeps out a mere interval after Threshold failed cycles  *)
(* in a row, wherever they were counted (poller.py:433-443).                *)
THEOREM BreakerIsNeverLate == Spec => []BreakerNotLate
  <1>1. IInv => BreakerNotLate
    BY DEF IInv, AllCounted, BreakerNotLate
  <1>2. QED
    BY <1>1, Invariant, PTL
=============================================================================
