---------------------------- MODULE FocasService ----------------------------
(***************************************************************************)
(* The production poll supervisor (shared/focas/service.py): one thread    *)
(* that keeps the mirror of one machine fresh for ever.  It opens a FOCAS  *)
(* handle, reads and persists a snapshot per cycle, counts read errors     *)
(* towards a circuit breaker, and reconnects instead of exiting.           *)
(*                                                                         *)
(* Time is abstracted: a sleep is a state of pc that some later step       *)
(* leaves, so every length of a back-off, cooldown or interval is covered. *)
(* The control, the database and the stop signal are the environment.      *)
(***************************************************************************)
EXTENDS Naturals

CONSTANTS
  Threshold,    (* ServiceConfig.breaker_threshold                         *)
  FastTicks,    (* status windows that fit between two full cycles;        *)
                (* 0: no fast status tier (every mill)                     *)
  StaleRaises,  (* exceptions a read through a dead handle may raise:      *)
                (* "handle" (FocasHandleError), "focas" (any other one).   *)
                (* errors._KNOWN_CODES being empty, production is {"focas"} *)
  Malformed,    (* a read may raise a non-FOCAS exception (ValidationError) *)
  LongInterval  (* interval_seconds exceeds cooldown_seconds               *)

ASSUME ServiceAssumption ==
  /\ Threshold \in Nat \ {0}
  /\ FastTicks \in Nat
  /\ StaleRaises \subseteq {"handle", "focas"} /\ StaleRaises # {}
  /\ Malformed \in BOOLEAN
  /\ LongInterval \in BOOLEAN

VARIABLES
  pc,          (* where the thread of run() is                             *)
  state,       (* self._state                                              *)
  source,      (* self._source: no handle, a live one, or one the control  *)
               (* has forgotten                                            *)
  consecutive, (* self._consecutive                                        *)
  ticks,       (* fast ticks left in the current wait                      *)
  hb,          (* the last heartbeat emitted                               *)
  halt,        (* the shared stop event                                    *)
  link,        (* the control: answering, answering now and then, or off   *)
  db,          (* the database accepts a persist                           *)
  mirror,      (* max(last_polled_at) is recent enough, or too old         *)
  streak,      (* history: failed full reads since the last good one or    *)
               (* the last completed cooldown                              *)
  onHandle     (* history: failed full reads in a row on this handle       *)

thread == <<pc, state, source, consecutive, ticks, hb, streak, onHandle>>
serviceVars == <<thread, halt, link, db, mirror>>

ServiceState == {"connecting", "healthy", "degraded", "circuit_open", "stopped"}
Finished == {"exited", "died"}
Cooling  == {"cooldown", "cooldownStale"}
RunLocations ==
  {"loop", "connecting", "read", "persist", "fastread", "fastpersist", "backoff", "wait"}
    \cup Cooling \cup Finished

ServiceInit ==
  /\ pc = "loop" /\ state = "connecting" /\ source = "none"
  /\ consecutive = 0 /\ ticks = 0
  /\ hb = [state |-> "connecting", fails |-> 0]
  /\ halt = FALSE /\ link \in {"up", "down"} /\ db \in BOOLEAN /\ mirror = "old"
  /\ streak = 0 /\ onHandle = 0

-----------------------------------------------------------------------------
(* Set self._state and emit the heartbeat that carries it.                 *)
Report(s, n) ==
  /\ state' = s
  /\ hb' = [state |-> s, fails |-> n]

CloseSource == source' = "none" /\ onHandle' = 0

\* The finally clause of run(): taken on stop and on an escaping exception.
LeaveRun(where) ==
  /\ CloseSource
  /\ Report("stopped", consecutive)
  /\ pc' = where
  /\ UNCHANGED <<consecutive, ticks, halt, link, db, mirror, streak>>

Exit == pc = "loop" /\ halt /\ LeaveRun("exited")

-----------------------------------------------------------------------------
(* _connect: report CONNECTING, call the factory, back off on any failure. *)
BeginConnectSilent ==        \* variant: the heartbeat is forgotten
  /\ pc = "loop" /\ ~halt /\ source = "none"
  /\ state' = "connecting" /\ pc' = "connecting"
  /\ UNCHANGED <<source, consecutive, ticks, hb, halt, link, db, mirror, streak, onHandle>>

BeginConnect ==
  /\ pc = "loop" /\ ~halt /\ source = "none"
  /\ Report("connecting", consecutive)
  /\ pc' = "connecting"
  /\ UNCHANGED <<source, consecutive, ticks, halt, link, db, mirror, streak, onHandle>>

ConnectOk ==
  /\ pc = "connecting" /\ link # "down"
  /\ source' = "live" /\ onHandle' = 0
  /\ consecutive' = 0
  /\ state' = "healthy"          \* no heartbeat here
  /\ pc' = "read"                \* run_cycle follows without a look at stop
  /\ UNCHANGED <<ticks, hb, halt, link, db, mirror, streak>>

ConnectFailSpins ==          \* variant: retries inside _connect
  /\ pc = "connecting" /\ link # "up"
  /\ pc' = "connecting"
  /\ UNCHANGED <<state, source, consecutive, ticks, hb, halt, link, db, mirror,
                 streak, onHandle>>

ConnectFail ==
  /\ pc = "connecting" /\ link # "up"
  /\ pc' = "backoff"
  /\ UNCHANGED <<state, source, consecutive, ticks, hb, halt, link, db, mirror,
                 streak, onHandle>>

-----------------------------------------------------------------------------
(* _run_cycle.                                                             *)
BeginCycle ==
  /\ pc = "loop" /\ ~halt /\ source # "none"
  /\ pc' = "read"
  /\ UNCHANGED <<state, source, consecutive, ticks, hb, halt, link, db, mirror,
                 streak, onHandle>>

Readable == source = "live" /\ link # "down"
RaisesFocas ==
  \/ source = "live" /\ link # "up"
  \/ source = "stale" /\ "focas" \in StaleRaises
RaisesHandle == source = "stale" /\ "handle" \in StaleRaises
RaisesOther == Malformed /\ source = "live" /\ link = "flaky"

ReadOkNoReset ==             \* variant: a good read does not clear the counter
  /\ pc = "read" /\ Readable
  /\ streak' = 0 /\ onHandle' = 0
  /\ pc' = "persist"
  /\ UNCHANGED <<state, source, consecutive, ticks, hb, halt, link, db, mirror>>

ReadOk ==
  /\ pc = "read" /\ Readable
  /\ consecutive' = 0
  /\ streak' = 0 /\ onHandle' = 0
  /\ pc' = "persist"
  /\ UNCHANGED <<state, source, ticks, hb, halt, link, db, mirror>>

\* variant: the breaker trips one failure late
OnReadFailureLate(keepHandle, cooling, otherwise) ==
  LET n == consecutive + 1
      tripped == n > Threshold
  IN /\ consecutive' = n
     /\ streak' = IF streak > Threshold THEN streak ELSE streak + 1
     /\ Report(IF tripped THEN "circuit_open" ELSE "degraded", n)
     /\ pc' = IF tripped THEN cooling ELSE otherwise
     /\ IF tripped \/ ~keepHandle THEN CloseSource
        ELSE onHandle' = onHandle + 1 /\ UNCHANGED source

\* variant: tripping leaves the handle open
OnReadFailureKeeps(keepHandle, cooling, otherwise) ==
  LET n == consecutive + 1
      tripped == n >= Threshold
  IN /\ consecutive' = n
     /\ streak' = IF streak > Threshold THEN streak ELSE streak + 1
     /\ Report(IF tripped THEN "circuit_open" ELSE "degraded", n)
     /\ pc' = IF tripped THEN cooling ELSE otherwise
     /\ IF ~keepHandle THEN CloseSource
        ELSE /\ UNCHANGED source
             /\ onHandle' = IF onHandle > Threshold THEN onHandle
                            ELSE onHandle + 1

\* _on_read_failure with the failure already counted: below the threshold
\* DEGRADED, at it CIRCUIT_OPEN with the handle closed and a cooldown.
OnReadFailure(keepHandle, cooling, otherwise) ==
  LET n == consecutive + 1
      tripped == n >= Threshold
  IN /\ consecutive' = n
     /\ streak' = IF streak > Threshold THEN streak ELSE streak + 1
     /\ Report(IF tripped THEN "circuit_open" ELSE "degraded", n)
     /\ pc' = IF tripped THEN cooling ELSE otherwise
     /\ IF tripped \/ ~keepHandle THEN CloseSource
        ELSE onHandle' = onHandle + 1 /\ UNCHANGED source

ReadStale ==
  /\ pc = "read" /\ RaisesHandle
  /\ OnReadFailure(FALSE, "cooldownStale", "loop")
  /\ UNCHANGED <<ticks, halt, link, db, mirror>>

ReadError ==
  /\ pc = "read" /\ RaisesFocas
  /\ OnReadFailure(TRUE, "cooldown", "wait")
  /\ ticks' = 0
  /\ UNCHANGED <<halt, link, db, mirror>>

ReadCrash == pc = "read" /\ RaisesOther /\ LeaveRun("died")

\* The counter is cleared first, so that the test "below the threshold" that
\* decides on the rest of the interval is true after a cooldown as well.
EndCooldown ==
  /\ pc \in Cooling
  /\ consecutive' = 0
  /\ streak' = 0
  /\ pc' = IF pc = "cooldown" /\ LongInterval THEN "wait" ELSE "loop"
  /\ UNCHANGED <<state, source, ticks, hb, halt, link, db, mirror, onHandle>>

\* A database error is swallowed by _do_persist.
DoPersist == mirror' = IF db THEN "fresh" ELSE mirror

Persist ==
  /\ pc = "persist"
  /\ DoPersist
  /\ Report("healthy", 0)
  /\ pc' = "wait" /\ ticks' = FastTicks
  /\ UNCHANGED <<source, consecutive, halt, link, db, streak, onHandle>>

-----------------------------------------------------------------------------
(* Waiting: a back-off, the rest of an interval, or _between_cycles.       *)
Wake ==
  /\ pc \in {"backoff", "wait"}
  /\ pc' = "loop"
  /\ UNCHANGED <<state, source, consecutive, ticks, hb, halt, link, db, mirror,
                 streak, onHandle>>

FastTick ==
  /\ pc = "wait" /\ ticks > 0 /\ ~halt /\ source # "none"
  /\ ticks' = ticks - 1
  /\ pc' = "fastread"
  /\ UNCHANGED <<state, source, consecutive, hb, halt, link, db, mirror, streak,
                 onHandle>>

FastOk ==
  /\ pc = "fastread" /\ Readable
  /\ pc' = "fastpersist"
  /\ UNCHANGED <<state, source, consecutive, ticks, hb, halt, link, db, mirror,
                 streak, onHandle>>

FastPersist ==
  /\ pc = "fastpersist"
  /\ DoPersist
  /\ Report(state, consecutive)
  /\ pc' = "wait"
  /\ UNCHANGED <<source, consecutive, ticks, halt, link, db, streak, onHandle>>

\* A dead handle is dropped, any other FOCAS error skips the tick.
FastStale ==
  /\ pc = "fastread" /\ RaisesHandle
  /\ CloseSource
  /\ pc' = "loop"
  /\ UNCHANGED <<state, consecutive, ticks, hb, halt, link, db, mirror, streak>>

FastError ==
  /\ pc = "fastread" /\ RaisesFocas
  /\ pc' = "wait"
  /\ UNCHANGED <<state, source, consecutive, ticks, hb, halt, link, db, mirror,
                 streak, onHandle>>

FastCrash == pc = "fastread" /\ RaisesOther /\ LeaveRun("died")

-----------------------------------------------------------------------------
(* The environment.  A control that goes off forgets the open handle.      *)
LinkChanges(l) ==
  /\ l # link
  /\ link' = l
  /\ source' = IF l = "down" /\ source = "live" THEN "stale" ELSE source
  /\ UNCHANGED <<pc, state, consecutive, ticks, hb, halt, db, mirror, streak, onHandle>>

DbChanges  == db' = ~db /\ UNCHANGED <<thread, halt, link, mirror>>
MirrorAges == mirror = "fresh" /\ mirror' = "old" /\ UNCHANGED <<thread, halt, link, db>>
SetStop    == ~halt /\ halt' = TRUE /\ UNCHANGED <<thread, link, db, mirror>>

ServiceStep ==
  \/ Exit \/ BeginConnect \/ ConnectOk \/ ConnectFail \/ BeginCycle
  \/ ReadOk \/ ReadStale \/ ReadError \/ ReadCrash \/ EndCooldown \/ Persist
  \/ Wake \/ FastTick \/ FastOk \/ FastPersist \/ FastStale \/ FastError \/ FastCrash

Environment ==
  \/ \E l \in {"up", "flaky", "down"} : LinkChanges(l)
  \/ DbChanges \/ MirrorAges \/ SetStop

ServiceNext == ServiceStep \/ Environment

(* The thread is scheduled, every FOCAS and database call returns (both    *)
(* have timeouts) and every sleep ends.  Nothing is assumed of the         *)
(* environment.                                                            *)
ServiceSpec == ServiceInit /\ [][ServiceNext]_serviceVars
FairService == ServiceSpec /\ WF_serviceVars(ServiceStep)

-----------------------------------------------------------------------------
(* Types and bounds.                                                       *)
ServiceTypeOK ==
  /\ pc \in RunLocations
  /\ state \in ServiceState
  /\ source \in {"none", "live", "stale"}
  /\ consecutive \in 0..Threshold
  /\ ticks \in 0..FastTicks
  /\ hb \in [state : ServiceState, fails : 0..Threshold]
  /\ halt \in BOOLEAN
  /\ link \in {"up", "flaky", "down"}
  /\ db \in BOOLEAN
  /\ mirror \in {"fresh", "old"}
  /\ streak \in 0..(Threshold + 1)
  /\ onHandle \in 0..Threshold

(* The breaker opens for nothing but Threshold failed full reads with no   *)
(* good one between them (never for a database error, never for a fast     *)
(* tick), and while it cools down no handle is open and the heartbeat says *)
(* so (_on_read_failure, _do_persist, _fast_tick).                         *)
BreakerJustified ==
  pc \in Cooling =>
    /\ streak >= Threshold
    /\ source = "none"
    /\ hb.state = "circuit_open"

(* A handle that has failed Threshold reads in a row is never read again:  *)
(* one that the control has forgotten cannot be kept for ever, whatever    *)
(* exception its reads raise (_on_read_failure closes, _connect reopens).  *)
DeadHandleDropped ==
  source # "none" => onHandle < Threshold

(* What the heartbeat file tells an operator is what happened: "healthy"   *)
(* only after a good full read, "degraded" only after a failed one,        *)
(* "circuit_open" only with the handle closed, "stopped" only at the end   *)
(* (the _emit_heartbeat calls of run, _connect, _run_cycle, _fast_tick).   *)
HeartbeatHonest ==
  /\ hb.state = "healthy" => streak = 0
  /\ hb.state = "degraded" => streak > 0 \/ pc = "persist"
  /\ hb.state = "circuit_open" => source = "none"
  /\ hb.state = "stopped" <=> pc \in Finished

(* "Read errors count toward a circuit breaker; at the threshold the       *)
(* handle is closed and, after a cooldown, a FRESH handle is opened": there *)
(* are never more than Threshold failed full reads in a row without a      *)
(* cooldown (service.py:14-16).                                            *)
BreakerBounds == streak <= Threshold

(* focas_state: the API, which holds no handle, calls a machine connected  *)
(* while its mirror is fresh.                                              *)
Connected == mirror = "fresh"

(* The point of the service: once the control answers and the database     *)
(* accepts writes for good, the machine is shown as connected over and     *)
(* over, whatever outages came before, unless the thread has ended (run,   *)
(* _connect).                                                              *)
Recovers ==
  <>[](link = "up" /\ db /\ pc \notin Finished) => []<>Connected

(* A stop request ends the thread from wherever it is, with its handle     *)
(* closed (_sleep_interruptible, the finally clause of run).               *)
StopHonoured == halt ~> (pc \in Finished /\ source = "none")

=============================================================================
