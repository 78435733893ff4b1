---------------------------- MODULE PollerFleet -----------------------------
(***************************************************************************)
(* Which processes poll which machines (shared/focas/fleet.py, the lock of *)
(* shared/focas/service.py, scripts/focas_fleet.py and focas_service.py):  *)
(* a fleet runs one thread per machine, a one-machine poller runs one, and *)
(* PID lockfiles keep two of them off the same machine.  Processes are     *)
(* signalled, killed and started again, their pids are reused, and a lock  *)
(* is worth what _pid_alive can tell about the pid in it.  One start is    *)
(* made at a time (service.py:152-155), starts overlap with everything     *)
(* else.  What a thread does while it polls is module FocasService.        *)
(***************************************************************************)
EXTENDS Naturals, FiniteSets

CONSTANTS
  Pid, Machine,
  NoPid, Garbled,  (* a lockfile that is absent, that holds no number       *)
  FleetPath,       (* run/fleet.lock                                        *)
  UnitPath,        (* run/<slug>.lock of each machine                       *)
  SinglePath,      (* --lock-path or its default, of a one-machine poller   *)
  FleetLock,       (* what a fleet wants first, before any machine          *)
  Account,         (* accounts processes run under                          *)
  CanQuery,        (* pairs <<a, b>>: a may open a process of b             *)
  Strangers,       (* may other programs be given a free pid                *)
  Faults,          (* may a start fail with an OSError or RuntimeError      *)
  MaxKills         (* bound on the run                                      *)

Path == {FleetPath} \cup {UnitPath[m] : m \in Machine}
                    \cup {SinglePath[m] : m \in Machine}

ASSUME FleetAssumption ==
  /\ NoPid \notin Pid /\ Garbled \notin Pid /\ NoPid # Garbled
  /\ FleetLock \notin Machine
  /\ DOMAIN UnitPath = Machine /\ DOMAIN SinglePath = Machine
  /\ \A m, n \in Machine : m # n => /\ UnitPath[m] # UnitPath[n]
                                    /\ SinglePath[m] # SinglePath[n]
                                    /\ UnitPath[m] # SinglePath[n]
  /\ \A m \in Machine : FleetPath \notin {UnitPath[m], SinglePath[m]}
  /\ CanQuery \subseteq Account \X Account
  /\ Strangers \in BOOLEAN /\ Faults \in BOOLEAN /\ MaxKills \in Nat

VARIABLES
  file,     (* what each lockfile holds                                     *)
  role,     (* what runs under each pid                                     *)
  account,  (* as whom                                                      *)
  at,       (* where its main thread is                                     *)
  want,     (* the lock it is acquiring                                     *)
  unit,     (* its FleetUnit per machine                                    *)
  stop,     (* its stop event                                               *)
  kills,    (* so far                                                       *)
  left      (* history: pids that went without cleaning up behind them      *)

procVars == <<role, account, at, want, unit, stop>>
vars == <<file, procVars, kills, left>>

NoUnits == [m \in Machine |-> "none"]
Pollers == {"fleet", "single"}

Init ==
  /\ file = [f \in Path |-> NoPid]
  /\ role = [p \in Pid |-> "none"]
  /\ account \in [Pid -> Account]
  /\ at = [p \in Pid |-> "off"] /\ want = [p \in Pid |-> FleetLock]
  /\ unit = [p \in Pid |-> NoUnits]
  /\ stop = [p \in Pid |-> FALSE]
  /\ kills = 0 /\ left = {}

PathOf(p, w) ==
  IF w = FleetLock THEN FleetPath
  ELSE IF role[p] = "fleet" THEN UnitPath[w] ELSE SinglePath[w]

\* _pid_alive(p) as process q finds it.  On Windows a process q may not open
\* counts as dead.
PidAlive(q, p) == role[p] # "none" /\ <<account[q], account[p]>> \in CanQuery

\* acquire finds a lock of a live process other than itself.
Taken(q, f) == file[f] \in Pid \ {q} /\ PidAlive(q, file[f])

-----------------------------------------------------------------------------
(* Starting.                                                               *)

Starting(p) == at[p] \in {"look", "open", "write", "next"}

Launch(p, r, a, w, ms) ==
  /\ role[p] = "none" /\ \A q \in Pid : ~Starting(q)
  /\ role' = [role EXCEPT ![p] = r] /\ account' = [account EXCEPT ![p] = a]
  /\ at' = [at EXCEPT ![p] = "look"] /\ want' = [want EXCEPT ![p] = w]
  /\ unit' = [unit EXCEPT ![p] =
                [m \in Machine |-> IF m \in ms THEN "due" ELSE "none"]]
  /\ UNCHANGED <<file, stop, kills, left>>

LaunchSingle(p, a, m) == Launch(p, "single", a, m, {m})
LaunchFleet(p, a, ms) == ms # {} /\ Launch(p, "fleet", a, FleetLock, ms)

\* The process is gone, its files are not.
Gone(p) ==
  /\ role' = [role EXCEPT ![p] = "none"] /\ at' = [at EXCEPT ![p] = "off"]
  /\ want' = [want EXCEPT ![p] = FleetLock]
  /\ unit' = [unit EXCEPT ![p] = NoUnits] /\ stop' = [stop EXCEPT ![p] = FALSE]
  /\ UNCHANGED <<account, kills>>

\* (A variant that warns of the collision and starts the machine all the same.)
RefusedGoesOn(p) ==
  /\ at[p] = "look" /\ Taken(p, PathOf(p, want[p]))
  /\ IF role[p] = "fleet" /\ want[p] # FleetLock
     THEN /\ at' = [at EXCEPT ![p] = "open"]
          /\ UNCHANGED <<role, account, want, unit, stop, kills>>
     ELSE Gone(p)
  /\ UNCHANGED <<file, left>>

\* A fleet skips the machine; a one-machine poller, or a second fleet, exits.
Refused(p) ==
  /\ at[p] = "look" /\ Taken(p, PathOf(p, want[p]))
  /\ IF role[p] = "fleet" /\ want[p] # FleetLock
     THEN /\ unit' = [unit EXCEPT ![p][want[p]] = "skipped"]
          /\ at' = [at EXCEPT ![p] = "next"]
          /\ UNCHANGED <<role, account, want, stop, kills>>
     ELSE Gone(p)
  /\ UNCHANGED <<file, left>>

Reclaim(p) ==
  /\ at[p] = "look" /\ ~Taken(p, PathOf(p, want[p]))
  /\ at' = [at EXCEPT ![p] = "open"]
  /\ UNCHANGED <<file, role, account, want, unit, stop, kills, left>>

\* write_text truncates the file, then writes the pid; the machine's thread
\* (or the loop itself) is started next.
Open(p) ==
  /\ at[p] = "open"
  /\ file' = [file EXCEPT ![PathOf(p, want[p])] = Garbled]
  /\ at' = [at EXCEPT ![p] = "write"]
  /\ UNCHANGED <<role, account, want, unit, stop, kills, left>>

Write(p) ==
  /\ at[p] = "write"
  /\ file' = [file EXCEPT ![PathOf(p, want[p])] = p]
  /\ unit' = IF want[p] = FleetLock THEN unit
             ELSE [unit EXCEPT ![p][want[p]] = "polling"]
  /\ at' = [at EXCEPT ![p] = IF role[p] = "fleet" THEN "next" ELSE "run"]
  /\ UNCHANGED <<role, account, want, stop, kills, left>>

\* What start() was still to do is dropped, main goes to its finally.
Abort(p) ==
  /\ at' = [at EXCEPT ![p] = "exit"]
  /\ unit' = [unit EXCEPT ![p] = [m \in Machine |->
                IF unit[p][m] = "due" THEN "dropped" ELSE unit[p][m]]]
  /\ UNCHANGED <<role, account, want, stop, kills>>

\* (A variant in which every failed start goes through the fleet's finally.)
WriteFailsToFinally(p) ==
  /\ Faults /\ at[p] \in {"open", "write"}
  /\ Abort(p) /\ UNCHANGED <<file, left>>

\* The lockfile cannot be opened or written; nothing was acquired.
WriteFails(p) ==
  /\ Faults /\ at[p] \in {"open", "write"}
  /\ IF role[p] = "fleet" /\ want[p] # FleetLock THEN Abort(p) ELSE Gone(p)
  /\ UNCHANGED <<file, left>>

\* The thread cannot be started; the lock stays acquired.
ThreadFails(p) ==
  /\ Faults /\ at[p] = "write" /\ role[p] = "fleet" /\ want[p] # FleetLock
  /\ file' = [file EXCEPT ![PathOf(p, want[p])] = p]
  /\ left' = left \cup {p}
  /\ Abort(p)

NextUnit(p, m) ==
  /\ at[p] = "next" /\ unit[p][m] = "due"
  /\ want' = [want EXCEPT ![p] = m] /\ at' = [at EXCEPT ![p] = "look"]
  /\ UNCHANGED <<file, role, account, unit, stop, kills, left>>

\* (A variant whose main does not wait for the threads.)
StartedNoWait(p) ==
  /\ at[p] = "next" /\ \A m \in Machine : unit[p][m] # "due"
  /\ at' = [at EXCEPT ![p] = "exit"]
  /\ UNCHANGED <<file, role, account, want, unit, stop, kills, left>>

Started(p) ==
  /\ at[p] = "next" /\ \A m \in Machine : unit[p][m] # "due"
  /\ at' = [at EXCEPT ![p] =
       IF \E m \in Machine : unit[p][m] \in {"polling", "ended"}
       THEN "run" ELSE "exit"]
  /\ UNCHANGED <<file, role, account, want, unit, stop, kills, left>>

-----------------------------------------------------------------------------
(* Running and ending.                                                     *)

\* (A variant that keeps the lock of a thread that has ended.)
ReleaseNot(p, f) == UNCHANGED file

\* release removes the file only while it names this process.
Release(p, f) ==
  file' = IF file[f] = p THEN [file EXCEPT ![f] = NoPid] ELSE file

\* A machine's thread has returned or died: its finally releases the lock.
ThreadEnds(p, m) ==
  /\ role[p] = "fleet" /\ unit[p][m] = "polling"
  /\ unit' = [unit EXCEPT ![p][m] = "ended"]
  /\ Release(p, UnitPath[m])
  /\ UNCHANGED <<role, account, at, want, stop, kills, left>>

SingleEnds(p, m) ==
  /\ role[p] = "single" /\ unit[p][m] = "polling"
  /\ Release(p, SinglePath[m]) /\ Gone(p) /\ UNCHANGED left

Silent(p) == \A m \in Machine : unit[p][m] # "polling"

\* (A variant that joins the machines it skipped, too.)
WaitedForAll(p) ==
  /\ at[p] = "run" /\ role[p] = "fleet"
  /\ \A m \in Machine : unit[p][m] \in {"none", "ended"}
  /\ at' = [at EXCEPT ![p] = "exit"]
  /\ UNCHANGED <<file, role, account, want, unit, stop, kills, left>>

\* wait() has joined every thread.
Waited(p) ==
  /\ at[p] = "run" /\ role[p] = "fleet" /\ Silent(p)
  /\ at' = [at EXCEPT ![p] = "exit"]
  /\ UNCHANGED <<file, role, account, want, unit, stop, kills, left>>

\* main leaves; threads that still run keep the process up.
Leave(p) ==
  /\ at[p] = "exit"
  /\ Release(p, FleetPath)
  /\ IF Silent(p) THEN Gone(p)
     ELSE /\ at' = [at EXCEPT ![p] = "left"]
          /\ UNCHANGED <<role, account, want, unit, stop, kills>>
  /\ UNCHANGED left

LastThreadEnded(p) ==
  /\ at[p] = "left" /\ Silent(p) /\ Gone(p) /\ UNCHANGED <<file, left>>

Signal(p) ==
  /\ role[p] \in Pollers /\ ~stop[p]
  /\ stop' = [stop EXCEPT ![p] = TRUE]
  /\ UNCHANGED <<file, role, account, at, want, unit, kills, left>>

-----------------------------------------------------------------------------
(* The host.                                                               *)

Kill(p) ==
  /\ role[p] \in Pollers /\ kills < MaxKills /\ kills' = kills + 1
  /\ role' = [role EXCEPT ![p] = "none"] /\ at' = [at EXCEPT ![p] = "off"]
  /\ want' = [want EXCEPT ![p] = FleetLock]
  /\ unit' = [unit EXCEPT ![p] = NoUnits] /\ stop' = [stop EXCEPT ![p] = FALSE]
  /\ left' = left \cup {p}
  /\ UNCHANGED <<file, account>>

StrangerStarts(p, a) ==
  /\ Strangers /\ role[p] = "none"
  /\ role' = [role EXCEPT ![p] = "stranger"]
  /\ account' = [account EXCEPT ![p] = a]
  /\ UNCHANGED <<file, at, want, unit, stop, kills, left>>

StrangerEnds(p) ==
  /\ role[p] = "stranger"
  /\ role' = [role EXCEPT ![p] = "none"]
  /\ UNCHANGED <<file, account, at, want, unit, stop, kills, left>>

\* An operator removes a lockfile after checking that its pid is dead.
OperatorDeletes(f) ==
  /\ file[f] \in Pid /\ role[file[f]] = "none"
  /\ file' = [file EXCEPT ![f] = NoPid]
  /\ UNCHANGED <<procVars, kills, left>>

\* What a process does by itself, unless a thread is free to go on.
Step(p) ==
  \/ Refused(p) \/ Reclaim(p) \/ Open(p) \/ Write(p)
  \/ (\E m \in Machine : NextUnit(p, m))
  \/ Started(p) \/ Waited(p) \/ Leave(p) \/ LastThreadEnded(p)

ThreadStep(p, m) == ThreadEnds(p, m) \/ SingleEnds(p, m)

Host ==
  \/ \E p \in Pid, a \in Account, m \in Machine : LaunchSingle(p, a, m)
  \/ \E p \in Pid, a \in Account, ms \in SUBSET Machine : LaunchFleet(p, a, ms)
  \/ \E p \in Pid : Signal(p) \/ Kill(p) \/ StrangerEnds(p)
  \/ \E p \in Pid : WriteFails(p) \/ ThreadFails(p)
  \/ \E p \in Pid, a \in Account : StrangerStarts(p, a)
  \/ \E f \in Path : OperatorDeletes(f)

Next ==
  \/ Host
  \/ \E p \in Pid : Step(p)
  \/ \E p \in Pid, m \in Machine : ThreadStep(p, m)

Spec == Init /\ [][Next]_vars

\* Threads are scheduled, and a stopped FocasService ends (StopHonoured of
\* module FocasService).
FairSpec ==
  /\ Spec
  /\ \A p \in Pid : WF_vars(Step(p))
  /\ \A p \in Pid, m \in Machine : WF_vars(stop[p] /\ ThreadStep(p, m))

-----------------------------------------------------------------------------
Locations == {"off", "look", "open", "write", "next", "run", "exit", "left"}
UnitStates == {"none", "due", "polling", "ended", "skipped", "dropped"}

\* A process is somewhere exactly when it is a poller; a one-machine poller
\* wants no fleet lock; only a fleet leaves threads behind.
Sane ==
  \A p \in Pid :
    /\ at[p] # "off" <=> role[p] \in Pollers
    /\ role[p] = "single" => want[p] # FleetLock
    /\ at[p] \in {"next", "exit", "left"} => role[p] = "fleet"
    /\ at[p] = "off" => unit[p] = NoUnits /\ ~stop[p]

TypeOK ==
  /\ file \in [Path -> Pid \cup {NoPid, Garbled}]
  /\ role \in [Pid -> {"none", "stranger"} \cup Pollers]
  /\ account \in [Pid -> Account]
  /\ at \in [Pid -> Locations] /\ want \in [Pid -> Machine \cup {FleetLock}]
  /\ unit \in [Pid -> [Machine -> UnitStates]]
  /\ stop \in [Pid -> BOOLEAN]
  /\ kills \in Nat /\ left \in SUBSET Pid
  /\ Sane

(* The lockfiles keep two processes off one machine (fleet.py:18-20,        *)
(* service.py:149-155), whatever is killed, fails or is given an old pid.   *)
ExclusivePolling ==
  \A m \in Machine, p, q \in Pid :
    (unit[p][m] = "polling" /\ unit[q][m] = "polling") => p = q

(* Lockfiles are cleaned up: one that names no running poller was left by a *)
(* process that was killed, or whose thread could not be started.           *)
LocksHaveHolders ==
  \A f \in Path : file[f] \in Pid =>
    role[file[f]] \in Pollers \/ file[f] \in left

(* Two fleets are never up together: the second one finds the fleet lock    *)
(* (focas_fleet.py:190), and so leaves the first one's machines alone.  The *)
(* one exception is a fleet whose start failed half-way: it has released    *)
(* the lock, and the threads it had started poll on (focas_fleet.py:202).   *)
HalfStarted(p) == \E m \in Machine : unit[p][m] = "dropped"
OneFleetUp ==
  \A p, q \in Pid :
    (/\ role[p] = "fleet" /\ ~Silent(p) /\ ~HalfStarted(p)
     /\ role[q] = "fleet" /\ ~Silent(q) /\ ~HalfStarted(q)) => p = q

(* A start is refused for a machine only because the process named in the   *)
(* lock really polls that machine (AlreadyRunningError, service.py:122), or *)
(* because the lock was left behind and its pid is in use again.            *)
RefusalJustified ==
  [][\A p \in Pid :
       (/\ at[p] = "look" /\ want[p] \in Machine
        /\ Taken(p, PathOf(p, want[p])))
         => LET q == file[PathOf(p, want[p])] IN
            unit[q][want[p]] = "polling" \/ q \in left]_vars

(* A lock keeps its promise to both sides: while its holder polls nobody    *)
(* else is up, and when it keeps somebody out there is a reason, whatever   *)
(* was killed, failed half-way or was given an old pid in between.          *)
LocksAreKept == [](LocksHaveHolders /\ OneFleetUp) /\ RefusalJustified

(* A signalled fleet or poller goes, threads and all.                       *)
StopsClean == \A p \in Pid : stop[p] ~> role[p] = "none"
=============================================================================
