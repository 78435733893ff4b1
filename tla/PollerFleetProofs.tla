------------------------- MODULE PollerFleetProofs --------------------------
(* Theorems about PollerFleet for any number of processes and machines: the *)
(* types, and that two processes never poll one machine, provided all their *)
(* locks are the same files and every process can see every other; that a   *)
(* lock has a holder and a refusal a reason, and that nobody takes away the *)
(* lock of a process that lives.  And, at the end, about FocasService, which *)
(* polls each of the machines: for every threshold, number of fast ticks    *)
(* and behaviour of dead handles.                                           *)
EXTENDS PollerFleet, FocasService, TLAPS

(* A one-machine poller is started with the fleet's lock of its machine.    *)
SharedLocks == SinglePath = UnitPath

(* _pid_alive finds every process that runs.                                *)
AllVisible == CanQuery = Account \X Account

(* One start is made at a time.                                             *)
OneStart == \A p, q \in Pid : Starting(p) /\ Starting(q) => p = q

(* Who polls a machine is named by its lock.                                *)
Holding ==
  \A p \in Pid, m \in Machine : unit[p][m] = "polling" => file[UnitPath[m]] = p

(* Between finding a machine's lock free and holding it nobody polls the    *)
(* machine: a thread still to be started does not, and nobody else starts.  *)
Unclaimed ==
  \A p \in Pid :
    /\ at[p] \in {"look", "open", "write"} /\ want[p] # FleetLock =>
         unit[p][want[p]] = "due"
    /\ at[p] \in {"open", "write"} /\ want[p] # FleetLock =>
         \A q \in Pid : unit[q][want[p]] # "polling"

IInv == TypeOK /\ OneStart /\ Holding /\ Unclaimed

-----------------------------------------------------------------------------
(* Types.                                                                   *)

\* Every lock a process may want is one of the files.
LEMMA PathOfType ==
  ASSUME FleetAssumption, TypeOK, NEW p \in Pid, NEW w \in Machine \cup {FleetLock}
  PROVE  PathOf(p, w) \in Path
  BY DEF PathOf, Path

\* A process that is gone is well typed again.
LEMMA GoneTypes ==
  ASSUME TypeOK, NEW p \in Pid, Gone(p), left' \in SUBSET Pid,
         file' \in [Path -> Pid \cup {NoPid, Garbled}]
  PROVE  TypeOK'
  BY DEF Gone, TypeOK, Sane, NoUnits, UnitStates, Locations, Pollers

\* A removed lockfile is a well-typed one.
LEMMA ReleaseTypes ==
  ASSUME TypeOK, NEW p \in Pid, NEW f, Release(p, f)
  PROVE  file' \in [Path -> Pid \cup {NoPid, Garbled}]
  BY DEF Release, TypeOK

\* Init, with no process and no file, is well typed.
LEMMA InitTypeOK == Init => TypeOK
  BY DEF Init, TypeOK, Sane, NoUnits, UnitStates, Locations, Pollers

\* Every step keeps the types.
LEMMA NextTypeOK == ASSUME FleetAssumption, TypeOK, [Next]_vars PROVE TypeOK'
  <1> USE DEF TypeOK, Sane, UnitStates, Locations, Pollers
  <1>1. CASE UNCHANGED vars
    BY <1>1 DEF vars, procVars
  <1>2. ASSUME NEW p \in Pid, NEW r \in {"single", "fleet"}, NEW a \in Account,
               NEW w \in Machine \cup {FleetLock}, NEW ms \in SUBSET Machine,
               r = "single" => w # FleetLock, Launch(p, r, a, w, ms)
        PROVE  TypeOK'
    <2>1. [m \in Machine |-> IF m \in ms THEN "due" ELSE "none"]
            \in [Machine -> UnitStates]
      OBVIOUS
    <2>2. unit' \in [Pid -> [Machine -> UnitStates]]
      BY <1>2, <2>1 DEF Launch
    <2>3. QED
      BY <1>2, <2>2 DEF Launch
  <1>3. ASSUME NEW p \in Pid, Refused(p) PROVE TypeOK'
    <2>1. CASE Gone(p)
      BY <1>3, <2>1, GoneTypes DEF Refused
    <2>2. CASE ~Gone(p)
      <3>1. /\ role[p] = "fleet" /\ want[p] # FleetLock
            /\ unit' = [unit EXCEPT ![p][want[p]] = "skipped"]
            /\ at' = [at EXCEPT ![p] = "next"]
            /\ UNCHANGED <<file, role, account, want, stop, kills, left>>
        BY <1>3, <2>2 DEF Refused
      <3>2. want[p] \in Machine
        BY <3>1
      <3>3. /\ unit' \in [Pid -> [Machine -> UnitStates]]
            /\ \A q \in Pid \ {p} : unit'[q] = unit[q]
        BY <3>1, <3>2
      <3>4. QED
        BY <3>1, <3>3
    <2>3. QED
      BY <2>1, <2>2
  <1>4. ASSUME NEW p \in Pid, Reclaim(p) PROVE TypeOK'
    BY <1>4 DEF Reclaim
  <1>5. ASSUME NEW p \in Pid, Open(p) PROVE TypeOK'
    BY <1>5, PathOfType DEF Open
  <1>6. ASSUME NEW p \in Pid, Write(p) PROVE TypeOK'
    BY <1>6, PathOfType DEF Write
  <1>7. ASSUME NEW p \in Pid, Abort(p), role[p] = "fleet", at[p] # "off",
               left' \in SUBSET Pid, file' \in [Path -> Pid \cup {NoPid, Garbled}]
        PROVE  TypeOK'
    <2>1. unit' \in [Pid -> [Machine -> UnitStates]]
      BY <1>7 DEF Abort
    <2>2. QED
      BY <1>7, <2>1 DEF Abort
  <1>8. ASSUME NEW p \in Pid, WriteFails(p) PROVE TypeOK'
    BY <1>7, <1>8, GoneTypes DEF WriteFails
  <1>9. ASSUME NEW p \in Pid, ThreadFails(p) PROVE TypeOK'
    BY <1>7, <1>9, PathOfType DEF ThreadFails
  <1>10. ASSUME NEW p \in Pid, NEW m \in Machine, NextUnit(p, m) PROVE TypeOK'
    BY <1>10 DEF NextUnit
  <1>11. ASSUME NEW p \in Pid, Started(p) PROVE TypeOK'
    BY <1>11 DEF Started
  <1>12. ASSUME NEW p \in Pid, NEW m \in Machine, ThreadEnds(p, m) PROVE TypeOK'
    BY <1>12, ReleaseTypes DEF ThreadEnds
  <1>13. ASSUME NEW p \in Pid, NEW m \in Machine, SingleEnds(p, m) PROVE TypeOK'
    BY <1>13, ReleaseTypes, GoneTypes DEF SingleEnds
  <1>14. ASSUME NEW p \in Pid, Waited(p) PROVE TypeOK'
    BY <1>14 DEF Waited
  <1>15. ASSUME NEW p \in Pid, Leave(p) PROVE TypeOK'
    <2>1. file' \in [Path -> Pid \cup {NoPid, Garbled}] /\ left' \in SUBSET Pid
      BY <1>15, ReleaseTypes DEF Leave
    <2>2. CASE Gone(p)
      <3> HIDE DEF TypeOK, Sane, UnitStates, Locations, Pollers
      <3>1. QED
        BY <2>1, <2>2, GoneTypes
    <2>3. CASE /\ at' = [at EXCEPT ![p] = "left"]
               /\ at[p] = "exit" /\ UNCHANGED <<role, account, want, unit, stop, kills>>
      BY <2>1, <2>3
    <2>4. \/ Gone(p)
          \/ /\ at' = [at EXCEPT ![p] = "left"]
             /\ at[p] = "exit" /\ UNCHANGED <<role, account, want, unit, stop, kills>>
      BY <1>15 DEF Leave
    <2>5. QED
      BY <2>2, <2>3, <2>4
  <1>16. ASSUME NEW p \in Pid, LastThreadEnded(p) PROVE TypeOK'
    BY <1>16, GoneTypes DEF LastThreadEnded
  <1>17. ASSUME NEW p \in Pid, Signal(p) PROVE TypeOK'
    BY <1>17 DEF Signal
  <1>18. ASSUME NEW p \in Pid, Kill(p) PROVE TypeOK'
    BY <1>18 DEF Kill, NoUnits, FleetAssumption
  <1>19. ASSUME NEW p \in Pid, NEW a \in Account, StrangerStarts(p, a) PROVE TypeOK'
    BY <1>19 DEF StrangerStarts
  <1>20. ASSUME NEW p \in Pid, StrangerEnds(p) PROVE TypeOK'
    BY <1>20 DEF StrangerEnds
  <1>21. ASSUME NEW f \in Path, OperatorDeletes(f) PROVE TypeOK'
    BY <1>21 DEF OperatorDeletes, procVars
  <1> HIDE DEF TypeOK, Sane, UnitStates, Locations, Pollers
  <1>22. ASSUME NEW p \in Pid, NEW a \in Account, NEW m \in Machine,
                LaunchSingle(p, a, m)
         PROVE  TypeOK'
    BY <1>2, <1>22, {m} \in SUBSET Machine, m # FleetLock
    DEF LaunchSingle, FleetAssumption
  <1>23. ASSUME NEW p \in Pid, NEW a \in Account, NEW ms \in SUBSET Machine,
                LaunchFleet(p, a, ms)
         PROVE  TypeOK'
    BY <1>2, <1>23 DEF LaunchFleet
  <1>24. QED
    BY <1>1, <1>22, <1>23, <1>3, <1>4, <1>5, <1>6, <1>8, <1>9, <1>10, <1>11, <1>12, <1>13,
       <1>14, <1>15, <1>16, <1>17, <1>18, <1>19, <1>20, <1>21
    DEF Next, Host, Step, ThreadStep

(* Every value stays within its type, however processes come and go.        *)
THEOREM TypeCorrect == Spec => []TypeOK
  <1>1. TypeOK /\ [Next]_vars => TypeOK'
    BY FleetAssumption, NextTypeOK
  <1>2. QED
    BY <1>1, InitTypeOK, PTL DEF Spec

-----------------------------------------------------------------------------
(* Exclusion.                                                               *)

\* With shared locks a process wants, and takes, the one lock of a machine.
LEMMA LockOfMachine ==
  ASSUME SharedLocks, FleetAssumption, TypeOK, NEW p \in Pid
  PROVE  /\ want[p] # FleetLock =>
              want[p] \in Machine /\ PathOf(p, want[p]) = UnitPath[want[p]]
         /\ want[p] = FleetLock => PathOf(p, want[p]) = FleetPath
         /\ \A m \in Machine : UnitPath[m] \in Path /\ UnitPath[m] # FleetPath
         /\ \A m, n \in Machine : m # n => UnitPath[m] # UnitPath[n]
  BY DEF SharedLocks, FleetAssumption, PathOf, TypeOK, Path

\* A step after which nobody is new to a machine, a lock or a start.
LEMMA NobodyNew ==
  ASSUME IInv,
         \A q \in Pid, m \in Machine : unit'[q][m] = "polling" =>
           unit[q][m] = "polling" /\ file'[UnitPath[m]] = file[UnitPath[m]],
         \A q \in Pid : Starting(q)' => Starting(q),
         \A q \in Pid : at'[q] \in {"look", "open", "write"} =>
           /\ at[q] \in {"look", "open", "write"}
           /\ at'[q] \in {"open", "write"} => at[q] \in {"open", "write"}
           /\ want'[q] = want[q]
           /\ want[q] # FleetLock => unit'[q][want[q]] = unit[q][want[q]]
  PROVE  OneStart' /\ Holding' /\ Unclaimed'
  <1>1. OneStart'
    BY DEF IInv, OneStart
  <1>2. Holding'
    BY DEF IInv, Holding
  <1>3. Unclaimed'
    <2> SUFFICES ASSUME NEW q \in Pid, at'[q] \in {"look", "open", "write"},
                        want'[q] # FleetLock
                 PROVE  /\ unit'[q][want'[q]] = "due"
                        /\ at'[q] \in {"open", "write"} =>
                             \A r \in Pid : unit'[r][want'[q]] # "polling"
      BY DEF Unclaimed
    <2>1. want[q] \in Machine /\ want'[q] = want[q]
      BY DEF IInv, TypeOK
    <2>2. QED
      BY <2>1 DEF IInv, Unclaimed
  <1>4. QED
    BY <1>1, <1>2, <1>3

\* A process that goes stops polling and starting.
LEMMA GoneKeeps ==
  ASSUME IInv, NEW p \in Pid, role' = [role EXCEPT ![p] = "none"],
         at' = [at EXCEPT ![p] = "off"], want' = [want EXCEPT ![p] = FleetLock],
         unit' = [unit EXCEPT ![p] = NoUnits],
         \A q \in Pid \ {p}, m \in Machine : unit[q][m] = "polling" =>
           file'[UnitPath[m]] = file[UnitPath[m]]
  PROVE  OneStart' /\ Holding' /\ Unclaimed'
  <1>1. /\ at'[p] = "off" /\ \A m \in Machine : unit'[p][m] = "none"
        /\ \A q \in Pid \ {p} : /\ at'[q] = at[q] /\ want'[q] = want[q]
                                /\ unit'[q] = unit[q]
    BY DEF IInv, TypeOK, NoUnits
  <1>2. \A q \in Pid, m \in Machine : unit'[q][m] = "polling" =>
           unit[q][m] = "polling" /\ file'[UnitPath[m]] = file[UnitPath[m]]
    BY <1>1
  <1>3. \A q \in Pid : Starting(q)' => Starting(q)
    BY <1>1 DEF Starting
  <1>4. QED
    BY <1>1, <1>2, <1>3, NobodyNew

\* A release takes no lock from anyone else who polls.
LEMMA ReleaseKeeps ==
  ASSUME SharedLocks, FleetAssumption, IInv, NEW p \in Pid, NEW f, Release(p, f)
  PROVE  \A q \in Pid \ {p}, m \in Machine : unit[q][m] = "polling" =>
           file'[UnitPath[m]] = file[UnitPath[m]]
  <1> SUFFICES ASSUME NEW q \in Pid \ {p}, NEW m \in Machine,
                      unit[q][m] = "polling"
               PROVE  file'[UnitPath[m]] = file[UnitPath[m]]
    OBVIOUS
  <1>1. file[UnitPath[m]] = q /\ UnitPath[m] \in Path
    BY LockOfMachine DEF IInv, Holding
  <1>2. QED
    BY <1>1 DEF Release, IInv, TypeOK

\* A start that fails drops what it had not begun.
LEMMA AbortKeeps ==
  ASSUME IInv, NEW p \in Pid, Abort(p),
         \A q \in Pid, m \in Machine : unit[q][m] = "polling" =>
           file'[UnitPath[m]] = file[UnitPath[m]]
  PROVE  OneStart' /\ Holding' /\ Unclaimed'
  <1>1. /\ at'[p] = "exit"
        /\ \A m \in Machine : unit'[p][m] = "polling" => unit[p][m] = "polling"
        /\ \A q \in Pid \ {p} : /\ at'[q] = at[q] /\ want'[q] = want[q]
                                /\ unit'[q] = unit[q]
    BY DEF Abort, IInv, TypeOK
  <1>2. \A q \in Pid, m \in Machine : unit'[q][m] = "polling" =>
           unit[q][m] = "polling" /\ file'[UnitPath[m]] = file[UnitPath[m]]
    BY <1>1
  <1>3. \A q \in Pid : Starting(q)' => Starting(q)
    BY <1>1 DEF Starting
  <1>4. QED
    BY <1>1, <1>2, <1>3, NobodyNew

\* Nobody who polls a machine loses its lock to a process that writes one.
LEMMA WritingKeeps ==
  ASSUME SharedLocks, FleetAssumption, IInv, NEW p \in Pid,
         at[p] \in {"open", "write"}, NEW v,
         file' = [file EXCEPT ![PathOf(p, want[p])] = v]
  PROVE  \A q \in Pid, m \in Machine : unit[q][m] = "polling" =>
           m # want[p] /\ file'[UnitPath[m]] = file[UnitPath[m]]
  <1> SUFFICES ASSUME NEW q \in Pid, NEW m \in Machine, unit[q][m] = "polling"
               PROVE  m # want[p] /\ file'[UnitPath[m]] = file[UnitPath[m]]
    OBVIOUS
  <1>1. m # want[p] /\ m # FleetLock
    BY DEF IInv, Unclaimed, FleetAssumption
  <1>2. PathOf(p, want[p]) # UnitPath[m] /\ UnitPath[m] \in Path
    BY <1>1, LockOfMachine DEF IInv
  <1>3. QED
    BY <1>1, <1>2 DEF IInv, TypeOK

\* Every step keeps the invariant.
LEMMA NextIInv ==
  ASSUME SharedLocks, AllVisible, FleetAssumption, IInv, [Next]_vars
  PROVE  OneStart' /\ Holding' /\ Unclaimed'
  <1> DEFINE Kept == OneStart' /\ Holding' /\ Unclaimed'
  <1>1. ASSUME UNCHANGED vars PROVE Kept
    BY <1>1, NobodyNew DEF vars, procVars, Starting
  <1>2. ASSUME NEW p \in Pid, NEW r, NEW a, NEW w \in Machine \cup {FleetLock},
               NEW ms \in SUBSET Machine, w # FleetLock => w \in ms,
               Launch(p, r, a, w, ms)
        PROVE  Kept
    <2>1. /\ at'[p] = "look" /\ want'[p] = w
          /\ \A m \in Machine : unit'[p][m] = IF m \in ms THEN "due" ELSE "none"
          /\ \A q \in Pid : ~Starting(q)
          /\ \A q \in Pid \ {p} : at'[q] = at[q] /\ unit'[q] = unit[q]
          /\ file' = file
      BY <1>2 DEF Launch, IInv, TypeOK
    <2>2. QED
      <3>1. OneStart'
        BY <2>1 DEF Starting, OneStart
      <3>2. Holding'
        BY <2>1 DEF IInv, Holding
      <3>3. Unclaimed'
        BY <1>2, <2>1 DEF Starting, Unclaimed
      <3>4. QED
        BY <3>1, <3>2, <3>3
  <1>3. ASSUME NEW p \in Pid, Gone(p),
               \A q \in Pid \ {p}, m \in Machine : unit[q][m] = "polling" =>
                 file'[UnitPath[m]] = file[UnitPath[m]]
        PROVE  Kept
    BY <1>3, GoneKeeps DEF Gone
  <1>4. ASSUME NEW p \in Pid, Refused(p) PROVE Kept
    <2>1. CASE Gone(p)
      BY <1>3, <1>4, <2>1 DEF Refused
    <2>2. CASE ~Gone(p)
      <3>1. /\ role[p] = "fleet" /\ want[p] # FleetLock
            /\ unit' = [unit EXCEPT ![p][want[p]] = "skipped"]
            /\ at' = [at EXCEPT ![p] = "next"] /\ at[p] = "look"
            /\ UNCHANGED <<file, want>>
        BY <1>4, <2>2 DEF Refused
      <3>2. /\ at'[p] = "next" /\ Starting(p)
            /\ \A m \in Machine : unit'[p][m] = "polling" => unit[p][m] = "polling"
            /\ \A q \in Pid \ {p} : at'[q] = at[q] /\ unit'[q] = unit[q]
        BY <3>1 DEF IInv, TypeOK, Starting
      <3>3. /\ \A q \in Pid, m \in Machine : unit'[q][m] = "polling" =>
                 unit[q][m] = "polling" /\ file'[UnitPath[m]] = file[UnitPath[m]]
            /\ \A q \in Pid : Starting(q)' => Starting(q)
        BY <3>1, <3>2 DEF Starting
      <3>4. QED
        BY <3>1, <3>2, <3>3, NobodyNew
    <2>3. QED
      BY <2>1, <2>2
  <1>5. ASSUME NEW p \in Pid, Reclaim(p) PROVE Kept
    <2>1. /\ at[p] = "look" /\ at'[p] = "open"
          /\ \A q \in Pid \ {p} : at'[q] = at[q]
          /\ UNCHANGED <<file, want, unit>>
      BY <1>5 DEF Reclaim, IInv, TypeOK
    <2>2. \A q \in Pid : Starting(q)' <=> Starting(q)
      BY <2>1 DEF Starting
    <2>3. ASSUME want[p] # FleetLock, NEW q \in Pid, unit[q][want[p]] = "polling"
          PROVE  FALSE
      <3>1. want[p] \in Machine /\ PathOf(p, want[p]) = UnitPath[want[p]]
        BY <2>3, LockOfMachine DEF IInv
      <3>2. unit[p][want[p]] = "due" /\ q # p
        BY <2>1, <2>3 DEF IInv, Unclaimed
      <3>3. file[PathOf(p, want[p])] = q
        BY <2>3, <3>1 DEF IInv, Holding
      <3>4. role[q] # "none"
        BY <2>3, <3>1 DEF IInv, TypeOK, Sane, NoUnits, Pollers
      <3>5. <<account[p], account[q]>> \in CanQuery
        BY DEF AllVisible, IInv, TypeOK
      <3>6. QED
        BY <1>5, <3>2, <3>3, <3>4, <3>5 DEF Reclaim, Taken, PidAlive
    <2>4. QED
      BY <2>1, <2>2, <2>3 DEF IInv, OneStart, Holding, Unclaimed
  <1>6. ASSUME NEW p \in Pid, Open(p) PROVE Kept
    <2>1. /\ at[p] = "open" /\ at'[p] = "write"
          /\ \A q \in Pid \ {p} : at'[q] = at[q]
          /\ UNCHANGED <<want, unit>>
      BY <1>6 DEF Open, IInv, TypeOK
    <2>2. \A q \in Pid, m \in Machine : unit[q][m] = "polling" =>
            m # want[p] /\ file'[UnitPath[m]] = file[UnitPath[m]]
      <3>1. file' = [file EXCEPT ![PathOf(p, want[p])] = Garbled]
        BY <1>6 DEF Open
      <3>2. at[p] \in {"open", "write"}
        BY <2>1
      <3>3. QED
        BY <3>1, <3>2, WritingKeeps
    <2>3. \A q \in Pid : Starting(q)' => Starting(q)
      BY <2>1 DEF Starting
    <2>4. \A q \in Pid, m \in Machine : unit'[q][m] = "polling" =>
            unit[q][m] = "polling" /\ file'[UnitPath[m]] = file[UnitPath[m]]
      BY <2>1, <2>2
    <2>5. \A q \in Pid : at'[q] \in {"look", "open", "write"} =>
            /\ at[q] \in {"look", "open", "write"}
            /\ at'[q] \in {"open", "write"} => at[q] \in {"open", "write"}
            /\ want'[q] = want[q]
            /\ want[q] # FleetLock => unit'[q][want[q]] = unit[q][want[q]]
      BY <2>1
    <2>6. QED
      BY <2>1, <2>3, <2>4, <2>5, NobodyNew
  <1>7. ASSUME NEW p \in Pid, Write(p) PROVE Kept
    <2>1. /\ at[p] = "write" /\ at'[p] \in {"next", "run"}
          /\ \A q \in Pid \ {p} : at'[q] = at[q] /\ unit'[q] = unit[q]
          /\ want' = want
      BY <1>7 DEF Write, IInv, TypeOK
    <2>2. \A q \in Pid \ {p} : ~Starting(q)
      BY <2>1 DEF IInv, OneStart, Starting
    <2>3. \A q \in Pid, m \in Machine : unit[q][m] = "polling" =>
            m # want[p] /\ file'[UnitPath[m]] = file[UnitPath[m]]
      BY <1>7, WritingKeeps DEF Write
    <2>4. \A m \in Machine : unit'[p][m] = "polling" =>
            unit[p][m] = "polling" \/ file'[UnitPath[m]] = p
      <3> SUFFICES ASSUME NEW m \in Machine, unit'[p][m] = "polling",
                          unit[p][m] # "polling"
                   PROVE  file'[UnitPath[m]] = p
        OBVIOUS
      <3>1. m = want[p] /\ want[p] # FleetLock
        BY <1>7 DEF Write, IInv, TypeOK
      <3>2. PathOf(p, want[p]) = UnitPath[m] /\ UnitPath[m] \in Path
        BY <3>1, LockOfMachine DEF IInv
      <3>3. QED
        BY <1>7, <3>2 DEF Write, IInv, TypeOK
    <2>5. Holding'
      BY <2>1, <2>3, <2>4 DEF IInv, Holding
    <2>6. OneStart' /\ Unclaimed'
      BY <2>1, <2>2 DEF OneStart, Unclaimed, Starting
    <2>7. QED
      BY <2>5, <2>6
  <1>8. ASSUME NEW p \in Pid, WriteFails(p) PROVE Kept
    BY <1>3, <1>8, AbortKeeps DEF WriteFails
  <1>9. ASSUME NEW p \in Pid, ThreadFails(p) PROVE Kept
    <2>1. \A q \in Pid, m \in Machine : unit[q][m] = "polling" =>
            file'[UnitPath[m]] = file[UnitPath[m]]
      BY <1>9, WritingKeeps DEF ThreadFails
    <2>2. QED
      BY <1>9, <2>1, AbortKeeps DEF ThreadFails
  <1>10. ASSUME NEW p \in Pid, NEW m \in Machine, NextUnit(p, m) PROVE Kept
    <2>1. /\ at[p] = "next" /\ at'[p] = "look" /\ want'[p] = m
          /\ unit[p][m] = "due"
          /\ \A q \in Pid \ {p} : at'[q] = at[q] /\ want'[q] = want[q]
          /\ UNCHANGED <<file, unit>>
      BY <1>10 DEF NextUnit, IInv, TypeOK
    <2>2. \A q \in Pid : Starting(q)' <=> Starting(q)
      BY <2>1 DEF Starting
    <2>3. QED
      BY <2>1, <2>2 DEF IInv, OneStart, Holding, Unclaimed
  <1>11. ASSUME NEW p \in Pid, NEW l \in {"run", "exit", "left"},
                at' = [at EXCEPT ![p] = l], UNCHANGED <<want, unit>>,
                \A q \in Pid, m \in Machine : unit[q][m] = "polling" =>
                  file'[UnitPath[m]] = file[UnitPath[m]]
         PROVE  Kept
    <2>1. at'[p] = l /\ \A q \in Pid \ {p} : at'[q] = at[q]
      BY <1>11 DEF IInv, TypeOK
    <2>2. \A q \in Pid : Starting(q)' => Starting(q)
      BY <2>1 DEF Starting
    <2>3. QED
      BY <1>11, <2>1, <2>2, NobodyNew
  <1>12. ASSUME NEW p \in Pid, Started(p) \/ Waited(p) PROVE Kept
    BY <1>11, <1>12 DEF Started, Waited
  <1>13. ASSUME NEW p \in Pid, NEW m \in Machine, ThreadEnds(p, m) PROVE Kept
    <2>1. /\ \A n \in Machine : unit'[p][n] = "polling" =>
               n # m /\ unit[p][n] = "polling"
          /\ \A q \in Pid \ {p} : unit'[q] = unit[q]
          /\ UNCHANGED <<at, want>> /\ Release(p, UnitPath[m])
          /\ unit[p][m] = "polling"
      BY <1>13 DEF ThreadEnds, IInv, TypeOK
    <2>2. \A q \in Pid \ {p}, n \in Machine : unit[q][n] = "polling" =>
            file'[UnitPath[n]] = file[UnitPath[n]]
      BY <2>1, ReleaseKeeps
    <2>3. \A n \in Machine \ {m} : file'[UnitPath[n]] = file[UnitPath[n]]
      <3>1. \A n \in Machine \ {m} : UnitPath[n] # UnitPath[m] /\ UnitPath[n] \in Path
        BY LockOfMachine DEF IInv
      <3>2. QED
        BY <2>1, <3>1 DEF Release, IInv, TypeOK
    <2>4. \A q \in Pid, n \in Machine : unit'[q][n] = "polling" =>
             unit[q][n] = "polling" /\ file'[UnitPath[n]] = file[UnitPath[n]]
      BY <2>1, <2>2, <2>3
    <2>5. \A q \in Pid : (at[q] \in {"look", "open", "write"} /\ want[q] # FleetLock)
             => unit'[q][want[q]] = unit[q][want[q]]
      <3>1. (at[p] \in {"look", "open", "write"} /\ want[p] # FleetLock) =>
              want[p] # m /\ want[p] \in Machine
        BY <2>1 DEF IInv, TypeOK, Unclaimed
      <3>2. QED
        BY <1>13, <2>1, <3>1 DEF ThreadEnds, IInv, TypeOK
    <2>6. \A q \in Pid : Starting(q)' => Starting(q)
      BY <2>1 DEF Starting
    <2>7. QED
      BY <2>1, <2>4, <2>5, <2>6, NobodyNew
  <1>14. ASSUME NEW p \in Pid, NEW m \in Machine, SingleEnds(p, m) PROVE Kept
    BY <1>3, <1>14, ReleaseKeeps DEF SingleEnds
  <1>15. ASSUME NEW p \in Pid, Leave(p) PROVE Kept
    <2>1. CASE Gone(p)
      BY <1>3, <1>15, <2>1, ReleaseKeeps DEF Leave
    <2>2. CASE ~Gone(p)
      <3>1. \A m \in Machine : file'[UnitPath[m]] = file[UnitPath[m]]
        BY <1>15, LockOfMachine DEF Leave, Release, IInv, TypeOK
      <3>2. QED
        BY <1>11, <1>15, <2>2, <3>1 DEF Leave
    <2>3. QED
      BY <2>1, <2>2
  <1>16. ASSUME NEW p \in Pid, LastThreadEnded(p) PROVE Kept
    BY <1>3, <1>16 DEF LastThreadEnded
  <1>17. ASSUME UNCHANGED <<file, at, want, unit>> PROVE Kept
    BY <1>17, NobodyNew DEF Starting
  <1>18. ASSUME NEW p \in Pid, Kill(p) PROVE Kept
    BY <1>18, GoneKeeps DEF Kill
  <1>19. ASSUME NEW f \in Path, OperatorDeletes(f) PROVE Kept
    <2>1. \A q \in Pid, m \in Machine : unit[q][m] = "polling" =>
             file'[UnitPath[m]] = file[UnitPath[m]]
      <3> SUFFICES ASSUME NEW q \in Pid, NEW m \in Machine, unit[q][m] = "polling"
                   PROVE  file'[UnitPath[m]] = file[UnitPath[m]]
        OBVIOUS
      <3>1. file[UnitPath[m]] = q /\ role[q] # "none"
        BY DEF IInv, TypeOK, Sane, NoUnits, Pollers, Holding
      <3>2. QED
        BY <1>19, <3>1 DEF OperatorDeletes, IInv, TypeOK
    <2>2. QED
      BY <1>19, <2>1, NobodyNew DEF OperatorDeletes, procVars, Starting
  <1>20. ASSUME NEW p \in Pid, NEW a \in Account, NEW m \in Machine,
                LaunchSingle(p, a, m)
         PROVE  Kept
    BY <1>2, <1>20, {m} \in SUBSET Machine, m \in {m} DEF LaunchSingle
  <1>21. ASSUME NEW p \in Pid, NEW a \in Account, NEW ms \in SUBSET Machine,
                LaunchFleet(p, a, ms)
         PROVE  Kept
    BY <1>2, <1>21 DEF LaunchFleet
  <1>22. ASSUME NEW p \in Pid, NEW a \in Account, StrangerStarts(p, a) PROVE Kept
    BY <1>17, <1>22 DEF StrangerStarts
  <1>23. ASSUME NEW p \in Pid, Signal(p) \/ StrangerEnds(p) PROVE Kept
    BY <1>17, <1>23 DEF Signal, StrangerEnds
  <1> HIDE DEF Kept
  <1>24. ASSUME Host PROVE Kept
    BY <1>8, <1>9, <1>18, <1>19, <1>20, <1>21, <1>22, <1>23, <1>24 DEF Host
  <1>25. ASSUME NEW p \in Pid, Step(p) PROVE Kept
    BY <1>4, <1>5, <1>6, <1>7, <1>10, <1>12, <1>15, <1>16, <1>25 DEF Step
  <1>26. ASSUME NEW p \in Pid, NEW m \in Machine, ThreadStep(p, m) PROVE Kept
    BY <1>13, <1>14, <1>26 DEF ThreadStep
  <1>27. Kept
    BY <1>1, <1>24, <1>25, <1>26 DEF Next
  <1>28. QED
    BY <1>27 DEF Kept

(* Two processes never poll one machine, however many there are, whatever   *)
(* is killed, fails or gets an old pid - if the one-machine pollers use the *)
(* fleet's lockfiles and no process is hidden from another.                 *)
THEOREM PollingIsExclusive ==
  ASSUME SharedLocks, AllVisible PROVE Spec => []ExclusivePolling
  <1>1. Init => IInv
    BY InitTypeOK DEF Init, IInv, OneStart, Starting, Holding, Unclaimed, NoUnits
  <1>2. IInv /\ [Next]_vars => IInv'
    BY FleetAssumption, NextTypeOK, NextIInv DEF IInv
  <1>3. IInv => ExclusivePolling
    BY DEF IInv, Holding, ExclusivePolling
  <1>4. QED
    BY <1>1, <1>2, <1>3, PTL DEF Spec

-----------------------------------------------------------------------------
(* Where a process stands, and what it has started by then.                 *)

Taking(p) == at[p] \in {"look", "open", "write"}

(* What a start goes through, in order: the fleet lock before any machine,  *)
(* a machine's lock before its thread, and a main that leaves threads       *)
(* behind only if its start failed half-way.                                *)
ShapeAt(p) ==
  /\ Taking(p) /\ want[p] # FleetLock => unit[p][want[p]] = "due"
  /\ Taking(p) /\ want[p] = FleetLock =>
       \A m \in Machine : unit[p][m] \in {"none", "due"}
  /\ role[p] = "single" => \A m \in Machine \ {want[p]} : unit[p][m] = "none"
  /\ at[p] \in {"exit", "left"} => Silent(p) \/ HalfStarted(p)

Shape == OneStart /\ \A p \in Pid : ShapeAt(p)

\* A step of one process, which starts nothing.
LEMMA ShapeStep ==
  ASSUME TypeOK, Shape, NEW p \in Pid,
         \A q \in Pid \ {p} : /\ role'[q] = role[q] /\ at'[q] = at[q]
                              /\ want'[q] = want[q] /\ unit'[q] = unit[q],
         Starting(p)' => Starting(p), ShapeAt(p)'
  PROVE  Shape'
  <1>1. \A q \in Pid : Starting(q)' => Starting(q)
    BY DEF Starting
  <1>2. OneStart'
    BY <1>1 DEF Shape, OneStart
  <1>3. \A q \in Pid \ {p} : ShapeAt(q)'
    BY DEF Shape, ShapeAt, Taking, Silent, HalfStarted
  <1>4. QED
    BY <1>2, <1>3 DEF Shape

\* A process that is gone has started nothing.
LEMMA ShapeOfGone ==
  ASSUME TypeOK, Shape, NEW p \in Pid, role' = [role EXCEPT ![p] = "none"],
         at' = [at EXCEPT ![p] = "off"], want' = [want EXCEPT ![p] = FleetLock],
         unit' = [unit EXCEPT ![p] = NoUnits]
  PROVE  Shape'
  <1>1. /\ role'[p] = "none" /\ at'[p] = "off" /\ unit'[p] = NoUnits
        /\ \A q \in Pid \ {p} : /\ role'[q] = role[q] /\ at'[q] = at[q]
                                /\ want'[q] = want[q] /\ unit'[q] = unit[q]
    BY DEF TypeOK
  <1>2. ShapeAt(p)' /\ ~Starting(p)'
    BY <1>1 DEF ShapeAt, Taking, Starting
  <1>3. QED
    BY <1>1, <1>2, ShapeStep

\* A start that fails half-way leaves the machine it was at dropped.
LEMMA ShapeOfAbort ==
  ASSUME TypeOK, Shape, NEW p \in Pid, Abort(p), role[p] = "fleet",
         at[p] \in {"open", "write"}, want[p] # FleetLock
  PROVE  Shape'
  <1>1. /\ at'[p] = "exit" /\ want' = want /\ role' = role
        /\ \A q \in Pid \ {p} : at'[q] = at[q] /\ unit'[q] = unit[q]
        /\ \A m \in Machine : unit[p][m] = "due" => unit'[p][m] = "dropped"
    BY DEF Abort, TypeOK
  <1>2. want[p] \in Machine /\ unit[p][want[p]] = "due"
    BY DEF TypeOK, Shape, ShapeAt, Taking
  <1>3. HalfStarted(p)'
    BY <1>1, <1>2 DEF HalfStarted
  <1>4. ShapeAt(p)' /\ ~Starting(p)'
    BY <1>1, <1>3 DEF ShapeAt, Taking, Starting
  <1>5. QED
    BY <1>1, <1>4, ShapeStep

\* Every step keeps the order of a start.
LEMMA NextShape == ASSUME FleetAssumption, TypeOK, Shape, [Next]_vars PROVE Shape'
  <1>1. ASSUME UNCHANGED <<role, at, want, unit>> PROVE Shape'
    BY <1>1 DEF Shape, OneStart, Starting, ShapeAt, Taking, Silent, HalfStarted
  <1>2. CASE UNCHANGED vars
    BY <1>1, <1>2 DEF vars, procVars
  <1>3. ASSUME NEW p \in Pid, NEW r, NEW a, NEW w \in Machine \cup {FleetLock},
               NEW ms \in SUBSET Machine, Launch(p, r, a, w, ms),
               \/ r = "single" /\ ms = {w}
               \/ r = "fleet" /\ w = FleetLock
        PROVE  Shape'
    <2>1. /\ role'[p] = r /\ at'[p] = "look" /\ want'[p] = w
          /\ \A m \in Machine : unit'[p][m] = IF m \in ms THEN "due" ELSE "none"
          /\ \A q \in Pid : ~Starting(q)
          /\ \A q \in Pid \ {p} : /\ role'[q] = role[q] /\ at'[q] = at[q]
                                  /\ want'[q] = want[q] /\ unit'[q] = unit[q]
      BY <1>3 DEF Launch, TypeOK
    <2>2. \A q \in Pid \ {p} : ~Starting(q)'
      BY <2>1 DEF Starting
    <2>3. OneStart'
      BY <2>2 DEF OneStart
    <2>4. r = "single" => w \in Machine /\ w # FleetLock
      BY <1>3 DEF FleetAssumption
    <2>5. ShapeAt(p)'
      BY <1>3, <2>1, <2>4 DEF ShapeAt, Taking
    <2>6. \A q \in Pid \ {p} : ShapeAt(q)'
      BY <2>1 DEF Shape, ShapeAt, Taking, Silent, HalfStarted
    <2>7. QED
      BY <2>3, <2>5, <2>6 DEF Shape
  <1>4. ASSUME NEW p \in Pid, Gone(p) PROVE Shape'
    BY <1>4, ShapeOfGone DEF Gone
  <1>5. ASSUME NEW p \in Pid, Refused(p), ~Gone(p) PROVE Shape'
    <2>1. /\ role[p] = "fleet" /\ at[p] = "look"
          /\ unit' = [unit EXCEPT ![p][want[p]] = "skipped"]
          /\ at' = [at EXCEPT ![p] = "next"] /\ UNCHANGED <<role, want>>
      BY <1>5 DEF Refused
    <2>2. /\ at'[p] = "next"
          /\ \A q \in Pid \ {p} : at'[q] = at[q] /\ unit'[q] = unit[q]
      BY <2>1 DEF TypeOK
    <2>3. ShapeAt(p)' /\ Starting(p)
      BY <2>1, <2>2 DEF ShapeAt, Taking, Starting
    <2>4. QED
      BY <2>1, <2>2, <2>3, ShapeStep
  <1>6. ASSUME NEW p \in Pid, Reclaim(p) \/ Open(p) PROVE Shape'
    <2>1. /\ Taking(p) /\ at'[p] \in {"open", "write"}
          /\ \A q \in Pid \ {p} : at'[q] = at[q]
          /\ UNCHANGED <<role, want, unit>>
      BY <1>6 DEF Reclaim, Open, Taking, TypeOK
    <2>2. ShapeAt(p)' /\ Starting(p)
      BY <2>1 DEF Shape, ShapeAt, Taking, Starting
    <2>3. QED
      BY <2>1, <2>2, ShapeStep
  <1>7. ASSUME NEW p \in Pid, Write(p) PROVE Shape'
    <2>1. /\ at[p] = "write" /\ at'[p] \in {"next", "run"}
          /\ \A m \in Machine \ {want[p]} : unit'[p][m] = unit[p][m]
          /\ \A q \in Pid \ {p} : at'[q] = at[q] /\ unit'[q] = unit[q]
          /\ UNCHANGED <<role, want>>
      BY <1>7 DEF Write, TypeOK
    <2>2. ShapeAt(p)' /\ Starting(p)
      BY <2>1 DEF Shape, ShapeAt, Taking, Starting
    <2>3. QED
      BY <2>1, <2>2, ShapeStep
  <1>8. ASSUME NEW p \in Pid, WriteFails(p) \/ ThreadFails(p) PROVE Shape'
    BY <1>4, <1>8, ShapeOfAbort DEF WriteFails, ThreadFails
  <1>9. ASSUME NEW p \in Pid, NEW m \in Machine, NextUnit(p, m) PROVE Shape'
    <2>1. /\ at[p] = "next" /\ at'[p] = "look" /\ want'[p] = m
          /\ unit[p][m] = "due" /\ role[p] = "fleet" /\ m # FleetLock
          /\ \A q \in Pid \ {p} : at'[q] = at[q] /\ want'[q] = want[q]
          /\ UNCHANGED <<role, unit>>
      BY <1>9 DEF NextUnit, TypeOK, Sane, FleetAssumption
    <2>2. ShapeAt(p)' /\ Starting(p)
      BY <2>1 DEF ShapeAt, Taking, Starting
    <2>3. QED
      BY <2>1, <2>2, ShapeStep
  <1>10. ASSUME NEW p \in Pid, Started(p) PROVE Shape'
    <2>1. /\ at[p] = "next" /\ role[p] = "fleet" /\ at'[p] \in {"run", "exit"}
          /\ at'[p] = "exit" => Silent(p)
          /\ \A q \in Pid \ {p} : at'[q] = at[q]
          /\ UNCHANGED <<role, want, unit>>
      BY <1>10 DEF Started, TypeOK, Sane, Silent
    <2>2. ShapeAt(p)' /\ Starting(p)
      BY <2>1 DEF ShapeAt, Taking, Starting, Silent
    <2>3. QED
      BY <2>1, <2>2, ShapeStep
  <1>11. ASSUME NEW p \in Pid, Waited(p) PROVE Shape'
    <2>1. /\ at'[p] = "exit" /\ role[p] = "fleet" /\ Silent(p)
          /\ \A q \in Pid \ {p} : at'[q] = at[q]
          /\ UNCHANGED <<role, want, unit>>
      BY <1>11 DEF Waited, TypeOK
    <2>2. ShapeAt(p)' /\ ~Starting(p)'
      BY <2>1 DEF ShapeAt, Taking, Starting, Silent
    <2>3. QED
      BY <2>1, <2>2, ShapeStep
  <1>12. ASSUME NEW p \in Pid, NEW m \in Machine, ThreadEnds(p, m) PROVE Shape'
    <2>1. /\ role[p] = "fleet" /\ unit[p][m] = "polling"
          /\ unit'[p][m] = "ended"
          /\ \A n \in Machine \ {m} : unit'[p][n] = unit[p][n]
          /\ \A q \in Pid \ {p} : unit'[q] = unit[q]
          /\ UNCHANGED <<role, at, want>>
      BY <1>12 DEF ThreadEnds, TypeOK
    <2>2. Taking(p) => want[p] \in Machine \ {m} /\ want[p] # FleetLock
      BY <2>1 DEF Shape, ShapeAt, TypeOK
    <2>3. HalfStarted(p) => HalfStarted(p)'
      BY <2>1 DEF HalfStarted
    <2>4. ShapeAt(p)' /\ (Starting(p)' => Starting(p))
      BY <2>1, <2>2, <2>3 DEF Shape, ShapeAt, Taking, Silent, Starting
    <2>5. QED
      BY <2>1, <2>4, ShapeStep
  <1>13. ASSUME NEW p \in Pid, Leave(p), ~Gone(p) PROVE Shape'
    <2>1. /\ at[p] = "exit" /\ at'[p] = "left" /\ role[p] = "fleet"
          /\ \A q \in Pid \ {p} : at'[q] = at[q]
          /\ UNCHANGED <<role, want, unit>>
      BY <1>13 DEF Leave, TypeOK, Sane
    <2>2. ShapeAt(p)' /\ ~Starting(p)'
      BY <2>1 DEF Shape, ShapeAt, Taking, Starting, Silent, HalfStarted
    <2>3. QED
      BY <2>1, <2>2, ShapeStep
  <1>14. ASSUME NEW p \in Pid, Kill(p) PROVE Shape'
    BY <1>14, ShapeOfGone DEF Kill
  <1>15. ASSUME NEW p \in Pid, NEW r \in {"none", "stranger"},
                role[p] \notin Pollers, role' = [role EXCEPT ![p] = r],
                UNCHANGED <<at, want, unit>>
         PROVE  Shape'
    <2>1. /\ role'[p] = r /\ \A q \in Pid \ {p} : role'[q] = role[q]
          /\ at[p] = "off"
      BY <1>15 DEF TypeOK, Sane
    <2>2. ShapeAt(p)' /\ ~Starting(p)'
      BY <1>15, <2>1 DEF ShapeAt, Taking, Starting
    <2>3. QED
      BY <1>15, <2>1, <2>2, ShapeStep
  <1>16. ASSUME NEW p \in Pid, StrangerEnds(p) \/ \E a \in Account : StrangerStarts(p, a)
         PROVE  Shape'
    BY <1>15, <1>16 DEF StrangerEnds, StrangerStarts, Pollers
  <1>17. ASSUME NEW p \in Pid, NEW a \in Account, NEW m \in Machine,
                LaunchSingle(p, a, m)
         PROVE  Shape'
    BY <1>3, <1>17, {m} \in SUBSET Machine DEF LaunchSingle
  <1>18. ASSUME NEW p \in Pid, NEW a \in Account, NEW ms \in SUBSET Machine,
                LaunchFleet(p, a, ms)
         PROVE  Shape'
    BY <1>3, <1>18 DEF LaunchFleet
  <1>19. ASSUME Host PROVE Shape'
    BY <1>1, <1>8, <1>14, <1>16, <1>17, <1>18, <1>19
    DEF Host, Signal, OperatorDeletes, procVars
  <1>20. ASSUME NEW p \in Pid, Step(p) PROVE Shape'
    BY <1>4, <1>5, <1>6, <1>7, <1>9, <1>10, <1>11, <1>13, <1>20
    DEF Step, LastThreadEnded
  <1>21. ASSUME NEW p \in Pid, NEW m \in Machine, ThreadStep(p, m) PROVE Shape'
    BY <1>4, <1>12, <1>21 DEF ThreadStep, SingleEnds
  <1>22. QED
    BY <1>2, <1>19, <1>20, <1>21 DEF Next

\* In any run starts go in order.
LEMMA AlwaysShape == Spec => []Shape
  <1>1. Init => Shape
    BY DEF Init, Shape, OneStart, Starting, ShapeAt, Taking
  <1>2. Shape /\ TypeOK /\ [Next]_vars => Shape'
    BY FleetAssumption, NextShape
  <1>3. QED
    BY <1>1, <1>2, TypeCorrect, PTL DEF Spec

-----------------------------------------------------------------------------
(* What a lockfile tells.                                                   *)

(* A fleet that has its lock and has not begun to leave.                    *)
InFleetLock(p) ==
  role[p] = "fleet" /\ (at[p] \in {"next", "run"} \/ (Taking(p) /\ want[p] # FleetLock))

HeldFor(p, f) ==
  \/ f = FleetPath /\ (InFleetLock(p) \/ at[p] = "exit")
  \/ \E m \in Machine : unit[p][m] = "polling" /\ f = PathOf(p, m)

(* A process that was never killed, and whose threads could all be started, *)
(* is named by the locks it holds only, and a poller runs under its pid.    *)
Tells(p, f) == p \notin left => role[p] \in Pollers /\ HeldFor(p, f)
LocksNamed == \A f \in Path, p \in Pid : file[f] = p => Tells(p, f)

\* A step of process p, after which p itself is named as it should be.
LEMMA NamedStep ==
  ASSUME FleetAssumption, TypeOK, LocksNamed, NEW p \in Pid, left \subseteq left',
         \A q \in Pid \ {p} : /\ role'[q] = role[q] /\ at'[q] = at[q]
                              /\ want'[q] = want[q] /\ unit'[q] = unit[q],
         \A f \in Path : file'[f] \in {file[f], NoPid, Garbled, p},
         \A f \in Path : file'[f] = p => Tells(p, f)'
  PROVE  LocksNamed'
  <1> SUFFICES ASSUME NEW f \in Path, NEW q \in Pid, file'[f] = q PROVE Tells(q, f)'
    BY DEF LocksNamed
  <1>1. CASE q = p
    BY <1>1
  <1>2. CASE q # p
    <2>1. file[f] = q
      BY <1>2 DEF FleetAssumption
    <2>2. HeldFor(q, f) => HeldFor(q, f)'
      BY <1>2 DEF HeldFor, InFleetLock, Taking, PathOf
    <2>3. QED
      BY <1>2, <2>1, <2>2 DEF LocksNamed, Tells
  <1>3. QED
    BY <1>1, <1>2

\* A process that goes leaves no lock behind, or is known to have.
LEMMA NamedGone ==
  ASSUME FleetAssumption, TypeOK, LocksNamed, NEW p \in Pid, left \subseteq left',
         role' = [role EXCEPT ![p] = "none"], at' = [at EXCEPT ![p] = "off"],
         want' = [want EXCEPT ![p] = FleetLock], unit' = [unit EXCEPT ![p] = NoUnits],
         \A f \in Path : file'[f] \in {file[f], NoPid, Garbled, p},
         \A f \in Path : file'[f] = p => p \in left'
  PROVE  LocksNamed'
  <1>1. \A q \in Pid \ {p} : /\ role'[q] = role[q] /\ at'[q] = at[q]
                             /\ want'[q] = want[q] /\ unit'[q] = unit[q]
    BY DEF TypeOK
  <1>2. \A f \in Path : file'[f] = p => Tells(p, f)'
    BY DEF Tells
  <1>3. QED
    BY <1>1, <1>2, NamedStep

\* A start that fails half-way keeps the locks of what it has started.
LEMMA NamedAbort ==
  ASSUME FleetAssumption, TypeOK, Shape, LocksNamed, NEW p \in Pid, Abort(p),
         left \subseteq left', role[p] = "fleet", at[p] \in {"open", "write"},
         want[p] # FleetLock,
         \A f \in Path : file'[f] = file[f] \/ (file'[f] = p /\ p \in left')
  PROVE  LocksNamed'
  <1>1. /\ at'[p] = "exit" /\ role' = role
        /\ \A m \in Machine : unit[p][m] = "polling" => unit'[p][m] = "polling"
        /\ \A q \in Pid \ {p} : /\ role'[q] = role[q] /\ at'[q] = at[q]
                                /\ want'[q] = want[q] /\ unit'[q] = unit[q]
    BY DEF Abort, TypeOK
  <1>2. ASSUME NEW f \in Path, file'[f] = p PROVE Tells(p, f)'
    <2>1. CASE file'[f] = file[f]
      <3>1. Tells(p, f)
        BY <1>2, <2>1 DEF LocksNamed
      <3>2. HeldFor(p, f) => HeldFor(p, f)'
        BY <1>1 DEF HeldFor, PathOf
      <3>3. QED
        BY <1>1, <3>1, <3>2 DEF Tells
    <2>2. CASE p \in left'
      BY <2>2 DEF Tells
    <2>3. QED
      BY <2>1, <2>2
  <1>3. QED
    BY <1>1, <1>2, NamedStep

\* Every step keeps lockfiles telling the truth.
LEMMA NextNamed ==
  ASSUME FleetAssumption, TypeOK, Shape, LocksNamed, [Next]_vars PROVE LocksNamed'
  <1> DEFINE Others(p) == \A q \in Pid \ {p} : /\ role'[q] = role[q] /\ at'[q] = at[q]
                                                /\ want'[q] = want[q]
                                                /\ unit'[q] = unit[q]
  <1>1. ASSUME UNCHANGED <<file, role, at, want, unit, left>> PROVE LocksNamed'
    BY <1>1 DEF LocksNamed, Tells, HeldFor, InFleetLock, Taking, PathOf
  <1>2. CASE UNCHANGED vars
    BY <1>1, <1>2 DEF vars, procVars
  <1>3. ASSUME NEW p \in Pid, NEW r, NEW a, NEW w, NEW ms, Launch(p, r, a, w, ms)
        PROVE  LocksNamed'
    <2>1. Others(p) /\ UNCHANGED <<file, left>> /\ role[p] = "none"
      BY <1>3 DEF Launch, TypeOK
    <2>2. \A f \in Path : file[f] = p => p \in left
      BY <2>1 DEF LocksNamed, Tells, Pollers
    <2>3. QED
      BY <2>1, <2>2, NamedStep DEF Tells
  <1>4. ASSUME NEW p \in Pid, Refused(p) \/ WriteFails(p), Gone(p) PROVE LocksNamed'
    <2>1. /\ Taking(p) /\ UNCHANGED <<file, left>>
          /\ role[p] = "fleet" => want[p] = FleetLock
      <3>1. Taking(p) /\ UNCHANGED <<file, left>>
        BY <1>4 DEF Refused, WriteFails, Taking
      <3>2. role'[p] = "none"
        BY <1>4 DEF Gone, TypeOK
      <3>3. ASSUME role[p] = "fleet", want[p] # FleetLock PROVE FALSE
        BY <1>4, <3>2, <3>3 DEF Refused, WriteFails, Abort
      <3>4. QED
        BY <3>1, <3>3
    <2>2. \A m \in Machine : unit[p][m] # "polling"
      <3>1. at[p] # "off"
        BY <2>1 DEF Taking
      <3>2. role[p] \in Pollers
        BY <3>1 DEF TypeOK, Sane
      <3>3. CASE want[p] = FleetLock
        BY <2>1, <3>3 DEF Shape, ShapeAt
      <3>4. CASE role[p] = "single" /\ want[p] # FleetLock
        BY <2>1, <3>4 DEF Shape, ShapeAt
      <3>5. QED
        BY <2>1, <3>2, <3>3, <3>4 DEF Pollers, TypeOK, Sane
    <2>3. \A f \in Path : ~HeldFor(p, f)
      BY <2>1, <2>2 DEF HeldFor, InFleetLock, Taking
    <2>4. \A f \in Path : file[f] = p => p \in left
      BY <2>3 DEF LocksNamed, Tells
    <2>5. QED
      BY <1>4, <2>1, <2>4, NamedGone DEF Gone
  <1>5. ASSUME NEW p \in Pid, Refused(p), ~Gone(p) PROVE LocksNamed'
    <2>1. /\ role[p] = "fleet" /\ want[p] # FleetLock /\ at[p] = "look"
          /\ unit' = [unit EXCEPT ![p][want[p]] = "skipped"]
          /\ at' = [at EXCEPT ![p] = "next"] /\ UNCHANGED <<file, role, want, left>>
      BY <1>5 DEF Refused
    <2>2. want[p] \in Machine /\ unit[p][want[p]] = "due"
      BY <2>1 DEF TypeOK, Shape, ShapeAt, Taking
    <2>3. /\ Others(p) /\ at'[p] = "next"
          /\ \A m \in Machine : unit[p][m] = "polling" => unit'[p][m] = "polling"
      BY <2>1, <2>2 DEF TypeOK
    <2>4. \A f \in Path : HeldFor(p, f) => HeldFor(p, f)'
      BY <2>1, <2>3 DEF HeldFor, InFleetLock, PathOf
    <2>5. \A f \in Path : file[f] = p => Tells(p, f)'
      BY <2>1, <2>4 DEF LocksNamed, Tells
    <2>6. QED
      BY <2>1, <2>3, <2>5, NamedStep
  <1>6. ASSUME NEW p \in Pid, Reclaim(p) \/ Open(p) PROVE LocksNamed'
    <2>1. /\ Taking(p) /\ Taking(p)' /\ UNCHANGED <<role, want, unit, left>>
          /\ Others(p)
          /\ \A f \in Path : file'[f] \in {file[f], Garbled}
      BY <1>6 DEF Reclaim, Open, Taking, TypeOK
    <2>2. at[p] # "exit" /\ at'[p] # "exit" /\ at[p] \notin {"next", "run"}
      BY <2>1 DEF Taking
    <2>3. \A f \in Path : HeldFor(p, f) => HeldFor(p, f)'
      BY <2>1, <2>2 DEF HeldFor, InFleetLock, PathOf
    <2>4. \A f \in Path : file'[f] = p => Tells(p, f)'
      BY <2>1, <2>3 DEF LocksNamed, Tells, FleetAssumption
    <2>5. QED
      BY <2>1, <2>4, NamedStep
  <1>7. ASSUME NEW p \in Pid, Write(p) PROVE LocksNamed'
    <2> DEFINE path == PathOf(p, want[p])
    <2>1. /\ at[p] = "write" /\ role[p] \in Pollers
          /\ at'[p] = (IF role[p] = "fleet" THEN "next" ELSE "run")
          /\ \A f \in Path : file'[f] = IF f = path THEN p ELSE file[f]
          /\ UNCHANGED <<role, want, left>>
          /\ \A q \in Pid \ {p} : at'[q] = at[q] /\ unit'[q] = unit[q]
      BY <1>7 DEF Write, TypeOK, Sane
    <2>2. /\ \A m \in Machine : unit[p][m] = "polling" => unit'[p][m] = "polling"
          /\ want[p] # FleetLock =>
               want[p] \in Machine /\ unit'[p][want[p]] = "polling"
      BY <1>7 DEF Write, TypeOK
    <2>3. \A f \in Path : HeldFor(p, f) => HeldFor(p, f)'
      BY <2>1, <2>2 DEF HeldFor, InFleetLock, PathOf
    <2>4. ASSUME NEW f, f = path PROVE HeldFor(p, f)'
      <3>1. CASE want[p] = FleetLock
        <4>1. role[p] = "fleet" /\ path = FleetPath
          BY <2>1, <3>1 DEF PathOf, TypeOK, Sane, Pollers
        <4>2. QED
          BY <2>1, <2>4, <4>1 DEF HeldFor, InFleetLock
      <3>2. CASE want[p] # FleetLock
        BY <2>1, <2>2, <2>4, <3>2 DEF HeldFor, PathOf
      <3>3. QED
        BY <3>1, <3>2
    <2>5. \A f \in Path : file'[f] = p => Tells(p, f)'
      BY <2>1, <2>3, <2>4 DEF LocksNamed, Tells
    <2>6. QED
      BY <2>1, <2>5, NamedStep
  <1>8. ASSUME NEW p \in Pid, WriteFails(p), ~Gone(p) PROVE LocksNamed'
    BY <1>8, NamedAbort DEF WriteFails
  <1>9. ASSUME NEW p \in Pid, ThreadFails(p) PROVE LocksNamed'
    <2>1. /\ \A f \in Path : file'[f] = file[f] \/ file'[f] = p
          /\ left' = left \cup {p}
      BY <1>9 DEF ThreadFails, TypeOK
    <2>2. QED
      BY <1>9, <2>1, NamedAbort DEF ThreadFails
  <1>10. ASSUME NEW p \in Pid, NEW m \in Machine, NextUnit(p, m) PROVE LocksNamed'
    <2>1. /\ at[p] = "next" /\ at'[p] = "look" /\ want'[p] = m /\ m # FleetLock
          /\ Others(p) /\ UNCHANGED <<file, role, unit, left>>
      BY <1>10 DEF NextUnit, TypeOK, FleetAssumption
    <2>2. \A f \in Path : HeldFor(p, f) => HeldFor(p, f)'
      BY <2>1 DEF HeldFor, InFleetLock, Taking, PathOf
    <2>3. QED
      BY <2>1, <2>2, NamedStep DEF LocksNamed, Tells
  <1>11. ASSUME NEW p \in Pid, Started(p) \/ Waited(p) PROVE LocksNamed'
    <2>1. /\ at[p] \in {"next", "run"} /\ at'[p] \in {"run", "exit"}
          /\ Others(p) /\ UNCHANGED <<file, role, want, unit, left>>
      BY <1>11 DEF Started, Waited, TypeOK
    <2>2. \A f \in Path : HeldFor(p, f) => HeldFor(p, f)'
      BY <2>1 DEF HeldFor, InFleetLock, PathOf, Taking
    <2>3. QED
      BY <2>1, <2>2, NamedStep DEF LocksNamed, Tells
  <1>12. ASSUME NEW p \in Pid, NEW f, Release(p, f)
         PROVE  \A g \in Path : /\ file'[g] \in {file[g], NoPid}
                                /\ file'[g] = p => g # f /\ file[g] = p
    BY <1>12 DEF Release, TypeOK, FleetAssumption
  <1>13. ASSUME NEW p \in Pid, NEW m \in Machine, ThreadEnds(p, m) PROVE LocksNamed'
    <2>1. /\ role[p] = "fleet" /\ Release(p, UnitPath[m])
          /\ \A n \in Machine \ {m} : unit'[p][n] = unit[p][n]
          /\ Others(p) /\ UNCHANGED <<role, at, want, left>>
      BY <1>13 DEF ThreadEnds, TypeOK
    <2>2. PathOf(p, m) = UnitPath[m]
      BY <2>1 DEF PathOf, FleetAssumption
    <2>3. \A f \in Path : HeldFor(p, f) /\ f # UnitPath[m] => HeldFor(p, f)'
      BY <2>1, <2>2 DEF HeldFor, InFleetLock, Taking, PathOf
    <2>4. \A f \in Path : file'[f] = p => Tells(p, f)'
      BY <1>12, <2>1, <2>3 DEF LocksNamed, Tells
    <2>5. QED
      BY <1>12, <2>1, <2>4, NamedStep
  <1>14. ASSUME NEW p \in Pid, NEW m \in Machine, SingleEnds(p, m) PROVE LocksNamed'
    <2>1. /\ role[p] = "single" /\ unit[p][m] = "polling" /\ Release(p, SinglePath[m])
          /\ left' = left /\ at[p] # "exit"
      BY <1>14 DEF SingleEnds, TypeOK, Sane
    <2>2. \A f \in Path : HeldFor(p, f) => f = SinglePath[m]
      <3>1. \A n \in Machine : unit[p][n] = "polling" => n = m
        BY <2>1 DEF Shape, ShapeAt
      <3>2. PathOf(p, m) = SinglePath[m]
        BY <2>1 DEF PathOf, FleetAssumption
      <3>3. QED
        BY <2>1, <3>1, <3>2 DEF HeldFor, InFleetLock
    <2>3. \A f \in Path : file'[f] = p => p \in left'
      BY <1>12, <2>1, <2>2 DEF LocksNamed, Tells
    <2>4. QED
      BY <1>12, <1>14, <2>1, <2>3, NamedGone DEF SingleEnds, Gone
  <1>15. ASSUME NEW p \in Pid, Leave(p), Gone(p) PROVE LocksNamed'
    <2>1. /\ at[p] = "exit" /\ Release(p, FleetPath) /\ left' = left
          /\ \A m \in Machine : unit[p][m] # "polling"
      <3>1. at'[p] = "off"
        BY <1>15 DEF Gone, TypeOK
      <3>2. QED
        BY <1>15, <3>1 DEF Leave, Silent, TypeOK
    <2>2. \A f \in Path : HeldFor(p, f) => f = FleetPath
      BY <2>1 DEF HeldFor
    <2>3. \A f \in Path : file'[f] = p => p \in left'
      BY <1>12, <2>1, <2>2 DEF LocksNamed, Tells
    <2>4. QED
      BY <1>12, <1>15, <2>1, <2>3, NamedGone DEF Gone
  <1>16. ASSUME NEW p \in Pid, Leave(p), ~Gone(p) PROVE LocksNamed'
    <2>1. /\ at[p] = "exit" /\ Release(p, FleetPath) /\ Others(p)
          /\ UNCHANGED <<role, want, unit, left>>
      BY <1>16 DEF Leave, TypeOK
    <2>2. \A f \in Path : HeldFor(p, f) /\ f # FleetPath => HeldFor(p, f)'
      BY <2>1 DEF HeldFor, PathOf
    <2>3. \A f \in Path : file'[f] = p => Tells(p, f)'
      BY <1>12, <2>1, <2>2 DEF LocksNamed, Tells
    <2>4. QED
      BY <1>12, <2>1, <2>3, NamedStep
  <1>17. ASSUME NEW p \in Pid, LastThreadEnded(p) PROVE LocksNamed'
    <2>1. /\ at[p] = "left" /\ UNCHANGED <<file, left>>
          /\ \A m \in Machine : unit[p][m] # "polling"
      BY <1>17 DEF LastThreadEnded, Silent
    <2>2. \A f \in Path : ~HeldFor(p, f)
      BY <2>1 DEF HeldFor, InFleetLock, Taking
    <2>3. \A f \in Path : file'[f] = p => p \in left'
      BY <2>1, <2>2 DEF LocksNamed, Tells
    <2>4. QED
      BY <1>17, <2>1, <2>3, NamedGone DEF LastThreadEnded, Gone
  <1>18. ASSUME NEW p \in Pid, Kill(p) PROVE LocksNamed'
    BY <1>18, NamedGone DEF Kill
  <1>19. ASSUME NEW p \in Pid, NEW r, role[p] \notin Pollers,
                role' = [role EXCEPT ![p] = r], UNCHANGED <<file, at, want, unit, left>>
         PROVE  LocksNamed'
    <2>1. \A f \in Path : file[f] = p => p \in left
      BY <1>19 DEF LocksNamed, Tells
    <2>2. \A q \in Pid \ {p} : role'[q] = role[q]
      BY <1>19 DEF TypeOK
    <2>3. QED
      BY <1>19, <2>1, <2>2, NamedStep DEF Tells
  <1>20. ASSUME NEW p \in Pid, StrangerEnds(p) \/ \E a \in Account : StrangerStarts(p, a)
         PROVE  LocksNamed'
    BY <1>19, <1>20 DEF StrangerEnds, StrangerStarts, Pollers
  <1>21. ASSUME NEW f \in Path, OperatorDeletes(f) PROVE LocksNamed'
    <2>1. /\ \A g \in Path : file'[g] \in {file[g], NoPid}
          /\ UNCHANGED <<role, at, want, unit, left>>
      BY <1>21 DEF OperatorDeletes, procVars, TypeOK
    <2>2. QED
      BY <2>1 DEF LocksNamed, Tells, HeldFor, InFleetLock, Taking, PathOf,
         FleetAssumption
  <1>22. ASSUME Host PROVE LocksNamed'
    BY <1>1, <1>3, <1>4, <1>8, <1>9, <1>18, <1>20, <1>21, <1>22
    DEF Host, Signal, LaunchSingle, LaunchFleet
  <1>23. ASSUME NEW p \in Pid, Step(p) PROVE LocksNamed'
    BY <1>4, <1>5, <1>6, <1>7, <1>10, <1>11, <1>15, <1>16, <1>17, <1>23 DEF Step
  <1>24. ASSUME NEW p \in Pid, NEW m \in Machine, ThreadStep(p, m) PROVE LocksNamed'
    BY <1>13, <1>14, <1>24 DEF ThreadStep
  <1>25. QED
    BY <1>2, <1>22, <1>23, <1>24 DEF Next

\* In any run a lockfile tells the truth.
LEMMA AlwaysNamed == Spec => []LocksNamed
  <1>1. Init => LocksNamed
    BY FleetAssumption DEF Init, LocksNamed, FleetAssumption
  <1>2. LocksNamed /\ TypeOK /\ Shape /\ [Next]_vars => LocksNamed'
    BY FleetAssumption, NextNamed
  <1>3. QED
    BY <1>1, <1>2, TypeCorrect, AlwaysShape, PTL DEF Spec

-----------------------------------------------------------------------------
(* The fleet lock.                                                          *)

(* A fleet that has the fleet lock is named by it, and while one is about   *)
(* to take the lock nobody has it.                                          *)
FleetHeld ==
  \A p \in Pid :
    /\ InFleetLock(p) => file[FleetPath] = p
    /\ at[p] \in {"open", "write"} /\ want[p] = FleetLock =>
         \A q \in Pid : ~InFleetLock(q)

\* A step after which nobody is new in the lock or about to take it.
LEMMA NobodyEnters ==
  ASSUME FleetHeld,
         \A q \in Pid : InFleetLock(q)' =>
           InFleetLock(q) /\ file'[FleetPath] = file[FleetPath],
         \A q \in Pid : at'[q] \in {"open", "write"} /\ want'[q] = FleetLock =>
           at[q] \in {"open", "write"} /\ want[q] = FleetLock
  PROVE  FleetHeld'
  BY DEF FleetHeld

\* A process that is gone has no lock, and has taken nobody's.
LEMMA GoneEnters ==
  ASSUME TypeOK, FleetHeld, NEW p \in Pid, role' = [role EXCEPT ![p] = "none"],
         at' = [at EXCEPT ![p] = "off"], want' = [want EXCEPT ![p] = FleetLock],
         file'[FleetPath] = file[FleetPath] \/ file[FleetPath] = p
  PROVE  FleetHeld'
  <1>1. /\ role'[p] = "none" /\ at'[p] = "off"
        /\ \A q \in Pid \ {p} : /\ role'[q] = role[q] /\ at'[q] = at[q]
                                /\ want'[q] = want[q]
    BY DEF TypeOK
  <1>2. ~InFleetLock(p)'
    BY <1>1 DEF InFleetLock
  <1>3. \A q \in Pid : InFleetLock(q)' =>
           InFleetLock(q) /\ file'[FleetPath] = file[FleetPath]
    BY <1>1, <1>2 DEF InFleetLock, Taking, FleetHeld
  <1>4. QED
    BY <1>1, <1>3, NobodyEnters

\* Every step keeps the fleet lock with its fleet.
LEMMA NextFleetHeld ==
  ASSUME AllVisible, FleetAssumption, TypeOK, Shape, FleetHeld, [Next]_vars
  PROVE  FleetHeld'
  <1>1. ASSUME UNCHANGED <<role, at, want>>, file'[FleetPath] = file[FleetPath]
        PROVE  FleetHeld'
    BY <1>1 DEF FleetHeld, InFleetLock, Taking
  <1>2. CASE UNCHANGED vars
    BY <1>1, <1>2 DEF vars, procVars
  <1>3. FleetPath \in Path /\ \A m \in Machine :
          UnitPath[m] # FleetPath /\ SinglePath[m] # FleetPath
    BY DEF Path, FleetAssumption
  <1>4. \A p \in Pid : want[p] # FleetLock => PathOf(p, want[p]) # FleetPath
    BY <1>3 DEF PathOf, TypeOK
  <1>5. ASSUME NEW p \in Pid, NEW f, Release(p, f), f \in Path
        PROVE  f # FleetPath \/ file[FleetPath] # p => file'[FleetPath] = file[FleetPath]
    BY <1>3, <1>5 DEF Release, TypeOK
  <1>6. ASSUME NEW p \in Pid, NEW r, NEW a, NEW w \in Machine \cup {FleetLock}, NEW ms,
               Launch(p, r, a, w, ms), r = "fleet" => w = FleetLock
        PROVE  FleetHeld'
    <2>1. /\ role'[p] = r /\ at'[p] = "look" /\ want'[p] = w /\ file' = file
          /\ \A q \in Pid \ {p} : /\ role'[q] = role[q] /\ at'[q] = at[q]
                                  /\ want'[q] = want[q]
      BY <1>6 DEF Launch, TypeOK
    <2>2. ~InFleetLock(p)'
      BY <1>6, <2>1 DEF InFleetLock
    <2>3. \A q \in Pid : InFleetLock(q)' => InFleetLock(q)
      BY <2>1, <2>2 DEF InFleetLock, Taking
    <2>4. QED
      BY <2>1, <2>3, NobodyEnters
  <1>7. ASSUME NEW p \in Pid, Gone(p),
               file'[FleetPath] = file[FleetPath] \/ file[FleetPath] = p
        PROVE  FleetHeld'
    BY <1>7, GoneEnters DEF Gone
  <1>8. ASSUME NEW p \in Pid, Refused(p) PROVE FleetHeld'
    <2>1. CASE Gone(p)
      BY <1>7, <1>8, <2>1 DEF Refused
    <2>2. CASE ~Gone(p)
      <3>1. /\ role[p] = "fleet" /\ want[p] # FleetLock /\ at[p] = "look"
            /\ at' = [at EXCEPT ![p] = "next"] /\ UNCHANGED <<file, role, want>>
        BY <1>8, <2>2 DEF Refused
      <3>2. at'[p] = "next" /\ \A q \in Pid \ {p} : at'[q] = at[q]
        BY <3>1 DEF TypeOK
      <3>3. InFleetLock(p)
        BY <3>1 DEF InFleetLock, Taking
      <3>4. \A q \in Pid : InFleetLock(q)' => InFleetLock(q)
        BY <3>1, <3>2, <3>3 DEF InFleetLock, Taking
      <3>5. QED
        BY <3>1, <3>2, <3>4, NobodyEnters
    <2>3. QED
      BY <2>1, <2>2
  <1>9. ASSUME NEW p \in Pid, Reclaim(p) PROVE FleetHeld'
    <2>1. /\ at[p] = "look" /\ at'[p] = "open" /\ ~Taken(p, PathOf(p, want[p]))
          /\ \A q \in Pid \ {p} : at'[q] = at[q]
          /\ UNCHANGED <<file, role, want>>
      BY <1>9 DEF Reclaim, TypeOK
    <2>2. \A q \in Pid : InFleetLock(q)' <=> InFleetLock(q)
      BY <2>1 DEF InFleetLock, Taking
    <2>3. ASSUME want[p] = FleetLock, NEW q \in Pid, InFleetLock(q) PROVE FALSE
      <3>1. file[FleetPath] = q /\ role[q] = "fleet" /\ q # p
        BY <2>1, <2>3 DEF FleetHeld, InFleetLock, Taking
      <3>2. PathOf(p, want[p]) = FleetPath
        BY <2>3 DEF PathOf
      <3>3. <<account[p], account[q]>> \in CanQuery
        BY DEF AllVisible, TypeOK
      <3>4. QED
        BY <2>1, <3>1, <3>2, <3>3 DEF Taken, PidAlive
    <2>4. QED
      BY <2>1, <2>2, <2>3 DEF FleetHeld
  <1>10. ASSUME NEW p \in Pid, Open(p) PROVE FleetHeld'
    <2>1. /\ at[p] = "open" /\ at'[p] = "write"
          /\ \A q \in Pid \ {p} : at'[q] = at[q]
          /\ UNCHANGED <<role, want>>
          /\ file' = [file EXCEPT ![PathOf(p, want[p])] = Garbled]
      BY <1>10 DEF Open, TypeOK
    <2>2. \A q \in Pid : InFleetLock(q)' <=> InFleetLock(q)
      BY <2>1 DEF InFleetLock, Taking
    <2>3. want[p] # FleetLock => file'[FleetPath] = file[FleetPath]
      BY <1>3, <1>4, <2>1 DEF TypeOK
    <2>4. \A q \in Pid : InFleetLock(q) => want[p] # FleetLock
      BY <2>1 DEF FleetHeld
    <2>5. QED
      BY <2>1, <2>2, <2>3, <2>4, NobodyEnters
  <1>11. ASSUME NEW p \in Pid, Write(p) PROVE FleetHeld'
    <2>1. /\ at[p] = "write" /\ at'[p] = (IF role[p] = "fleet" THEN "next" ELSE "run")
          /\ \A q \in Pid \ {p} : at'[q] = at[q]
          /\ UNCHANGED <<role, want>>
          /\ file' = [file EXCEPT ![PathOf(p, want[p])] = p]
      BY <1>11 DEF Write, TypeOK
    <2>2. \A q \in Pid \ {p} : InFleetLock(q)' <=> InFleetLock(q)
      BY <2>1 DEF InFleetLock, Taking
    <2>3. \A q \in Pid \ {p} : at'[q] \notin {"open", "write"}
      BY <2>1 DEF Shape, OneStart, Starting
    <2>4. CASE want[p] = FleetLock
      <3>1. file'[FleetPath] = p
        BY <1>3, <2>1, <2>4 DEF PathOf, TypeOK
      <3>2. \A q \in Pid : ~InFleetLock(q)
        BY <2>1, <2>4 DEF FleetHeld
      <3>3. QED
        BY <2>1, <2>2, <2>3, <3>1, <3>2 DEF FleetHeld
    <2>5. CASE want[p] # FleetLock
      <3>1. file'[FleetPath] = file[FleetPath]
        BY <1>3, <1>4, <2>1, <2>5 DEF TypeOK
      <3>2. InFleetLock(p)' => InFleetLock(p)
        BY <2>1, <2>5 DEF InFleetLock, Taking
      <3>3. QED
        BY <2>1, <2>2, <2>3, <3>1, <3>2, NobodyEnters
    <2>6. QED
      BY <2>4, <2>5
  <1>12. ASSUME NEW p \in Pid, Abort(p), want[p] # FleetLock,
                at[p] \in {"open", "write"}, file'[FleetPath] = file[FleetPath]
         PROVE  FleetHeld'
    <2>1. /\ at'[p] = "exit" /\ \A q \in Pid \ {p} : at'[q] = at[q]
          /\ UNCHANGED <<role, want>>
      BY <1>12 DEF Abort, TypeOK
    <2>2. \A q \in Pid : InFleetLock(q)' => InFleetLock(q)
      BY <2>1 DEF InFleetLock, Taking
    <2>3. QED
      BY <1>12, <2>1, <2>2, NobodyEnters
  <1>13. ASSUME NEW p \in Pid, WriteFails(p) PROVE FleetHeld'
    BY <1>7, <1>12, <1>13 DEF WriteFails
  <1>14. ASSUME NEW p \in Pid, ThreadFails(p) PROVE FleetHeld'
    <2>1. file'[FleetPath] = file[FleetPath]
      BY <1>3, <1>4, <1>14 DEF ThreadFails, TypeOK
    <2>2. QED
      BY <1>12, <1>14, <2>1 DEF ThreadFails
  <1>15. ASSUME NEW p \in Pid, NEW m \in Machine, NextUnit(p, m) PROVE FleetHeld'
    <2>1. /\ at[p] = "next" /\ at'[p] = "look" /\ role[p] = "fleet"
          /\ \A q \in Pid \ {p} : at'[q] = at[q] /\ want'[q] = want[q]
          /\ UNCHANGED <<file, role>>
      BY <1>15 DEF NextUnit, TypeOK, Sane
    <2>2. \A q \in Pid : InFleetLock(q)' => InFleetLock(q)
      BY <2>1 DEF InFleetLock, Taking
    <2>3. QED
      BY <2>1, <2>2, NobodyEnters
  <1>16. ASSUME NEW p \in Pid, Started(p) \/ Waited(p) PROVE FleetHeld'
    <2>1. /\ at[p] \in {"next", "run"} /\ at'[p] \in {"run", "exit"}
          /\ \A q \in Pid \ {p} : at'[q] = at[q]
          /\ UNCHANGED <<file, role, want>>
      BY <1>16 DEF Started, Waited, TypeOK
    <2>2. \A q \in Pid : InFleetLock(q)' => InFleetLock(q)
      BY <2>1 DEF InFleetLock, Taking
    <2>3. QED
      BY <2>1, <2>2, NobodyEnters
  <1>17. ASSUME NEW p \in Pid, NEW m \in Machine, ThreadEnds(p, m) PROVE FleetHeld'
    <2>1. UnitPath[m] \in Path
      BY DEF Path
    <2>2. QED
      BY <1>1, <1>3, <1>5, <1>17, <2>1 DEF ThreadEnds
  <1>18. ASSUME NEW p \in Pid, NEW m \in Machine, SingleEnds(p, m) PROVE FleetHeld'
    <2>1. SinglePath[m] \in Path
      BY DEF Path
    <2>2. QED
      BY <1>3, <1>5, <1>7, <1>18, <2>1 DEF SingleEnds
  <1>19. ASSUME NEW p \in Pid, Leave(p) PROVE FleetHeld'
    <2>1. at[p] = "exit" /\ Release(p, FleetPath)
      BY <1>19 DEF Leave
    <2>2. file'[FleetPath] = file[FleetPath] \/ file[FleetPath] = p
      BY <1>3, <1>5, <2>1
    <2>3. CASE Gone(p)
      BY <1>7, <2>2, <2>3
    <2>4. CASE ~Gone(p)
      <3>1. /\ at'[p] = "left" /\ \A q \in Pid \ {p} : at'[q] = at[q]
            /\ UNCHANGED <<role, want>>
        BY <1>19, <2>4 DEF Leave, TypeOK
      <3>2. ~InFleetLock(p) /\ ~InFleetLock(p)'
        BY <2>1, <3>1 DEF InFleetLock, Taking
      <3>3. \A q \in Pid : InFleetLock(q)' =>
              InFleetLock(q) /\ file'[FleetPath] = file[FleetPath]
        BY <2>2, <3>1, <3>2 DEF InFleetLock, Taking, FleetHeld
      <3>4. QED
        BY <3>1, <3>3, NobodyEnters
    <2>5. QED
      BY <2>3, <2>4
  <1>20. ASSUME NEW p \in Pid, LastThreadEnded(p) PROVE FleetHeld'
    BY <1>7, <1>20 DEF LastThreadEnded
  <1>21. ASSUME NEW p \in Pid, Kill(p) PROVE FleetHeld'
    BY <1>21, GoneEnters DEF Kill
  <1>22. ASSUME NEW p \in Pid, role[p] \notin Pollers, NEW r \in {"none", "stranger"},
                role' = [role EXCEPT ![p] = r], UNCHANGED <<file, at, want>>
         PROVE  FleetHeld'
    <2>1. role'[p] = r /\ \A q \in Pid \ {p} : role'[q] = role[q]
      BY <1>22 DEF TypeOK
    <2>2. \A q \in Pid : InFleetLock(q)' => InFleetLock(q)
      BY <1>22, <2>1 DEF InFleetLock, Taking
    <2>3. QED
      BY <1>22, <2>2, NobodyEnters
  <1>23. ASSUME NEW p \in Pid, StrangerEnds(p) \/ \E a \in Account : StrangerStarts(p, a)
         PROVE  FleetHeld'
    BY <1>22, <1>23 DEF StrangerEnds, StrangerStarts, Pollers
  <1>24. ASSUME NEW f \in Path, OperatorDeletes(f) PROVE FleetHeld'
    <2>1. /\ role[file[f]] = "none" /\ UNCHANGED <<role, at, want>>
          /\ f # FleetPath => file'[FleetPath] = file[FleetPath]
      BY <1>3, <1>24 DEF OperatorDeletes, procVars, TypeOK
    <2>2. \A q \in Pid : InFleetLock(q)' => InFleetLock(q)
      BY <2>1 DEF InFleetLock, Taking
    <2>3. \A q \in Pid : InFleetLock(q) => f # FleetPath
      BY <2>1 DEF FleetHeld, InFleetLock
    <2>4. QED
      BY <2>1, <2>2, <2>3, NobodyEnters
  <1>25. ASSUME Host PROVE FleetHeld'
    BY <1>1, <1>6, <1>13, <1>14, <1>21, <1>23, <1>24, <1>25
    DEF Host, Signal, LaunchSingle, LaunchFleet
  <1>26. ASSUME NEW p \in Pid, Step(p) PROVE FleetHeld'
    BY <1>8, <1>9, <1>10, <1>11, <1>15, <1>16, <1>19, <1>20, <1>26 DEF Step
  <1>27. ASSUME NEW p \in Pid, NEW m \in Machine, ThreadStep(p, m) PROVE FleetHeld'
    BY <1>17, <1>18, <1>27 DEF ThreadStep
  <1>28. QED
    BY <1>2, <1>25, <1>26, <1>27 DEF Next

(* A lockfile that names no running poller was left by a process that was   *)
(* killed or could not start a thread, under any accounts and lock paths.   *)
THEOREM LocksAlwaysHaveHolders == Spec => []LocksHaveHolders
  <1>1. LocksNamed => LocksHaveHolders
    BY DEF LocksNamed, Tells, LocksHaveHolders
  <1>2. QED
    BY <1>1, AlwaysNamed, PTL

(* Nobody is kept off a machine without a reason, under any accounts and    *)
(* lock paths.                                                              *)
THEOREM RefusalsAreJustified == Spec => RefusalJustified
  <1> DEFINE Justified ==
        \A p \in Pid :
          (/\ at[p] = "look" /\ want[p] \in Machine
           /\ Taken(p, PathOf(p, want[p])))
            => LET q == file[PathOf(p, want[p])] IN
               unit[q][want[p]] = "polling" \/ q \in left
  <1>1. ASSUME TypeOK, LocksNamed PROVE Justified
    <2> SUFFICES ASSUME NEW p \in Pid, want[p] \in Machine,
                        Taken(p, PathOf(p, want[p])), NEW q,
                        q = file[PathOf(p, want[p])], q \notin left
                 PROVE  unit[q][want[p]] = "polling"
      OBVIOUS
    <2>1. q \in Pid /\ PathOf(p, want[p]) \in Path
      BY <1>1, FleetAssumption, PathOfType DEF Taken, TypeOK
    <2>2. HeldFor(q, PathOf(p, want[p]))
      BY <1>1, <2>1 DEF LocksNamed, Tells
    <2>3. /\ PathOf(p, want[p]) \in {UnitPath[want[p]], SinglePath[want[p]]}
          /\ \A n \in Machine : PathOf(q, n) \in {UnitPath[n], SinglePath[n]}
      BY FleetAssumption DEF PathOf, FleetAssumption
    <2>4. PathOf(p, want[p]) # FleetPath
      BY <2>3, FleetAssumption DEF FleetAssumption
    <2>5. PICK n \in Machine : unit[q][n] = "polling" /\ PathOf(p, want[p]) = PathOf(q, n)
      BY <2>2, <2>4 DEF HeldFor
    <2>6. n = want[p]
      BY <2>3, <2>5, FleetAssumption DEF FleetAssumption
    <2>7. QED
      BY <2>5, <2>6
  <1>2. TypeOK /\ LocksNamed => Justified
    BY <1>1
  <1> HIDE DEF Justified
  <1>3. Spec => [][Justified]_vars
    BY <1>2, TypeCorrect, AlwaysNamed, PTL
  <1>4. QED
    BY <1>3 DEF Justified, RefusalJustified

(* A lock keeps its promise to both sides: what holds it is the one fleet   *)
(* that is up, and whoever is refused was refused for cause - if no process *)
(* is hidden from another.                                                  *)
THEOREM LocksAreAlwaysKept == ASSUME AllVisible PROVE Spec => LocksAreKept
  <1>1. Init => FleetHeld
    BY DEF Init, FleetHeld, InFleetLock
  <1>2. FleetHeld /\ TypeOK /\ Shape /\ [Next]_vars => FleetHeld'
    BY FleetAssumption, NextFleetHeld
  <1>3. ASSUME TypeOK, Shape, FleetHeld PROVE OneFleetUp
    <2> SUFFICES ASSUME NEW p \in Pid, role[p] = "fleet", ~Silent(p), ~HalfStarted(p)
                 PROVE  file[FleetPath] = p
      BY DEF OneFleetUp
    <2>1. at[p] \notin {"off", "exit", "left"}
      BY <1>3 DEF TypeOK, Sane, Pollers, Shape, ShapeAt
    <2>2. ~(Taking(p) /\ want[p] = FleetLock)
      BY <1>3 DEF Shape, ShapeAt, Silent
    <2>3. InFleetLock(p)
      BY <1>3, <2>1, <2>2 DEF InFleetLock, Taking, TypeOK, Locations
    <2>4. QED
      BY <1>3, <2>3 DEF FleetHeld
  <1>4. Spec => []FleetHeld
    BY <1>1, <1>2, TypeCorrect, AlwaysShape, PTL DEF Spec
  <1>5. TypeOK /\ Shape /\ FleetHeld => OneFleetUp
    BY <1>3
  <1>6. QED
    BY <1>4, <1>5, TypeCorrect, AlwaysShape, LocksAlwaysHaveHolders,
       RefusalsAreJustified, PTL DEF LocksAreKept

-----------------------------------------------------------------------------
(***************************************************************************)
(* The supervisor of one machine (FocasService).                           *)
(***************************************************************************)

(* What the counters of the code know about the history.                   *)
Counters ==
  /\ consecutive <= streak
  /\ source # "none" => onHandle <= consecutive
  /\ pc \notin Cooling \cup Finished => consecutive < Threshold

InFastWait == pc = "wait" /\ ticks > 0

(* What each location of the thread may rely on.                           *)
AtLocation ==
  /\ pc = "connecting" => source = "none" /\ hb.state = "connecting"
  /\ pc \in {"read", "persist", "fastread", "fastpersist"} => source # "none"
  /\ pc = "cooldown" => ticks = 0
  /\ (pc \in {"persist", "fastread", "fastpersist"} \/ InFastWait) => streak = 0
  /\ (pc \in {"fastread", "fastpersist"} \/ InFastWait) => state = "healthy"

(* The inductive invariant.                                                *)
ServiceInv ==
  /\ ServiceTypeOK
  /\ Counters
  /\ AtLocation
  /\ BreakerJustified
  /\ DeadHandleDropped
  /\ HeartbeatHonest
-----------------------------------------------------------------------------
\* Init satisfies the invariant.
LEMMA InitServiceInv == ServiceInit => ServiceInv
<1> SUFFICES ASSUME ServiceInit PROVE ServiceInv
  OBVIOUS
<1> USE ServiceAssumption DEF ServiceAssumption, ServiceInit, Cooling, Finished
<1>1. ServiceTypeOK
  <2>1. halt \in BOOLEAN /\ db \in BOOLEAN
    BY Zenon
  <2>2. hb \in [state : ServiceState, fails : 0..Threshold]
    BY DEF ServiceState
  <2>3. QED
    BY <2>1, <2>2 DEF ServiceTypeOK, RunLocations, ServiceState
<1>2. Counters /\ BreakerJustified /\ DeadHandleDropped
  BY DEF Counters, BreakerJustified, DeadHandleDropped
<1>3. AtLocation
  BY DEF AtLocation, InFastWait
<1>4. HeartbeatHonest
  BY DEF HeartbeatHonest
<1>5. QED
  BY <1>1, <1>2, <1>3, <1>4 DEF ServiceInv

(* Every step of the thread and of its environment keeps the invariant.    *)
LEMMA NextServiceInv == ServiceInv /\ [ServiceNext]_serviceVars => ServiceInv'
<1> SUFFICES ASSUME ServiceInv, [ServiceNext]_serviceVars PROVE ServiceInv'
  OBVIOUS
<1> USE ServiceAssumption
    DEF ServiceAssumption, ServiceInv, ServiceTypeOK, Counters, AtLocation, InFastWait, BreakerJustified,
        DeadHandleDropped, HeartbeatHonest, RunLocations, Cooling, Finished,
        ServiceState, Report, CloseSource
<1>1. CASE Exit
  BY <1>1 DEF Exit, LeaveRun
<1>2. CASE BeginConnect
  BY <1>2 DEF BeginConnect
<1>3. CASE ConnectOk
  BY <1>3 DEF ConnectOk
<1>4. CASE ConnectFail
  BY <1>4 DEF ConnectFail
<1>5. CASE BeginCycle
  BY <1>5 DEF BeginCycle
<1>6. CASE ReadOk
  BY <1>6 DEF ReadOk
<1>7. CASE ReadStale
  BY <1>7 DEF ReadStale, OnReadFailure
<1>8. CASE ReadError
  BY <1>8 DEF ReadError, OnReadFailure
<1>9. CASE ReadCrash
  BY <1>9 DEF ReadCrash, LeaveRun
<1>10. CASE EndCooldown
  BY <1>10 DEF EndCooldown
<1>11. CASE Persist
  BY <1>11 DEF Persist, DoPersist
<1>12. CASE Wake
  BY <1>12 DEF Wake
<1>13. CASE FastTick
  BY <1>13 DEF FastTick
<1>14. CASE FastOk
  BY <1>14 DEF FastOk
<1>15. CASE FastPersist
  BY <1>15 DEF FastPersist, DoPersist
<1>16. CASE FastStale
  BY <1>16 DEF FastStale
<1>17. CASE FastError
  BY <1>17 DEF FastError
<1>18. CASE FastCrash
  BY <1>18 DEF FastCrash, LeaveRun
<1>19. CASE DbChanges
  BY <1>19 DEF DbChanges, thread
<1>20. CASE MirrorAges
  BY <1>20 DEF MirrorAges, thread
<1>21. CASE SetStop
  BY <1>21 DEF SetStop, thread
<1>22. ASSUME NEW l \in {"up", "flaky", "down"}, LinkChanges(l)
      PROVE  ServiceInv'
  BY <1>22 DEF LinkChanges
<1>23. CASE UNCHANGED serviceVars
  BY <1>23 DEF serviceVars, thread
<1>24. QED
  BY <1>1, <1>2, <1>3, <1>4, <1>5, <1>6, <1>7, <1>8, <1>9, <1>10, <1>11, <1>12,
     <1>13, <1>14, <1>15, <1>16, <1>17, <1>18, <1>19, <1>20, <1>21, <1>22, <1>23
     DEF ServiceNext, ServiceStep, Environment

(* The supervisor stays within its types and bounds.                       *)
THEOREM SupervisorTypeCorrect == ServiceSpec => []ServiceTypeOK
<1>1. ServiceSpec => []ServiceInv
  BY InitServiceInv, NextServiceInv, PTL DEF ServiceSpec
<1>2. ServiceInv => ServiceTypeOK
  BY DEF ServiceInv
<1>3. QED
  BY <1>1, <1>2, PTL

(* The breaker opens only for Threshold failed full reads in a row, with   *)
(* the handle closed and the heartbeat telling so, whatever the database,  *)
(* the fast tier and the control do.                                       *)
THEOREM BreakerOpensForReadsOnly == ServiceSpec => []BreakerJustified
<1>1. ServiceSpec => []ServiceInv
  BY InitServiceInv, NextServiceInv, PTL DEF ServiceSpec
<1>2. ServiceInv => BreakerJustified
  BY DEF ServiceInv
<1>3. QED
  BY <1>1, <1>2, PTL

(* No handle is ever read after Threshold failed reads in a row.           *)
THEOREM NoDeadHandleKept == ServiceSpec => []DeadHandleDropped
<1>1. ServiceSpec => []ServiceInv
  BY InitServiceInv, NextServiceInv, PTL DEF ServiceSpec
<1>2. ServiceInv => DeadHandleDropped
  BY DEF ServiceInv
<1>3. QED
  BY <1>1, <1>2, PTL

(* The heartbeat an operator reads agrees with what happened.              *)
THEOREM HeartbeatIsHonest == ServiceSpec => []HeartbeatHonest
<1>1. ServiceSpec => []ServiceInv
  BY InitServiceInv, NextServiceInv, PTL DEF ServiceSpec
<1>2. ServiceInv => HeartbeatHonest
  BY DEF ServiceInv
<1>3. QED
  BY <1>1, <1>2, PTL

(***************************************************************************)
(* As long as no FOCAS code is mapped to FocasHandleError, only the breaker *)
(* closes a handle, the counter of the code is the number of failed reads  *)
(* and the breaker bounds them.                                            *)
(***************************************************************************)
GenericInv ==
  /\ ServiceInv
  /\ streak = consecutive
  /\ source = "none" /\ pc \notin Cooling \cup Finished => streak = 0

\* Every step keeps the bound on read errors.
LEMMA NextGenericInv ==
  ASSUME StaleRaises = {"focas"}
  PROVE  GenericInv /\ [ServiceNext]_serviceVars => GenericInv'
<1> SUFFICES ASSUME GenericInv, [ServiceNext]_serviceVars PROVE GenericInv'
  OBVIOUS
<1>0. ServiceInv'
  BY NextServiceInv DEF GenericInv
<1> USE <1>0, ServiceAssumption
    DEF ServiceAssumption, GenericInv, ServiceInv, ServiceTypeOK, Counters, AtLocation,
        BreakerJustified, RunLocations, Cooling, Finished, Report, CloseSource
<1>1. CASE Exit
  BY <1>1 DEF Exit, LeaveRun
<1>2. CASE BeginConnect
  BY <1>2 DEF BeginConnect
<1>3. CASE ConnectOk
  BY <1>3 DEF ConnectOk
<1>4. CASE ConnectFail
  BY <1>4 DEF ConnectFail
<1>5. CASE BeginCycle
  BY <1>5 DEF BeginCycle
<1>6. CASE ReadOk
  BY <1>6 DEF ReadOk
<1>7. CASE ReadStale
  BY <1>7 DEF ReadStale, RaisesHandle
<1>8. CASE ReadError
  BY <1>8 DEF ReadError, OnReadFailure
<1>9. CASE ReadCrash
  BY <1>9 DEF ReadCrash, LeaveRun
<1>10. CASE EndCooldown
  BY <1>10 DEF EndCooldown
<1>11. CASE Persist
  BY <1>11 DEF Persist, DoPersist
<1>12. CASE Wake
  BY <1>12 DEF Wake
<1>13. CASE FastTick
  BY <1>13 DEF FastTick
<1>14. CASE FastOk
  BY <1>14 DEF FastOk
<1>15. CASE FastPersist
  BY <1>15 DEF FastPersist, DoPersist
<1>16. CASE FastStale
  BY <1>16 DEF FastStale
<1>17. CASE FastError
  BY <1>17 DEF FastError
<1>18. CASE FastCrash
  BY <1>18 DEF FastCrash, LeaveRun
<1>19. CASE DbChanges
  BY <1>19 DEF DbChanges, thread
<1>20. CASE MirrorAges
  BY <1>20 DEF MirrorAges, thread
<1>21. CASE SetStop
  BY <1>21 DEF SetStop, thread
<1>22. ASSUME NEW l \in {"up", "flaky", "down"}, LinkChanges(l)
      PROVE  GenericInv'
  BY <1>22 DEF LinkChanges
<1>23. CASE UNCHANGED serviceVars
  BY <1>23 DEF serviceVars, thread
<1>24. QED
  BY <1>1, <1>2, <1>3, <1>4, <1>5, <1>6, <1>7, <1>8, <1>9, <1>10, <1>11, <1>12,
     <1>13, <1>14, <1>15, <1>16, <1>17, <1>18, <1>19, <1>20, <1>21, <1>22, <1>23
     DEF ServiceNext, ServiceStep, Environment

(* Every run of failed reads ends in a cooldown after at most Threshold of *)
(* them, in production, where every FOCAS error is the generic one.        *)
THEOREM ReadErrorsAreBounded ==
  ASSUME StaleRaises = {"focas"}
  PROVE  ServiceSpec => []BreakerBounds
<1>1. ServiceInit => GenericInv
  BY InitServiceInv DEF ServiceInit, GenericInv
<1>2. GenericInv /\ [ServiceNext]_serviceVars => GenericInv'
  BY NextGenericInv
<1>3. GenericInv => BreakerBounds
  BY ServiceAssumption
     DEF ServiceAssumption, GenericInv, ServiceInv, ServiceTypeOK, BreakerBounds
<1>4. QED
  BY <1>1, <1>2, <1>3, PTL DEF ServiceSpec
=============================================================================
