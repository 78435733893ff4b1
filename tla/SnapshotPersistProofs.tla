----------------------- MODULE SnapshotPersistProofs ------------------------
(* Theorems about SnapshotPersist for any machine, any order of reads and   *)
(* any pattern of failed reads and abandoned cycles: the types, that the    *)
(* audit log replays to the mirror and that cycles are atomic; that the     *)
(* memory of the last tool is kept through cycles that see none, that a     *)
(* control that was reset raises its alarm, and that the history of lengths *)
(* is what the mirror went through.                                         *)
EXTENDS SnapshotPersist, FiniteSetTheorems, TLAPS

(* What SingleInstanceLock and the one thread per machine are there for.    *)
OnePoller == \A p, q \in Poller : p = q

(* While a poller has a cycle under way no row is younger than its sweep,   *)
(* and what it SELECTed is still what the mirror holds.                     *)
InCycle ==
  \A p \in Poller :
    /\ pc[p] # "idle" => /\ polledAt[p] = clock
                         /\ \A k \in Key : mirror[k].polled < polledAt[p]
    /\ pc[p] = "loaded" => \A k \in Key : base[p][k] = mirror[k].val

NotYetPolled == \A k \in Key : mirror[k].polled <= clock

IInv == TypeOK /\ InCycle /\ NotYetPolled /\ LedgerReplays

-----------------------------------------------------------------------------
(* Types.                                                                   *)

\* An empty mirror is well typed.
LEMMA InitTypeOK == ASSUME PersistAssumption PROVE Init => TypeOK
  BY DEF PersistAssumption, Init, TypeOK, Held, NoRow, NotRead, NoReset, Row, Who

\* The end of a cycle keeps the types.
LEMMA EndCycleTypes ==
  ASSUME TypeOK, NEW p \in Poller, EndCycle(p)
  PROVE  /\ pc' \in [Poller -> {"idle", "sweep", "loaded"}]
         /\ pos' \in [Poller -> Nat \ {0}]
         /\ snap' \in [Poller -> [Key -> Held]]
         /\ base' \in [Poller -> [Key -> Held]]
         /\ polledAt' \in [Poller -> Nat]
         /\ presetter' \in [Poller -> BOOLEAN]
  <1>1. presetter' \in [Poller -> BOOLEAN]
    BY Zenon DEF TypeOK, EndCycle
  <1>2. QED
    BY <1>1 DEF TypeOK, EndCycle, NotRead, Held

\* A commit writes rows and audit entries of their types.
LEMMA CommitTypes ==
  ASSUME PersistAssumption, TypeOK, NEW p \in Poller, Commit(p)
  PROVE  TypeOK'
  <1>1. /\ pc' \in [Poller -> {"idle", "sweep", "loaded"}]
        /\ pos' \in [Poller -> Nat \ {0}]
        /\ snap' \in [Poller -> [Key -> Held]]
        /\ base' \in [Poller -> [Key -> Held]]
        /\ polledAt' \in [Poller -> Nat]
        /\ presetter' \in [Poller -> BOOLEAN]
    BY EndCycleTypes DEF Commit
  <1>2. \A k \in Observed(p) : k \in Key /\ snap[p][k] \in Value
    BY DEF Observed, TypeOK, Held
  <1>3. mirror' \in [Key -> Row]
    <2>1. ASSUME NEW k \in Observed(p) PROVE Upserted(p, k) \in Row
      BY <2>1, <1>2 DEF TypeOK, Upserted, Row, Held
    <2>2. QED
      BY <2>1, <1>2 DEF Commit, TypeOK
  <1>4. ledger' \in [Key -> Seq(Entry)]
    <2>1. ASSUME NEW k \in Changed(p) PROVE k \in Key /\ AuditOf(p, k) \in Entry
      <3>1. k \in Key /\ base[p][k] \in Held /\ snap[p][k] \in Value
        BY <2>1, <1>2 DEF Changed, TypeOK
      <3>2. polledAt[p] \in Nat /\ carried[k] \in SUBSET Who /\ lastCycle \in Nat
        BY <3>1 DEF TypeOK
      <3>3. QED
        BY <3>1, <3>2 DEF AuditOf, Entry, Source
    <2>2. QED
      BY <2>1 DEF Commit, TypeOK
  <1>5. lastTool' \in (Value \ Cancel) \cup {Nothing}
    <2>1. {snap[p][s] : s \in Status \cap Observed(p)} \subseteq Value
      BY <1>2
    <2>2. QED
      BY <2>1 DEF Commit, ToolWord, TypeOK
  <1>6. alarms' \subseteq Nat /\ lastCycle' \in Nat
    BY DEF Commit, TypeOK
  <1>7. reset' \in [pots : SUBSET Pots, cycles : Nat, alarm : BOOLEAN]
    <2>1. ReinitSuspected(p) \in BOOLEAN
      BY DEF ReinitSuspected
    <2>2. (reset.alarm \/ ReinitSuspected(p)) \in BOOLEAN
      OBVIOUS
    <2>3. reset.cycles \in Nat /\ reset.pots \in SUBSET Pots
          /\ reset = [pots |-> reset.pots, cycles |-> reset.cycles,
                      alarm |-> reset.alarm]
      BY DEF TypeOK
    <2>4. reset' = [pots |-> reset.pots,
                    cycles |-> IF reset.cycles < 2 THEN reset.cycles + 1
                               ELSE reset.cycles,
                    alarm |-> reset.alarm \/ ReinitSuspected(p)]
      BY <2>3, Zenon DEF Commit
    <2>5. QED
      BY <2>2, <2>3, <2>4
  <1>8. carried' \in [Key -> SUBSET Who]
    BY DEF Commit, TypeOK
  <1>9. QED
    BY <1>1, <1>3, <1>4, <1>5, <1>6, <1>7, <1>8 DEF Commit, TypeOK, controlVars

\* Every step keeps the types.
LEMMA NextTypeOK == ASSUME PersistAssumption, TypeOK, [Next]_vars PROVE TypeOK'
  <1> USE DEF PersistAssumption
  <1>1. CASE UNCHANGED vars
    BY <1>1 DEF vars, pollerVars, dbVars, controlVars, TypeOK
  <1>2. ASSUME NEW k \in Key, NEW v \in Value, Edit(k, v) PROVE TypeOK'
    BY <1>2 DEF TypeOK, Edit, Change, pollerVars, dbVars, NoReset, Who
  <1>3. ASSUME NEW g \in Geom, NEW v \in Value, Touch(g, v) PROVE TypeOK'
    BY <1>3 DEF TypeOK, Touch, pollerVars, dbVars
  <1>4. ASSUME NEW v \in Value, PresetWrite(v) PROVE TypeOK'
    BY <1>4 DEF TypeOK, PresetWrite, Change, pollerVars, dbVars, Who
  <1>5. CASE PmcReset
    BY <1>5 DEF TypeOK, PmcReset, pollerVars, dbVars
  <1>6. ASSUME NEW p \in Poller, BeginSweep(p) PROVE TypeOK'
    <2> DEFINE Touches == [reg : Geom, cold : BOOLEAN, midCycle : BOOLEAN]
    <2>1. ASSUME touching \in Touches
          PROVE  [touching EXCEPT !.midCycle = TRUE] \in Touches
      BY <2>1, Zenon
    <2>2. touching \in Touches \cup {Nothing}
      BY DEF TypeOK
    <2>3. touching' \in Touches \cup {Nothing}
      <3> HIDE DEF Touches
      <3> QED
        BY <1>6, <2>1, <2>2 DEF BeginSweep
    <2>4. /\ clock' = clock + 1 /\ pc' = [pc EXCEPT ![p] = "sweep"]
          /\ polledAt' = [polledAt EXCEPT ![p] = clock + 1]
          /\ UNCHANGED <<pos, snap, base, presetter, mirror, ledger, lastTool, alarms,
                         control, latched, edits, causes, carried, lastCycle, reset>>
      BY <1>6 DEF BeginSweep, dbVars
    <2>5. QED
      BY <2>3, <2>4 DEF TypeOK
  <1>7. ASSUME NEW p \in Poller, ReadItem(p) PROVE TypeOK'
    <2>1. Order[pos[p]] \in Key
      BY <1>7 DEF ReadItem, TypeOK
    <2> DEFINE k == Order[pos[p]]
    <2>2. /\ pos' = [pos EXCEPT ![p] = @ + 1]
          /\ snap' = [snap EXCEPT ![p][k] = control[k]]
          /\ carried' = [carried EXCEPT ![k] = @ \cup causes[k]]
          /\ causes' = [causes EXCEPT ![k] = {}]
          /\ UNCHANGED <<pc, polledAt, base, presetter, mirror, ledger, lastTool, alarms,
                         control, touching, latched, edits, clock, lastCycle, reset>>
      BY <1>7 DEF ReadItem, dbVars, controlVars
    <2>3. control[k] \in Held /\ causes[k] \in SUBSET Who /\ carried[k] \in SUBSET Who
      BY <2>1 DEF TypeOK, Held
    <2>4. snap' \in [Poller -> [Key -> Held]]
      BY <2>1, <2>2, <2>3 DEF TypeOK
    <2>5. pos' \in [Poller -> Nat \ {0}]
      BY <2>2 DEF TypeOK
    <2>6. causes' \in [Key -> SUBSET Who] /\ carried' \in [Key -> SUBSET Who]
      BY <2>1, <2>2, <2>3 DEF TypeOK
    <2>7. QED
      BY <2>2, <2>4, <2>5, <2>6 DEF TypeOK
  <1>8. ASSUME NEW p \in Poller, SkipItem(p) PROVE TypeOK'
    BY <1>8 DEF TypeOK, SkipItem, dbVars, controlVars
  <1>9. ASSUME NEW p \in Poller, Load(p) PROVE TypeOK'
    <2>1. (SkipChangedNow(p) \/ SkipChangedLastCycle) \in BOOLEAN
      OBVIOUS
    <2>2. presetter' \in [Poller -> BOOLEAN]
      BY <2>1, <1>9, Zenon DEF TypeOK, Load
    <2>3. base' \in [Poller -> [Key -> Held]]
      BY <1>9 DEF TypeOK, Load, Row
    <2>4. QED
      BY <2>2, <2>3, <1>9 DEF TypeOK, Load, dbVars, controlVars
  <1>10. ASSUME NEW p \in Poller, Abandon(p) PROVE TypeOK'
    BY <1>10, EndCycleTypes DEF TypeOK, Abandon, dbVars, controlVars
  <1>11. QED
    BY <1>1, <1>2, <1>3, <1>4, <1>5, <1>6, <1>7, <1>8, <1>9, <1>10, CommitTypes
    DEF Next, PollerStep, ControlStep

-----------------------------------------------------------------------------
(* The ledger.                                                              *)

\* Appending the change that was made keeps the replay of the log in step.
LEMMA AppendReplays ==
  ASSUME NEW log \in Seq(Entry), NEW row \in Row, Replays(log, row),
         NEW e \in Entry, NEW new \in Row,
         e.before = row.val, e.before # e.after, row.polled < e.at,
         new.val = e.after, new.changed = e.at, new.polled = e.at
  PROVE  Replays(Append(log, e), new)
  <1>1. Len(Append(log, e)) = Len(log) + 1 /\ Append(log, e)[Len(log) + 1] = e
    OBVIOUS
  <1>2. \A i \in 1..Len(log) : Append(log, e)[i] = log[i]
    OBVIOUS
  <1>3. Len(log) \in Nat /\ (log = <<>> <=> Len(log) = 0)
    OBVIOUS
  <1>4. e.before = IF log = <<>> THEN Nothing ELSE log[Len(log)].after
    BY DEF Replays
  <1>5. log # <<>> => log[Len(log)].at < e.at
    BY DEF Replays, Row, Entry
  <1>6. ASSUME NEW i \in 1..Len(Append(log, e))
        PROVE  /\ Append(log, e)[i].before =
                    IF i = 1 THEN Nothing ELSE Append(log, e)[i - 1].after
               /\ Append(log, e)[i].before # Append(log, e)[i].after
               /\ i > 1 => Append(log, e)[i - 1].at < Append(log, e)[i].at
    <2>1. CASE i \in 1..Len(log)
      BY <2>1, <1>2, <1>3 DEF Replays
    <2>2. CASE i = Len(log) + 1
      BY <2>2, <1>1, <1>2, <1>3, <1>4, <1>5
    <2>3. QED
      BY <2>1, <2>2, <1>1, <1>3
  <1>7. QED
    BY <1>1, <1>3, <1>6 DEF Replays, Row

\* A commit logs exactly the changes it makes to the rows.
LEMMA CommitReplays ==
  ASSUME PersistAssumption, IInv, NEW p \in Poller, Commit(p)
  PROVE  LedgerReplays'
  <1> SUFFICES ASSUME NEW k \in Key \ Status
               PROVE  Replays(ledger'[k], mirror'[k])
    BY DEF LedgerReplays, Replays
  <1>1. /\ base[p][k] = mirror[k].val /\ mirror[k].polled < polledAt[p]
        /\ polledAt[p] \in Nat /\ mirror[k] \in Row /\ snap[p][k] \in Held
        /\ ledger[k] \in Seq(Entry) /\ Replays(ledger[k], mirror[k])
    <2>1. pc[p] = "loaded"
      BY DEF Commit
    <2>2. base[p][k] = mirror[k].val /\ mirror[k].polled < polledAt[p]
      BY <2>1 DEF IInv, InCycle
    <2>3. /\ polledAt[p] \in Nat /\ mirror[k] \in Row /\ snap[p][k] \in Held
          /\ ledger[k] \in Seq(Entry)
      BY DEF IInv, TypeOK
    <2>4. Replays(ledger[k], mirror[k])
      BY DEF IInv, LedgerReplays
    <2>5. QED
      BY <2>2, <2>3, <2>4
  <1>2. ledger'[k] \in Seq(Entry) /\ mirror'[k] \in Row
    BY CommitTypes DEF IInv, TypeOK
  <1>3. CASE k \notin Observed(p)
    BY <1>1, <1>3 DEF Commit, Changed
  <1>4. CASE k \in Observed(p) /\ snap[p][k] = base[p][k]
    <2>1. ledger'[k] = ledger[k] /\ mirror'[k] = [mirror[k] EXCEPT !.polled = polledAt[p]]
      BY <1>1, <1>4 DEF Commit, Changed, Upserted, Row
    <2>2. QED
      BY <2>1, <1>1 DEF Replays, Row
  <1>5. CASE k \in Changed(p)
    <2>1. mirror'[k] = Upserted(p, k) /\ ledger'[k] = Append(ledger[k], AuditOf(p, k))
      BY <1>5 DEF Commit, Changed
    <2>2. AuditOf(p, k) \in Entry
      <3>1. base[p][k] \in Held /\ snap[p][k] \in Value /\ carried[k] \in SUBSET Who
            /\ lastCycle \in Nat
        BY <1>1, <1>5 DEF IInv, TypeOK, Changed, Observed, Held
      <3>2. QED
        BY <3>1, <1>1 DEF AuditOf, Entry, Source
    <2>3. /\ AuditOf(p, k).before = base[p][k] /\ AuditOf(p, k).after = snap[p][k]
          /\ AuditOf(p, k).at = polledAt[p]
          /\ Upserted(p, k).val = snap[p][k] /\ Upserted(p, k).polled = polledAt[p]
          /\ Upserted(p, k).changed = polledAt[p] /\ snap[p][k] # base[p][k]
      BY <1>1, <1>5 DEF AuditOf, Upserted, Changed
    <2>4. QED
      BY <1>1, <1>2, <2>1, <2>2, <2>3, AppendReplays
  <1>6. QED
    BY <1>3, <1>4, <1>5 DEF Changed

\* Every step of a single poller keeps the invariant.
LEMMA NextIInv ==
  ASSUME PersistAssumption, OnePoller, IInv, [Next]_vars
  PROVE  IInv'
  <1>1. TypeOK'
    BY NextTypeOK DEF IInv
  <1>2. CASE UNCHANGED <<pc, polledAt, base, clock, mirror, ledger>>
    BY <1>1, <1>2 DEF IInv, InCycle, NotYetPolled, LedgerReplays
  <1>3. ASSUME NEW p \in Poller, BeginSweep(p) PROVE IInv'
    <2>1. /\ clock' = clock + 1 /\ clock \in Nat
          /\ UNCHANGED <<mirror, ledger, base>>
          /\ pc' = [pc EXCEPT ![p] = "sweep"]
          /\ polledAt' = [polledAt EXCEPT ![p] = clock + 1]
      BY <1>3 DEF BeginSweep, dbVars, IInv, TypeOK
    <2>2. \A k \in Key : mirror[k].polled \in Nat /\ mirror[k].polled <= clock
      BY DEF IInv, NotYetPolled, TypeOK, Row
    <2>3. InCycle'
      BY <2>1, <2>2 DEF InCycle, OnePoller, IInv, TypeOK
    <2>4. NotYetPolled' /\ LedgerReplays'
      BY <2>1, <2>2 DEF NotYetPolled, LedgerReplays, IInv
    <2>5. QED
      BY <1>1, <2>3, <2>4 DEF IInv
  <1>4. ASSUME NEW p \in Poller, Load(p) PROVE IInv'
    <2>1. /\ UNCHANGED <<mirror, ledger, polledAt, clock>>
          /\ pc' = [pc EXCEPT ![p] = "loaded"]
          /\ base' = [base EXCEPT ![p] = [k \in Key |-> mirror[k].val]]
          /\ pc[p] # "idle"
      BY <1>4 DEF Load, dbVars
    <2>2. InCycle'
      BY <2>1 DEF InCycle, OnePoller, IInv, TypeOK
    <2>3. QED
      BY <1>1, <2>1, <2>2 DEF NotYetPolled, LedgerReplays, IInv
  <1>5. ASSUME NEW p \in Poller, Commit(p) PROVE IInv'
    <2>1. LedgerReplays'
      BY <1>5, CommitReplays
    <2>2. pc' = [pc EXCEPT ![p] = "idle"] /\ clock' = clock /\ polledAt[p] = clock
      BY <1>5 DEF Commit, EndCycle, InCycle, IInv
    <2>3. InCycle'
      BY <2>2 DEF InCycle, OnePoller, IInv, TypeOK
    <2>4. NotYetPolled'
      BY <1>5, <2>2 DEF Commit, Upserted, NotYetPolled, IInv, TypeOK
    <2>5. QED
      BY <1>1, <2>1, <2>3, <2>4 DEF IInv
  <1>6. ASSUME NEW p \in Poller, Abandon(p) PROVE IInv'
    <2>1. /\ pc' = [pc EXCEPT ![p] = "idle"]
          /\ UNCHANGED <<clock, mirror, ledger>>
      BY <1>6 DEF Abandon, EndCycle, dbVars
    <2>2. InCycle'
      BY <2>1 DEF InCycle, OnePoller, IInv, TypeOK
    <2>3. QED
      BY <1>1, <2>1, <2>2 DEF IInv, NotYetPolled, LedgerReplays
  <1>7. ASSUME NEW p \in Poller, ReadItem(p) \/ SkipItem(p) PROVE IInv'
    BY <1>2, <1>7 DEF ReadItem, SkipItem, dbVars
  <1>8. ASSUME ControlStep PROVE IInv'
    BY <1>2, <1>8 DEF ControlStep, Edit, Touch, PresetWrite, PmcReset, pollerVars, dbVars
  <1>9. CASE UNCHANGED vars
    BY <1>2, <1>9 DEF vars, pollerVars, dbVars
  <1>10. QED
    BY <1>3, <1>4, <1>5, <1>6, <1>7, <1>8, <1>9 DEF Next, PollerStep

\* Init satisfies the invariant.
LEMMA InitIInv == ASSUME PersistAssumption PROVE Init => IInv
  <1> SUFFICES ASSUME Init PROVE IInv
    OBVIOUS
  <1>1. TypeOK
    BY InitTypeOK
  <1>2. LedgerReplays
    BY DEF Init, LedgerReplays, Replays, NoRow
  <1>3. InCycle /\ NotYetPolled
    BY DEF Init, InCycle, NotYetPolled, NoRow
  <1>4. QED
    BY <1>1, <1>2, <1>3 DEF IInv

\* With one poller the invariant always holds.
LEMMA SpecIInv == ASSUME OnePoller PROVE Spec => []IInv
  <1>1. Init => IInv
    BY PersistAssumption, InitIInv
  <1>2. IInv /\ [Next]_vars => IInv'
    BY PersistAssumption, NextIInv
  <1>3. QED
    BY <1>1, <1>2, PTL DEF Spec

(* Types, and a T word memory that never holds a cancel, with any number    *)
(* of pollers.                                                              *)
THEOREM TypeCorrect == Spec => []TypeOK
  <1>1. Init => TypeOK
    BY PersistAssumption, InitTypeOK
  <1>2. TypeOK /\ [Next]_vars => TypeOK'
    BY PersistAssumption, NextTypeOK
  <1>3. QED
    BY <1>1, <1>2, PTL DEF Spec

(* The audit log of a machine with one poller replays to its mirror.        *)
THEOREM LedgerAlwaysReplays == ASSUME OnePoller PROVE Spec => []LedgerReplays
  <1>1. IInv => LedgerReplays
    BY DEF IInv
  <1>2. QED
    BY <1>1, SpecIInv, PTL

-----------------------------------------------------------------------------
(* The refinement.                                                          *)

\* The entries a commit adds for a key are those of its change, if any.
LEMMA BookedAppend ==
  ASSUME NEW log \in Seq(Entry), NEW e \in Entry
  PROVE  Booked(Append(log, e)) =
           Append(Booked(log), [before |-> e.before, after |-> e.after])
  <1> DEFINE b == [before |-> e.before, after |-> e.after]
  <1>1. Len(log) \in Nat /\ Len(Append(log, e)) = Len(log) + 1
    OBVIOUS
  <1>2. /\ Append(log, e)[Len(log) + 1] = e
        /\ \A i \in 1..Len(log) : Append(log, e)[i] = log[i]
    OBVIOUS
  <1>3. /\ DOMAIN Booked(log) = 1..Len(log) /\ Len(Booked(log)) = Len(log)
    BY <1>1 DEF Booked
  <1>4. Append(Booked(log), b) =
          [i \in 1..(Len(log) + 1) |-> IF i \in 1..Len(log) THEN Booked(log)[i] ELSE b]
    BY <1>1, <1>3
  <1>5. QED
    BY <1>1, <1>2, <1>4 DEF Booked

\* A commit is one observation of the abstract mirror.
LEMMA CommitObserves ==
  ASSUME PersistAssumption, IInv, NEW p \in Poller, Commit(p)
  PROVE  Abstract!Observe(snap[p])
  <1> DEFINE row == [k \in Key |-> mirror[k].val]
             moved == {k \in Key : snap[p][k] \notin {Nothing, row[k]}}
  <1>1. \A k \in Key : base[p][k] = mirror[k].val /\ ledger[k] \in Seq(Entry)
    BY DEF IInv, InCycle, Commit, TypeOK
  <1>2. moved = Changed(p)
    BY <1>1 DEF Changed, Observed
  <1>3. [k \in Key |-> mirror[k].val]' =
        [k \in Key |-> IF snap[p][k] = Nothing THEN row[k] ELSE snap[p][k]]
    BY DEF Commit, Upserted, Observed, IInv, TypeOK
  <1>4. ASSUME NEW k \in Changed(p)
        PROVE  Booked(Append(ledger[k], AuditOf(p, k))) =
               Append(Booked(ledger[k]), [before |-> row[k], after |-> snap[p][k]])
    <2>1. k \in Key /\ base[p][k] \in Held /\ snap[p][k] \in Value
          /\ polledAt[p] \in Nat /\ carried[k] \in SUBSET Who /\ lastCycle \in Nat
      BY DEF IInv, TypeOK, Changed, Observed, Held
    <2>2. AuditOf(p, k) \in Entry
      BY <2>1 DEF AuditOf, Entry, Source
    <2>3. AuditOf(p, k).before = row[k] /\ AuditOf(p, k).after = snap[p][k]
      BY <2>1, <1>1 DEF AuditOf
    <2>4. QED
      BY <1>1, <2>1, <2>2, <2>3, BookedAppend
  <1>5. \A k \in Key : ledger'[k] = IF k \in Changed(p) \ Status
                         THEN Append(ledger[k], AuditOf(p, k)) ELSE ledger[k]
    BY DEF Commit
  <1>6. [k \in Key |-> Booked(ledger[k])]' =
        [k \in Key |-> IF k \in moved \ Status
           THEN Append(Booked(ledger[k]), [before |-> row[k], after |-> snap[p][k]])
           ELSE Booked(ledger[k])]
    BY <1>2, <1>4, <1>5
  <1>7. QED
    BY <1>3, <1>6 DEF Abstract!Observe, Abstract!Moved

(* A cycle of one poller is one atomic partial observation: the whole       *)
(* specification implements AuditedMirror.                                  *)
THEOREM CyclesAreAtomic ==
  ASSUME OnePoller PROVE Spec => ImplementsAuditedMirror
  <1>1. Init => Abstract!Init
    BY DEF Init, Abstract!Init, NoRow, Booked
  <1>2. IInv /\ [Next]_vars =>
        [Abstract!Next]_<<[k \in Key |-> mirror[k].val],
                          [k \in Key |-> Booked(ledger[k])]>>
    <2> SUFFICES ASSUME IInv, [Next]_vars
                 PROVE  \/ Abstract!Next
                        \/ UNCHANGED <<mirror, ledger>>
      OBVIOUS
    <2>1. ASSUME NEW p \in Poller, Commit(p) PROVE Abstract!Next
      <3>1. snap[p] \in [Key -> Value \cup {Nothing}]
        BY DEF IInv, TypeOK, Held
      <3>2. Abstract!Observe(snap[p])
        BY <2>1, PersistAssumption, CommitObserves
      <3>3. QED
        BY <3>1, <3>2 DEF Abstract!Next, Abstract!Observe, Abstract!Moved
    <2>2. ASSUME NEW p \in Poller, PollerStep(p), ~Commit(p)
          PROVE  UNCHANGED <<mirror, ledger>>
      BY <2>2 DEF PollerStep, BeginSweep, ReadItem, SkipItem, Load, Abandon, dbVars
    <2>3. ASSUME ControlStep PROVE UNCHANGED <<mirror, ledger>>
      BY <2>3 DEF ControlStep, Edit, Touch, PresetWrite, PmcReset, dbVars
    <2>4. CASE UNCHANGED vars
      BY <2>4 DEF vars, dbVars
    <2>5. QED
      BY <2>1, <2>2, <2>3, <2>4 DEF Next, PollerStep
  <1>3. QED
    BY <1>1, <1>2, SpecIInv, PTL DEF Spec, Abstract!Spec, ImplementsAuditedMirror

-----------------------------------------------------------------------------
(* The T word memory.                                                       *)

\* A commit moves the memory to the word of the status row, or keeps it.
LEMMA CommitTool ==
  ASSUME PersistAssumption, NEW p \in Poller, Commit(p)
  PROVE  /\ lastTool' # lastTool => \E s \in Status : mirror'[s].val = lastTool'
         /\ (\A s \in Status : mirror[s].val \in Cancel \cup {Nothing, lastTool})
            => (\A s \in Status : mirror'[s].val \in Cancel \cup {Nothing, lastTool'})
  <1> DEFINE words == {snap[p][s] : s \in Status \cap Observed(p)} \ Cancel
  <1>1. \A s \in Status : s \in Key
    BY DEF PersistAssumption
  <1>2. \A s \in Status \cap Observed(p) : mirror'[s].val = snap[p][s]
    BY <1>1 DEF Commit, Upserted
  <1>3. \A s \in Status \ Observed(p) : mirror'[s] = mirror[s]
    BY <1>1 DEF Commit
  <1>4. lastTool' = IF words = {} THEN lastTool ELSE CHOOSE w \in words : TRUE
    BY DEF Commit, ToolWord
  <1>5. words # {} => lastTool' \in words
    <2> HIDE DEF words
    <2> QED
      BY <1>4
  <1>6. ASSUME lastTool' # lastTool
        PROVE  \E s \in Status : mirror'[s].val = lastTool'
    <2>1. lastTool' \in words
      BY <1>4, <1>5, <1>6
    <2>2. PICK s \in Status \cap Observed(p) : lastTool' = snap[p][s]
      BY <2>1
    <2>3. QED
      BY <2>2, <1>2
  <1>7. ASSUME \A s \in Status : mirror[s].val \in Cancel \cup {Nothing, lastTool},
               NEW s \in Status
        PROVE  mirror'[s].val \in Cancel \cup {Nothing, lastTool'}
    <2>1. CASE s \in Observed(p)
      <3>1. words \subseteq {snap[p][s]} /\ (snap[p][s] \notin Cancel => words # {})
        BY <2>1 DEF PersistAssumption
      <3>2. QED
        BY <3>1, <2>1, <1>2, <1>5
    <2>2. CASE s \notin Observed(p)
      <3>1. words = {}
        BY <2>2 DEF PersistAssumption
      <3>2. QED
        BY <3>1, <2>2, <1>3, <1>4, <1>7
    <2>3. QED
      BY <2>1, <2>2
  <1>8. QED
    BY <1>6, <1>7

\* Nothing but a commit touches the memory or the mirror.
LEMMA OnlyCommitsWrite ==
  ASSUME [Next]_vars, \A p \in Poller : ~Commit(p)
  PROVE  UNCHANGED dbVars
  <1>1. ASSUME NEW p \in Poller, PollerStep(p) PROVE UNCHANGED dbVars
    BY <1>1 DEF PollerStep, BeginSweep, ReadItem, SkipItem, Load, Abandon
  <1>2. CASE ControlStep
    BY <1>2 DEF ControlStep, Edit, Touch, PresetWrite, PmcReset
  <1>3. CASE UNCHANGED vars
    BY <1>3 DEF vars
  <1>4. QED
    BY <1>1, <1>2, <1>3 DEF Next

(* The memory of the T word moves only to a real word of the status row,    *)
(* and that row never shows a word it has missed, with any number of        *)
(* pollers.                                                                 *)
THEOREM ToolMemoryKept == Spec => ToolMemory
  <1> DEFINE Moves == lastTool' # lastTool =>
                        \E s \in Status : mirror'[s].val = lastTool'
             Shown == \A s \in Status : mirror[s].val \in Cancel \cup {Nothing, lastTool}
  <1>1. Init => Shown
    BY PersistAssumption DEF Init, NoRow, PersistAssumption
  <1>2. [Next]_vars => Moves /\ (Shown => Shown')
    <2> SUFFICES ASSUME [Next]_vars PROVE Moves /\ (Shown => Shown')
      OBVIOUS
    <2>1. CASE \A p \in Poller : ~Commit(p)
      BY <2>1, OnlyCommitsWrite DEF dbVars
    <2>2. ASSUME NEW p \in Poller, Commit(p) PROVE Moves /\ (Shown => Shown')
      BY <2>2, PersistAssumption, CommitTool
    <2>3. QED
      BY <2>1, <2>2
  <1> HIDE DEF Moves, Shown
  <1>3. Spec => [][Moves]_vars /\ []Shown
    BY <1>1, <1>2, PTL DEF Spec
  <1>4. QED
    BY <1>3 DEF Moves, Shown, ToolMemory

-----------------------------------------------------------------------------
(* The sweep.                                                               *)

(* A sweep has read what it has passed, and no more.                        *)
Swept ==
  \A p \in Poller :
    /\ \A i \in 1..Len(Order) :
         i < pos[p] /\ Order[i] \notin Unreliable => snap[p][Order[i]] # Nothing
    /\ \A k \in Key :
         snap[p][k] # Nothing => \E i \in 1..Len(Order) : i < pos[p] /\ Order[i] = k
    /\ pc[p] = "idle" => pos[p] = 1
    /\ pc[p] = "loaded" => pos[p] > Len(Order)

\* Every step keeps it.
LEMMA NextSwept ==
  ASSUME PersistAssumption, TypeOK, Swept, [Next]_vars
  PROVE  Swept'
  <1>1. CASE UNCHANGED <<pc, pos, snap>>
    <2>1. pc' = pc /\ pos' = pos /\ snap' = snap
      BY <1>1
    <2>2. ASSUME NEW p \in Poller
          PROVE  /\ \A i \in 1..Len(Order) :
                      i < pos'[p] /\ Order[i] \notin Unreliable => snap'[p][Order[i]] # Nothing
                 /\ \A k \in Key : snap'[p][k] # Nothing =>
                      \E i \in 1..Len(Order) : i < pos'[p] /\ Order[i] = k
                 /\ pc'[p] = "idle" => pos'[p] = 1
                 /\ pc'[p] = "loaded" => pos'[p] > Len(Order)
      BY <2>1 DEF Swept
    <2>3. QED
      BY <2>2 DEF Swept
  <1> USE DEF TypeOK
  <1>2. ASSUME NEW p \in Poller, BeginSweep(p) PROVE Swept'
    BY <1>2 DEF BeginSweep, Swept
  <1>3. ASSUME NEW p \in Poller, ReadItem(p) PROVE Swept'
    <2> DEFINE k == Order[pos[p]]
    <2>1. k \in Key /\ control[k] \in Value /\ control[k] # Nothing
          /\ pos[p] \in Nat \ {0} /\ pos[p] <= Len(Order)
      BY <1>3 DEF ReadItem, PersistAssumption
    <2>2. /\ snap' = [snap EXCEPT ![p][k] = control[k]]
          /\ pos' = [pos EXCEPT ![p] = @ + 1] /\ pc' = pc /\ pc[p] = "sweep"
      BY <1>3 DEF ReadItem
    <2>3. ASSUME NEW q \in Poller \ {p} PROVE snap'[q] = snap[q] /\ pos'[q] = pos[q]
      BY <2>2, <2>3
    <2>4. /\ pos'[p] = pos[p] + 1 /\ snap'[p] = [snap[p] EXCEPT ![k] = control[k]]
      BY <2>2
    <2>5. Len(Order) \in Nat /\ \A i \in 1..Len(Order) : Order[i] \in Key
      BY DEF PersistAssumption
    <2>6. \A j \in Key : snap'[p][j] = IF j = k THEN control[k] ELSE snap[p][j]
      BY <2>4, <2>1
    <2>7. ASSUME NEW i \in 1..Len(Order), i < pos'[p], Order[i] \notin Unreliable
          PROVE  snap'[p][Order[i]] # Nothing
      BY <2>7, <2>1, <2>4, <2>5, <2>6 DEF Swept
    <2>8. ASSUME NEW j \in Key, snap'[p][j] # Nothing
          PROVE  \E i \in 1..Len(Order) : i < pos'[p] /\ Order[i] = j
      <3>1. CASE j = k
        BY <3>1, <2>1, <2>4, <2>5
      <3>2. CASE j # k
        <4>1. PICK i \in 1..Len(Order) : i < pos[p] /\ Order[i] = j
          BY <3>2, <2>6, <2>8 DEF Swept
        <4>2. QED
          BY <4>1, <2>1, <2>4, <2>5
      <3>3. QED
        BY <3>1, <3>2
    <2>9. ASSUME NEW q \in Poller
          PROVE  /\ \A i \in 1..Len(Order) :
                      i < pos'[q] /\ Order[i] \notin Unreliable => snap'[q][Order[i]] # Nothing
                 /\ \A j \in Key : snap'[q][j] # Nothing =>
                      \E i \in 1..Len(Order) : i < pos'[q] /\ Order[i] = j
                 /\ pc'[q] = "idle" => pos'[q] = 1
                 /\ pc'[q] = "loaded" => pos'[q] > Len(Order)
      <3>1. CASE q = p
        BY <3>1, <2>2, <2>7, <2>8
      <3>2. CASE q # p
        <4>1. snap'[q] = snap[q] /\ pos'[q] = pos[q] /\ pc'[q] = pc[q]
          BY <3>2, <2>2, <2>3
        <4>2. QED
          BY <4>1 DEF Swept
      <3>3. QED
        BY <3>1, <3>2
    <2>10. QED
      BY <2>9 DEF Swept
  <1>4. ASSUME NEW p \in Poller, SkipItem(p) PROVE Swept'
    <2>1. /\ snap' = snap /\ pos' = [pos EXCEPT ![p] = @ + 1] /\ pc' = pc
          /\ pc[p] = "sweep" /\ Order[pos[p]] \in Unreliable /\ pos[p] \in Nat
          /\ Len(Order) \in Nat
      BY <1>4 DEF SkipItem, PersistAssumption
    <2>2. QED
      BY <2>1 DEF Swept
  <1>5. ASSUME NEW p \in Poller, Load(p) PROVE Swept'
    BY <1>5 DEF Load, Swept
  <1>6. ASSUME NEW p \in Poller, EndCycle(p) PROVE Swept'
    <2>1. /\ pc' = [pc EXCEPT ![p] = "idle"] /\ pos' = [pos EXCEPT ![p] = 1]
          /\ snap' = [snap EXCEPT ![p] = NotRead]
      BY <1>6 DEF EndCycle
    <2>2. Len(Order) \in Nat
      BY DEF PersistAssumption
    <2>3. QED
      BY <2>1, <2>2 DEF Swept, NotRead
  <1>7. CASE ControlStep
    BY <1>1, <1>7 DEF ControlStep, Edit, Touch, PresetWrite, PmcReset, pollerVars
  <1>8. CASE UNCHANGED vars
    BY <1>1, <1>8 DEF vars, pollerVars
  <1>9. QED
    BY <1>2, <1>3, <1>4, <1>5, <1>6, <1>7, <1>8 DEF Next, PollerStep, Commit, Abandon

\* A poller that has begun no cycle has read nothing.
LEMMA IdleReadsNothing ==
  ASSUME PersistAssumption, TypeOK, Swept, NEW p \in Poller, pc[p] = "idle", NEW k \in Key
  PROVE  snap[p][k] = Nothing
  <1>1. pos[p] = 1 /\ Len(Order) \in Nat
    BY DEF Swept, PersistAssumption
  <1>2. QED
    BY <1>1 DEF Swept

\* A complete sweep has read what is in its order and cannot fail.
LEMMA CommitHasRead ==
  ASSUME PersistAssumption, TypeOK, Swept, NEW p \in Poller, pc[p] = "loaded",
         NEW i \in 1..Len(Order), Order[i] \notin Unreliable
  PROVE  Order[i] \in Observed(p)
  <1>1. Order[i] \in Key /\ Len(Order) \in Nat /\ pos[p] > Len(Order)
    BY DEF Swept, PersistAssumption
  <1>2. i < pos[p]
    BY <1>1 DEF TypeOK
  <1>3. QED
    BY <1>1, <1>2 DEF Swept, Observed

-----------------------------------------------------------------------------
(* The PMC reset.                                                           *)

(* The pots are read in every cycle.                                        *)
PotsRead ==
  \A k \in Pots : k \notin Unreliable /\ \E i \in 1..Len(Order) : Order[i] = k

(* The pots that a reset took and that the mirror still shows as they were. *)
Identified(x) == x \notin {Nothing, Empty, Own}
Unseen == {k \in reset.pots : Identified(mirror[k].val)}

(* From a reset to the second commit after it: the first commit has seen    *)
(* what was read after the reset, and the second sees the rest.             *)
ResetFollowed ==
  /\ \A k \in reset.pots : control[k] = Own
  /\ reset.cycles = 0 =>
       /\ Unseen = reset.pots
       /\ \A p \in Poller, k \in reset.pots :
            snap[p][k] = Own \/ snap[p][k] = Nothing \/ Identified(snap[p][k])
  /\ reset.cycles # 0 =>
       \A p \in Poller, k \in reset.pots : snap[p][k] \in {Nothing, Own}
  /\ reset.cycles = 1 /\ Cardinality(reset.pots) >= 2 * ReinitMin - 1 =>
       reset.alarm \/ Cardinality(Unseen) >= ReinitMin

RInv == IInv /\ Swept /\ ResetFollowed /\ ResetAlarmed

\* Of two sets that cover 2 * m - 1 elements one has m of them.
LEMMA OneHasEnough ==
  ASSUME NEW A, NEW B, IsFiniteSet(A), IsFiniteSet(B), NEW S \in SUBSET (A \cup B),
         NEW m \in Nat, Cardinality(S) >= 2 * m - 1
  PROVE  Cardinality(A) >= m \/ Cardinality(B) >= m
  <1>1. IsFiniteSet(A \cup B) /\ IsFiniteSet(A \cap B)
    BY FS_Union, FS_Intersection
  <1>2. IsFiniteSet(S) /\ Cardinality(S) <= Cardinality(A \cup B)
    BY <1>1, FS_Subset
  <1>3. Cardinality(A \cup B) = Cardinality(A) + Cardinality(B) - Cardinality(A \cap B)
    BY FS_Union
  <1>4. /\ Cardinality(A) \in Nat /\ Cardinality(B) \in Nat /\ Cardinality(S) \in Nat
        /\ Cardinality(A \cap B) \in Nat
    BY <1>1, <1>2, FS_CardinalityType
  <1>5. QED
    BY <1>2, <1>3, <1>4

\* What a commit sees of a reset.
LEMMA CommitSees ==
  ASSUME PersistAssumption, PotsRead, IsFiniteSet(Pots), IInv, Swept,
         NEW p \in Poller, Commit(p)
  PROVE  /\ \A k \in Pots : /\ k \in Observed(p) /\ base[p][k] = mirror[k].val
                            /\ mirror'[k].val = snap[p][k]
         /\ \A T \in SUBSET Reverted(p) :
              Cardinality(T) >= ReinitMin => ReinitSuspected(p)
  <1>1. ASSUME NEW k \in Pots
        PROVE  /\ k \in Observed(p) /\ base[p][k] = mirror[k].val
               /\ mirror'[k].val = snap[p][k]
    <2>1. k \in Key /\ pc[p] = "loaded"
      BY DEF PersistAssumption, Commit
    <2>2. PICK i \in 1..Len(Order) : Order[i] = k /\ k \notin Unreliable
      BY DEF PotsRead
    <2>3. k \in Observed(p)
      BY <2>1, <2>2, CommitHasRead DEF IInv
    <2>4. QED
      BY <2>1, <2>3 DEF IInv, InCycle, Commit, Upserted
  <1>2. ASSUME NEW T \in SUBSET Reverted(p), Cardinality(T) >= ReinitMin
        PROVE  ReinitSuspected(p)
    <2>1. IsFiniteSet(Reverted(p))
      <3>1. Reverted(p) \in SUBSET Pots
        BY DEF Reverted
      <3>2. QED
        BY <3>1, FS_Subset
    <2>2. IsFiniteSet(T) /\ Cardinality(T) <= Cardinality(Reverted(p))
      BY <2>1, FS_Subset
    <2>3. Cardinality(T) \in Nat /\ Cardinality(Reverted(p)) \in Nat /\ ReinitMin \in Nat
      BY <2>1, <2>2, FS_CardinalityType DEF PersistAssumption
    <2>4. QED
      BY <1>2, <2>2, <2>3 DEF ReinitSuspected
  <1>3. QED
    BY <1>1, <1>2

\* A commit follows the reset.
LEMMA CommitReset ==
  ASSUME PersistAssumption, OnePoller, PotsRead, IsFiniteSet(Pots), RInv,
         NEW p \in Poller, Commit(p)
  PROVE  ResetFollowed' /\ ResetAlarmed'
  <1> DEFINE R == reset.pots
             Seen == {k \in R : snap[p][k] = Own}
             Rest == {k \in R : Identified(snap[p][k])}
  <1>1. /\ R \subseteq Pots /\ reset.cycles \in Nat /\ reset.alarm \in BOOLEAN
        /\ \A k \in Pots : k \in Key
    BY DEF RInv, IInv, TypeOK, PersistAssumption
  <1>2. /\ reset'.pots = R
        /\ reset'.cycles = IF reset.cycles < 2 THEN reset.cycles + 1 ELSE reset.cycles
        /\ reset'.alarm <=> reset.alarm \/ ReinitSuspected(p)
    <2>1. reset = [pots |-> R, cycles |-> reset.cycles, alarm |-> reset.alarm]
      BY DEF RInv, IInv, TypeOK
    <2>2. QED
      BY <2>1, Zenon DEF Commit
  <1>3. \A k \in R : control'[k] = Own
    BY DEF RInv, ResetFollowed, Commit, controlVars
  <1>4. \A q \in Poller, k \in R : snap'[q][k] = Nothing
    BY <1>1 DEF OnePoller, Commit, EndCycle, NotRead, RInv, IInv, TypeOK
  <1>5. \A k \in R : /\ k \in Observed(p) /\ base[p][k] = mirror[k].val
                     /\ mirror'[k].val = snap[p][k] /\ snap[p][k] # Nothing
    BY <1>1, CommitSees DEF RInv, Observed
  <1>6. Unseen' = Rest
    BY <1>2, <1>5 DEF Unseen, Identified
  <1>7. IsFiniteSet(R) /\ IsFiniteSet(Seen) /\ IsFiniteSet(Rest) /\ ReinitMin \in Nat
    <2>1. IsFiniteSet(R)
      BY <1>1, FS_Subset
    <2>2. QED
      BY <2>1, FS_Subset DEF PersistAssumption
  <1>8. \A T \in SUBSET Reverted(p) :
          Cardinality(T) >= ReinitMin => ReinitSuspected(p)
    BY CommitSees DEF RInv
  <1>9. reset.cycles = 0 /\ Cardinality(R) >= 2 * ReinitMin - 1 =>
          reset'.alarm \/ Cardinality(Rest) >= ReinitMin
    <2> SUFFICES ASSUME reset.cycles = 0, Cardinality(R) >= 2 * ReinitMin - 1
                 PROVE  reset'.alarm \/ Cardinality(Rest) >= ReinitMin
      OBVIOUS
    <2>1. \A k \in R : Identified(mirror[k].val)
                       /\ (snap[p][k] = Own \/ Identified(snap[p][k]))
      BY <1>5 DEF RInv, ResetFollowed, Unseen
    <2>2. Seen \in SUBSET Reverted(p)
      BY <1>1, <1>5, <2>1 DEF Reverted, Identified
    <2>3. R \in SUBSET (Seen \cup Rest)
      BY <2>1
    <2>4. Cardinality(Seen) >= ReinitMin \/ Cardinality(Rest) >= ReinitMin
      <3> HIDE DEF R, Seen, Rest
      <3> QED
        BY <1>7, <2>3, OneHasEnough
    <2>5. QED
      BY <1>2, <1>8, <2>2, <2>4
  <1>10. reset.cycles = 1 /\ Cardinality(R) >= 2 * ReinitMin - 1 => reset'.alarm
    <2> SUFFICES ASSUME reset.cycles = 1, Cardinality(R) >= 2 * ReinitMin - 1,
                        ~reset.alarm
                 PROVE  reset'.alarm
      BY <1>2
    <2>1. Cardinality(Unseen) >= ReinitMin
      BY DEF RInv, ResetFollowed
    <2>2. \A k \in R : snap[p][k] = Own
      BY <1>5 DEF RInv, ResetFollowed
    <2>3. Unseen \in SUBSET Reverted(p)
      BY <1>1, <1>5, <2>2 DEF Reverted, Unseen, Identified
    <2>4. QED
      BY <1>2, <1>8, <2>1, <2>3
  <1>11. ResetFollowed'
    <2>1. reset'.cycles # 0
      BY <1>1, <1>2
    <2>2. reset'.cycles = 1 => reset.cycles = 0
      BY <1>1, <1>2
    <2>3. reset'.cycles = 1 /\ Cardinality(reset'.pots) >= 2 * ReinitMin - 1 =>
            reset'.alarm \/ Cardinality(Unseen') >= ReinitMin
      <3> HIDE DEF Rest, R
      <3> QED
        BY <1>2, <1>6, <1>9, <2>2
    <2>4. QED
      BY <1>2, <1>3, <1>4, <2>1, <2>3 DEF ResetFollowed
  <1>12. ResetAlarmed'
    <2>1. reset'.cycles >= 2 => reset.cycles = 1 \/ reset.cycles >= 2
      BY <1>1, <1>2
    <2>2. reset.cycles >= 2 /\ Cardinality(R) >= 2 * ReinitMin - 1 => reset.alarm
      BY DEF RInv, ResetAlarmed
    <2>3. QED
      BY <1>2, <1>10, <2>1, <2>2 DEF ResetAlarmed
  <1>13. QED
    BY <1>11, <1>12

\* Every step keeps the invariant.
LEMMA NextReset ==
  ASSUME PersistAssumption, OnePoller, PotsRead, IsFiniteSet(Pots), RInv, [Next]_vars
  PROVE  RInv'
  <1>1. IInv' /\ Swept'
    BY NextIInv, NextSwept DEF RInv, IInv
  <1>2. /\ reset.pots \subseteq Pots /\ reset.cycles \in Nat
        /\ \A k \in Pots : k \in Key /\ k \notin Geom /\ k \notin Skip
    BY DEF RInv, IInv, TypeOK, PersistAssumption
  <1>3. ASSUME UNCHANGED <<mirror, snap, reset>>, \A k \in Pots : control'[k] = control[k]
        PROVE  ResetFollowed' /\ ResetAlarmed'
    <2>1. Unseen' = Unseen
      BY <1>3 DEF Unseen, Identified
    <2>2. QED
      BY <1>2, <1>3, <2>1 DEF RInv, ResetFollowed, ResetAlarmed
  <1>4. ASSUME UNCHANGED <<mirror, control, reset>>,
               \A q \in Poller, k \in reset.pots : snap'[q][k] \in {Nothing, Own, snap[q][k]}
        PROVE  ResetFollowed' /\ ResetAlarmed'
    <2>1. Unseen' = Unseen
      BY <1>4 DEF Unseen, Identified
    <2>2. QED
      BY <1>4, <2>1 DEF RInv, ResetFollowed, ResetAlarmed, Identified
  <1>5. ASSUME reset' = NoReset PROVE ResetFollowed' /\ ResetAlarmed'
    BY <1>5 DEF NoReset, ResetFollowed, ResetAlarmed, Unseen
  <1>6. ASSUME NEW k \in Key, NEW v \in Value, Edit(k, v)
        PROVE  ResetFollowed' /\ ResetAlarmed'
    <2>1. CASE k \in Pots
      BY <1>5, <1>6, <2>1 DEF Edit
    <2>2. CASE k \notin Pots
      <3>1. UNCHANGED <<mirror, snap, reset>> /\ control' = [control EXCEPT ![k] = v]
        BY <1>6, <2>2 DEF Edit, Change, pollerVars, dbVars
      <3>2. \A j \in Pots : control'[j] = control[j]
        BY <1>2, <2>2, <3>1 DEF RInv, IInv, TypeOK
      <3>3. QED
        BY <1>3, <3>1, <3>2
    <2>3. QED
      BY <2>1, <2>2
  <1>7. ASSUME NEW g \in Geom, NEW v \in Value, Touch(g, v)
        PROVE  ResetFollowed' /\ ResetAlarmed'
    BY <1>2, <1>3, <1>7 DEF Touch, pollerVars, dbVars
  <1>8. ASSUME NEW v \in Value, PresetWrite(v) PROVE ResetFollowed' /\ ResetAlarmed'
    <2>1. touching.reg \in Geom
      BY <1>8 DEF PresetWrite, RInv, IInv, TypeOK
    <2>2. UNCHANGED <<mirror, snap, reset>>
          /\ control' = [control EXCEPT ![touching.reg] = v]
      BY <1>8 DEF PresetWrite, Change, pollerVars, dbVars
    <2>3. \A j \in Pots : control'[j] = control[j]
      BY <1>2, <2>1, <2>2 DEF RInv, IInv, TypeOK
    <2>4. QED
      BY <1>3, <2>2, <2>3
  <1>9. ASSUME PmcReset PROVE ResetFollowed' /\ ResetAlarmed'
    <2>1. /\ control' = [k \in Key |-> IF k \in Pots THEN Own ELSE control[k]]
          /\ reset'.pots = {k \in Pots : Sightings(k) \cap {Nothing, Empty, Own} = {}}
          /\ reset'.cycles = 0 /\ UNCHANGED <<mirror, snap>>
      BY <1>9 DEF PmcReset, pollerVars, dbVars
    <2>2. \A k \in reset'.pots : Identified(mirror[k].val)
      BY <2>1 DEF Sightings, Identified
    <2>3. Unseen' = reset'.pots
      BY <2>1, <2>2 DEF Unseen, Identified
    <2>4. ASSUME NEW p \in Poller, NEW k \in reset'.pots
          PROVE  snap[p][k] = Nothing \/ Identified(snap[p][k])
      <3>1. CASE pc[p] = "idle"
        BY <1>2, <2>1, <3>1, IdleReadsNothing DEF RInv, IInv
      <3>2. CASE pc[p] # "idle"
        BY <2>1, <3>2 DEF Sightings, Identified
      <3>3. QED
        BY <3>1, <3>2
    <2>5. QED
      BY <1>2, <2>1, <2>3, <2>4 DEF ResetFollowed, ResetAlarmed
  <1>10. ASSUME NEW p \in Poller, ReadItem(p) PROVE ResetFollowed' /\ ResetAlarmed'
    <2>1. /\ snap' = [snap EXCEPT ![p][Order[pos[p]]] = control[Order[pos[p]]]]
          /\ UNCHANGED <<mirror, control, reset>>
      BY <1>10 DEF ReadItem, dbVars, controlVars
    <2>2. \A q \in Poller, k \in reset.pots : snap'[q][k] \in {Own, snap[q][k]}
      BY <1>2, <2>1 DEF RInv, IInv, TypeOK, ResetFollowed
    <2>3. QED
      BY <1>4, <2>1, <2>2
  <1>11. ASSUME NEW p \in Poller, Abandon(p) PROVE ResetFollowed' /\ ResetAlarmed'
    <2>1. snap' = [snap EXCEPT ![p] = NotRead] /\ UNCHANGED <<mirror, control, reset>>
      BY <1>11 DEF Abandon, EndCycle, dbVars, controlVars
    <2>2. \A q \in Poller, k \in reset.pots : snap'[q][k] \in {Nothing, snap[q][k]}
      BY <1>2, <2>1 DEF RInv, IInv, TypeOK, NotRead
    <2>3. QED
      BY <1>4, <2>1, <2>2
  <1>12. ASSUME NEW p \in Poller, BeginSweep(p) \/ SkipItem(p) \/ Load(p)
         PROVE  ResetFollowed' /\ ResetAlarmed'
    BY <1>3, <1>12 DEF BeginSweep, SkipItem, Load, dbVars, controlVars
  <1>13. ASSUME UNCHANGED vars PROVE ResetFollowed' /\ ResetAlarmed'
    BY <1>3, <1>13 DEF vars, pollerVars, dbVars, controlVars
  <1>14. ASSUME NEW p \in Poller, Commit(p) PROVE ResetFollowed' /\ ResetAlarmed'
    BY <1>14, CommitReset
  <1>15. ResetFollowed' /\ ResetAlarmed'
    BY <1>6, <1>7, <1>8, <1>9, <1>10, <1>11, <1>12, <1>13, <1>14
    DEF Next, PollerStep, ControlStep
  <1>16. QED
    BY <1>1, <1>15 DEF RInv

\* An empty database has nothing to follow.
LEMMA InitReset == ASSUME PersistAssumption PROVE Init => Swept /\ ResetFollowed /\ ResetAlarmed
  <1>1. Init => Swept
    BY DEF Init, Swept, NotRead, PersistAssumption
  <1>2. Init => ResetFollowed /\ ResetAlarmed
    BY DEF Init, ResetFollowed, ResetAlarmed, NoReset, Unseen
  <1>3. QED
    BY <1>1, <1>2

(* A PMC reset of enough identified pots raises the alarm within two        *)
(* persisted cycles, wherever in a sweep it falls: on a magazine of any     *)
(* size, with one poller and no pot whose read is left out.                 *)
THEOREM ResetAlwaysAlarmed ==
  ASSUME OnePoller, PotsRead, IsFiniteSet(Pots)
  PROVE  Spec => []ResetAlarmed
  <1>1. Init => RInv
    BY PersistAssumption, InitIInv, InitReset DEF RInv
  <1>2. RInv /\ [Next]_vars => RInv'
    BY PersistAssumption, NextReset
  <1>3. RInv => ResetAlarmed
    BY DEF RInv
  <1>4. QED
    BY <1>1, <1>2, <1>3, PTL DEF Spec

-----------------------------------------------------------------------------
(* The history: entries in the order of their times.                        *)

(* Entries are in the order of their times.                                 *)
InTime ==
  \A k \in Key \ Status : \A i, j \in 1..Len(ledger[k]) :
    i < j => ledger[k][i].at < ledger[k][j].at

\* What a commit adds is a well-formed entry, of the instant of its sweep.
LEMMA CommitAppends ==
  ASSUME PersistAssumption, TypeOK, NEW p \in Poller, Commit(p), NEW k \in Key
  PROVE  /\ k \in Changed(p) \ Status =>
              /\ AuditOf(p, k) \in Entry
              /\ ledger'[k] = Append(ledger[k], AuditOf(p, k))
              /\ Len(ledger'[k]) = Len(ledger[k]) + 1
              /\ ledger'[k][Len(ledger[k]) + 1] = AuditOf(p, k)
              /\ \A i \in 1..Len(ledger[k]) : ledger'[k][i] = ledger[k][i]
         /\ k \notin Changed(p) \ Status => ledger'[k] = ledger[k]
         /\ ledger[k] \in Seq(Entry) /\ Len(ledger[k]) \in Nat
  <1>1. ledger[k] \in Seq(Entry) /\ Len(ledger[k]) \in Nat
    BY DEF TypeOK
  <1>2. k \notin Changed(p) \ Status => ledger'[k] = ledger[k]
    BY DEF Commit
  <1>3. ASSUME k \in Changed(p) \ Status
        PROVE  /\ AuditOf(p, k) \in Entry
               /\ ledger'[k] = Append(ledger[k], AuditOf(p, k))
    <2>1. /\ base[p][k] \in Held /\ snap[p][k] \in Value /\ polledAt[p] \in Nat
          /\ carried[k] \in SUBSET Who /\ lastCycle \in Nat
      BY <1>3 DEF TypeOK, Changed, Observed, Held
    <2>2. AuditOf(p, k) \in Entry
      BY <2>1 DEF AuditOf, Entry, Source
    <2>3. QED
      BY <1>3, <2>2 DEF Commit
  <1>4. ASSUME NEW e \in Entry, NEW log \in Seq(Entry)
        PROVE  /\ Len(Append(log, e)) = Len(log) + 1
               /\ Append(log, e)[Len(log) + 1] = e
               /\ \A i \in 1..Len(log) : Append(log, e)[i] = log[i]
    OBVIOUS
  <1>5. QED
    BY <1>1, <1>2, <1>3, <1>4

\* A commit keeps the order: no row is younger than its sweep.
LEMMA CommitInTime ==
  ASSUME PersistAssumption, IInv, InTime, NEW p \in Poller, Commit(p)
  PROVE  InTime'
  <1> SUFFICES ASSUME NEW k \in Key \ Status, NEW i \in 1..Len(ledger'[k]),
                      NEW j \in 1..Len(ledger'[k]), i < j
               PROVE  ledger'[k][i].at < ledger'[k][j].at
    BY DEF InTime
  <1> DEFINE n == Len(ledger[k])
  <1>1. CASE k \notin Changed(p)
    BY <1>1, CommitAppends DEF IInv, InTime
  <1>2. CASE k \in Changed(p)
    <2>1. /\ n \in Nat /\ Len(ledger'[k]) = n + 1 /\ ledger[k] \in Seq(Entry)
          /\ ledger'[k][n + 1] = AuditOf(p, k) /\ AuditOf(p, k) \in Entry
          /\ \A m \in 1..n : ledger'[k][m] = ledger[k][m]
      BY <1>2, CommitAppends DEF IInv
    <2>2. CASE j \in 1..n
      <3>1. i \in 1..n
        BY <2>1, <2>2
      <3>2. ledger[k][i].at < ledger[k][j].at
        BY <2>2, <3>1 DEF InTime
      <3>3. ledger'[k][i] = ledger[k][i] /\ ledger'[k][j] = ledger[k][j]
        BY <2>1, <2>2, <3>1
      <3>4. QED
        BY <3>2, <3>3
    <2>3. CASE j = n + 1
      <3>1. i \in 1..n /\ i \in Nat /\ n # 0
        BY <2>1, <2>3
      <3>2. ledger[k][n].at \in Nat /\ ledger[k][i].at \in Nat
        <4>1. ledger[k][n] \in Entry /\ ledger[k][i] \in Entry
          BY <2>1, <3>1
        <4>2. QED
          BY <4>1 DEF Entry
      <3>3. ledger[k][i].at <= ledger[k][n].at
        <4>1. n \in 1..n /\ (i < n \/ i = n)
          BY <2>1, <3>1
        <4>2. i < n => ledger[k][i].at < ledger[k][n].at
          BY <3>1, <4>1 DEF InTime
        <4>3. QED
          BY <3>2, <4>1, <4>2
      <3>4. /\ ledger[k][n].at = mirror[k].changed /\ mirror[k].changed <= mirror[k].polled
        BY <2>1, <3>1 DEF IInv, LedgerReplays, Replays
      <3>5. mirror[k].polled < polledAt[p] /\ polledAt[p] \in Nat
            /\ mirror[k].polled \in Nat /\ mirror[k].changed \in Nat
        BY DEF IInv, InCycle, Commit, TypeOK, Row
      <3>6. AuditOf(p, k).at = polledAt[p]
        BY DEF AuditOf
      <3>7. ledger'[k][i] = ledger[k][i] /\ ledger'[k][j].at = polledAt[p]
        BY <2>1, <2>3, <3>1, <3>6
      <3>8. ledger[k][i].at < polledAt[p]
        BY <3>2, <3>3, <3>4, <3>5
      <3>9. QED
        BY <3>7, <3>8
    <2>4. QED
      BY <2>1, <2>2, <2>3
  <1>3. QED
    BY <1>1, <1>2

\* The latest entry of a log in order is its last.
LEMMA LatestIsLast ==
  ASSUME NEW log \in Seq(Entry), log # <<>>,
         \A i, j \in 1..Len(log) : i < j => log[i].at < log[j].at
  PROVE  LatestChange(log) = log[Len(log)]
  <1> DEFINE n == Len(log)
             Latest(i) == \A j \in DOMAIN log :
               log[j].at < log[i].at \/ (log[j].at = log[i].at /\ j <= i)
             c == CHOOSE i \in DOMAIN log : Latest(i)
  <1>1. n \in Nat \ {0} /\ DOMAIN log = 1..n /\ \A i \in 1..n : log[i].at \in Nat
    <2>1. n \in Nat \ {0} /\ DOMAIN log = 1..n /\ \A i \in 1..n : log[i] \in Entry
      OBVIOUS
    <2>2. QED
      BY <2>1 DEF Entry
  <1>2. Latest(n)
    BY <1>1
  <1>3. c \in DOMAIN log /\ Latest(c)
    <2> HIDE DEF Latest
    <2>1. n \in DOMAIN log
      BY <1>1
    <2>2. QED
      BY <1>2, <2>1
  <1>4. ASSUME NEW i \in DOMAIN log, Latest(i) PROVE i = n
    <2>1. log[n].at < log[i].at \/ n <= i
      BY <1>1, <1>4
    <2>2. i \in 1..n /\ (i < n => log[i].at < log[n].at)
      BY <1>1
    <2>3. QED
      BY <1>1, <2>1, <2>2
  <1>5. c = n
    <2> HIDE DEF Latest, c
    <2> QED
      BY <1>3, <1>4
  <1>6. QED
    BY <1>5 DEF LatestChange

\* So the change that is shown beside a value is the one that made it.
LEMMA ShownIsCurrent ==
  ASSUME IInv, InTime
  PROVE  ShownChangeIsCurrent
  <1> SUFFICES ASSUME NEW k \in Key \ Status, ledger[k] # <<>>
               PROVE  /\ LatestChange(ledger[k]).after = mirror[k].val
                      /\ LatestChange(ledger[k]).at = mirror[k].changed
    BY DEF ShownChangeIsCurrent
  <1>1. ledger[k] \in Seq(Entry)
    BY DEF IInv, TypeOK
  <1>2. LatestChange(ledger[k]) = ledger[k][Len(ledger[k])]
    BY <1>1, LatestIsLast DEF InTime
  <1>3. QED
    BY <1>2 DEF IInv, LedgerReplays, Replays

-----------------------------------------------------------------------------
(* The history: who measured a length.                                      *)

(* The lengths and the skip positions are read in every cycle, the lengths  *)
(* first (FocasClient.read_snapshot).                                       *)
LengthsFirst ==
  /\ \A k \in Geom \cup Skip :
       k \notin Unreliable /\ \E i \in 1..Len(Order) : Order[i] = k
  /\ \A i, j \in 1..Len(Order) : Order[i] \in Geom /\ Order[j] \in Skip => i < j

(* A skip position is told from all those before it.                        *)
Positions ==
  \A s \in Skip :
    /\ control[s] \in latched
    /\ mirror[s].val \in latched \cup {Nothing}
    /\ \A p \in Poller : snap[p][s] \in latched \cup {Nothing}

(* The skip positions have moved since the mirror saw them, and the sweep   *)
(* under way will show it.                                                  *)
SkipNew == Skip # {} /\ \A s \in Skip : mirror[s].val \notin {Nothing, control[s]}
WillSee(p, s) == IF snap[p][s] = Nothing THEN control[s] ELSE snap[p][s]
WillDiffer(p) == \A s \in Skip : mirror[s].val # WillSee(p, s)

(* A touch that has not written its length yet is not in the mirror, or its *)
(* cycle is the last one; a cycle has been under way then.                  *)
TouchIsDue ==
  touching # Nothing =>
    /\ \A p \in Poller : pc[p] # "idle" => touching.midCycle
    /\ ~touching.cold =>
         /\ SkipNew \/ SkipChangedLastCycle
         /\ (~touching.midCycle \/ \E p \in Poller : pc[p] # "idle") => SkipNew

(* Neither is the touch of a length that was written and not yet persisted. *)
CreditIsDue ==
  \A g \in Geom :
    /\ "presetter" \in causes[g] =>
         /\ SkipNew \/ SkipChangedLastCycle
         /\ (\E p \in Poller : snap[p][g] # Nothing) => SkipNew
    /\ "presetter" \in carried[g] =>
         SkipChangedLastCycle \/ (SkipNew /\ \A p \in Poller : WillDiffer(p))

(* The credit that persist has worked out still stands at its commit.       *)
CreditStands ==
  \A p \in Poller :
    pc[p] = "loaded" => (presetter[p] <=> SkipChangedNow(p) \/ SkipChangedLastCycle)

(* Every cycle polls the skip positions.                                    *)
SkipsPolled == \A s \in Skip : mirror[s].val # Nothing => mirror[s].polled = lastCycle

Due == TouchIsDue /\ CreditIsDue
HInv == /\ IInv /\ Swept /\ InTime /\ Positions /\ Due /\ CreditStands /\ SkipsPolled
        /\ PresetterCredited /\ CreditIsFresh

\* What the parts of the invariant say of one item.
LEMMA Roles ==
  ASSUME PersistAssumption, TypeOK, NEW k \in Geom \cup Skip
  PROVE  /\ k \in Key /\ k \notin Status /\ k \notin Pots /\ (k \in Geom => k \notin Skip)
         /\ mirror[k] \in Row /\ control[k] \in Value /\ control[k] # Nothing
         /\ ledger[k] \in Seq(Entry) /\ Len(ledger[k]) \in Nat
  BY DEF PersistAssumption, TypeOK

\* A complete sweep has read the lengths and the skip positions.
LEMMA CommitSaw ==
  ASSUME PersistAssumption, LengthsFirst, IInv, Swept, NEW p \in Poller,
         pc[p] = "loaded", NEW k \in Geom \cup Skip
  PROVE  k \in Observed(p) /\ snap[p][k] # Nothing /\ base[p][k] = mirror[k].val
  <1>1. k \in Key
    BY Roles DEF IInv
  <1>2. PICK i \in 1..Len(Order) : Order[i] = k /\ k \notin Unreliable
    BY DEF LengthsFirst
  <1>3. k \in Observed(p)
    BY <1>2, CommitHasRead DEF IInv
  <1>4. QED
    BY <1>1, <1>3 DEF Observed, IInv, InCycle

\* What a commit does to a skip position that has moved.
LEMMA CommitSkip ==
  ASSUME PersistAssumption, LengthsFirst, IInv, Swept, NEW p \in Poller, Commit(p),
         NEW s \in Skip, mirror[s].val \notin {Nothing, snap[p][s]}
  PROVE  /\ SkipChangedLastCycle'
         /\ \E j \in 1..Len(ledger'[s]) :
              ledger'[s][j].before # Nothing /\ ledger'[s][j].at = polledAt[p]
  <1> DEFINE n == Len(ledger[s]) + 1
  <1>1. /\ s \in Key /\ s \notin Status /\ s \in Observed(p) /\ snap[p][s] # Nothing
        /\ base[p][s] = mirror[s].val
    BY CommitSaw, Roles DEF Commit, IInv
  <1>2. s \in Changed(p) \ Status
    BY <1>1 DEF Changed
  <1>3. /\ n \in 1..Len(ledger'[s]) /\ ledger'[s][n] = AuditOf(p, s)
    <2>1. Len(ledger[s]) \in Nat /\ Len(ledger'[s]) = Len(ledger[s]) + 1
          /\ ledger'[s][Len(ledger[s]) + 1] = AuditOf(p, s)
      BY <1>1, <1>2, CommitAppends DEF IInv
    <2>2. QED
      BY <2>1
  <1>4. AuditOf(p, s).before = mirror[s].val /\ AuditOf(p, s).at = polledAt[p]
    BY <1>1 DEF AuditOf
  <1>5. /\ mirror'[s].val = snap[p][s] /\ mirror'[s].polled = polledAt[p]
        /\ mirror'[s].changed = polledAt[p]
    BY <1>1 DEF Commit, Upserted
  <1>6. QED
    BY <1>1, <1>3, <1>4, <1>5 DEF SkipChangedLastCycle

\* A commit shows a movement of the skip positions, or leaves it to be seen.
LEMMA CommitSkips ==
  ASSUME PersistAssumption, LengthsFirst, IInv, Swept, NEW p \in Poller, Commit(p), SkipNew
  PROVE  SkipNew' \/ SkipChangedLastCycle'
  <1>1. CASE \E s \in Skip : mirror[s].val # snap[p][s]
    BY <1>1, CommitSkip DEF SkipNew
  <1>2. CASE \A s \in Skip : mirror[s].val = snap[p][s]
    <2>1. ASSUME NEW s \in Skip PROVE mirror'[s].val = mirror[s].val /\ control' = control
      <3>1. s \in Key /\ s \in Observed(p)
        BY CommitSaw, Roles DEF Commit, IInv
      <3>2. QED
        BY <1>2, <3>1 DEF Commit, Upserted, controlVars
    <2>2. QED
      BY <2>1 DEF SkipNew
  <1>3. QED
    BY <1>1, <1>2

\* A loaded cycle that will differ gives the credit.
LEMMA DifferenceIsSeen ==
  ASSUME PersistAssumption, LengthsFirst, IInv, Swept, NEW p \in Poller,
         pc[p] = "loaded", SkipNew, WillDiffer(p)
  PROVE  SkipChangedNow(p)
  <1>1. PICK s \in Skip : mirror[s].val # Nothing /\ mirror[s].val # WillSee(p, s)
    BY DEF SkipNew, WillDiffer
  <1>2. s \in Observed(p) /\ snap[p][s] # Nothing
    BY CommitSaw
  <1>3. QED
    BY <1>1, <1>2 DEF SkipChangedNow, WillSee

\* The positions seen so far only grow in number.
LEMMA NextPositions ==
  ASSUME PersistAssumption, TypeOK, Positions, [Next]_vars
  PROVE  Positions'
  <1> SUFFICES ASSUME NEW s \in Skip
               PROVE  /\ control'[s] \in latched'
                      /\ mirror'[s].val \in latched' \cup {Nothing}
                      /\ \A p \in Poller : snap'[p][s] \in latched' \cup {Nothing}
    BY DEF Positions
  <1> DEFINE Kept == /\ control'[s] \in latched'
                     /\ mirror'[s].val \in latched' \cup {Nothing}
                     /\ \A p \in Poller : snap'[p][s] \in latched' \cup {Nothing}
  <1>1. /\ s \in Key /\ s \notin Pots /\ s \notin Geom
        /\ control[s] \in latched /\ mirror[s].val \in latched \cup {Nothing}
        /\ \A p \in Poller : snap[p][s] \in latched \cup {Nothing}
    BY Roles DEF Positions
  <1>2. ASSUME UNCHANGED <<mirror, snap, latched>>, control'[s] = control[s]
        PROVE  Kept
    BY <1>1, <1>2
  <1>3. ASSUME NEW k \in Key, NEW v \in Value, Edit(k, v) PROVE Kept
    <2>1. /\ UNCHANGED <<mirror, snap, latched>> /\ k # s
          /\ control' = [control EXCEPT ![k] = v]
      BY <1>3 DEF Edit, Change, pollerVars, dbVars
    <2>2. control'[s] = control[s]
      BY <1>1, <2>1 DEF TypeOK
    <2>3. QED
      BY <1>2, <2>1, <2>2
  <1>4. ASSUME NEW g \in Geom, NEW v \in Value, Touch(g, v) PROVE Kept
    BY <1>1, <1>4 DEF Touch, pollerVars, dbVars
  <1>5. ASSUME NEW v \in Value, PresetWrite(v) PROVE Kept
    <2>1. /\ UNCHANGED <<mirror, snap, latched>> /\ touching.reg \in Geom
          /\ control' = [control EXCEPT ![touching.reg] = v]
      BY <1>5 DEF PresetWrite, Change, pollerVars, dbVars, TypeOK
    <2>2. control'[s] = control[s]
      BY <1>1, <2>1 DEF TypeOK
    <2>3. QED
      BY <1>2, <2>1, <2>2
  <1>6. ASSUME PmcReset PROVE Kept
    BY <1>1, <1>2, <1>6 DEF PmcReset, pollerVars, dbVars
  <1>7. ASSUME NEW p \in Poller, ReadItem(p) PROVE Kept
    <2>1. /\ snap' = [snap EXCEPT ![p][Order[pos[p]]] = control[Order[pos[p]]]]
          /\ UNCHANGED <<mirror, control, latched>>
      BY <1>7 DEF ReadItem, dbVars, controlVars
    <2>2. \A q \in Poller : snap'[q][s] \in {control[s], snap[q][s]}
      BY <1>1, <2>1 DEF TypeOK
    <2>3. QED
      BY <1>1, <2>1, <2>2
  <1>8. ASSUME NEW p \in Poller, EndCycle(p) PROVE \A q \in Poller : snap'[q][s] \in {Nothing, snap[q][s]}
    <2>1. snap' = [snap EXCEPT ![p] = NotRead]
      BY <1>8 DEF EndCycle
    <2>2. QED
      BY <1>1, <2>1 DEF TypeOK, NotRead
  <1>9. ASSUME NEW p \in Poller, Commit(p) PROVE Kept
    <2>1. mirror'[s].val \in {mirror[s].val, snap[p][s]} /\ UNCHANGED <<control, latched>>
      BY <1>1, <1>9 DEF Commit, Upserted, controlVars
    <2>2. QED
      BY <1>1, <1>8, <1>9, <2>1 DEF Commit
  <1>10. ASSUME NEW p \in Poller, Abandon(p) PROVE Kept
    BY <1>1, <1>8, <1>10 DEF Abandon, dbVars, controlVars
  <1>11. ASSUME NEW p \in Poller, BeginSweep(p) \/ SkipItem(p) \/ Load(p) PROVE Kept
    BY <1>2, <1>11 DEF BeginSweep, SkipItem, Load, dbVars, controlVars
  <1>12. ASSUME UNCHANGED vars PROVE Kept
    BY <1>2, <1>12 DEF vars, pollerVars, dbVars, controlVars
  <1>13. QED
    BY <1>3, <1>4, <1>5, <1>6, <1>7, <1>9, <1>10, <1>11, <1>12
    DEF Next, PollerStep, ControlStep

\* What a commit writes keeps the history true.
LEMMA CommitHistory ==
  ASSUME PersistAssumption, OnePoller, LengthsFirst, HInv, NEW p \in Poller, Commit(p)
  PROVE  CreditStands' /\ SkipsPolled' /\ PresetterCredited' /\ CreditIsFresh'
  <1> USE DEF HInv
  <1>1. pc[p] = "loaded" /\ \A q \in Poller : pc'[q] = "idle"
    BY DEF Commit, EndCycle, OnePoller, IInv, TypeOK
  <1>2. CreditStands'
    BY <1>1 DEF CreditStands
  <1>3. SkipsPolled'
    <2>1. ASSUME NEW s \in Skip PROVE mirror'[s].polled = polledAt[p]
      <3>1. s \in Key /\ s \in Observed(p)
        BY <1>1, CommitSaw, Roles DEF IInv
      <3>2. QED
        BY <3>1 DEF Commit, Upserted
    <2>2. QED
      BY <2>1 DEF SkipsPolled, Commit
  <1>4. presetter[p] <=> SkipChangedNow(p) \/ SkipChangedLastCycle
    BY <1>1 DEF CreditStands
  <1>5. ASSUME NEW g \in Geom, NEW i \in 1..Len(ledger'[g])
        PROVE  \/ i \in 1..Len(ledger[g]) /\ ledger'[g][i] = ledger[g][i]
               \/ ledger'[g][i] = AuditOf(p, g) /\ g \in Changed(p)
    <2>1. g \in Key /\ Len(ledger[g]) \in Nat
      BY Roles DEF IInv
    <2>2. CASE g \in Changed(p) \ Status
      <3>1. i \in 1..Len(ledger[g]) \/ i = Len(ledger[g]) + 1
        BY <2>1, <2>2, CommitAppends DEF IInv
      <3>2. QED
        BY <2>1, <2>2, <3>1, CommitAppends DEF IInv
    <2>3. CASE g \notin Changed(p) \ Status
      BY <2>1, <2>3, CommitAppends DEF IInv
    <2>4. QED
      BY <2>2, <2>3
  <1>6. PresetterCredited'
    <2> SUFFICES ASSUME NEW g \in Geom, NEW i \in 1..Len(ledger'[g]),
                        ledger'[g][i].source = "manual_edit"
                 PROVE  ledger'[g][i].causes # {"presetter"}
      BY DEF PresetterCredited
    <2>1. CASE i \in 1..Len(ledger[g]) /\ ledger'[g][i] = ledger[g][i]
      BY <2>1 DEF PresetterCredited
    <2>2. CASE ledger'[g][i] = AuditOf(p, g)
      <3>1. ~presetter[p] /\ ledger'[g][i].causes = carried[g]
        BY <2>2 DEF AuditOf
      <3>2. "presetter" \notin carried[g]
        BY <1>1, <1>4, <3>1, DifferenceIsSeen DEF Due, CreditIsDue
      <3>3. QED
        BY <3>1, <3>2
    <2>3. QED
      BY <1>5, <2>1, <2>2
  <1>7. ASSUME NEW s \in Skip, NEW j \in 1..Len(ledger[s])
        PROVE  j \in 1..Len(ledger'[s]) /\ ledger'[s][j] = ledger[s][j]
    <2>1. s \in Key /\ Len(ledger[s]) \in Nat
      BY Roles DEF IInv
    <2>2. QED
      BY <2>1, CommitAppends DEF IInv
  <1>8. CreditIsFresh'
    <2> SUFFICES ASSUME NEW g \in Geom, NEW i \in 1..Len(ledger'[g]),
                        ledger'[g][i].source = "presetter_verified"
                 PROVE  \E s \in Skip : \E j \in 1..Len(ledger'[s]) :
                          /\ ledger'[s][j].before # Nothing
                          /\ ledger'[s][j].at \in {ledger'[g][i].at, ledger'[g][i].prev}
      BY DEF CreditIsFresh
    <2>1. CASE i \in 1..Len(ledger[g]) /\ ledger'[g][i] = ledger[g][i]
      <3>1. PICK s \in Skip : \E j \in 1..Len(ledger[s]) :
              /\ ledger[s][j].before # Nothing
              /\ ledger[s][j].at \in {ledger[g][i].at, ledger[g][i].prev}
        BY <2>1 DEF CreditIsFresh
      <3>2. QED
        BY <2>1, <3>1, <1>7
    <2>2. CASE ledger'[g][i] = AuditOf(p, g)
      <3>1. /\ ledger'[g][i].at = polledAt[p] /\ ledger'[g][i].prev = lastCycle
            /\ presetter[p]
        BY <2>2 DEF AuditOf
      <3>2. CASE SkipChangedNow(p)
        <4>1. PICK s \in Skip : mirror[s].val \notin {Nothing, snap[p][s]}
          BY <3>2 DEF SkipChangedNow
        <4>2. \E j \in 1..Len(ledger'[s]) :
                ledger'[s][j].before # Nothing /\ ledger'[s][j].at = polledAt[p]
          BY <4>1, CommitSkip
        <4>3. QED
          BY <3>1, <4>2
      <3>3. CASE SkipChangedLastCycle
        <4>1. PICK s \in Skip :
                /\ mirror[s].val # Nothing /\ mirror[s].changed = mirror[s].polled
                /\ \E j \in 1..Len(ledger[s]) :
                     ledger[s][j].at = mirror[s].changed /\ ledger[s][j].before # Nothing
          BY <3>3 DEF SkipChangedLastCycle
        <4>2. mirror[s].changed = lastCycle
          BY <4>1 DEF SkipsPolled
        <4>3. QED
          BY <1>7, <3>1, <4>1, <4>2
      <3>4. QED
        BY <1>4, <3>1, <3>2, <3>3
    <2>3. QED
      BY <1>5, <2>1, <2>2
  <1>9. QED
    BY <1>2, <1>3, <1>6, <1>8

\* Outside a commit what is written stands, and the credit with it.
LEMMA QuietHistory ==
  ASSUME PersistAssumption, TypeOK, CreditStands, SkipsPolled, PresetterCredited,
         CreditIsFresh, [Next]_vars, \A p \in Poller : ~Commit(p)
  PROVE  /\ UNCHANGED <<mirror, ledger>> /\ (SkipChangedLastCycle' <=> SkipChangedLastCycle)
         /\ CreditStands' /\ SkipsPolled' /\ PresetterCredited' /\ CreditIsFresh'
  <1>1. UNCHANGED <<mirror, ledger>>
    BY OnlyCommitsWrite DEF dbVars
  <1>2. UNCHANGED lastCycle
    BY DEF Next, PollerStep, BeginSweep, ReadItem, SkipItem, Load, Abandon, ControlStep,
           Edit, Touch, PresetWrite, PmcReset, vars
  <1>3. SkipChangedLastCycle' <=> SkipChangedLastCycle
    BY <1>1 DEF SkipChangedLastCycle
  <1>4. SkipsPolled' /\ PresetterCredited' /\ CreditIsFresh'
    BY <1>1, <1>2 DEF SkipsPolled, PresetterCredited, CreditIsFresh
  <1>5. ASSUME NEW q \in Poller, snap'[q] = snap[q]
        PROVE  SkipChangedNow(q)' <=> SkipChangedNow(q)
    BY <1>1, <1>5 DEF SkipChangedNow, Observed
  <1>6. ASSUME NEW q \in Poller, snap'[q] = snap[q], pc'[q] = pc[q],
               presetter'[q] = presetter[q], pc'[q] = "loaded"
        PROVE  presetter'[q] <=> SkipChangedNow(q)' \/ SkipChangedLastCycle'
    BY <1>3, <1>5, <1>6 DEF CreditStands
  <1>7. ASSUME UNCHANGED pollerVars PROVE CreditStands'
    BY <1>6, <1>7 DEF CreditStands, pollerVars
  <1>8. ASSUME NEW p \in Poller, PollerStep(p), NEW q \in Poller, pc'[q] = "loaded"
        PROVE  presetter'[q] <=> SkipChangedNow(q)' \/ SkipChangedLastCycle'
    <2>1. CASE q # p
      <3>1. snap'[q] = snap[q] /\ pc'[q] = pc[q] /\ presetter'[q] = presetter[q]
        BY <1>8, <2>1 DEF PollerStep, BeginSweep, ReadItem, SkipItem, Load, Commit,
                          Abandon, EndCycle, TypeOK
      <3>2. QED
        BY <1>6, <1>8, <3>1
    <2>2. CASE q = p
      <3>1. Load(p)
        BY <1>8, <2>2 DEF PollerStep, BeginSweep, ReadItem, SkipItem, Abandon, EndCycle,
                          TypeOK
      <3>2. presetter'[p] <=> SkipChangedNow(p) \/ SkipChangedLastCycle
        BY <3>1, Zenon DEF Load, TypeOK
      <3>3. snap' = snap
        BY <3>1 DEF Load
      <3>4. QED
        BY <1>3, <1>5, <2>2, <3>2, <3>3
    <2>3. QED
      BY <2>1, <2>2
  <1>9. ASSUME \E p \in Poller : PollerStep(p) PROVE CreditStands'
    BY <1>8, <1>9 DEF CreditStands
  <1>10. ControlStep \/ UNCHANGED vars => UNCHANGED pollerVars
    BY DEF ControlStep, Edit, Touch, PresetWrite, PmcReset, vars
  <1>11. CreditStands'
    BY <1>7, <1>9, <1>10 DEF Next
  <1>12. QED
    BY <1>1, <1>3, <1>4, <1>11

\* A movement of the skip positions stays one until a commit.
LEMMA SkipStaysNew ==
  ASSUME PersistAssumption, TypeOK, Positions, SkipNew, [Next]_vars,
         \A p \in Poller : ~Commit(p)
  PROVE  SkipNew'
  <1>1. mirror' = mirror
    BY OnlyCommitsWrite DEF dbVars
  <1>2. ASSUME NEW s \in Skip PROVE mirror[s].val \notin {Nothing, control'[s]}
    <2>1. /\ s \in Key /\ s \notin Pots /\ s \notin Geom
          /\ mirror[s].val \notin {Nothing, control[s]} /\ mirror[s].val \in latched
      BY Roles DEF SkipNew, Positions
    <2>2. ASSUME NEW k \in Key, NEW v \in Value, k # s, Change(k, v, "manual")
          PROVE  control'[s] = control[s]
      BY <2>1, <2>2 DEF Change, TypeOK
    <2>3. ASSUME NEW k \in Key, NEW v \in Value, Edit(k, v) PROVE control'[s] = control[s]
      BY <2>2, <2>3 DEF Edit
    <2>4. ASSUME NEW g \in Geom, NEW v \in Value, Touch(g, v)
          PROVE  control'[s] # mirror[s].val
      BY <2>1, <2>4 DEF Touch
    <2>5. ASSUME NEW v \in Value, PresetWrite(v) PROVE control'[s] = control[s]
      <3>1. touching.reg \in Geom /\ control' = [control EXCEPT ![touching.reg] = v]
        BY <2>5 DEF PresetWrite, Change, TypeOK
      <3>2. QED
        BY <2>1, <3>1 DEF TypeOK
    <2>6. ASSUME PmcReset PROVE control'[s] = control[s]
      BY <2>1, <2>6 DEF PmcReset
    <2>7. ASSUME NEW p \in Poller, PollerStep(p) PROVE control'[s] = control[s]
      BY <2>7 DEF PollerStep, BeginSweep, ReadItem, SkipItem, Load, Abandon, controlVars
    <2>8. CASE UNCHANGED vars
      BY <2>1, <2>8 DEF vars, controlVars
    <2>9. QED
      BY <2>1, <2>3, <2>4, <2>5, <2>6, <2>7, <2>8 DEF Next, ControlStep
  <1>3. QED
    BY <1>1, <1>2 DEF SkipNew

\* A touch stays due until a commit makes its cycle the last one.
LEMMA NextTouch ==
  ASSUME PersistAssumption, OnePoller, LengthsFirst, HInv, [Next]_vars
  PROVE  TouchIsDue'
  <1> USE DEF HInv
  <1>1. TypeOK
    BY DEF IInv
  <1>2. ASSUME NEW p \in Poller, Commit(p) PROVE TouchIsDue'
    <2>1. touching' = touching /\ pc[p] # "idle" /\ \A q \in Poller : pc'[q] = "idle"
      BY <1>1, <1>2 DEF Commit, controlVars, EndCycle, OnePoller, TypeOK
    <2>2. SkipNew => SkipNew' \/ SkipChangedLastCycle'
      BY <1>2, CommitSkips
    <2>3. QED
      BY <2>1, <2>2 DEF Due, TouchIsDue
  <1>3. CASE \A p \in Poller : ~Commit(p)
    <2>1. (SkipNew => SkipNew') /\ (SkipChangedLastCycle' <=> SkipChangedLastCycle)
      BY <1>1, <1>3, SkipStaysNew, QuietHistory
    <2>2. ASSUME UNCHANGED touching,
                 \A q \in Poller : pc'[q] # "idle" => pc[q] # "idle"
          PROVE  TouchIsDue'
      BY <2>1, <2>2 DEF Due, TouchIsDue
    <2>3. ASSUME NEW g \in Geom, NEW v \in Value, Touch(g, v) PROVE TouchIsDue'
      <3>1. /\ touching' = [reg |-> g, cold |-> \E s \in Skip : mirror[s].val = Nothing,
                            midCycle |-> \E q \in Poller : pc[q] # "idle"]
            /\ pc' = pc /\ mirror' = mirror /\ Skip # {} /\ v \notin latched
        BY <2>3 DEF Touch, pollerVars, dbVars
      <3>2. \A s \in Skip : s \in Key /\ mirror[s].val \in latched \cup {Nothing}
        BY Roles, <1>1 DEF Positions
      <3>3. ~touching'.cold => SkipNew'
        BY <2>3, <3>1, <3>2 DEF Touch, SkipNew
      <3>4. QED
        BY <3>1, <3>3 DEF TouchIsDue
    <2>4. ASSUME NEW v \in Value, PresetWrite(v) PROVE TouchIsDue'
      BY <2>4 DEF PresetWrite, TouchIsDue
    <2>5. ASSUME NEW p \in Poller, BeginSweep(p) PROVE TouchIsDue'
      <3>1. /\ touching # Nothing => ~touching.midCycle
            /\ touching' = IF touching = Nothing THEN Nothing
                           ELSE [touching EXCEPT !.midCycle = TRUE]
        BY <2>5 DEF BeginSweep
      <3>2. touching # Nothing =>
              touching \in [reg : Geom, cold : BOOLEAN, midCycle : BOOLEAN]
        BY <1>1 DEF TypeOK
      <3>3. touching' # Nothing => touching'.midCycle /\ touching'.cold = touching.cold
        BY <3>1, <3>2
      <3>4. touching' # Nothing /\ ~touching'.cold => SkipNew'
        BY <2>1, <3>1, <3>2, <3>3 DEF Due, TouchIsDue
      <3>5. QED
        BY <3>3, <3>4 DEF TouchIsDue
    <2>6. ASSUME NEW p \in Poller, ReadItem(p) \/ SkipItem(p) \/ Load(p) \/ Abandon(p)
          PROVE  TouchIsDue'
      BY <1>1, <2>2, <2>6 DEF ReadItem, SkipItem, Load, Abandon, EndCycle, controlVars, TypeOK
    <2>7. ASSUME NEW k \in Key, NEW v \in Value, Edit(k, v) PROVE TouchIsDue'
      BY <2>2, <2>7 DEF Edit, pollerVars
    <2>8. ASSUME PmcReset PROVE TouchIsDue'
      BY <2>2, <2>8 DEF PmcReset, pollerVars
    <2>9. CASE UNCHANGED vars
      BY <2>2, <2>9 DEF vars, pollerVars, controlVars
    <2>10. QED
      BY <1>3, <2>3, <2>4, <2>5, <2>6, <2>7, <2>8, <2>9 DEF Next, PollerStep, ControlStep
  <1>4. QED
    BY <1>2, <1>3

\* While a length is read no skip position has been.
LEMMA LengthBeforeSkip ==
  ASSUME PersistAssumption, LengthsFirst, TypeOK, Swept, NEW p \in Poller,
         pos[p] <= Len(Order), Order[pos[p]] \in Geom, NEW s \in Skip
  PROVE  snap[p][s] = Nothing
  <1>1. s \in Key /\ pos[p] \in 1..Len(Order)
    BY Roles DEF TypeOK, PersistAssumption
  <1>2. ASSUME NEW i \in 1..Len(Order), Order[i] = s PROVE ~(i < pos[p])
    <2>1. pos[p] < i
      BY <1>1, <1>2 DEF LengthsFirst
    <2>2. QED
      BY <1>1, <2>1
  <1>3. QED
    BY <1>1, <1>2 DEF Swept

\* A read carries the credit from the control into the sweep.
LEMMA ReadCredit ==
  ASSUME PersistAssumption, OnePoller, LengthsFirst, HInv, NEW p \in Poller, ReadItem(p)
  PROVE  CreditIsDue'
  <1> USE DEF HInv
  <1> DEFINE k == Order[pos[p]]
  <1>1. TypeOK
    BY DEF IInv
  <1>2. /\ k \in Key /\ snap' = [snap EXCEPT ![p][k] = control[k]]
        /\ carried' = [carried EXCEPT ![k] = @ \cup causes[k]]
        /\ causes' = [causes EXCEPT ![k] = {}]
        /\ UNCHANGED <<control, mirror, ledger>>
        /\ pc[p] = "sweep" /\ pos[p] <= Len(Order)
    BY <1>1 DEF ReadItem, dbVars, controlVars, PersistAssumption, TypeOK
  <1>3. (SkipNew' <=> SkipNew) /\ (SkipChangedLastCycle' <=> SkipChangedLastCycle)
    BY <1>2 DEF SkipNew, SkipChangedLastCycle
  <1>4. ASSUME SkipNew, NEW q \in Poller, WillDiffer(q) PROVE WillDiffer(q)'
    <2>1. ASSUME NEW s \in Skip PROVE WillSee(q, s)' \in {WillSee(q, s), control[s]}
      <3>1. s \in Key
        BY Roles, <1>1
      <3>2. snap'[q][s] \in {snap[q][s], control[s]}
        BY <1>1, <1>2, <3>1 DEF TypeOK
      <3>3. QED
        BY <1>2, <3>2 DEF WillSee
    <2>2. QED
      BY <1>2, <1>4, <2>1 DEF WillDiffer, SkipNew
  <1>5. ASSUME k \in Geom, SkipNew, NEW q \in Poller, q = p PROVE WillDiffer(q)
    <2>1. \A s \in Skip : snap[q][s] = Nothing
      BY <1>1, <1>2, <1>5, LengthBeforeSkip
    <2>2. QED
      BY <2>1, <1>5 DEF WillDiffer, WillSee, SkipNew
  <1>6. ASSUME NEW g \in Geom
        PROVE  /\ g # k => causes'[g] = causes[g] /\ carried'[g] = carried[g]
               /\ g = k => causes'[g] = {} /\ carried'[g] = carried[g] \cup causes[g]
               /\ g # k => \A q \in Poller : snap'[q][g] = snap[q][g]
    <2>1. g \in Key
      BY Roles, <1>1
    <2>2. QED
      BY <2>1, <1>1, <1>2 DEF TypeOK
  <1>7. ASSUME NEW g \in Geom, "presetter" \in causes'[g]
        PROVE  /\ SkipNew \/ SkipChangedLastCycle
               /\ (\E q \in Poller : snap'[q][g] # Nothing) => SkipNew
    BY <1>6, <1>7 DEF Due, CreditIsDue
  <1>8. ASSUME NEW g \in Geom, "presetter" \in carried'[g], ~SkipChangedLastCycle
        PROVE  SkipNew /\ \A q \in Poller : WillDiffer(q)'
    <2>1. CASE "presetter" \in carried[g]
      BY <1>4, <1>8, <2>1 DEF Due, CreditIsDue
    <2>2. CASE "presetter" \notin carried[g]
      <3>1. g = k /\ "presetter" \in causes[g]
        BY <1>6, <1>8, <2>2
      <3>2. SkipNew
        BY <1>8, <3>1 DEF Due, CreditIsDue
      <3>3. ASSUME NEW q \in Poller PROVE WillDiffer(q)'
        <4>1. q = p
          BY DEF OnePoller
        <4>2. QED
          BY <1>4, <1>5, <3>1, <3>2, <4>1
      <3>4. QED
        BY <3>2, <3>3
    <2>3. QED
      BY <2>1, <2>2
  <1>9. QED
    BY <1>3, <1>7, <1>8 DEF CreditIsDue

\* The credit of a length stays due until it is persisted.
LEMMA NextCredit ==
  ASSUME PersistAssumption, OnePoller, LengthsFirst, HInv, [Next]_vars
  PROVE  CreditIsDue'
  <1> USE DEF HInv
  <1>1. TypeOK
    BY DEF IInv
  <1>2. ASSUME NEW p \in Poller, Commit(p) PROVE CreditIsDue'
    <2>1. \A g \in Geom : /\ carried'[g] = {} /\ snap[p][g] # Nothing
                          /\ \A q \in Poller : snap'[q][g] = Nothing
      <3>1. \A g \in Geom : g \in Key /\ g \in Observed(p) /\ snap[p][g] # Nothing
        BY <1>1, <1>2, CommitSaw, Roles DEF Commit
      <3>2. QED
        BY <1>1, <1>2, <3>1 DEF Commit, EndCycle, NotRead, OnePoller, TypeOK
    <2>2. causes' = causes
      BY <1>2 DEF Commit
    <2>3. SkipNew => SkipNew' \/ SkipChangedLastCycle'
      BY <1>2, CommitSkips
    <2>4. QED
      BY <2>1, <2>2, <2>3 DEF Due, CreditIsDue
  <1>3. ASSUME \A p \in Poller : ~Commit(p) PROVE CreditIsDue'
    <2>1. /\ SkipNew => SkipNew'
          /\ SkipChangedLastCycle' <=> SkipChangedLastCycle
          /\ UNCHANGED mirror
      BY <1>1, <1>3, SkipStaysNew, QuietHistory
    <2>2. ASSUME UNCHANGED <<causes, carried, snap>>,
                 \A q \in Poller : SkipNew /\ WillDiffer(q) => WillDiffer(q)'
          PROVE  CreditIsDue'
      BY <2>1, <2>2 DEF Due, CreditIsDue
    <2>3. ASSUME UNCHANGED snap, \A s \in Skip : control'[s] = control[s], NEW q \in Poller
          PROVE  WillDiffer(q) => WillDiffer(q)'
      BY <2>1, <2>3 DEF WillDiffer, WillSee
    <2>4. ASSUME NEW g \in Geom, NEW v \in Value, Touch(g, v) PROVE CreditIsDue'
      <3>1. /\ UNCHANGED <<causes, carried, snap>> /\ v \notin latched
            /\ control' = [k \in Key |-> IF k \in Skip THEN v ELSE control[k]]
        BY <2>4 DEF Touch, pollerVars
      <3>2. ASSUME NEW q \in Poller, SkipNew, WillDiffer(q) PROVE WillDiffer(q)'
        <4>1. ASSUME NEW s \in Skip PROVE mirror'[s].val # WillSee(q, s)'
          <5>1. s \in Key /\ mirror[s].val \in latched \cup {Nothing} /\ mirror[s].val # Nothing
            BY <1>1, <3>2, Roles DEF Positions, SkipNew
          <5>2. mirror[s].val # WillSee(q, s)
            BY <3>2 DEF WillDiffer
          <5>3. QED
            BY <2>1, <3>1, <5>1, <5>2 DEF WillSee
        <4>2. QED
          BY <4>1 DEF WillDiffer
      <3>3. QED
        BY <2>2, <3>1, <3>2
    <2>5. ASSUME NEW k \in Key, NEW v \in Value, Edit(k, v) PROVE CreditIsDue'
      <3>1. /\ UNCHANGED <<carried, snap>> /\ k \notin Skip
            /\ control' = [control EXCEPT ![k] = v]
            /\ causes' = [causes EXCEPT ![k] = @ \cup {"manual"}]
        BY <2>5 DEF Edit, Change, pollerVars
      <3>2. \A s \in Skip : s \in Key /\ control'[s] = control[s]
        BY <1>1, <3>1, Roles DEF TypeOK
      <3>3. \A g \in Geom : "presetter" \in causes'[g] => "presetter" \in causes[g]
        BY <1>1, <3>1, Roles DEF TypeOK
      <3>4. \A q \in Poller : WillDiffer(q) => WillDiffer(q)'
        BY <2>3, <3>1, <3>2
      <3>5. QED
        BY <2>1, <3>1, <3>3, <3>4 DEF Due, CreditIsDue
    <2>6. ASSUME NEW v \in Value, PresetWrite(v) PROVE CreditIsDue'
      <3> DEFINE r == touching.reg
      <3>1. /\ UNCHANGED <<carried, snap>> /\ r \in Geom /\ touching # Nothing
            /\ control' = [control EXCEPT ![r] = v]
            /\ causes' = [causes EXCEPT ![r] =
                            @ \cup {IF touching.cold THEN "cold" ELSE "presetter"}]
        BY <1>1, <2>6 DEF PresetWrite, Change, pollerVars, TypeOK
      <3>2. \A s \in Skip : s \in Key /\ control'[s] = control[s]
        BY <1>1, <3>1, Roles DEF TypeOK
      <3>3. \A q \in Poller : WillDiffer(q) => WillDiffer(q)'
        BY <2>3, <3>1, <3>2
      <3>4. ASSUME NEW g \in Geom, "presetter" \in causes'[g], "presetter" \notin causes[g]
            PROVE  g = r /\ ~touching.cold
        <4>1. g \in Key
          BY <1>1, Roles
        <4>2. QED
          BY <1>1, <3>1, <3>4, <4>1 DEF TypeOK
      <3>5. ASSUME ~touching.cold, NEW g \in Geom
            PROVE  /\ SkipNew \/ SkipChangedLastCycle
                   /\ (\E q \in Poller : snap[q][g] # Nothing) => SkipNew
        <4>1. /\ SkipNew \/ SkipChangedLastCycle
              /\ (\E q \in Poller : pc[q] # "idle") => SkipNew
          BY <3>1, <3>5 DEF Due, TouchIsDue
        <4>2. \A q \in Poller : snap[q][g] # Nothing => pc[q] # "idle"
          BY <1>1, Roles, IdleReadsNothing
        <4>3. QED
          BY <4>1, <4>2
      <3>6. QED
        BY <2>1, <3>1, <3>3, <3>4, <3>5 DEF Due, CreditIsDue
    <2>7. ASSUME PmcReset PROVE CreditIsDue'
      <3>1. /\ UNCHANGED <<causes, carried, snap>>
            /\ control' = [k \in Key |-> IF k \in Pots THEN Own ELSE control[k]]
        BY <2>7 DEF PmcReset, pollerVars
      <3>2. \A s \in Skip : control'[s] = control[s]
        BY <1>1, <3>1, Roles
      <3>3. QED
        BY <2>2, <2>3, <3>1, <3>2
    <2>8. ASSUME NEW p \in Poller, ReadItem(p) PROVE CreditIsDue'
      BY <2>8, ReadCredit
    <2>9. ASSUME NEW p \in Poller, Abandon(p) PROVE CreditIsDue'
      <3>1. UNCHANGED <<causes, carried, control>> /\ snap' = [snap EXCEPT ![p] = NotRead]
        BY <2>9 DEF Abandon, EndCycle, controlVars
      <3>2. \A q \in Poller : \A k \in Key : snap'[q][k] = Nothing
        BY <1>1, <3>1 DEF OnePoller, NotRead, TypeOK
      <3>3. ASSUME NEW q \in Poller, SkipNew PROVE WillDiffer(q)'
        BY <1>1, <2>1, <3>1, <3>2, <3>3, Roles DEF WillDiffer, WillSee, SkipNew
      <3>4. \A g \in Geom, q \in Poller : snap'[q][g] = Nothing
        BY <1>1, <3>2, Roles
      <3>5. QED
        BY <2>1, <3>1, <3>3, <3>4 DEF Due, CreditIsDue
    <2>10. ASSUME NEW p \in Poller, BeginSweep(p) \/ SkipItem(p) \/ Load(p)
           PROVE  CreditIsDue'
      BY <2>2, <2>3, <2>10 DEF BeginSweep, SkipItem, Load, controlVars
    <2>11. ASSUME UNCHANGED vars PROVE CreditIsDue'
      BY <2>2, <2>3, <2>11 DEF vars, pollerVars, controlVars
    <2>12. QED
      BY <1>3, <2>4, <2>5, <2>6, <2>7, <2>8, <2>9, <2>10, <2>11
      DEF Next, PollerStep, ControlStep
  <1>4. QED
    BY <1>2, <1>3

\* Every step keeps the history true.
LEMMA NextHistory ==
  ASSUME PersistAssumption, OnePoller, LengthsFirst, HInv, [Next]_vars
  PROVE  HInv'
  <1>1. IInv' /\ Swept' /\ Positions'
    BY NextIInv, NextSwept, NextPositions DEF HInv, IInv
  <1>2. Due'
    BY NextTouch, NextCredit DEF Due
  <1>3. ASSUME NEW p \in Poller, Commit(p)
        PROVE  InTime' /\ CreditStands' /\ SkipsPolled' /\ PresetterCredited' /\ CreditIsFresh'
    BY <1>3, CommitHistory, CommitInTime DEF HInv
  <1>4. ASSUME \A p \in Poller : ~Commit(p)
        PROVE  InTime' /\ CreditStands' /\ SkipsPolled' /\ PresetterCredited' /\ CreditIsFresh'
    <2>1. /\ UNCHANGED ledger
          /\ CreditStands' /\ SkipsPolled' /\ PresetterCredited' /\ CreditIsFresh'
      BY <1>4, QuietHistory DEF HInv, IInv
    <2>2. InTime'
      BY <2>1 DEF InTime, HInv
    <2>3. QED
      BY <2>1, <2>2
  <1>5. QED
    BY <1>1, <1>2, <1>3, <1>4 DEF HInv

\* So does an empty history.
LEMMA InitHistory == ASSUME PersistAssumption PROVE Init => HInv
  <1> SUFFICES ASSUME Init PROVE HInv
    OBVIOUS
  <1>1. IInv /\ Swept
    BY InitIInv, InitReset
  <1>2. Positions
    BY Roles, <1>1 DEF Init, Positions, NoRow, NotRead, IInv
  <1>3. CreditStands /\ SkipsPolled
    BY Roles, <1>1 DEF Init, CreditStands, SkipsPolled, NoRow, IInv
  <1>4. Due
    <2>1. \A g \in Geom : causes[g] = {} /\ carried[g] = {}
      BY Roles, <1>1 DEF Init, IInv
    <2>2. touching = Nothing
      BY DEF Init
    <2>3. QED
      BY <2>1, <2>2 DEF Due, TouchIsDue, CreditIsDue
  <1>5. InTime /\ PresetterCredited /\ CreditIsFresh
    <2>1. \A k \in Key : ledger[k] = <<>> /\ Len(ledger[k]) = 0
      BY DEF Init
    <2>2. \A g \in Geom : ledger[g] = <<>> /\ Len(ledger[g]) = 0
      BY <2>1, <1>1, Roles DEF IInv
    <2>3. QED
      BY <2>1, <2>2 DEF InTime, PresetterCredited, CreditIsFresh
  <1>6. QED
    BY <1>1, <1>2, <1>3, <1>4, <1>5 DEF HInv

(* The history the API shows is true: a length the presetter measured is    *)
(* never booked as a keypad edit, a credit is never older than the cycle    *)
(* before, and the change shown beside a value is the one that made it.     *)
THEOREM HistoryAlwaysTrue ==
  ASSUME OnePoller, LengthsFirst PROVE Spec => []HistoryIsTrue
  <1>1. Init => HInv
    BY PersistAssumption, InitHistory
  <1>2. HInv /\ [Next]_vars => HInv'
    BY PersistAssumption, NextHistory
  <1>3. HInv => HistoryIsTrue
    BY ShownIsCurrent DEF HInv, HistoryIsTrue
  <1>4. QED
    BY <1>1, <1>2, <1>3, PTL DEF Spec
=============================================================================
