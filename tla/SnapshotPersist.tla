-------------------------- MODULE SnapshotPersist ---------------------------
(***************************************************************************)
(* From the control to the database (FocasClient.read_snapshot, persist in *)
(* shared/focas/snapshot.py, the diffs of snapshot_diff.py).  A poller     *)
(* reads the control item by item while operators and the tool presetter   *)
(* go on changing it, then compares the snapshot with the mirror, upserts  *)
(* what it read and appends one audit row per change, in one transaction.  *)
(*                                                                         *)
(* An item (Key) is one row of a mirror table: an offset register, a pot,  *)
(* a macro variable, a tool-life entry, a work offset, the status row.     *)
(* The domains share one scheme and differ in what is audited (not the     *)
(* status), attributed (H_GEOM offsets) and watched for a reset (pots).    *)
(***************************************************************************)
EXTENDS Integers, Sequences, FiniteSets

CONSTANTS
  Key,        (* mirrored items of one machine                             *)
  Order,      (* the order in which a sweep reads them                     *)
  Geom,       (* H_GEOM offsets: their changes carry a source              *)
  Skip,       (* PRESETTER_SKIP_VARS, the G31 skip positions               *)
  Pots,       (* pots of the magazine                                      *)
  Status,     (* the status row (a set of at most one key): not audited    *)
  Value,      (* what an item can hold                                     *)
  Own,        (* of a pot: its own ordinal, what a PMC reset leaves there  *)
  Empty,      (* of a pot: no tool                                         *)
  Cancel,     (* of the status: T words without offset digits              *)
  Nothing,    (* no row, no value read                                     *)
  ReinitMin,  (* _REINIT_MIN_POTS                                          *)
  Unreliable, (* items whose read may fail and is then left out            *)
  Poller,     (* processes that poll this machine                          *)
  MaxSweeps, MaxEdits  (* bounds on the run                                *)

ASSUME PersistAssumption ==
  /\ Order \in Seq(Key)
  /\ Geom \subseteq Key /\ Skip \subseteq Key /\ Pots \subseteq Key
  /\ Status \subseteq Key /\ \A s, t \in Status : s = t
  /\ Status \cap (Geom \cup Skip) = {}
  /\ Geom \cap Skip = {} /\ Pots \cap (Geom \cup Skip \cup Status) = {}
  /\ Pots # {} => Own \in Value
  /\ Cancel \subseteq Value
  /\ Nothing \notin Value
  /\ ReinitMin \in Nat /\ MaxSweeps \in Nat /\ MaxEdits \in Nat
  /\ Unreliable \subseteq Key

VARIABLES
  control,   (* what the control holds now                                 *)
  clock,     (* time: one tick per sweep begun                             *)
  pc,        (* per poller: idle, sweep (reading), loaded (has SELECTed)   *)
  pos,       (* next read of the sweep                                     *)
  snap,      (* the snapshot being assembled: Nothing is "not observed"    *)
  polledAt,  (* its polled_at, taken before the first read                 *)
  base,      (* mirror values SELECTed by persist                          *)
  presetter, (* presetter_active                                           *)
  mirror,    (* rows: value, last_polled_at, last_changed_at               *)
  ledger,    (* audit_log, per item and in order                           *)
  lastTool,  (* last_tool_t_word of the status row                         *)
  alarms,    (* polled_at of the pot_reinit_suspected audit rows           *)
  touching,  (* the presetter has touched off but not yet written: the     *)
             (* register, whether the skip variables had no row yet, and  *)
             (* whether a cycle has been under way since                  *)
  latched,   (* skip positions latched so far                              *)
  edits,     (* changes made at the control so far                         *)
  causes,    (* history: who changed an item since it was last read        *)
  carried,   (* history: ... and read, but not yet in the mirror           *)
  lastCycle, (* history: polled_at of the last persisted snapshot          *)
  reset      (* history: pots a PMC reset took, persists since, alarm seen *)

pollerVars  == <<pc, pos, snap, polledAt, base, presetter>>
dbVars      == <<mirror, ledger, lastTool, alarms>>
controlVars == <<control, touching, latched, edits>>
vars == <<pollerVars, dbVars, controlVars, clock, causes, carried,
          lastCycle, reset>>

Held == Value \cup {Nothing}
NoRow == [val |-> Nothing, polled |-> 0, changed |-> 0]
NotRead == [k \in Key |-> Nothing]
NoReset == [pots |-> {}, cycles |-> 0, alarm |-> FALSE]

Init ==
  /\ control \in [Key -> Value]
  /\ clock = 0
  /\ pc = [p \in Poller |-> "idle"]
  /\ pos = [p \in Poller |-> 1]
  /\ snap = [p \in Poller |-> NotRead]
  /\ polledAt = [p \in Poller |-> 0]
  /\ base = [p \in Poller |-> NotRead]
  /\ presetter = [p \in Poller |-> FALSE]
  /\ mirror = [k \in Key |-> NoRow]
  /\ ledger = [k \in Key |-> <<>>]
  /\ lastTool = Nothing /\ alarms = {}
  /\ touching = Nothing /\ latched = {control[s] : s \in Skip}
  /\ edits = 0
  /\ causes = [k \in Key |-> {}] /\ carried = [k \in Key |-> {}]
  /\ lastCycle = 0 /\ reset = NoReset

-----------------------------------------------------------------------------
(* The control.                                                            *)
Change(k, v, who) ==
  /\ edits < MaxEdits /\ edits' = edits + 1
  /\ v # control[k]
  /\ control' = [control EXCEPT ![k] = v]
  /\ causes' = [causes EXCEPT ![k] = @ \cup {who}]

\* An operator or the running program changes an item.
Edit(k, v) ==
  /\ k \notin Skip
  /\ Change(k, v, "manual")
  /\ reset' = IF k \in Pots THEN NoReset ELSE reset
  /\ UNCHANGED <<pollerVars, dbVars, clock, touching, latched, carried,
                 lastCycle>>

\* The presetter touches off for register g: G31 latches a new position.
Touch(g, v) ==
  /\ touching = Nothing /\ Skip # {}
  /\ v \notin latched
  /\ edits < MaxEdits /\ edits' = edits + 1
  /\ control' = [k \in Key |-> IF k \in Skip THEN v ELSE control[k]]
  /\ latched' = latched \cup {v}
  /\ touching' = [reg   |-> g,
                  cold  |-> \E s \in Skip : mirror[s].val = Nothing,
                  midCycle |-> \E p \in Poller : pc[p] # "idle"]
  /\ UNCHANGED <<pollerVars, dbVars, clock, causes, carried, lastCycle, reset>>

\* It writes the measured length soon after (see BeginSweep).
PresetWrite(v) ==
  /\ touching # Nothing
  /\ Change(touching.reg, v, IF touching.cold THEN "cold" ELSE "presetter")
  /\ touching' = Nothing
  /\ UNCHANGED <<pollerVars, dbVars, clock, latched, carried, lastCycle, reset>>

\* Where a pot's identity is known: control, mirror, snapshots under way.
Sightings(k) == {control[k], mirror[k].val} \cup
  {snap[p][k] : p \in {q \in Poller : pc[q] # "idle" /\ snap[q][k] # Nothing}}

\* A reset in the middle of a tool change: the PMC pot table is reinitialised.
PmcReset ==
  /\ edits < MaxEdits /\ edits' = edits + 1
  /\ \E k \in Pots : control[k] # Own
  /\ control' = [k \in Key |-> IF k \in Pots THEN Own ELSE control[k]]
  /\ reset' = [pots |-> {k \in Pots :
                         Sightings(k) \cap {Nothing, Empty, Own} = {}},
               cycles |-> 0, alarm |-> FALSE]
  /\ UNCHANGED <<pollerVars, dbVars, clock, touching, latched, causes,
                 carried, lastCycle>>

-----------------------------------------------------------------------------
(* read_snapshot: not atomic, one item after the other.                    *)
\* Writing a measured length takes less than the pause between two cycles:
\* none begins between a touch and its write once a cycle has been under way.
BeginSweep(p) ==
  /\ pc[p] = "idle" /\ clock < MaxSweeps
  /\ touching # Nothing => ~touching.midCycle
  /\ touching' = IF touching = Nothing THEN Nothing
                 ELSE [touching EXCEPT !.midCycle = TRUE]
  /\ clock' = clock + 1
  /\ polledAt' = [polledAt EXCEPT ![p] = clock + 1]
  /\ pc' = [pc EXCEPT ![p] = "sweep"]
  /\ UNCHANGED <<pos, snap, base, presetter, dbVars, control, latched, edits,
                 causes, carried, lastCycle, reset>>

ReadItem(p) ==
  /\ pc[p] = "sweep" /\ pos[p] <= Len(Order)
  /\ LET k == Order[pos[p]] IN
       /\ snap' = [snap EXCEPT ![p][k] = control[k]]
       /\ carried' = [carried EXCEPT ![k] = @ \cup causes[k]]
       /\ causes' = [causes EXCEPT ![k] = {}]
  /\ pos' = [pos EXCEPT ![p] = @ + 1]
  /\ UNCHANGED <<pc, polledAt, base, presetter, dbVars, controlVars, clock,
                 lastCycle, reset>>

\* A read that fails is left out of the snapshot: no data is not "empty".
SkipItem(p) ==
  /\ pc[p] = "sweep" /\ pos[p] <= Len(Order) /\ Order[pos[p]] \in Unreliable
  /\ pos' = [pos EXCEPT ![p] = @ + 1]
  /\ UNCHANGED <<pc, snap, polledAt, base, presetter, dbVars, controlVars,
                 clock, causes, carried, lastCycle, reset>>

-----------------------------------------------------------------------------
(* persist: SELECT, diff, upsert, audit, one commit.                       *)

\* (A variant without the look back at the previous cycle.)
SkipChangedLastCycleNever == FALSE
\* (A variant that takes the baseline insert for a touch.)
SkipChangedLastCycleCold ==
  \E s \in Skip : mirror[s].val # Nothing /\ mirror[s].changed = mirror[s].polled

\* A skip row whose last change is also its last poll, with an audit row of
\* that instant that has a real before value.
SkipChangedLastCycle ==
  \E s \in Skip :
    /\ mirror[s].val # Nothing
    /\ mirror[s].changed = mirror[s].polled
    /\ \E i \in 1..Len(ledger[s]) :
         ledger[s][i].at = mirror[s].changed /\ ledger[s][i].before # Nothing

Observed(p) == {k \in Key : snap[p][k] # Nothing}

SkipChangedNow(p) ==
  \E s \in Skip \cap Observed(p) :
    mirror[s].val # Nothing /\ mirror[s].val # snap[p][s]

Load(p) ==
  /\ pc[p] = "sweep" /\ pos[p] > Len(Order)
  /\ base' = [base EXCEPT ![p] = [k \in Key |-> mirror[k].val]]
  /\ presetter' = [presetter EXCEPT ![p] =
                     SkipChangedNow(p) \/ SkipChangedLastCycle]
  /\ pc' = [pc EXCEPT ![p] = "loaded"]
  /\ UNCHANGED <<pos, snap, polledAt, dbVars, controlVars, clock, causes,
                 carried, lastCycle, reset>>

\* (A variant that does not audit a first observation.)
ChangedOnly(p) ==
  {k \in Observed(p) : base[p][k] # Nothing /\ snap[p][k] # base[p][k]}

\* Items the diffs report as changed: against what was SELECTed.
Changed(p) == {k \in Observed(p) : snap[p][k] # base[p][k]}

AuditOf(p, k) ==
  [before |-> base[p][k], after |-> snap[p][k],
   source |-> IF k \notin Geom \/ base[p][k] = Nothing THEN "none"
              ELSE IF presetter[p] THEN "presetter_verified" ELSE "manual_edit",
   at |-> polledAt[p],
   causes |-> carried[k], prev |-> lastCycle]

\* (A variant that stamps last_changed_at on every poll.)
UpsertedAlways(p, k) ==
  [val |-> snap[p][k], polled |-> polledAt[p], changed |-> polledAt[p]]

\* The upsert: last_polled_at always, last_changed_at only when the row moves.
Upserted(p, k) ==
  [val     |-> snap[p][k],
   polled  |-> polledAt[p],
   changed |-> IF mirror[k].val # snap[p][k] THEN polledAt[p]
               ELSE mirror[k].changed]

\* detect_pot_reinit.
Reverted(p) ==
  {k \in Pots \cap Observed(p) :
     snap[p][k] = Own /\ base[p][k] \notin {Nothing, Empty, Own}}

\* (A variant with a strict bound.)
ReinitSuspectedAbove(p) == Cardinality(Reverted(p)) > ReinitMin
ReinitSuspected(p) == Cardinality(Reverted(p)) >= ReinitMin

\* (Variants: a cancel stored as the word, a cancel that erases it.)
ToolWordRaw(p) ==
  LET words == {snap[p][s] : s \in Status \cap Observed(p)} IN
  IF words = {} THEN lastTool ELSE CHOOSE w \in words : TRUE
ToolWordErased(p) ==
  LET words == {snap[p][s] : s \in Status \cap Observed(p)} \ Cancel IN
  IF words = {} THEN Nothing ELSE CHOOSE w \in words : TRUE

\* last_real_t_word and the COALESCE: a cancel keeps the last real T word.
ToolWord(p) ==
  LET words == {snap[p][s] : s \in Status \cap Observed(p)} \ Cancel IN
  IF words = {} THEN lastTool ELSE CHOOSE w \in words : TRUE

\* persist and read_snapshot return or raise: their locals are gone.
EndCycle(p) ==
  /\ pc' = [pc EXCEPT ![p] = "idle"]
  /\ pos' = [pos EXCEPT ![p] = 1]
  /\ snap' = [snap EXCEPT ![p] = NotRead]
  /\ base' = [base EXCEPT ![p] = NotRead]
  /\ polledAt' = [polledAt EXCEPT ![p] = 0]
  /\ presetter' = [presetter EXCEPT ![p] = FALSE]

Commit(p) ==
  /\ pc[p] = "loaded"
  /\ mirror' = [k \in Key |->
                 IF k \in Observed(p) THEN Upserted(p, k) ELSE mirror[k]]
  /\ ledger' = [k \in Key |-> IF k \in Changed(p) \ Status
                              THEN Append(ledger[k], AuditOf(p, k)) ELSE ledger[k]]
  /\ lastTool' = ToolWord(p)
  /\ alarms' = IF ReinitSuspected(p) THEN alarms \cup {polledAt[p]} ELSE alarms
  /\ reset' = [reset EXCEPT !.cycles = IF @ < 2 THEN @ + 1 ELSE @,
                            !.alarm = @ \/ ReinitSuspected(p)]
  /\ carried' = [k \in Key |-> IF k \in Observed(p) THEN {} ELSE carried[k]]
  /\ lastCycle' = polledAt[p]
  /\ EndCycle(p)
  /\ UNCHANGED <<controlVars, clock, causes>>

\* A FOCAS error in the sweep, a database error, a crash before the commit:
\* nothing of the cycle remains.
Abandon(p) ==
  /\ pc[p] # "idle"
  /\ EndCycle(p)
  /\ UNCHANGED <<dbVars, controlVars, clock, causes, carried, lastCycle, reset>>

PollerStep(p) ==
  BeginSweep(p) \/ ReadItem(p) \/ SkipItem(p) \/ Load(p) \/ Commit(p) \/ Abandon(p)

ControlStep ==
  \/ \E k \in Key, v \in Value : Edit(k, v)
  \/ \E g \in Geom, v \in Value : Touch(g, v)
  \/ \E v \in Value : PresetWrite(v)
  \/ PmcReset

Next == (\E p \in Poller : PollerStep(p)) \/ ControlStep
Spec == Init /\ [][Next]_vars

-----------------------------------------------------------------------------
Source == {"none", "presetter_verified", "manual_edit"}
Who == {"manual", "cold", "presetter"}
Entry == [before : Held, after : Value, source : Source, at : Nat,
          causes : SUBSET Who, prev : Nat]
Row == [val : Held, polled : Nat, changed : Nat]

\* Types; the remembered T word is never a cancel (migration 0011).
TypeOK ==
  /\ control \in [Key -> Value] /\ clock \in Nat
  /\ pc \in [Poller -> {"idle", "sweep", "loaded"}]
  /\ pos \in [Poller -> Nat \ {0}]
  /\ snap \in [Poller -> [Key -> Held]] /\ base \in [Poller -> [Key -> Held]]
  /\ polledAt \in [Poller -> Nat] /\ presetter \in [Poller -> BOOLEAN]
  /\ mirror \in [Key -> Row] /\ ledger \in [Key -> Seq(Entry)]
  /\ lastTool \in (Value \ Cancel) \cup {Nothing}
  /\ alarms \subseteq Nat
  /\ touching \in [reg : Geom, cold : BOOLEAN, midCycle : BOOLEAN] \cup {Nothing}
  /\ latched \subseteq Value /\ edits \in Nat
  /\ causes \in [Key -> SUBSET Who] /\ carried \in [Key -> SUBSET Who]
  /\ lastCycle \in Nat
  /\ reset \in [pots : SUBSET Pots, cycles : Nat, alarm : BOOLEAN]

(* The audit log replays to the mirror: for every audited item the entries  *)
(* form a chain from "no row", each starts from what the one before left    *)
(* and really moves the value, time goes forward, and the mirror row is     *)
(* what the last entry left, changed when that entry says (persist writes   *)
(* row and entry from two different SELECT-time and UPSERT-time values).    *)
Replays(log, row) ==
  /\ \A i \in 1..Len(log) :
       /\ log[i].before = IF i = 1 THEN Nothing ELSE log[i - 1].after
       /\ log[i].before # log[i].after
       /\ i > 1 => log[i - 1].at < log[i].at
  /\ IF log = <<>> THEN row.val = Nothing
     ELSE row.val = log[Len(log)].after /\ row.changed = log[Len(log)].at
  /\ row.changed <= row.polled

LedgerReplays == \A k \in Key \ Status : Replays(ledger[k], mirror[k])

(* offset_changes: of the entries of an item the one of the latest cycle,   *)
(* and of these the last.  (Variant: the first one found.)                  *)
LatestChangeFirst(log) == log[1]
LatestChange(log) ==
  log[CHOOSE i \in DOMAIN log :
        \A j \in DOMAIN log :
          log[j].at < log[i].at \/ (log[j].at = log[i].at /\ j <= i)]

(* The change that is shown beside a value is the one that made it: the     *)
(* latest entry of an item ends in the value of its mirror row and has the  *)
(* time of its last change, whatever failed or was left out since.          *)
ShownChangeIsCurrent ==
  \A k \in Key \ Status : ledger[k] # <<>> =>
    LET change == LatestChange(ledger[k]) IN
    change.after = mirror[k].val /\ change.at = mirror[k].changed

(* A length the presetter measured is never booked as a keypad edit (R11):  *)
(* an H_GEOM entry tagged manual_edit covers a change by hand, or a touch   *)
(* from before the skip variables had a baseline, however the touch, the    *)
(* write and the reads of the two items interleave (snapshot.py:97-108).    *)
PresetterCredited ==
  \A g \in Geom : \A i \in 1..Len(ledger[g]) :
    ledger[g][i].source = "manual_edit" => ledger[g][i].causes # {"presetter"}

(* The credit is never stale: an entry tagged presetter_verified has a      *)
(* genuine skip transition in its own or in the immediately preceding cycle *)
(* (snapshot.py:98-99).                                                     *)
CreditIsFresh ==
  \A g \in Geom : \A i \in 1..Len(ledger[g]) :
    LET e == ledger[g][i] IN
    e.source = "presetter_verified" =>
      \E s \in Skip : \E j \in 1..Len(ledger[s]) :
        ledger[s][j].before # Nothing /\ ledger[s][j].at \in {e.at, e.prev}

(* Who changed a value, and when, is never told wrong in the history that   *)
(* the API shows: no edit by hand for a measured length, no credit for a    *)
(* touch of long ago, no change that is not the last.                       *)
HistoryIsTrue == PresetterCredited /\ CreditIsFresh /\ ShownChangeIsCurrent

(* A PMC reset that takes at least 2 * ReinitMin - 1 identified pots raises *)
(* the alarm within two persisted cycles, wherever in the sweep it falls:   *)
(* of the two cycles that split it one sees ReinitMin of them.              *)
ResetAlarmed ==
  (/\ Cardinality(reset.pots) >= 2 * ReinitMin - 1
   /\ reset.cycles >= 2) => reset.alarm

(* The T word memory (COALESCE of snapshot.py:297-302) moves only to a real *)
(* word the status row shows at that moment, and that row never shows one   *)
(* the memory has missed: a cancel, or a cycle, loses nothing.              *)
ToolMemory ==
  /\ [][lastTool' # lastTool =>
          \E s \in Status : mirror'[s].val = lastTool']_vars
  /\ [](\A s \in Status : mirror[s].val \in Cancel \cup {Nothing, lastTool})

(* The cycle, a sweep, a SELECT and an upsert apart, with failed reads and  *)
(* abandoned cycles, is one atomic partial observation at its commit: the   *)
(* specification implements AuditedMirror.                                  *)
Booked(log) ==
  [i \in 1..Len(log) |-> [before |-> log[i].before, after |-> log[i].after]]

Abstract == INSTANCE AuditedMirror WITH
  row <- [k \in Key |-> mirror[k].val],
  log <- [k \in Key |-> Booked(ledger[k])],
  Unlogged <- Status

ImplementsAuditedMirror == Abstract!Spec
=============================================================================
