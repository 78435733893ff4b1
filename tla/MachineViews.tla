---------------------------- MODULE MachineViews -----------------------------
(***************************************************************************)
(* What becomes of the mirror that the sweeps of a control fill: the G10   *)
(* program that exports its offsets, which an operator may run at the      *)
(* panel; the occupancy of its pots and the active loadout; and the        *)
(* lockout that a status decides (write_safety.mode_lockout_ok).           *)
(***************************************************************************)
EXTENDS ProgramExport, G10, Occupancy

CONSTANTS
  RegisterCount,   (* machine.offset_register_count                        *)
  Assigned,        (* the register of each tool with an active assignment  *)
  Records,         (* whether it is still to be reviewed                   *)
  ProbeTool,       (* machine.probe_t_number                               *)
  Presetter,       (* registers last changed by the presetter              *)
  MaxExports       (* bound on exports of the offsets                      *)

\* A tool has at most one active assignment.
ASSUME MachineViewsAssumption ==
  /\ RegisterCount \in 0..RegisterLimit /\ MaxExports \in Nat
  /\ \A t \in DOMAIN Assigned : Assigned[t] \in Seq(Nat) /\ Len(Assigned[t]) <= 1

VARIABLES
  punched,   (* the last G10 program exported, and what it came from       *)
  exports    (* so far                                                     *)

panelVars == <<punched, exports>>
vars == <<exportVars, panelVars>>

Init ==
  /\ ExportInit
  /\ punched = Nothing /\ exports = 0

Class == IF profile = "lathe" THEN "lathe" ELSE "mill"

\* export_g10: the unit is the funnel machine_offset_unit, always inch.  A sweep
\* touches the mirror only at its end, so nothing is lost by exporting between
\* sweeps.
ExportG10(sparse) ==
  /\ profile # "export" /\ outcome # "sweeping"
  /\ exports < MaxExports /\ exports' = exports + 1
  /\ punched' = Just([rows |-> mirror,
                      listed |-> SelectRegisters(mirror, sparse, RegisterCount),
                      blocks |-> BuildG10(mirror, Class, "inch", sparse, RegisterCount)])
  /\ UNCHANGED exportVars

\* The operator runs the program, which needs a control with all the banks: each
\* block replaces the words it names.
WordOf(key, value) == IF key[1] = "tip" THEN value \div Whole ELSE value \div Increment

Written(blocks) == Overlaid([i \in DOMAIN blocks |-> PanelWrites(blocks[i])])

RunG10 ==
  /\ punched # Nothing /\ layout.type # 1
  /\ LET rows == Written(punched[1].blocks)
     IN control' = [k \in Keys |-> IF k \in DOMAIN rows THEN WordOf(k, rows[k])
                                   ELSE control[k]]
  /\ held' = [k \in Keys |-> held[k] \cup {control'[k]}]
  /\ punched' = Nothing
  /\ UNCHANGED <<profile, link, layout, clientVars, sweepVars, mirror,
                 disturbed, answered, relaid, events, uploadVars, exports>>

Next ==
  \/ \E sparse \in BOOLEAN : ExportG10(sparse)
  \/ RunG10
  \/ ExportNext /\ UNCHANGED panelVars

\* The threads that sweep and export go on; FOCAS calls return.
Fairness == WF_vars((Sweep /\ UNCHANGED <<uploadVars, panelVars>>)
                      \/ (Export /\ UNCHANGED panelVars))

Spec == Init /\ [][Next]_vars /\ Fairness

-----------------------------------------------------------------------------
TypeOK ==
  /\ ReadTypeOK /\ UploadTypeOK
  /\ exports \in 0..MaxExports /\ Len(punched) <= 1

\* Whatever the control does between two calls, what a sweep or an export tells
\* was so, and is all there is if nothing disturbed it; it fails only for a
\* cause, and it leaves neither a handle nor the upload mode behind.
ReadsAreSound ==
  /\ SnapshotIsHonest /\ SweepsAreComplete /\ NameFitsNumber /\ UploadIsWhole
  /\ OutagesAreNoticed /\ FailuresHaveCauses
  /\ HandlesAreReturned /\ UploadModeIsLeft

(* Of the offset program.                                                  *)

OffsetKeys == {k \in Keys : k[1] \in ClassBanks(Class)}

\* The strict parser reads the program as the rows it was built from, absent
\* banks of the registers it lists as zero.
ParsesBack ==
  punched # Nothing =>
    LET parsed == ParseG10(punched[1].blocks)
    IN /\ DOMAIN parsed = ClassBanks(Class) \X punched[1].listed
       /\ \A k \in DOMAIN parsed :
            parsed[k] = IF k \in DOMAIN punched[1].rows THEN punched[1].rows[k] ELSE 0

\* Running an exported program restores what the mirror had and leaves every
\* register it does not list alone: an offset is afterwards as it was before,
\* or as the mirror had it, or, in a register that is listed, zero because the
\* mirror had never seen it.
RunningRestores ==
  [][RunG10 =>
       \A k \in OffsetKeys :
         LET now == Shown(k, control'[k])
             rows == punched[1].rows
         IN IF k[2] \notin punched[1].listed THEN control'[k] = control[k]
            ELSE IF k \in DOMAIN rows THEN now = rows[k] ELSE now = 0]_vars

\* An exported program says what the mirror had, to its reader and to the panel.
ExportRestores == []ParsesBack /\ RunningRestores

-----------------------------------------------------------------------------
(* Of the offset table for the crib.                                       *)

CsvColumns == ClassBanks(Class)

\* (Variant: a register that has a zero is skipped.)
CsvRegistersAny(sparse) ==
  IF sparse THEN {n \in Registers(mirror) : \A k \in DOMAIN mirror :
                    k[1] \in AllBanks /\ k[2] = n => mirror[k] # 0}
  ELSE 1..RegisterCount

\* Sparse: those the mirror has, but the ones where all it has is zero.
CsvRegisters(sparse) ==
  IF sparse THEN {n \in Registers(mirror) : \E k \in DOMAIN mirror :
                    k[1] \in AllBanks /\ k[2] = n /\ mirror[k] # 0}
  ELSE 1..RegisterCount

\* _identity_by_register: the tools whose assignment names a register.
IdentityByRegister(n) == {t \in DOMAIN Assigned : Assigned[t] = Just(n)}

\* export_csv: a cell for each bank the mirror has, the others are blank.
ExportCsv(sparse) ==
  [n \in CsvRegisters(sparse) |->
     [cells |-> [bank \in {b \in CsvColumns : <<b, n>> \in DOMAIN mirror} |->
                   mirror[<<bank, n>>]],
      tools |-> IdentityByRegister(n)]]

-----------------------------------------------------------------------------
(* Of the pots and the loadout.                                            *)

Head1 == Lookup(mirror, <<"head", 0>>)
Next1 == Lookup(mirror, <<"next", 0>>)
PotRows == Occupied(mirror, Assigned, ProbeTool, Presetter)
Loadout == BuildActiveLoadout(PotRows, Head1, Next1, Records)

\* A pot is said to be loaded only with a tool whose assigned register the
\* panel has shown to be non-zero; and a length that was seen zero, or a tool
\* without an assignment, never makes it so.
PresenceNeedsProof ==
  \A row \in PotRows :
    row.state = "loaded" =>
      /\ row.t # ProbeTool /\ row.t[1] \in DOMAIN Assigned
      /\ LET k == <<"h_geom", Assigned[row.t[1]][1]>>
         IN k \in DOMAIN mirror /\ mirror[k] # 0

\* Every tool that the mirror has in the spindle, on deck or in a pot that is not
\* empty is listed, and listed once, though a cell keeps the number of a tool
\* that has left its pot.
LoadoutListsOnce ==
  LET seen == {row.t : row \in {row \in PotRows : row.state # "empty"}}
  IN /\ \A t \in (seen \cup {Head1, Next1}) \ {Nothing} :
          \E entry \in Loadout : entry.t = t[1]
     /\ \A entry, other \in Loadout : entry.t = other.t => entry = other
     /\ \A entry \in Loadout :
          entry.where = "pot" => entry.state # "empty" /\ Just(entry.t) \in seen

\* What the office prints, what it punches for the control and what it shows of
\* the pots never tell different stories: table and program list the same
\* registers with the same values, the blanks of the one being the zeros of the
\* other, and a tool that is shown as loaded stands in the table beside the
\* register it was measured in, with that length.
ViewsAgree ==
  /\ \A sparse \in BOOLEAN :
       LET csv == ExportCsv(sparse)
           run == Written(BuildG10(mirror, Class, "inch", sparse, RegisterCount))
       IN /\ DOMAIN run = CsvColumns \X DOMAIN csv
          /\ \A k \in DOMAIN run :
               LET cells == csv[k[2]].cells
               IN run[k] = IF k[1] \in DOMAIN cells THEN cells[k[1]] ELSE 0
  /\ \A row \in PotRows : row.state = "loaded" =>
       \E n \in CsvRegisters(TRUE) :
         LET line == ExportCsv(TRUE)[n]
         IN row.t[1] \in line.tools /\ "h_geom" \in DOMAIN line.cells /\ line.cells["h_geom"] # 0

-----------------------------------------------------------------------------
(* Of the lockout.                                                         *)

WriteSafeModes == {"mdi", "edit", "hnd", "jog", "ref"}

\* mode_lockout_ok
ModeLockoutOk(status) == ~status.running /\ status.mode \in WriteSafeModes

\* Whatever the flags of a status say, a control that executes or holds a
\* program, or has one selected for execution, or is in a mode that is not
\* known, was so at no moment of the sweep that unlocks writing.
LockoutIsEarned ==
  (<<"status", 0>> \in DOMAIN snap /\ ModeLockoutOk(snap[<<"status", 0>>])) =>
    \E word \in held[<<"status", 0>>] :
      word.run \in {0, 1} /\ word.aut \in {0, 3, 4, 5, 9}

\* What is concluded from a mirror that sweeps have filled, each from a time of
\* its own, is never more than they have shown: of a pot, of the loadout, of
\* the table beside them, and of the control that may be written to.
ViewsAreTrue ==
  PresenceNeedsProof /\ LoadoutListsOnce /\ ViewsAgree /\ LockoutIsEarned
=============================================================================
