------------------------------- MODULE Schema -------------------------------
(***************************************************************************)
(* The thirteen revisions of the schema (migrations/versions), applied and *)
(* taken back on a database in use, and the tables as the program declares *)
(* them (shared/db.py, apps/tooling/api/tables.py).                        *)
(*                                                                         *)
(* The schema is its columns and those CHECK constraints that a later      *)
(* revision replaces or relies on.  Of the rows it keeps what these tell   *)
(* apart: of a machine its class and which parts of its probe are set, and *)
(* the classes of the banks in its offset mirror.                          *)
(***************************************************************************)
EXTENDS Naturals, SequencesExt

CONSTANTS
  Control,      (* names of machines                                       *)
  NotThere      (* of a machine: no row                                    *)

VARIABLES
  revision,   (* the last one applied, 0 for none                          *)
  db          (* columns, checks, machines, banks                          *)

schemaVars == <<revision, db>>

NoStep == [creates |-> {}, adds |-> {}, drops |-> {}, removes |-> {},
           lifts |-> {}, sets |-> {}]

ColumnsOf(tables) == UNION {{t} \X tables[t] : t \in DOMAIN tables}

\* A revision that creates tables with columns, with the tables its downgrade
\* drops; and one that adds columns to a table, with those its downgrade removes.
Creates(columns, dropped) ==
  [up   |-> [NoStep EXCEPT !.creates = {c[1] : c \in columns}, !.adds = columns],
   down |-> [NoStep EXCEPT !.drops = dropped]]
Adds(table, added, removed) ==
  [up   |-> [NoStep EXCEPT !.adds = {table} \X added],
   down |-> [NoStep EXCEPT !.removes = {table} \X removed]]

\* Checks: on a table, under a name, a rule.
Check(table, name, rule) == [table |-> table, name |-> name, rule |-> rule]
ProbePair == Check("machine", "ck_machine_probe_pair_consistent", "pot with T")
ProbeIdentity == Check("machine", "ck_machine_probe_identity_pair", "H with T")
MillBanksOnly == Check("focas_offset_register", "ck_focas_offset_register_type", "mill")
BothBanks == Check("focas_offset_register", "ck_focas_offset_register_type", "any")
MachineClass == Check("machine", "ck_machine_class", "any")

-----------------------------------------------------------------------------
(* The revisions.                                                          *)

Polled == {"machine_id", "last_polled_at", "last_changed_at"}

OfficeTables ==
  [machine |-> {"id", "name", "serial_number", "control_model", "ip_address",
     "focas_port", "pot_count", "probe_pot", "probe_t_number",
     "offset_register_count", "atc_strategy", "has_tsc", "has_toolsetter",
     "poll_interval_seconds", "enabled", "created_at", "updated_at", "retired_at"},
   user |-> {"id", "username", "display_name", "email", "role", "password_hash",
     "created_at", "last_login_at", "disabled_at"}]

AuditTable ==
  [audit_log |-> {"id", "occurred_at", "user_id", "machine_id", "event_type",
     "entity_type", "entity_id", "before_value", "after_value", "reason",
     "success", "error"}]

SharedCore ==
  [Creates(ColumnsOf(OfficeTables) \cup ColumnsOf(AuditTable), {"audit_log", "user", "machine"})
     EXCEPT !.up.sets = {ProbePair}]

FocasState ==
  LET tables ==
        [focas_offset_register |-> Polled \cup {"register_number", "register_type",
           "value_mm"},
         focas_pot |-> Polled \cup {"pot_number", "t_number"},
         focas_tool_life |-> {"machine_id", "t_number", "life_count", "life_max",
           "status", "last_polled_at"}]
  IN [Creates(ColumnsOf(tables), {"focas_tool_life", "focas_pot", "focas_offset_register"})
        EXCEPT !.up.sets = {MillBanksOnly}]

LibraryTables ==
  [tool_type |-> {"id", "code", "display_name", "has_corner_radius",
     "has_thread_pitch", "has_taper_angle", "is_drilling", "notes"},
   tool |-> {"id", "short_id", "tool_type_id", "diameter_mm", "diameter_inch",
     "flute_count", "corner_radius_mm", "flute_length_mm", "overall_length_mm",
     "shank_diameter_mm", "substrate", "coating", "vendor", "vendor_part_number",
     "vendor_url", "max_doc_mm", "max_woc_mm", "requires_tsc", "requires_climb",
     "is_consumable_class", "regrind_count", "notes", "created_at", "created_by",
     "updated_at", "retired_at"}]

WorkTables ==
  [assignment |-> {"id", "tool_id", "machine_id", "t_number", "h_register",
     "d_register", "cached_h_geom_mm", "cached_h_wear_mm", "cached_d_geom_mm",
     "cached_d_wear_mm", "pending_review", "pending_reason", "assigned_at",
     "assigned_by", "last_confirmed_at", "last_confirmed_by", "deleted_at"},
   pot_observation |-> {"id", "machine_id", "t_number", "pot_number", "observed_at"},
   offset_write_request |-> {"id", "machine_id", "register_number", "register_type",
     "intended_value_mm", "current_value_mm", "reason", "requested_by",
     "requested_at", "confirmed_by", "confirmed_at", "executed_at",
     "verified_value_mm", "success", "error"}]

ToolingCore ==
  LET probe == {<<"machine", "probe_h_register">>}
  IN [Creates(ColumnsOf(LibraryTables) \cup ColumnsOf(WorkTables),
              {"offset_write_request", "pot_observation", "assignment", "tool",
               "tool_type"})
        EXCEPT !.up.adds = @ \cup probe, !.down.removes = probe]

FocasMacro ==
  Creates({"focas_macro_var"} \X (Polled \cup {"number", "value"}), {"focas_macro_var"})

FocasStatus ==
  Creates({"focas_machine_status"} \X (Polled \cup {"head_t_number", "next_t_number",
             "mode", "running", "emergency_stop"}), {"focas_machine_status"})

ToolMaker ==
  Adds("tool", {"manufacturer", "edp_number"}, {"edp_number", "manufacturer"})

ProbePotDecouple ==
  [up   |-> [NoStep EXCEPT !.lifts = {ProbePair.name}, !.sets = {ProbeIdentity}],
   down |-> [NoStep EXCEPT !.lifts = {ProbeIdentity.name}, !.sets = {ProbePair}]]

LatheClass ==
  [up   |-> [NoStep EXCEPT !.adds = {<<"machine", "machine_class">>},
                           !.lifts = {MillBanksOnly.name},
                           !.sets = {MachineClass, BothBanks}],
   down |-> [NoStep EXCEPT !.removes = {<<"machine", "machine_class">>},
                           !.lifts = {BothBanks.name, MachineClass.name},
                           !.sets = {MillBanksOnly}]]

WorkOffsetMirror ==
  Creates({"focas_work_offset"} \X (Polled \cup {"slot", "axis", "value"}),
          {"focas_work_offset"})

ActiveWcs == Adds("focas_machine_status", {"active_wcs"}, {"active_wcs"})

\* (Variant: one column is forgotten on the way down.)
LastToolMemoryHalf ==
  Adds("focas_machine_status", {"last_tool_t_word", "last_tool_at"}, {"last_tool_at"})
LastToolMemory ==
  Adds("focas_machine_status", {"last_tool_t_word", "last_tool_at"},
       {"last_tool_at", "last_tool_t_word"})

\* (Variant: the column has another name than the program's.)
StatusPollIntervalRenamed ==
  Adds("machine", {"status_poll_interval"}, {"status_poll_interval"})
StatusPollInterval ==
  Adds("machine", {"status_poll_interval_seconds"}, {"status_poll_interval_seconds"})

ProgramDisplay ==
  Adds("focas_machine_status", {"program_number", "program_name"},
       {"program_name", "program_number"})

Revisions ==
  <<SharedCore, FocasState, ToolingCore, FocasMacro, FocasStatus, ToolMaker,
    ProbePotDecouple, LatheClass, WorkOffsetMirror, ActiveWcs, LastToolMemory,
    StatusPollInterval, ProgramDisplay>>
Latest == Len(Revisions)

-----------------------------------------------------------------------------
(* What a step does to a database in use.                                  *)

TablesOf(d) == {c[1] : c \in d.columns}

\* (Variant: the list of a mill's banks has those of a lathe.)
ObeyedAnyBank(rule, d) ==
  \A m \in Control : d.machines[m] # NotThere =>
    CASE rule = "pot with T" -> d.machines[m].pot = d.machines[m].t
      [] rule = "H with T" -> d.machines[m].h = d.machines[m].t
      [] rule \in {"mill", "any"} -> TRUE

Obeyed(rule, d) ==
  \A m \in Control : d.machines[m] # NotThere =>
    CASE rule = "pot with T" -> d.machines[m].pot = d.machines[m].t
      [] rule = "H with T" -> d.machines[m].h = d.machines[m].t
      [] rule = "mill" -> "lathe" \notin d.banks[m]
      [] rule = "any" -> TRUE

\* A dropped column loses its values; one that is added has its default.
Without(machine, gone) ==
  IF machine = NotThere \/ <<"machine", "id">> \in gone THEN NotThere
  ELSE [machine EXCEPT
          !.h = @ /\ <<"machine", "probe_h_register">> \notin gone,
          !.class = IF <<"machine", "machine_class">> \in gone THEN "mill" ELSE @]

\* The database after a step.
After(d, s) ==
  LET gone == {c \in d.columns : c[1] \in s.drops} \cup s.removes
  IN [columns  |-> (d.columns \ gone) \cup s.adds,
      checks   |-> {k \in d.checks : k.table \notin s.drops /\ k.name \notin s.lifts}
                     \cup s.sets,
      machines |-> [m \in Control |-> Without(d.machines[m], gone)],
      banks    |-> [m \in Control |->
                      IF "focas_offset_register" \in s.drops THEN {} ELSE d.banks[m]]]

\* What is there is not made again, what is not there is not taken away.
Possible(d, s) ==
  /\ s.creates \cap TablesOf(d) = {} /\ s.adds \cap d.columns = {}
  /\ s.drops \subseteq TablesOf(d) /\ s.removes \subseteq d.columns
  /\ s.lifts \subseteq {k.name : k \in d.checks}

\* (Variant: NOT VALID, a check that spares the rows that are there.)
AcceptedNotValid(d, s) == Possible(d, s)

\* PostgreSQL refuses a step also for a row that breaks a new check.
Accepted(d, s) == Possible(d, s) /\ \A k \in s.sets : Obeyed(k.rule, d)

SchemaInit ==
  /\ revision = 0
  /\ db = [columns |-> {}, checks |-> {}, machines |-> [m \in Control |-> NotThere],
           banks |-> [m \in Control |-> {}]]

\* alembic upgrade, alembic downgrade, one revision at a time.  A longer run is
\* one transaction and ends where the single steps do, or where it began.
Upgraded ==
  /\ revision < Latest
  /\ Accepted(db, Revisions[revision + 1].up)
  /\ db' = After(db, Revisions[revision + 1].up) /\ revision' = revision + 1

Downgraded ==
  /\ revision > 0
  /\ Accepted(db, Revisions[revision].down)
  /\ db' = After(db, Revisions[revision].down) /\ revision' = revision - 1

\* A machine is registered, or its row changed, by the program of the day, which
\* knows the columns of its day.  The class is set in the database alone.
PutMachine(m, row) ==
  LET put == [db EXCEPT !.machines[m] = row]
  IN /\ "machine" \in TablesOf(db)
     /\ row.h => <<"machine", "probe_h_register">> \in db.columns
     /\ row.class = "lathe" => <<"machine", "machine_class">> \in db.columns
     /\ \A k \in db.checks : Obeyed(k.rule, put)
     /\ db' = put /\ UNCHANGED revision

\* persist stores the banks of the profile that the class of the machine chose.
PutOffsets(m) ==
  LET put == [db EXCEPT !.banks[m] = @ \cup {db.machines[m].class}]
  IN /\ db.machines[m] # NotThere /\ "focas_offset_register" \in TablesOf(db)
     /\ \A k \in db.checks : Obeyed(k.rule, put)
     /\ db' = put /\ UNCHANGED revision

\* As 0008 has it: the rows of a lathe are deleted before a downgrade.
DeleteOffsets(m, class) ==
  /\ class \in db.banks[m]
  /\ db' = [db EXCEPT !.banks[m] = @ \ {class}] /\ UNCHANGED revision

Probes == [pot : BOOLEAN, t : BOOLEAN, h : BOOLEAN, class : {"mill", "lathe"}]

SchemaNext ==
  \/ Upgraded \/ Downgraded
  \/ \E m \in Control, row \in Probes : PutMachine(m, row)
  \/ \E m \in Control : PutOffsets(m)
  \/ \E m \in Control, class \in {"mill", "lathe"} : DeleteOffsets(m, class)

-----------------------------------------------------------------------------
(* The tables as the program declares them.                                *)

DeclaredOffice ==
  [machine |-> {"id", "name", "serial_number", "control_model", "ip_address",
     "focas_port", "pot_count", "probe_pot", "probe_t_number", "probe_h_register",
     "offset_register_count", "atc_strategy", "has_tsc", "has_toolsetter",
     "poll_interval_seconds", "status_poll_interval_seconds", "enabled",
     "machine_class", "created_at", "updated_at", "retired_at"},
   user |-> {"id", "username", "display_name", "email", "role", "password_hash",
     "created_at", "last_login_at", "disabled_at"}]

DeclaredMirror ==
  [focas_offset_register |-> Polled \cup {"register_number", "register_type",
     "value_mm"},
   focas_pot |-> Polled \cup {"pot_number", "t_number"},
   focas_tool_life |-> {"machine_id", "t_number", "life_count", "life_max",
     "status", "last_polled_at"},
   focas_macro_var |-> Polled \cup {"number", "value"},
   focas_machine_status |-> Polled \cup {"head_t_number", "next_t_number", "mode",
     "running", "emergency_stop", "active_wcs", "program_number", "program_name",
     "last_tool_t_word", "last_tool_at"},
   focas_work_offset |-> Polled \cup {"slot", "axis", "value"},
   audit_log |-> {"id", "occurred_at", "user_id", "machine_id", "event_type",
     "entity_type", "entity_id", "before_value", "after_value", "reason",
     "success", "error"}]

DeclaredTooling ==
  [tool_type |-> {"id", "code", "display_name", "has_corner_radius",
     "has_thread_pitch", "has_taper_angle", "is_drilling", "notes"},
   tool |-> {"id", "short_id", "tool_type_id", "diameter_mm", "diameter_inch",
     "flute_count", "corner_radius_mm", "flute_length_mm", "overall_length_mm",
     "shank_diameter_mm", "substrate", "coating", "vendor", "vendor_part_number",
     "vendor_url", "manufacturer", "edp_number", "max_doc_mm", "max_woc_mm",
     "requires_tsc", "requires_climb", "is_consumable_class", "regrind_count",
     "notes", "created_at", "created_by", "updated_at", "retired_at"},
   assignment |-> {"id", "tool_id", "machine_id", "t_number", "h_register",
     "d_register", "cached_h_geom_mm", "cached_h_wear_mm", "cached_d_geom_mm",
     "cached_d_wear_mm", "pending_review", "pending_reason", "assigned_at",
     "assigned_by", "last_confirmed_at", "last_confirmed_by", "deleted_at"},
   pot_observation |-> {"id", "machine_id", "t_number", "pot_number", "observed_at"},
   offset_write_request |-> {"id", "machine_id", "register_number", "register_type",
     "intended_value_mm", "current_value_mm", "reason", "requested_by",
     "requested_at", "confirmed_by", "confirmed_at", "executed_at",
     "verified_value_mm", "success", "error"}]

-----------------------------------------------------------------------------
\* However a database came to a revision, by upgrades, downgrades and refusals,
\* with whatever rows, it has the schema of a straight way there: each of the
\* downgrades takes back what its upgrade did, no more and no less.
SchemaFollowsRevision ==
  /\ db.columns = UNION {Revisions[n].up.adds : n \in 1..revision}
  /\ db.checks = UNION {{k \in Revisions[n].up.sets :
                           \A later \in (n + 1)..revision :
                             k.name \notin Revisions[later].up.lifts} : n \in 1..revision}

\* At the latest revision the database has the columns that the program declares
\* and no others (the drift that shared/db.py:13-16 and tables.py:9-11 fear).
LatestMatchesProgram ==
  revision = Latest => db.columns = UNION {ColumnsOf(DeclaredOffice), ColumnsOf(DeclaredMirror),
                                           ColumnsOf(DeclaredTooling)}

\* From 0007 on the locks of a probe on T and on H are both there or both not, in
\* the rows of machines that were registered earlier too.
ProbeLocksTogether ==
  revision >= 7 => \A m \in Control :
    db.machines[m] # NotThere => db.machines[m].t = db.machines[m].h

\* No migration, down and up again, makes a mill of a machine that has the banks
\* of a lathe in its mirror (R20).
LatheStaysLathe ==
  [][\A m \in Control :
       (revision' # revision /\ db.machines[m] # NotThere /\ "lathe" \in db.banks[m])
         => db'.machines[m] = db.machines[m]]_schemaVars

\* A database may be taken up and down in use: its schema is that of its
\* revision, and its machines remain what they are.
SchemaIsKept ==
  /\ [](SchemaFollowsRevision /\ LatestMatchesProgram /\ ProbeLocksTogether)
  /\ LatheStaysLathe
=============================================================================
