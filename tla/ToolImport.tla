----------------------------- MODULE ToolImport -----------------------------
(***************************************************************************)
(* The tool library between the CSV import of an office (import_tools.py)  *)
(* and the requests of the API meanwhile (services/tools.py, machines.py,  *)
(* tool_types.py, and assignments.py as one step each): the import is one  *)
(* READ COMMITTED transaction that looks up types and machines, checks the *)
(* whole file against them, upserts the tools and assigns them row by row. *)
(* A tool row is its type, which a file writes, and its retirement, which  *)
(* is none of the file's; D registers go the way of the H registers.       *)
(***************************************************************************)
EXTENDS Naturals, Sequences, SequencesExt

CONSTANTS
  Gtid, Type, Machine,
  Place,      (* the [t, h] that requests ask for                          *)
  File,       (* CSV files: of rows [gtid, type, machine, t, h, readable]  *)
  Absent      (* no such tool, machine, type, probe or file                *)

ASSUME ImportAssumption ==
  /\ File \subseteq Seq([gtid : Gtid, type : Type, machine : Machine \cup {Absent},
                       t : Nat \cup {Absent}, h : Nat \cup {Absent}, readable : BOOLEAN])
  /\ Absent \notin Machine /\ Absent \notin File /\ Absent \notin Place
  /\ Absent \notin [type : Type, retired : BOOLEAN]

VARIABLES
  types,      (* committed tool types                                      *)
  tools,      (* committed tools: [type, retired]                          *)
  probes,     (* committed machines: the reserved [t, h]                   *)
  assigned,   (* committed active assignments: [gtid, machine, t, h]       *)
  step,       (* of the import: idle, read, check, insert                  *)
  file,       (* its file                                                  *)
  looked,     (* the types and probes it looked up                         *)
  row,        (* the row it is at                                          *)
  upserted, given,   (* its tools and assignments, uncommitted             *)
  quiet,      (* history: file of the last import if nothing came since and *)
              (* no probe moved and no assignment was deleted under it     *)
  moved,      (* history: machines whose probe moved since the look-up     *)
  freed       (* history: assignments deleted since the look-up            *)

libVars == <<types, tools, probes, assigned>>
importVars == <<step, file, looked, row, upserted, given>>
histVars == <<quiet, moved, freed>>
libraryVars == <<libVars, importVars, histVars>>

None == [i \in {} |-> i]

LibraryInit ==
  /\ types = {} /\ tools = [g \in Gtid |-> Absent]
  /\ probes = [m \in Machine |-> Absent] /\ assigned = {}
  /\ step = "idle" /\ file = Absent /\ looked = Absent /\ row = 0
  /\ upserted = None /\ given = {}
  /\ quiet = Absent /\ moved = {} /\ freed = {}

-----------------------------------------------------------------------------
(* The API.  The rows that the import has written are its own until it ends. *)

Request ==
  /\ quiet' = Absent
  /\ UNCHANGED importVars

\* tool_types.create, and the seed of the types, which adds what is missing
CreateType(ty) ==
  /\ types' = types \cup {ty}
  /\ Request /\ UNCHANGED <<tools, probes, assigned, moved, freed>>

\* machines.create and update
SetProbe(m, p) ==
  /\ probes' = [probes EXCEPT ![m] = p]
  /\ moved' = IF step = "idle" THEN moved ELSE moved \cup {m}
  /\ Request /\ UNCHANGED <<types, tools, assigned, freed>>

SetTool(g, t) ==
  /\ g \notin DOMAIN upserted
  /\ tools' = [tools EXCEPT ![g] = t]
  /\ Request /\ UNCHANGED <<types, probes, assigned, moved, freed>>

\* create, update, retire and duplicate of tools.py
CreateTool(g, ty) == tools[g] = Absent /\ ty \in types /\ SetTool(g, [type |-> ty, retired |-> FALSE])
UpdateTool(g, ty) == tools[g] # Absent /\ ty \in types /\ SetTool(g, [tools[g] EXCEPT !.type = ty])
RetireTool(g, forced) ==
  /\ tools[g] # Absent /\ ~tools[g].retired
  /\ forced \/ \A a \in assigned : a.gtid # g
  /\ SetTool(g, [tools[g] EXCEPT !.retired = TRUE])
DuplicateTool(g, copy) ==
  /\ tools[g] # Absent /\ tools[copy] = Absent
  /\ SetTool(copy, [tools[g] EXCEPT !.retired = FALSE])

\* The partial unique indexes of the active assignments.
Collide(a, b) == a.machine = b.machine /\ (a.t = b.t \/ a.h = b.h)

\* What nobody may be given on a machine.
Reserved(probe, t, h) == probe.t = t \/ probe.h = h

\* assignments.create and delete
Assign(a) ==
  /\ tools[a.gtid] # Absent /\ ~tools[a.gtid].retired
  /\ probes[a.machine] # Absent /\ ~Reserved(probes[a.machine], a.t, a.h)
  /\ \A b \in assigned \cup given : ~Collide(a, b)
  /\ assigned' = assigned \cup {a}
  /\ Request /\ UNCHANGED <<types, tools, probes, moved, freed>>

Unassign(a) ==
  /\ assigned' = assigned \ {a}
  /\ freed' = IF step = "idle" THEN freed ELSE freed \cup {a}
  /\ Request /\ UNCHANGED <<types, tools, probes, moved>>

-----------------------------------------------------------------------------
(* The import.                                                             *)

\* _load_lookups
StartImport(f) ==
  /\ step = "idle" /\ step' = "read" /\ file' = f
  /\ looked' = [types |-> types, probes |-> probes]
  /\ row' = 1
  /\ UNCHANGED <<libVars, upserted, given, histVars>>

\* _build_assignment: the assignment that a row asks for, the H register like
\* the T number where it says none; a machine that is not there is skipped.
Wish(r) ==
  [gtid |-> r.gtid, machine |-> r.machine, t |-> r.t, h |-> IF r.h = Absent THEN r.t ELSE r.h]
Wishes(r) == r.machine # Absent /\ looked.probes[r.machine] # Absent

\* _build_assignment: the probe lock.  (Variant: before the default.)
LockedRaw(r) == Wishes(r) /\ Reserved(looked.probes[r.machine], r.t, r.h)
Locked(r) == Wishes(r) /\ Reserved(looked.probes[r.machine], Wish(r).t, Wish(r).h)

\* build_rows: rows with errors, which are numbers and booleans that do not read
\* (_dec, _int, _bool), unknown types, tools that had a row, and the lock.
Wrong(n) ==
  \/ ~file[n].readable
  \/ file[n].type \notin looked.types
  \/ \E k \in 1..(n - 1) : file[k].gtid = file[n].gtid
  \/ Locked(file[n])

\* run: the rows that are written, none of a file with one error.
\* (Variant: all but those with errors.)
WantedRight == {file[n] : n \in {k \in 1..Len(file) : ~Wrong(k)}}
Wanted == IF \E n \in 1..Len(file) : Wrong(n) THEN {} ELSE ToSet(file)

\* The upsert writes what the file owns; a new tool is not retired.
\* (Variant: it writes the whole row.)
UpsertedWhole(r) == [type |-> r.type, retired |-> FALSE]
Upserted(r) ==
  IF tools[r.gtid] = Absent THEN [type |-> r.type, retired |-> FALSE]
  ELSE [tools[r.gtid] EXCEPT !.type = r.type]

Upsert ==
  /\ step = "read" /\ Wanted # {}
  /\ step' = "check"
  /\ upserted' = [g \in {r.gtid : r \in Wanted} |->
                   Upserted(CHOOSE r \in Wanted : r.gtid = g)]
  /\ UNCHANGED <<libVars, file, looked, row, given, histVars>>

\* A row without an assignment, or with a T number that is taken, its own
\* assignments counted, is passed over.  (Variant: the latter is not.)
TakenNever(a) == FALSE
Taken(a) == \E b \in assigned \cup given : b.machine = a.machine /\ b.t = a.t

CheckRow ==
  /\ step = "check" /\ row <= Len(file)
  /\ IF file[row] \in Wanted /\ Wishes(file[row]) /\ ~Taken(Wish(file[row]))
     THEN step' = "insert" /\ UNCHANGED row
     ELSE row' = row + 1 /\ UNCHANGED step
  /\ UNCHANGED <<libVars, file, looked, upserted, given, histVars>>

InsertRow ==
  /\ step = "insert" /\ \A b \in assigned \cup given : ~Collide(Wish(file[row]), b)
  /\ given' = given \cup {Wish(file[row])}
  /\ row' = row + 1 /\ step' = "check"
  /\ UNCHANGED <<libVars, file, looked, upserted, histVars>>

Finish ==
  /\ step' = "idle" /\ file' = Absent /\ looked' = Absent /\ row' = 0
  /\ upserted' = None /\ given' = {} /\ moved' = {} /\ freed' = {}

CommitImport ==
  /\ step = "check" /\ row > Len(file)
  /\ tools' = [g \in Gtid |-> IF g \in DOMAIN upserted THEN upserted[g] ELSE tools[g]]
  /\ assigned' = assigned \cup given
  /\ quiet' = IF moved \cup freed = {} THEN file ELSE Absent
  /\ Finish /\ UNCHANGED <<types, probes>>

\* Rolled back: errors in the file, or an IntegrityError of an INSERT.
RefuseImport ==
  /\ \/ step = "read" /\ Wanted = {}
     \/ step = "insert" /\ \E b \in assigned \cup given : Collide(Wish(file[row]), b)
  /\ Finish /\ UNCHANGED <<libVars, quiet>>

\* Rolled back: a dry run, or the end of the process.
AbandonImport ==
  /\ step # "idle" /\ Finish /\ UNCHANGED <<libVars, quiet>>

LibraryNext ==
  \/ \E ty \in Type : CreateType(ty)
  \/ \E m \in Machine, p \in Place : SetProbe(m, p)
  \/ \E g \in Gtid :
       \/ \E ty \in Type : CreateTool(g, ty) \/ UpdateTool(g, ty)
       \/ \E forced \in BOOLEAN : RetireTool(g, forced)
       \/ \E copy \in Gtid : DuplicateTool(g, copy)
  \/ \E g \in Gtid, m \in Machine, p \in Place :
       Assign([gtid |-> g, machine |-> m, t |-> p.t, h |-> p.h])
  \/ \E a \in assigned : Unassign(a)
  \/ \E f \in File : StartImport(f)
  \/ Upsert \/ CheckRow \/ InsertRow \/ CommitImport \/ RefuseImport \/ AbandonImport

-----------------------------------------------------------------------------
\* What an import commits is the whole file: each of its tools with its type,
\* and each T number it names on a known machine in use, but for one whose
\* assignment was deleted after the import had passed its row over.
ImportIsWhole ==
  [][CommitImport =>
       \A r \in ToSet(file) :
         /\ tools'[r.gtid] # Absent /\ tools'[r.gtid].type = r.type
         /\ Wishes(r) => \E a \in assigned' \cup freed : a.machine = r.machine /\ a.t = r.t]_libraryVars

\* An import leaves a retired tool retired, whatever the file says of it.
RetirementIsKept ==
  [][CommitImport =>
       \A g \in Gtid : tools[g] # Absent /\ tools[g].retired => tools'[g].retired]_libraryVars

\* No import gives a tool the T number or H register of the probe, unless the
\* probe moved after the machines were looked up.
ProbeIsNotGiven ==
  [][CommitImport =>
       \A a \in given : a.machine \notin moved => ~Reserved(probes[a.machine], a.t, a.h)]_libraryVars

\* The same file again, with nothing in between, is accepted and changes nothing.
ReimportIsQuiet ==
  [][quiet = file /\ (CommitImport \/ RefuseImport) =>
       CommitImport /\ UNCHANGED <<tools, assigned>>]_libraryVars

\* An import adds its file to the library and nothing else, whatever the API
\* does between its look-up and its commit.
ImportIsSound ==
  ImportIsWhole /\ RetirementIsKept /\ ProbeIsNotGiven /\ ReimportIsQuiet
=============================================================================
