----------------------------- MODULE Assignments -----------------------------
(***************************************************************************)
(* Which tool sits at which T number, H and D register of which machine:   *)
(* the requests that create, move, confirm and delete an assignment,       *)
(* retire a tool and change machines and tools (assignments.py, tools.py   *)
(* and machines.py in apps/tooling/api/services), each a READ COMMITTED    *)
(* transaction of its own (db.py).  Every SELECT reads what is committed   *)
(* at that moment, and what it found is used later.                        *)
(* Rows keep their last writer until it ends; the partial unique indexes   *)
(* make a writer of a taken key fail, and wait for an undecided one.       *)
(***************************************************************************)
EXTENDS Naturals, FiniteSets

CONSTANTS
  Session, Asg, Tool, Machine, Number,
  None,
  MachineRow,   (* values a machine row may take: enabled, tsc, probe       *)
  Places,       (* registers a new assignment may be asked for              *)
  Moves,        (* register changes a PATCH may ask for                     *)
  MaxCalls, MaxPatches   (* bounds on the run                               *)

Slot == {"t", "h", "d"}
\* The NOT NULL columns.
Registers == {r \in [Slot -> Number \cup {None}] : r["t"] # None /\ r["h"] # None}

ASSUME AssignmentsAssumption ==
  /\ None \notin Asg \cup Tool \cup Machine \cup Number
  /\ MachineRow \subseteq [enabled : BOOLEAN, tsc : BOOLEAN,
                           probe : [{"t", "h"} -> Number \cup {None}]]
  /\ Places \subseteq Registers
  /\ Moves \subseteq UNION {[D -> Number \cup {None}] : D \in SUBSET Slot}
  /\ MaxCalls \in Nat /\ MaxPatches \in Nat

VARIABLES
  tool,     (* committed rows: retired, and requires_tsc                   *)
  machine,  (* committed rows                                              *)
  asg,      (* committed rows                                              *)
  at,       (* where a session is                                          *)
  call,     (* what it was asked                                           *)
  current,  (* the assignment row it has read, or is to insert             *)
  tsc,      (* the coolant its tool needs and its machine has, as read     *)
  write,    (* the row it has written but not committed                    *)
  changed,  (* history: which of the facts it looked at have changed since *)
  since,    (* history: the same of the session that last validated a row  *)
  shown,    (* history: registers whoever last confirmed a row had read    *)
  calls, patches   (* so far                                               *)

dbVars   == <<tool, machine, asg>>
sesVars  == <<call, current, tsc, write, changed>>
histVars == <<since, shown>>
vars == <<dbVars, at, sesVars, histVars, calls, patches>>

Absent == [life |-> "absent", tool |-> None, mach |-> None,
           reg |-> [s \in Slot |-> None], pending |-> FALSE]
NoTsc == [needed |-> FALSE, there |-> FALSE]
NoCall == [op |-> "none", id |-> None, tool |-> None, set |-> <<>>]

Init ==
  /\ tool \in [Tool -> [retired : {FALSE}, tsc : BOOLEAN]]
  /\ machine \in [Machine -> MachineRow]
  /\ asg = [a \in Asg |-> Absent]
  /\ at = [c \in Session |-> "idle"]
  /\ call = [c \in Session |-> NoCall]
  /\ current = [c \in Session |-> Absent]
  /\ tsc = [c \in Session |-> NoTsc]
  /\ write = [c \in Session |-> Absent]
  /\ changed = [c \in Session |-> {}]
  /\ since = [a \in Asg |-> {}]
  /\ shown = [a \in Asg |-> Absent.reg]
  /\ calls = 0 /\ patches = 0

-----------------------------------------------------------------------------
Goto(c, l) == at' = [at EXCEPT ![c] = l]

\* get_session: the transaction is over, and the session with it.  (A variant
\* gives the session back with what it has written.)
EndUnrolled(c) ==
  /\ Goto(c, "idle")
  /\ call' = [call EXCEPT ![c] = NoCall]
  /\ current' = [current EXCEPT ![c] = Absent]
  /\ tsc' = [tsc EXCEPT ![c] = NoTsc]
  /\ UNCHANGED write
End(c) ==
  /\ Goto(c, "idle")
  /\ call' = [call EXCEPT ![c] = NoCall]
  /\ current' = [current EXCEPT ![c] = Absent]
  /\ tsc' = [tsc EXCEPT ![c] = NoTsc]
  /\ write' = [write EXCEPT ![c] = Absent]

Refuse(c) == End(c) /\ UNCHANGED <<dbVars, changed, histVars, calls, patches>>

\* A look at some fact: from now on it counts as known.
Looked(c, fact) == changed' = [changed EXCEPT ![c] = @ \ {fact}]

Request(c, l, what, row) ==
  /\ at[c] = "idle" /\ calls < MaxCalls /\ calls' = calls + 1
  /\ Goto(c, l)
  /\ call' = [call EXCEPT ![c] = what]
  /\ current' = [current EXCEPT ![c] = row]
  /\ changed' = [changed EXCEPT ![c] = {}]
  /\ UNCHANGED <<dbVars, tsc, write, histVars, patches>>

\* POST /assignments; the id is new.
AskCreate(c, a, t, m, place) ==
  /\ asg[a].life = "absent" /\ \A d \in Session : call[d].id # a
  /\ Request(c, "tool", [op |-> "create", id |-> a, tool |-> t, set |-> place],
             [life |-> "active", tool |-> t, mach |-> m, reg |-> place, pending |-> TRUE])

\* PATCH, POST confirm and DELETE of one assignment.
AskUpdate(c, a, move) ==
  Request(c, "row", [op |-> "update", id |-> a, tool |-> None, set |-> move], Absent)
AskConfirm(c, a) ==
  Request(c, "row", [op |-> "confirm", id |-> a, tool |-> None, set |-> <<>>], Absent)
AskDelete(c, a) ==
  Request(c, "row", [op |-> "delete", id |-> a, tool |-> None, set |-> <<>>], Absent)

\* POST /tools/{id}/retire; "force" is one by an admin with force=true.
AskRetire(c, t, op) ==
  Request(c, "look", [op |-> op, id |-> None, tool |-> t, set |-> <<>>], Absent)

-----------------------------------------------------------------------------
(* Reads and checks.                                                       *)

\* The tool's row, which a move reads after its machine's; only a new
\* assignment is refused for a retired tool (_load_tool).
LoadTool(c) ==
  LET t == tool[current[c].tool] IN
  /\ at[c] = "tool"
  /\ IF call[c].op = "create" /\ t.retired THEN Refuse(c)
     ELSE /\ tsc' = [tsc EXCEPT ![c].needed = t.tsc]
          /\ Goto(c, IF call[c].op = "create" THEN "machine" ELSE "t")
          /\ changed' = [changed EXCEPT ![c] = @ \ {"tool", "need"}]
          /\ UNCHANGED <<dbVars, call, current, write, histVars, calls, patches>>

\* The row by its id, and that it is not deleted.
LoadRow(c) ==
  /\ at[c] = "row"
  /\ IF asg[call[c].id].life # "active" THEN Refuse(c)
     ELSE /\ current' = [current EXCEPT ![c] = asg[call[c].id]]
          /\ Goto(c, IF call[c].op = "update" THEN "machine" ELSE "write")
          /\ Looked(c, "row")
          /\ UNCHANGED <<dbVars, call, tsc, write, histVars, calls, patches>>

\* The registers asked for, and the others as they were read.
Wanted(c) ==
  [s \in Slot |-> IF s \in DOMAIN call[c].set THEN call[c].set[s]
                  ELSE current[c].reg[s]]

\* The probe lock of _validate_registers; (a variant looks at T only).
OnProbeT(m, reg) == m.probe["t"] # None /\ reg["t"] = m.probe["t"]
OnProbe(m, reg) == \E s \in {"t", "h"} : m.probe[s] # None /\ reg[s] = m.probe[s]

\* _load_machine, and the probe lock tested on its row.
LoadMachine(c) ==
  LET m == machine[current[c].mach] IN
  /\ at[c] = "machine"
  /\ IF \/ call[c].op = "create" /\ ~m.enabled
        \/ OnProbe(m, Wanted(c))
     THEN Refuse(c)
     ELSE /\ tsc' = [tsc EXCEPT ![c].there = m.tsc]
          /\ Goto(c, IF call[c].op = "create" THEN "t" ELSE "tool")
          /\ Looked(c, "machine")
          /\ UNCHANGED <<dbVars, call, current, write, histVars, calls, patches>>

\* _active_conflict of one column.
Taken(c, s) ==
  /\ Wanted(c)[s] # None
  /\ \E a \in Asg \ {call[c].id} :
       /\ asg[a].life = "active" /\ asg[a].mach = current[c].mach
       /\ asg[a].reg[s] = Wanted(c)[s]

\* The three of them, and the capability after the last.
CheckSlot(c, s) ==
  /\ at[c] = s
  /\ IF \/ Taken(c, s)
        \/ s = "d" /\ tsc[c].needed /\ ~tsc[c].there
     THEN Refuse(c)
     ELSE /\ Goto(c, CASE s = "t" -> "h" [] s = "h" -> "d" [] s = "d" -> "write")
          /\ UNCHANGED <<dbVars, sesVars, histVars, calls, patches>>

-----------------------------------------------------------------------------
(* Writes.                                                                 *)

\* (A variant writes back the whole row that was read.)
NewRowStale(c) ==
  CASE call[c].op = "create"  -> current[c]
    [] call[c].op = "update"  -> [current[c] EXCEPT !.reg = Wanted(c), !.pending = TRUE]
    [] call[c].op = "confirm" -> [current[c] EXCEPT !.pending = FALSE]
    [] call[c].op = "delete"  -> [current[c] EXCEPT !.life = "deleted"]

\* (A variant leaves a moved assignment confirmed.)
NewRowConfirmed(c) ==
  LET row == asg[call[c].id] IN
  CASE call[c].op = "create"  -> current[c]
    [] call[c].op = "update"  ->
         [row EXCEPT !.reg = [s \in Slot |-> IF s \in DOMAIN call[c].set
                                             THEN call[c].set[s] ELSE row.reg[s]]]
    [] call[c].op = "confirm" -> [row EXCEPT !.pending = FALSE]
    [] call[c].op = "delete"  -> [row EXCEPT !.life = "deleted"]

\* The row as it will be: an UPDATE sets the columns it names on the row it
\* finds once nobody else is writing it.
NewRow(c) ==
  LET row == asg[call[c].id] IN
  CASE call[c].op = "create"  -> current[c]
    [] call[c].op = "update"  ->
         [row EXCEPT !.reg = [s \in Slot |-> IF s \in DOMAIN call[c].set
                                             THEN call[c].set[s] ELSE row.reg[s]],
                     !.pending = TRUE]
    [] call[c].op = "confirm" -> [row EXCEPT !.pending = FALSE]
    [] call[c].op = "delete"  -> [row EXCEPT !.life = "deleted"]

\* The keys of a row in the partial unique indexes; (a variant has none for D).
KeysWithoutD(row) ==
  IF row.life # "active" THEN {}
  ELSE {<<row.mach, s, row.reg[s]>> : s \in {"t", "h"}}
Keys(row) ==
  IF row.life # "active" THEN {}
  ELSE {<<row.mach, s, row.reg[s]>> : s \in {s \in Slot : row.reg[s] # None}}

Writes(d, a) == write[d] # Absent /\ call[d].id = a

\* Another session is writing the row, or holds or frees a key it needs.
MustWait(c) ==
  \E d \in Session \ {c} : \E a \in Asg :
    /\ Writes(d, a)
    /\ \/ a = call[c].id
       \/ Keys(NewRow(c)) \cap (Keys(write[d]) \cup Keys(asg[a])) # {}

Duplicate(c) ==
  \E a \in Asg \ {call[c].id} : Keys(NewRow(c)) \cap Keys(asg[a]) # {}

\* INSERT or UPDATE; a violated index or NOT NULL ends the transaction.
Write(c) ==
  /\ at[c] = "write" /\ ~MustWait(c)
  /\ IF Duplicate(c) \/ NewRow(c).reg \notin Registers THEN Refuse(c)
     ELSE /\ write' = [write EXCEPT ![c] = NewRow(c)]
          /\ Goto(c, "commit")
          /\ UNCHANGED <<dbVars, call, current, tsc, changed, histVars, calls, patches>>

\* What a commit of this row means for the sessions that have read it, and
\* for one that has counted the assignments of its tool.
RowMoves(c) ==
  changed' = [d \in Session |->
    changed[d] \cup (IF d # c /\ call[d].id = call[c].id THEN {"row"} ELSE {})
               \cup (IF d # c /\ call[c].op = "create" /\ call[d].tool = call[c].tool
                     THEN {"use"} ELSE {})]

\* Whoever moves a row answers for all its registers, unless somebody else
\* moved it meanwhile; a confirmation answers for the registers it has read.
Answers(c, a) ==
  /\ since' = [since EXCEPT ![a] =
       CASE call[c].op = "create" -> changed[c]
         [] call[c].op = "update" ->
              (changed[c] \ {"row"})
                \cup (IF "row" \in changed[c] THEN @ \ {"row"} ELSE @ \cap {"tool"})
         [] call[c].op = "confirm" -> (@ \ {"row"}) \cup (changed[c] \cap {"row"})
         [] call[c].op = "delete" -> @]
  /\ shown' = [shown EXCEPT ![a] = IF call[c].op = "confirm" THEN current[c].reg ELSE @]

CommitRow(c) ==
  LET a == call[c].id IN
  /\ at[c] = "commit"
  /\ asg' = [asg EXCEPT ![a] = write[c]]
  /\ End(c)
  /\ RowMoves(c) /\ Answers(c, a)
  /\ UNCHANGED <<tool, machine, calls, patches>>

-----------------------------------------------------------------------------
(* Retiring a tool.                                                        *)

\* _get_row, and that it is not retired.
LookTool(c) ==
  /\ at[c] = "look"
  /\ IF tool[call[c].tool].retired THEN Refuse(c)
     ELSE /\ Goto(c, "count")
          /\ UNCHANGED <<dbVars, sesVars, histVars, calls, patches>>

InUse(t) == \E a \in Asg : asg[a].life = "active" /\ asg[a].tool = t

\* The count of active assignments; only an admin may force past it.  (A
\* variant does not refuse.)
CountNever(c) ==
  /\ at[c] = "count"
  /\ Goto(c, "retire") /\ Looked(c, "use")
  /\ UNCHANGED <<dbVars, call, current, tsc, write, histVars, calls, patches>>
Count(c) ==
  /\ at[c] = "count"
  /\ IF InUse(call[c].tool) /\ call[c].op # "force" THEN Refuse(c)
     ELSE /\ Goto(c, "retire") /\ Looked(c, "use")
          /\ UNCHANGED <<dbVars, call, current, tsc, write, histVars, calls, patches>>

\* UPDATE and commit.
CommitRetire(c) ==
  LET t == call[c].tool IN
  /\ at[c] = "retire"
  /\ tool' = [tool EXCEPT ![t].retired = TRUE]
  /\ End(c)
  /\ changed' = [d \in Session |->
       changed[d] \cup (IF d # c /\ call[d].tool = t THEN {"tool"} ELSE {})]
  /\ since' = [a \in Asg |->
       since[a] \cup (IF asg[a].tool = t /\ (call[c].op = "force" \/ "use" \in changed[c])
                      THEN {"tool"} ELSE {})]
  /\ UNCHANGED <<machine, asg, shown, calls, patches>>

-----------------------------------------------------------------------------
\* The connection is lost, or the client is.
Abort(c) == at[c] # "idle" /\ Refuse(c)

\* PATCH /machines/{id}: one UPDATE, with no look at the assignments.
PatchMachine(m, row) ==
  /\ patches < MaxPatches /\ patches' = patches + 1
  /\ machine[m] # row /\ machine' = [machine EXCEPT ![m] = row]
  /\ changed' = [d \in Session |->
       changed[d] \cup (IF current[d].mach = m THEN {"machine"} ELSE {})]
  /\ since' = [a \in Asg |->
       since[a] \cup (IF asg[a].mach = m THEN {"machine"} ELSE {})]
  /\ UNCHANGED <<tool, asg, at, call, current, tsc, write, shown, calls>>

\* PATCH /tools/{id} of requires_tsc, with no look at them either.
PatchTool(t) ==
  /\ patches < MaxPatches /\ patches' = patches + 1
  /\ tool' = [tool EXCEPT ![t].tsc = ~@]
  /\ changed' = [d \in Session |->
       changed[d] \cup (IF current[d].tool = t THEN {"need"} ELSE {})]
  /\ since' = [a \in Asg |->
       since[a] \cup (IF asg[a].tool = t THEN {"need"} ELSE {})]
  /\ UNCHANGED <<machine, asg, at, call, current, tsc, write, shown, calls>>

Ask(c) ==
  \/ \E a \in Asg, t \in Tool, m \in Machine, place \in Places :
       AskCreate(c, a, t, m, place)
  \/ \E a \in Asg, move \in Moves : AskUpdate(c, a, move)
  \/ \E a \in Asg : AskConfirm(c, a) \/ AskDelete(c, a)
  \/ \E t \in Tool, op \in {"retire", "force"} : AskRetire(c, t, op)

Step(c) ==
  \/ LoadTool(c) \/ LoadRow(c) \/ LoadMachine(c)
  \/ \E s \in Slot : CheckSlot(c, s)
  \/ Write(c) \/ CommitRow(c)
  \/ LookTool(c) \/ Count(c) \/ CommitRetire(c)

Next ==
  \/ \E c \in Session : Ask(c) \/ Step(c) \/ Abort(c)
  \/ \E m \in Machine, row \in MachineRow : PatchMachine(m, row)
  \/ \E t \in Tool : PatchTool(t)

Spec == Init /\ [][Next]_vars

-----------------------------------------------------------------------------
Ops == {"none", "create", "update", "confirm", "delete", "retire", "force"}
Facts == {"machine", "tool", "need", "row", "use"}

Rows == [life : {"absent", "active", "deleted"}, tool : Tool \cup {None},
         mach : Machine \cup {None}, reg : [Slot -> Number \cup {None}],
         pending : BOOLEAN]

\* Where a session is busy with one assignment.
AtRow == {"tool", "row", "machine", "write", "commit"} \cup Slot

\* A row that exists has a tool, a machine and its two registers.
Whole(row) ==
  row.life # "absent" =>
    row.tool # None /\ row.mach # None /\ row.reg \in Registers

TypeOK ==
  /\ tool \in [Tool -> [retired : BOOLEAN, tsc : BOOLEAN]]
  /\ machine \in [Machine -> MachineRow]
  /\ asg \in [Asg -> Rows] /\ \A a \in Asg : Whole(asg[a])
  /\ at \in [Session -> {"idle", "tool", "row", "machine", "write", "commit", "look",
                         "count", "retire"} \cup Slot]
  /\ call \in [Session -> [op : Ops, id : Asg \cup {None}, tool : Tool \cup {None},
                           set : Moves \cup Places \cup {<<>>}]]
  /\ tsc \in [Session -> [needed : BOOLEAN, there : BOOLEAN]]
  /\ current \in [Session -> Rows] /\ write \in [Session -> Rows]
  /\ \A c \in Session :
       /\ at[c] \in AtRow => /\ call[c].id \in Asg
                            /\ call[c].op \in {"create", "update", "confirm", "delete"}
       /\ call[c].op = "update" => call[c].set \in Moves
       /\ Whole(current[c]) /\ Whole(write[c])
       /\ write[c] # Absent <=> (at[c] = "commit")
  /\ changed \in [Session -> SUBSET Facts] /\ since \in [Asg -> SUBSET Facts]
  /\ shown \in [Asg -> [Slot -> Number \cup {None}]]
  /\ calls \in Nat /\ patches \in Nat

(* No two active assignments of a machine share a T number, an H or a D     *)
(* register (assignments.py:8-9), though all have found theirs free first.  *)
SlotsUnique ==
  \A a, b \in Asg, s \in Slot :
    /\ a # b /\ asg[a].life = "active" /\ asg[b].life = "active"
    /\ asg[a].mach = asg[b].mach /\ asg[a].reg[s] = asg[b].reg[s]
    => asg[a].reg[s] = None

(* No tool is assigned to the probe's T number or H register, nor one that  *)
(* needs coolant to a machine without (assignments.py:5-10), unless the     *)
(* machine or the tool was changed after somebody last answered for the     *)
(* registers.                                                               *)
Compatible ==
  \A a \in Asg :
    (asg[a].life = "active" /\ "machine" \notin since[a]) =>
      LET m == machine[asg[a].mach] IN
      /\ \A s \in {"t", "h"} : m.probe[s] # None => asg[a].reg[s] # m.probe[s]
      /\ "need" \in since[a] \/ m.tsc \/ ~tool[asg[a].tool].tsc

(* A retired tool has no active assignment (docs/04-api.md:172), but by     *)
(* force or when retirement and assignment overlapped.                      *)
RetiredUnused ==
  \A a \in Asg :
    (asg[a].life = "active" /\ tool[asg[a].tool].retired) => "tool" \in since[a]

(* Register moves re-open confirmation (assignments.py:170): an assignment  *)
(* that is not pending is where whoever confirmed it saw it, unless it was  *)
(* moved between his look and his confirmation.                             *)
ConfirmedAsShown ==
  \A a \in Asg :
    (asg[a].life = "active" /\ ~asg[a].pending) =>
      "row" \in since[a] \/ shown[a] = asg[a].reg

(* What the service checks of an assignment before it commits is still so   *)
(* ever after: probe lock and capability, retirement, confirmation.         *)
ChecksHold == Compatible /\ RetiredUnused /\ ConfirmedAsShown

(* A request changes the columns it names and no others, whatever was       *)
(* committed since it read the row; what is deleted stays deleted.          *)
OnlySentColumns ==
  [][\A a \in Asg :
       (asg[a].life # "absent" /\ asg'[a] # asg[a]) =>
         /\ asg'[a].life \in {asg[a].life, "deleted"}
         /\ \E c \in Session :
              /\ at[c] = "commit" /\ call[c].id = a
              /\ \A s \in Slot :
                   asg'[a].reg[s] # asg[a].reg[s] => s \in DOMAIN call[c].set]_vars
=============================================================================
