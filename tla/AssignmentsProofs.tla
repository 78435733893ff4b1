------------------------- MODULE AssignmentsProofs --------------------------
(* Theorems about Assignments for any number of sessions, rows, machines    *)
(* and requests.  IInv gives the types, and that no two active assignments  *)
(* of a machine ever share a register; KInv adds what each session has read *)
(* and whether it is still so, and with it that requests change only the    *)
(* columns they name and that what the service checks still holds.          *)
EXTENDS Assignments, TLAPS

(* A session has read, or is to insert, an active row, and a row that is    *)
(* being changed exists, also once it is written.                           *)
Live ==
  \A c \in Session :
    /\ at[c] \in AtRow \ {"row", "commit"} =>
         /\ current[c].life = "active"
         /\ call[c].op # "create" => asg[call[c].id].life # "absent"
    /\ at[c] = "commit" => write[c].life # "absent"

(* Whoever has written a row is the only one who has.                       *)
OneWriter ==
  \A c, d \in Session :
    at[c] = "commit" /\ at[d] = "commit" /\ call[c].id = call[d].id => c = d

(* The index holds each key once, whether it is committed or not.           *)
KeysApart ==
  /\ \A a, b \in Asg : a # b => Keys(asg[a]) \cap Keys(asg[b]) = {}
  /\ \A c \in Session, b \in Asg :
       at[c] = "commit" /\ b # call[c].id => Keys(write[c]) \cap Keys(asg[b]) = {}
  /\ \A c, d \in Session :
       at[c] = "commit" /\ at[d] = "commit" /\ c # d =>
         Keys(write[c]) \cap Keys(write[d]) = {}

IInv == TypeOK /\ Live /\ OneWriter /\ KeysApart

-----------------------------------------------------------------------------
(* Types.                                                                   *)

\* The placeholders are well typed.
LEMMA BlankTypes ==
  /\ Absent \in Rows /\ Whole(Absent) /\ Absent.life = "absent" /\ Keys(Absent) = {}
  /\ Absent.reg \in [Slot -> Number \cup {None}]
  /\ NoCall \in [op : Ops, id : Asg \cup {None}, tool : Tool \cup {None},
                 set : Moves \cup Places \cup {<<>>}]
  /\ NoCall.op = "none"
  /\ NoTsc \in [needed : BOOLEAN, there : BOOLEAN]
  BY DEF Absent, Rows, Whole, Keys, NoCall, Ops, NoTsc

\* A row as a request leaves it exists and, its registers given, is whole.
LEMMA NewRowTypes ==
  ASSUME AssignmentsAssumption, TypeOK, Live, NEW c \in Session, at[c] = "write",
         NewRow(c).reg \in Registers
  PROVE  NewRow(c) \in Rows /\ Whole(NewRow(c)) /\ NewRow(c).life # "absent"
  <1> DEFINE a == call[c].id  row == asg[a]
  <1>1. /\ a \in Asg /\ row \in Rows /\ Whole(row)
        /\ current[c] \in Rows /\ Whole(current[c])
        /\ call[c].op \in {"create", "update", "confirm", "delete"}
    BY DEF TypeOK, AtRow
  <1>2. /\ current[c].life = "active"
        /\ call[c].op # "create" => row.life # "absent"
    BY DEF Live, AtRow
  <1>3. CASE call[c].op = "create"
    BY <1>1, <1>2, <1>3 DEF NewRow
  <1>4. CASE call[c].op = "update"
    <2> DEFINE reg == [s \in Slot |-> IF s \in DOMAIN call[c].set
                                      THEN call[c].set[s] ELSE row.reg[s]]
    <2>1. NewRow(c) = [row EXCEPT !.reg = reg, !.pending = TRUE]
      BY <1>4 DEF NewRow
    <2>2. NewRow(c).reg = reg
      BY <1>1, <2>1 DEF Rows
    <2>3. reg \in [Slot -> Number \cup {None}]
      BY <2>2 DEF Registers
    <2> HIDE DEF reg
    <2>4. QED
      BY <1>1, <1>2, <1>4, <2>1, <2>2, <2>3 DEF Rows, Whole
  <1>5. CASE call[c].op = "confirm"
    BY <1>1, <1>2, <1>5 DEF NewRow, Rows, Whole
  <1>6. CASE call[c].op = "delete"
    BY <1>1, <1>2, <1>6 DEF NewRow, Rows, Whole
  <1>7. QED
    BY <1>1, <1>3, <1>4, <1>5, <1>6

\* The end of a transaction leaves its session well typed.
LEMMA EndTypes ==
  ASSUME TypeOK, NEW c \in Session, End(c), UNCHANGED <<machine, patches, calls>>,
         tool' \in [Tool -> [retired : BOOLEAN, tsc : BOOLEAN]],
         asg' \in [Asg -> Rows], \A a \in Asg : Whole(asg'[a]),
         changed' \in [Session -> SUBSET Facts], since' \in [Asg -> SUBSET Facts],
         shown' \in [Asg -> [Slot -> Number \cup {None}]]
  PROVE  TypeOK'
  BY BlankTypes DEF TypeOK, End, Goto, AtRow, Slot

\* So does a refusal, which ends it.
LEMMA RefuseTypes ==
  ASSUME TypeOK, NEW c \in Session, Refuse(c) PROVE TypeOK'
  BY EndTypes DEF Refuse, dbVars, histVars, TypeOK

\* Init is well typed.
LEMMA InitTypeOK == AssignmentsAssumption /\ Init => TypeOK
  <1> SUFFICES ASSUME AssignmentsAssumption, Init PROVE TypeOK
    OBVIOUS
  <1>1. tool \in [Tool -> [retired : BOOLEAN, tsc : BOOLEAN]]
    <2>1. \A r \in [retired : {FALSE}, tsc : BOOLEAN] :
             r \in [retired : BOOLEAN, tsc : BOOLEAN]
      OBVIOUS
    <2>2. QED
      BY <2>1 DEF Init
  <1>2. \A c \in Session : at[c] = "idle" /\ write[c] = Absent
    BY DEF Init
  <1>3. at \in [Session -> {"idle"}]
    BY DEF Init
  <1>4. QED
    BY <1>1, <1>2, <1>3, BlankTypes DEF Init, TypeOK, AtRow, Slot

\* A request leaves its session well typed.
LEMMA RequestTypes ==
  ASSUME TypeOK, NEW c \in Session, NEW l \in {"tool", "row", "look"}, NEW what, NEW row,
         Request(c, l, what, row),
         what \in [op : Ops, id : Asg \cup {None}, tool : Tool \cup {None},
                   set : Moves \cup Places \cup {<<>>}],
         l # "look" => /\ what.id \in Asg
                       /\ what.op \in {"create", "update", "confirm", "delete"},
         what.op = "update" => what.set \in Moves,
         row \in Rows, Whole(row)
  PROVE  TypeOK'
  BY DEF TypeOK, Request, Goto, AtRow, Slot, dbVars, histVars

\* A statement that changes what its session knows, not the tables.
LEMMA SessionTypes ==
  ASSUME TypeOK, NEW c \in Session,
         NEW l \in {"tool", "row", "machine", "write", "commit", "look", "count", "retire"}
                   \cup Slot,
         l \in AtRow => at[c] \in AtRow,
         Goto(c, l),
         NEW row \in Rows, Whole(row), current' = [current EXCEPT ![c] = row],
         NEW x \in [needed : BOOLEAN, there : BOOLEAN], tsc' = [tsc EXCEPT ![c] = x],
         NEW w \in Rows, Whole(w), w # Absent <=> l = "commit",
         write' = [write EXCEPT ![c] = w],
         NEW f \in SUBSET Facts, changed' = [changed EXCEPT ![c] = f],
         UNCHANGED <<dbVars, call, histVars, calls, patches>>
  PROVE  TypeOK'
  <1>1. UNCHANGED <<tool, machine, asg, call, since, shown, calls, patches>>
    BY DEF dbVars, histVars
  <1>2. at' = [at EXCEPT ![c] = l]
    BY DEF Goto
  <1>3. /\ at' \in [Session -> {"idle", "tool", "row", "machine", "write", "commit", "look",
                                "count", "retire"} \cup Slot]
        /\ current' \in [Session -> Rows] /\ write' \in [Session -> Rows]
        /\ tsc' \in [Session -> [needed : BOOLEAN, there : BOOLEAN]]
        /\ changed' \in [Session -> SUBSET Facts]
    BY <1>2 DEF TypeOK
  <1>4. ASSUME NEW d \in Session
        PROVE  /\ at'[d] \in AtRow => /\ call'[d].id \in Asg
                                      /\ call'[d].op \in {"create", "update",
                                                          "confirm", "delete"}
               /\ call'[d].op = "update" => call'[d].set \in Moves
               /\ Whole(current'[d]) /\ Whole(write'[d])
               /\ write'[d] # Absent <=> (at'[d] = "commit")
    <2>1. CASE d = c
      BY <1>1, <1>2, <2>1 DEF TypeOK
    <2>2. CASE d # c
      BY <1>1, <1>2, <2>2 DEF TypeOK
    <2>3. QED
      BY <2>1, <2>2
  <1>5. QED
    BY <1>1, <1>3, <1>4 DEF TypeOK

\* What a step leaves alone, written as an update of its session.
LEMMA Unchanged ==
  ASSUME TypeOK, NEW c \in Session
  PROVE  /\ current = [current EXCEPT ![c] = current[c]]
         /\ tsc = [tsc EXCEPT ![c] = tsc[c]]
         /\ write = [write EXCEPT ![c] = write[c]]
         /\ current[c] \in Rows /\ write[c] \in Rows
         /\ Whole(current[c]) /\ Whole(write[c])
         /\ write[c] # Absent <=> at[c] = "commit"
         /\ tsc[c] \in [needed : BOOLEAN, there : BOOLEAN]
         /\ changed = [changed EXCEPT ![c] = changed[c]] /\ changed[c] \in SUBSET Facts
  BY DEF TypeOK

\* Each statement of a request keeps the types.
LEMMA StatementTypes ==
  ASSUME AssignmentsAssumption, TypeOK, Live, NEW c \in Session, Step(c)
  PROVE  TypeOK'
  <1>1. CASE Refuse(c)
    BY <1>1, RefuseTypes
  <1>2. CASE LoadTool(c) /\ ~Refuse(c)
    <2> DEFINE x == [tsc[c] EXCEPT !.needed = tool[current[c].tool].tsc]
               l == IF call[c].op = "create" THEN "machine" ELSE "t"
               f == changed[c] \ {"tool", "need"}
    <2>1. tool[current[c].tool].tsc \in BOOLEAN
      <3>1. at[c] \in AtRow \ {"row", "commit"}
        BY <1>2 DEF LoadTool, AtRow
      <3>2. current[c].tool \in Tool
        BY <3>1, Unchanged DEF Live, Whole, Rows
      <3>3. QED
        BY <3>2 DEF TypeOK
    <2>2. x \in [needed : BOOLEAN, there : BOOLEAN]
      BY <2>1, Unchanged
    <2>3. /\ Goto(c, l) /\ tsc' = [tsc EXCEPT ![c] = x]
          /\ changed' = [changed EXCEPT ![c] = f]
          /\ UNCHANGED <<dbVars, call, current, write, histVars, calls, patches>>
      BY <1>2 DEF LoadTool
    <2>4. at[c] \in AtRow /\ at[c] # "commit" /\ l \in {"machine", "t"} /\ f \in SUBSET Facts
      BY <1>2, Unchanged DEF LoadTool, AtRow, Slot
    <2> HIDE DEF x, l, f
    <2>5. write[c] = Absent /\ l # "commit"
      BY <2>4, Unchanged
    <2>6. QED
      BY <2>2, <2>3, <2>4, <2>5, Unchanged, SessionTypes DEF Slot
  <1>3. CASE LoadRow(c) /\ ~Refuse(c)
    <2>1. at[c] = "row" /\ call[c].id \in Asg
      BY <1>3 DEF LoadRow, TypeOK, AtRow
    <2> DEFINE row == asg[call[c].id]
               f == changed[c] \ {"row"}
    <2>2. row \in Rows /\ Whole(row) /\ f \in SUBSET Facts
      BY <2>1, Unchanged DEF TypeOK
    <2>3. /\ current' = [current EXCEPT ![c] = row]
          /\ changed' = [changed EXCEPT ![c] = f]
          /\ UNCHANGED <<dbVars, call, tsc, write, histVars, calls, patches>>
      BY <1>3 DEF LoadRow, Looked
    <2> HIDE DEF row, f
    <2>4. PICK l \in {"machine", "write"} : Goto(c, l)
      BY <1>3 DEF LoadRow
    <2>5. at[c] \in AtRow /\ write[c] = Absent /\ l # "commit"
      BY <2>1, Unchanged DEF AtRow
    <2>6. tsc' = [tsc EXCEPT ![c] = tsc[c]] /\ write' = [write EXCEPT ![c] = write[c]]
      BY <2>3, Unchanged
    <2>7. /\ tsc[c] \in [needed : BOOLEAN, there : BOOLEAN]
          /\ write[c] \in Rows /\ Whole(write[c])
      BY Unchanged
    <2>8. QED
      BY <2>2, <2>3, <2>4, <2>5, <2>6, <2>7, SessionTypes
  <1>4. CASE LoadMachine(c) /\ ~Refuse(c)
    <2> DEFINE x == [tsc[c] EXCEPT !.there = machine[current[c].mach].tsc]
               l == IF call[c].op = "create" THEN "t" ELSE "tool"
               f == changed[c] \ {"machine"}
    <2>1. machine[current[c].mach].tsc \in BOOLEAN
      <3>1. at[c] \in AtRow \ {"row", "commit"}
        BY <1>4 DEF LoadMachine, AtRow
      <3>2. current[c].mach \in Machine
        BY <3>1, Unchanged DEF Live, Whole, Rows
      <3>3. machine[current[c].mach] \in MachineRow
        BY <3>2 DEF TypeOK
      <3>4. QED
        BY <3>3 DEF AssignmentsAssumption
    <2>2. x \in [needed : BOOLEAN, there : BOOLEAN]
      BY <2>1, Unchanged
    <2>3. /\ Goto(c, l) /\ tsc' = [tsc EXCEPT ![c] = x]
          /\ changed' = [changed EXCEPT ![c] = f]
          /\ UNCHANGED <<dbVars, call, current, write, histVars, calls, patches>>
      BY <1>4 DEF LoadMachine, Looked
    <2>4. at[c] \in AtRow /\ at[c] # "commit" /\ l \in {"t", "tool"} /\ f \in SUBSET Facts
      BY <1>4, Unchanged DEF LoadMachine, AtRow, Slot
    <2> HIDE DEF x, l, f
    <2>5. write[c] = Absent /\ l # "commit"
      BY <2>4, Unchanged
    <2>6. QED
      BY <2>2, <2>3, <2>4, <2>5, Unchanged, SessionTypes DEF Slot
  <1>5. ASSUME NEW s \in Slot, CheckSlot(c, s), ~Refuse(c) PROVE TypeOK'
    <2>1. at[c] \in AtRow /\ at[c] # "commit" /\ UNCHANGED sesVars
          /\ UNCHANGED <<dbVars, histVars, calls, patches>>
      BY <1>5 DEF CheckSlot, AtRow, Slot
    <2>2. PICK l \in {"h", "d", "write"} : Goto(c, l)
      BY <1>5 DEF CheckSlot, Slot
    <2>3. QED
      BY <2>1, <2>2, Unchanged, SessionTypes DEF sesVars, Slot
  <1>6. CASE Write(c) /\ ~Refuse(c)
    <2>1. /\ at[c] = "write" /\ NewRow(c).reg \in Registers
          /\ Goto(c, "commit") /\ write' = [write EXCEPT ![c] = NewRow(c)]
          /\ UNCHANGED <<dbVars, call, current, tsc, changed, histVars, calls, patches>>
      BY <1>6 DEF Write
    <2>2. NewRow(c) \in Rows /\ Whole(NewRow(c)) /\ NewRow(c) # Absent
      BY <2>1, NewRowTypes, BlankTypes
    <2>3. QED
      BY <2>1, <2>2, Unchanged, SessionTypes DEF AtRow
  <1>7. CASE CommitRow(c)
    <2> DEFINE a == call[c].id
    <2>1. /\ a \in Asg /\ at[c] = "commit"
          /\ call[c].op \in {"create", "update", "confirm", "delete"}
      BY <1>7 DEF CommitRow, TypeOK, AtRow
    <2>2. asg' \in [Asg -> Rows] /\ \A b \in Asg : Whole(asg'[b])
      BY <1>7, <2>1, Unchanged DEF CommitRow, TypeOK
    <2>3. changed' \in [Session -> SUBSET Facts]
      BY <1>7 DEF CommitRow, RowMoves, TypeOK, Facts
    <2>4. since' \in [Asg -> SUBSET Facts]
      BY <1>7, <2>1 DEF CommitRow, Answers, TypeOK, Facts
    <2>5. shown' \in [Asg -> [Slot -> Number \cup {None}]]
      <3>1. current[c].reg \in [Slot -> Number \cup {None}]
        BY Unchanged DEF Rows
      <3>2. QED
        BY <1>7, <3>1 DEF CommitRow, Answers, TypeOK
    <2>6. tool' \in [Tool -> [retired : BOOLEAN, tsc : BOOLEAN]]
      BY <1>7 DEF CommitRow, TypeOK
    <2>7. QED
      BY <1>7, <2>2, <2>3, <2>4, <2>5, <2>6, EndTypes DEF CommitRow
  <1>8. ASSUME Goto(c, "count") \/ Goto(c, "retire"), at[c] # "commit",
               UNCHANGED <<dbVars, call, current, tsc, write, histVars, calls, patches>>,
               NEW f, f \in SUBSET Facts, changed' = [changed EXCEPT ![c] = f]
        PROVE  TypeOK'
    <2>0. PICK l \in {"count", "retire"} : Goto(c, l)
      BY <1>8
    <2>1. l \notin AtRow /\ l # "commit"
      BY DEF AtRow, Slot
    <2>2. current[c] \in Rows /\ Whole(current[c]) /\ write[c] = Absent
      BY <1>8 DEF TypeOK
    <2>3. current' = [current EXCEPT ![c] = current[c]]
      BY <1>8 DEF TypeOK
    <2>4. write' = [write EXCEPT ![c] = write[c]]
      BY <1>8 DEF TypeOK
    <2>5. tsc[c] \in [needed : BOOLEAN, there : BOOLEAN] /\ tsc' = [tsc EXCEPT ![c] = tsc[c]]
      BY <1>8 DEF TypeOK
    <2>6. UNCHANGED <<dbVars, call, histVars, calls, patches>>
      BY <1>8
    <2>7. Absent \in Rows /\ Whole(Absent)
      BY BlankTypes
    <2>8. /\ l \in {"tool", "row", "machine", "write", "commit", "look", "count", "retire"}
                  \cup Slot
          /\ Goto(c, l) /\ changed' = [changed EXCEPT ![c] = f] /\ f \in SUBSET Facts
      BY <1>8, <2>0
    <2>9. write[c] \in Rows /\ Whole(write[c]) /\ (write[c] # Absent <=> l = "commit")
      BY <2>1, <2>2, <2>7
    <2>10. QED
      BY <2>1, <2>2, <2>3, <2>4, <2>5, <2>6, <2>8, <2>9, SessionTypes
  <1>9. CASE LookTool(c) /\ ~Refuse(c)
    <2>1. /\ Goto(c, "count") /\ at[c] # "commit"
          /\ UNCHANGED <<dbVars, sesVars, histVars, calls, patches>>
      BY <1>9 DEF LookTool
    <2>2. changed' = [changed EXCEPT ![c] = changed[c]] /\ changed[c] \in SUBSET Facts
      BY <2>1, Unchanged DEF sesVars
    <2>3. QED
      BY <1>8, <2>1, <2>2 DEF sesVars
  <1>10. CASE Count(c) /\ ~Refuse(c)
    <2> DEFINE f == changed[c] \ {"use"}
    <2>1. /\ Goto(c, "retire") /\ at[c] # "commit"
          /\ changed' = [changed EXCEPT ![c] = f]
          /\ UNCHANGED <<dbVars, call, current, tsc, write, histVars, calls, patches>>
      BY <1>10 DEF Count, Looked
    <2>2. f \in SUBSET Facts
      BY Unchanged
    <2> HIDE DEF f
    <2>3. QED
      BY <1>8, <2>1, <2>2
  <1>11. CASE CommitRetire(c)
    <2>1. tool' \in [Tool -> [retired : BOOLEAN, tsc : BOOLEAN]]
      <3> DEFINE t == call[c].tool
      <3>1. tool \in [Tool -> [retired : BOOLEAN, tsc : BOOLEAN]]
        BY DEF TypeOK
      <3>2. tool' = [tool EXCEPT ![t].retired = TRUE]
        BY <1>11 DEF CommitRetire
      <3> HIDE DEF t
      <3>3. QED
        BY <3>1, <3>2
    <2>2. changed' \in [Session -> SUBSET Facts] /\ since' \in [Asg -> SUBSET Facts]
      BY <1>11 DEF CommitRetire, TypeOK, Facts
    <2>3. QED
      BY <1>11, <2>1, <2>2, EndTypes DEF CommitRetire, TypeOK
  <1>12. QED
    BY <1>1, <1>2, <1>3, <1>4, <1>5, <1>6, <1>7, <1>9, <1>10, <1>11 DEF Step

\* A request of each kind leaves its session well typed.
LEMMA AskTypes ==
  ASSUME AssignmentsAssumption, TypeOK, NEW c \in Session, Ask(c) PROVE TypeOK'
  <1>1. ASSUME NEW a \in Asg, NEW t \in Tool, NEW m \in Machine, NEW place \in Places,
               AskCreate(c, a, t, m, place)
        PROVE  TypeOK'
    <2> DEFINE what == [op |-> "create", id |-> a, tool |-> t, set |-> place]
               row == [life |-> "active", tool |-> t, mach |-> m, reg |-> place,
                       pending |-> TRUE]
    <2>1. place \in Registers /\ t # None /\ m # None
      BY DEF AssignmentsAssumption
    <2>2. row \in Rows /\ Whole(row)
      BY <2>1 DEF Rows, Whole, Registers
    <2>3. /\ what \in [op : Ops, id : Asg \cup {None}, tool : Tool \cup {None},
                       set : Moves \cup Places \cup {<<>>}]
          /\ what.id \in Asg /\ what.op = "create"
      BY DEF Ops
    <2>4. Request(c, "tool", what, row)
      BY <1>1 DEF AskCreate
    <2> HIDE DEF what, row
    <2>5. QED
      BY <2>2, <2>3, <2>4, RequestTypes
  <1>2. ASSUME NEW l \in {"row", "look"}, NEW op \in Ops, NEW i \in Asg \cup {None},
               NEW t \in Tool \cup {None}, NEW set \in Moves \cup {<<>>},
               l = "row" => i \in Asg /\ op \in {"update", "confirm", "delete"},
               op = "update" => set \in Moves,
               Request(c, l, [op |-> op, id |-> i, tool |-> t, set |-> set], Absent)
        PROVE  TypeOK'
    <2> DEFINE what == [op |-> op, id |-> i, tool |-> t, set |-> set]
    <2>1. /\ what \in [op : Ops, id : Asg \cup {None}, tool : Tool \cup {None},
                       set : Moves \cup Places \cup {<<>>}]
          /\ l # "look" => what.id \in Asg /\ what.op \in {"create", "update", "confirm", "delete"}
          /\ what.op = "update" => what.set \in Moves
      BY <1>2
    <2>2. Request(c, l, what, Absent)
      BY <1>2
    <2> HIDE DEF what
    <2>3. QED
      BY <2>1, <2>2, BlankTypes, RequestTypes
  <1>3. ASSUME NEW a \in Asg, NEW move \in Moves, AskUpdate(c, a, move) PROVE TypeOK'
    BY <1>2, <1>3 DEF AskUpdate, Ops
  <1>4. ASSUME NEW a \in Asg, AskConfirm(c, a) PROVE TypeOK'
    BY <1>2, <1>4 DEF AskConfirm, Ops
  <1>5. ASSUME NEW a \in Asg, AskDelete(c, a) PROVE TypeOK'
    BY <1>2, <1>5 DEF AskDelete, Ops
  <1>6. ASSUME NEW t \in Tool, NEW op \in {"retire", "force"}, AskRetire(c, t, op)
        PROVE  TypeOK'
    BY <1>2, <1>6 DEF AskRetire, Ops
  <1>7. QED
    BY <1>1, <1>3, <1>4, <1>5, <1>6 DEF Ask

\* Every step keeps the types.
LEMMA NextTypeOK ==
  ASSUME AssignmentsAssumption, TypeOK, Live, [Next]_vars PROVE TypeOK'
  <1>1. ASSUME NEW c \in Session, Ask(c) \/ Step(c) \/ Abort(c) PROVE TypeOK'
    BY <1>1, AskTypes, StatementTypes, RefuseTypes DEF Abort
  <1>2. ASSUME NEW m \in Machine, NEW row \in MachineRow, PatchMachine(m, row)
        PROVE  TypeOK'
    BY <1>2 DEF PatchMachine, TypeOK, Facts
  <1>3. ASSUME NEW t \in Tool, PatchTool(t) PROVE TypeOK'
    <2>1. tool' \in [Tool -> [retired : BOOLEAN, tsc : BOOLEAN]]
      <3>1. PICK b \in BOOLEAN : b = ~tool[t].tsc
        OBVIOUS
      <3>2. tool' = [tool EXCEPT ![t].tsc = b]
        BY <1>3, <3>1 DEF PatchTool
      <3>3. QED
        BY <3>2 DEF TypeOK
    <2>2. changed' \in [Session -> SUBSET Facts] /\ since' \in [Asg -> SUBSET Facts]
      BY <1>3 DEF PatchTool, TypeOK, Facts
    <2>3. QED
      BY <1>3, <2>1, <2>2 DEF PatchTool, TypeOK
  <1>4. CASE UNCHANGED vars
    BY <1>4 DEF vars, dbVars, sesVars, histVars, TypeOK, AtRow
  <1>5. QED
    BY <1>1, <1>2, <1>3, <1>4 DEF Next

-----------------------------------------------------------------------------
(* Keys.                                                                    *)

\* A step that writes and commits no row leaves the keys apart.
LEMMA QuietStep ==
  ASSUME TypeOK, OneWriter, KeysApart, UNCHANGED asg,
         \A d \in Session :
           at'[d] = "commit" => /\ at[d] = "commit"
                                /\ call'[d].id = call[d].id /\ write'[d] = write[d]
  PROVE  OneWriter' /\ KeysApart'
  BY DEF OneWriter, KeysApart

\* A row is written only if its keys are free, and nobody else has written it.
LEMMA WriteApart ==
  ASSUME TypeOK, OneWriter, KeysApart, NEW c \in Session, Write(c), ~Refuse(c)
  PROVE  OneWriter' /\ KeysApart'
  <1> DEFINE a == call[c].id
             row == NewRow(c)
  <1>1. /\ a \in Asg /\ at[c] = "write" /\ ~MustWait(c) /\ ~Duplicate(c)
        /\ at' = [at EXCEPT ![c] = "commit"] /\ write' = [write EXCEPT ![c] = row]
        /\ UNCHANGED <<asg, call>>
    BY DEF Write, TypeOK, AtRow, Goto, dbVars
  <1>2. /\ \A d \in Session : at'[d] = "commit" <=> d = c \/ at[d] = "commit"
        /\ write'[c] = row /\ \A d \in Session \ {c} : write'[d] = write[d]
    BY <1>1 DEF TypeOK
  <1>3. \A b \in Asg \ {a} : Keys(row) \cap Keys(asg[b]) = {}
    BY <1>1 DEF Duplicate
  <1>4. \A d \in Session \ {c} :
          at[d] = "commit" => call[d].id # a /\ Keys(row) \cap Keys(write[d]) = {}
    <2> SUFFICES ASSUME NEW d \in Session \ {c}, at[d] = "commit"
                 PROVE  call[d].id # a /\ Keys(row) \cap Keys(write[d]) = {}
      OBVIOUS
    <2>1. call[d].id \in Asg /\ Writes(d, call[d].id)
      BY DEF TypeOK, AtRow, Writes
    <2>2. QED
      BY <1>1, <2>1 DEF MustWait
  <1> HIDE DEF row
  <1>5. OneWriter'
    BY <1>1, <1>2, <1>4 DEF OneWriter
  <1>6. KeysApart'
    BY <1>1, <1>2, <1>3, <1>4 DEF KeysApart
  <1>7. QED
    BY <1>5, <1>6

\* A commit puts in place what was apart from everything else.
LEMMA CommitApart ==
  ASSUME TypeOK, OneWriter, KeysApart, NEW c \in Session, CommitRow(c)
  PROVE  OneWriter' /\ KeysApart'
  <1> DEFINE a == call[c].id
  <1>1. a \in Asg /\ at[c] = "commit"
    BY DEF CommitRow, TypeOK, AtRow
  <1>2. asg'[a] = write[c] /\ \A b \in Asg \ {a} : asg'[b] = asg[b]
    BY <1>1 DEF CommitRow, TypeOK
  <1>3. /\ at'[c] = "idle"
        /\ \A d \in Session \ {c} :
             at'[d] = at[d] /\ call'[d] = call[d] /\ write'[d] = write[d]
    BY DEF CommitRow, End, Goto, TypeOK
  <1>4. \A d \in Session \ {c} : at[d] = "commit" => call[d].id # a
    BY <1>1 DEF OneWriter
  <1>5. OneWriter'
    BY <1>3 DEF OneWriter
  <1>6. KeysApart'
    <2>1. \A b1, b2 \in Asg : b1 # b2 => Keys(asg'[b1]) \cap Keys(asg'[b2]) = {}
      <3>1. \A b \in Asg \ {a} : Keys(write[c]) \cap Keys(asg[b]) = {}
        BY <1>1 DEF KeysApart
      <3>2. QED
        BY <1>1, <1>2, <3>1 DEF KeysApart
    <2>2. ASSUME NEW d \in Session, at'[d] = "commit",
                 NEW b \in Asg, b # call'[d].id
          PROVE  Keys(write'[d]) \cap Keys(asg'[b]) = {}
      <3>1. d # c /\ at[d] = "commit" /\ call'[d] = call[d] /\ write'[d] = write[d]
        BY <1>3, <2>2
      <3>2. Keys(write[d]) \cap Keys(write[c]) = {}
        BY <1>1, <3>1 DEF KeysApart
      <3>3. QED
        BY <1>1, <1>2, <2>2, <3>1, <3>2 DEF KeysApart
    <2>3. \A d, e \in Session :
            at'[d] = "commit" /\ at'[e] = "commit" /\ d # e =>
              Keys(write'[d]) \cap Keys(write'[e]) = {}
      BY <1>3 DEF KeysApart
    <2>4. QED
      BY <2>1, <2>2, <2>3 DEF KeysApart
  <1>7. QED
    BY <1>5, <1>6

-----------------------------------------------------------------------------
(* Live.                                                                    *)

\* A step of one session that changes no row but by a commit keeps the others
\* alive.
LEMMA OthersLive ==
  ASSUME TypeOK, Live, NEW c \in Session,
         \A d \in Session \ {c} : /\ at'[d] = at[d] /\ call'[d] = call[d]
                                  /\ current'[d] = current[d] /\ write'[d] = write[d],
         \/ UNCHANGED asg
         \/ at[c] = "commit" /\ asg' = [asg EXCEPT ![call[c].id] = write[c]],
         at'[c] \in AtRow \ {"row", "commit"} =>
           /\ current'[c].life = "active"
           /\ call'[c].op # "create" => asg'[call'[c].id].life # "absent",
         at'[c] = "commit" => write'[c].life # "absent"
  PROVE  Live'
  <1>1. \A a \in Asg : asg[a].life # "absent" => asg'[a].life # "absent"
    BY DEF Live, TypeOK
  <1>2. ASSUME NEW d \in Session \ {c}, at'[d] \in AtRow \ {"row", "commit"}
        PROVE  /\ current'[d].life = "active"
               /\ call'[d].op # "create" => asg'[call'[d].id].life # "absent"
    <2>1. call[d].id \in Asg
      BY <1>2 DEF TypeOK
    <2>2. QED
      BY <1>1, <1>2, <2>1 DEF Live
  <1>3. QED
    BY <1>2 DEF Live

\* What a request does to the invariant.
LEMMA SessionSafe ==
  ASSUME AssignmentsAssumption, IInv, NEW c \in Session, Ask(c) \/ Step(c) \/ Abort(c)
  PROVE  Live' /\ OneWriter' /\ KeysApart'
  <1> USE DEF IInv
  <1>1. CASE Refuse(c)
    <2>1. /\ at' = [at EXCEPT ![c] = "idle"] /\ call' = [call EXCEPT ![c] = NoCall]
          /\ current' = [current EXCEPT ![c] = Absent] /\ write' = [write EXCEPT ![c] = Absent]
          /\ UNCHANGED asg
      BY <1>1 DEF Refuse, End, Goto, dbVars
    <2>2. at'[c] = "idle" /\ \A d \in Session \ {c} :
            /\ at'[d] = at[d] /\ call'[d] = call[d]
            /\ current'[d] = current[d] /\ write'[d] = write[d]
      BY <2>1 DEF TypeOK
    <2>3. Live'
      BY <2>1, <2>2, OthersLive DEF AtRow, Slot
    <2>4. OneWriter' /\ KeysApart'
      BY <2>1, <2>2, QuietStep
    <2>5. QED
      BY <2>3, <2>4
  <1>2. ASSUME NEW l \in {"tool", "row", "look"}, NEW what, NEW row,
               Request(c, l, what, row),
               l = "tool" => row.life = "active" /\ what.op = "create"
        PROVE  Live' /\ OneWriter' /\ KeysApart'
    <2>1. /\ at' = [at EXCEPT ![c] = l] /\ call' = [call EXCEPT ![c] = what]
          /\ current' = [current EXCEPT ![c] = row]
          /\ UNCHANGED <<asg, write>>
      BY <1>2 DEF Request, Goto, dbVars
    <2>2. /\ at'[c] = l /\ current'[c] = row /\ call'[c] = what
          /\ \A d \in Session \ {c} :
               /\ at'[d] = at[d] /\ call'[d] = call[d]
               /\ current'[d] = current[d] /\ write'[d] = write[d]
      BY <2>1 DEF TypeOK
    <2>3. Live'
      BY <1>2, <2>1, <2>2, OthersLive DEF AtRow, Slot
    <2>4. OneWriter' /\ KeysApart'
      BY <2>1, <2>2, QuietStep
    <2>5. QED
      BY <2>3, <2>4
  <1>3. CASE Ask(c)
    BY <1>2, <1>3 DEF Ask, AskCreate, AskUpdate, AskConfirm, AskDelete, AskRetire
  <1>4. CASE LoadRow(c) /\ ~Refuse(c)
    <2> DEFINE l == IF call[c].op = "update" THEN "machine" ELSE "write"
    <2>1. /\ at' = [at EXCEPT ![c] = l] /\ at[c] = "row"
          /\ current' = [current EXCEPT ![c] = asg[call[c].id]]
          /\ asg[call[c].id].life = "active"
          /\ UNCHANGED <<asg, call, write>>
      BY <1>4 DEF LoadRow, Goto, dbVars
    <2>2. /\ at'[c] = l /\ current'[c] = asg[call[c].id]
          /\ \A d \in Session \ {c} : at'[d] = at[d] /\ current'[d] = current[d]
      BY <2>1 DEF TypeOK
    <2>3. Live'
      BY <2>1, <2>2, OthersLive DEF AtRow, Slot
    <2>4. OneWriter' /\ KeysApart'
      BY <2>1, <2>2, QuietStep
    <2>5. QED
      BY <2>3, <2>4
  <1>5. ASSUME NEW l, l # "commit", Goto(c, l), UNCHANGED <<asg, call, current, write>>,
               l \in AtRow => l # "row" /\ at[c] \in AtRow \ {"row", "commit"}
        PROVE  Live' /\ OneWriter' /\ KeysApart'
    <2>1. at'[c] = l /\ \A d \in Session \ {c} : at'[d] = at[d]
      BY <1>5 DEF TypeOK, Goto
    <2>2. at'[c] \in AtRow \ {"row", "commit"} =>
            /\ current[c].life = "active"
            /\ call[c].op # "create" => asg[call[c].id].life # "absent"
      BY <1>5, <2>1 DEF Live
    <2>3. Live'
      BY <1>5, <2>1, <2>2, OthersLive
    <2>4. OneWriter' /\ KeysApart'
      BY <1>5, <2>1, QuietStep
    <2>5. QED
      BY <2>3, <2>4
  <1>6. CASE (LoadTool(c) \/ LoadMachine(c) \/ \E s \in Slot : CheckSlot(c, s)) /\ ~Refuse(c)
    <2>1. PICK l \in {"machine", "tool", "write"} \cup Slot : Goto(c, l)
      BY <1>6 DEF LoadTool, LoadMachine, CheckSlot, Slot
    <2>2. UNCHANGED <<asg, call, current, write>>
      BY <1>6 DEF LoadTool, LoadMachine, CheckSlot, dbVars, sesVars
    <2>3. at[c] \in AtRow \ {"row", "commit"} /\ l # "row" /\ l # "commit"
      BY <1>6, <2>1 DEF LoadTool, LoadMachine, CheckSlot, AtRow, Slot
    <2>4. QED
      BY <1>5, <2>1, <2>2, <2>3
  <1>7. CASE (LookTool(c) \/ Count(c)) /\ ~Refuse(c)
    <2>1. PICK l \in {"count", "retire"} : Goto(c, l)
      BY <1>7 DEF LookTool, Count
    <2>2. UNCHANGED <<asg, call, current, write>>
      BY <1>7 DEF LookTool, Count, dbVars, sesVars
    <2>3. QED
      BY <1>5, <2>1, <2>2 DEF AtRow, Slot
  <1>8. CASE Write(c) /\ ~Refuse(c)
    <2>1. /\ at[c] = "write" /\ NewRow(c).reg \in Registers
          /\ at' = [at EXCEPT ![c] = "commit"]
          /\ write' = [write EXCEPT ![c] = NewRow(c)]
          /\ UNCHANGED <<asg, call, current>>
      BY <1>8 DEF Write, Goto, dbVars
    <2>2. /\ at'[c] = "commit" /\ write'[c] = NewRow(c)
          /\ \A d \in Session \ {c} : at'[d] = at[d] /\ write'[d] = write[d]
      BY <2>1 DEF TypeOK
    <2>3. NewRow(c).life # "absent"
      BY <2>1, NewRowTypes
    <2>4. Live'
      BY <2>1, <2>2, <2>3, OthersLive
    <2>5. QED
      BY <1>8, <2>4, WriteApart
  <1>9. CASE CommitRow(c)
    <2>1. /\ at[c] = "commit" /\ asg' = [asg EXCEPT ![call[c].id] = write[c]]
          /\ at'[c] = "idle"
          /\ \A d \in Session \ {c} :
               /\ at'[d] = at[d] /\ call'[d] = call[d]
               /\ current'[d] = current[d] /\ write'[d] = write[d]
      BY <1>9 DEF CommitRow, End, Goto, TypeOK
    <2>2. Live'
      BY <2>1, OthersLive DEF AtRow, Slot
    <2>3. QED
      BY <1>9, <2>2, CommitApart
  <1>10. CASE CommitRetire(c)
    <2>1. /\ at'[c] = "idle" /\ UNCHANGED asg
          /\ \A d \in Session \ {c} :
               /\ at'[d] = at[d] /\ call'[d] = call[d]
               /\ current'[d] = current[d] /\ write'[d] = write[d]
      BY <1>10 DEF CommitRetire, End, Goto, TypeOK
    <2>2. Live'
      BY <2>1, OthersLive DEF AtRow, Slot
    <2>3. OneWriter' /\ KeysApart'
      BY <2>1, QuietStep
    <2>4. QED
      BY <2>2, <2>3
  <1>11. QED
    BY <1>1, <1>3, <1>4, <1>6, <1>7, <1>8, <1>9, <1>10 DEF Step, Abort

-----------------------------------------------------------------------------
\* Nothing is written at first.
LEMMA InitIInv == AssignmentsAssumption /\ Init => IInv
  <1> SUFFICES ASSUME AssignmentsAssumption, Init PROVE IInv
    OBVIOUS
  <1>1. /\ \A c \in Session : at[c] = "idle"
        /\ \A a \in Asg : Keys(asg[a]) = {}
    BY BlankTypes DEF Init
  <1>2. Live /\ OneWriter
    BY <1>1 DEF Live, OneWriter, AtRow, Slot
  <1>3. KeysApart
    BY <1>1 DEF KeysApart
  <1>4. QED
    BY <1>2, <1>3, InitTypeOK DEF IInv

\* Every step keeps the invariant.
LEMMA NextIInv == ASSUME AssignmentsAssumption, IInv, [Next]_vars PROVE IInv'
  <1>1. TypeOK'
    BY NextTypeOK DEF IInv
  <1>2. ASSUME UNCHANGED <<asg, at, call, current, write>>
        PROVE  Live' /\ OneWriter' /\ KeysApart'
    BY <1>2 DEF IInv, Live, OneWriter, KeysApart
  <1>3. Live' /\ OneWriter' /\ KeysApart'
    <2>1. CASE \E c \in Session : Ask(c) \/ Step(c) \/ Abort(c)
      BY <2>1, SessionSafe
    <2>2. CASE \E m \in Machine, row \in MachineRow : PatchMachine(m, row)
      BY <1>2, <2>2 DEF PatchMachine
    <2>3. CASE \E t \in Tool : PatchTool(t)
      BY <1>2, <2>3 DEF PatchTool
    <2>4. CASE UNCHANGED vars
      BY <1>2, <2>4 DEF vars, dbVars, sesVars
    <2>5. QED
      BY <2>1, <2>2, <2>3, <2>4 DEF Next
  <1>4. QED
    BY <1>1, <1>3 DEF IInv

(* The invariant behind the theorems below.                                 *)
THEOREM Invariant == Spec => []IInv
  <1>1. Init => IInv
    BY AssignmentsAssumption, InitIInv
  <1>2. IInv /\ [Next]_vars => IInv'
    BY AssignmentsAssumption, NextIInv
  <1>3. QED
    BY <1>1, <1>2, PTL DEF Spec

(* Rows, sessions and history stay within their types, for any rows,        *)
(* sessions, machines, registers and bounds.                                *)
THEOREM TypeCorrect == Spec => []TypeOK
  <1>1. IInv => TypeOK
    BY DEF IInv
  <1>2. QED
    BY <1>1, Invariant, PTL

(* No two active assignments of a machine share a T number, an H or a D     *)
(* register, however many requests have found theirs free at the same time. *)
THEOREM SlotsAreUnique == Spec => []SlotsUnique
  <1>1. IInv => SlotsUnique
    <2> SUFFICES ASSUME IInv, NEW a \in Asg, NEW b \in Asg, NEW s \in Slot,
                        a # b, asg[a].life = "active", asg[b].life = "active",
                        asg[a].mach = asg[b].mach, asg[a].reg[s] = asg[b].reg[s],
                        asg[a].reg[s] # None
                 PROVE  FALSE
      BY DEF SlotsUnique
    <2> DEFINE key == <<asg[a].mach, s, asg[a].reg[s]>>
    <2>1. key \in Keys(asg[a]) /\ key \in Keys(asg[b])
      BY DEF Keys
    <2>2. Keys(asg[a]) \cap Keys(asg[b]) = {}
      BY DEF IInv, KeysApart
    <2> HIDE DEF key
    <2>3. QED
      BY <2>1, <2>2
  <1>2. QED
    BY <1>1, Invariant, PTL

-----------------------------------------------------------------------------
(* What a session knows.  The parts of the invariant behind the checks and  *)
(* the columns: each says what a session's reads and writes still mean.     *)

\* A new row is its session's alone until it is committed; the row of any
\* other request exists once it has been read.
Fresh(c) ==
  /\ call[c].op = "create" =>
       /\ at[c] \in AtRow \ {"row"}
       /\ asg[call[c].id].life = "absent"
  /\ at[c] = "commit" /\ call[c].op # "create" => asg[call[c].id].life # "absent"

\* What waits for its commit is still what the request makes of its row.
Written(c) == at[c] = "commit" => write[c] = NewRow(c)

\* The row a session has read: tool and machine never change, the registers
\* only if it counts as changed; the row it is to insert is as it was asked.
Read(c) ==
  at[c] \in AtRow \ {"row"} =>
    IF call[c].op = "create"
    THEN /\ current[c].tool = call[c].tool
         /\ current[c].reg = call[c].set /\ current[c].pending
    ELSE /\ current[c].tool = asg[call[c].id].tool
         /\ current[c].mach = asg[call[c].id].mach
         /\ "row" \notin changed[c] => current[c].reg = asg[call[c].id].reg

\* A session has read its machine's row, or its tool's: the one comes first
\* for a move, the other for a new assignment.
Checks == Slot \cup {"write", "commit"}
PastMachine(c) ==
  \/ call[c].op = "create" /\ at[c] \in Checks
  \/ call[c].op = "update" /\ at[c] \in Checks \cup {"tool"}
PastTool(c) ==
  \/ call[c].op = "create" /\ at[c] \in Checks \cup {"machine"}
  \/ call[c].op = "update" /\ at[c] \in Checks

\* What it has found on them is so, or has changed since.
Checked(c) ==
  /\ PastMachine(c) /\ "machine" \notin changed[c] =>
       /\ tsc[c].there = machine[current[c].mach].tsc
       /\ ~OnProbe(machine[current[c].mach], Wanted(c))
  /\ PastTool(c) =>
       /\ "need" \notin changed[c] => tsc[c].needed = tool[current[c].tool].tsc
       /\ call[c].op = "create" /\ tool[current[c].tool].retired => "tool" \in changed[c]
  /\ call[c].op \in {"create", "update"} /\ at[c] \in {"write", "commit"} =>
       ~tsc[c].needed \/ tsc[c].there

\* Whoever retires a tool, and is not forcing it, has found it unused.
Counted(c) ==
  at[c] = "retire" =>
    call[c].op = "force" \/ "use" \in changed[c] \/ ~InUse(call[c].tool)

\* No two requests insert the same row.
NewIdsDiffer ==
  \A c, d \in Session :
    c # d /\ call[c].op = "create" /\ call[d].op = "create" => call[c].id # call[d].id

Known(c) == Fresh(c) /\ Written(c) /\ Read(c) /\ Checked(c) /\ Counted(c)

KInv == IInv /\ NewIdsDiffer /\ \A c \in Session : Known(c)
\* A step that leaves the tables and a session alone leaves it knowing.
LEMMA OthersKnow ==
  ASSUME TypeOK, NEW c \in Session, UNCHANGED dbVars,
         \A d \in Session \ {c} :
           /\ at'[d] = at[d] /\ call'[d] = call[d] /\ current'[d] = current[d]
           /\ tsc'[d] = tsc[d] /\ write'[d] = write[d] /\ changed'[d] = changed[d],
         \A d \in Session : Known(d),
         Known(c)'
  PROVE  \A d \in Session : Known(d)'
  <1> SUFFICES ASSUME NEW d \in Session, d # c PROVE Known(d)'
    BY Zenon
  <1>1. /\ at'[d] = at[d] /\ call'[d] = call[d] /\ current'[d] = current[d]
        /\ tsc'[d] = tsc[d] /\ write'[d] = write[d] /\ changed'[d] = changed[d]
        /\ tool' = tool /\ machine' = machine /\ asg' = asg
    BY DEF dbVars
  <1>2. Fresh(d) /\ Written(d) /\ Read(d) /\ Checked(d) /\ Counted(d)
    BY DEF Known
  <1>3. Fresh(d)'
    BY <1>1, <1>2 DEF Fresh
  <1>4. Written(d)'
    BY <1>1, <1>2 DEF Written, NewRow
  <1>5. Read(d)'
    BY <1>1, <1>2 DEF Read
  <1>6. Checked(d)'
    <2>1. Wanted(d)' = Wanted(d)
      BY <1>1 DEF Wanted
    <2>2. QED
      BY <1>1, <1>2, <2>1 DEF Checked, PastMachine, PastTool, OnProbe
  <1>7. Counted(d)'
    BY <1>1, <1>2 DEF Counted, InUse
  <1>8. QED
    BY <1>3, <1>4, <1>5, <1>6, <1>7 DEF Known

\* A session that is not at a row knows nothing that could go wrong.
LEMMA IdleKnows ==
  ASSUME NEW c \in Session, at'[c] \notin AtRow, at'[c] # "retire", call'[c].op # "create"
  PROVE  Known(c)'
  <1>1. at'[c] # "commit" /\ at'[c] # "tool" /\ at'[c] # "write" /\ at'[c] # "machine"
        /\ at'[c] \notin Slot
    BY DEF AtRow
  <1>2. QED
    BY <1>1 DEF Known, Fresh, Written, Read, Checked, Counted, PastMachine, PastTool, Checks

\* Going on to the next check of its row, a session keeps what it has read.
LEMMA StillRead ==
  ASSUME NEW c \in Session, Known(c), UNCHANGED <<asg, call>>,
         at[c] \in AtRow \ {"row"}, at'[c] \in AtRow \ {"row", "commit"},
         current'[c] = current[c],
         "row" \in changed[c] => "row" \in changed'[c]
  PROVE  Fresh(c)' /\ Written(c)' /\ Read(c)' /\ Counted(c)'
  <1>1. at'[c] # "retire" /\ at'[c] # "commit"
    BY DEF AtRow, Slot
  <1>2. Fresh(c) /\ Read(c)
    BY DEF Known
  <1>3. Fresh(c)'
    BY <1>1, <1>2 DEF Fresh
  <1>4. Read(c)'
    BY <1>2 DEF Read
  <1>5. QED
    BY <1>1, <1>3, <1>4 DEF Written, Counted

\* The tool's row: what it needs is known, and that it is not retired.
LEMMA LoadToolKnows ==
  ASSUME TypeOK, NEW c \in Session, Known(c), LoadTool(c), ~Refuse(c)
  PROVE  Known(c)'
  <1> DEFINE t == tool[current[c].tool]
             l == IF call[c].op = "create" THEN "machine" ELSE "t"
  <1>1. /\ at[c] = "tool"
        /\ call[c].op = "create" => ~t.retired
        /\ at'[c] = l /\ tsc'[c] = [tsc[c] EXCEPT !.needed = t.tsc]
        /\ changed'[c] = changed[c] \ {"tool", "need"}
        /\ UNCHANGED <<tool, machine, asg, call, current, write>>
    BY DEF LoadTool, Goto, TypeOK, dbVars
  <1>2. tsc'[c].needed = t.tsc /\ tsc'[c].there = tsc[c].there
    BY <1>1 DEF TypeOK
  <1>3. Fresh(c)' /\ Written(c)' /\ Read(c)' /\ Counted(c)'
    BY <1>1, StillRead DEF AtRow, Slot
  <1>4. Checked(c)'
    <2>1. Wanted(c)' = Wanted(c)
      BY <1>1 DEF Wanted
    <2>2. PastTool(c)' => /\ tsc'[c].needed = tool'[current'[c].tool].tsc
                          /\ call'[c].op = "create" => ~tool'[current'[c].tool].retired
      BY <1>1, <1>2
    <2>3. PastMachine(c)' /\ "machine" \notin changed'[c] =>
            PastMachine(c) /\ "machine" \notin changed[c]
      BY <1>1 DEF PastMachine, Checks, Slot
    <2>4. PastMachine(c) /\ "machine" \notin changed[c] =>
            /\ tsc[c].there = machine[current[c].mach].tsc
            /\ ~OnProbe(machine[current[c].mach], Wanted(c))
      BY DEF Known, Checked
    <2>5. OnProbe(machine[current[c].mach], Wanted(c))' <=>
            OnProbe(machine[current[c].mach], Wanted(c))
      BY <1>1, <2>1 DEF OnProbe
    <2>6. at'[c] \notin {"write", "commit"}
      BY <1>1
    <2>7. QED
      BY <1>1, <1>2, <2>2, <2>3, <2>4, <2>5, <2>6 DEF Checked
  <1>5. QED
    BY <1>3, <1>4 DEF Known

\* The machine's row: its coolant is known, and that the probe is elsewhere.
LEMMA LoadMachineKnows ==
  ASSUME TypeOK, NEW c \in Session, Known(c), LoadMachine(c), ~Refuse(c)
  PROVE  Known(c)'
  <1> DEFINE m == machine[current[c].mach]
             l == IF call[c].op = "create" THEN "t" ELSE "tool"
  <1>1. /\ at[c] = "machine" /\ ~OnProbe(m, Wanted(c))
        /\ at'[c] = l /\ tsc'[c] = [tsc[c] EXCEPT !.there = m.tsc]
        /\ changed'[c] = changed[c] \ {"machine"}
        /\ UNCHANGED <<tool, machine, asg, call, current, write>>
    BY DEF LoadMachine, Looked, Goto, TypeOK, dbVars
  <1>2. tsc'[c].there = m.tsc /\ tsc'[c].needed = tsc[c].needed
    BY <1>1 DEF TypeOK
  <1>3. Fresh(c)' /\ Written(c)' /\ Read(c)' /\ Counted(c)'
    BY <1>1, StillRead DEF AtRow, Slot
  <1>4. Checked(c)'
    <2>1. Wanted(c)' = Wanted(c)
      BY <1>1 DEF Wanted
    <2>2. OnProbe(machine[current[c].mach], Wanted(c))' <=> OnProbe(m, Wanted(c))
      BY <1>1, <2>1 DEF OnProbe
    <2>3. PastTool(c)' => PastTool(c)
      BY <1>1 DEF PastTool, Checks, Slot
    <2>4. PastTool(c) =>
            /\ "need" \notin changed[c] => tsc[c].needed = tool[current[c].tool].tsc
            /\ call[c].op = "create" /\ tool[current[c].tool].retired =>
                 "tool" \in changed[c]
      BY DEF Known, Checked
    <2>5. at'[c] \notin {"write", "commit"}
      BY <1>1
    <2>6. QED
      BY <1>1, <1>2, <2>2, <2>3, <2>4, <2>5 DEF Checked
  <1>5. QED
    BY <1>3, <1>4 DEF Known

\* The registers: after the last of them the coolant is compared.
LEMMA CheckSlotKnows ==
  ASSUME TypeOK, NEW c \in Session, Known(c), NEW s \in Slot, CheckSlot(c, s), ~Refuse(c)
  PROVE  Known(c)'
  <1> DEFINE l == CASE s = "t" -> "h" [] s = "h" -> "d" [] s = "d" -> "write"
  <1>1. /\ at[c] = s /\ (s = "d" => ~tsc[c].needed \/ tsc[c].there)
        /\ at'[c] = l
        /\ UNCHANGED <<tool, machine, asg, call, current, tsc, write, changed>>
    BY DEF CheckSlot, Goto, TypeOK, dbVars, sesVars
  <1>2. l \in {"h", "d", "write"} /\ (l = "write" => s = "d")
    BY DEF Slot
  <1> HIDE DEF l
  <1>3. Fresh(c)' /\ Written(c)' /\ Read(c)' /\ Counted(c)'
    BY <1>1, <1>2, StillRead DEF AtRow, Slot
  <1>4. Checked(c)'
    <2>1. OnProbe(machine[current[c].mach], Wanted(c))' <=>
            OnProbe(machine[current[c].mach], Wanted(c))
      BY <1>1 DEF OnProbe, Wanted
    <2>2. (PastMachine(c)' => PastMachine(c)) /\ (PastTool(c)' => PastTool(c))
      BY <1>1 DEF PastMachine, PastTool, Checks
    <2>3. Checked(c)
      BY DEF Known
    <2>4. at'[c] \in {"write", "commit"} => ~tsc[c].needed \/ tsc[c].there
      BY <1>1, <1>2
    <2>5. QED
      BY <1>1, <2>1, <2>2, <2>3, <2>4 DEF Checked
  <1>5. QED
    BY <1>3, <1>4 DEF Known

\* The row as it was read.
LEMMA LoadRowKnows ==
  ASSUME TypeOK, NEW c \in Session, Known(c), LoadRow(c), ~Refuse(c)
  PROVE  Known(c)'
  <1> DEFINE l == IF call[c].op = "update" THEN "machine" ELSE "write"
  <1>1. /\ at[c] = "row" /\ at'[c] = l /\ current'[c] = asg[call[c].id]
        /\ UNCHANGED <<asg, call>>
    BY DEF LoadRow, Goto, TypeOK, dbVars
  <1>2. call[c].op # "create"
    BY <1>1 DEF Known, Fresh
  <1>3. Fresh(c)' /\ Written(c)' /\ Counted(c)'
    BY <1>1, <1>2 DEF Fresh, Written, Counted
  <1>4. Read(c)'
    BY <1>1, <1>2 DEF Read
  <1>5. Checked(c)'
    BY <1>1, <1>2 DEF Checked, PastMachine, PastTool, Checks, Slot
  <1>6. QED
    BY <1>3, <1>4, <1>5 DEF Known

\* The write leaves what is to be committed.
LEMMA WriteKnows ==
  ASSUME TypeOK, Live, NEW c \in Session, Known(c), Write(c), ~Refuse(c)
  PROVE  Known(c)'
  <1>1. /\ at[c] = "write" /\ at'[c] = "commit" /\ write'[c] = NewRow(c)
        /\ UNCHANGED <<tool, machine, asg, call, current, tsc, changed>>
    BY DEF Write, Goto, TypeOK, dbVars
  <1>2. Fresh(c) /\ Read(c) /\ Checked(c)
    BY DEF Known
  <1>3. Fresh(c)'
    BY <1>1, <1>2 DEF Fresh, Live, AtRow, Slot
  <1>4. Written(c)'
    BY <1>1 DEF Written, NewRow
  <1>5. Read(c)'
    BY <1>1, <1>2 DEF Read, AtRow
  <1>6. Checked(c)'
    <2>1. OnProbe(machine[current[c].mach], Wanted(c))' <=>
            OnProbe(machine[current[c].mach], Wanted(c))
      BY <1>1 DEF OnProbe, Wanted
    <2>2. (PastMachine(c)' => PastMachine(c)) /\ (PastTool(c)' => PastTool(c))
      BY <1>1 DEF PastMachine, PastTool, Checks
    <2>3. QED
      BY <1>1, <1>2, <2>1, <2>2 DEF Checked
  <1>7. Counted(c)'
    BY <1>1 DEF Counted
  <1>8. QED
    BY <1>3, <1>4, <1>5, <1>6, <1>7 DEF Known

\* A request that asks for a new row is told it; any other has read nothing.
LEMMA AskKnows ==
  ASSUME AssignmentsAssumption, TypeOK, NEW c \in Session, Ask(c)
  PROVE  Known(c)'
  <1>1. ASSUME NEW l \in {"row", "look"}, NEW what, what.op # "create",
               Request(c, l, what, Absent)
        PROVE  Known(c)'
    <2>1. at'[c] = l /\ call'[c] = what
      BY <1>1 DEF Request, Goto, TypeOK
    <2>2. QED
      BY <1>1, <2>1 DEF Known, Fresh, Written, Read, Checked, Counted,
                        PastMachine, PastTool, Checks, AtRow, Slot
  <1>2. ASSUME NEW a \in Asg, NEW t \in Tool, NEW m \in Machine, NEW place \in Places,
               AskCreate(c, a, t, m, place)
        PROVE  Known(c)'
    <2> DEFINE what == [op |-> "create", id |-> a, tool |-> t, set |-> place]
               row == [life |-> "active", tool |-> t, mach |-> m, reg |-> place,
                       pending |-> TRUE]
    <2>1. /\ at'[c] = "tool" /\ call'[c] = what /\ current'[c] = row
          /\ asg[a].life = "absent" /\ asg' = asg
      BY <1>2 DEF AskCreate, Request, Goto, TypeOK, dbVars
    <2>2. Fresh(c)' /\ Written(c)' /\ Counted(c)'
      BY <2>1 DEF Fresh, Written, Counted, AtRow
    <2>3. Read(c)'
      BY <2>1 DEF Read
    <2>4. Checked(c)'
      BY <2>1 DEF Checked, PastMachine, PastTool, Checks, Slot
    <2>5. QED
      BY <2>2, <2>3, <2>4 DEF Known
  <1>3. QED
    BY <1>1, <1>2 DEF Ask, AskUpdate, AskConfirm, AskDelete, AskRetire

\* Requests that insert differ in their rows: the id is new to all of them.
LEMMA IdsDiffer ==
  ASSUME TypeOK, NewIdsDiffer, NEW c \in Session,
         \A d \in Session \ {c} : call'[d] = call[d],
         \/ call'[c] = call[c]
         \/ call'[c].op # "create"
         \/ \A d \in Session : call[d].id # call'[c].id
  PROVE  NewIdsDiffer'
  BY DEF NewIdsDiffer

\* What a session does by itself, the tables left alone.
LEMMA QuietKnows ==
  ASSUME AssignmentsAssumption, IInv, NewIdsDiffer, \A d \in Session : Known(d),
         NEW c \in Session,
         \/ Ask(c) \/ Refuse(c)
         \/ LoadTool(c) \/ LoadRow(c) \/ LoadMachine(c)
         \/ \E s \in Slot : CheckSlot(c, s)
         \/ Write(c) \/ LookTool(c) \/ Count(c)
  PROVE  NewIdsDiffer' /\ \A d \in Session : Known(d)'
  <1> USE DEF IInv
  <1>1. ASSUME NEW l, Goto(c, l), NEW k, call' = [call EXCEPT ![c] = k],
               NEW r, current' = [current EXCEPT ![c] = r],
               NEW x, tsc' = [tsc EXCEPT ![c] = x],
               NEW w, write' = [write EXCEPT ![c] = w],
               NEW f, changed' = [changed EXCEPT ![c] = f],
               UNCHANGED dbVars, Known(c)',
               \/ k = call[c]
               \/ k.op # "create"
               \/ \A d \in Session : call[d].id # k.id
        PROVE  NewIdsDiffer' /\ \A d \in Session : Known(d)'
    <2>1. /\ call'[c] = k
          /\ \A d \in Session \ {c} :
               /\ at'[d] = at[d] /\ call'[d] = call[d] /\ current'[d] = current[d]
               /\ tsc'[d] = tsc[d] /\ write'[d] = write[d] /\ changed'[d] = changed[d]
      BY <1>1 DEF TypeOK, Goto
    <2>2. NewIdsDiffer'
      BY <1>1, <2>1, IdsDiffer
    <2>3. QED
      BY <1>1, <2>1, <2>2, OthersKnow
  <1>2. /\ call = [call EXCEPT ![c] = call[c]]
        /\ current = [current EXCEPT ![c] = current[c]]
        /\ tsc = [tsc EXCEPT ![c] = tsc[c]]
        /\ write = [write EXCEPT ![c] = write[c]]
        /\ changed = [changed EXCEPT ![c] = changed[c]]
    BY DEF TypeOK
  <1>3. CASE Refuse(c)
    <2>1. Known(c)'
      BY <1>3, IdleKnows DEF Refuse, End, Goto, TypeOK, NoCall, AtRow, Slot
    <2>2. NoCall.op # "create"
      BY DEF NoCall
    <2>3. QED
      BY <1>1, <1>2, <1>3, <2>1, <2>2 DEF Refuse, End
  <1>4. CASE Ask(c)
    <2>1. Known(c)'
      BY <1>4, AskKnows
    <2>2. ASSUME NEW l, NEW what, NEW row, Request(c, l, what, row),
                 what.op # "create" \/ \A d \in Session : call[d].id # what.id
          PROVE  NewIdsDiffer' /\ \A d \in Session : Known(d)'
      BY <1>1, <1>2, <2>1, <2>2 DEF Request
    <2>3. CASE \E a \in Asg, t \in Tool, m \in Machine, place \in Places :
                 AskCreate(c, a, t, m, place)
      <3>1. PICK a \in Asg, t \in Tool, m \in Machine, place \in Places :
               AskCreate(c, a, t, m, place)
        BY <2>3
      <3> DEFINE what == [op |-> "create", id |-> a, tool |-> t, set |-> place]
      <3>2. what.id = a
        OBVIOUS
      <3> HIDE DEF what
      <3>3. QED
        BY <2>2, <3>1, <3>2 DEF AskCreate, what
    <2>4. CASE \E a \in Asg, move \in Moves : AskUpdate(c, a, move)
      BY <2>2, <2>4 DEF AskUpdate
    <2>5. CASE \E a \in Asg : AskConfirm(c, a) \/ AskDelete(c, a)
      BY <2>2, <2>5 DEF AskConfirm, AskDelete
    <2>6. CASE \E t \in Tool, op \in {"retire", "force"} : AskRetire(c, t, op)
      BY <2>2, <2>6 DEF AskRetire
    <2>7. QED
      BY <1>4, <2>3, <2>4, <2>5, <2>6 DEF Ask
  <1>5. CASE LoadTool(c) /\ ~Refuse(c)
    <2>1. Known(c)'
      BY <1>5, LoadToolKnows
    <2>2. QED
      BY <1>1, <1>2, <1>5, <2>1 DEF LoadTool
  <1>6. CASE LoadRow(c) /\ ~Refuse(c)
    <2>1. Known(c)'
      BY <1>6, LoadRowKnows
    <2>2. QED
      BY <1>1, <1>2, <1>6, <2>1 DEF LoadRow, Looked
  <1>7. CASE LoadMachine(c) /\ ~Refuse(c)
    <2>1. Known(c)'
      BY <1>7, LoadMachineKnows
    <2>2. QED
      BY <1>1, <1>2, <1>7, <2>1 DEF LoadMachine, Looked
  <1>8. ASSUME NEW s \in Slot, CheckSlot(c, s), ~Refuse(c)
        PROVE  NewIdsDiffer' /\ \A d \in Session : Known(d)'
    <2>1. Known(c)'
      BY <1>8, CheckSlotKnows
    <2>2. QED
      BY <1>1, <1>2, <1>8, <2>1 DEF CheckSlot, sesVars
  <1>9. CASE Write(c) /\ ~Refuse(c)
    <2>1. Known(c)'
      BY <1>9, WriteKnows
    <2>2. QED
      BY <1>1, <1>2, <1>9, <2>1 DEF Write
  <1>10. CASE LookTool(c) /\ ~Refuse(c)
    <2>1. at[c] = "look" /\ at'[c] = "count" /\ call'[c] = call[c]
      BY <1>10 DEF LookTool, Goto, TypeOK, sesVars
    <2>2. call[c].op # "create"
      BY <2>1 DEF Known, Fresh, AtRow, Slot
    <2>3. Known(c)'
      BY <2>1, <2>2, IdleKnows DEF AtRow, Slot
    <2>4. QED
      BY <1>1, <1>2, <1>10, <2>3 DEF LookTool, sesVars
  <1>11. CASE Count(c) /\ ~Refuse(c)
    <2>1. /\ at[c] = "count" /\ at'[c] = "retire" /\ UNCHANGED <<asg, call>>
          /\ call[c].op = "force" \/ ~InUse(call[c].tool)
      BY <1>11 DEF Count, Goto, TypeOK, dbVars
    <2>2. call[c].op # "create"
      BY <2>1 DEF Known, Fresh, AtRow, Slot
    <2>3. Counted(c)'
      BY <2>1 DEF Counted, InUse
    <2>4. Known(c)'
      BY <2>1, <2>2, <2>3 DEF Known, Fresh, Written, Read, Checked, PastMachine, PastTool,
                             Checks, AtRow, Slot
    <2>5. QED
      BY <1>1, <1>2, <1>11, <2>4 DEF Count, Looked
  <1>12. QED
    BY <1>3, <1>4, <1>5, <1>6, <1>7, <1>8, <1>9, <1>10, <1>11

\* What a commit makes of its row.
LEMMA CommitMeans ==
  ASSUME AssignmentsAssumption, IInv, NEW c \in Session, Known(c), at[c] = "commit"
  PROVE  LET a == call[c].id
             row == write[c] IN
         /\ a \in Asg /\ call[c].op \in {"create", "update", "confirm", "delete"}
         /\ call[c].op = "create" =>
              /\ asg[a].life = "absent" /\ row = current[c]
              /\ row.tool = call[c].tool /\ row.reg = call[c].set /\ row.pending
         /\ call[c].op # "create" =>
              /\ asg[a].life # "absent" /\ row.life \in {asg[a].life, "deleted"}
              /\ row.tool = asg[a].tool /\ row.mach = asg[a].mach
         /\ call[c].op = "update" =>
              /\ row.pending /\ row.life = asg[a].life
              /\ row.reg = [s \in Slot |-> IF s \in DOMAIN call[c].set
                                           THEN call[c].set[s] ELSE asg[a].reg[s]]
         /\ call[c].op = "confirm" => row.reg = asg[a].reg /\ row.life = asg[a].life
         /\ call[c].op = "delete" => row.life = "deleted" /\ row.reg = asg[a].reg
  <1> DEFINE a == call[c].id  row == write[c]
             reg == [s \in Slot |-> IF s \in DOMAIN call[c].set
                                    THEN call[c].set[s] ELSE asg[a].reg[s]]
  <1>1. /\ a \in Asg /\ call[c].op \in {"create", "update", "confirm", "delete"}
        /\ asg[a] \in Rows
    BY DEF IInv, TypeOK, AtRow
  <1>2. row = NewRow(c) /\ Fresh(c) /\ Read(c)
    BY DEF Known, Written
  <1>3. CASE call[c].op = "create"
    BY <1>1, <1>2, <1>3 DEF NewRow, Fresh, Read, AtRow
  <1>4. call[c].op # "create" => asg[a].life # "absent"
    BY <1>2 DEF Fresh
  <1>5. CASE call[c].op = "update"
    <2>1. row = [asg[a] EXCEPT !.reg = reg, !.pending = TRUE]
      BY <1>2, <1>5 DEF NewRow
    <2> HIDE DEF reg, row
    <2>2. /\ row.reg = reg /\ row.pending /\ row.life = asg[a].life
          /\ row.tool = asg[a].tool /\ row.mach = asg[a].mach
      BY <1>1, <2>1 DEF Rows
    <2>3. QED
      BY <1>1, <1>4, <1>5, <2>2 DEF reg, row
  <1>6. CASE call[c].op = "confirm"
    <2>1. row = [asg[a] EXCEPT !.pending = FALSE]
      BY <1>2, <1>6 DEF NewRow
    <2>2. QED
      BY <1>1, <1>4, <1>6, <2>1 DEF Rows
  <1>7. CASE call[c].op = "delete"
    <2>1. row = [asg[a] EXCEPT !.life = "deleted"]
      BY <1>2, <1>7 DEF NewRow
    <2>2. QED
      BY <1>1, <1>4, <1>7, <2>1 DEF Rows
  <1>8. QED
    BY <1>1, <1>3, <1>5, <1>6, <1>7

\* A commit tells the sessions that have read its row, and those that have
\* counted its tool's, that what they know has changed.
LEMMA CommitKnows ==
  ASSUME AssignmentsAssumption, IInv, NewIdsDiffer, \A d \in Session : Known(d),
         NEW c \in Session, CommitRow(c)
  PROVE  NewIdsDiffer' /\ \A d \in Session : Known(d)'
  <1> DEFINE a == call[c].id  row == write[c]
  <1>1. /\ at[c] = "commit" /\ a \in Asg
        /\ call[c].op = "create" =>
             asg[a].life = "absent" /\ row.tool = call[c].tool
        /\ call[c].op # "create" =>
             /\ asg[a].life # "absent" /\ row.life \in {asg[a].life, "deleted"}
             /\ row.tool = asg[a].tool /\ row.mach = asg[a].mach
    BY CommitMeans DEF CommitRow
  <1>2. /\ UNCHANGED <<tool, machine>>
        /\ asg'[a] = row /\ \A b \in Asg \ {a} : asg'[b] = asg[b]
        /\ at'[c] = "idle" /\ call'[c] = NoCall
        /\ \A d \in Session \ {c} :
             /\ at'[d] = at[d] /\ call'[d] = call[d] /\ current'[d] = current[d]
             /\ tsc'[d] = tsc[d] /\ write'[d] = write[d]
             /\ changed'[d] = changed[d] \cup (IF call[d].id = a THEN {"row"} ELSE {})
                  \cup (IF call[c].op = "create" /\ call[d].tool = call[c].tool
                        THEN {"use"} ELSE {})
    BY <1>1 DEF CommitRow, RowMoves, End, Goto, IInv, TypeOK
  <1> HIDE DEF a, row
  <1>3. NewIdsDiffer'
    <2>1. call'[c].op # "create"
      BY <1>2 DEF NoCall
    <2>2. QED
      BY <1>2, <2>1, IdsDiffer DEF IInv
  <1>4. Known(c)'
    BY <1>2, IdleKnows DEF NoCall, AtRow, Slot
  <1>5. ASSUME NEW d \in Session, d # c PROVE Known(d)'
    <2>1. Fresh(d) /\ Written(d) /\ Read(d) /\ Checked(d) /\ Counted(d)
      BY DEF Known
    <2>2. at[d] = "commit" => call[d].id # a /\ call[d].id \in Asg
      BY <1>1, <1>5 DEF IInv, OneWriter, TypeOK, AtRow, a
    <2>3. at[d] \in AtRow => call[d].id \in Asg
      BY DEF IInv, TypeOK
    <2>4. call[d].op = "create" => call[d].id # a
      BY <1>1, <1>5, <2>1 DEF NewIdsDiffer, Fresh, a
    <2>5. Fresh(d)'
      BY <1>2, <1>5, <2>1, <2>2, <2>3, <2>4 DEF Fresh
    <2>6. Written(d)'
      <3> SUFFICES ASSUME at[d] = "commit" PROVE write'[d] = NewRow(d)'
        BY <1>2, <1>5 DEF Written
      <3>1. asg'[call[d].id] = asg[call[d].id]
        BY <1>2, <2>2
      <3>2. call'[d] = call[d] /\ current'[d] = current[d] /\ write'[d] = write[d]
        BY <1>2, <1>5
      <3>3. NewRow(d)' = NewRow(d)
        BY <3>1, <3>2 DEF NewRow
      <3>4. QED
        BY <2>1, <3>2, <3>3 DEF Written
    <2>7. Read(d)'
      <3>1. CASE at[d] \in AtRow \ {"row"} /\ call[d].op # "create"
        <4>1. call[d].id \in Asg
          BY <2>3, <3>1
        <4>2. asg[call[d].id].life # "absent"
          BY <2>1, <3>1 DEF IInv, Live, Fresh
        <4>3. /\ asg'[call[d].id].tool = asg[call[d].id].tool
              /\ asg'[call[d].id].mach = asg[call[d].id].mach
              /\ call[d].id # a => asg'[call[d].id] = asg[call[d].id]
          BY <1>1, <1>2, <4>1, <4>2
        <4>4. "row" \in changed[d] \/ call[d].id = a => "row" \in changed'[d]
          BY <1>2, <1>5
        <4>5. QED
          BY <1>2, <1>5, <2>1, <3>1, <4>3, <4>4 DEF Read
      <3>2. CASE ~(at[d] \in AtRow \ {"row"} /\ call[d].op # "create")
        BY <1>2, <1>5, <2>1, <3>2 DEF Read
      <3>3. QED
        BY <3>1, <3>2
    <2>8. Checked(d)'
      <3>1. OnProbe(machine[current[d].mach], Wanted(d))' <=>
              OnProbe(machine[current[d].mach], Wanted(d))
        BY <1>2, <1>5 DEF OnProbe, Wanted
      <3>2. (PastMachine(d)' <=> PastMachine(d)) /\ (PastTool(d)' <=> PastTool(d))
        BY <1>2, <1>5 DEF PastMachine, PastTool
      <3>3. changed[d] \subseteq changed'[d]
        BY <1>2, <1>5
      <3>4. QED
        BY <1>2, <1>5, <2>1, <3>1, <3>2, <3>3 DEF Checked
    <2>9. Counted(d)'
      <3> SUFFICES ASSUME at[d] = "retire", call[d].op # "force", "use" \notin changed'[d]
                   PROVE  ~InUse(call[d].tool)'
        BY <1>2, <1>5 DEF Counted
      <3>1. /\ ~InUse(call[d].tool) /\ call'[d] = call[d]
            /\ call[c].op = "create" => call[d].tool # call[c].tool
        BY <1>2, <1>5, <2>1 DEF Counted
      <3>2. ~(asg'[a].life = "active" /\ asg'[a].tool = call[d].tool)
        BY <1>1, <1>2, <3>1 DEF InUse
      <3>3. QED
        BY <1>2, <3>1, <3>2 DEF InUse
    <2>10. QED
      BY <2>5, <2>6, <2>7, <2>8, <2>9 DEF Known
  <1>6. QED
    BY <1>3, <1>4, <1>5, Zenon

\* A session past its first read has a row with a tool and a machine.
LEMMA ReadWhole ==
  ASSUME AssignmentsAssumption, IInv, NEW c \in Session, Known(c),
         PastMachine(c) \/ PastTool(c)
  PROVE  current[c].tool \in Tool /\ current[c].mach \in Machine
  <1>1. /\ at[c] \in AtRow \ {"row"} /\ call[c].op \in {"create", "update"}
        /\ call[c].id \in Asg
    BY DEF PastMachine, PastTool, Checks, AtRow, Slot, IInv, TypeOK
  <1>2. \A r \in Rows : Whole(r) /\ r.life # "absent" => r.tool \in Tool /\ r.mach \in Machine
    BY DEF Rows, Whole
  <1>3. current[c] \in Rows /\ Whole(current[c]) /\ write[c] \in Rows /\ Whole(write[c])
        /\ asg[call[c].id] \in Rows /\ Whole(asg[call[c].id])
    BY <1>1 DEF IInv, TypeOK
  <1>4. CASE at[c] # "commit"
    BY <1>1, <1>2, <1>3, <1>4 DEF IInv, Live
  <1>5. CASE at[c] = "commit" /\ call[c].op = "create"
    <2>1. write[c].life # "absent" /\ write[c] = current[c]
      BY <1>5, CommitMeans DEF IInv, Live
    <2>2. QED
      BY <1>2, <1>3, <2>1
  <1>6. CASE at[c] = "commit" /\ call[c].op # "create"
    BY <1>1, <1>2, <1>3, <1>6 DEF Known, Fresh, Read
  <1>7. QED
    BY <1>4, <1>5, <1>6

\* A change of a tool or a machine is noted by every session that has read it.
LEMMA PatchKnows ==
  ASSUME AssignmentsAssumption, IInv, NEW d \in Session, Known(d),
         UNCHANGED <<asg, at, call, current, tsc, write>>,
         changed[d] \subseteq changed'[d],
         current[d].mach \in Machine =>
           machine'[current[d].mach] = machine[current[d].mach] \/ "machine" \in changed'[d],
         current[d].tool \in Tool =>
           /\ \/ tool'[current[d].tool].tsc = tool[current[d].tool].tsc
              \/ "need" \in changed'[d]
           /\ tool'[current[d].tool].retired = tool[current[d].tool].retired,
         "row" \in changed'[d] => "row" \in changed[d]
  PROVE  Known(d)'
  <1>1. Fresh(d) /\ Written(d) /\ Read(d) /\ Checked(d) /\ Counted(d)
    BY DEF Known
  <1>2. Fresh(d)' /\ Written(d)' /\ Read(d)' /\ Counted(d)'
    BY <1>1 DEF Fresh, Written, NewRow, Read, Counted, InUse
  <1>3. Checked(d)'
    <2>1. machine'[current[d].mach] = machine[current[d].mach] =>
            (OnProbe(machine[current[d].mach], Wanted(d))' <=>
               OnProbe(machine[current[d].mach], Wanted(d)))
      BY DEF OnProbe, Wanted
    <2>2. (PastMachine(d)' <=> PastMachine(d)) /\ (PastTool(d)' <=> PastTool(d))
      BY DEF PastMachine, PastTool
    <2>3. PastMachine(d) \/ PastTool(d) =>
            current[d].tool \in Tool /\ current[d].mach \in Machine
      BY ReadWhole
    <2>4. QED
      BY <1>1, <2>1, <2>2, <2>3 DEF Checked
  <1>4. QED
    BY <1>2, <1>3 DEF Known

\* So is a retirement, by whoever is about to insert a row of that tool.
LEMMA RetireKnows ==
  ASSUME AssignmentsAssumption, IInv, NewIdsDiffer, \A d \in Session : Known(d),
         NEW c \in Session, CommitRetire(c)
  PROVE  NewIdsDiffer' /\ \A d \in Session : Known(d)'
  <1> DEFINE t == call[c].tool
  <1>1. /\ UNCHANGED <<machine, asg>>
        /\ \A u \in Tool : /\ tool'[u].tsc = tool[u].tsc
                           /\ u # t => tool'[u].retired = tool[u].retired
        /\ at'[c] = "idle" /\ call'[c] = NoCall
        /\ \A d \in Session \ {c} :
             /\ at'[d] = at[d] /\ call'[d] = call[d] /\ current'[d] = current[d]
             /\ tsc'[d] = tsc[d] /\ write'[d] = write[d]
             /\ changed'[d] = changed[d] \cup (IF call[d].tool = t THEN {"tool"} ELSE {})
    <2>1. /\ tool' = [tool EXCEPT ![t].retired = TRUE] /\ UNCHANGED <<machine, asg>>
          /\ at' = [at EXCEPT ![c] = "idle"] /\ call' = [call EXCEPT ![c] = NoCall]
          /\ current' = [current EXCEPT ![c] = Absent]
          /\ tsc' = [tsc EXCEPT ![c] = NoTsc]
          /\ write' = [write EXCEPT ![c] = Absent]
          /\ changed' = [d \in Session |-> changed[d] \cup
                           (IF d # c /\ call[d].tool = t THEN {"tool"} ELSE {})]
      BY DEF CommitRetire, End, Goto
    <2>2. ASSUME NEW u \in Tool
          PROVE  /\ tool'[u].tsc = tool[u].tsc
                 /\ u # t => tool'[u].retired = tool[u].retired
      <3>1. tool[u] \in [retired : BOOLEAN, tsc : BOOLEAN] /\ DOMAIN tool = Tool
        BY DEF IInv, TypeOK
      <3>2. CASE u = t
        <4>1. tool'[u] = [tool[u] EXCEPT !.retired = TRUE]
          BY <2>1, <3>1, <3>2
        <4>2. QED
          BY <3>1, <3>2, <4>1
      <3>3. CASE u # t
        BY <2>1, <3>1, <3>3
      <3>4. QED
        BY <3>2, <3>3
    <2> HIDE DEF t
    <2>3. QED
      BY <2>1, <2>2 DEF IInv, TypeOK
  <1> HIDE DEF t
  <1>2. NewIdsDiffer'
    <2>1. call'[c].op # "create"
      BY <1>1 DEF NoCall
    <2>2. QED
      BY <1>1, <2>1, IdsDiffer DEF IInv
  <1>3. Known(c)'
    BY <1>1, IdleKnows DEF NoCall, AtRow, Slot
  <1>4. ASSUME NEW d \in Session, d # c PROVE Known(d)'
    <2>1. Fresh(d) /\ Written(d) /\ Read(d) /\ Checked(d) /\ Counted(d)
      BY DEF Known
    <2>2. /\ at'[d] = at[d] /\ call'[d] = call[d] /\ current'[d] = current[d]
          /\ tsc'[d] = tsc[d] /\ write'[d] = write[d] /\ asg' = asg /\ machine' = machine
          /\ changed'[d] = changed[d] \cup (IF call[d].tool = t THEN {"tool"} ELSE {})
      BY <1>1, <1>4
    <2>3. Fresh(d)' /\ Written(d)' /\ Read(d)' /\ Counted(d)'
      <3>1. NewRow(d)' = NewRow(d)
        BY <2>2 DEF NewRow
      <3>2. QED
        BY <2>1, <2>2, <3>1 DEF Fresh, Written, Read, Counted, InUse
    <2>4. Checked(d)'
      <3>1. OnProbe(machine[current[d].mach], Wanted(d))' <=>
              OnProbe(machine[current[d].mach], Wanted(d))
        BY <2>2 DEF OnProbe, Wanted
      <3>2. (PastMachine(d)' <=> PastMachine(d)) /\ (PastTool(d)' <=> PastTool(d))
        BY <2>2 DEF PastMachine, PastTool
      <3>3. PastTool(d) => current[d].tool \in Tool
        BY ReadWhole
      <3>4. PastTool(d) /\ call[d].op = "create" => current[d].tool = call[d].tool
        BY <2>1 DEF PastTool, Checks, AtRow, Slot, Read
      <3>5. PastTool(d) /\ call[d].op = "create" /\ tool'[current[d].tool].retired =>
              "tool" \in changed'[d]
        BY <1>1, <2>1, <2>2, <3>3, <3>4 DEF Checked
      <3>6. PastTool(d) /\ "need" \notin changed'[d] =>
              tsc[d].needed = tool'[current[d].tool].tsc
        BY <1>1, <2>1, <2>2, <3>3 DEF Checked
      <3>7. PastMachine(d) /\ "machine" \notin changed'[d] =>
              /\ tsc[d].there = machine[current[d].mach].tsc
              /\ ~OnProbe(machine[current[d].mach], Wanted(d))
        BY <2>1, <2>2 DEF Checked
      <3>8. QED
        BY <2>1, <2>2, <3>1, <3>2, <3>5, <3>6, <3>7 DEF Checked
    <2>5. QED
      BY <2>3, <2>4 DEF Known
  <1>5. QED
    BY <1>2, <1>3, <1>4, Zenon

\* Nobody knows anything at first.
LEMMA InitKInv == AssignmentsAssumption /\ Init => KInv
  <1> SUFFICES ASSUME AssignmentsAssumption, Init PROVE KInv
    OBVIOUS
  <1>1. \A c \in Session : at[c] = "idle" /\ call[c].op = "none"
    BY DEF Init, NoCall
  <1>2. ASSUME NEW c \in Session PROVE Known(c)
    BY <1>1 DEF Known, Fresh, Written, Read, Checked, Counted, PastMachine, PastTool, Checks,
                AtRow, Slot
  <1>3. NewIdsDiffer
    BY <1>1 DEF NewIdsDiffer
  <1>4. QED
    BY <1>2, <1>3, InitIInv DEF KInv

\* Every step keeps what the sessions know.
LEMMA NextKInv == ASSUME AssignmentsAssumption, KInv, [Next]_vars PROVE KInv'
  <1> USE DEF KInv
  <1>1. IInv'
    BY NextIInv
  <1>2. ASSUME UNCHANGED <<asg, at, call, current, tsc, write>>,
               \A d \in Session :
                 /\ changed[d] \subseteq changed'[d]
                 /\ "row" \in changed'[d] => "row" \in changed[d]
                 /\ current[d].mach \in Machine =>
                      \/ machine'[current[d].mach] = machine[current[d].mach]
                      \/ "machine" \in changed'[d]
                 /\ current[d].tool \in Tool =>
                      /\ \/ tool'[current[d].tool].tsc = tool[current[d].tool].tsc
                         \/ "need" \in changed'[d]
                      /\ tool'[current[d].tool].retired = tool[current[d].tool].retired
        PROVE  NewIdsDiffer' /\ \A d \in Session : Known(d)'
    <2>1. NewIdsDiffer'
      BY <1>2 DEF NewIdsDiffer
    <2>2. \A d \in Session : Known(d)'
      BY <1>2, PatchKnows
    <2>3. QED
      BY <2>1, <2>2
  <1>3. NewIdsDiffer' /\ \A d \in Session : Known(d)'
    <2>1. ASSUME NEW c \in Session, Ask(c) \/ Step(c) \/ Abort(c)
          PROVE  NewIdsDiffer' /\ \A d \in Session : Known(d)'
      BY <2>1, QuietKnows, CommitKnows, RetireKnows DEF Step, Abort
    <2>2. CASE \E m \in Machine, row \in MachineRow : PatchMachine(m, row)
      BY <1>2, <2>2 DEF PatchMachine, IInv, TypeOK
    <2>3. CASE \E t \in Tool : PatchTool(t)
      BY <1>2, <2>3 DEF PatchTool, IInv, TypeOK
    <2>4. CASE UNCHANGED vars
      BY <1>2, <2>4 DEF vars, dbVars, sesVars
    <2>5. QED
      BY <2>1, <2>2, <2>3, <2>4 DEF Next
  <1>4. QED
    BY <1>1, <1>3

(* What a session has read of an assignment, its machine and its tool is    *)
(* still so, or it counts as changed; what waits for its commit is still    *)
(* what the request makes of the row (assignments.py's read, check, write). *)
THEOREM Knowledge == Spec => []KInv
  <1>1. Init => KInv
    BY AssignmentsAssumption, InitKInv
  <1>2. KInv /\ [Next]_vars => KInv'
    BY AssignmentsAssumption, NextKInv
  <1>3. QED
    BY <1>1, <1>2, PTL DEF Spec

-----------------------------------------------------------------------------
(* What the committed rows are: columns and checks.                         *)

\* The four steps that change a table, or what a row's history says.
LEMMA TableSteps ==
  ASSUME [Next]_vars
  PROVE  \/ UNCHANGED <<dbVars, histVars>>
         \/ \E c \in Session : CommitRow(c) \/ CommitRetire(c)
         \/ \E m \in Machine, row \in MachineRow : PatchMachine(m, row)
         \/ \E t \in Tool : PatchTool(t)
  <1>1. ASSUME NEW c \in Session, Ask(c)
        PROVE  UNCHANGED <<dbVars, histVars>>
    <2>1. \A l, what, row : Request(c, l, what, row) => UNCHANGED <<dbVars, histVars>>
      BY DEF Request
    <2>2. QED
      BY <1>1, <2>1 DEF Ask, AskCreate, AskUpdate, AskConfirm, AskDelete, AskRetire
  <1>2. ASSUME NEW c \in Session, Step(c), ~CommitRow(c), ~CommitRetire(c)
        PROVE  UNCHANGED <<dbVars, histVars>>
    BY <1>2 DEF Step, LoadTool, LoadRow, LoadMachine, CheckSlot, Write, LookTool, Count, Refuse
  <1>3. ASSUME NEW c \in Session, Abort(c) PROVE UNCHANGED <<dbVars, histVars>>
    BY <1>3 DEF Abort, Refuse
  <1>4. UNCHANGED vars => UNCHANGED <<dbVars, histVars>>
    BY DEF vars
  <1>5. QED
    BY <1>1, <1>2, <1>3, <1>4, Zenon DEF Next

\* A commit touches one row.
LEMMA CommitRows ==
  ASSUME IInv, NEW c \in Session, CommitRow(c)
  PROVE  /\ at[c] = "commit" /\ call[c].id \in Asg
         /\ asg'[call[c].id] = write[c] /\ UNCHANGED <<tool, machine>>
         /\ \A b \in Asg \ {call[c].id} :
              asg'[b] = asg[b] /\ since'[b] = since[b] /\ shown'[b] = shown[b]
         /\ shown'[call[c].id] =
              IF call[c].op = "confirm" THEN current[c].reg ELSE shown[call[c].id]
  BY DEF CommitRow, Answers, IInv, TypeOK, AtRow

(* A request changes the columns it names and no others, whatever was       *)
(* committed between its read of the row and its own commit, and never      *)
(* brings a deleted row back (update, confirm and soft_delete).             *)
THEOREM OnlySentColumnsChange == Spec => OnlySentColumns
  <1> DEFINE A == \A a \in Asg :
                    (asg[a].life # "absent" /\ asg'[a] # asg[a]) =>
                      /\ asg'[a].life \in {asg[a].life, "deleted"}
                      /\ \E c \in Session :
                           /\ at[c] = "commit" /\ call[c].id = a
                           /\ \A s \in Slot :
                                asg'[a].reg[s] # asg[a].reg[s] => s \in DOMAIN call[c].set
  <1>1. KInv /\ [Next]_vars => A
    <2> SUFFICES ASSUME KInv, [Next]_vars PROVE A
      OBVIOUS
    <2>1. ASSUME NEW c \in Session, CommitRow(c) PROVE A
      <3> SUFFICES ASSUME NEW a \in Asg, asg[a].life # "absent", asg'[a] # asg[a]
                   PROVE  /\ asg'[a].life \in {asg[a].life, "deleted"}
                          /\ at[c] = "commit" /\ call[c].id = a
                          /\ \A s \in Slot :
                               asg'[a].reg[s] # asg[a].reg[s] => s \in DOMAIN call[c].set
        OBVIOUS
      <3>1. a = call[c].id /\ at[c] = "commit" /\ asg'[a] = write[c]
        BY <2>1, CommitRows DEF KInv
      <3>2. /\ call[c].op \in {"update", "confirm", "delete"}
            /\ write[c].life \in {asg[a].life, "deleted"}
            /\ call[c].op = "update" =>
                 write[c].reg = [s \in Slot |-> IF s \in DOMAIN call[c].set
                                                THEN call[c].set[s] ELSE asg[a].reg[s]]
            /\ call[c].op # "update" => write[c].reg = asg[a].reg
        BY <3>1, AssignmentsAssumption, CommitMeans DEF KInv
      <3>3. QED
        BY <3>1, <3>2
    <2>2. UNCHANGED asg => A
      OBVIOUS
    <2>3. UNCHANGED asg \/ \E c \in Session : CommitRow(c)
      BY TableSteps DEF dbVars, CommitRetire, PatchMachine, PatchTool
    <2>4. QED
      BY <2>1, <2>2, <2>3
  <1> HIDE DEF A
  <1>2. Spec => [][A]_vars
    BY <1>1, Knowledge, PTL DEF Spec
  <1>3. QED
    BY <1>2 DEF A, OnlySentColumns

\* What a commit leaves of its row's history.
LEMMA CommitSince ==
  ASSUME IInv, NEW c \in Session, CommitRow(c)
  PROVE  LET a == call[c].id IN
         /\ call[c].op = "create" => since'[a] = changed[c]
         /\ call[c].op = "update" =>
              /\ changed[c] \ {"row"} \subseteq since'[a]
              /\ "row" \in changed[c] => since[a] \ {"row"} \subseteq since'[a]
              /\ "tool" \in since[a] => "tool" \in since'[a]
         /\ call[c].op = "confirm" =>
              /\ since[a] \ {"row"} \subseteq since'[a]
              /\ "row" \in changed[c] => "row" \in since'[a]
         /\ call[c].op \in {"confirm", "delete"} => since[a] \subseteq since'[a] \cup {"row"}
  <1> DEFINE a == call[c].id
             new == CASE call[c].op = "create" -> changed[c]
                      [] call[c].op = "update" ->
                           (changed[c] \ {"row"})
                             \cup (IF "row" \in changed[c] THEN since[a] \ {"row"}
                                   ELSE since[a] \cap {"tool"})
                      [] call[c].op = "confirm" ->
                           (since[a] \ {"row"}) \cup (changed[c] \cap {"row"})
                      [] call[c].op = "delete" -> since[a]
  <1>1. a \in Asg /\ since' = [since EXCEPT ![a] = new]
    BY CommitRows DEF CommitRow, Answers
  <1> HIDE DEF new
  <1>2. since'[a] = new
    BY <1>1 DEF IInv, TypeOK
  <1>3. QED
    BY <1>2 DEF new

\* Whoever commits has answered for his row: retirement.
LEMMA NextRetired ==
  ASSUME AssignmentsAssumption, KInv, RetiredUnused, [Next]_vars PROVE RetiredUnused'
  <1> USE DEF KInv
  <1>0. \A a \in Asg : asg[a].life = "active" => asg[a].tool \in Tool
    BY DEF IInv, TypeOK, Rows, Whole
  <1>1. CASE UNCHANGED <<dbVars, histVars>>
    BY <1>1 DEF RetiredUnused, dbVars, histVars
  <1>2. ASSUME NEW c \in Session, CommitRow(c) PROVE RetiredUnused'
    <2> DEFINE a == call[c].id
    <2>1. a \in Asg /\ asg'[a] = write[c] /\ UNCHANGED tool
          /\ \A b \in Asg \ {a} : asg'[b] = asg[b] /\ since'[b] = since[b]
      BY <1>2, CommitRows
    <2>2. /\ call[c].op = "create" => since'[a] = changed[c]
          /\ call[c].op = "update" /\ "tool" \in since[a] => "tool" \in since'[a]
          /\ call[c].op \in {"confirm", "delete"} => since[a] \subseteq since'[a] \cup {"row"}
      BY <1>2, CommitSince
    <2>3. ASSUME write[c].life = "active", tool[write[c].tool].retired
          PROVE  "tool" \in since'[a]
      <3>1. CASE call[c].op = "create"
        <4>1. write[c] = current[c] /\ PastTool(c)
          BY <1>2, <3>1, CommitMeans DEF CommitRow, PastTool, Checks
        <4>2. "tool" \in changed[c]
          BY <2>3, <3>1, <4>1 DEF Known, Checked
        <4>3. QED
          BY <2>2, <3>1, <4>2
      <3>2. CASE call[c].op # "create"
        <4>1. /\ write[c].life = asg[a].life /\ write[c].tool = asg[a].tool
              /\ call[c].op \in {"update", "confirm", "delete"}
          BY <1>2, <2>3, <3>2, CommitMeans DEF CommitRow
        <4>2. "tool" \in since[a]
          BY <2>1, <2>3, <4>1 DEF RetiredUnused
        <4>3. QED
          BY <2>2, <4>1, <4>2
      <3>3. QED
        BY <3>1, <3>2
    <2>4. QED
      BY <2>1, <2>3 DEF RetiredUnused
  <1>3. ASSUME NEW c \in Session, CommitRetire(c) PROVE RetiredUnused'
    <2> DEFINE t == call[c].tool
    <2>1. /\ at[c] = "retire" /\ UNCHANGED asg
          /\ tool' = [tool EXCEPT ![t].retired = TRUE]
          /\ \A a \in Asg : since'[a] = since[a] \cup
               (IF asg[a].tool = t /\ (call[c].op = "force" \/ "use" \in changed[c])
                THEN {"tool"} ELSE {})
      BY <1>3 DEF CommitRetire
    <2>2. \A u \in Tool : u # t => tool'[u] = tool[u]
      BY <2>1 DEF IInv, TypeOK
    <2>3. call[c].op = "force" \/ "use" \in changed[c] \/ ~InUse(t)
      BY <2>1 DEF Known, Counted
    <2> HIDE DEF t
    <2>4. ASSUME NEW a \in Asg, asg[a].life = "active", tool'[asg[a].tool].retired
          PROVE  "tool" \in since'[a]
      <3>1. CASE asg[a].tool = t
        BY <2>1, <2>3, <2>4, <3>1 DEF InUse
      <3>2. CASE asg[a].tool # t
        BY <1>0, <2>1, <2>2, <2>4, <3>2 DEF RetiredUnused
      <3>3. QED
        BY <3>1, <3>2
    <2>5. QED
      BY <2>1, <2>4 DEF RetiredUnused
  <1>4. CASE \E m \in Machine, row \in MachineRow : PatchMachine(m, row)
    BY <1>4 DEF PatchMachine, RetiredUnused
  <1>5. ASSUME NEW t \in Tool, PatchTool(t) PROVE RetiredUnused'
    <2>1. /\ tool' = [tool EXCEPT ![t].tsc = ~@] /\ UNCHANGED asg
          /\ \A a \in Asg : since[a] \subseteq since'[a]
      BY <1>5 DEF PatchTool
    <2>2. ASSUME NEW u \in Tool PROVE tool'[u].retired = tool[u].retired
      <3>1. tool[u] \in [retired : BOOLEAN, tsc : BOOLEAN] /\ DOMAIN tool = Tool
        BY DEF IInv, TypeOK
      <3>2. tool'[u] = IF u = t THEN [tool[u] EXCEPT !.tsc = ~@] ELSE tool[u]
        BY <2>1, <3>1
      <3>3. QED
        BY <3>1, <3>2
    <2>3. QED
      BY <1>0, <2>1, <2>2 DEF RetiredUnused
  <1>6. QED
    BY <1>1, <1>2, <1>3, <1>4, <1>5, TableSteps

\* Confirmation.
LEMMA NextConfirmed ==
  ASSUME AssignmentsAssumption, KInv, ConfirmedAsShown, [Next]_vars
  PROVE  ConfirmedAsShown'
  <1> USE DEF KInv
  <1>1. CASE UNCHANGED <<dbVars, histVars>>
    BY <1>1 DEF ConfirmedAsShown, dbVars, histVars
  <1>2. ASSUME NEW c \in Session, CommitRow(c) PROVE ConfirmedAsShown'
    <2> DEFINE a == call[c].id
    <2>1. /\ a \in Asg /\ at[c] = "commit" /\ asg'[a] = write[c]
          /\ \A b \in Asg \ {a} :
               asg'[b] = asg[b] /\ since'[b] = since[b] /\ shown'[b] = shown[b]
          /\ shown'[a] = IF call[c].op = "confirm" THEN current[c].reg ELSE shown[a]
      BY <1>2, CommitRows
    <2>2. ASSUME write[c].life = "active", ~write[c].pending
          PROVE  "row" \in since'[a] \/ shown'[a] = write[c].reg
      <3>1. call[c].op = "confirm" /\ write[c].reg = asg[a].reg
        BY <2>1, <2>2, CommitMeans
      <3>2. CASE "row" \in changed[c]
        BY <1>2, <3>1, <3>2, CommitSince
      <3>3. CASE "row" \notin changed[c]
        BY <2>1, <3>1, <3>3 DEF Known, Read, AtRow
      <3>4. QED
        BY <3>2, <3>3
    <2> HIDE DEF a
    <2>3. QED
      BY <2>1, <2>2 DEF ConfirmedAsShown
  <1>3. ASSUME UNCHANGED <<asg, shown>>, \A a \in Asg : since[a] \subseteq since'[a]
        PROVE  ConfirmedAsShown'
    BY <1>3 DEF ConfirmedAsShown
  <1>4. QED
    BY <1>1, <1>2, <1>3, TableSteps DEF CommitRetire, PatchMachine, PatchTool

\* Probe lock and coolant.  The four things an assignment is compared with are
\* those its session has read, the columns it left alone those of the row.
LEMMA NextCompatible ==
  ASSUME AssignmentsAssumption, KInv, Compatible, [Next]_vars
  PROVE  Compatible'
  <1> USE DEF KInv
  <1> DEFINE Fits(reg, m) == \A s \in {"t", "h"} : m.probe[s] # None => reg[s] # m.probe[s]
  <1>0. \A a \in Asg :
          asg[a].life = "active" => asg[a].tool \in Tool /\ asg[a].mach \in Machine
    BY DEF IInv, TypeOK, Rows, Whole
  <1>1. CASE UNCHANGED <<dbVars, histVars>>
    BY <1>1 DEF Compatible, dbVars, histVars
  <1>2. ASSUME NEW c \in Session, CommitRow(c) PROVE Compatible'
    <2> DEFINE a == call[c].id  row == write[c]
    <2>1. /\ a \in Asg /\ at[c] = "commit" /\ asg'[a] = row /\ UNCHANGED <<tool, machine>>
          /\ \A b \in Asg \ {a} : asg'[b] = asg[b] /\ since'[b] = since[b]
      BY <1>2, CommitRows
    <2>2. Fresh(c) /\ Read(c) /\ Checked(c)
      BY DEF Known
    <2>3. ASSUME row.life = "active", "machine" \notin since'[a]
          PROVE  /\ Fits(row.reg, machine[row.mach])
                 /\ "need" \in since'[a] \/ machine[row.mach].tsc \/ ~tool[row.tool].tsc
      <3>1. ASSUME call[c].op \in {"create", "update"}, "machine" \notin changed[c]
            PROVE  /\ Fits(Wanted(c), machine[current[c].mach])
                   /\ \/ "need" \in changed[c]
                      \/ machine[current[c].mach].tsc
                      \/ ~tool[current[c].tool].tsc
        <4>1. PastMachine(c) /\ PastTool(c)
          BY <2>1, <3>1 DEF PastMachine, PastTool, Checks
        <4>2. /\ tsc[c].there = machine[current[c].mach].tsc
              /\ ~OnProbe(machine[current[c].mach], Wanted(c))
              /\ "need" \notin changed[c] => tsc[c].needed = tool[current[c].tool].tsc
              /\ ~tsc[c].needed \/ tsc[c].there
          BY <2>1, <2>2, <3>1, <4>1 DEF Checked
        <4>3. QED
          BY <4>2 DEF OnProbe
      <3>2. CASE call[c].op = "create"
        <4>1. row = current[c] /\ current[c].reg = call[c].set /\ since'[a] = changed[c]
          BY <1>2, <2>1, <2>2, <3>2, CommitMeans, CommitSince DEF Read, AtRow
        <4>2. \A s \in Slot : Wanted(c)[s] = row.reg[s]
          BY <4>1 DEF Wanted
        <4>3. QED
          BY <2>3, <3>1, <3>2, <4>1, <4>2 DEF Slot
      <3>3. CASE call[c].op = "update"
        <4>1. /\ row.life = asg[a].life /\ row.tool = asg[a].tool /\ row.mach = asg[a].mach
              /\ current[c].tool = row.tool /\ current[c].mach = row.mach
              /\ row.reg = [s \in Slot |-> IF s \in DOMAIN call[c].set
                                           THEN call[c].set[s] ELSE asg[a].reg[s]]
          BY <2>1, <2>2, <3>3, CommitMeans DEF Read, AtRow
        <4>2. "machine" \notin changed[c] /\ ("need" \in changed[c] => "need" \in since'[a])
          BY <1>2, <2>3, <3>3, CommitSince
        <4>3. "need" \in since'[a] \/ machine[row.mach].tsc \/ ~tool[row.tool].tsc
          BY <3>1, <3>3, <4>1, <4>2
        <4>4. CASE "row" \notin changed[c]
          <5>1. \A s \in Slot : Wanted(c)[s] = row.reg[s]
            BY <2>1, <2>2, <3>3, <4>1, <4>4 DEF Wanted, Read, AtRow
          <5>2. QED
            BY <3>1, <3>3, <4>1, <4>2, <4>3, <5>1 DEF Slot
        <4>5. CASE "row" \in changed[c]
          <5>1. "machine" \notin since[a]
            BY <1>2, <2>3, <3>3, <4>5, CommitSince
          <5>2. Fits(asg[a].reg, machine[asg[a].mach])
            BY <2>1, <2>3, <4>1, <5>1 DEF Compatible
          <5>3. \A s \in Slot : IF s \in DOMAIN call[c].set
                                THEN row.reg[s] = Wanted(c)[s] ELSE row.reg[s] = asg[a].reg[s]
            BY <4>1 DEF Wanted
          <5>4. QED
            BY <3>1, <3>3, <4>1, <4>2, <4>3, <5>2, <5>3 DEF Slot
        <4>6. QED
          BY <4>4, <4>5
      <3>4. CASE call[c].op \notin {"create", "update"}
        <4>1. /\ asg[a].life = "active" /\ row.tool = asg[a].tool /\ row.mach = asg[a].mach
              /\ row.reg = asg[a].reg
              /\ call[c].op \in {"confirm", "delete"}
          BY <2>1, <2>3, <3>4, CommitMeans
        <4>2. "machine" \notin since[a] /\ ("need" \in since[a] => "need" \in since'[a])
          BY <1>2, <2>3, <4>1, CommitSince
        <4>3. QED
          BY <2>1, <4>1, <4>2 DEF Compatible
      <3>5. QED
        BY <3>2, <3>3, <3>4
    <2> HIDE DEF a, row
    <2>4. QED
      BY <2>1, <2>3 DEF Compatible
  <1>3. ASSUME UNCHANGED asg, \A a \in Asg : since[a] \subseteq since'[a],
               \A m \in Machine :
                 \/ machine'[m] = machine[m]
                 \/ \A a \in Asg : asg[a].mach = m => "machine" \in since'[a],
               \A t \in Tool :
                 \/ tool'[t].tsc = tool[t].tsc
                 \/ \A a \in Asg : asg[a].tool = t => "need" \in since'[a]
        PROVE  Compatible'
    <2> SUFFICES ASSUME NEW a \in Asg, asg[a].life = "active", "machine" \notin since'[a]
                 PROVE  /\ Fits(asg[a].reg, machine'[asg[a].mach])
                        /\ \/ "need" \in since'[a]
                           \/ machine'[asg[a].mach].tsc
                           \/ ~tool'[asg[a].tool].tsc
      BY <1>3 DEF Compatible
    <2>1. machine'[asg[a].mach] = machine[asg[a].mach]
      BY <1>0, <1>3
    <2>2. tool'[asg[a].tool].tsc = tool[asg[a].tool].tsc \/ "need" \in since'[a]
      BY <1>0, <1>3
    <2>3. "machine" \notin since[a] /\ ("need" \in since[a] => "need" \in since'[a])
      BY <1>3
    <2>4. QED
      BY <2>1, <2>2, <2>3 DEF Compatible
  <1>4. ASSUME NEW c \in Session, CommitRetire(c) PROVE Compatible'
    <2>1. /\ tool' = [tool EXCEPT ![call[c].tool].retired = TRUE]
          /\ UNCHANGED <<machine, asg>> /\ \A a \in Asg : since[a] \subseteq since'[a]
      BY <1>4 DEF CommitRetire
    <2>2. ASSUME NEW t \in Tool PROVE tool'[t].tsc = tool[t].tsc
      <3>1. tool[t] \in [retired : BOOLEAN, tsc : BOOLEAN] /\ DOMAIN tool = Tool
        BY DEF IInv, TypeOK
      <3>2. tool'[t] = IF t = call[c].tool THEN [tool[t] EXCEPT !.retired = TRUE] ELSE tool[t]
        BY <2>1, <3>1
      <3>3. QED
        BY <3>1, <3>2
    <2>3. QED
      BY <1>3, <2>1, <2>2
  <1>5. ASSUME NEW m \in Machine, NEW row \in MachineRow, PatchMachine(m, row)
        PROVE  Compatible'
    <2>1. /\ machine' = [machine EXCEPT ![m] = row] /\ UNCHANGED <<tool, asg>>
          /\ \A a \in Asg : /\ since[a] \subseteq since'[a]
                            /\ asg[a].mach = m => "machine" \in since'[a]
      BY <1>5 DEF PatchMachine
    <2>2. \A n \in Machine : n # m => machine'[n] = machine[n]
      BY <2>1 DEF IInv, TypeOK
    <2>3. QED
      BY <1>3, <2>1, <2>2
  <1>6. ASSUME NEW t \in Tool, PatchTool(t) PROVE Compatible'
    <2>1. /\ tool' = [tool EXCEPT ![t].tsc = ~@] /\ UNCHANGED <<machine, asg>>
          /\ \A a \in Asg : /\ since[a] \subseteq since'[a]
                            /\ asg[a].tool = t => "need" \in since'[a]
      BY <1>6 DEF PatchTool
    <2>2. \A u \in Tool : u # t => tool'[u] = tool[u]
      BY <2>1 DEF IInv, TypeOK
    <2>3. QED
      BY <1>3, <2>1, <2>2
  <1>7. QED
    BY <1>1, <1>2, <1>4, <1>5, <1>6, TableSteps

(* What the service checks of an assignment is so when its transaction      *)
(* commits and ever after, whatever other requests committed between its    *)
(* reads and its writes: probe lock and coolant (_validate_registers),      *)
(* retirement (_load_tool, retire) and confirmation; what the service       *)
(* does not look at again is what the history records.                      *)
THEOREM ChecksAlwaysHold == Spec => []ChecksHold
  <1> DEFINE CInv == KInv /\ ChecksHold
  <1>1. Init => CInv
    <2>1. Init => ChecksHold
      BY BlankTypes DEF Init, ChecksHold, Compatible, RetiredUnused, ConfirmedAsShown
    <2>2. QED
      BY <2>1, AssignmentsAssumption, InitKInv
  <1>2. CInv /\ [Next]_vars => CInv'
    BY AssignmentsAssumption, NextKInv, NextCompatible, NextRetired, NextConfirmed DEF ChecksHold
  <1>3. CInv => ChecksHold
    OBVIOUS
  <1> HIDE DEF CInv
  <1>4. QED
    BY <1>1, <1>2, <1>3, PTL DEF Spec
=============================================================================
