------------------------- MODULE OffsetWriteProofs --------------------------
(* Theorems about OffsetWrite for any number of callers, requests and       *)
(* registers: the types, that the gate holds but for its windows, that a    *)
(* success is told only of what the control confirmed, that no outcome is   *)
(* recorded without its audit row, and, where one caller is at a request at *)
(* a time and no step of it is cut off, that request, audit and control     *)
(* tell the same story.                                                     *)
EXTENDS OffsetWrite, SequenceTheorems, TLAPS

(* What each caller has established where it stands, unless it has changed  *)
(* since: this is what carries a check to the write.                        *)
EstablishedAt(c) ==
  /\ pc[c] # "idle" => status[c] = machine \/ "machine" \in changed[c]
  /\ pc[c] \in {"read", "check", "write"} =>
       /\ {"ask", "entry"} \subseteq grants[c] /\ ModeLockoutOk(status[c])
       /\ row[Id(c)].reg = probe => "probe" \in changed[c]
  /\ pc[c] \in {"check", "write"} =>
       live[c] = register[row[Id(c)].reg] \/ "register" \in changed[c]
  /\ pc[c] = "write" =>
       /\ live[c] = row[Id(c)].current
       /\ IsLarge(live[c], row[Id(c)].intended) => "ack" \in grants[c]

Established == \A c \in Caller : EstablishedAt(c)

IInv == TypeOK /\ Established /\ GateHolds

-----------------------------------------------------------------------------
(* Types.                                                                   *)

\* Init, with nothing staged and every caller idle, is well typed.
LEMMA InitTypeOK == ASSUME WriteAssumption PROVE Init => TypeOK
  BY DEF WriteAssumption, Init, TypeOK, AtHand, Absent, Clean, NoUpdates, NoNotes, Updates,
         Counts, Locations, Notes

\* A caller that executes has an id, and ids left unless it is the last.
LEMMA HeadOfTodo ==
  ASSUME TypeOK, NEW c \in Caller, pc[c] \notin {"idle", "commit", "raised"}
  PROVE  /\ Id(c) \in Request /\ todo[c] \in Seq(Request) /\ todo[c] # <<>>
         /\ Tail(todo[c]) \in Seq(Request)
         /\ Len(todo[c]) # 1 => Tail(todo[c]) # <<>>
  <1>1. todo[c] \in Seq(Request) /\ todo[c] # <<>>
    BY DEF TypeOK, AtHand
  <1>2. ASSUME NEW s \in Seq(Request), s # <<>>
        PROVE  /\ Head(s) \in Request /\ Tail(s) \in Seq(Request)
               /\ Len(s) # 1 => Tail(s) # <<>>
    <2>1. Len(s) \in Nat \ {0} /\ Tail(s) \in Seq(Request)
          /\ Head(s) \in Request /\ Len(Tail(s)) = Len(s) - 1
      BY <1>2, HeadTailProperties, EmptySeq, LenProperties
    <2>2. ASSUME Len(s) # 1, Tail(s) = <<>> PROVE FALSE
      <3> DEFINE t == Tail(s)
      <3>1. Len(<<>>) = 0
        OBVIOUS
      <3>2. t = <<>> /\ Len(t) = Len(s) - 1 /\ Len(s) \in Nat
        BY <2>1, <2>2
      <3> HIDE DEF t
      <3>3. Len(t) = 0
        BY <3>1, <3>2
      <3>4. QED
        BY <2>2, <3>2, <3>3
    <2>3. QED
      BY <2>1, <2>2
  <1>3. QED
    BY <1>1, <1>2 DEF Id

(* One step of caller c, at most one row staged, nothing forgotten.         *)
LEMMA StepAtHand ==
  ASSUME TypeOK, NEW c \in Caller,
         \A r \in Request : row[r].outcome # "absent" => row'[r].outcome # "absent",
         \A d \in Caller \ {c} : /\ pc'[d] = pc[d] /\ todo'[d] = todo[d]
                                 /\ dirty'[d] = dirty[d],
         pc'[c] \notin {"idle", "commit", "raised"} => todo'[c] # <<>>,
         pc'[c] \notin {"idle", "commit", "raised", "get"} =>
           row'[Head(todo'[c])].outcome # "absent",
         \A r \in Request : dirty'[c][r] # Clean =>
           dirty'[c][r] = dirty[c][r] \/ row'[r].outcome # "absent",
         \A w \in writes' : w \in writes \/ ( /\ w.req \in Request
                                              /\ w.old \in Values
                                              /\ row'[w.req].outcome # "absent" )
  PROVE  AtHand'
  <1>1. ASSUME NEW d \in Caller
        PROVE  /\ pc'[d] \notin {"idle", "commit", "raised"} => todo'[d] # <<>>
               /\ pc'[d] \notin {"idle", "commit", "raised", "get"} =>
                    row'[Head(todo'[d])].outcome # "absent"
               /\ \A r \in Request :
                    dirty'[d][r] # Clean => row'[r].outcome # "absent"
    <2>1. CASE d = c
      BY <2>1 DEF TypeOK, AtHand
    <2>2. CASE d # c
      <3>1. pc[d] \notin {"idle", "commit", "raised"} => Head(todo[d]) \in Request
        BY HeadOfTodo DEF Id
      <3>2. QED
        BY <2>2, <3>1 DEF TypeOK, AtHand, Id
    <2>3. QED
      BY <2>1, <2>2
  <1>2. \A w \in writes' : /\ w.req \in Request /\ w.old \in Values
                           /\ row'[w.req].outcome # "absent"
    BY DEF TypeOK, AtHand
  <1>3. QED
    BY <1>1, <1>2 DEF AtHand, Id

\* Leaving an id: the caller raises, commits or has another id to get.
LEMMA NextIdTypes ==
  ASSUME TypeOK, NEW c \in Caller, pc[c] \notin {"idle", "commit", "raised"},
         NEW raised \in BOOLEAN, NextId(c, raised)
  PROVE  /\ pc' \in [Caller -> Locations] /\ todo' \in [Caller -> Seq(Request)]
         /\ pc'[c] \in {"raised", "commit", "get"}
         /\ pc'[c] = "get" => todo'[c] # <<>>
         /\ \A d \in Caller \ {c} : pc'[d] = pc[d] /\ todo'[d] = todo[d]
  <1>1. /\ todo[c] \in Seq(Request) /\ Tail(todo[c]) \in Seq(Request)
        /\ Len(todo[c]) # 1 => Tail(todo[c]) # <<>>
    BY HeadOfTodo
  <1> DEFINE rest == Tail(todo[c])  one == Len(todo[c]) = 1
  <1>2. \/ /\ pc' = [pc EXCEPT ![c] = "raised"]
           /\ todo' = [todo EXCEPT ![c] = <<>>]
        \/ /\ pc' = [pc EXCEPT ![c] = IF one THEN "commit" ELSE "get"]
           /\ todo' = [todo EXCEPT ![c] = rest]
    BY DEF NextId, Goto
  <1>3. pc \in [Caller -> Locations] /\ todo \in [Caller -> Seq(Request)]
        /\ rest \in Seq(Request) /\ (~one => rest # <<>>) /\ <<>> \in Seq(Request)
    BY <1>1 DEF TypeOK
  <1> HIDE DEF rest, one
  <1>4. QED
    BY <1>2, <1>3 DEF Locations

\* An audit row joins the notes of the id at hand.
LEMMA NoteTypes ==
  ASSUME TypeOK, NEW c \in Caller, NEW what \in Notes, Note(c, what),
         pc[c] \notin {"idle", "commit", "raised"}
  PROVE  notes' \in [Caller -> [Request -> Seq(Notes)]]
  <1> DEFINE mine == [notes[c] EXCEPT ![Id(c)] = Append(notes[c][Id(c)], what)]
  <1>1. Id(c) \in Request
    BY HeadOfTodo
  <1>2. notes \in [Caller -> [Request -> Seq(Notes)]]
    BY DEF TypeOK
  <1>3. notes[c][Id(c)] \in Seq(Notes)
    BY <1>1, <1>2
  <1>4. Append(notes[c][Id(c)], what) \in Seq(Notes)
    BY <1>3
  <1>5. mine \in [Request -> Seq(Notes)]
    BY <1>1, <1>2, <1>4
  <1>6. notes' = [notes EXCEPT ![c] = mine]
    BY <1>1, <1>2 DEF Note
  <1> HIDE DEF mine
  <1>7. QED
    BY <1>2, <1>5, <1>6

\* The end of a transaction keeps the types, however the rows fared.
LEMMA EndCallTypes ==
  ASSUME WriteAssumption, TypeOK, NEW c \in Caller, EndCall(c),
         row' \in [Request -> Staged \cup {Absent}],
         audit' \in [Request -> Seq(Notes)],
         \A r \in Request : row[r].outcome # "absent" => row'[r].outcome # "absent"
  PROVE  TypeOK'
  <1>1. /\ dirty' \in [Caller -> [Request -> Updates]]
        /\ notes' \in [Caller -> [Request -> Seq(Notes)]]
        /\ \A r \in Request : dirty'[c][r] = Clean
        /\ \A d \in Caller \ {c} : dirty'[d] = dirty[d]
    BY DEF TypeOK, EndCall, NoUpdates, NoNotes, Updates
  <1>2. /\ pc' \in [Caller -> Locations] /\ todo' \in [Caller -> Seq(Request)]
        /\ pc'[c] = "idle"
        /\ \A d \in Caller \ {c} : pc'[d] = pc[d] /\ todo'[d] = todo[d]
    BY DEF TypeOK, EndCall, Goto, Locations
  <1>3. /\ grants' \in [Caller -> SUBSET Walls] /\ status' \in [Caller -> Machines]
        /\ live' \in [Caller -> Counts]
    BY DEF WriteAssumption, TypeOK, EndCall, Counts
  <1>4. changed' \in [Caller -> SUBSET {"register", "machine", "probe"}]
    BY DEF TypeOK, EndCall
  <1>5. UNCHANGED <<register, machine, probe, calls, disturbances, writes>>
    BY DEF EndCall, ctlVars
  <1>6. AtHand'
    BY <1>1, <1>2, <1>5, StepAtHand
  <1>7. QED
    BY <1>1, <1>2, <1>3, <1>4, <1>5, <1>6 DEF TypeOK

\* A commit gives staged rows an outcome and leaves the rest of them alone.
LEMMA CommitRows ==
  ASSUME TypeOK, NEW c \in Caller, Commit(c)
  PROVE  /\ row' \in [Request -> Staged \cup {Absent}]
         /\ audit' \in [Request -> Seq(Notes)]
         /\ \A r \in Request : row[r].outcome # "absent" =>
              /\ row'[r].outcome # "absent" /\ row'[r].reg = row[r].reg
              /\ row'[r].intended = row[r].intended
              /\ row'[r].current = row[r].current
  <1>1. ASSUME NEW r \in Request, dirty[c][r] # Clean
        PROVE  /\ row[r] \in Staged
               /\ dirty[c][r] \in [outcome : Outcomes, verified : Counts]
    BY <1>1 DEF TypeOK, AtHand, Updates, Absent
  <1>2. ASSUME NEW r \in Request
        PROVE  /\ row'[r] \in Staged \cup {Absent}
               /\ row[r].outcome # "absent" =>
                    /\ row'[r].outcome # "absent" /\ row'[r].reg = row[r].reg
                    /\ row'[r].intended = row[r].intended
                    /\ row'[r].current = row[r].current
    <2>1. CASE dirty[c][r] = Clean
      BY <2>1 DEF Commit, TypeOK
    <2>2. CASE dirty[c][r] # Clean
      <3>1. row'[r] = [row[r] EXCEPT !.outcome = dirty[c][r].outcome,
                                     !.verified = dirty[c][r].verified]
        BY <2>2 DEF Commit
      <3>2. QED
        BY <1>1, <2>2, <3>1 DEF Staged, Outcomes
    <2>3. QED
      BY <2>1, <2>2
  <1>3. row' \in [Request -> Staged \cup {Absent}]
    BY <1>2 DEF Commit
  <1>4. audit' \in [Request -> Seq(Notes)]
    <2>1. ASSUME NEW r \in Request PROVE audit[r] \o notes[c][r] \in Seq(Notes)
      <3>1. audit[r] \in Seq(Notes) /\ notes[c][r] \in Seq(Notes)
        BY DEF TypeOK
      <3>2. QED
        BY <3>1
    <2>2. QED
      BY <2>1 DEF Commit
  <1>5. QED
    BY <1>2, <1>3, <1>4

\* What is at hand stays when neither callers nor rows move.
LEMMA FrameAtHand ==
  ASSUME TypeOK, UNCHANGED <<pc, todo, dirty, row, writes>> PROVE AtHand'
  BY DEF TypeOK, AtHand, Id

\* Going on with the same id.
LEMMA GotoTypes ==
  ASSUME TypeOK, NEW c \in Caller, pc[c] \notin {"idle", "commit", "raised"},
         NEW l \in Locations, Goto(c, l), UNCHANGED <<todo, dirty, row, writes>>,
         row[Id(c)].outcome # "absent" \/ l = "raised"
  PROVE  pc' \in [Caller -> Locations] /\ AtHand'
  <1>1. /\ pc' \in [Caller -> Locations] /\ pc'[c] = l
        /\ \A d \in Caller \ {c} : pc'[d] = pc[d]
    BY DEF Goto, TypeOK
  <1>2. todo[c] # <<>>
    BY HeadOfTodo
  <1>3. AtHand'
    BY <1>1, <1>2, StepAtHand DEF Id
  <1>4. QED
    BY <1>1, <1>3

\* Leaving an id whose row was not updated.
LEMMA NextIdAtHand ==
  ASSUME TypeOK, NEW c \in Caller, pc[c] \notin {"idle", "commit", "raised"},
         NEW raised \in BOOLEAN, NextId(c, raised), UNCHANGED <<dirty, row, writes>>
  PROVE  AtHand'
  BY NextIdTypes, StepAtHand

\* Past the lookup, the id names a staged row and a register.
LEMMA RegisterOfId ==
  ASSUME TypeOK, NEW c \in Caller,
         pc[c] \notin {"idle", "commit", "raised", "get"}
  PROVE  /\ Id(c) \in Request /\ row[Id(c)].outcome # "absent"
         /\ row[Id(c)] \in Staged /\ row[Id(c)].reg \in Register
         /\ register[row[Id(c)].reg] \in Values
  <1>1. Id(c) \in Request /\ row[Id(c)].outcome # "absent"
    BY HeadOfTodo DEF TypeOK, AtHand
  <1>2. row[Id(c)] \in Staged
    BY <1>1 DEF TypeOK, Absent
  <1>3. QED
    BY <1>1, <1>2 DEF TypeOK, Staged

\* Every step keeps the types.
LEMMA NextTypeOK == ASSUME WriteAssumption, TypeOK, [Next]_vars PROVE TypeOK'
  <1> USE DEF WriteAssumption
  <1>1. CASE UNCHANGED vars
    BY <1>1, FrameAtHand DEF vars, dbVars, txVars, ctlVars, callVars, TypeOK
  <1>2. ASSUME NEW g \in Register, NEW v \in Values, PanelEdit(g, v) PROVE TypeOK'
    BY <1>2, FrameAtHand DEF PanelEdit, Disturb, dbVars, txVars, callVars, TypeOK
  <1>3. ASSUME NEW m \in Machines, MachineChanges(m) PROVE TypeOK'
    BY <1>3, FrameAtHand DEF MachineChanges, Disturb, dbVars, txVars, callVars, TypeOK
  <1>4. ASSUME NEW g \in Register \cup {NoRegister}, ProbeMoves(g) PROVE TypeOK'
    BY <1>4, FrameAtHand DEF ProbeMoves, Disturb, dbVars, txVars, callVars, TypeOK
  <1>5. ASSUME NEW r \in Request, NEW g \in Register, NEW v \in Values,
               CreateRequest(r, g, v) PROVE TypeOK'
    <2>1. /\ row' \in [Request -> Staged \cup {Absent}]
          /\ \A q \in Request : row[q].outcome # "absent" => row'[q].outcome # "absent"
          /\ UNCHANGED <<audit, txVars, ctlVars, callVars, pc, calls, disturbances,
                         writes, changed>>
      BY <1>5 DEF CreateRequest, TypeOK, Staged, Counts
    <2>2. \A c \in Caller : pc[c] \notin {"idle", "commit", "raised"} =>
            Head(todo[c]) \in Request
      BY HeadOfTodo DEF Id
    <2>3. AtHand'
      BY <2>1, <2>2 DEF TypeOK, AtHand, Id, txVars, callVars
    <2>4. QED
      BY <2>1, <2>3 DEF TypeOK, txVars, ctlVars, callVars
  <1>6. ASSUME NEW c \in Caller, NEW b \in Batches, NEW w \in Granted, Begin(c, b, w)
        PROVE  TypeOK'
    <2>1. b \in Seq(Request) /\ b # <<>> /\ w \in SUBSET Walls
      BY DEF Walls
    <2>2. /\ pc' \in [Caller -> Locations] /\ todo' \in [Caller -> Seq(Request)]
          /\ grants' \in [Caller -> SUBSET Walls] /\ status' \in [Caller -> Machines]
          /\ calls' \in Nat /\ pc'[c] = "get" /\ todo'[c] = b
          /\ \A d \in Caller \ {c} : pc'[d] = pc[d] /\ todo'[d] = todo[d]
      BY <1>6, <2>1 DEF Begin, Goto, TypeOK, Locations
    <2>3. /\ changed' \in [Caller -> SUBSET {"register", "machine", "probe"}]
          /\ UNCHANGED <<register, machine, probe, row, audit, dirty, notes, live,
                         disturbances, writes>>
      BY <1>6 DEF Begin, TypeOK, dbVars, txVars, ctlVars
    <2>4. AtHand'
      BY <2>1, <2>2, <2>3, StepAtHand
    <2>5. QED
      BY <2>2, <2>3, <2>4 DEF TypeOK
  <1>7. ASSUME NEW c \in Caller, NotFound(c) PROVE TypeOK'
    <2>1. /\ pc' \in [Caller -> Locations] /\ todo' \in [Caller -> Seq(Request)]
          /\ pc'[c] = "raised"
          /\ \A d \in Caller \ {c} : pc'[d] = pc[d] /\ todo'[d] = todo[d]
          /\ UNCHANGED <<dbVars, txVars, ctlVars, grants, status, live, calls,
                         disturbances, writes, changed>>
      BY <1>7 DEF NotFound, Goto, TypeOK, Locations
    <2>2. AtHand'
      BY <2>1, StepAtHand DEF dbVars, txVars
    <2>3. QED
      BY <2>1, <2>2 DEF TypeOK, dbVars, txVars, ctlVars
  <1>8. ASSUME NEW c \in Caller, AlreadyExecuted(c) PROVE TypeOK'
    BY <1>8, NextIdTypes, NextIdAtHand
    DEF AlreadyExecuted, dbVars, txVars, ctlVars, TypeOK
  <1>9. ASSUME NEW c \in Caller, GetPending(c) PROVE TypeOK'
    <2>1. Id(c) \in Request
      BY <1>9, HeadOfTodo DEF GetPending
    <2>2. dirty[c][Id(c)] \in Updates
      BY <2>1 DEF TypeOK
    <2>3. row[Id(c)].outcome # "absent"
      BY <1>9, <2>1, <2>2 DEF GetPending, Outcome, Updates, Outcomes
    <2>4. "gate" \in Locations
      BY DEF Locations
    <2>5. pc' \in [Caller -> Locations] /\ AtHand'
      BY <1>9, <2>3, <2>4, GotoTypes DEF GetPending, dbVars, txVars, callVars
    <2>6. QED
      BY <1>9, <2>5 DEF GetPending, dbVars, txVars, ctlVars, callVars, TypeOK
  <1>10. ASSUME NEW c \in Caller, Blocked(c) PROVE TypeOK'
    <2>1. "blocked" \in Notes
      BY DEF Notes
    <2>2. notes' \in [Caller -> [Request -> Seq(Notes)]]
      BY <1>10, <2>1, NoteTypes DEF Blocked
    <2>3. AtHand' /\ pc' \in [Caller -> Locations] /\ todo' \in [Caller -> Seq(Request)]
      BY <1>10, NextIdTypes, NextIdAtHand DEF Blocked, dbVars
    <2>4. QED
      BY <1>10, <2>2, <2>3 DEF Blocked, dbVars, ctlVars, TypeOK
  <1>11. ASSUME NEW c \in Caller, Permitted(c) PROVE TypeOK'
    <2>1. "read" \in Locations
      BY DEF Locations
    <2>2. pc' \in [Caller -> Locations] /\ AtHand'
      BY <1>11, <2>1, GotoTypes, RegisterOfId DEF Permitted, dbVars, txVars, callVars
    <2>3. QED
      BY <1>11, <2>2 DEF Permitted, dbVars, txVars, ctlVars, callVars, TypeOK
  <1>12. ASSUME NEW c \in Caller, ReadLive(c) PROVE TypeOK'
    <2>1. "check" \in Locations
      BY DEF Locations
    <2>2. pc' \in [Caller -> Locations] /\ AtHand'
      BY <1>12, <2>1, GotoTypes, RegisterOfId DEF ReadLive, dbVars, txVars
    <2>3. live' \in [Caller -> Counts]
      BY <1>12, RegisterOfId DEF ReadLive, TypeOK, Counts
    <2>4. QED
      BY <1>12, <2>2, <2>3 DEF ReadLive, dbVars, txVars, ctlVars, TypeOK
  <1>13. ASSUME NEW c \in Caller, Check(c) PROVE TypeOK'
    <2>1. ASSUME NEW l \in {"fail", "write"}, Goto(c, l), UNCHANGED todo
          PROVE  pc' \in [Caller -> Locations] /\ AtHand'
      <3>1. l \in Locations
        BY DEF Locations
      <3>2. QED
        BY <1>13, <2>1, <3>1, GotoTypes, RegisterOfId DEF Check, dbVars, txVars
    <2>2. ASSUME NextId(c, TRUE)
          PROVE  /\ pc' \in [Caller -> Locations] /\ todo' \in [Caller -> Seq(Request)]
                 /\ AtHand'
      BY <1>13, <2>2, NextIdTypes, NextIdAtHand DEF Check, dbVars, txVars
    <2>3. /\ pc' \in [Caller -> Locations] /\ todo' \in [Caller -> Seq(Request)]
          /\ AtHand'
      BY <1>13, <2>1, <2>2 DEF Check, TypeOK
    <2>4. QED
      BY <1>13, <2>3 DEF Check, dbVars, txVars, ctlVars, TypeOK
  <1>14. ASSUME NEW c \in Caller, NEW v \in Values, WriteTakes(c, v) PROVE TypeOK'
    <2>1. /\ Id(c) \in Request /\ row[Id(c)].outcome # "absent"
          /\ register[row[Id(c)].reg] \in Values /\ row[Id(c)].reg \in Register
      BY <1>14, RegisterOfId DEF WriteTakes
    <2>2. /\ register' \in [Register -> Values]
          /\ Record(c, v).req = Id(c) /\ Record(c, v).old \in Values
      BY <1>14, <2>1 DEF WriteTakes, TypeOK, Record
    <2>3. changed' \in [Caller -> SUBSET {"register", "machine", "probe"}]
      BY <1>14 DEF WriteTakes, TypeOK
    <2>4. /\ pc' \in [Caller -> Locations] /\ pc'[c] = "verify"
          /\ \A d \in Caller \ {c} : pc'[d] = pc[d]
          /\ UNCHANGED <<dbVars, txVars, callVars>>
          /\ writes' = writes \cup {Record(c, v)}
      BY <1>14 DEF WriteTakes, Goto, TypeOK, Locations
    <2>5. todo[c] # <<>>
      BY <1>14, HeadOfTodo DEF WriteTakes
    <2>6. AtHand'
      BY <2>1, <2>2, <2>4, <2>5, StepAtHand DEF dbVars, txVars, callVars, Id
    <2>7. QED
      BY <1>14, <2>2, <2>3, <2>4, <2>6
      DEF WriteTakes, dbVars, txVars, callVars, TypeOK
  <1>15. ASSUME NEW c \in Caller, WriteRejected(c) PROVE TypeOK'
    <2>1. "fail" \in Locations
      BY DEF Locations
    <2>2. pc' \in [Caller -> Locations] /\ AtHand'
      BY <1>15, <2>1, GotoTypes, RegisterOfId
      DEF WriteRejected, dbVars, txVars, callVars
    <2>3. QED
      BY <1>15, <2>2 DEF WriteRejected, dbVars, txVars, ctlVars, callVars, TypeOK
  <1>16. ASSUME NEW c \in Caller, ReadBack(c) PROVE TypeOK'
    <2>1. (IF Verified(c) THEN "succeed" ELSE "fail") \in Locations
      BY DEF Locations
    <2>2. pc' \in [Caller -> Locations] /\ AtHand'
      BY <1>16, <2>1, GotoTypes, RegisterOfId DEF ReadBack, dbVars, txVars
    <2>3. live' \in [Caller -> Counts]
      BY <1>16, RegisterOfId DEF ReadBack, TypeOK, Counts
    <2>4. QED
      BY <1>16, <2>2, <2>3 DEF ReadBack, dbVars, txVars, ctlVars, TypeOK
  <1>17. ASSUME NEW c \in Caller, NEW o \in Outcomes, NEW n \in Notes,
                NEW raised \in BOOLEAN, pc[c] \in {"fail", "succeed"},
                Update(c, o), Note(c, n), NextId(c, raised),
                UNCHANGED <<dbVars, ctlVars, grants, status, live, calls,
                            disturbances, writes, changed>>
         PROVE  TypeOK'
    <2>1. Id(c) \in Request /\ row[Id(c)].outcome # "absent"
      BY <1>17, RegisterOfId
    <2> DEFINE up == [outcome |-> o, verified |-> live[c]]
    <2>2. up \in Updates
      BY DEF TypeOK, Updates
    <2>3. /\ dirty' \in [Caller -> [Request -> Updates]]
          /\ \A d \in Caller \ {c} : dirty'[d] = dirty[d]
          /\ \A r \in Request \ {Id(c)} : dirty'[c][r] = dirty[c][r]
      <3>1. dirty' = [dirty EXCEPT ![c] = [dirty[c] EXCEPT ![Id(c)] = up]]
        BY <1>17, <2>1 DEF Update, TypeOK
      <3>2. dirty \in [Caller -> [Request -> Updates]]
        BY DEF TypeOK
      <3> HIDE DEF up
      <3>3. QED
        BY <2>1, <2>2, <3>1, <3>2
    <2>4. notes' \in [Caller -> [Request -> Seq(Notes)]]
      BY <1>17, NoteTypes
    <2>5. /\ pc' \in [Caller -> Locations] /\ todo' \in [Caller -> Seq(Request)]
          /\ pc'[c] \in {"raised", "commit", "get"}
          /\ pc'[c] = "get" => todo'[c] # <<>>
          /\ \A d \in Caller \ {c} : pc'[d] = pc[d] /\ todo'[d] = todo[d]
      BY <1>17, NextIdTypes
    <2>6. \A r \in Request : dirty'[c][r] # Clean =>
            dirty'[c][r] = dirty[c][r] \/ row[r].outcome # "absent"
      BY <2>1, <2>3
    <2>7. row' = row /\ writes' = writes
      BY <1>17 DEF dbVars
    <2>8. AtHand'
      BY <2>3, <2>5, <2>6, <2>7, StepAtHand
    <2>9. QED
      BY <1>17, <2>3, <2>4, <2>5, <2>8 DEF dbVars, ctlVars, TypeOK
  <1>18. ASSUME NEW c \in Caller, Commit(c) PROVE TypeOK'
    BY <1>18, CommitRows, EndCallTypes DEF Commit
  <1>19. ASSUME NEW c \in Caller, Rollback(c) PROVE TypeOK'
    BY <1>19, EndCallTypes DEF Rollback, dbVars, TypeOK
  <1>20. ASSUME NEW c \in Caller, Fail(c) \/ Succeed(c) PROVE TypeOK'
    <2>1. "failed" \in Outcomes \cap Notes /\ "success" \in Outcomes
          /\ "written" \in Notes
      BY DEF Outcomes, Notes
    <2>2. QED
      BY <1>17, <1>20, <2>1 DEF Fail, Succeed
  <1>21. QED
    BY <1>1, <1>2, <1>3, <1>4, <1>5, <1>6, <1>7, <1>8, <1>9, <1>10, <1>11, <1>12,
       <1>13, <1>14, <1>15, <1>16, <1>18, <1>19, <1>20
    DEF Next, World, Step, Return, Raise, DeadlockVictim, Crash

(* Every value stays within its type in any run of the write path.          *)
THEOREM TypeCorrect == Spec => []TypeOK
  <1>1. Init => TypeOK
    BY WriteAssumption, InitTypeOK
  <1>2. TypeOK /\ [Next]_vars => TypeOK'
    BY WriteAssumption, NextTypeOK
  <1>3. QED
    BY <1>1, <1>2, PTL DEF Spec

-----------------------------------------------------------------------------
(* The gate.                                                                *)

\* A staged request is never rewritten, only given an outcome.
StagedKept ==
  \A r \in Request : row[r].outcome # "absent" =>
    /\ row'[r].reg = row[r].reg /\ row'[r].intended = row[r].intended
    /\ row'[r].current = row[r].current

\* What a caller has established survives the steps of everybody else.
LEMMA OthersKeep ==
  ASSUME TypeOK, NEW d \in Caller, EstablishedAt(d), StagedKept,
         pc'[d] = pc[d], todo'[d] = todo[d], grants'[d] = grants[d],
         status'[d] = status[d], live'[d] = live[d],
         changed[d] \subseteq changed'[d],
         machine' = machine \/ "machine" \in changed'[d],
         probe' = probe \/ "probe" \in changed'[d],
         register' = register \/ "register" \in changed'[d]
  PROVE  EstablishedAt(d)'
  <1>1. Id(d)' = Id(d)
    BY DEF Id
  <1>2. ASSUME pc[d] \in {"read", "check", "write"}
        PROVE  /\ row'[Id(d)].reg = row[Id(d)].reg
               /\ row'[Id(d)].intended = row[Id(d)].intended
               /\ row'[Id(d)].current = row[Id(d)].current
    BY <1>2, RegisterOfId DEF StagedKept
  <1>3. QED
    BY <1>1, <1>2 DEF EstablishedAt, ModeLockoutOk, IsLarge

\* Away from the window only the mode handed in is still known.
LEMMA OutOfWindow ==
  ASSUME NEW c \in Caller, EstablishedAt(c), pc[c] # "idle",
         pc'[c] \notin {"read", "check", "write"},
         status'[c] = status[c], machine' = machine, changed'[c] = changed[c]
  PROVE  EstablishedAt(c)'
  BY DEF EstablishedAt

\* A step that writes nothing leaves the gate as it held.
LEMMA NothingWritten ==
  ASSUME TypeOK, GateHolds, StagedKept, writes' = writes
  PROVE  GateHolds'
  <1>1. \A w \in writes : w.req \in Request /\ row[w.req].outcome # "absent"
    BY DEF TypeOK, AtHand
  <1>2. QED
    BY <1>1 DEF GateHolds, StagedKept, IsLarge, ModeLockoutOk

\* A step of caller c that leaves the control and the requests alone.
LEMMA StepOfOne ==
  ASSUME TypeOK, Established, GateHolds, NEW c \in Caller, EstablishedAt(c)',
         StagedKept, UNCHANGED <<ctlVars, writes>>,
         \A d \in Caller \ {c} :
           /\ pc'[d] = pc[d] /\ todo'[d] = todo[d] /\ grants'[d] = grants[d]
           /\ status'[d] = status[d] /\ live'[d] = live[d]
           /\ changed'[d] = changed[d]
  PROVE  Established' /\ GateHolds'
  <1>1. ASSUME NEW d \in Caller \ {c} PROVE EstablishedAt(d)'
    BY OthersKeep DEF Established, ctlVars
  <1>2. GateHolds'
    BY NothingWritten
  <1>3. QED
    BY <1>1, <1>2 DEF Established

\* A caller that has ended has nothing established.
LEMMA EndCallKeeps ==
  ASSUME TypeOK, Established, GateHolds, NEW c \in Caller, EndCall(c), StagedKept
  PROVE  Established' /\ GateHolds'
  <1>1. pc'[c] = "idle"
    BY DEF EndCall, Goto, TypeOK
  <1>2. EstablishedAt(c)'
    BY <1>1 DEF EstablishedAt
  <1>3. QED
    BY <1>2, StepOfOne DEF EndCall, Goto, TypeOK

\* Every step keeps what is established, and so the gate.
LEMMA NextGate ==
  ASSUME WriteAssumption, IInv, [Next]_vars PROVE Established' /\ GateHolds'
  <1> USE DEF IInv
  <1>0. ASSUME UNCHANGED row PROVE StagedKept
    BY <1>0 DEF StagedKept
  <1>1. CASE UNCHANGED vars
    BY <1>0, <1>1, OthersKeep, NothingWritten
    DEF vars, dbVars, ctlVars, callVars, Established
  <1>2. ASSUME NEW what \in {"register", "machine", "probe"}, Disturb(what),
               what = "register" \/ register' = register,
               what = "machine" \/ machine' = machine,
               what = "probe" \/ probe' = probe
        PROVE  Established' /\ GateHolds'
    <2>1. ASSUME NEW d \in Caller PROVE EstablishedAt(d)'
      <3>1. changed'[d] = changed[d] \cup {what}
        BY <1>2 DEF Disturb
      <3>2. QED
        BY <1>0, <1>2, <3>1, OthersKeep DEF Disturb, dbVars, callVars, Established
    <2>2. GateHolds'
      BY <1>0, <1>2, NothingWritten DEF Disturb, dbVars
    <2>3. QED
      BY <2>1, <2>2 DEF Established
  <1>3. ASSUME NEW g \in Register, NEW v \in Values, PanelEdit(g, v)
        PROVE  Established' /\ GateHolds'
    BY <1>2, <1>3 DEF PanelEdit
  <1>4. ASSUME NEW m \in Machines, MachineChanges(m) PROVE Established' /\ GateHolds'
    BY <1>2, <1>4 DEF MachineChanges
  <1>5. ASSUME NEW g \in Register \cup {NoRegister}, ProbeMoves(g)
        PROVE  Established' /\ GateHolds'
    BY <1>2, <1>5 DEF ProbeMoves
  <1>6. ASSUME NEW r \in Request, NEW g \in Register, NEW v \in Values,
               CreateRequest(r, g, v)
        PROVE  Established' /\ GateHolds'
    <2>1. StagedKept
      BY <1>6 DEF CreateRequest, StagedKept, TypeOK
    <2>2. QED
      BY <1>6, <2>1, OthersKeep, NothingWritten
      DEF CreateRequest, ctlVars, callVars, Established
  <1>7. ASSUME NEW c \in Caller, NEW b \in Batches, NEW w \in Granted, Begin(c, b, w)
        PROVE  Established' /\ GateHolds'
    <2>1. EstablishedAt(c)'
      BY <1>7 DEF Begin, EstablishedAt, Goto, TypeOK, ctlVars
    <2>2. QED
      BY <1>0, <1>7, <2>1, StepOfOne DEF Begin, Goto, TypeOK, dbVars
  <1>8. ASSUME NEW c \in Caller,
               pc[c] # "idle", pc'[c] \notin {"read", "check", "write"},
               UNCHANGED <<dbVars, ctlVars, grants, status, writes, changed>>,
               \A d \in Caller \ {c} : /\ pc'[d] = pc[d] /\ todo'[d] = todo[d]
                                       /\ live'[d] = live[d]
        PROVE  Established' /\ GateHolds'
    <2>1. EstablishedAt(c)'
      BY <1>8, OutOfWindow DEF Established, ctlVars
    <2>2. QED
      BY <1>0, <1>8, <2>1, StepOfOne DEF dbVars
  <1>9. ASSUME NEW c \in Caller, NotFound(c) \/ GetPending(c) \/ WriteRejected(c)
                                  \/ ReadBack(c)
        PROVE  Established' /\ GateHolds'
    <2>1. \A l \in {"raised", "gate", "fail", "succeed"} :
            Goto(c, l) => /\ pc'[c] = l
                          /\ \A d \in Caller \ {c} : pc'[d] = pc[d]
      BY DEF Goto, TypeOK
    <2>2. QED
      BY <1>8, <1>9, <2>1
      DEF NotFound, GetPending, WriteRejected, ReadBack, callVars, TypeOK
  <1>10. ASSUME NEW c \in Caller, AlreadyExecuted(c) \/ Blocked(c) \/ Fail(c)
                                   \/ Succeed(c)
         PROVE  Established' /\ GateHolds'
    BY <1>8, <1>10, NextIdTypes DEF AlreadyExecuted, Blocked, Fail, Succeed
  <1>11. ASSUME NEW c \in Caller, Permitted(c) PROVE Established' /\ GateHolds'
    <2>1. /\ pc'[c] = "read" /\ \A d \in Caller \ {c} : pc'[d] = pc[d]
          /\ changed'[c] = changed[c] \ {"probe"}
          /\ \A d \in Caller \ {c} : changed'[d] = changed[d]
          /\ UNCHANGED <<dbVars, ctlVars, callVars, writes>>
      BY <1>11 DEF Permitted, Goto, TypeOK
    <2>2. EstablishedAt(c)'
      BY <1>11, <2>1 DEF Permitted, Authorized, Established, EstablishedAt, Id,
         dbVars, ctlVars, callVars, ModeLockoutOk
    <2>3. QED
      BY <1>0, <2>1, <2>2, StepOfOne DEF dbVars, callVars
  <1>12. ASSUME NEW c \in Caller, ReadLive(c) PROVE Established' /\ GateHolds'
    <2>1. /\ pc'[c] = "check" /\ \A d \in Caller \ {c} : pc'[d] = pc[d]
          /\ live'[c] = register[row[Id(c)].reg]
          /\ \A d \in Caller \ {c} : live'[d] = live[d]
          /\ changed'[c] = changed[c] \ {"register"}
          /\ \A d \in Caller \ {c} : changed'[d] = changed[d]
          /\ UNCHANGED <<dbVars, ctlVars, todo, grants, status, writes>>
      BY <1>12 DEF ReadLive, Goto, TypeOK
    <2>2. EstablishedAt(c)'
      BY <1>12, <2>1 DEF ReadLive, Established, EstablishedAt, Id, dbVars, ctlVars,
         ModeLockoutOk
    <2>3. QED
      BY <1>0, <2>1, <2>2, StepOfOne DEF dbVars
  <1>13. ASSUME NEW c \in Caller, Check(c) PROVE Established' /\ GateHolds'
    <2>1. CASE ~Drifted(Id(c), live[c]) /\ ~Implausible(Id(c), live[c], grants[c])
      <3>1. /\ pc'[c] = "write" /\ \A d \in Caller \ {c} : pc'[d] = pc[d]
            /\ UNCHANGED <<dbVars, ctlVars, todo, grants, status, live, writes,
                           changed>>
        BY <1>13, <2>1 DEF Check, Goto, TypeOK
      <3>2. EstablishedAt(c)'
        BY <1>13, <2>1, <3>1 DEF Check, Drifted, Implausible, Established,
           EstablishedAt, Id, dbVars, ctlVars, ModeLockoutOk, IsLarge
      <3>3. QED
        BY <1>0, <3>1, <3>2, StepOfOne DEF dbVars
    <2>2. CASE Drifted(Id(c), live[c])
      <3>1. /\ pc[c] = "check" /\ pc'[c] = "fail"
            /\ \A d \in Caller \ {c} : pc'[d] = pc[d]
            /\ UNCHANGED <<dbVars, ctlVars, todo, grants, status, live, writes,
                           changed>>
        BY <1>13, <2>2 DEF Check, Goto, TypeOK
      <3>2. QED
        BY <1>8, <3>1
    <2>3. CASE ~Drifted(Id(c), live[c]) /\ Implausible(Id(c), live[c], grants[c])
      BY <1>8, <1>13, <2>3, NextIdTypes DEF Check
    <2>4. QED
      BY <2>1, <2>2, <2>3
  <1>14. ASSUME NEW c \in Caller, NEW v \in Values, WriteTakes(c, v)
         PROVE  Established' /\ GateHolds'
    <2>1. /\ pc[c] = "write" /\ pc'[c] = "verify"
          /\ \A d \in Caller \ {c} : pc'[d] = pc[d]
          /\ changed'[c] = changed[c]
          /\ \A d \in Caller \ {c} : changed'[d] = changed[d] \cup {"register"}
          /\ UNCHANGED <<dbVars, machine, probe, callVars>>
          /\ writes' = writes \cup {Record(c, v)}
      BY <1>14 DEF WriteTakes, Goto, TypeOK
    <2>2. EstablishedAt(c)'
      BY <2>1, OutOfWindow DEF Established, callVars
    <2>3. ASSUME NEW d \in Caller \ {c} PROVE EstablishedAt(d)'
      BY <1>0, <2>1, OthersKeep DEF Established, dbVars, callVars
    <2>4. ASSUME NEW w, w = Record(c, v)
          PROVE  /\ {"ask", "entry"} \subseteq w.grants
                 /\ w.onProbe => "probe" \in w.changed
                 /\ ~ModeLockoutOk(w.machine) => "machine" \in w.changed
                 /\ w.old # row[w.req].current => "register" \in w.changed
                 /\ (IsLarge(w.old, row[w.req].intended) /\ "ack" \notin w.grants)
                      => "register" \in w.changed
      BY <2>1, <2>4 DEF Record, Established, EstablishedAt
    <2>5. GateHolds'
      BY <2>1, <2>4 DEF GateHolds, dbVars
    <2>6. QED
      BY <2>2, <2>3, <2>5 DEF Established
  <1>15. ASSUME NEW c \in Caller, Commit(c) PROVE Established' /\ GateHolds'
    BY <1>15, CommitRows, EndCallKeeps DEF Commit, StagedKept
  <1>16. ASSUME NEW c \in Caller, Rollback(c) PROVE Established' /\ GateHolds'
    BY <1>0, <1>16, EndCallKeeps DEF Rollback, dbVars
  <1>17. QED
    BY <1>1, <1>3, <1>4, <1>5, <1>6, <1>7, <1>9, <1>10, <1>11, <1>12, <1>13, <1>14,
       <1>15, <1>16
    DEF Next, World, Step, Return, Raise, DeadlockVictim, Crash

(* Whoever calls, commits, rolls back or crashes, and whatever happens at   *)
(* the control meanwhile: a write gets past a check only if what that check *)
(* looked at has changed since it looked.                                   *)
THEOREM GateAlwaysHolds == Spec => []GateHolds
  <1>1. Init => IInv
    BY WriteAssumption, InitTypeOK
    DEF Init, IInv, Established, EstablishedAt, GateHolds
  <1>2. IInv /\ [Next]_vars => IInv'
    BY WriteAssumption, NextTypeOK, NextGate DEF IInv
  <1>3. IInv => GateHolds
    BY DEF IInv
  <1>4. QED
    BY <1>1, <1>2, <1>3, PTL DEF Spec

-----------------------------------------------------------------------------
(* The records.                                                             *)

Written(r) == \E w \in writes : w.req = r
Says(s, what) == \E i \in 1..Len(s) : s[i] = what

(* What a caller has yet to commit is true: what it is about to call a      *)
(* success was written for and read back as intended, and an update has its *)
(* audit row.                                                               *)
TruthfulAt(c) ==
  /\ pc[c] \in {"verify", "succeed"} => Written(Id(c))
  /\ pc[c] = "succeed" => live[c] = row[Id(c)].intended
  /\ \A r \in Request :
       /\ dirty[c][r].outcome = "success" =>
            /\ dirty[c][r].verified = row[r].intended
            /\ Written(r) /\ Says(notes[c][r], "written")
       /\ dirty[c][r].outcome = "failed" => Says(notes[c][r], "failed")

(* So is what has been committed.                                           *)
RowsTrue ==
  \A r \in Request :
    /\ row[r].outcome = "success" =>
         row[r].verified = row[r].intended /\ Written(r) /\ Says(audit[r], "written")
    /\ row[r].outcome = "failed" => Says(audit[r], "failed")

Truthful == (\A c \in Caller : TruthfulAt(c)) /\ RowsTrue

(* A request with an outcome has the audit row that reports it.             *)
OutcomesAudited ==
  \A r \in Request :
    /\ row[r].outcome = "success" => Says(audit[r], "written")
    /\ row[r].outcome = "failed" => Says(audit[r], "failed")

\* What a log says after an entry is added, or another log.
LEMMA SaysMore ==
  ASSUME NEW s \in Seq(Notes), NEW t \in Seq(Notes), NEW x \in Notes, NEW y
  PROVE  /\ Says(Append(s, x), y) <=> Says(s, y) \/ x = y
         /\ Says(s \o t, y) <=> Says(s, y) \/ Says(t, y)
  <1>1. Says(Append(s, x), y) <=> Says(s, y) \/ x = y
    <2> DEFINE n == Len(s)  u == Append(s, x)
    <2>1. n \in Nat /\ Len(u) = n + 1 /\ u[n + 1] = x /\ \A i \in 1..n : u[i] = s[i]
      OBVIOUS
    <2> HIDE DEF u
    <2>2. Says(u, y) => Says(s, y) \/ x = y
      BY <2>1 DEF Says
    <2>3. Says(s, y) \/ x = y => Says(u, y)
      BY <2>1 DEF Says
    <2>4. QED
      BY <2>2, <2>3 DEF u
  <1>2. Says(s \o t, y) <=> Says(s, y) \/ Says(t, y)
    <2> DEFINE n == Len(s)  m == Len(t)  u == s \o t
    <2>1. /\ n \in Nat /\ m \in Nat /\ Len(u) = n + m
          /\ \A i \in 1..n : u[i] = s[i]
          /\ \A i \in 1..m : u[n + i] = t[i]
          /\ \A i \in n + 1 .. n + m : u[i] = t[i - n]
      OBVIOUS
    <2> HIDE DEF u, n, m
    <2>2. ASSUME Says(u, y) PROVE Says(s, y) \/ Says(t, y)
      <3>1. PICK i \in 1..Len(u) : u[i] = y
        BY <2>2 DEF Says
      <3>2. CASE i \in 1..n
        BY <2>1, <3>1, <3>2 DEF Says, n
      <3>3. CASE i \in n + 1 .. n + m
        <4>1. i - n \in 1..m /\ t[i - n] = y
          BY <2>1, <3>1, <3>3
        <4>2. QED
          BY <4>1 DEF Says, m
      <3>4. QED
        BY <2>1, <3>2, <3>3
    <2>3. ASSUME Says(s, y) PROVE Says(u, y)
      <3>1. PICK i \in 1..n : s[i] = y
        BY <2>3 DEF Says, n
      <3>2. i \in 1..Len(u) /\ u[i] = y
        BY <2>1, <3>1
      <3>3. QED
        BY <3>2 DEF Says
    <2>4. ASSUME Says(t, y) PROVE Says(u, y)
      <3>1. PICK i \in 1..m : t[i] = y
        BY <2>4 DEF Says, m
      <3>2. n + i \in 1..Len(u) /\ u[n + i] = y
        BY <2>1, <3>1
      <3>3. QED
        BY <3>2 DEF Says
    <2>5. QED
      BY <2>2, <2>3, <2>4 DEF u
  <1>3. QED
    BY <1>1, <1>2

\* An audit row is added for the id at hand, and nothing said is taken back.
LEMMA NoteSays ==
  ASSUME TypeOK, NEW c \in Caller, NEW what \in Notes, Note(c, what),
         pc[c] \notin {"idle", "commit", "raised"}
  PROVE  /\ \A d \in Caller \ {c} : notes'[d] = notes[d]
         /\ \A r \in Request, y \in Notes :
              Says(notes'[c][r], y) <=> Says(notes[c][r], y) \/ (r = Id(c) /\ y = what)
  <1>1. Id(c) \in Request /\ notes \in [Caller -> [Request -> Seq(Notes)]]
    BY HeadOfTodo DEF TypeOK
  <1>2. /\ \A d \in Caller \ {c} : notes'[d] = notes[d]
        /\ \A r \in Request : r # Id(c) => notes'[c][r] = notes[c][r]
        /\ notes'[c][Id(c)] = Append(notes[c][Id(c)], what)
    BY <1>1 DEF Note
  <1>3. notes[c][Id(c)] \in Seq(Notes)
    BY <1>1
  <1>4. \A y \in Notes :
          Says(notes'[c][Id(c)], y) <=> Says(notes[c][Id(c)], y) \/ y = what
    BY <1>2, <1>3, SaysMore
  <1>5. QED
    BY <1>2, <1>4

\* What another caller has yet to commit stays true.
LEMMA OthersTruthful ==
  ASSUME TypeOK, NEW d \in Caller, TruthfulAt(d), StagedKept,
         pc'[d] = pc[d], todo'[d] = todo[d], live'[d] = live[d],
         dirty'[d] = dirty[d], notes'[d] = notes[d], writes \subseteq writes'
  PROVE  TruthfulAt(d)'
  <1>1. Id(d)' = Id(d)
    BY DEF Id
  <1>2. pc[d] = "succeed" => row'[Id(d)].intended = row[Id(d)].intended
    BY RegisterOfId DEF StagedKept
  <1>3. \A r : Written(r) => Written(r)'
    BY DEF Written
  <1>4. ASSUME NEW r \in Request, dirty[d][r].outcome = "success"
        PROVE  row'[r].intended = row[r].intended
    BY <1>4 DEF TypeOK, AtHand, Clean, StagedKept
  <1>5. QED
    BY <1>1, <1>2, <1>3, <1>4 DEF TruthfulAt, Says

\* What is committed stays true while nothing is.
LEMMA NothingCommitted ==
  ASSUME RowsTrue, UNCHANGED dbVars, writes \subseteq writes' PROVE RowsTrue'
  BY DEF RowsTrue, Written, Says, dbVars

\* A step of caller c that commits nothing.
LEMMA TruthfulStep ==
  ASSUME TypeOK, Truthful, NEW c \in Caller, TruthfulAt(c)',
         UNCHANGED dbVars, writes \subseteq writes',
         \A d \in Caller \ {c} :
           /\ pc'[d] = pc[d] /\ todo'[d] = todo[d] /\ live'[d] = live[d]
           /\ dirty'[d] = dirty[d] /\ notes'[d] = notes[d]
  PROVE  Truthful'
  <1>1. StagedKept
    BY DEF StagedKept, dbVars
  <1>2. \A d \in Caller \ {c} : TruthfulAt(d)'
    BY <1>1, OthersTruthful DEF Truthful
  <1>3. QED
    BY <1>2, NothingCommitted DEF Truthful

\* A caller that is neither verifying nor succeeding has nothing new to prove.
LEMMA TruthfulElsewhere ==
  ASSUME TypeOK, Truthful, NEW c \in Caller, pc'[c] \notin {"verify", "succeed"},
         UNCHANGED <<dbVars, dirty>>, writes \subseteq writes',
         \A r \in Request, y \in Notes : Says(notes[c][r], y) => Says(notes'[c][r], y),
         \A d \in Caller \ {c} : /\ pc'[d] = pc[d] /\ todo'[d] = todo[d]
                                 /\ live'[d] = live[d] /\ notes'[d] = notes[d]
  PROVE  Truthful'
  <1>1. {"written", "failed"} \subseteq Notes
    BY DEF Notes
  <1>2. TruthfulAt(c)'
    BY <1>1 DEF Truthful, TruthfulAt, Written, dbVars
  <1>3. QED
    BY <1>2, TruthfulStep

\* Where NextId and Goto lead.
LEMMA Ways ==
  ASSUME TypeOK, NEW c \in Caller, NEW l, Goto(c, l)
  PROVE  pc'[c] = l /\ \A d \in Caller \ {c} : pc'[d] = pc[d]
  BY DEF Goto, TypeOK

\* An update and its audit row go together, and are true.
LEMMA UpdateTruthful ==
  ASSUME TypeOK, Truthful, NEW c \in Caller, pc[c] \notin {"idle", "commit", "raised"},
         NEW o, NEW what,
         \/ o = "success" /\ what = "written"
         \/ o = "failed" /\ what = "failed",
         Update(c, o), Note(c, what), NEW raised \in BOOLEAN, NextId(c, raised),
         o = "success" => live[c] = row[Id(c)].intended /\ Written(Id(c)),
         UNCHANGED <<dbVars, live, writes>>
  PROVE  Truthful'
  <1>1. what \in Notes /\ {"written", "failed"} \subseteq Notes
    BY DEF Notes
  <1>2. /\ \A d \in Caller \ {c} : notes'[d] = notes[d]
        /\ \A r \in Request, y \in Notes :
             Says(notes'[c][r], y) <=> Says(notes[c][r], y) \/ (r = Id(c) /\ y = what)
    BY <1>1, NoteSays
  <1>3. /\ pc'[c] \notin {"verify", "succeed"}
        /\ \A d \in Caller \ {c} : pc'[d] = pc[d] /\ todo'[d] = todo[d]
    BY NextIdTypes
  <1>4. Id(c) \in Request
    BY HeadOfTodo
  <1>5. /\ \A d \in Caller \ {c} : dirty'[d] = dirty[d]
        /\ \A r \in Request : r # Id(c) => dirty'[c][r] = dirty[c][r]
        /\ dirty'[c][Id(c)] = [outcome |-> o, verified |-> live[c]]
    BY <1>4 DEF Update, TypeOK
  <1>6. ASSUME NEW r \in Request
        PROVE  /\ dirty'[c][r].outcome = "success" =>
                    /\ dirty'[c][r].verified = row[r].intended
                    /\ Written(r) /\ Says(notes'[c][r], "written")
               /\ dirty'[c][r].outcome = "failed" => Says(notes'[c][r], "failed")
    <2>1. CASE r = Id(c)
      BY <1>1, <1>2, <1>5, <2>1
    <2>2. CASE r # Id(c)
      BY <1>1, <1>2, <1>5, <2>2 DEF Truthful, TruthfulAt
    <2>3. QED
      BY <2>1, <2>2
  <1>7. TruthfulAt(c)'
    BY <1>3, <1>6 DEF TruthfulAt, Written, dbVars
  <1>8. QED
    BY <1>2, <1>3, <1>5, <1>7, TruthfulStep

\* A transaction that ends takes its updates and notes with it.
LEMMA EndTruthful ==
  ASSUME TypeOK, Truthful, NEW c \in Caller, EndCall(c), StagedKept, RowsTrue'
  PROVE  Truthful'
  <1>1. TruthfulAt(c)'
    BY DEF EndCall, Goto, TypeOK, TruthfulAt, NoUpdates, Clean
  <1>2. \A d \in Caller \ {c} : TruthfulAt(d)'
    BY OthersTruthful DEF EndCall, Goto, TypeOK, Truthful
  <1>3. QED
    BY <1>1, <1>2 DEF Truthful

\* What is committed was true before.
LEMMA CommitTruthful ==
  ASSUME TypeOK, Truthful, NEW c \in Caller, Commit(c)
  PROVE  Truthful'
  <1>1. StagedKept
    BY CommitRows DEF StagedKept
  <1>2. writes' = writes
    BY DEF Commit, EndCall
  <1>3. ASSUME NEW r \in Request
        PROVE  /\ row'[r].outcome = "success" =>
                    /\ row'[r].verified = row'[r].intended
                    /\ Written(r)' /\ Says(audit'[r], "written")
               /\ row'[r].outcome = "failed" => Says(audit'[r], "failed")
    <2>1. audit'[r] = audit[r] \o notes[c][r]
          /\ audit[r] \in Seq(Notes) /\ notes[c][r] \in Seq(Notes)
      BY DEF Commit, TypeOK
    <2>2. \A y : Says(audit'[r], y) <=> Says(audit[r], y) \/ Says(notes[c][r], y)
      BY <2>1, SaysMore, "written" \in Notes DEF Notes
    <2>3. Written(r)' <=> Written(r)
      BY <1>2 DEF Written
    <2>4. CASE dirty[c][r] = Clean
      BY <2>2, <2>3, <2>4 DEF Commit, Truthful, RowsTrue
    <2>5. CASE dirty[c][r] # Clean
      <3>1. row[r] \in Staged
        BY <2>5 DEF TypeOK, AtHand, Absent
      <3>2. /\ row'[r].outcome = dirty[c][r].outcome
            /\ row'[r].verified = dirty[c][r].verified
            /\ row'[r].intended = row[r].intended
        BY <2>5, <3>1 DEF Commit, Staged
      <3>3. QED
        BY <2>2, <2>3, <3>2 DEF Truthful, TruthfulAt
    <2>6. QED
      BY <2>4, <2>5
  <1>4. RowsTrue'
    BY <1>3 DEF RowsTrue
  <1>5. QED
    BY <1>1, <1>4, EndTruthful DEF Commit

\* Every step keeps the records true.
LEMMA NextTruthful ==
  ASSUME WriteAssumption, TypeOK, Truthful, [Next]_vars PROVE Truthful'
  <1>1. ASSUME UNCHANGED <<dbVars, txVars, pc, todo, live, writes>> PROVE Truthful'
    <2>1. StagedKept
      BY <1>1 DEF StagedKept, dbVars
    <2>2. QED
      BY <1>1, <2>1, OthersTruthful, NothingCommitted DEF Truthful, txVars
  <1>2. CASE UNCHANGED vars
    BY <1>1, <1>2 DEF vars, callVars
  <1>3. ASSUME NEW what, Disturb(what) PROVE Truthful'
    BY <1>1, <1>3 DEF Disturb, callVars
  <1>4. ASSUME NEW r \in Request, NEW g \in Register, NEW v \in Values,
               CreateRequest(r, g, v)
        PROVE  Truthful'
    <2>1. StagedKept
      BY <1>4 DEF CreateRequest, StagedKept, TypeOK
    <2>2. RowsTrue'
      BY <1>4 DEF CreateRequest, Truthful, RowsTrue, Written, TypeOK
    <2>3. QED
      BY <1>4, <2>1, <2>2, OthersTruthful DEF CreateRequest, Truthful, txVars, callVars
  <1>5. ASSUME NEW c \in Caller, NEW b \in Batches, NEW w \in Granted, Begin(c, b, w)
        PROVE  Truthful'
    <2>1. pc'[c] = "get" /\ \A d \in Caller \ {c} : pc'[d] = pc[d] /\ todo'[d] = todo[d]
      BY <1>5, Ways DEF Begin, TypeOK
    <2>2. QED
      BY <1>5, <2>1, TruthfulElsewhere DEF Begin, txVars
  <1>6. ASSUME NEW c \in Caller, NotFound(c) PROVE Truthful'
    <2>1. pc'[c] = "raised" /\ \A d \in Caller \ {c} : pc'[d] = pc[d] /\ todo'[d] = todo[d]
      BY <1>6, Ways DEF NotFound, TypeOK
    <2>2. QED
      BY <1>6, <2>1, TruthfulElsewhere DEF NotFound, txVars
  <1>7. ASSUME NEW c \in Caller, AlreadyExecuted(c) PROVE Truthful'
    BY <1>7, NextIdTypes, TruthfulElsewhere DEF AlreadyExecuted, txVars
  <1>8. ASSUME NEW c \in Caller, GetPending(c) \/ Permitted(c) \/ WriteRejected(c)
        PROVE  Truthful'
    <2>1. /\ pc'[c] \in {"gate", "read", "fail"}
          /\ \A d \in Caller \ {c} : pc'[d] = pc[d]
      BY <1>8, Ways DEF GetPending, Permitted, WriteRejected
    <2>2. QED
      BY <1>8, <2>1, TruthfulElsewhere
      DEF GetPending, Permitted, WriteRejected, txVars, callVars
  <1>9. ASSUME NEW c \in Caller, Blocked(c) PROVE Truthful'
    <2>1. "blocked" \in Notes
      BY DEF Notes
    <2>2. /\ \A d \in Caller \ {c} : notes'[d] = notes[d]
          /\ \A r \in Request, y \in Notes :
               Says(notes[c][r], y) => Says(notes'[c][r], y)
      BY <1>9, <2>1, NoteSays DEF Blocked
    <2>3. QED
      BY <1>9, <2>2, NextIdTypes, TruthfulElsewhere DEF Blocked
  <1>10. ASSUME NEW c \in Caller, ReadLive(c) PROVE Truthful'
    <2>1. /\ pc'[c] = "check" /\ \A d \in Caller \ {c} : pc'[d] = pc[d]
          /\ \A d \in Caller \ {c} : live'[d] = live[d]
      BY <1>10, Ways DEF ReadLive, TypeOK
    <2>2. QED
      BY <1>10, <2>1, TruthfulElsewhere DEF ReadLive, txVars
  <1>11. ASSUME NEW c \in Caller, Check(c) PROVE Truthful'
    <2>1. /\ pc'[c] \notin {"verify", "succeed"}
          /\ \A d \in Caller \ {c} : pc'[d] = pc[d] /\ todo'[d] = todo[d]
      <3>1. /\ pc[c] = "check"
            /\ \/ Goto(c, "fail") /\ UNCHANGED todo
               \/ NextId(c, TRUE)
               \/ Goto(c, "write") /\ UNCHANGED todo
        BY <1>11 DEF Check
      <3>2. CASE NextId(c, TRUE)
        BY <3>1, <3>2, NextIdTypes
      <3>3. CASE \E l \in {"fail", "write"} : Goto(c, l) /\ UNCHANGED todo
        BY <3>3, Ways
      <3>4. QED
        BY <3>1, <3>2, <3>3
    <2>2. QED
      BY <1>11, <2>1, TruthfulElsewhere DEF Check, txVars
  <1>12. ASSUME NEW c \in Caller, NEW v \in Values, WriteTakes(c, v) PROVE Truthful'
    <2>1. /\ pc'[c] = "verify" /\ \A d \in Caller \ {c} : pc'[d] = pc[d]
          /\ writes' = writes \cup {Record(c, v)} /\ Record(c, v).req = Id(c)
          /\ UNCHANGED <<dbVars, txVars, callVars>>
      BY <1>12, Ways DEF WriteTakes, Record
    <2>2. Id(c)' = Id(c) /\ \A r : Written(r) => Written(r)'
      BY <2>1 DEF Id, callVars, Written
    <2>3. Written(Id(c))'
      BY <2>1, <2>2 DEF Written
    <2>4. TruthfulAt(c)'
      BY <2>1, <2>2, <2>3 DEF Truthful, TruthfulAt, Says, dbVars, txVars
    <2>5. QED
      BY <2>1, <2>4, TruthfulStep DEF txVars, callVars
  <1>13. ASSUME NEW c \in Caller, ReadBack(c) PROVE Truthful'
    <2>1. /\ pc[c] = "verify" /\ pc'[c] \in {"succeed", "fail"}
          /\ pc'[c] = "succeed" <=> Verified(c)
          /\ \A d \in Caller \ {c} : pc'[d] = pc[d] /\ live'[d] = live[d]
          /\ live'[c] = register[row[Id(c)].reg]
          /\ UNCHANGED <<dbVars, txVars, todo, writes>>
      BY <1>13 DEF ReadBack, Goto, TypeOK
    <2>2. Id(c)' = Id(c) /\ \A r : Written(r)' <=> Written(r)
      BY <2>1 DEF Id, Written
    <2>3. TruthfulAt(c)'
      BY <2>1, <2>2 DEF Truthful, TruthfulAt, Verified, Says, dbVars, txVars
    <2>4. QED
      BY <2>1, <2>3, TruthfulStep DEF txVars
  <1>14. ASSUME NEW c \in Caller, Fail(c) PROVE Truthful'
    <2>1. /\ pc[c] = "fail" /\ Update(c, "failed") /\ Note(c, "failed")
          /\ NextId(c, TRUE) /\ UNCHANGED <<dbVars, live, writes>>
      BY <1>14 DEF Fail
    <2>2. "failed" # "success" /\ TRUE \in BOOLEAN
      OBVIOUS
    <2>3. QED
      BY <2>1, <2>2, UpdateTruthful, ZenonT(30)
  <1>15. ASSUME NEW c \in Caller, Succeed(c) PROVE Truthful'
    <2>1. live[c] = row[Id(c)].intended /\ Written(Id(c))
      BY <1>15 DEF Succeed, Truthful, TruthfulAt
    <2>2. /\ pc[c] = "succeed" /\ Update(c, "success") /\ Note(c, "written")
          /\ NextId(c, FALSE) /\ UNCHANGED <<dbVars, live, writes>>
      BY <1>15 DEF Succeed
    <2>3. QED
      BY <2>1, <2>2, UpdateTruthful
  <1>16. ASSUME NEW c \in Caller, Rollback(c) PROVE Truthful'
    <2>1. StagedKept /\ RowsTrue'
      BY <1>16, NothingCommitted DEF Rollback, EndCall, StagedKept, dbVars, Truthful
    <2>2. QED
      BY <1>16, <2>1, EndTruthful DEF Rollback
  <1>17. QED
    BY <1>2, <1>3, <1>4, <1>5, <1>6, <1>7, <1>8, <1>9, <1>10, <1>11, <1>12, <1>13,
       <1>14, <1>15, <1>16, CommitTruthful
    DEF Next, World, PanelEdit, MachineChanges, ProbeMoves, Step, Return, Raise,
        DeadlockVictim, Crash

\* Nothing is staged at first.
LEMMA InitTruthful == Init => Truthful
  BY DEF Init, Truthful, TruthfulAt, RowsTrue, Absent, NoUpdates, Clean

\* The records are true in any run.
LEMMA AlwaysTruthful == Spec => []Truthful
  <1>1. Truthful /\ TypeOK /\ [Next]_vars => Truthful'
    BY WriteAssumption, NextTruthful
  <1>2. QED
    BY <1>1, InitTruthful, TypeCorrect, PTL DEF Spec

(* Whoever else executes requests, crashes or edits the control: a request  *)
(* recorded as a success was written for, and its read-back was the value   *)
(* that it intended.                                                        *)
THEOREM SuccessIsAlwaysTrue == Spec => []SuccessIsTrue
  <1>1. Truthful => SuccessIsTrue
    BY DEF Truthful, RowsTrue, Written, SuccessIsTrue
  <1>2. QED
    BY <1>1, AlwaysTruthful, PTL

(* No outcome is recorded without the audit row that reports it, also when  *)
(* several sessions execute the same request.                               *)
THEOREM OutcomesAlwaysAudited == Spec => []OutcomesAudited
  <1>1. Truthful => OutcomesAudited
    BY DEF Truthful, RowsTrue, OutcomesAudited
  <1>2. QED
    BY <1>1, AlwaysTruthful, PTL

-----------------------------------------------------------------------------
(* The audit log.  Two sessions may execute the same pending request, and   *)
(* then its row tells of the last of them only: the log and the rows agree  *)
(* as long as one session at a time executes.                               *)

OneAtATime == \A c, d \in Caller : c = d

Busy == {"gate", "read", "check", "write", "verify", "fail", "succeed"}

(* The only session works on pending requests, has updated no other, and    *)
(* has noted for each what it has updated it with.                          *)
SoleAt(c) ==
  /\ pc[c] \in Busy => dirty[c][Id(c)] = Clean /\ row[Id(c)].outcome = "pending"
  /\ \A r \in Request :
       /\ dirty[c][r] # Clean => row[r].outcome = "pending"
       /\ Says(notes[c][r], "written") => dirty[c][r].outcome = "success"
       /\ Says(notes[c][r], "failed") => dirty[c][r].outcome = "failed"

(* The log reports nothing that the rows do not.                            *)
LogTrue ==
  \A r \in Request :
    /\ Says(audit[r], "written") => row[r].outcome = "success"
    /\ Says(audit[r], "failed") => row[r].outcome = "failed"

Sole == (\A c \in Caller : SoleAt(c)) /\ LogTrue

\* A step that updates and reports nothing.
LEMMA SoleElsewhere ==
  ASSUME OneAtATime, Sole, NEW c \in Caller, UNCHANGED <<dbVars, dirty>>,
         pc'[c] \in Busy => pc[c] \in Busy /\ todo'[c] = todo[c],
         \A r \in Request, y \in {"written", "failed"} :
           Says(notes'[c][r], y) => Says(notes[c][r], y)
  PROVE  Sole'
  <1>1. SoleAt(c)'
    BY DEF Sole, SoleAt, Id, dbVars
  <1>2. LogTrue'
    BY DEF Sole, LogTrue, dbVars
  <1>3. QED
    BY <1>1, <1>2 DEF Sole, OneAtATime

\* The update of a pending row and its report.
LEMMA SoleUpdates ==
  ASSUME OneAtATime, TypeOK, Sole, NEW c \in Caller, pc[c] \in Busy,
         NEW o, NEW what,
         \/ o = "success" /\ what = "written"
         \/ o = "failed" /\ what = "failed",
         Update(c, o), Note(c, what), NEW raised \in BOOLEAN, NextId(c, raised),
         UNCHANGED dbVars
  PROVE  Sole'
  <1>0. pc[c] \notin {"idle", "commit", "raised"}
    BY DEF Busy
  <1>1. what \in Notes /\ {"written", "failed"} \subseteq Notes
    BY DEF Notes
  <1>2. \A r \in Request, y \in Notes :
          Says(notes'[c][r], y) <=> Says(notes[c][r], y) \/ (r = Id(c) /\ y = what)
    BY <1>0, <1>1, NoteSays
  <1>3. pc'[c] \notin Busy
    BY <1>0, NextIdTypes DEF Busy
  <1>4. Id(c) \in Request
    BY <1>0, HeadOfTodo
  <1>5. /\ \A r \in Request : r # Id(c) => dirty'[c][r] = dirty[c][r]
        /\ dirty'[c][Id(c)] = [outcome |-> o, verified |-> live[c]]
    BY <1>4 DEF Update, TypeOK
  <1>6. /\ ~Says(notes[c][Id(c)], "written") /\ ~Says(notes[c][Id(c)], "failed")
        /\ row[Id(c)].outcome = "pending"
    BY <1>4 DEF Sole, SoleAt, Clean
  <1>7. ASSUME NEW r \in Request
        PROVE  /\ dirty'[c][r] # Clean => row[r].outcome = "pending"
               /\ Says(notes'[c][r], "written") => dirty'[c][r].outcome = "success"
               /\ Says(notes'[c][r], "failed") => dirty'[c][r].outcome = "failed"
    <2>1. CASE r = Id(c)
      BY <1>1, <1>2, <1>5, <1>6, <2>1
    <2>2. CASE r # Id(c)
      BY <1>1, <1>2, <1>5, <2>2 DEF Sole, SoleAt
    <2>3. QED
      BY <2>1, <2>2
  <1>8. SoleAt(c)'
    BY <1>3, <1>7 DEF SoleAt, dbVars
  <1>9. QED
    BY <1>8 DEF OneAtATime, Sole, LogTrue, dbVars

\* A transaction that ends leaves its session with nothing.
LEMMA SoleEnds ==
  ASSUME OneAtATime, TypeOK, NEW c \in Caller, EndCall(c), LogTrue' PROVE Sole'
  <1>1. pc'[c] = "idle" /\ dirty'[c] = NoUpdates /\ notes'[c] = NoNotes
    BY DEF EndCall, Goto, TypeOK
  <1>2. \A r \in Request : dirty'[c][r] = Clean /\ notes'[c][r] = <<>>
    BY <1>1 DEF NoUpdates, NoNotes
  <1>3. \A y : ~Says(<<>>, y)
    BY DEF Says
  <1>4. SoleAt(c)'
    BY <1>1, <1>2, <1>3 DEF SoleAt, Busy
  <1>5. QED
    BY <1>4 DEF OneAtATime, Sole

\* What is committed reports what it updates.
LEMMA SoleCommits ==
  ASSUME OneAtATime, TypeOK, Sole, NEW c \in Caller, Commit(c) PROVE Sole'
  <1>1. ASSUME NEW r \in Request
        PROVE  /\ Says(audit'[r], "written") => row'[r].outcome = "success"
               /\ Says(audit'[r], "failed") => row'[r].outcome = "failed"
    <2>1. audit'[r] = audit[r] \o notes[c][r]
          /\ audit[r] \in Seq(Notes) /\ notes[c][r] \in Seq(Notes)
      BY DEF Commit, TypeOK
    <2>2. \A y : Says(audit'[r], y) <=> Says(audit[r], y) \/ Says(notes[c][r], y)
      BY <2>1, SaysMore, "written" \in Notes DEF Notes
    <2>3. CASE dirty[c][r] = Clean
      <3>1. row'[r] = row[r]
        BY <2>3 DEF Commit
      <3>2. ~Says(notes[c][r], "written") /\ ~Says(notes[c][r], "failed")
        BY <2>3 DEF Sole, SoleAt, Clean
      <3>3. QED
        BY <2>2, <3>1, <3>2 DEF Sole, LogTrue
    <2>4. CASE dirty[c][r] # Clean
      <3>1. row[r] \in Staged
        BY <2>4 DEF TypeOK, AtHand, Absent
      <3>2. row'[r].outcome = dirty[c][r].outcome /\ row[r].outcome = "pending"
        BY <2>4, <3>1 DEF Commit, Staged, Sole, SoleAt
      <3>3. QED
        BY <2>2, <3>2 DEF Sole, SoleAt, LogTrue
    <2>5. QED
      BY <2>3, <2>4
  <1>2. LogTrue'
    BY <1>1 DEF LogTrue
  <1>3. QED
    BY <1>2, SoleEnds DEF Commit

\* Every step of the only session, and of the world around it.
LEMMA NextSole ==
  ASSUME WriteAssumption, OneAtATime, TypeOK, Sole, [Next]_vars PROVE Sole'
  <1>1. ASSUME UNCHANGED <<dbVars, txVars, pc, todo>> PROVE Sole'
    BY <1>1 DEF Sole, SoleAt, LogTrue, Id, dbVars, txVars
  <1>2. CASE UNCHANGED vars
    BY <1>1, <1>2 DEF vars, callVars
  <1>3. ASSUME NEW what, Disturb(what) PROVE Sole'
    BY <1>1, <1>3 DEF Disturb, callVars
  <1>4. ASSUME NEW r \in Request, NEW g \in Register, NEW v \in Values,
               CreateRequest(r, g, v)
        PROVE  Sole'
    <2>1. \A q \in Request : row[q].outcome # "absent" => row'[q] = row[q]
      BY <1>4 DEF CreateRequest, TypeOK
    <2>2. \A c \in Caller : pc[c] \in Busy => Id(c) \in Request
      BY HeadOfTodo DEF Busy
    <2>3. UNCHANGED <<audit, dirty, notes, pc, todo>>
      BY <1>4 DEF CreateRequest, txVars, callVars
    <2>4. QED
      BY <2>1, <2>2, <2>3 DEF Sole, SoleAt, LogTrue, Id
  <1>5. ASSUME NEW c \in Caller, NEW b \in Batches, NEW w \in Granted, Begin(c, b, w)
        PROVE  Sole'
    <2>1. pc'[c] \notin Busy
      BY <1>5, Ways DEF Begin, Busy
    <2>2. QED
      BY <1>5, <2>1, SoleElsewhere DEF Begin, txVars
  <1>6. ASSUME NEW c \in Caller, NotFound(c) PROVE Sole'
    <2>1. pc'[c] \notin Busy
      BY <1>6, Ways DEF NotFound, Busy
    <2>2. QED
      BY <1>6, <2>1, SoleElsewhere DEF NotFound, txVars
  <1>7. ASSUME NEW c \in Caller, AlreadyExecuted(c) PROVE Sole'
    <2>1. pc'[c] \notin Busy
      BY <1>7, NextIdTypes DEF AlreadyExecuted, Busy
    <2>2. QED
      BY <1>7, <2>1, SoleElsewhere DEF AlreadyExecuted, txVars
  <1>8. ASSUME NEW c \in Caller, GetPending(c) PROVE Sole'
    <2>1. Id(c) \in Request
      BY <1>8, HeadOfTodo DEF GetPending
    <2>2. dirty[c][Id(c)] \in Updates
      BY <2>1 DEF TypeOK
    <2>3. dirty[c][Id(c)] = Clean /\ row[Id(c)].outcome = "pending"
      BY <1>8, <2>2 DEF GetPending, Outcome, Updates, Outcomes
    <2>4. SoleAt(c)'
      BY <1>8, <2>3 DEF GetPending, Sole, SoleAt, Id, dbVars, txVars, callVars
    <2>5. QED
      BY <1>8, <2>4 DEF GetPending, OneAtATime, Sole, LogTrue, dbVars
  <1>9. ASSUME NEW c \in Caller, Permitted(c) \/ WriteRejected(c) \/ ReadLive(c)
                                  \/ ReadBack(c) \/ \E v \in Values : WriteTakes(c, v)
        PROVE  Sole'
    <2>1. pc[c] \in Busy /\ UNCHANGED <<dbVars, txVars, todo>>
      BY <1>9 DEF Permitted, WriteRejected, ReadLive, ReadBack, WriteTakes, Busy,
         callVars
    <2>2. QED
      BY <2>1, SoleElsewhere DEF txVars
  <1>10. ASSUME NEW c \in Caller, Blocked(c) PROVE Sole'
    <2>1. /\ pc[c] = "gate" /\ Note(c, "blocked") /\ NextId(c, TRUE)
          /\ UNCHANGED <<dbVars, dirty>>
      BY <1>10 DEF Blocked
    <2>2. pc'[c] \notin Busy
      BY <2>1, NextIdTypes DEF Busy
    <2>3. {"blocked", "written", "failed"} \subseteq Notes
      BY DEF Notes
    <2>4. \A r \in Request, y \in {"written", "failed"} :
            Says(notes'[c][r], y) => Says(notes[c][r], y)
      BY <2>1, <2>3, NoteSays
    <2>5. QED
      BY <2>1, <2>2, <2>4, SoleElsewhere
  <1>11. ASSUME NEW c \in Caller, Check(c) PROVE Sole'
    <2>1. /\ pc[c] = "check" /\ UNCHANGED <<dbVars, txVars>>
          /\ UNCHANGED todo \/ NextId(c, TRUE)
      BY <1>11 DEF Check
    <2>2. pc[c] \in Busy /\ (todo' = todo \/ pc'[c] \notin Busy)
      BY <2>1, NextIdTypes DEF Busy
    <2>3. QED
      BY <2>1, <2>2, SoleElsewhere DEF txVars
  <1>12. ASSUME NEW c \in Caller, Fail(c) PROVE Sole'
    <2>1. /\ pc[c] \in Busy /\ Update(c, "failed") /\ Note(c, "failed")
          /\ NextId(c, TRUE) /\ UNCHANGED dbVars
      BY <1>12 DEF Fail, Busy
    <2>2. QED
      BY <2>1, SoleUpdates
  <1>13. ASSUME NEW c \in Caller, Succeed(c) PROVE Sole'
    <2>1. /\ pc[c] \in Busy /\ Update(c, "success") /\ Note(c, "written")
          /\ NextId(c, FALSE) /\ UNCHANGED dbVars
      BY <1>13 DEF Succeed, Busy
    <2>2. QED
      BY <2>1, SoleUpdates
  <1>14. ASSUME NEW c \in Caller, Rollback(c) PROVE Sole'
    <2>1. LogTrue'
      BY <1>14 DEF Rollback, Sole, LogTrue, dbVars
    <2>2. QED
      BY <1>14, <2>1, SoleEnds DEF Rollback
  <1>15. QED
    BY <1>2, <1>3, <1>4, <1>5, <1>6, <1>7, <1>8, <1>9, <1>10, <1>11, <1>12, <1>13,
       <1>14, SoleCommits
    DEF Next, World, PanelEdit, MachineChanges, ProbeMoves, Step, Return, Raise,
        DeadlockVictim, Crash

(* The log and the rows agree whatever else happens, crashes and rollbacks  *)
(* included, if no two sessions execute at the same time.                   *)
THEOREM AuditAlwaysAgrees == ASSUME OneAtATime PROVE Spec => []AuditAgrees
  <1>1. Init => Sole
    BY DEF Init, Sole, SoleAt, LogTrue, Says, NoNotes, NoUpdates, Busy
  <1>2. Sole /\ TypeOK /\ [Next]_vars => Sole'
    BY WriteAssumption, NextSole
  <1>3. Sole /\ Truthful => AuditAgrees
    BY DEF Sole, LogTrue, Truthful, RowsTrue, Says, AuditAgrees
  <1>4. QED
    BY <1>1, <1>2, <1>3, TypeCorrect, AlwaysTruthful, PTL DEF Spec

-----------------------------------------------------------------------------
(* No write goes untraced, while no session is lost, each commits what it   *)
(* has after an exception, and the database has no deadlock to break: with  *)
(* one session, or with any number that execute one request per call.       *)

Attended == Commits /\ ~Crashes /\ (Single \/ OneAtATime)

(* A call for one request holds no row while it executes.                   *)
HoldsNone ==
  \A c \in Caller :
    /\ pc[c] = "idle" => dirty[c] = NoUpdates /\ notes[c] = NoNotes
    /\ Single /\ pc[c] \notin {"idle", "commit", "raised"} =>
         Len(todo[c]) = 1 /\ dirty[c] = NoUpdates

\* Where a write has been made that is not yet noted.
Unnoted == {"verify", "fail", "succeed"}
Reported(s) == Says(s, "written") \/ Says(s, "failed")

(* A write that was made is being recorded, or is noted, or is in the log.  *)
Traced ==
  \A w \in writes :
    \/ \E c \in Caller :
         \/ pc[c] \in Unnoted /\ Id(c) = w.req
         \/ Reported(notes[c][w.req])
    \/ Reported(audit[w.req])

TracedInv == HoldsNone /\ Traced

\* A step of caller c keeps every trace if it keeps its own.
LEMMA TracedStep ==
  ASSUME TypeOK, Traced, NEW c \in Caller,
         \A d \in Caller \ {c} : /\ pc'[d] = pc[d] /\ todo'[d] = todo[d]
                                 /\ notes'[d] = notes[d],
         \A r \in Request : Reported(audit[r]) => Reported(audit'[r]),
         \A r \in Request :
           Reported(notes[c][r]) => Reported(notes'[c][r]) \/ Reported(audit'[r]),
         pc[c] \in Unnoted =>
           \/ pc'[c] \in Unnoted /\ todo'[c] = todo[c]
           \/ Reported(notes'[c][Id(c)]),
         \A w \in writes' :
           w \in writes \/ (pc'[c] \in Unnoted /\ Head(todo'[c]) = w.req)
  PROVE  Traced'
  <1> SUFFICES ASSUME NEW w \in writes'
               PROVE  \/ \E d \in Caller :
                           \/ pc'[d] \in Unnoted /\ Head(todo'[d]) = w.req
                           \/ Reported(notes'[d][w.req])
                      \/ Reported(audit'[w.req])
    BY DEF Traced, Id, Reported, Says
  <1>1. CASE w \notin writes
    BY <1>1
  <1>2. CASE w \in writes
    <2>0. w.req \in Request
      BY <1>2 DEF TypeOK, AtHand
    <2>1. CASE Reported(audit[w.req])
      BY <2>0, <2>1
    <2>2. ASSUME NEW d \in Caller, pc[d] \in Unnoted, Id(d) = w.req
          PROVE  \E e \in Caller : \/ pc'[e] \in Unnoted /\ Head(todo'[e]) = w.req
                                   \/ Reported(notes'[e][w.req])
      BY <2>2 DEF Id
    <2>3. ASSUME NEW d \in Caller, Reported(notes[d][w.req])
          PROVE  Reported(notes'[d][w.req]) \/ Reported(audit'[w.req])
      BY <2>0, <2>3
    <2>4. QED
      BY <1>2, <2>1, <2>2, <2>3 DEF Traced
  <1>3. QED
    BY <1>1, <1>2

\* A step of caller c holds nothing if c does not.
LEMMA HoldsStep ==
  ASSUME HoldsNone, NEW c \in Caller,
         \A d \in Caller \ {c} : /\ pc'[d] = pc[d] /\ todo'[d] = todo[d]
                                 /\ dirty'[d] = dirty[d] /\ notes'[d] = notes[d],
         pc'[c] = "idle" => dirty'[c] = NoUpdates /\ notes'[c] = NoNotes,
         Single /\ pc'[c] \notin {"idle", "commit", "raised"} =>
           Len(todo'[c]) = 1 /\ dirty'[c] = NoUpdates
  PROVE  HoldsNone'
  BY DEF HoldsNone

\* A step of caller c that goes on with the same id, and notes nothing.
LEMMA TracedOn ==
  ASSUME TypeOK, TracedInv, NEW c \in Caller, pc[c] \notin {"idle", "commit", "raised"},
         NEW l, Goto(c, l), l # "idle", UNCHANGED <<dbVars, txVars, todo>>,
         pc[c] \in Unnoted => l \in Unnoted,
         \A w \in writes' : w \in writes \/ (l \in Unnoted /\ Id(c) = w.req)
  PROVE  TracedInv'
  <1>1. pc'[c] = l /\ \A d \in Caller \ {c} : pc'[d] = pc[d]
    BY Ways
  <1>2. HoldsNone'
    BY <1>1, HoldsStep DEF TracedInv, HoldsNone, txVars
  <1>3. Traced'
    BY <1>1, TracedStep DEF TracedInv, Id, dbVars, txVars
  <1>4. QED
    BY <1>2, <1>3 DEF TracedInv

\* A caller that has done with its only id is at the end of its call.
LEMMA LastId ==
  ASSUME TypeOK, HoldsNone, NEW c \in Caller, pc[c] \notin {"idle", "commit", "raised"},
         NEW raised \in BOOLEAN, NextId(c, raised), Single
  PROVE  pc'[c] \in {"commit", "raised"}
  BY DEF HoldsNone, NextId, Goto, TypeOK

\* Leaving an id that was not written for, whatever is noted.
LEMMA TracedOff ==
  ASSUME TypeOK, TracedInv, NEW c \in Caller, pc[c] \notin {"idle", "commit", "raised"},
         pc[c] \notin Unnoted, NEW raised \in BOOLEAN, NextId(c, raised),
         \A r \in Request : Reported(notes[c][r]) => Reported(notes'[c][r]),
         \A d \in Caller \ {c} : notes'[d] = notes[d],
         UNCHANGED <<dbVars, dirty, writes>>
  PROVE  TracedInv'
  <1>1. /\ pc'[c] \in {"raised", "commit", "get"}
        /\ \A d \in Caller \ {c} : pc'[d] = pc[d] /\ todo'[d] = todo[d]
        /\ Single => pc'[c] \in {"commit", "raised"}
    BY NextIdTypes, LastId DEF TracedInv
  <1>2. HoldsNone'
    BY <1>1, HoldsStep DEF TracedInv
  <1>3. Traced'
    BY <1>1, TracedStep DEF TracedInv, dbVars
  <1>4. QED
    BY <1>2, <1>3 DEF TracedInv

\* Leaving an id that is reported on.
LEMMA TracedReported ==
  ASSUME TypeOK, TracedInv, NEW c \in Caller, pc[c] \in {"fail", "succeed"},
         NEW o, Update(c, o), NEW what \in {"written", "failed"}, Note(c, what),
         NEW raised \in BOOLEAN, NextId(c, raised), UNCHANGED <<dbVars, writes>>
  PROVE  TracedInv'
  <1>1. /\ pc'[c] \in {"raised", "commit", "get"}
        /\ \A d \in Caller \ {c} : pc'[d] = pc[d] /\ todo'[d] = todo[d]
        /\ Single => pc'[c] \in {"commit", "raised"}
    BY NextIdTypes, LastId DEF TracedInv
  <1>2. Id(c) \in Request /\ {"written", "failed"} \subseteq Notes
    BY HeadOfTodo DEF Notes
  <1>3. /\ \A d \in Caller \ {c} : notes'[d] = notes[d]
        /\ \A r \in Request : Reported(notes[c][r]) => Reported(notes'[c][r])
        /\ Reported(notes'[c][Id(c)])
    BY <1>2, NoteSays DEF Reported
  <1>4. \A d \in Caller \ {c} : dirty'[d] = dirty[d]
    BY DEF Update, TypeOK
  <1>5. HoldsNone'
    BY <1>1, <1>3, <1>4, HoldsStep DEF TracedInv
  <1>6. Traced'
    BY <1>1, <1>3, TracedStep DEF TracedInv, dbVars
  <1>7. QED
    BY <1>5, <1>6 DEF TracedInv

\* At the end of a call what it has noted goes to the log.
LEMMA TracedCommits ==
  ASSUME TypeOK, TracedInv, NEW c \in Caller, pc[c] \in {"commit", "raised"}, Commit(c)
  PROVE  TracedInv'
  <1>1. /\ pc'[c] = "idle" /\ dirty'[c] = NoUpdates /\ notes'[c] = NoNotes
        /\ \A d \in Caller \ {c} : /\ pc'[d] = pc[d] /\ todo'[d] = todo[d]
                                   /\ dirty'[d] = dirty[d] /\ notes'[d] = notes[d]
        /\ writes' = writes
    BY DEF Commit, EndCall, Goto, TypeOK
  <1>2. ASSUME NEW r \in Request
        PROVE  Reported(audit[r]) \/ Reported(notes[c][r]) => Reported(audit'[r])
    <2>1. audit'[r] = audit[r] \o notes[c][r]
          /\ audit[r] \in Seq(Notes) /\ notes[c][r] \in Seq(Notes)
      BY DEF Commit, TypeOK
    <2>2. QED
      BY <2>1, SaysMore, "written" \in Notes DEF Notes, Reported
  <1>3. HoldsNone'
    BY <1>1, HoldsStep DEF TracedInv
  <1>4. Traced'
    BY <1>1, <1>2, TracedStep DEF TracedInv, Unnoted
  <1>5. QED
    BY <1>3, <1>4 DEF TracedInv

\* Nobody waits for a session that waits for it.
LEMMA NoDeadlock ==
  ASSUME TypeOK, HoldsNone, Single \/ OneAtATime, NEW c \in Caller, NEW d \in Caller
  PROVE  ~(Waits(c, d) /\ Waits(d, c))
  <1>1. SUFFICES ASSUME Waits(c, d), Waits(d, c) PROVE FALSE
    OBVIOUS
  <1>2. /\ pc[c] \in {"fail", "succeed"} /\ pc[d] \in {"fail", "succeed"}
        /\ d # c /\ dirty[d][Id(c)] # Clean
    BY <1>1 DEF Waits, Holders
  <1>3. Id(c) \in Request
    BY <1>2, HeadOfTodo
  <1>4. QED
    BY <1>2, <1>3 DEF HoldsNone, NoUpdates, OneAtATime

\* Every step keeps the traces.
LEMMA NextTraced ==
  ASSUME WriteAssumption, Attended, TypeOK, TracedInv, [Next]_vars PROVE TracedInv'
  <1>1. ASSUME UNCHANGED <<txVars, pc, todo, writes, audit>> PROVE TracedInv'
    BY <1>1 DEF TracedInv, HoldsNone, Traced, Id, txVars
  <1>2. CASE UNCHANGED vars
    BY <1>1, <1>2 DEF vars, callVars, dbVars
  <1>3. ASSUME NEW what, Disturb(what) PROVE TracedInv'
    BY <1>1, <1>3 DEF Disturb, callVars, dbVars
  <1>4. ASSUME NEW r \in Request, NEW g \in Register, NEW v \in Values,
               CreateRequest(r, g, v)
        PROVE  TracedInv'
    BY <1>1, <1>4 DEF CreateRequest, callVars
  <1>5. ASSUME NEW c \in Caller, NEW b \in Batches, NEW w \in Granted, Begin(c, b, w)
        PROVE  TracedInv'
    <2>1. /\ pc[c] = "idle" /\ pc'[c] = "get" /\ todo'[c] = b
          /\ \A d \in Caller \ {c} : pc'[d] = pc[d] /\ todo'[d] = todo[d]
          /\ UNCHANGED <<dbVars, txVars, writes>>
      BY <1>5, Ways DEF Begin, TypeOK
    <2>2. Single => Len(b) = 1
      BY DEF WriteAssumption
    <2>3. HoldsNone'
      BY <2>1, <2>2, HoldsStep DEF TracedInv, HoldsNone, txVars
    <2>4. Traced'
      BY <2>1, TracedStep DEF TracedInv, Unnoted, dbVars, txVars
    <2>5. QED
      BY <2>3, <2>4 DEF TracedInv
  <1>6. ASSUME NEW c \in Caller, NotFound(c) PROVE TracedInv'
    <2>1. /\ pc[c] = "get" /\ pc'[c] = "raised"
          /\ \A d \in Caller \ {c} : pc'[d] = pc[d] /\ todo'[d] = todo[d]
          /\ UNCHANGED <<dbVars, txVars, writes>>
      BY <1>6, Ways DEF NotFound, TypeOK
    <2>2. HoldsNone'
      BY <2>1, HoldsStep DEF TracedInv, txVars
    <2>3. Traced'
      BY <2>1, TracedStep DEF TracedInv, Unnoted, dbVars, txVars
    <2>4. QED
      BY <2>2, <2>3 DEF TracedInv
  <1>7. ASSUME NEW c \in Caller, AlreadyExecuted(c) PROVE TracedInv'
    <2>1. /\ pc[c] = "get" /\ NextId(c, TRUE)
          /\ UNCHANGED <<dbVars, txVars, writes>>
      BY <1>7 DEF AlreadyExecuted
    <2>2. QED
      BY <2>1, TracedOff DEF Unnoted, txVars
  <1>8. ASSUME NEW c \in Caller, Blocked(c) PROVE TracedInv'
    <2>1. /\ pc[c] = "gate" /\ Note(c, "blocked") /\ NextId(c, TRUE)
          /\ UNCHANGED <<dbVars, dirty, writes>>
      BY <1>8 DEF Blocked
    <2>2. {"blocked", "written", "failed"} \subseteq Notes
      BY DEF Notes
    <2>3. /\ \A d \in Caller \ {c} : notes'[d] = notes[d]
          /\ \A r \in Request : Reported(notes[c][r]) => Reported(notes'[c][r])
      BY <2>1, <2>2, NoteSays DEF Reported
    <2>4. QED
      BY <2>1, <2>3, TracedOff DEF Unnoted
  <1>9. ASSUME NEW c \in Caller, NEW l \in {"gate", "read", "check", "fail", "succeed"},
               pc[c] \in {"get", "gate", "read", "write", "verify"},
               pc[c] = "verify" => l \in Unnoted,
               Goto(c, l), UNCHANGED <<dbVars, txVars, todo, writes>>
        PROVE  TracedInv'
    BY <1>9, TracedOn DEF Unnoted
  <1>10. ASSUME NEW c \in Caller, GetPending(c) \/ Permitted(c) \/ ReadLive(c)
                                   \/ WriteRejected(c) \/ ReadBack(c)
         PROVE  TracedInv'
    BY <1>9, <1>10
    DEF GetPending, Permitted, ReadLive, WriteRejected, ReadBack, Unnoted, callVars
  <1>11. ASSUME NEW c \in Caller, Check(c) PROVE TracedInv'
    <2>1. /\ pc[c] = "check" /\ UNCHANGED <<dbVars, txVars, writes>>
          /\ \/ \E l \in {"fail", "write"} : Goto(c, l) /\ UNCHANGED todo
             \/ NextId(c, TRUE)
      BY <1>11 DEF Check
    <2>2. CASE NextId(c, TRUE)
      BY <2>1, <2>2, TracedOff DEF Unnoted, txVars
    <2>3. CASE \E l \in {"fail", "write"} : Goto(c, l) /\ UNCHANGED todo
      BY <2>1, <2>3, TracedOn DEF Unnoted
    <2>4. QED
      BY <2>1, <2>2, <2>3
  <1>12. ASSUME NEW c \in Caller, NEW v \in Values, WriteTakes(c, v) PROVE TracedInv'
    <2>1. /\ pc[c] = "write" /\ Goto(c, "verify")
          /\ writes' = writes \cup {Record(c, v)} /\ Record(c, v).req = Id(c)
          /\ UNCHANGED <<dbVars, txVars, todo>>
      BY <1>12 DEF WriteTakes, Record, callVars
    <2>2. QED
      BY <2>1, TracedOn DEF Unnoted
  <1>13. ASSUME NEW c \in Caller, Fail(c) PROVE TracedInv'
    <2>1. /\ pc[c] = "fail" /\ Update(c, "failed") /\ Note(c, "failed")
          /\ NextId(c, TRUE) /\ UNCHANGED <<dbVars, writes>>
      BY <1>13 DEF Fail
    <2>2. QED
      BY <2>1, TracedReported
  <1>14. ASSUME NEW c \in Caller, Succeed(c) PROVE TracedInv'
    <2>1. /\ pc[c] = "succeed" /\ Update(c, "success") /\ Note(c, "written")
          /\ NextId(c, FALSE) /\ UNCHANGED <<dbVars, writes>>
      BY <1>14 DEF Succeed
    <2>2. QED
      BY <2>1, TracedReported
  <1>15. ASSUME NEW c \in Caller, Return(c) \/ Raise(c) PROVE TracedInv'
    BY <1>15, TracedCommits DEF Return, Raise, Attended
  <1>16. ASSUME NEW c \in Caller PROVE ~DeadlockVictim(c) /\ ~Crash(c)
    BY NoDeadlock DEF DeadlockVictim, Crash, Attended, TracedInv
  <1>17. QED
    BY <1>2, <1>3, <1>4, <1>5, <1>6, <1>7, <1>8, <1>10, <1>11, <1>12, <1>13, <1>14,
       <1>15, <1>16
    DEF Next, World, PanelEdit, MachineChanges, ProbeMoves, Step

(* While no session is lost, and each commits after an exception, a write   *)
(* the control took is in the audit log as soon as nobody executes.         *)
THEOREM WritesAlwaysTraced == ASSUME Attended PROVE Spec => []WritesAreTraced
  <1>1. Init => TracedInv
    BY DEF Init, TracedInv, HoldsNone, Traced
  <1>2. TracedInv /\ TypeOK /\ [Next]_vars => TracedInv'
    BY WriteAssumption, NextTraced
  <1>3. TracedInv /\ TypeOK => WritesAreTraced
    <2> SUFFICES ASSUME TracedInv, TypeOK, \A c \in Caller : pc[c] = "idle",
                        NEW w \in writes
                 PROVE  Reported(audit[w.req])
      BY DEF WritesAreTraced, Reported, Says
    <2>1. w.req \in Request
      BY DEF TypeOK, AtHand
    <2>2. \A c \in Caller : notes[c][w.req] = <<>> /\ pc[c] \notin Unnoted
      BY <2>1 DEF TracedInv, HoldsNone, NoNotes, Unnoted
    <2>3. QED
      BY <2>2 DEF TracedInv, Traced, Reported, Says
  <1>4. QED
    BY <1>1, <1>2, <1>3, TypeCorrect, PTL DEF Spec

(* With one session at a time besides, writes, rows and audit entries never *)
(* contradict one another.                                                  *)
THEOREM RecordsAlwaysAgree ==
  ASSUME Attended, OneAtATime PROVE Spec => []RecordsAgree
  BY WritesAlwaysTraced, AuditAlwaysAgrees, PTL DEF RecordsAgree
=============================================================================
