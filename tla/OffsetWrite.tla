---------------------------- MODULE OffsetWrite -----------------------------
(***************************************************************************)
(* The offset write path (apps/tooling/api/services/offset_write.py and    *)
(* write_safety.py): a request row is staged with the value the register   *)
(* had, and later executed behind the gate, alone or in a batch.  Several  *)
(* transactions run at READ COMMITTED, an UPDATE holds its row until the   *)
(* end; meanwhile the control is edited at its panel and changes mode, and *)
(* an administrator may move the probe register.  The register itself is   *)
(* outside every transaction: a rollback does not undo a write.            *)
(***************************************************************************)
EXTENDS Integers, Sequences, FiniteSets

CONSTANTS
  Caller,        (* sessions that may execute requests                      *)
  Request,       (* ids of offset_write_request rows                        *)
  Register,      (* H_GEOM registers of the machine                         *)
  NoRegister,    (* probe_h_register IS NULL                                *)
  Values,        (* register values, in counts                              *)
  AbsMax,        (* OFFSET_ABS_MAX_MM                                       *)
  Large,         (* LARGE_DIFF_THRESHOLD_MM                                 *)
  Machines,      (* what read_status can report: sets of conditions         *)
  Batches,       (* lists of ids one call may execute                       *)
  Granted,       (* which walls and acknowledgement a call may come with    *)
  Single,        (* is execute_request called directly, for batches of one  *)
  Commits,       (* does the caller commit after an exception               *)
  Faults,        (* the control may reject or misstore a write              *)
  Crashes,       (* a session may be lost at any statement                  *)
  MaxCalls, MaxDisturbances  (* bounds on the run                           *)

ASSUME WriteAssumption ==
  /\ Values \subseteq Int /\ AbsMax \in Int /\ Large \in Int
  /\ NoRegister \notin Register
  /\ \A m \in Machines : m \subseteq {"running", "auto", "estop"}
  /\ {} \in Machines
  /\ Batches \subseteq Seq(Request)
  /\ \A b \in Batches : Len(b) > 0 /\ (Single => Len(b) = 1)
  /\ Granted \subseteq SUBSET {"ask", "entry", "ack"}
  /\ Single \in BOOLEAN /\ Commits \in BOOLEAN
  /\ Faults \in BOOLEAN /\ Crashes \in BOOLEAN
  /\ MaxCalls \in Nat /\ MaxDisturbances \in Nat

VARIABLES
  register,  (* what the control holds                                      *)
  machine,   (* its mode, running and e-stop now                            *)
  probe,     (* machine.probe_h_register                                    *)
  row,       (* committed offset_write_request rows                         *)
  audit,     (* committed offset_write audit rows, per request              *)
  pc, todo, grants, status, live,  (* per caller: where it is, ids left,    *)
             (* walls passed (ask, entry) and acknowledgement, the status   *)
             (* handed in, the value re-read                                *)
  dirty,     (* per caller: its uncommitted row updates, which it has locked *)
  notes,     (* per caller: its uncommitted audit rows                      *)
  calls, disturbances, (* so far                                            *)
  writes,    (* history: every write the control took or misstored          *)
  changed    (* history: what has moved since each caller looked at it      *)

dbVars   == <<row, audit>>
txVars   == <<dirty, notes>>
ctlVars  == <<register, machine, probe>>
callVars == <<todo, grants, status, live>>
vars == <<dbVars, txVars, ctlVars, callVars, pc, calls, disturbances, writes,
          changed>>

Walls == {"ask", "entry", "ack"}
Absent == [outcome |-> "absent", reg |-> NoRegister, intended |-> 0,
           current |-> 0, verified |-> 0]
Clean == [outcome |-> "none", verified |-> 0]
NoUpdates == [r \in Request |-> Clean]
NoNotes == [r \in Request |-> <<>>]

Init ==
  /\ register \in [Register -> Values] /\ machine = {}
  /\ probe \in Register \cup {NoRegister}
  /\ row = [r \in Request |-> Absent]
  /\ audit = NoNotes
  /\ pc = [c \in Caller |-> "idle"]
  /\ todo = [c \in Caller |-> <<>>] /\ grants = [c \in Caller |-> {}]
  /\ status = [c \in Caller |-> {}] /\ live = [c \in Caller |-> 0]
  /\ dirty = [c \in Caller |-> NoUpdates] /\ notes = [c \in Caller |-> NoNotes]
  /\ calls = 0 /\ disturbances = 0
  /\ writes = {} /\ changed = [c \in Caller |-> {}]

InBounds(v) == -AbsMax <= v /\ v <= AbsMax
IsLarge(a, b) == b - a > Large \/ a - b > Large

-----------------------------------------------------------------------------
(* The world around a call.                                                *)

Disturb(what) ==
  /\ disturbances < MaxDisturbances /\ disturbances' = disturbances + 1
  /\ changed' = [c \in Caller |-> changed[c] \cup {what}]
  /\ UNCHANGED <<dbVars, txVars, callVars, pc, calls, writes>>

PanelEdit(g, v) ==
  /\ v # register[g]
  /\ register' = [register EXCEPT ![g] = v]
  /\ Disturb("register") /\ UNCHANGED <<machine, probe>>

MachineChanges(m) ==
  /\ m # machine /\ machine' = m
  /\ Disturb("machine") /\ UNCHANGED <<register, probe>>

\* PATCH /machines: nothing about staged requests is checked.
ProbeMoves(g) ==
  /\ g # probe /\ probe' = g
  /\ Disturb("probe") /\ UNCHANGED <<register, machine>>

\* create_request, one transaction of its own.
CreateRequest(r, g, v) ==
  /\ row[r].outcome = "absent"
  /\ InBounds(v) /\ g # probe
  /\ row' = [row EXCEPT ![r] =
               [outcome |-> "pending", reg |-> g, intended |-> v,
                current |-> register[g], verified |-> 0]]
  /\ UNCHANGED <<audit, txVars, ctlVars, callVars, pc, calls, disturbances,
                 writes, changed>>

-----------------------------------------------------------------------------
(* execute_request and execute_batch.                                      *)

Id(c) == Head(todo[c])
Goto(c, l) == pc' = [pc EXCEPT ![c] = l]

\* What caller c sees of row r: its own update first.
Outcome(c, r) ==
  IF dirty[c][r] # Clean THEN dirty[c][r].outcome ELSE row[r].outcome

\* The request is over: an exception leaves execute_request but stays inside
\* execute_batch.
NextId(c, raised) ==
  IF raised /\ Single
  THEN Goto(c, "raised") /\ todo' = [todo EXCEPT ![c] = <<>>]
  ELSE /\ todo' = [todo EXCEPT ![c] = Tail(@)]
       /\ Goto(c, IF Len(todo[c]) = 1 THEN "commit" ELSE "get")

Begin(c, b, w) ==
  /\ pc[c] = "idle" /\ calls < MaxCalls /\ calls' = calls + 1
  /\ todo' = [todo EXCEPT ![c] = b]
  /\ grants' = [grants EXCEPT ![c] = w]
  /\ status' = [status EXCEPT ![c] = machine]
  /\ changed' = [changed EXCEPT ![c] = {}]
  /\ Goto(c, "get")
  /\ UNCHANGED <<dbVars, txVars, ctlVars, live, disturbances, writes>>

\* NotFound is none of the exceptions execute_batch catches.
NotFound(c) ==
  /\ pc[c] = "get" /\ row[Id(c)].outcome = "absent"
  /\ Goto(c, "raised") /\ todo' = [todo EXCEPT ![c] = <<>>]
  /\ UNCHANGED <<dbVars, txVars, ctlVars, grants, status, live, calls,
                 disturbances, writes, changed>>

AlreadyExecuted(c) ==
  /\ pc[c] = "get" /\ Outcome(c, Id(c)) \in {"success", "failed"}
  /\ NextId(c, TRUE)
  /\ UNCHANGED <<dbVars, txVars, ctlVars, grants, status, live, calls,
                 disturbances, writes, changed>>

\* (Variants: any row will do, a row is executed as often as asked.)
GetPendingAbsent(c) ==
  /\ pc[c] = "get" /\ Outcome(c, Id(c)) \in {"pending", "absent"}
  /\ Goto(c, "gate")
  /\ UNCHANGED <<dbVars, txVars, ctlVars, callVars, calls, disturbances, writes,
                 changed>>
GetPendingAgain(c) ==
  /\ pc[c] = "get" /\ Outcome(c, Id(c)) # "absent"
  /\ Goto(c, "gate")
  /\ UNCHANGED <<dbVars, txVars, ctlVars, callVars, calls, disturbances, writes,
                 changed>>

GetPending(c) ==
  /\ pc[c] = "get" /\ Outcome(c, Id(c)) = "pending"
  /\ Goto(c, "gate")
  /\ UNCHANGED <<dbVars, txVars, ctlVars, callVars, calls, disturbances, writes,
                 changed>>

\* mode_lockout_ok: emergency_stop is not looked at.
ModeLockoutOk(s) == "running" \notin s /\ "auto" \notin s

\* (A variant without the probe lock, trusting the check of create_request.)
AuthorizedUnlocked(c) ==
  ModeLockoutOk(status[c]) /\ {"ask", "entry"} \subseteq grants[c]

\* authorize_write.
Authorized(c) ==
  /\ row[Id(c)].reg # probe
  /\ ModeLockoutOk(status[c])
  /\ {"ask", "entry"} \subseteq grants[c]

\* _audit adds a row to the session.
Note(c, what) ==
  notes' = [notes EXCEPT ![c][Id(c)] = Append(@, what)]

Blocked(c) ==
  /\ pc[c] = "gate" /\ ~Authorized(c)
  /\ Note(c, "blocked")
  /\ NextId(c, TRUE)
  /\ UNCHANGED <<dbVars, dirty, ctlVars, grants, status, live, calls,
                 disturbances, writes, changed>>

Permitted(c) ==
  /\ pc[c] = "gate" /\ Authorized(c)
  /\ changed' = [changed EXCEPT ![c] = @ \ {"probe"}]
  /\ Goto(c, "read")
  /\ UNCHANGED <<dbVars, txVars, ctlVars, callVars, calls, disturbances,
                 writes>>

Drifted(r, v) == v # row[r].current
Implausible(r, v, w) ==
  \/ ~InBounds(row[r].intended)
  \/ IsLarge(v, row[r].intended) /\ "ack" \notin w

ReadLive(c) ==
  /\ pc[c] = "read"
  /\ live' = [live EXCEPT ![c] = register[row[Id(c)].reg]]
  /\ changed' = [changed EXCEPT ![c] = @ \ {"register"}]
  /\ Goto(c, "check")
  /\ UNCHANGED <<dbVars, txVars, ctlVars, todo, grants, status, calls,
                 disturbances, writes>>

Check(c) ==
  /\ pc[c] = "check"
  /\ IF Drifted(Id(c), live[c]) THEN Goto(c, "fail") /\ UNCHANGED todo
     ELSE IF Implausible(Id(c), live[c], grants[c]) THEN NextId(c, TRUE)
     ELSE Goto(c, "write") /\ UNCHANGED todo
  /\ UNCHANGED <<dbVars, txVars, ctlVars, grants, status, live, calls,
                 disturbances, writes, changed>>

\* What the write met at the control, for the properties.
Record(c, v) ==
  LET r == Id(c) IN
  [req |-> r, by |-> c, old |-> register[row[r].reg], stored |-> v,
   grants |-> grants[c], status |-> status[c], machine |-> machine,
   onProbe |-> row[r].reg = probe, changed |-> changed[c]]

WriteTakes(c, v) ==
  /\ pc[c] = "write"
  /\ v # row[Id(c)].intended => Faults
  /\ register' = [register EXCEPT ![row[Id(c)].reg] = v]
  /\ writes' = writes \cup {Record(c, v)}
  /\ changed' = [d \in Caller |->
                   changed[d] \cup (IF d = c THEN {} ELSE {"register"})]
  /\ Goto(c, "verify")
  /\ UNCHANGED <<dbVars, txVars, machine, probe, callVars, calls, disturbances>>

WriteRejected(c) ==
  /\ pc[c] = "write" /\ Faults
  /\ Goto(c, "fail")
  /\ UNCHANGED <<dbVars, txVars, ctlVars, callVars, calls, disturbances, writes,
                 changed>>

\* (A variant that takes the write's return code for proof.)
VerifiedBlindly(c) == TRUE
Verified(c) == register[row[Id(c)].reg] = row[Id(c)].intended

\* (A variant that reports a mismatch and records nothing.)
ReadBackSilent(c) ==
  /\ pc[c] = "verify"
  /\ live' = [live EXCEPT ![c] = register[row[Id(c)].reg]]
  /\ IF Verified(c) THEN Goto(c, "succeed") /\ UNCHANGED todo
     ELSE NextId(c, TRUE)
  /\ UNCHANGED <<dbVars, txVars, ctlVars, grants, status, calls, disturbances,
                 writes, changed>>

ReadBack(c) ==
  /\ pc[c] = "verify"
  /\ live' = [live EXCEPT ![c] = register[row[Id(c)].reg]]
  /\ Goto(c, IF Verified(c) THEN "succeed" ELSE "fail")
  /\ UNCHANGED <<dbVars, txVars, ctlVars, todo, grants, status, calls,
                 disturbances, writes, changed>>

\* The UPDATE by id waits for any other transaction that has updated the row.
Holders(c, r) == {d \in Caller \ {c} : dirty[d][r] # Clean}

Update(c, outcome) ==
  /\ Holders(c, Id(c)) = {}
  /\ dirty' = [dirty EXCEPT ![c][Id(c)] =
                 [outcome |-> outcome, verified |-> live[c]]]

Fail(c) ==
  /\ pc[c] = "fail"
  /\ Update(c, "failed") /\ Note(c, "failed")
  /\ NextId(c, TRUE)
  /\ UNCHANGED <<dbVars, ctlVars, grants, status, live, calls, disturbances,
                 writes, changed>>

Succeed(c) ==
  /\ pc[c] = "succeed"
  /\ Update(c, "success") /\ Note(c, "written")
  /\ NextId(c, FALSE)
  /\ UNCHANGED <<dbVars, ctlVars, grants, status, live, calls, disturbances,
                 writes, changed>>

-----------------------------------------------------------------------------
(* The end of the transaction.                                             *)

\* (A variant whose session is never closed.)
EndCallHolding(c) ==
  /\ Goto(c, "idle")
  /\ todo' = [todo EXCEPT ![c] = <<>>] /\ grants' = [grants EXCEPT ![c] = {}]
  /\ status' = [status EXCEPT ![c] = {}] /\ live' = [live EXCEPT ![c] = 0]
  /\ changed' = [changed EXCEPT ![c] = {}]
  /\ UNCHANGED <<txVars, ctlVars, calls, disturbances, writes>>

EndCall(c) ==
  /\ Goto(c, "idle")
  /\ todo' = [todo EXCEPT ![c] = <<>>] /\ grants' = [grants EXCEPT ![c] = {}]
  /\ status' = [status EXCEPT ![c] = {}] /\ live' = [live EXCEPT ![c] = 0]
  /\ dirty' = [dirty EXCEPT ![c] = NoUpdates]
  /\ notes' = [notes EXCEPT ![c] = NoNotes]
  /\ changed' = [changed EXCEPT ![c] = {}]
  /\ UNCHANGED <<ctlVars, calls, disturbances, writes>>

Commit(c) ==
  /\ row' = [r \in Request |-> IF dirty[c][r] = Clean THEN row[r]
               ELSE [row[r] EXCEPT !.outcome = dirty[c][r].outcome,
                                   !.verified = dirty[c][r].verified]]
  /\ audit' = [r \in Request |-> audit[r] \o notes[c][r]]
  /\ EndCall(c)

Rollback(c) == UNCHANGED dbVars /\ EndCall(c)

Return(c) == pc[c] = "commit" /\ Commit(c)

\* get_session rolls back; the tests catch the exception and commit.
Raise(c) == pc[c] = "raised" /\ IF Commits THEN Commit(c) ELSE Rollback(c)

Waits(c, d) == pc[c] \in {"fail", "succeed"} /\ d \in Holders(c, Id(c))

\* PostgreSQL ends a cycle of waits by aborting one of its transactions.
DeadlockVictim(c) ==
  (\E d \in Caller : Waits(c, d) /\ Waits(d, c)) /\ Rollback(c)

\* A lost connection, a killed process: an exception nobody catches.
Crash(c) == Crashes /\ pc[c] # "idle" /\ Rollback(c)

Step(c) ==
  \/ NotFound(c) \/ AlreadyExecuted(c) \/ GetPending(c) \/ Blocked(c)
  \/ Permitted(c) \/ ReadLive(c) \/ Check(c) \/ WriteRejected(c)
  \/ (\E v \in Values : WriteTakes(c, v))
  \/ ReadBack(c) \/ Fail(c) \/ Succeed(c) \/ Return(c) \/ Raise(c)
  \/ DeadlockVictim(c)

World ==
  \/ \E g \in Register, v \in Values : PanelEdit(g, v)
  \/ \E m \in Machines : MachineChanges(m)
  \/ \E g \in Register \cup {NoRegister} : ProbeMoves(g)
  \/ \E r \in Request, g \in Register, v \in Values : CreateRequest(r, g, v)
  \/ \E c \in Caller, b \in Batches, w \in Granted : Begin(c, b, w)
  \/ \E c \in Caller : Crash(c)

Next == World \/ \E c \in Caller : Step(c)
Spec == Init /\ [][Next]_vars

\* A call that has begun runs to its end: requests are served by threads that
\* are scheduled, and the database answers.
FairSpec == Spec /\ \A c \in Caller : WF_vars(Step(c))

-----------------------------------------------------------------------------
Outcomes == {"success", "failed"}
Notes == {"blocked", "failed", "written"}
Locations == {"idle", "get", "gate", "read", "check", "write", "verify", "fail",
              "succeed", "commit", "raised"}
Counts == Values \cup {0}

Staged == [outcome : Outcomes \cup {"pending"}, reg : Register,
           intended : Counts, current : Counts, verified : Counts]
Updates == [outcome : Outcomes, verified : Counts] \cup {Clean}

\* An id is at hand wherever one is needed, and what is executed, has been
\* updated or was written for exists.
AtHand ==
  /\ \A c \in Caller :
       /\ pc[c] \notin {"idle", "commit", "raised"} => todo[c] # <<>>
       /\ pc[c] \notin {"idle", "commit", "raised", "get"} =>
            row[Id(c)].outcome # "absent"
       /\ \A r \in Request : dirty[c][r] # Clean => row[r].outcome # "absent"
  /\ \A w \in writes :
       /\ w.req \in Request /\ w.old \in Values
       /\ row[w.req].outcome # "absent"

TypeOK ==
  /\ register \in [Register -> Values] /\ machine \in Machines
  /\ probe \in Register \cup {NoRegister}
  /\ row \in [Request -> Staged \cup {Absent}]
  /\ audit \in [Request -> Seq(Notes)]
  /\ pc \in [Caller -> Locations] /\ todo \in [Caller -> Seq(Request)]
  /\ grants \in [Caller -> SUBSET Walls] /\ status \in [Caller -> Machines]
  /\ live \in [Caller -> Counts]
  /\ dirty \in [Caller -> [Request -> Updates]]
  /\ notes \in [Caller -> [Request -> Seq(Notes)]]
  /\ calls \in Nat /\ disturbances \in Nat
  /\ changed \in [Caller -> SUBSET {"register", "machine", "probe"}]
  /\ AtHand

(* The gate is airtight but for its windows: a write reaches the control    *)
(* only with both walls; on the probe register, from a locked-out machine,  *)
(* over a value nobody reviewed or with an unacknowledged jump only if that *)
(* very fact changed between its check and the write.                       *)
GateHolds ==
  \A w \in writes :
    /\ {"ask", "entry"} \subseteq w.grants
    /\ w.onProbe => "probe" \in w.changed
    /\ ~ModeLockoutOk(w.machine) => "machine" \in w.changed
    /\ w.old # row[w.req].current => "register" \in w.changed
    /\ (IsLarge(w.old, row[w.req].intended) /\ "ack" \notin w.grants) =>
         "register" \in w.changed

(* A request recorded as a success was written for, and the control was     *)
(* seen to hold its intended value after that.                              *)
SuccessIsTrue ==
  \A r \in Request : row[r].outcome = "success" =>
    /\ row[r].verified = row[r].intended
    /\ \E w \in writes : w.req = r

(* The request row and the audit log tell the same story: they commit       *)
(* together, whatever else fails.                                           *)
AuditAgrees ==
  \A r \in Request :
    /\ (\E i \in 1..Len(audit[r]) : audit[r][i] = "written")
         <=> row[r].outcome = "success"
    /\ (\E i \in 1..Len(audit[r]) : audit[r][i] = "failed")
         <=> row[r].outcome = "failed"

(* The physical write never goes unrecorded: once nobody executes it any    *)
(* more, every request the control was written for has an audit row that    *)
(* says so, or says that it failed (docs/03-focas-integration.md:146).      *)
WritesAreTraced ==
  \A w \in writes :
    (\A c \in Caller : pc[c] = "idle") =>
      \E i \in 1..Len(audit[w.req]) : audit[w.req][i] \in {"written", "failed"}

(* Writes, rows and audit entries never contradict one another: a write has *)
(* its entry, and an entry the row that it speaks of.                       *)
RecordsAgree == WritesAreTraced /\ AuditAgrees

(* Every call ends, also when two batches lock each other's rows.           *)
CallsEnd == \A c \in Caller : pc[c] # "idle" ~> pc[c] = "idle"
=============================================================================
