--------------------------- MODULE AuditedMirror ----------------------------
(***************************************************************************)
(* What the FOCAS mirror and its audit log promise together (R3 and R4 of  *)
(* the poller): a control is observed now and then, only in part; each     *)
(* observation at once replaces what was known of the items it covers and  *)
(* appends, for each of them that moved, one row saying from what to what. *)
(* Nothing else ever touches a row or the log, and the log only grows.     *)
(***************************************************************************)
EXTENDS Sequences

CONSTANTS Key, Value, Nothing, Unlogged

VARIABLES
  row,  (* what is known of each item, Nothing before it is first observed *)
  log   (* per item, the changes recorded                                  *)

Init ==
  /\ row = [k \in Key |-> Nothing]
  /\ log = [k \in Key |-> <<>>]

\* obs[k] is Nothing where the observation does not cover k.
Moved(obs) == {k \in Key : obs[k] \notin {Nothing, row[k]}}

Observe(obs) ==
  /\ row' = [k \in Key |-> IF obs[k] = Nothing THEN row[k] ELSE obs[k]]
  /\ log' = [k \in Key |->
       IF k \in Moved(obs) \ Unlogged
       THEN Append(log[k], [before |-> row[k], after |-> obs[k]]) ELSE log[k]]

Next == \E obs \in [Key -> Value \cup {Nothing}] : Observe(obs)
Spec == Init /\ [][Next]_<<row, log>>
=============================================================================
