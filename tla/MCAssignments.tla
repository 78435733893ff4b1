---------------------------- MODULE MCAssignments ----------------------------
(* Two sessions over one machine, whose probe may be moved, and one tool. *)
EXTENDS Assignments, TLC

CONSTANTS c1, c2, a1, a2, t1, m1, none

Reg(t, h, d) == [s \in Slot |-> CASE s = "t" -> t [] s = "h" -> h [] s = "d" -> d]
Row(e, c, t, h) == [enabled |-> e, tsc |-> c, probe |-> [s \in {"t", "h"} |->
                                                         IF s = "t" THEN t ELSE h]]

\* The probe at T3 with an H register of its own, moved to H1 or without.
Probes == {Row(TRUE, TRUE, 3, 3), Row(TRUE, TRUE, 3, 1), Row(FALSE, FALSE, none, none)}

TwoPlaces == {Reg(1, 1, none), Reg(2, 2, 1)}
SomeMoves == {<<>>, "t" :> 2, "d" :> 1, "h" :> 3, ("d" :> none) @@ ("h" :> none)}

Symmetry == Permutations({c1, c2}) \cup Permutations({a1, a2})
=============================================================================
