--------------------------- MODULE MCOffsetWrite ----------------------------
(* A control with length registers that hold a few counts, two sessions and *)
(* two staged requests.                                                     *)
EXTENDS OffsetWrite, TLC

CONSTANTS c1, c2, r1, r2, none

\* One request alone; two, or one of them twice; two in either order.
One == {<<r1>>}
Twice == {<<r1, r2>>, <<r1, r1>>}
Crossed == {<<r1, r2>>, <<r2, r1>>}

BothWalls == {{"ask", "entry"}}
SomeGrants == {{"ask"}, {"ask", "entry"}, {"ask", "entry", "ack"}}

Calm == {{}}
AnyMode == {{}, {"running"}, {"auto"}}
=============================================================================
