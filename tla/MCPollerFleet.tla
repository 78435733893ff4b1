--------------------------- MODULE MCPollerFleet ----------------------------
(* Two pids, two machines, one account.                                    *)
EXTENDS PollerFleet, TLC

CONSTANTS p1, p2, m1, m2

TwoPids == {p1, p2}
Machines == {m1, m2}
Units == (m1 :> "run/m1") @@ (m2 :> "run/m2")

OneAccount == {"shop"}
SameAccount == {<<"shop", "shop">>}
=============================================================================
