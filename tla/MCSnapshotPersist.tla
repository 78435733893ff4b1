------------------------- MODULE MCSnapshotPersist -------------------------
(* Small machines for SnapshotPersist: one for the attribution of length    *)
(* offsets, one for the pots and the status row.                            *)
EXTENDS SnapshotPersist, TLC

CONSTANTS h1, w1, m1, p1, p2, p3, st, v1, v2, v3, own, empty, none

Lengths == {v1, v2, v3}
AnyLength == Permutations(Lengths)

\* A length register and a skip variable, the register read first.
OffsetKeys == {h1, m1}
OffsetOrder == <<h1, m1>>

\* The same with an item between them that is neither, and may be missed.
MixedKeys == {h1, w1, m1}
MixedOrder == <<h1, w1, m1>>

\* The status row and three pots.
PotKeys == {p1, p2, p3, st}
PotOrder == <<st, p1, p2, p3>>
Identities == {own, empty, v1, v2}
AnyIdentity == Permutations({v1, v2})
=============================================================================
