--------------------------------- MODULE G10 ---------------------------------
(***************************************************************************)
(* The offset program of services/g10.py: which registers it writes, its   *)
(* blocks, the strict parser that reads them back, and what the control    *)
(* does with each block when an operator runs the program.                 *)
(*                                                                         *)
(* Rows are functions from <<bank, register>> to a value, as in the        *)
(* mirror, in units of 0.0001; a block is a record.                        *)
(***************************************************************************)
EXTENDS Decoders, Dictionaries, Functions

\* L10 to L13.  (Variant: length wear and diameter geometry swapped.)
MillBanksSwapped == <<"h_geom", "d_geom", "h_wear", "d_wear">>
MillBanks == <<"h_geom", "h_wear", "d_geom", "d_wear">>
LatheWear == <<"x_wear", "z_wear", "r_wear">>
LatheGeom == <<"x_geom", "z_geom", "r_geom">>
ClassBanks(class) == IF class = "mill" THEN Range(MillBanks)
                     ELSE Range(LatheWear) \cup Range(LatheGeom) \cup {"tip"}
AllBanks == ClassBanks("mill") \cup ClassBanks("lathe")

\* _UNIT_DECIMALS, as the value of the last decimal place.
UnitGrid(unit) == IF unit = "inch" THEN 1 ELSE 10

\* format_value: rounded half to even on the grid of the unit; an absent bank
\* is zero.
FormatValue(rows, bank, n, unit) ==
  IF <<bank, n>> \notin DOMAIN rows THEN 0
  ELSE LET v == rows[<<bank, n>>]
           grid == UnitGrid(unit)
           low == v \div grid
           rest == v % grid
       IN grid * (IF 2 * rest < grid \/ (2 * rest = grid /\ low % 2 = 0)
                  THEN low ELSE low + 1)

Registers(rows) == {k[2] : k \in {k \in DOMAIN rows : k[1] \in AllBanks}}

RegisterIsEmpty(rows, n) ==
  \A bank \in AllBanks : <<bank, n>> \in DOMAIN rows => rows[<<bank, n>>] = 0

\* select_registers
SelectRegisters(rows, sparse, count) ==
  IF sparse THEN {n \in Registers(rows) : ~RegisterIsEmpty(rows, n)} ELSE 1..count

\* What the geometry line of a lathe adds to its register.
GeometryP == 10000

\* The blocks of one register: L10 to L13 of a mill; the wear line and the
\* geometry line of a lathe, which has the tip.
MillBlocks(rows, n, unit) ==
  [i \in 1..4 |-> [l |-> 9 + i, p |-> n,
                   r |-> FormatValue(rows, MillBanks[i], n, unit)]]

Axes(rows, banks, n, unit) ==
  [i \in 1..3 |-> FormatValue(rows, banks[i], n, unit)]

Tip(rows, n) ==
  IF <<"tip", n>> \in DOMAIN rows THEN rows[<<"tip", n>>] \div Whole ELSE 0

\* (Variant: the geometry line has the number of the wear line.)
LatheBlocksLow(rows, n, unit) ==
  <<[p |-> n, xzr |-> Axes(rows, LatheWear, n, unit)],
    [p |-> n, xzr |-> Axes(rows, LatheGeom, n, unit), q |-> Tip(rows, n)]>>

LatheBlocks(rows, n, unit) ==
  <<[p |-> n, xzr |-> Axes(rows, LatheWear, n, unit)],
    [p |-> GeometryP + n, xzr |-> Axes(rows, LatheGeom, n, unit), q |-> Tip(rows, n)]>>

\* build_g10
BuildG10(rows, class, unit, sparse, count) ==
  LET order == Ascending(SelectRegisters(rows, sparse, count))
      each == IF class = "mill" THEN 4 ELSE 2
      Blocks(n) == IF class = "mill" THEN MillBlocks(rows, n, unit)
                   ELSE LatheBlocks(rows, n, unit)
  IN [i \in 1..(each * Len(order)) |->
        Blocks(order[((i - 1) \div each) + 1])[((i - 1) % each) + 1]]

\* The values of three axes as values of the banks of a register.
Axial(banks, n, xzr) ==
  [k \in {<<banks[i], n>> : i \in 1..3} |-> xzr[CHOOSE i \in 1..3 : banks[i] = k[1]]]

\* parse_g10: what one block says, and the union of all.
ParseBlock(block) ==
  IF "l" \in DOMAIN block THEN With(Empty, <<MillBanks[block.l - 9], block.p>>, block.r)
  ELSE IF block.p > GeometryP
  THEN LET n == block.p - GeometryP
       IN With(Axial(LatheGeom, n, block.xzr), <<"tip", n>>, block.q * Whole)
  ELSE Axial(LatheWear, block.p, block.xzr)

ParseG10(blocks) == Overlaid([i \in DOMAIN blocks |-> ParseBlock(blocks[i])])

\* What a block writes at the panel: the meaning FANUC gives to L10 to L13, and
\* on a lathe to P, beyond GeometryP the geometry.
PanelWrites(block) ==
  IF "l" \in DOMAIN block
  THEN With(Empty,
            <<CASE block.l = 10 -> "h_geom" [] block.l = 11 -> "h_wear"
                [] block.l = 12 -> "d_geom" [] block.l = 13 -> "d_wear",
              block.p>>, block.r)
  ELSE LET n == block.p % GeometryP
           axes == Axial(IF block.p > GeometryP THEN <<"x_geom", "z_geom", "r_geom">>
                         ELSE <<"x_wear", "z_wear", "r_wear">>, n, block.xzr)
       IN IF "q" \in DOMAIN block THEN With(axes, <<"tip", n>>, block.q * Whole)
          ELSE axes
=============================================================================
