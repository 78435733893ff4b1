-------------------------- MODULE MachineViewsProofs --------------------------
(***************************************************************************)
(* Theorems about MachineViews for every content and size of the controls, *)
(* of what may change in them, of the programs and of the bounds.          *)
(***************************************************************************)
EXTENDS MachineViews, FiniteSetTheorems, SequenceTheorems, TLAPS

-----------------------------------------------------------------------------
(* Dictionaries and orders.                                                 *)

\* A set of naturals has a least element.
LEMMA LeastOf ==
  ASSUME NEW N \in SUBSET Nat, N # {}
  PROVE  \E m \in N : \A k \in N : m <= k
  <1> DEFINE R == {pair \in Nat \X Nat : pair[1] < pair[2]}
  <1>1. IsWellFoundedOn(R, Nat)
    BY NatLessThanWellFounded DEF OpToRel
  <1>2. PICK m \in N : \A k \in N : ~(<<k, m>> \in R)
    <2> HIDE DEF R
    <2> QED
      BY <1>1, WFMin
  <1>3. \A k \in N : ~(k < m)
    BY <1>2
  <1>4. QED
    BY <1>3

\* A set of naturals with a bound has a greatest element.
LEMMA GreatestOf ==
  ASSUME NEW b \in Nat, NEW N \in SUBSET (1..b), N # {}
  PROVE  \E m \in N : \A k \in N : k <= m
  <1> DEFINE D == {b - k : k \in N}
  <1>1. D \in SUBSET Nat /\ D # {}
    <2>1. \A k \in N : b - k \in Nat
      OBVIOUS
    <2>2. QED
      BY <2>1
  <1>2. PICK d \in D : \A e \in D : d <= e
    <2> HIDE DEF D
    <2> QED
      BY <1>1, LeastOf
  <1>3. PICK m \in N : d = b - m
    OBVIOUS
  <1>4. ASSUME NEW k \in N PROVE k <= m
    <2>1. d <= b - k
      BY <1>2
    <2>2. QED
      BY <2>1, <1>3
  <1>5. QED
    BY <1>4

\* A dictionary of one key.
LEMMA WithOne ==
  ASSUME NEW key, NEW value
  PROVE  /\ DOMAIN With(Empty, key, value) = {key}
         /\ With(Empty, key, value)[key] = value
  BY DEF With, Empty

\* If dictionaries agree with F, then so does what they leave.
LEMMA OverlaidOf ==
  ASSUME NEW parts, \E m \in Nat : DOMAIN parts = 1..m, NEW F,
         \A i \in DOMAIN parts : \A k \in DOMAIN parts[i] : parts[i][k] = F[k]
  PROVE  /\ DOMAIN Overlaid(parts) = UNION {DOMAIN parts[i] : i \in DOMAIN parts}
         /\ \A k \in DOMAIN Overlaid(parts) : Overlaid(parts)[k] = F[k]
  <1>1. DOMAIN Overlaid(parts) = UNION {DOMAIN parts[i] : i \in DOMAIN parts}
    BY DEF Overlaid
  <1>2. ASSUME NEW k \in DOMAIN Overlaid(parts) PROVE Overlaid(parts)[k] = F[k]
    <2> DEFINE N == {i \in DOMAIN parts : k \in DOMAIN parts[i]}
               Last(i) == /\ k \in DOMAIN parts[i]
                          /\ \A j \in DOMAIN parts : k \in DOMAIN parts[j] => j <= i
    <2>1. PICK m \in Nat : DOMAIN parts = 1..m
      OBVIOUS
    <2>2. N \in SUBSET (1..m) /\ N # {}
      BY <1>1, <1>2, <2>1
    <2>3. \E l \in N : \A i \in N : i <= l
      BY <2>2, GreatestOf
    <2>4. \E i \in DOMAIN parts : Last(i)
      BY <2>3
    <2>5. LastWith(parts, k) = CHOOSE i \in DOMAIN parts : Last(i)
      BY DEF LastWith
    <2>6. LastWith(parts, k) \in DOMAIN parts /\ k \in DOMAIN parts[LastWith(parts, k)]
      <3> HIDE DEF Last
      <3>1. LastWith(parts, k) \in DOMAIN parts /\ Last(LastWith(parts, k))
        BY <2>4, <2>5
      <3>2. QED
        BY <3>1 DEF Last
    <2>7. Overlaid(parts)[k] = parts[LastWith(parts, k)][k]
      BY <1>1, <1>2 DEF Overlaid
    <2>8. QED
      BY <2>6, <2>7
  <1>3. QED
    BY <1>1, <1>2

\* Fewer are below a smaller number.
LEMMA BelowGrows ==
  ASSUME NEW S \in SUBSET Nat, IsFiniteSet(S), NEW n \in S, NEW p \in S, n < p
  PROVE  /\ Below(S, n) \in Nat /\ Below(S, p) \in Nat
         /\ Below(S, n) < Below(S, p)
  <1> DEFINE U(x) == {m \in S : m < x}
  <1>1. \A x \in S : IsFiniteSet(U(x)) /\ Cardinality(U(x)) \in Nat
    <2>1. \A x \in S : U(x) \in SUBSET S
      OBVIOUS
    <2> HIDE DEF U
    <2> QED
      BY <2>1, FS_Subset, FS_CardinalityType
  <1>2. U(n) \cup {n} \in SUBSET U(p) /\ n \notin U(n)
    <2>1. \A m \in S : m < n => m < p
      OBVIOUS
    <2>2. ~(n < n)
      OBVIOUS
    <2>3. QED
      BY <2>1, <2>2
  <1>3. Cardinality(U(n) \cup {n}) = Cardinality(U(n)) + 1
    <2> HIDE DEF U
    <2> QED
      BY <1>1, <1>2, FS_AddElement
  <1>4. Cardinality(U(n) \cup {n}) <= Cardinality(U(p))
    <2> HIDE DEF U
    <2> QED
      BY <1>1, <1>2, FS_Subset
  <1>5. Below(S, n) = Cardinality(U(n)) /\ Below(S, p) = Cardinality(U(p))
    BY DEF Below
  <1> HIDE DEF U
  <1>6. QED
    BY <1>1, <1>3, <1>4, <1>5

\* Everything below a number of a set, and the number, are in the set.
LEMMA BelowType ==
  ASSUME NEW S \in SUBSET Nat, IsFiniteSet(S), NEW n \in S
  PROVE  Below(S, n) \in 0..Cardinality(S) - 1
  <1> DEFINE U == {m \in S : m < n}
  <1>1. U \in SUBSET (S \ {n})
    OBVIOUS
  <1> HIDE DEF U
  <1>2. IsFiniteSet(S \ {n}) /\ Cardinality(S \ {n}) = Cardinality(S) - 1
    BY FS_RemoveElement
  <1>3. IsFiniteSet(U) /\ Cardinality(U) <= Cardinality(S \ {n})
    BY <1>1, <1>2, FS_Subset
  <1>4. Cardinality(U) \in Nat /\ Cardinality(S) \in Nat
    BY <1>3, FS_CardinalityType
  <1>5. Below(S, n) = Cardinality(U)
    BY DEF Below, U
  <1>6. QED
    BY <1>2, <1>3, <1>4, <1>5

\* sorted() lists the numbers of a set, all of them.
LEMMA AscendingOf ==
  ASSUME NEW S \in SUBSET Nat, IsFiniteSet(S)
  PROVE  /\ Cardinality(S) \in Nat
         /\ Ascending(S) \in Seq(S) /\ Len(Ascending(S)) = Cardinality(S)
         /\ \A n \in S : \E i \in 1..Cardinality(S) : Ascending(S)[i] = n
  <1> DEFINE c == Cardinality(S)
             rank == [n \in S |-> Below(S, n) + 1]
  <1>1. c \in Nat
    BY FS_CardinalityType
  <1>2. \A n \in S : Below(S, n) \in 0..c - 1
    BY BelowType
  <1>3. \A n, p \in S : Below(S, n) = Below(S, p) => n = p
    <2> SUFFICES ASSUME NEW n \in S, NEW p \in S, n # p
                 PROVE  Below(S, n) # Below(S, p)
      OBVIOUS
    <2>1. CASE n < p
      BY <2>1, BelowGrows
    <2>2. CASE p < n
      BY <2>2, BelowGrows
    <2>3. QED
      BY <2>1, <2>2
  <1>4. rank \in Injection(S, 1..c)
    BY <1>1, <1>2, <1>3 DEF Injection, IsInjective
  <1>5. IsFiniteSet(1..c) /\ Cardinality(1..c) = c
    BY <1>1, FS_Interval
  <1>6. rank \in Surjection(S, 1..c)
    <2> HIDE DEF rank
    <2> QED
      BY <1>4, <1>5, FS_Injection
  <1>7. \A i \in 1..c : \E n \in S : Below(S, n) = i - 1
    <2> TAKE i \in 1..c
    <2>1. PICK n \in S : rank[n] = i
      BY <1>6 DEF Surjection
    <2>2. QED
      BY <2>1, <1>2
  <1>8. Ascending(S) = [i \in 1..c |-> CHOOSE n \in S : Below(S, n) = i - 1]
    BY DEF Ascending
  <1>9. \A i \in 1..c : /\ Ascending(S)[i] \in S
                        /\ Below(S, Ascending(S)[i]) = i - 1
    <2> TAKE i \in 1..c
    <2>1. Ascending(S)[i] = CHOOSE n \in S : Below(S, n) = i - 1
      BY <1>8
    <2>2. QED
      BY <2>1, <1>7
  <1>10. Ascending(S) \in Seq(S) /\ Len(Ascending(S)) = c
    BY <1>1, <1>8, <1>9, IsASeq
  <1>11. ASSUME NEW n \in S PROVE \E i \in 1..c : Ascending(S)[i] = n
    <2>1. Below(S, n) + 1 \in 1..c
      BY <1>1, <1>2
    <2>2. /\ Ascending(S)[Below(S, n) + 1] \in S
          /\ Below(S, Ascending(S)[Below(S, n) + 1]) = (Below(S, n) + 1) - 1
      BY <2>1, <1>9
    <2>3. (Below(S, n) + 1) - 1 = Below(S, n)
      BY <1>2
    <2>4. Ascending(S)[Below(S, n) + 1] = n
      BY <2>2, <2>3, <1>3
    <2>5. QED
      BY <2>1, <2>4
  <1>12. QED
    BY <1>1, <1>10, <1>11

-----------------------------------------------------------------------------
(* The offset program.                                                      *)

(* What a program says of a datum: what the rows have, or zero.            *)
Said(rows, k) == IF k \in DOMAIN rows THEN rows[k] ELSE 0

(* Rows of a control with at most b registers.                             *)
AreRows(rows, b) ==
  \A k \in DOMAIN rows : k[1] \in AllBanks =>
    /\ k = <<k[1], k[2]>> /\ k[2] \in 1..b /\ rows[k] \in Int
    /\ k[1] = "tip" => \E code \in Int : rows[k] = code * Whole

Classes == {"mill", "lathe"}

(* The blocks of a register, how many they are, and the banks of each.     *)
Each(class) == IF class = "mill" THEN 4 ELSE 2
Parts(class) == 1..Each(class)

BlocksOf(rows, class, n) ==
  IF class = "mill" THEN MillBlocks(rows, n, "inch") ELSE LatheBlocks(rows, n, "inch")

BanksIn(class, j) ==
  IF class = "mill" THEN {MillBanks[j]}
  ELSE IF j = 1 THEN Range(LatheWear) ELSE Range(LatheGeom) \cup {"tip"}

(* A dictionary says of a register what the rows have in the banks of a    *)
(* block, and nothing else.                                                *)
Says(d, rows, class, n, j) ==
  /\ DOMAIN d = BanksIn(class, j) \X {n}
  /\ \A bank \in BanksIn(class, j) : d[<<bank, n>>] = Said(rows, <<bank, n>>)

\* The banks of either class, by name.
LEMMA BankNames ==
  /\ ClassBanks("mill") = {"h_geom", "h_wear", "d_geom", "d_wear"}
  /\ ClassBanks("lathe") = {"x_wear", "z_wear", "r_wear", "x_geom", "z_geom", "r_geom", "tip"}
  /\ Range(LatheWear) = {"x_wear", "z_wear", "r_wear"}
  /\ Range(LatheGeom) = {"x_geom", "z_geom", "r_geom"}
  BY DEF ClassBanks, Range, MillBanks, LatheWear, LatheGeom

\* The blocks of a register have all its banks.
LEMMA BanksInClass ==
  ASSUME NEW class \in Classes
  PROVE  /\ \A j \in Parts(class) : BanksIn(class, j) \subseteq ClassBanks(class)
         /\ \A bank \in ClassBanks(class) : \E j \in Parts(class) : bank \in BanksIn(class, j)
  BY BankNames DEF Classes, Parts, Each, BanksIn, MillBanks

\* In inches a value is printed to its last digit.
LEMMA FormatInch ==
  ASSUME NEW rows, NEW bank, NEW n,
         <<bank, n>> \in DOMAIN rows => rows[<<bank, n>>] \in Int
  PROVE  FormatValue(rows, bank, n, "inch") = Said(rows, <<bank, n>>)
  BY DEF FormatValue, UnitGrid, Said

\* Three axes are three banks.
LEMMA AxialOf ==
  ASSUME NEW banks, NEW n, NEW xzr,
         \A i, j \in 1..3 : banks[i] = banks[j] => i = j
  PROVE  /\ DOMAIN Axial(banks, n, xzr) = {banks[i] : i \in 1..3} \X {n}
         /\ \A i \in 1..3 : Axial(banks, n, xzr)[<<banks[i], n>>] = xzr[i]
  <1>1. DOMAIN Axial(banks, n, xzr) = {<<banks[i], n>> : i \in 1..3}
    BY DEF Axial
  <1>2. ASSUME NEW i \in 1..3 PROVE Axial(banks, n, xzr)[<<banks[i], n>>] = xzr[i]
    <2>1. Axial(banks, n, xzr)[<<banks[i], n>>]
            = xzr[CHOOSE j \in 1..3 : banks[j] = <<banks[i], n>>[1]]
      BY DEF Axial
    <2>2. (CHOOSE j \in 1..3 : banks[j] = banks[i]) = i
      OBVIOUS
    <2>3. QED
      BY <2>1, <2>2
  <1>3. QED
    BY <1>1, <1>2

\* The control and the parser read a block as it was meant.
LEMMA BlockSays ==
  ASSUME NEW class \in Classes, NEW rows, NEW b, AreRows(rows, b),
         NEW n \in 1..RegisterLimit, NEW j \in Parts(class)
  PROVE  /\ Says(ParseBlock(BlocksOf(rows, class, n)[j]), rows, class, n, j)
         /\ Says(PanelWrites(BlocksOf(rows, class, n)[j]), rows, class, n, j)
  <1>1. \A bank \in AllBanks : FormatValue(rows, bank, n, "inch") = Said(rows, <<bank, n>>)
    BY FormatInch DEF AreRows
  <1>2. CASE class = "mill"
    <2> DEFINE block == MillBlocks(rows, n, "inch")[j]
               key == <<MillBanks[j], n>>
    <2>1. j \in 1..4 /\ MillBanks[j] \in AllBanks
      BY <1>2, BankNames DEF Parts, Each, MillBanks, AllBanks
    <2>2. block = [l |-> 9 + j, p |-> n, r |-> Said(rows, key)]
      BY <1>1, <2>1 DEF MillBlocks
    <2>3. ParseBlock(block) = With(Empty, <<MillBanks[(9 + j) - 9], n>>, Said(rows, key))
      BY <2>2 DEF ParseBlock
    <2>4. ParseBlock(block) = With(Empty, key, Said(rows, key))
      BY <2>1, <2>3
    <2>5. PanelWrites(block) = With(Empty, key, Said(rows, key))
      <3>1. "l" \in DOMAIN block /\ block.l = 9 + j /\ block.p = n /\ block.r = Said(rows, key)
        BY <2>2
      <3> HIDE DEF block
      <3>2. PanelWrites(block) =
              With(Empty, <<CASE block.l = 10 -> "h_geom" [] block.l = 11 -> "h_wear"
                              [] block.l = 12 -> "d_geom" [] block.l = 13 -> "d_wear",
                            block.p>>, block.r)
        BY <3>1 DEF PanelWrites
      <3>3. (CASE block.l = 10 -> "h_geom" [] block.l = 11 -> "h_wear"
               [] block.l = 12 -> "d_geom" [] block.l = 13 -> "d_wear") = MillBanks[j]
        BY <2>1, <3>1 DEF MillBanks
      <3>4. QED
        BY <3>1, <3>2, <3>3
    <2>6. Says(With(Empty, key, Said(rows, key)), rows, class, n, j)
      <3>1. BanksIn(class, j) = {MillBanks[j]}
        BY <1>2 DEF BanksIn
      <3> DEFINE value == Said(rows, key)
      <3> HIDE DEF key, value
      <3>2. DOMAIN With(Empty, key, value) = {key}
        BY WithOne
      <3>3. With(Empty, key, value)[key] = value
        BY WithOne
      <3> USE DEF key, value
      <3>4. QED
        BY <3>1, <3>2, <3>3 DEF Says
    <2>7. QED
      BY <1>2, <2>4, <2>5, <2>6 DEF BlocksOf
  <1>3. ASSUME NEW banks \in {LatheWear, LatheGeom}
        PROVE  LET d == Axial(banks, n, Axes(rows, banks, n, "inch"))
               IN /\ DOMAIN d = Range(banks) \X {n}
                  /\ \A bank \in Range(banks) : d[<<bank, n>>] = Said(rows, <<bank, n>>)
    <2> DEFINE d == Axial(banks, n, Axes(rows, banks, n, "inch"))
               xzr == Axes(rows, banks, n, "inch")
    <2>1. \A i, k \in 1..3 : banks[i] = banks[k] => i = k
      BY DEF LatheWear, LatheGeom
    <2>2. Range(banks) = {banks[i] : i \in 1..3} /\ Range(banks) \subseteq AllBanks
      BY BankNames DEF LatheWear, LatheGeom, AllBanks
    <2>3. \A i \in 1..3 : Axes(rows, banks, n, "inch")[i] = Said(rows, <<banks[i], n>>)
      BY <1>1, <2>2 DEF Axes
    <2>4. /\ DOMAIN d = {banks[i] : i \in 1..3} \X {n}
          /\ \A i \in 1..3 : d[<<banks[i], n>>] = Axes(rows, banks, n, "inch")[i]
      <3> HIDE DEF xzr
      <3> QED
        BY <2>1, AxialOf
    <2>5. QED
      BY <2>2, <2>3, <2>4
  <1>n. /\ ~(n > GeometryP) /\ n % GeometryP = n
        /\ (GeometryP + n) - GeometryP = n /\ (GeometryP + n) % GeometryP = n
        /\ GeometryP + n > GeometryP
    BY DEF RegisterLimit, GeometryP
  <1>4. CASE class = "lathe" /\ j = 1
    <2> DEFINE block == LatheBlocks(rows, n, "inch")[j]
               d == Axial(LatheWear, n, Axes(rows, LatheWear, n, "inch"))
    <2>1. block = [p |-> n, xzr |-> Axes(rows, LatheWear, n, "inch")]
      BY <1>4 DEF LatheBlocks
    <2>2. /\ "l" \notin DOMAIN block /\ "q" \notin DOMAIN block
          /\ block.p = n /\ block.xzr = Axes(rows, LatheWear, n, "inch")
      BY <2>1
    <2>3. ParseBlock(block) = d
      <3> HIDE DEF block
      <3> QED
        BY <2>2, <1>n DEF ParseBlock
    <2>4. PanelWrites(block) = d
      <3> HIDE DEF block
      <3> QED
        BY <2>2, <1>n DEF PanelWrites, LatheWear
    <2>5. Says(d, rows, class, n, j)
      BY <1>3, <1>4 DEF Says, BanksIn
    <2>6. QED
      BY <1>4, <2>3, <2>4, <2>5 DEF BlocksOf
  <1>5. CASE class = "lathe" /\ j = 2
    <2> DEFINE block == LatheBlocks(rows, n, "inch")[j]
               axes == Axial(LatheGeom, n, Axes(rows, LatheGeom, n, "inch"))
               d == With(axes, <<"tip", n>>, Tip(rows, n) * Whole)
    <2>1. block = [p |-> GeometryP + n, xzr |-> Axes(rows, LatheGeom, n, "inch"), q |-> Tip(rows, n)]
      BY <1>5 DEF LatheBlocks
    <2>3. ParseBlock(block) = d
      BY <2>1, <1>n DEF ParseBlock
    <2>4. PanelWrites(block) = d
      BY <2>1, <1>n DEF PanelWrites, LatheGeom
    <2>5. Tip(rows, n) * Whole = Said(rows, <<"tip", n>>)
      <3>1. CASE <<"tip", n>> \in DOMAIN rows
        <4>1. "tip" \in AllBanks
          BY BankNames DEF AllBanks
        <4>2. PICK code \in Int : rows[<<"tip", n>>] = code * Whole
          BY <3>1, <4>1 DEF AreRows
        <4>3. (code * Whole) \div Whole = code
          BY DEF Whole
        <4>4. QED
          BY <3>1, <4>2, <4>3 DEF Tip, Said
      <3>2. QED
        BY <3>1 DEF Tip, Said, Whole
    <2>6. Says(d, rows, class, n, j)
      <3>1. /\ DOMAIN axes = Range(LatheGeom) \X {n}
            /\ \A bank \in Range(LatheGeom) : axes[<<bank, n>>] = Said(rows, <<bank, n>>)
        BY <1>3
      <3>2. BanksIn(class, j) = Range(LatheGeom) \cup {"tip"} /\ "tip" \notin Range(LatheGeom)
        BY <1>5, BankNames DEF BanksIn
      <3>3. ASSUME NEW value, NEW tip, tip = <<"tip", n>>
            PROVE  /\ DOMAIN With(axes, tip, value) = (Range(LatheGeom) \cup {"tip"}) \X {n}
                   /\ With(axes, tip, value)[tip] = value
                   /\ \A bank \in Range(LatheGeom) :
                        With(axes, tip, value)[<<bank, n>>] = axes[<<bank, n>>]
        <4> HIDE DEF axes
        <4>1. DOMAIN With(axes, tip, value) = DOMAIN axes \cup {tip}
          BY DEF With
        <4>2. \A k \in DOMAIN axes \cup {tip} :
                With(axes, tip, value)[k] = IF k = tip THEN value ELSE axes[k]
          BY DEF With
        <4>3. \A bank \in Range(LatheGeom) :
                <<bank, n>> \in DOMAIN axes /\ <<bank, n>> # tip
          BY <3>1, <3>2, <3>3
        <4>4. DOMAIN With(axes, tip, value) = (Range(LatheGeom) \cup {"tip"}) \X {n}
          BY <3>1, <3>3, <4>1
        <4>5. QED
          BY <4>2, <4>3, <4>4
      <3>4. QED
        BY <2>5, <3>1, <3>2, <3>3 DEF Says
    <2>7. QED
      BY <1>5, <2>3, <2>4, <2>6 DEF BlocksOf
  <1>6. QED
    BY <1>2, <1>4, <1>5 DEF Classes, Parts, Each

\* Numbering the items of pages of n items each.
LEMMA PageOf ==
  ASSUME NEW use \in Nat, NEW n \in Nat \ {0}, NEW i \in 1..(use * n)
  PROVE  /\ ((i - 1) \div n) + 1 \in 1..use
         /\ ((i - 1) % n) + 1 \in 1..n
  <1> DEFINE q == (i - 1) \div n
             r == (i - 1) % n
  <1>1. q \in Int /\ r \in 0..n - 1 /\ i - 1 = q * n + r /\ q >= 0
    <2>1. i - 1 \in Nat /\ use * n \in Nat
      OBVIOUS
    <2>2. QED
      BY <2>1
  <1>2. q < use
    <2>1. SUFFICES ASSUME q >= use PROVE FALSE
      BY <1>1
    <2>2. q * n >= use * n
      <3> HIDE DEF q
      <3> QED
        BY <1>1, <2>1
    <2>3. i <= use * n
      OBVIOUS
    <2> HIDE DEF q, r
    <2>4. q * n \in Nat /\ use * n \in Nat
      BY <1>1
    <2>5. QED
      BY <1>1, <2>2, <2>3, <2>4
  <1> HIDE DEF q, r
  <1>3. q + 1 \in 1..use /\ r + 1 \in 1..n
    BY <1>1, <1>2
  <1>4. QED
    BY <1>3 DEF q, r

(* A program of the blocks of some registers, all of them.                 *)
HasBlocks(program, rows, class, S) ==
  /\ \E m \in Nat : DOMAIN program = 1..m
  /\ \A i \in DOMAIN program : \E n \in S, j \in Parts(class) :
       program[i] = BlocksOf(rows, class, n)[j]
  /\ \A n \in S, j \in Parts(class) : \E i \in DOMAIN program :
       program[i] = BlocksOf(rows, class, n)[j]

\* A program has the blocks of the registers it is built for, and no others.
LEMMA BlocksOfProgram ==
  ASSUME NEW class \in Classes, NEW rows, NEW sparse, NEW count, NEW S,
         S = SelectRegisters(rows, sparse, count), S \in SUBSET Nat, IsFiniteSet(S)
  PROVE  HasBlocks(BuildG10(rows, class, "inch", sparse, count), rows, class, S)
  <1> DEFINE order == Ascending(S)
             len == Len(order)
             each == Each(class)
             m == each * len
             program == BuildG10(rows, class, "inch", sparse, count)
             Register(i) == order[((i - 1) \div each) + 1]
             Part(i) == ((i - 1) % each) + 1
  <1>1. order \in Seq(S) /\ len \in Nat /\ \A n \in S : \E k \in 1..len : order[k] = n
    BY AscendingOf
  <1>2. each \in {2, 4} /\ Parts(class) = 1..each /\ m \in Nat
    BY <1>1 DEF Parts, Each
  <1>3. program = [i \in 1..m |-> BlocksOf(rows, class, Register(i))[Part(i)]]
    BY DEF BuildG10, BlocksOf, Each
  <1>4. ASSUME NEW i \in 1..m
        PROVE  \E n \in S, j \in Parts(class) : program[i] = BlocksOf(rows, class, n)[j]
    <2>1. ((i - 1) \div each) + 1 \in 1..len /\ Part(i) \in 1..each
      <3> HIDE DEF order, len, each
      <3>1. m = len * each
        BY <1>1, <1>2
      <3>2. QED
        BY <1>1, <1>2, <3>1, PageOf
    <2>2. Register(i) \in S
      <3> HIDE DEF each
      <3> QED
        BY <1>1, <2>1
    <2>3. QED
      BY <1>2, <1>3, <2>1, <2>2
  <1>5. ASSUME NEW n \in S, NEW j \in Parts(class)
        PROVE  \E i \in 1..m : program[i] = BlocksOf(rows, class, n)[j]
    <2>1. PICK k \in 1..len : order[k] = n
      BY <1>1
    <2> DEFINE i == each * (k - 1) + j
    <2>2. i \in 1..m /\ ((i - 1) \div each) + 1 = k /\ ((i - 1) % each) + 1 = j
      <3>1. ASSUME NEW e \in {2, 4}, j \in 1..e
            PROVE  LET x == e * (k - 1) + j
                   IN /\ x \in 1..(e * len)
                      /\ ((x - 1) \div e) + 1 = k /\ ((x - 1) % e) + 1 = j
        <4> HIDE DEF order, len
        <4>1. CASE e = 2
          BY <1>1, <3>1, <4>1
        <4>2. CASE e = 4
          <5>1. \A a \in Nat, b \in 1..4 :
                  (4 * a + b - 1) \div 4 = a /\ (4 * a + b - 1) % 4 = b - 1
            OBVIOUS
          <5>2. k - 1 \in Nat /\ j \in 1..4 /\ (k - 1) + 1 = k /\ (j - 1) + 1 = j
            BY <1>1, <3>1, <4>2
          <5>3. 4 * (k - 1) + j \in 1..(4 * len)
            BY <1>1, <3>1, <4>2
          <5>4. QED
            BY <4>2, <5>1, <5>2, <5>3
        <4>3. QED
          BY <4>1, <4>2
      <3> HIDE DEF order, len
      <3>2. QED
        BY <1>2, <3>1
    <2>3. program[i] = BlocksOf(rows, class, order[k])[j]
      BY <1>3, <2>2
    <2>4. QED
      BY <2>1, <2>2, <2>3
  <1>6. DOMAIN program = 1..m
    BY <1>3
  <1> HIDE DEF m, program
  <1>7. HasBlocks(program, rows, class, S)
    <2>1. \E k \in Nat : DOMAIN program = 1..k
      BY <1>2, <1>6
    <2>2. \A i \in DOMAIN program : \E n \in S, j \in Parts(class) :
            program[i] = BlocksOf(rows, class, n)[j]
      BY <1>4, <1>6
    <2>3. \A n \in S, j \in Parts(class) : \E i \in DOMAIN program :
            program[i] = BlocksOf(rows, class, n)[j]
      BY <1>5, <1>6
    <2>4. QED
      BY <2>1, <2>2, <2>3 DEF HasBlocks
  <1>8. QED
    BY <1>7 DEF program

(* Dictionaries of the blocks of some registers, all of them.              *)
AreBlocks(parts, rows, class, S) ==
  /\ \E m \in Nat : DOMAIN parts = 1..m
  /\ \A i \in DOMAIN parts : \E n \in S, j \in Parts(class) :
       Says(parts[i], rows, class, n, j)
  /\ \A n \in S, j \in Parts(class) : \E i \in DOMAIN parts :
       Says(parts[i], rows, class, n, j)

(* A dictionary says of some registers, in every bank of a class, what the *)
(* rows have or zero.                                                      *)
Tells(d, rows, class, S) ==
  /\ DOMAIN d = ClassBanks(class) \X S
  /\ \A k \in DOMAIN d : d[k] = Said(rows, k)

\* What is left of the blocks of some registers is what the rows have of them.
LEMMA BlocksLeave ==
  ASSUME NEW class \in Classes, NEW rows, NEW S,
         NEW parts, AreBlocks(parts, rows, class, S)
  PROVE  Tells(Overlaid(parts), rows, class, S)
  <1> DEFINE D == ClassBanks(class) \X S
             F == [k \in D |-> Said(rows, k)]
  <1>1. ASSUME NEW i \in DOMAIN parts
        PROVE  /\ DOMAIN parts[i] \subseteq D
               /\ \A k \in DOMAIN parts[i] : parts[i][k] = F[k]
    <2>1. PICK n \in S, j \in Parts(class) : Says(parts[i], rows, class, n, j)
      BY DEF AreBlocks
    <2>2. BanksIn(class, j) \subseteq ClassBanks(class)
      BY BanksInClass
    <2>3. DOMAIN parts[i] \subseteq D
      BY <2>1, <2>2 DEF Says
    <2>4. \A k \in DOMAIN parts[i] : parts[i][k] = Said(rows, k)
      BY <2>1 DEF Says
    <2>5. QED
      BY <2>3, <2>4
  <1>2. ASSUME NEW k \in D PROVE \E i \in DOMAIN parts : k \in DOMAIN parts[i]
    <2>1. PICK bank \in ClassBanks(class), n \in S : k = <<bank, n>>
      OBVIOUS
    <2>2. PICK j \in Parts(class) : bank \in BanksIn(class, j)
      BY BanksInClass
    <2>3. PICK i \in DOMAIN parts : Says(parts[i], rows, class, n, j)
      BY DEF AreBlocks
    <2>4. QED
      BY <2>1, <2>2, <2>3 DEF Says
  <1> HIDE DEF F
  <1>3. \A i \in DOMAIN parts : \A k \in DOMAIN parts[i] : parts[i][k] = F[k]
    BY <1>1
  <1>4. /\ DOMAIN Overlaid(parts) = UNION {DOMAIN parts[i] : i \in DOMAIN parts}
        /\ \A k \in DOMAIN Overlaid(parts) : Overlaid(parts)[k] = F[k]
    BY <1>3, OverlaidOf DEF AreBlocks
  <1>5. UNION {DOMAIN parts[i] : i \in DOMAIN parts} = D
    BY <1>1, <1>2
  <1>6. QED
    BY <1>4, <1>5 DEF F, Tells

\* A program is for registers of the control, finitely many.
LEMMA RegistersSelected ==
  ASSUME NEW b \in 0..RegisterLimit, NEW rows, AreRows(rows, b),
         NEW sparse, NEW count \in 0..RegisterLimit
  PROVE  /\ SelectRegisters(rows, sparse, count) \in SUBSET (1..RegisterLimit)
         /\ IsFiniteSet(SelectRegisters(rows, sparse, count))
  <1> DEFINE S == SelectRegisters(rows, sparse, count)
  <1>1. RegisterLimit \in Nat
    BY DEF RegisterLimit
  <1>2. Registers(rows) \subseteq 1..b
    BY DEF Registers, AreRows
  <1>3. S \in SUBSET (1..RegisterLimit)
    BY <1>1, <1>2 DEF SelectRegisters
  <1>4. IsFiniteSet(1..RegisterLimit)
    BY <1>1, FS_Interval
  <1> HIDE DEF S
  <1>5. IsFiniteSet(S)
    BY <1>3, <1>4, FS_Subset
  <1>6. QED
    BY <1>3, <1>5 DEF S

\* The dictionaries that the parser and the control make of a program.
LEMMA ProgramsAreBlocks ==
  ASSUME NEW class \in Classes, NEW b, NEW rows, AreRows(rows, b),
         NEW S, S \in SUBSET (1..RegisterLimit),
         NEW program, HasBlocks(program, rows, class, S)
  PROVE  /\ AreBlocks([i \in DOMAIN program |-> ParseBlock(program[i])], rows, class, S)
         /\ AreBlocks([i \in DOMAIN program |-> PanelWrites(program[i])], rows, class, S)
  <1>1. \A n \in S, j \in Parts(class) :
          /\ Says(ParseBlock(BlocksOf(rows, class, n)[j]), rows, class, n, j)
          /\ Says(PanelWrites(BlocksOf(rows, class, n)[j]), rows, class, n, j)
    BY BlockSays
  <1>2. ASSUME NEW i \in DOMAIN program
        PROVE  \E n \in S, j \in Parts(class) :
                 /\ Says(ParseBlock(program[i]), rows, class, n, j)
                 /\ Says(PanelWrites(program[i]), rows, class, n, j)
    BY <1>1 DEF HasBlocks
  <1>3. ASSUME NEW n \in S, NEW j \in Parts(class)
        PROVE  \E i \in DOMAIN program :
                 /\ Says(ParseBlock(program[i]), rows, class, n, j)
                 /\ Says(PanelWrites(program[i]), rows, class, n, j)
    BY <1>1 DEF HasBlocks
  <1>4. AreBlocks([i \in DOMAIN program |-> ParseBlock(program[i])], rows, class, S)
    BY <1>2, <1>3 DEF AreBlocks, HasBlocks
  <1>5. AreBlocks([i \in DOMAIN program |-> PanelWrites(program[i])], rows, class, S)
    BY <1>2, <1>3 DEF AreBlocks, HasBlocks
  <1>6. QED
    BY <1>4, <1>5

\* A program says of the registers it is built for, in every bank of its class,
\* what the rows have or zero, to the parser and to the panel.
LEMMA ProgramTells ==
  ASSUME NEW class \in Classes, NEW b \in 0..RegisterLimit, NEW rows, AreRows(rows, b),
         NEW sparse, NEW count \in 0..RegisterLimit
  PROVE  LET program == BuildG10(rows, class, "inch", sparse, count)
             S == SelectRegisters(rows, sparse, count)
         IN /\ Tells(ParseG10(program), rows, class, S)
            /\ Tells(Written(program), rows, class, S)
  <1> DEFINE S == SelectRegisters(rows, sparse, count)
             program == BuildG10(rows, class, "inch", sparse, count)
  <1>1. S \in SUBSET (1..RegisterLimit) /\ IsFiniteSet(S)
    BY RegistersSelected
  <1>2. S \in SUBSET Nat
    BY <1>1
  <1>3. HasBlocks(program, rows, class, S)
    BY <1>1, <1>2, BlocksOfProgram
  <1> HIDE DEF S, program
  <1>4. /\ AreBlocks([i \in DOMAIN program |-> ParseBlock(program[i])], rows, class, S)
        /\ AreBlocks([i \in DOMAIN program |-> PanelWrites(program[i])], rows, class, S)
    BY <1>1, <1>3, ProgramsAreBlocks
  <1>5. AreBlocks([i \in DOMAIN program |-> ParseBlock(program[i])], rows, class, S)
          => Tells(ParseG10(program), rows, class, S)
    BY BlocksLeave DEF ParseG10
  <1>6. AreBlocks([i \in DOMAIN program |-> PanelWrites(program[i])], rows, class, S)
          => Tells(Written(program), rows, class, S)
    BY BlocksLeave DEF Written
  <1>7. QED
    BY <1>4, <1>5, <1>6 DEF S, program

-----------------------------------------------------------------------------
(* The client and its handle.                                               *)

(* The actions of a sweep that read the control.                           *)
Reads ==
  \/ ReadStatus \/ ReadLayout \/ ReadOffset \/ ReadPmcByte \/ ReadLifeGroups
  \/ ReadLifeGroup \/ ReadLifeSlot \/ ReadAlarms \/ ReadMacro
  \/ ReadProgramNumber \/ ReadProgramText \/ ReadActiveWcs \/ ReadCommandedT
  \/ ReadWorkOffset

(* What any of them does to the client: it goes on, it takes over the      *)
(* layout, or it ends the sweep.                                           *)
GoesOn == outcome' = "sweeping" /\ UNCHANGED <<clientVars, relaid>>
TakesLayout ==
  outcome' = "sweeping" /\ cache' = Just(layout) /\ relaid' = FALSE /\ UNCHANGED <<handle, open>>
Ends ==
  /\ outcome' \in {"raised", "crashed"} /\ todo' = <<>> /\ snap' = Empty
  /\ UNCHANGED <<clientVars, relaid>>
  /\ outcome' = "raised" => /\ Rejected(Head(todo))
                            /\ Head(todo).fn \in {"statinfo", "rdtofsinfo", "rdalmmsg2"}

Reading ==
  /\ outcome = "sweeping" /\ todo # <<>>
  /\ GoesOn \/ TakesLayout \/ Ends
  /\ UNCHANGED <<mirror, worldVars, held, answered>>
  /\ UNCHANGED <<events, disturbed>> \/ (Happens /\ disturbed' = TRUE)

\* Every read is one of these.
LEMMA ReadsRead == Reads => Reading
  <1> USE DEF Reading, GoesOn, TakesLayout, Ends, Due, Served, PassOver, Raise, GoOn,
              sweepVars, clientVars
  <1>1. ReadStatus => Reading
    BY DEF ReadStatus, Rejected
  <1>2. ReadLayout => Reading
    BY DEF ReadLayout, Rejected
  <1>3. ReadOffset => Reading
    BY DEF ReadOffset, Rejected
  <1>4. ReadPmcByte => Reading
    BY DEF ReadPmcByte, Rejected
  <1>5. ReadLifeGroups \/ ReadLifeGroup \/ ReadLifeSlot => Reading
    BY DEF ReadLifeGroups, ReadLifeGroup, ReadLifeSlot, Rejected
  <1>6. ReadAlarms \/ ReadMacro => Reading
    BY DEF ReadAlarms, ReadMacro, Rejected
  <1>7. ReadProgramNumber \/ ReadProgramText => Reading
    BY DEF ReadProgramNumber, ReadProgramText, Rejected
  <1>8. ReadActiveWcs \/ ReadCommandedT => Reading
    BY DEF ReadActiveWcs, ReadCommandedT, ReadStatusField, Rejected
  <1>9. ReadWorkOffset => Reading
    BY DEF ReadWorkOffset, Rejected
  <1>10. QED
    BY <1>1, <1>2, <1>3, <1>4, <1>5, <1>6, <1>7, <1>8, <1>9 DEF Reads

(* The kinds of steps there are.                                           *)
Stutters == UNCHANGED vars

\* Every step is a read, or one of the other actions.
LEMMA StepKinds ==
  ASSUME [Next]_vars
  PROVE  \/ Reads /\ UNCHANGED <<uploadVars, panelVars>>
         \/ (BeginSweep \/ Deliver) /\ UNCHANGED <<uploadVars, panelVars>>
         \/ Connection /\ UNCHANGED <<uploadVars, panelVars>>
         \/ World /\ UNCHANGED <<uploadVars, panelVars>>
         \/ Export /\ UNCHANGED panelVars
         \/ \E sparse \in BOOLEAN : ExportG10(sparse)
         \/ RunG10
         \/ Stutters
  BY DEF Next, ExportNext, ReadNext, Sweep, Reads, Stutters

LayoutsHad == {Layouts[i] : i \in DOMAIN Layouts}

LayoutIsKept == relaid \in BOOLEAN /\ (cache # Nothing /\ ~relaid => cache = Just(layout))

ClientOK ==
  /\ profile \in Profiles /\ link \in {"up", "down"} /\ events \in 0..MaxEvents
  /\ handle \in {"none", "raw", "primed", "forgotten"}
  /\ HandlesAreReturned
  /\ outcome \in {"none", "sweeping", "ok", "raised", "crashed"}
  /\ outcome # "sweeping" => todo = <<>>
  /\ outcome = "sweeping" => handle \in {"primed", "forgotten"}
  /\ layout \in LayoutsHad /\ cache \in {Nothing} \cup {Just(l) : l \in LayoutsHad}
  /\ LayoutIsKept

\* What the constants are.
LEMMA Bounds ==
  /\ MaxEvents \in Nat /\ MaxExports \in Nat /\ PotCount \in Nat
  /\ MacroVars \in Seq(Nat) /\ ZofsSlots \in Seq(Nat) /\ LifeGroups \in Seq(Seq(Nat))
  /\ Increment \in Nat \ {0} /\ Profiles \subseteq {"mill", "lathe", "export"}
  /\ Layouts[1] \in LayoutsHad /\ RegisterCount \in 0..RegisterLimit
  <1>1. 1 \in DOMAIN Layouts
    BY ControlReadsAssumption
  <1>2. QED
    BY <1>1, ControlReadsAssumption, MachineViewsAssumption DEF LayoutsHad

\* The handle is returned whenever the client does not hold it, a sweep has a
\* usable one, and the layout that is kept is one the control has had.
LEMMA ClientStep ==
  ASSUME ClientOK, [Next]_vars
  PROVE  ClientOK'
  <1> USE Bounds DEF ClientOK, HandlesAreReturned, LayoutIsKept
  <1>1. ASSUME Reads PROVE ClientOK'
    <2>1. Reading
      BY <1>1, ReadsRead
    <2>2. CASE GoesOn \/ Ends
      BY <2>1, <2>2 DEF Reading, GoesOn, Ends, Happens, worldVars, clientVars
    <2>3. CASE TakesLayout
      <3>1. /\ UNCHANGED <<profile, link, layout, handle, open>>
            /\ outcome' = "sweeping" /\ cache' = Just(layout) /\ relaid' = FALSE
            /\ events' = events \/ Happens
        BY <2>1, <2>3 DEF Reading, TakesLayout, worldVars
      <3>2. LayoutIsKept'
        BY <3>1
      <3>3. QED
        <4> HIDE DEF LayoutIsKept
        <4> QED
          BY <2>1, <3>1, <3>2 DEF Reading, Happens
    <2>4. QED
      BY <2>1, <2>2, <2>3 DEF Reading
  <1>2. ASSUME BeginSweep \/ Deliver PROVE ClientOK'
    BY <1>2 DEF BeginSweep, Begin, Deliver, clientVars, worldVars
  <1>3. ASSUME Connection PROVE ClientOK'
    <2>1. CASE AllocateHandle
      BY <2>1 DEF AllocateHandle, worldVars
    <2>2. CASE Prime \/ Close
      BY <2>2 DEF Prime, Close, sweepVars, worldVars, histVars
    <2>3. CASE PrimeFails
      BY <2>3 DEF PrimeFails, Rejected, Happens, sweepVars, worldVars
    <2>4. QED
      BY <1>3, <2>1, <2>2, <2>3 DEF Connection
  <1>4. ASSUME World PROVE ClientOK'
    <2>1. CASE Edit
      BY <2>1 DEF Edit, Happens, clientVars, sweepVars
    <2>2. CASE Reconfigure
      <3>1. /\ layout' \in LayoutsHad /\ relaid' = TRUE
            /\ events' \in 0..MaxEvents
            /\ UNCHANGED <<clientVars, sweepVars, profile, link>>
        <4>1. /\ relaid' = TRUE /\ events < MaxEvents /\ events' = events + 1
              /\ UNCHANGED <<clientVars, sweepVars, profile, link>>
          BY <2>2 DEF Reconfigure, Happens
        <4>2. layout' \in LayoutsHad
          BY <2>2 DEF Reconfigure, LayoutsHad
        <4>3. QED
          BY <4>1, <4>2
      <3>2. LayoutIsKept'
        BY <3>1 DEF LayoutIsKept
      <3>3. QED
        BY <3>1, <3>2 DEF clientVars, sweepVars
    <2>3. CASE LinkChanges
      BY <2>3 DEF LinkChanges, Happens, sweepVars
    <2>4. QED
      BY <1>4, <2>1, <2>2, <2>3 DEF World
  <1>5. ASSUME Export PROVE ClientOK'
    <2>1. CASE BeginExport
      BY <2>1 DEF BeginExport, clientVars, worldVars
    <2>2. CASE Resolve
      BY <2>2 DEF Resolve, Due, Apart, clientVars, worldVars
    <2>3. CASE StartUpload \/ EndUpload
      BY <2>3 DEF StartUpload, EndUpload, Due, Apart, Served, Rejected, Happens, clientVars, worldVars
    <2>4. CASE UploadChunk
      <3>1. UNCHANGED <<events, disturbed>> \/ Happens
        BY <2>4 DEF UploadChunk, NoData, Served, Rejected
      <3>2. /\ outcome = "sweeping" /\ UNCHANGED <<clientVars, outcome>>
            /\ Apart
        BY <2>4 DEF UploadChunk, Due
      <3>3. QED
        BY <3>1, <3>2 DEF Apart, Happens, clientVars, worldVars
    <2>5. CASE CloseExport
      BY <2>5 DEF CloseExport, Due, Apart, worldVars
    <2>6. QED
      BY <1>5, <2>1, <2>2, <2>3, <2>4, <2>5 DEF Export
  <1>6. ASSUME NEW sparse, ExportG10(sparse) PROVE ClientOK'
    BY <1>6 DEF ExportG10, exportVars, readVars, clientVars, sweepVars, worldVars, histVars
  <1>7. ASSUME RunG10 PROVE ClientOK'
    BY <1>7 DEF RunG10, clientVars, sweepVars
  <1>8. ASSUME Stutters PROVE ClientOK'
    BY <1>8 DEF Stutters, vars, exportVars, readVars, clientVars, sweepVars, worldVars, histVars
  <1>9. QED
    BY <1>1, <1>2, <1>3, <1>4, <1>5, <1>6, <1>7, <1>8, StepKinds

\* A program starts with no handle.
LEMMA ClientStart ==
  ASSUME Init
  PROVE  ClientOK
  <1>1. LayoutIsKept
    BY DEF Init, ExportInit, ReadInit, LayoutIsKept
  <1>2. QED
    BY <1>1, Bounds DEF Init, ExportInit, ReadInit, ClientOK, HandlesAreReturned

\* The library has given out just the handles that the client holds.
THEOREM ClientIsSound == Spec => []ClientOK
  <1>1. Init => ClientOK
    BY ClientStart
  <1>2. ClientOK /\ [Next]_vars => ClientOK'
    BY ClientStep
  <1>3. QED
    BY <1>1, <1>2, PTL DEF Spec

-----------------------------------------------------------------------------
(* The calls of a sweep.                                                    *)

AnyFn == {"statinfo", "pmc", "rdtofsinfo", "rdtofs", "rdngrp", "rdgrpid", "rd1tlifedata",
          "rdalmmsg2", "rdmacro", "exeprgname", "rdexecprog", "rdgcode", "rdcommand",
          "rdzofs", "rdwkcdshft", "resolve", "upstart3", "upload3", "upend3", "close"}
AnyCall == [fn : AnyFn, a : Int \cup {"head", "next", "pot"}, b : Int]

(* What a sequence lists; it lists none of some functions; and the only    *)
(* call of one function, with none of some others beside it.               *)
Items(s) == {s[i] : i \in 1..Len(s)}
Free(s, fns) == \A call \in Items(s) : call.fn \notin fns
Alone(s, fn, fns) ==
  \A i, j \in 1..Len(s) : s[i].fn = fn /\ i # j => s[j].fn \notin fns

\* What is left of a sequence, and its first item.
LEMMA TailOf ==
  ASSUME NEW T, NEW s \in Seq(T), s # <<>>
  PROVE  /\ Tail(s) \in Seq(T) /\ Len(Tail(s)) = Len(s) - 1 /\ Len(s) \in Nat \ {0}
         /\ Head(s) = s[1] /\ Head(s) \in Items(s) /\ Head(s) \in T
         /\ \A i \in 1..Len(Tail(s)) : i + 1 \in 1..Len(s) /\ Tail(s)[i] = s[i + 1]
         /\ Items(Tail(s)) \subseteq Items(s)
  <1>1. /\ Tail(s) \in Seq(T) /\ Len(Tail(s)) = Len(s) - 1 /\ Len(s) \in Nat \ {0}
        /\ Head(s) = s[1] /\ Head(s) \in T
        /\ \A i \in 1..Len(Tail(s)) : i + 1 \in 1..Len(s) /\ Tail(s)[i] = s[i + 1]
    OBVIOUS
  <1>2. QED
    BY <1>1 DEF Items

\* Two sequences one after the other.
LEMMA JoinOf ==
  ASSUME NEW T, NEW s \in Seq(T), NEW t \in Seq(T)
  PROVE  /\ s \o t \in Seq(T) /\ Len(s \o t) = Len(s) + Len(t)
         /\ \A i \in 1..Len(s \o t) :
              (s \o t)[i] = IF i <= Len(s) THEN s[i] ELSE t[i - Len(s)]
         /\ Items(s \o t) = Items(s) \cup Items(t)
  <1>1. /\ s \o t \in Seq(T) /\ Len(s \o t) = Len(s) + Len(t)
        /\ Len(s) \in Nat /\ Len(t) \in Nat
        /\ \A i \in 1..Len(s \o t) :
             (s \o t)[i] = IF i <= Len(s) THEN s[i] ELSE t[i - Len(s)]
    OBVIOUS
  <1>2. Items(s \o t) \subseteq Items(s) \cup Items(t)
    <2>1. \A i \in 1..Len(s \o t) :
            IF i <= Len(s) THEN i \in 1..Len(s) ELSE i - Len(s) \in 1..Len(t)
      BY <1>1
    <2>2. QED
      BY <1>1, <2>1 DEF Items
  <1>3. Items(s) \subseteq Items(s \o t)
    <2>1. \A i \in 1..Len(s) : i \in 1..Len(s \o t) /\ i <= Len(s)
      BY <1>1
    <2>2. QED
      BY <1>1, <2>1 DEF Items
  <1>4. Items(t) \subseteq Items(s \o t)
    <2>1. \A i \in 1..Len(t) : /\ Len(s) + i \in 1..Len(s \o t)
                               /\ ~(Len(s) + i <= Len(s)) /\ (Len(s) + i) - Len(s) = i
      BY <1>1
    <2>2. \A i \in 1..Len(t) : (s \o t)[Len(s) + i] = t[i]
      BY <1>1, <2>1
    <2>3. QED
      BY <2>1, <2>2 DEF Items
  <1>5. QED
    BY <1>1, <1>2, <1>3, <1>4

\* A call stays alone when the first is done.
LEMMA AloneTail ==
  ASSUME NEW s \in Seq(AnyCall), s # <<>>, NEW fn, NEW fns, Alone(s, fn, fns)
  PROVE  /\ Alone(Tail(s), fn, fns)
         /\ Head(s).fn = fn => Free(Tail(s), fns)
  <1>1. /\ Len(s) \in Nat \ {0} /\ Len(Tail(s)) = Len(s) - 1 /\ Head(s) = s[1]
        /\ \A i \in 1..Len(Tail(s)) : i + 1 \in 1..Len(s) /\ Tail(s)[i] = s[i + 1]
    BY TailOf
  <1>2. ASSUME NEW i \in 1..Len(Tail(s)), NEW j \in 1..Len(Tail(s)),
               Tail(s)[i].fn = fn, i # j
        PROVE  Tail(s)[j].fn \notin fns
    <2>1. i + 1 # j + 1
      BY <1>1, <1>2
    <2>2. QED
      BY <1>1, <1>2, <2>1 DEF Alone
  <1>3. ASSUME Head(s).fn = fn, NEW j \in 1..Len(Tail(s))
        PROVE  Tail(s)[j].fn \notin fns
    <2>1. 1 # j + 1 /\ 1 \in 1..Len(s)
      BY <1>1
    <2>2. QED
      BY <1>1, <1>3, <2>1 DEF Alone
  <1>4. QED
    BY <1>2, <1>3 DEF Alone, Free, Items

\* A call stays alone beside calls of other functions.
LEMMA AloneJoin ==
  ASSUME NEW s \in Seq(AnyCall), NEW t \in Seq(AnyCall), NEW fn, NEW fns,
         \/ Free(s, {fn} \cup fns) /\ Alone(t, fn, fns)
         \/ Free(t, {fn} \cup fns) /\ Alone(s, fn, fns)
  PROVE  Alone(s \o t, fn, fns)
  <1> DEFINE At(i) == IF i <= Len(s) THEN s[i] ELSE t[i - Len(s)]
  <1>1. /\ Len(s \o t) = Len(s) + Len(t) /\ Len(s) \in Nat /\ Len(t) \in Nat
        /\ \A i \in 1..Len(s \o t) : (s \o t)[i] = At(i)
    BY JoinOf
  <1>2. \A i \in 1..Len(s \o t) :
          IF i <= Len(s) THEN i \in 1..Len(s) ELSE i - Len(s) \in 1..Len(t)
    BY <1>1
  <1>3. ASSUME NEW i \in 1..Len(s \o t), NEW j \in 1..Len(s \o t),
               At(i).fn = fn, i # j
        PROVE  At(j).fn \notin fns
    <2>1. CASE Free(s, {fn} \cup fns) /\ Alone(t, fn, fns)
      <3>1. ~(i <= Len(s))
        BY <1>2, <1>3, <2>1 DEF Free, Items
      <3>2. CASE j <= Len(s)
        BY <1>2, <2>1, <3>2 DEF Free, Items
      <3>3. CASE ~(j <= Len(s))
        <4>1. i - Len(s) # j - Len(s)
          BY <1>1, <1>3
        <4>2. QED
          BY <1>2, <1>3, <2>1, <3>1, <3>3, <4>1 DEF Alone
      <3>4. QED
        BY <3>2, <3>3
    <2>2. CASE Free(t, {fn} \cup fns) /\ Alone(s, fn, fns)
      <3>1. i <= Len(s)
        BY <1>2, <1>3, <2>2 DEF Free, Items
      <3>2. CASE ~(j <= Len(s))
        BY <1>2, <2>2, <3>2 DEF Free, Items
      <3>3. CASE j <= Len(s)
        BY <1>2, <1>3, <2>2, <3>1, <3>3 DEF Alone
      <3>4. QED
        BY <3>2, <3>3
    <2>3. QED
      BY <2>1, <2>2
  <1> HIDE DEF At
  <1>4. QED
    BY <1>1, <1>3 DEF Alone

\* A call that does not occur, or occurs as all there is, is alone.
LEMMA AloneFree ==
  ASSUME NEW s \in Seq(AnyCall), NEW fn, NEW fns, Free(s, {fn}) \/ Len(s) <= 1
  PROVE  Alone(s, fn, fns)
  <1>1. CASE Free(s, {fn})
    BY <1>1 DEF Free, Alone, Items
  <1>2. CASE Len(s) <= 1
    BY <1>2 DEF Alone
  <1>3. QED
    BY <1>1, <1>2

(* The banks of a layout; and the calls that a client makes, if it keeps   *)
(* the layout `kept`.                                                      *)
BanksFor(p, type) == IF p = "lathe" THEN LatheTypeMap ELSE OfsTypeDispatch(type)

FnsOf(p) ==
  CASE p = "mill" -> {"statinfo", "pmc", "rdtofsinfo", "rdtofs", "rdngrp", "rdgrpid",
                      "rd1tlifedata", "rdalmmsg2", "rdmacro"}
    [] p = "lathe" -> {"statinfo", "exeprgname", "rdexecprog", "rdgcode", "rdcommand",
                       "rdtofsinfo", "rdtofs", "rdzofs", "rdwkcdshft"}
    [] p = "export" -> {"exeprgname", "rdexecprog", "resolve", "upstart3", "upload3",
                        "upend3", "close"}

GoodCall(p, kept, call) ==
  /\ call.fn \in FnsOf(p)
  /\ call.fn = "pmc" =>
       \/ call.a \in {"head", "next"}
       \/ call.a = "pot" /\ call.b - 104 \in 1..PotCount
  /\ call.fn = "rdtofs" =>
       /\ kept # Nothing
       /\ call.a \in 1..kept[1].use /\ call.b \in DOMAIN BanksFor(p, kept[1].type)
  /\ call.fn = "rdmacro" => call.a \in Range(MacroVars)
  /\ call.fn = "rdzofs" => call.a \in Range(ZofsSlots)
  /\ call.fn \in {"rdgrpid", "rd1tlifedata"} => call.a \in 1..Len(LifeGroups)
  /\ call.fn = "rd1tlifedata" => call.b \in Nat \ {0}

(* A sequence of such calls; one without the calls that others depend on;  *)
(* and one in which the layout is read once and before it is used, and the *)
(* number of the program once and before its text.                         *)
Good(p, kept, s) == s \in Seq(AnyCall) /\ \A call \in Items(s) : GoodCall(p, kept, call)

Quiet(p, kept, s) ==
  Good(p, kept, s) /\ Free(s, {"rdtofsinfo", "rdtofs", "exeprgname", "rdexecprog"})

Planned(p, kept, s) ==
  /\ Good(p, kept, s)
  /\ Alone(s, "rdtofsinfo", {"rdtofsinfo", "rdtofs"})
  /\ Alone(s, "exeprgname", {"exeprgname", "rdexecprog"})

\* A plan with other calls before or after it is a plan.
LEMMA PlannedJoin ==
  ASSUME NEW p, NEW kept, NEW s, NEW t, Planned(p, kept, s), Quiet(p, kept, t)
  PROVE  Planned(p, kept, s \o t) /\ Planned(p, kept, t \o s)
  <1>1. s \in Seq(AnyCall) /\ t \in Seq(AnyCall)
    BY DEF Planned, Quiet, Good
  <1>2. Good(p, kept, s \o t) /\ Good(p, kept, t \o s)
    <2>1. /\ s \o t \in Seq(AnyCall) /\ Items(s \o t) = Items(s) \cup Items(t)
          /\ t \o s \in Seq(AnyCall) /\ Items(t \o s) = Items(t) \cup Items(s)
      BY <1>1, JoinOf
    <2>2. QED
      BY <2>1 DEF Planned, Quiet, Good
  <1>3. /\ Free(t, {"rdtofsinfo"} \cup {"rdtofsinfo", "rdtofs"})
        /\ Free(t, {"exeprgname"} \cup {"exeprgname", "rdexecprog"})
    BY DEF Quiet, Free
  <1>4. /\ Alone(s, "rdtofsinfo", {"rdtofsinfo", "rdtofs"})
        /\ Alone(s, "exeprgname", {"exeprgname", "rdexecprog"})
    BY DEF Planned
  <1>5. /\ Alone(s \o t, "rdtofsinfo", {"rdtofsinfo", "rdtofs"})
        /\ Alone(t \o s, "rdtofsinfo", {"rdtofsinfo", "rdtofs"})
    BY <1>1, <1>3, <1>4, AloneJoin
  <1>6. /\ Alone(s \o t, "exeprgname", {"exeprgname", "rdexecprog"})
        /\ Alone(t \o s, "exeprgname", {"exeprgname", "rdexecprog"})
    BY <1>1, <1>3, <1>4, AloneJoin
  <1>7. QED
    BY <1>2, <1>5, <1>6 DEF Planned

\* What is left of a plan is a plan.
LEMMA PlannedTail ==
  ASSUME NEW p, NEW kept, NEW s, Planned(p, kept, s), s # <<>>
  PROVE  /\ s \in Seq(AnyCall) /\ GoodCall(p, kept, Head(s)) /\ Head(s) \in AnyCall
         /\ Planned(p, kept, Tail(s)) /\ Tail(s) \in Seq(AnyCall)
         /\ Head(s).fn = "rdtofsinfo" => Free(Tail(s), {"rdtofsinfo", "rdtofs"})
         /\ Head(s).fn = "exeprgname" => Free(Tail(s), {"exeprgname", "rdexecprog"})
  <1>1. s \in Seq(AnyCall)
    BY DEF Planned, Good
  <1>2. /\ Tail(s) \in Seq(AnyCall) /\ Items(Tail(s)) \subseteq Items(s)
        /\ Head(s) \in Items(s) /\ Head(s) \in AnyCall
    BY <1>1, TailOf
  <1>3. Good(p, kept, Tail(s)) /\ GoodCall(p, kept, Head(s))
    BY <1>2 DEF Planned, Good
  <1>4. /\ Alone(Tail(s), "rdtofsinfo", {"rdtofsinfo", "rdtofs"})
        /\ Head(s).fn = "rdtofsinfo" => Free(Tail(s), {"rdtofsinfo", "rdtofs"})
    BY <1>1, AloneTail DEF Planned
  <1>5. /\ Alone(Tail(s), "exeprgname", {"exeprgname", "rdexecprog"})
        /\ Head(s).fn = "exeprgname" => Free(Tail(s), {"exeprgname", "rdexecprog"})
    BY <1>1, AloneTail DEF Planned
  <1>6. QED
    BY <1>1, <1>2, <1>3, <1>4, <1>5 DEF Planned

\* Of a single call that is good.
LEMMA PlannedOne ==
  ASSUME NEW p, NEW kept, NEW call \in AnyCall, GoodCall(p, kept, call)
  PROVE  /\ Planned(p, kept, <<call>>)
         /\ call.fn \notin {"rdtofsinfo", "rdtofs", "exeprgname", "rdexecprog"} =>
              Quiet(p, kept, <<call>>)
  <1>1. <<call>> \in Seq(AnyCall) /\ Len(<<call>>) = 1 /\ <<call>>[1] = call
    OBVIOUS
  <1>2. Items(<<call>>) = {call}
    BY <1>1 DEF Items
  <1> HIDE DEF AnyCall
  <1>3. Good(p, kept, <<call>>)
    BY <1>1, <1>2 DEF Good
  <1>4. \A fn, fns : Alone(<<call>>, fn, fns)
    BY <1>1 DEF Alone
  <1>5. QED
    BY <1>2, <1>3, <1>4 DEF Planned, Quiet, Free

\* A call is of a function.
LEMMA CallOf ==
  ASSUME NEW fn \in AnyFn, NEW a \in Int \cup {"head", "next", "pot"}, NEW b \in Int
  PROVE  /\ Call(fn, a, b) \in AnyCall
         /\ Call(fn, a, b).fn = fn /\ Call(fn, a, b).a = a /\ Call(fn, a, b).b = b
  BY DEF Call, AnyCall

\* The banks of a layout have codes, finitely many.
LEMMA BankCodes ==
  ASSUME NEW p, NEW type \in 1..3
  PROVE  /\ DOMAIN BanksFor(p, type) \in SUBSET (0..6)
         /\ IsFiniteSet(DOMAIN BanksFor(p, type))
  <1>1. DOMAIN BanksFor(p, type) \in SUBSET (0..6)
    BY DEF BanksFor, LatheTypeMap, OfsTypeDispatch, MemoryA, MemoryB, MemoryC
  <1>2. IsFiniteSet(0..6)
    <2> DEFINE top == 6
    <2>1. top \in Int
      OBVIOUS
    <2> HIDE DEF top
    <2>2. IsFiniteSet(0..top)
      BY <2>1, FS_Interval
    <2>3. QED
      BY <2>2 DEF top
  <1>3. QED
    BY <1>1, <1>2, FS_Subset

\* The reads of the offsets are of the registers and banks of the layout.
LEMMA OffsetCallsOf ==
  ASSUME NEW p, NEW l \in [type : 1..3, use : Nat]
  PROVE  LET s == OffsetCalls(BanksFor(p, l.type), l.use)
         IN /\ s \in Seq(AnyCall)
            /\ \A call \in Items(s) :
                 /\ call.fn = "rdtofs" /\ call.a \in 1..l.use
                 /\ call.b \in DOMAIN BanksFor(p, l.type)
  <1> DEFINE D == DOMAIN BanksFor(p, l.type)
             codes == Ascending(D)
             n == Len(codes)
             use == l.use
             m == use * n
             Item(i) == Call("rdtofs", ((i - 1) \div n) + 1, codes[((i - 1) % n) + 1])
             s == OffsetCalls(BanksFor(p, l.type), l.use)
  <1>1. D \in SUBSET (0..6) /\ IsFiniteSet(D)
    BY BankCodes
  <1>2. D \in SUBSET Nat
    BY <1>1
  <1>3. codes \in Seq(D) /\ n \in Nat
    <2> HIDE DEF D
    <2> QED
      BY <1>1, <1>2, AscendingOf
  <1>4. s = [i \in 1..m |-> Item(i)]
    BY DEF OffsetCalls
  <1>5. m \in Nat /\ use \in Nat
    BY <1>3
  <1>6. ASSUME NEW i \in 1..m
        PROVE  /\ Item(i) \in AnyCall /\ Item(i).fn = "rdtofs"
               /\ Item(i).a \in 1..use /\ Item(i).b \in D
    <2>1. n # 0
      BY <1>3, <1>5
    <2>2. ((i - 1) \div n) + 1 \in 1..use /\ ((i - 1) % n) + 1 \in 1..n
      <3> HIDE DEF n, use
      <3> QED
        BY <1>3, <1>5, <2>1, PageOf
    <2>3. codes[((i - 1) % n) + 1] \in D
      <3> HIDE DEF codes, D
      <3> QED
        BY <1>3, <2>2
    <2> DEFINE a == ((i - 1) \div n) + 1
               b == codes[((i - 1) % n) + 1]
    <2>4. a \in Int /\ b \in Int
      <3>1. b \in Nat
        BY <1>2, <2>3
      <3> HIDE DEF n, codes
      <3>2. a \in Int
        BY <1>5, <2>2
      <3>3. QED
        BY <3>1, <3>2
    <2> HIDE DEF a, b, D
    <2>5. a \in 1..use /\ b \in D
      BY <2>2, <2>3 DEF a, b
    <2>6. Call("rdtofs", a, b) \in AnyCall
      <3>1. a \in Int \cup {"head", "next", "pot"}
        BY <2>4, Zenon
      <3>2. "rdtofs" \in AnyFn
        BY DEF AnyFn
      <3>3. QED
        BY <2>4, <3>1, <3>2, CallOf
    <2>7. Item(i) = Call("rdtofs", a, b)
      BY DEF a, b
    <2>8. QED
      BY <2>5, <2>6, <2>7 DEF Call
  <1> HIDE DEF Item, m, D, use
  <1>7. s \in Seq(AnyCall) /\ Len(s) = m
    <2> HIDE DEF s
    <2> QED
      BY <1>4, <1>5, <1>6, IsASeq
  <1>8. Items(s) = {Item(i) : i \in 1..m}
    BY <1>4, <1>7 DEF Items
  <1>9. QED
    BY <1>6, <1>7, <1>8 DEF D, use

\* A sweep that reads the offsets by the layout it keeps follows a plan.
LEMMA AfterLayoutOf ==
  ASSUME NEW l \in LayoutsHad, profile \in {"mill", "lathe"}
  PROVE  /\ l \in [type : 1..3, use : Nat]
         /\ Planned(profile, Just(l), AfterLayout(l))
         /\ Free(AfterLayout(l), {"rdtofsinfo", "exeprgname", "rdexecprog"})
  <1>1. l \in [type : 1..3, use : Nat]
    <2>1. Layouts \in Seq([type : 1..3, use : Nat])
      BY ControlReadsAssumption
    <2>2. PICK i \in DOMAIN Layouts : l = Layouts[i]
      BY DEF LayoutsHad
    <2>3. Layouts[i] \in [type : 1..3, use : Nat]
      <3> DEFINE L == [type : 1..3, use : Nat]
      <3>1. Layouts \in Seq(L)
        BY <2>1
      <3> HIDE DEF L
      <3>2. Layouts[i] \in L
        BY <3>1
      <3>3. QED
        BY <3>2 DEF L
    <2>4. QED
      BY <2>2, <2>3
  <1>2. AfterLayout(l) = OffsetCalls(BanksFor(profile, l.type), l.use)
    BY DEF AfterLayout, BanksOf, BanksFor
  <1>3. /\ AfterLayout(l) \in Seq(AnyCall)
        /\ \A call \in Items(AfterLayout(l)) :
             /\ call.fn = "rdtofs" /\ call.a \in 1..l.use
             /\ call.b \in DOMAIN BanksFor(profile, l.type)
    BY <1>1, <1>2, OffsetCallsOf
  <1>4. Just(l) # Nothing /\ Just(l)[1] = l
    BY DEF Just, Nothing
  <1>5. Good(profile, Just(l), AfterLayout(l))
    BY <1>3, <1>4 DEF Good, GoodCall, FnsOf
  <1>6. Free(AfterLayout(l), {"rdtofsinfo", "exeprgname", "rdexecprog"})
    BY <1>3 DEF Free
  <1>7. /\ Free(AfterLayout(l), {"rdtofsinfo"}) /\ Free(AfterLayout(l), {"exeprgname"})
    BY <1>6 DEF Free
  <1>8. QED
    BY <1>1, <1>3, <1>5, <1>6, <1>7, AloneFree DEF Planned

\* Calls of which others are independent, one after the other.
LEMMA QuietList ==
  ASSUME NEW p, NEW kept, NEW n \in Nat, NEW s, s = [i \in 1..n |-> s[i]],
         \A i \in 1..n :
           /\ s[i] \in AnyCall /\ GoodCall(p, kept, s[i])
           /\ s[i].fn \notin {"rdtofsinfo", "rdtofs", "exeprgname", "rdexecprog"}
  PROVE  Quiet(p, kept, s)
  <1>1. s \in Seq(AnyCall) /\ Len(s) = n
    <2> HIDE DEF AnyCall
    <2> QED
      BY IsASeq
  <1>2. Items(s) = {s[i] : i \in 1..n}
    BY <1>1 DEF Items
  <1>3. QED
    BY <1>1, <1>2 DEF Quiet, Good, Free

\* Each call of a function without arguments is good.
LEMMA PlainCall ==
  ASSUME NEW p \in {"mill", "lathe", "export"}, NEW kept, NEW fn \in FnsOf(p),
         fn \notin {"pmc", "rdtofs", "rdmacro", "rdzofs", "rdgrpid", "rd1tlifedata"},
         NEW a \in Int \cup {"head", "next", "pot"}, NEW b \in Int
  PROVE  /\ Call(fn, a, b) \in AnyCall /\ Call(fn, a, b).fn = fn
         /\ GoodCall(p, kept, Call(fn, a, b))
  <1>1. fn \in AnyFn
    BY DEF AnyFn, FnsOf
  <1>2. Call(fn, a, b) \in AnyCall /\ Call(fn, a, b).fn = fn
    BY <1>1, CallOf
  <1>3. QED
    BY <1>2 DEF GoodCall

\* A byte of the PMC.
LEMMA PmcCall ==
  ASSUME NEW a \in {"head", "next", "pot"}, NEW b \in Int
  PROVE  /\ Call("pmc", a, b) \in AnyCall
         /\ Call("pmc", a, b).fn = "pmc" /\ Call("pmc", a, b).a = a
         /\ Call("pmc", a, b).b = b
  BY DEF Call, AnyCall, AnyFn

\* A call with a number.
LEMMA NumberCall ==
  ASSUME NEW fn \in {"rdmacro", "rdzofs", "rdgrpid", "rd1tlifedata", "rdexecprog"},
         NEW a \in Int, NEW b \in Int
  PROVE  /\ Call(fn, a, b) \in AnyCall
         /\ Call(fn, a, b).fn = fn /\ Call(fn, a, b).a = a /\ Call(fn, a, b).b = b
  <1>1. fn \in AnyFn
    BY DEF AnyFn
  <1>2. QED
    BY <1>1 DEF Call, AnyCall

\* What comes first stays first.
LEMMA HeadJoin ==
  ASSUME NEW T, NEW s \in Seq(T), NEW t \in Seq(T), s # <<>>
  PROVE  /\ s \o t \in Seq(T) /\ s \o t # <<>>
         /\ Head(s \o t) = s[1] /\ (s \o t)[1] = s[1]
         /\ Items(s) \subseteq Items(s \o t)
  <1>1. /\ s \o t \in Seq(T) /\ s \o t # <<>>
        /\ Head(s \o t) = s[1] /\ (s \o t)[1] = s[1]
    OBVIOUS
  <1>2. QED
    BY <1>1, JoinOf

\* The plan of a mill is a plan, and this is what it has.
LEMMA MillPlanOf ==
  ASSUME profile = "mill", cache \in {Nothing} \cup {Just(l) : l \in LayoutsHad}
  PROVE  /\ Planned("mill", cache, MillPlan) /\ Head(MillPlan).fn = "statinfo" /\ MillPlan # <<>>
         /\ {Call("statinfo", 0, 0), Call("pmc", "head", 327), Call("pmc", "next", 325)}
              \subseteq Items(MillPlan)
         /\ IF cache = Nothing THEN Call("rdtofsinfo", 0, 0) \in Items(MillPlan)
            ELSE Items(AfterLayout(cache[1])) \subseteq Items(MillPlan)
         /\ \A i \in 1..PotCount : Call("pmc", "pot", 104 + i) \in Items(MillPlan)
         /\ \A i \in 1..Len(MacroVars) : Call("rdmacro", MacroVars[i], 10) \in Items(MillPlan)
  <1> DEFINE A == <<Call("statinfo", 0, 0), Call("pmc", "head", 327), Call("pmc", "next", 325)>>
             B == IF cache = Nothing THEN <<Call("rdtofsinfo", 0, 0)>> ELSE AfterLayout(cache[1])
             C == [i \in 1..PotCount |-> Call("pmc", "pot", 104 + i)]
             D == <<Call("rdngrp", 0, 0), Call("rdalmmsg2", 0, 0)>>
             E == [i \in 1..Len(MacroVars) |-> Call("rdmacro", MacroVars[i], 10)]
             Special == {"rdtofsinfo", "rdtofs", "exeprgname", "rdexecprog"}
  <1>1. MillPlan = A \o B \o C \o D \o E
    BY DEF MillPlan
  <1>2. Quiet("mill", cache, A) /\ A # <<>> /\ A[1].fn = "statinfo"
    <2>1. \A i \in 1..3 : /\ A[i] \in AnyCall /\ GoodCall("mill", cache, A[i])
                          /\ A[i].fn \notin Special
      <3>1. A[1] \in AnyCall /\ GoodCall("mill", cache, A[1]) /\ A[1].fn = "statinfo"
        BY PlainCall DEF FnsOf
      <3>2. /\ A[2] \in AnyCall /\ A[2].fn = "pmc" /\ A[2].a = "head"
            /\ A[3] \in AnyCall /\ A[3].fn = "pmc" /\ A[3].a = "next"
        BY PmcCall
      <3>3. GoodCall("mill", cache, A[2]) /\ GoodCall("mill", cache, A[3])
        BY <3>2 DEF GoodCall, FnsOf
      <3>4. QED
        BY <3>1, <3>2, <3>3
    <2>2. A = [i \in 1..3 |-> A[i]]
      OBVIOUS
    <2>3. A # <<>> /\ A[1].fn = "statinfo"
      BY DEF Call
    <2> HIDE DEF A
    <2>4. QED
      BY <2>1, <2>2, <2>3, QuietList
  <1>3. Planned("mill", cache, B)
    <2>1. CASE cache = Nothing
      <3>1. /\ Call("rdtofsinfo", 0, 0) \in AnyCall
            /\ GoodCall("mill", cache, Call("rdtofsinfo", 0, 0))
        BY PlainCall DEF FnsOf
      <3>2. QED
        BY <2>1, <3>1, PlannedOne
    <2>2. CASE cache # Nothing
      <3>1. PICK l \in LayoutsHad : cache = Just(l)
        BY <2>2
      <3>2. cache[1] = l
        BY <3>1 DEF Just
      <3>3. QED
        BY <2>2, <3>1, <3>2, AfterLayoutOf
    <2>3. QED
      BY <2>1, <2>2
  <1>4. Quiet("mill", cache, C)
    <2>1. PotCount \in Nat
      BY Bounds
    <2>2. \A i \in 1..PotCount : /\ C[i] \in AnyCall /\ GoodCall("mill", cache, C[i])
                                 /\ C[i].fn \notin Special
      <3> TAKE i \in 1..PotCount
      <3>1. C[i] \in AnyCall /\ C[i].fn = "pmc" /\ C[i].a = "pot" /\ C[i].b = 104 + i
        <4>1. C[i] = Call("pmc", "pot", 104 + i) /\ 104 + i \in Int
          BY <2>1
        <4> HIDE DEF C
        <4>2. QED
          BY <4>1, PmcCall
      <3>2. C[i].b - 104 \in 1..PotCount
        BY <2>1, <3>1
      <3>3. QED
        BY <3>1, <3>2 DEF GoodCall, FnsOf
    <2>3. C = [i \in 1..PotCount |-> C[i]]
      OBVIOUS
    <2> HIDE DEF C
    <2>4. QED
      BY <2>1, <2>2, <2>3, QuietList
  <1>5. Quiet("mill", cache, D)
    <2>1. \A i \in 1..2 : /\ D[i] \in AnyCall /\ GoodCall("mill", cache, D[i])
                          /\ D[i].fn \notin Special
      <3>1. /\ D[1] \in AnyCall /\ GoodCall("mill", cache, D[1]) /\ D[1].fn = "rdngrp"
            /\ D[2] \in AnyCall /\ GoodCall("mill", cache, D[2]) /\ D[2].fn = "rdalmmsg2"
        BY PlainCall DEF FnsOf
      <3>2. QED
        BY <3>1
    <2>2. D = [i \in 1..2 |-> D[i]]
      OBVIOUS
    <2> HIDE DEF D
    <2>3. QED
      BY <2>1, <2>2, QuietList
  <1>6. Quiet("mill", cache, E)
    <2>1. MacroVars \in Seq(Nat) /\ Len(MacroVars) \in Nat
      BY Bounds
    <2>2. \A i \in 1..Len(MacroVars) : /\ E[i] \in AnyCall /\ GoodCall("mill", cache, E[i])
                                       /\ E[i].fn \notin Special
      <3> TAKE i \in 1..Len(MacroVars)
      <3>1. MacroVars[i] \in Nat /\ MacroVars[i] \in Range(MacroVars)
        BY <2>1 DEF Range
      <3>2. E[i] \in AnyCall /\ E[i].fn = "rdmacro" /\ E[i].a = MacroVars[i]
        <4>1. E[i] = Call("rdmacro", MacroVars[i], 10) /\ MacroVars[i] \in Int
          BY <3>1
        <4> HIDE DEF E
        <4>2. QED
          BY <4>1, NumberCall
      <3>3. QED
        BY <3>1, <3>2 DEF GoodCall, FnsOf
    <2>3. E = [i \in 1..Len(MacroVars) |-> E[i]]
      OBVIOUS
    <2> HIDE DEF E
    <2>4. QED
      BY <2>1, <2>2, <2>3, QuietList
  <1> HIDE DEF A, B, C, D, E
  <1>7. Planned("mill", cache, A \o B \o C \o D \o E)
    BY <1>2, <1>3, <1>4, <1>5, <1>6, PlannedJoin
  <1>8. /\ Head(A \o B \o C \o D \o E) = A[1] /\ A \o B \o C \o D \o E # <<>>
        /\ Items(A) \cup Items(B) \cup Items(C) \cup Items(E)
             \subseteq Items(A \o B \o C \o D \o E)
    <2>1. /\ A \in Seq(AnyCall) /\ B \in Seq(AnyCall) /\ C \in Seq(AnyCall)
          /\ D \in Seq(AnyCall) /\ E \in Seq(AnyCall)
      BY <1>2, <1>3, <1>4, <1>5, <1>6 DEF Quiet, Planned, Good
    <2>2. A # <<>>
      BY <1>2, <2>1
    <2> DEFINE AB == A \o B
               ABC == AB \o C
               ABCD == ABC \o D
               all == ABCD \o E
    <2>3. /\ AB \in Seq(AnyCall) /\ AB # <<>> /\ AB[1] = A[1]
          /\ Items(AB) = Items(A) \cup Items(B)
      BY <2>1, <2>2, HeadJoin, JoinOf
    <2> HIDE DEF AB
    <2>4. /\ ABC \in Seq(AnyCall) /\ ABC # <<>> /\ ABC[1] = A[1]
          /\ Items(ABC) = Items(AB) \cup Items(C)
      BY <2>1, <2>3, HeadJoin, JoinOf
    <2> HIDE DEF ABC
    <2>5. /\ ABCD \in Seq(AnyCall) /\ ABCD # <<>> /\ ABCD[1] = A[1]
          /\ Items(ABCD) = Items(ABC) \cup Items(D)
      BY <2>1, <2>4, HeadJoin, JoinOf
    <2> HIDE DEF ABCD
    <2>6. Head(all) = A[1] /\ all # <<>> /\ Items(all) = Items(ABCD) \cup Items(E)
      BY <2>1, <2>5, HeadJoin, JoinOf
    <2> HIDE DEF all
    <2>7. all = A \o B \o C \o D \o E
      BY DEF AB, ABC, ABCD, all
    <2>8. QED
      BY <2>3, <2>4, <2>5, <2>6, <2>7
  <1>9. /\ Items(A) = {Call("statinfo", 0, 0), Call("pmc", "head", 327), Call("pmc", "next", 325)}
        /\ IF cache = Nothing THEN Call("rdtofsinfo", 0, 0) \in Items(B)
           ELSE Items(AfterLayout(cache[1])) \subseteq Items(B)
        /\ \A i \in 1..PotCount : Call("pmc", "pot", 104 + i) \in Items(C)
        /\ \A i \in 1..Len(MacroVars) : Call("rdmacro", MacroVars[i], 10) \in Items(E)
    <2>1. Items(A) = {Call("statinfo", 0, 0), Call("pmc", "head", 327), Call("pmc", "next", 325)}
      BY DEF A, Items
    <2>2. IF cache = Nothing THEN Call("rdtofsinfo", 0, 0) \in Items(B)
          ELSE Items(AfterLayout(cache[1])) \subseteq Items(B)
      <3>1. ASSUME cache = Nothing PROVE Call("rdtofsinfo", 0, 0) \in Items(B)
        <4>1. B = <<Call("rdtofsinfo", 0, 0)>>
          BY <3>1 DEF B
        <4>2. QED
          BY <4>1 DEF Items
      <3>2. QED
        BY <3>1 DEF B
    <2>3. ASSUME NEW i \in 1..PotCount PROVE Call("pmc", "pot", 104 + i) \in Items(C)
      <3>1. PotCount \in Nat
        BY Bounds
      <3>2. Len(C) = PotCount /\ C[i] = Call("pmc", "pot", 104 + i)
        BY <3>1 DEF C
      <3>3. QED
        BY <3>2 DEF Items
    <2>4. ASSUME NEW i \in 1..Len(MacroVars) PROVE Call("rdmacro", MacroVars[i], 10) \in Items(E)
      <3>1. Len(MacroVars) \in Nat
        BY Bounds
      <3>2. Len(E) = Len(MacroVars) /\ E[i] = Call("rdmacro", MacroVars[i], 10)
        BY <3>1 DEF E
      <3>3. QED
        BY <3>2 DEF Items
    <2>5. QED
      BY <2>1, <2>2, <2>3, <2>4
  <1>10. Items(A) \cup Items(B) \cup Items(C) \cup Items(E) \subseteq Items(MillPlan)
    BY <1>1, <1>8
  <1>11. QED
    BY <1>1, <1>2, <1>7, <1>8, <1>9, <1>10

\* The plans of a lathe are plans, and this is what they have.
LEMMA LathePlanOf ==
  ASSUME NEW kept
  PROVE  /\ Planned("lathe", kept, LatheStatusPlan) /\ Planned("lathe", kept, LathePlan)
         /\ Head(LatheStatusPlan).fn = "statinfo" /\ LatheStatusPlan # <<>>
         /\ Head(LathePlan).fn = "statinfo" /\ LathePlan # <<>>
         /\ Free(LatheStatusPlan, {"rdexecprog"}) /\ Free(LathePlan, {"rdexecprog"})
         /\ Items(LatheStatusPlan) = {Call("statinfo", 0, 0), Call("exeprgname", 0, 0),
                                     Call("rdgcode", 13, 0), Call("rdcommand", 0, 0)}
         /\ Items(LatheStatusPlan) \subseteq Items(LathePlan)
         /\ {Call("rdtofsinfo", 0, 0), Call("rdwkcdshft", 0, 0)} \subseteq Items(LathePlan)
         /\ \A i \in 1..Len(ZofsSlots) : Call("rdzofs", ZofsSlots[i], 0) \in Items(LathePlan)
  <1> DEFINE A == <<Call("statinfo", 0, 0)>>
             B == <<Call("exeprgname", 0, 0)>>
             C == <<Call("rdgcode", 13, 0), Call("rdcommand", 0, 0)>>
             D == <<Call("rdtofsinfo", 0, 0)>>
             E == [i \in 1..Len(ZofsSlots) |-> Call("rdzofs", ZofsSlots[i], 0)]
             F == <<Call("rdwkcdshft", 0, 0)>>
             Special == {"rdtofsinfo", "rdtofs", "exeprgname", "rdexecprog"}
  <1>1. LatheStatusPlan = A \o B \o C /\ LathePlan = LatheStatusPlan \o D \o E \o F
    <2> HIDE DEF E
    <2>1. LatheStatusPlan = A \o B \o C
      BY DEF LatheStatusPlan
    <2>2. QED
      BY <2>1 DEF LathePlan, E
  <1>2. \A fn \in {"statinfo", "rdwkcdshft", "exeprgname", "rdtofsinfo"} :
          /\ Call(fn, 0, 0) \in AnyCall /\ Call(fn, 0, 0).fn = fn
          /\ GoodCall("lathe", kept, Call(fn, 0, 0))
    <2> TAKE fn \in {"statinfo", "rdwkcdshft", "exeprgname", "rdtofsinfo"}
    <2>1. /\ fn \in FnsOf("lathe")
          /\ fn \notin {"pmc", "rdtofs", "rdmacro", "rdzofs", "rdgrpid", "rd1tlifedata"}
      BY DEF FnsOf
    <2>2. 0 \in Int \cup {"head", "next", "pot"} /\ 0 \in Int
      OBVIOUS
    <2>3. QED
      BY <2>1, <2>2, PlainCall
  <1>3. Quiet("lathe", kept, A) /\ A # <<>> /\ A[1].fn = "statinfo"
    <2>1. A[1].fn = "statinfo" /\ A # <<>>
      BY DEF Call
    <2>2. QED
      BY <1>2, <2>1, PlannedOne
  <1>4. Planned("lathe", kept, B) /\ Planned("lathe", kept, D)
    BY <1>2, PlannedOne
  <1>5. Quiet("lathe", kept, C)
    <2>1. \A i \in 1..2 : /\ C[i] \in AnyCall /\ GoodCall("lathe", kept, C[i])
                          /\ C[i].fn \notin Special
      <3>1. /\ C[1] \in AnyCall /\ GoodCall("lathe", kept, C[1]) /\ C[1].fn = "rdgcode"
            /\ C[2] \in AnyCall /\ GoodCall("lathe", kept, C[2]) /\ C[2].fn = "rdcommand"
        BY PlainCall DEF FnsOf
      <3>2. QED
        BY <3>1
    <2>2. C = [i \in 1..2 |-> C[i]]
      OBVIOUS
    <2> HIDE DEF C
    <2>3. QED
      BY <2>1, <2>2, QuietList
  <1>6. Quiet("lathe", kept, E)
    <2>1. ZofsSlots \in Seq(Nat) /\ Len(ZofsSlots) \in Nat
      BY Bounds
    <2>2. \A i \in 1..Len(ZofsSlots) : /\ E[i] \in AnyCall /\ GoodCall("lathe", kept, E[i])
                                       /\ E[i].fn \notin Special
      <3> TAKE i \in 1..Len(ZofsSlots)
      <3>1. ZofsSlots[i] \in Nat /\ ZofsSlots[i] \in Range(ZofsSlots)
        BY <2>1 DEF Range
      <3>2. E[i] \in AnyCall /\ E[i].fn = "rdzofs" /\ E[i].a = ZofsSlots[i]
        <4>1. E[i] = Call("rdzofs", ZofsSlots[i], 0) /\ ZofsSlots[i] \in Int
          BY <3>1
        <4> HIDE DEF E
        <4>2. QED
          BY <4>1, NumberCall
      <3>3. QED
        BY <3>1, <3>2 DEF GoodCall, FnsOf
    <2>3. E = [i \in 1..Len(ZofsSlots) |-> E[i]]
      OBVIOUS
    <2> HIDE DEF E
    <2>4. QED
      BY <2>1, <2>2, <2>3, QuietList
  <1>7. Quiet("lathe", kept, F)
    BY <1>2, PlannedOne
  <1> HIDE DEF A, B, C, D, E, F
  <1>8. /\ A \in Seq(AnyCall) /\ B \in Seq(AnyCall) /\ C \in Seq(AnyCall)
        /\ D \in Seq(AnyCall) /\ E \in Seq(AnyCall) /\ F \in Seq(AnyCall)
    BY <1>3, <1>4, <1>5, <1>6, <1>7 DEF Quiet, Planned, Good
  <1>9. /\ Planned("lathe", kept, LatheStatusPlan)
        /\ Head(LatheStatusPlan).fn = "statinfo" /\ LatheStatusPlan # <<>>
        /\ LatheStatusPlan \in Seq(AnyCall) /\ LatheStatusPlan[1].fn = "statinfo"
    <2>1. Planned("lathe", kept, A \o B \o C)
      BY <1>3, <1>4, <1>5, PlannedJoin
    <2>2. A \o B \in Seq(AnyCall) /\ A \o B # <<>> /\ (A \o B)[1] = A[1]
      BY <1>3, <1>8, HeadJoin
    <2>3. /\ A \o B \o C \in Seq(AnyCall) /\ A \o B \o C # <<>>
          /\ (A \o B \o C)[1] = A[1] /\ Head(A \o B \o C) = A[1]
      BY <1>8, <2>2, HeadJoin
    <2>4. QED
      BY <1>1, <1>3, <2>1, <2>3
  <1>10. /\ Planned("lathe", kept, LathePlan) /\ LathePlan # <<>>
         /\ Head(LathePlan).fn = "statinfo" /\ Items(LatheStatusPlan) \subseteq Items(LathePlan)
         /\ Items(D) \cup Items(E) \cup Items(F) \subseteq Items(LathePlan)
    <2> DEFINE S == LatheStatusPlan
    <2>1. Planned("lathe", kept, S \o D)
      <3>1. Free(S, {"rdtofsinfo"} \cup {"rdtofsinfo", "rdtofs"})
        <4>1. /\ A \o B \in Seq(AnyCall) /\ Items(A \o B) = Items(A) \cup Items(B)
          BY <1>8, JoinOf
        <4>2. Items(S) = Items(A) \cup Items(B) \cup Items(C)
          <5> DEFINE Q == A \o B
          <5>1. Q \in Seq(AnyCall) /\ Items(Q) = Items(A) \cup Items(B)
            BY <4>1
          <5>2. S = Q \o C
            BY <1>1
          <5> HIDE DEF Q, S
          <5>3. Items(Q \o C) = Items(Q) \cup Items(C)
            BY <1>8, <5>1, JoinOf
          <5>4. QED
            BY <5>1, <5>2, <5>3
        <4>3. \A call \in Items(B) : call.fn = "exeprgname"
          <5>1. Items(B) = {Call("exeprgname", 0, 0)}
            BY DEF B, Items
          <5>2. QED
            BY <1>2, <5>1
        <4>4. QED
          BY <1>3, <1>5, <4>2, <4>3 DEF Quiet, Free
      <3>2. Free(D, {"exeprgname"} \cup {"exeprgname", "rdexecprog"}) /\ Items(D) = {Call("rdtofsinfo", 0, 0)}
        <4>1. Items(D) = {Call("rdtofsinfo", 0, 0)}
          BY DEF D, Items
        <4>2. QED
          BY <1>2, <4>1 DEF Free
      <3>3. /\ Alone(S \o D, "rdtofsinfo", {"rdtofsinfo", "rdtofs"})
            /\ Alone(S \o D, "exeprgname", {"exeprgname", "rdexecprog"})
        <4>1. /\ Alone(D, "rdtofsinfo", {"rdtofsinfo", "rdtofs"})
              /\ Alone(S, "exeprgname", {"exeprgname", "rdexecprog"})
          BY <1>4, <1>9 DEF Planned
        <4>2. QED
          BY <1>8, <1>9, <3>1, <3>2, <4>1, AloneJoin
      <3>4. S \o D \in Seq(AnyCall) /\ Items(S \o D) = Items(S) \cup Items(D)
        BY <1>8, <1>9, JoinOf
      <3>5. Good("lathe", kept, S \o D)
        BY <1>4, <1>9, <3>4 DEF Good, Planned
      <3>6. QED
        BY <3>3, <3>5 DEF Planned
    <2> HIDE DEF S
    <2>2. Planned("lathe", kept, S \o D \o E \o F)
      BY <1>6, <1>7, <2>1, PlannedJoin
    <2>3. S \in Seq(AnyCall) /\ S # <<>> /\ S[1].fn = "statinfo"
      BY <1>9 DEF S
    <2> DEFINE SD == S \o D
               SDE == SD \o E
               all == SDE \o F
    <2>4. /\ SD \in Seq(AnyCall) /\ SD # <<>> /\ SD[1] = S[1]
          /\ Items(SD) = Items(S) \cup Items(D)
      BY <1>8, <2>3, HeadJoin, JoinOf
    <2> HIDE DEF SD
    <2>5. /\ SDE \in Seq(AnyCall) /\ SDE # <<>> /\ SDE[1] = SD[1]
          /\ Items(SDE) = Items(SD) \cup Items(E)
      BY <1>8, <2>4, HeadJoin, JoinOf
    <2> HIDE DEF SDE
    <2>6. all # <<>> /\ Head(all) = SDE[1] /\ Items(all) = Items(SDE) \cup Items(F)
      BY <1>8, <2>5, HeadJoin, JoinOf
    <2>7. LathePlan = all
      BY <1>1 DEF S, SD, SDE
    <2> HIDE DEF all
    <2>8. Planned("lathe", kept, all)
      BY <2>2 DEF SD, SDE, all
    <2>9. QED
      BY <2>3, <2>4, <2>5, <2>6, <2>7, <2>8 DEF S
  <1>11. \E call \in Items(LatheStatusPlan) : call.fn = "exeprgname"
    <2> DEFINE Q == A \o B
    <2>1. Q \in Seq(AnyCall) /\ Items(Q) = Items(A) \cup Items(B)
      BY <1>8, JoinOf
    <2>2. Q # <<>>
      BY <1>3, <1>8, HeadJoin
    <2>3. LatheStatusPlan = Q \o C
      BY <1>1
    <2> HIDE DEF Q
    <2>4. Items(Q) \subseteq Items(LatheStatusPlan)
      BY <1>8, <2>1, <2>2, <2>3, HeadJoin
    <2>5. Call("exeprgname", 0, 0) \in Items(B)
      BY DEF B, Items
    <2>6. QED
      BY <1>2, <2>1, <2>4, <2>5
  <1>12. ASSUME NEW s, Planned("lathe", kept, s), \E call \in Items(s) : call.fn = "exeprgname"
         PROVE  Free(s, {"rdexecprog"})
    <2>1. PICK i \in 1..Len(s) : s[i].fn = "exeprgname"
      BY <1>12 DEF Items
    <2>2. \A j \in 1..Len(s) : i # j => s[j].fn # "rdexecprog"
      BY <1>12, <2>1 DEF Planned, Alone
    <2>3. QED
      BY <2>1, <2>2 DEF Free, Items
  <1>13. Items(LatheStatusPlan) = {Call("statinfo", 0, 0), Call("exeprgname", 0, 0),
                                   Call("rdgcode", 13, 0), Call("rdcommand", 0, 0)}
    <2> DEFINE s == LatheStatusPlan
    <2>1. /\ s[1] = Call("statinfo", 0, 0) /\ s[2] = Call("exeprgname", 0, 0)
          /\ s[3] = Call("rdgcode", 13, 0) /\ s[4] = Call("rdcommand", 0, 0) /\ Len(s) = 4
      BY DEF LatheStatusPlan
    <2> HIDE DEF s
    <2>2. \A i \in 1..4 : i = 1 \/ i = 2 \/ i = 3 \/ i = 4
      OBVIOUS
    <2>3. Items(s) = {s[1], s[2], s[3], s[4]}
      BY <2>1, <2>2 DEF Items
    <2>4. QED
      BY <2>1, <2>3 DEF s
  <1>14. /\ Call("rdtofsinfo", 0, 0) \in Items(D) /\ Call("rdwkcdshft", 0, 0) \in Items(F)
         /\ \A i \in 1..Len(ZofsSlots) : Call("rdzofs", ZofsSlots[i], 0) \in Items(E)
    <2>1. Call("rdtofsinfo", 0, 0) \in Items(D) /\ Call("rdwkcdshft", 0, 0) \in Items(F)
      BY DEF D, F, Items
    <2>2. ASSUME NEW i \in 1..Len(ZofsSlots) PROVE Call("rdzofs", ZofsSlots[i], 0) \in Items(E)
      <3>1. Len(ZofsSlots) \in Nat
        BY Bounds
      <3>2. Len(E) = Len(ZofsSlots) /\ E[i] = Call("rdzofs", ZofsSlots[i], 0)
        BY <3>1 DEF E
      <3>3. QED
        BY <3>2 DEF Items
    <2>3. QED
      BY <2>1, <2>2
  <1>15. QED
    BY <1>9, <1>10, <1>11, <1>12, <1>13, <1>14

-----------------------------------------------------------------------------
(* The data of the control.                                                 *)

(* Words by their keys.                                                    *)
AreWords(words) == DOMAIN words = Keys /\ \A k \in Keys : IsWord(k[1], words[k])

HeldOK ==
  /\ DOMAIN held = Keys
  /\ \A k \in Keys : \A word \in held[k] : IsWord(k[1], word)
  /\ outcome = "sweeping" => \A k \in Keys : control[k] \in held[k]

DataOK == AreWords(control) /\ HeldOK

\* The data of a profile, and the registers that its layouts use.
LEMMA KeysOf ==
  ASSUME profile \in Profiles
  PROVE  /\ \E n \in 1..RegisterLimit :
              Keys = DataOf(profile, n) /\ \A l \in LayoutsHad : l.use <= n
         /\ AreWords(Contents[profile])
         /\ \A change \in Changes[profile] : change[1] \in Keys /\ IsWord(change[1][1], change[2])
  BY ControlReadsAssumption DEF Keys, LayoutsHad, AreWords

(* What a request to export has left to do.                                *)
ExportTodo ==
  \/ todo = <<>>
  \/ todo = <<Call("exeprgname", 0, 0), Call("resolve", 0, 0)>>
  \/ \E o : todo = <<Call("rdexecprog", o, 512), Call("resolve", 0, 0)>>
  \/ todo = <<Call("resolve", 0, 0)>>
  \/ \E fn \in {"upstart3", "upload3", "upend3", "close"} : \E o : todo = <<Call(fn, o, 0)>>

CallsOK == IF profile = "export" THEN ExportTodo ELSE Planned(profile, cache, todo)

\* What a request to export has to do next, and what then.
LEMMA ExportCalls ==
  ASSUME ExportTodo, todo # <<>>
  PROVE  /\ Head(todo).fn \in {"exeprgname", "rdexecprog", "resolve", "upstart3", "upload3",
                               "upend3", "close"}
         /\ Head(todo).fn \in {"exeprgname", "rdexecprog"} => Tail(todo) = <<Call("resolve", 0, 0)>>
         /\ Head(todo).fn \notin {"exeprgname", "rdexecprog"} => Tail(todo) = <<>>
  <1>1. CASE todo = <<Call("exeprgname", 0, 0), Call("resolve", 0, 0)>>
    BY <1>1 DEF Call
  <1>2. CASE \E o : todo = <<Call("rdexecprog", o, 512), Call("resolve", 0, 0)>>
    <2>1. PICK o : todo = <<Call("rdexecprog", o, 512), Call("resolve", 0, 0)>>
      BY <1>2
    <2>2. Head(todo) = Call("rdexecprog", o, 512) /\ Tail(todo) = <<Call("resolve", 0, 0)>>
      BY <2>1
    <2>3. QED
      BY <2>2 DEF Call
  <1>3. CASE todo = <<Call("resolve", 0, 0)>>
    BY <1>3 DEF Call
  <1>4. CASE \E fn \in {"upstart3", "upload3", "upend3", "close"} : \E o : todo = <<Call(fn, o, 0)>>
    <2>1. PICK fn, o : fn \in {"upstart3", "upload3", "upend3", "close"} /\ todo = <<Call(fn, o, 0)>>
      BY <1>4
    <2>2. Head(todo) = Call(fn, o, 0) /\ Tail(todo) = <<>>
      BY <2>1
    <2>3. QED
      BY <2>1, <2>2 DEF Call
  <1>5. QED
    BY <1>1, <1>2, <1>3, <1>4 DEF ExportTodo

\* The call that is due is one that the profile makes, of what it has.
LEMMA CallIsGood ==
  ASSUME CallsOK, profile \in Profiles, todo # <<>>
  PROVE  GoodCall(profile, cache, Head(todo))
  <1>1. CASE profile = "export"
    <2>1. Head(todo).fn \in {"exeprgname", "rdexecprog", "resolve", "upstart3", "upload3",
                             "upend3", "close"}
      BY <1>1, ExportCalls DEF CallsOK
    <2>2. QED
      BY <1>1, <2>1 DEF GoodCall, FnsOf
  <1>2. CASE profile # "export"
    BY <1>2, PlannedTail DEF CallsOK
  <1>3. QED
    BY <1>1, <1>2

\* The layout that is read decides what is read next.
LEMMA PlannedLayout ==
  ASSUME profile \in {"mill", "lathe"}, NEW l \in LayoutsHad, NEW kept, NEW s,
         Planned(profile, kept, s), Free(s, {"rdtofsinfo", "rdtofs"})
  PROVE  /\ Planned(profile, Just(l), AfterLayout(l) \o s)
         /\ Free(AfterLayout(l) \o s, {"rdtofsinfo"})
  <1> DEFINE A == AfterLayout(l)
  <1>1. /\ Planned(profile, Just(l), A) /\ A \in Seq(AnyCall) /\ s \in Seq(AnyCall)
        /\ Free(A, {"rdtofsinfo", "exeprgname", "rdexecprog"})
    BY AfterLayoutOf DEF Planned, Good
  <1> HIDE DEF A
  <1>2. A \o s \in Seq(AnyCall) /\ Items(A \o s) = Items(A) \cup Items(s)
    BY <1>1, JoinOf
  <1>3. ASSUME NEW call \in Items(s) PROVE GoodCall(profile, Just(l), call)
    BY <1>3 DEF Planned, Good, Free, GoodCall
  <1>4. Good(profile, Just(l), A \o s)
    BY <1>1, <1>2, <1>3 DEF Planned, Good
  <1>5. Alone(A \o s, "rdtofsinfo", {"rdtofsinfo", "rdtofs"})
    <2>1. /\ Alone(A, "rdtofsinfo", {"rdtofsinfo", "rdtofs"})
          /\ Free(s, {"rdtofsinfo"} \cup {"rdtofsinfo", "rdtofs"})
      BY <1>1 DEF Planned, Free
    <2>2. QED
      BY <1>1, <2>1, AloneJoin
  <1>6. Alone(A \o s, "exeprgname", {"exeprgname", "rdexecprog"})
    <2>1. /\ Alone(s, "exeprgname", {"exeprgname", "rdexecprog"})
          /\ Free(A, {"exeprgname"} \cup {"exeprgname", "rdexecprog"})
      BY <1>1 DEF Planned, Free
    <2>2. QED
      BY <1>1, <2>1, AloneJoin
  <1>7. QED
    BY <1>1, <1>2, <1>4, <1>5, <1>6 DEF Planned, Free, A

(* What a read leaves to do: nothing, if it ends the sweep, the rest, or   *)
(* more before the rest.                                                   *)
NextCall == todo' = Tail(todo) /\ cache' = cache
LayoutCalls ==
  /\ Head(todo).fn = "rdtofsinfo" /\ cache' = Just(layout) /\ snap' = snap
  /\ todo' = AfterLayout(layout) \o Tail(todo)
LifeCalls ==
  /\ profile = "mill" /\ cache' = cache
  /\ \E s : Quiet(profile, cache, s) /\ todo' = s \o Tail(todo)
TextCall ==
  /\ Head(todo).fn = "exeprgname" /\ cache' = cache
  /\ \E o \in Nat : /\ snap' = With(snap, <<"program", 0>>, Just(o))
                    /\ todo' = <<Call("rdexecprog", o, 512)>> \o Tail(todo)

LeavesCalls ==
  \/ todo' = <<>> /\ outcome' # "sweeping"
  \/ NextCall \/ LayoutCalls \/ LifeCalls \/ TextCall

\* Every read leaves one of these.
LEMMA ReadsLeave ==
  ASSUME ClientOK, AreWords(control), CallsOK, Reads
  PROVE  LeavesCalls
  <1> DEFINE call == Head(todo)
  <1>1. Reading
    BY ReadsRead
  <1>2. /\ profile \in {"mill", "lathe", "export"} /\ todo # <<>>
        /\ GoodCall(profile, cache, call)
    BY <1>1, CallIsGood, Bounds DEF ClientOK, Reading
  <1>3. CASE ReadStatus \/ ReadAlarms
    BY <1>3 DEF ReadStatus, ReadAlarms, GoOn, Raise, clientVars, LeavesCalls, NextCall
  <1>4. CASE ReadLayout
    BY <1>4 DEF ReadLayout, Due, Raise, LeavesCalls, LayoutCalls
  <1>5. CASE ReadOffset
    BY <1>5 DEF ReadOffset, PassOver, GoOn, clientVars, LeavesCalls, NextCall
  <1>6. CASE ReadPmcByte
    BY <1>6 DEF ReadPmcByte, PassOver, GoOn, clientVars, LeavesCalls, NextCall
  <1>7. CASE ReadLifeGroups
    <2> DEFINE s == [g \in 1..Len(LifeGroups) |-> Call("rdgrpid", g, 0)]
    <2>1. call.fn = "rdngrp" /\ cache' = cache /\ todo' \in {Tail(todo), s \o Tail(todo)}
      BY <1>7 DEF ReadLifeGroups, PassOver, GoOn, Due, clientVars
    <2>2. profile = "mill"
      BY <1>2, <2>1 DEF GoodCall, FnsOf
    <2>3. Quiet("mill", cache, s)
      <3>1. Len(LifeGroups) \in Nat
        BY Bounds
      <3>2. ASSUME NEW g \in 1..Len(LifeGroups)
            PROVE  /\ s[g] \in AnyCall /\ s[g].fn = "rdgrpid" /\ GoodCall("mill", cache, s[g])
        <4>1. s[g] = Call("rdgrpid", g, 0) /\ g \in Int
          BY <3>1
        <4> HIDE DEF s
        <4>2. s[g] \in AnyCall /\ s[g].fn = "rdgrpid" /\ s[g].a = g
          BY <4>1, NumberCall
        <4>3. QED
          BY <4>2 DEF GoodCall, FnsOf
      <3>3. s = [g \in 1..Len(LifeGroups) |-> s[g]]
        OBVIOUS
      <3> HIDE DEF s
      <3>4. QED
        BY <3>1, <3>2, <3>3, QuietList
    <2>4. QED
      BY <2>1, <2>2, <2>3 DEF LeavesCalls, NextCall, LifeCalls
  <1>8. CASE ReadLifeGroup
    <2> DEFINE c == Call("rd1tlifedata", call.a, 1)
    <2>1. call.fn = "rdgrpid" /\ cache' = cache /\ todo' \in {Tail(todo), <<c>> \o Tail(todo)}
      BY <1>8 DEF ReadLifeGroup, PassOver, GoOn, Due, clientVars
    <2>2. profile = "mill" /\ call.a \in 1..Len(LifeGroups)
      BY <1>2, <2>1 DEF GoodCall, FnsOf
    <2>3. Quiet("mill", cache, <<c>>)
      <3>1. call.a \in Int
        BY <2>2
      <3>2. c \in AnyCall /\ c.fn = "rd1tlifedata" /\ c.a = call.a /\ c.b = 1
        BY <3>1, NumberCall
      <3>3. GoodCall("mill", cache, c)
        BY <2>2, <3>2 DEF GoodCall, FnsOf
      <3>4. QED
        BY <3>2, <3>3, PlannedOne
    <2>4. QED
      BY <2>1, <2>2, <2>3 DEF LeavesCalls, NextCall, LifeCalls
  <1>9. CASE ReadLifeSlot
    <2> DEFINE c == Call("rd1tlifedata", call.a, call.b + 1)
    <2>1. call.fn = "rd1tlifedata" /\ cache' = cache /\ todo' \in {Tail(todo), <<c>> \o Tail(todo)}
      BY <1>9 DEF ReadLifeSlot, PassOver, GoOn, Due, clientVars
    <2>2. profile = "mill" /\ call.a \in 1..Len(LifeGroups) /\ call.b \in Nat
      BY <1>2, <2>1 DEF GoodCall, FnsOf
    <2>3. Quiet("mill", cache, <<c>>)
      <3>1. call.a \in Int /\ call.b + 1 \in Int /\ call.b + 1 \in Nat \ {0}
        BY <2>2
      <3>2. c \in AnyCall /\ c.fn = "rd1tlifedata" /\ c.a = call.a /\ c.b = call.b + 1
        BY <3>1, NumberCall
      <3>3. GoodCall("mill", cache, c)
        BY <2>2, <3>1, <3>2 DEF GoodCall, FnsOf
      <3>4. QED
        BY <3>2, <3>3, PlannedOne
    <2>4. QED
      BY <2>1, <2>2, <2>3 DEF LeavesCalls, NextCall, LifeCalls
  <1>10. CASE ReadMacro
    BY <1>10 DEF ReadMacro, PassOver, GoOn, clientVars, LeavesCalls, NextCall
  <1>11. CASE ReadProgramNumber
    <2> DEFINE o == control[<<"program", 0>>]
    <2>1. call.fn = "exeprgname" /\ cache' = cache
      BY <1>11 DEF ReadProgramNumber, GoOn, Due, clientVars
    <2>2. o \in Nat
      <3>1. <<"program", 0>> \in Keys
        <4>1. profile \in {"lathe", "export"}
          BY <1>2, <2>1 DEF GoodCall, FnsOf
        <4>2. \E n \in 1..RegisterLimit : Keys = DataOf(profile, n)
          BY KeysOf DEF ClientOK
        <4>3. QED
          BY <4>1, <4>2 DEF DataOf
      <3>2. QED
        BY <3>1 DEF AreWords, IsWord
    <2>3. \/ todo' = Tail(todo)
          \/ /\ o > 0 /\ snap' = With(snap, <<"program", 0>>, DecodeTool(o))
             /\ todo' = <<Call("rdexecprog", o, 512)>> \o Tail(todo)
      <3> HIDE DEF call
      <3> QED
        BY <1>11 DEF ReadProgramNumber, GoOn, Observe
    <2> HIDE DEF o
    <2>4. o > 0 => DecodeTool(o) = Just(o)
      BY DEF DecodeTool
    <2>5. QED
      BY <2>1, <2>2, <2>3, <2>4 DEF LeavesCalls, NextCall, TextCall
  <1>12. CASE ReadProgramText
    BY <1>12 DEF ReadProgramText, GoOn, clientVars, LeavesCalls, NextCall
  <1>13. CASE ReadActiveWcs \/ ReadCommandedT
    BY <1>13 DEF ReadActiveWcs, ReadCommandedT, ReadStatusField, GoOn, clientVars,
                 LeavesCalls, NextCall
  <1>14. CASE ReadWorkOffset
    BY <1>14 DEF ReadWorkOffset, PassOver, GoOn, clientVars, LeavesCalls, NextCall
  <1>15. QED
    BY <1>3, <1>4, <1>5, <1>6, <1>7, <1>8, <1>9, <1>10, <1>11, <1>12, <1>13, <1>14 DEF Reads

\* Two sequences of one item.
LEMMA JoinTwo ==
  ASSUME NEW T, NEW s \in Seq(T), NEW t \in Seq(T), NEW u \in Seq(T),
         Len(s) = 1, Len(t) = 1, Len(u) = 2, s[1] = u[1], t[1] = u[2]
  PROVE  s \o t = u
  <1>1. /\ s \o t \in Seq(T) /\ Len(s \o t) = Len(s) + Len(t)
        /\ \A i \in 1..Len(s \o t) :
             (s \o t)[i] = IF i <= Len(s) THEN s[i] ELSE t[i - Len(s)]
    BY JoinOf
  <1>2. (s \o t)[1] = s[1]
    BY <1>1
  <1>3. (s \o t)[2] = t[1]
    BY <1>1
  <1>4. QED
    BY <1>1, <1>2, <1>3

\* Two items one after the other.
LEMMA TwoOf ==
  ASSUME NEW c, NEW d
  PROVE  <<c>> \o <<d>> = <<c, d>>
  <1> DEFINE T == {c, d}
             s == <<c>>
             t == <<d>>
             u == <<c, d>>
  <1>1. /\ s \in Seq(T) /\ t \in Seq(T) /\ u \in Seq(T)
        /\ Len(s) = 1 /\ Len(t) = 1 /\ Len(u) = 2 /\ s[1] = u[1] /\ t[1] = u[2]
    OBVIOUS
  <1> HIDE DEF T, s, t, u
  <1>2. s \o t = u
    BY <1>1, JoinTwo
  <1>3. QED
    BY <1>2 DEF s, t, u

\* One more call before the others.
LEMMA FrontOf ==
  ASSUME NEW c \in AnyCall, NEW t \in Seq(AnyCall)
  PROVE  /\ <<c>> \o t \in Seq(AnyCall) /\ Items(<<c>> \o t) = {c} \cup Items(t)
         /\ Head(<<c>> \o t) = c /\ Tail(<<c>> \o t) = t
  <1> DEFINE one == <<c>>
  <1>1. one \in Seq(AnyCall) /\ Len(one) = 1 /\ one[1] = c /\ one # <<>>
    <2> HIDE DEF AnyCall
    <2> QED
      OBVIOUS
  <1>2. Items(one) = {c}
    BY <1>1 DEF Items
  <1>3. Tail(one \o t) = t
    OBVIOUS
  <1> HIDE DEF one
  <1>4. one \o t \in Seq(AnyCall) /\ Items(one \o t) = Items(one) \cup Items(t)
    BY <1>1, JoinOf
  <1>5. Head(one \o t) = one[1]
    BY <1>1, HeadJoin
  <1>6. QED
    BY <1>1, <1>2, <1>3, <1>4, <1>5 DEF one

\* After its number the text of a program is read, and then it is resolved.
LEMMA TextThen ==
  ASSUME TextCall, Tail(todo) = <<Call("resolve", 0, 0)>>
  PROVE  \E o \in Nat : todo' = <<Call("rdexecprog", o, 512), Call("resolve", 0, 0)>>
  <1> DEFINE rest == Tail(todo)
             Text(o) == Call("rdexecprog", o, 512)
             resolve == Call("resolve", 0, 0)
  <1>1. PICK o \in Nat : todo' = <<Text(o)>> \o rest
    BY DEF TextCall
  <1>2. rest = <<resolve>>
    OBVIOUS
  <1> HIDE DEF rest, Text, resolve
  <1>3. <<Text(o)>> \o <<resolve>> = <<Text(o), resolve>>
    BY TwoOf
  <1>4. todo' = <<Text(o), resolve>>
    BY <1>1, <1>2, <1>3
  <1>5. QED
    BY <1>4 DEF Text, resolve

\* What is left to do is always a plan.
LEMMA CallsStep ==
  ASSUME ClientOK, AreWords(control), CallsOK, [Next]_vars
  PROVE  CallsOK'
  <1>1. profile \in {"mill", "lathe", "export"}
    BY Bounds DEF ClientOK
  <1>2. ASSUME NEW kept PROVE Planned(profile, kept, <<>>)
    BY DEF Planned, Good, Alone, Items
  <1>3. ASSUME Reads PROVE CallsOK'
    <2>1. /\ Reading /\ LeavesCalls /\ profile' = profile /\ todo # <<>>
      BY <1>3, ReadsRead, ReadsLeave DEF Reading, worldVars
    <2>2. CASE todo' = <<>>
      BY <1>2, <2>1, <2>2 DEF CallsOK, ExportTodo
    <2>3. CASE profile = "export"
      <3>1. ExportTodo
        BY <2>3 DEF CallsOK
      <3>2. /\ Head(todo).fn \in {"exeprgname", "rdexecprog", "resolve", "upstart3", "upload3",
                                  "upend3", "close"}
            /\ Tail(todo) \in {<<>>, <<Call("resolve", 0, 0)>>}
            /\ Head(todo).fn = "exeprgname" => Tail(todo) = <<Call("resolve", 0, 0)>>
        BY <2>1, <3>1, ExportCalls
      <3>3. CASE NextCall
        BY <2>1, <2>3, <3>2, <3>3 DEF CallsOK, ExportTodo, NextCall
      <3>4. CASE TextCall
        <4>1. Tail(todo) = <<Call("resolve", 0, 0)>>
          BY <3>2, <3>4 DEF TextCall
        <4>2. PICK o \in Nat : todo' = <<Call("rdexecprog", o, 512), Call("resolve", 0, 0)>>
          BY <3>4, <4>1, TextThen
        <4>3. QED
          BY <2>1, <2>3, <4>2 DEF CallsOK, ExportTodo
      <3>5. QED
        BY <2>1, <2>2, <2>3, <3>2, <3>3, <3>4 DEF LeavesCalls, LayoutCalls, LifeCalls
    <2>4. CASE profile # "export"
      <3>1. Planned(profile, cache, todo)
        BY <2>4 DEF CallsOK
      <3>2. /\ Planned(profile, cache, Tail(todo)) /\ Tail(todo) \in Seq(AnyCall)
            /\ Head(todo).fn = "rdtofsinfo" => Free(Tail(todo), {"rdtofsinfo", "rdtofs"})
            /\ Head(todo).fn = "exeprgname" => Free(Tail(todo), {"exeprgname", "rdexecprog"})
            /\ GoodCall(profile, cache, Head(todo))
        BY <2>1, <3>1, PlannedTail
      <3>3. CASE NextCall
        BY <2>1, <2>4, <3>2, <3>3 DEF CallsOK, NextCall
      <3>4. CASE LayoutCalls
        <4>1. Planned(profile, Just(layout), AfterLayout(layout) \o Tail(todo))
          BY <1>1, <2>4, <3>2, <3>4, PlannedLayout DEF LayoutCalls, ClientOK
        <4>2. QED
          BY <2>1, <2>4, <3>4, <4>1 DEF CallsOK, LayoutCalls
      <3>5. CASE LifeCalls
        <4>1. PICK s : Quiet(profile, cache, s) /\ todo' = s \o Tail(todo)
          BY <3>5 DEF LifeCalls
        <4>2. Planned(profile, cache, s \o Tail(todo))
          BY <3>2, <4>1, PlannedJoin
        <4>3. QED
          BY <2>1, <2>4, <3>5, <4>1, <4>2 DEF CallsOK, LifeCalls
      <3>6. CASE TextCall
        <4>1. PICK o \in Nat : todo' = <<Call("rdexecprog", o, 512)>> \o Tail(todo)
          BY <3>6 DEF TextCall
        <4> DEFINE c == Call("rdexecprog", o, 512)
        <4>2. c \in AnyCall /\ c.fn = "rdexecprog" /\ GoodCall(profile, cache, c)
          <5>1. c \in AnyCall /\ c.fn = "rdexecprog"
            BY NumberCall
          <5>2. profile = "lathe"
            BY <1>1, <2>4, <3>2, <3>6 DEF TextCall, GoodCall, FnsOf
          <5>3. QED
            BY <5>1, <5>2 DEF GoodCall, FnsOf
        <4> HIDE DEF c
        <4>3. Planned(profile, cache, <<c>>) /\ <<c>> \in Seq(AnyCall) /\ Items(<<c>>) = {c}
          <5>1. Planned(profile, cache, <<c>>)
            BY <4>2, PlannedOne
          <5>2. QED
            BY <5>1 DEF Planned, Good, Items
        <4>4. <<c>> \o Tail(todo) \in Seq(AnyCall)
              /\ Items(<<c>> \o Tail(todo)) = {c} \cup Items(Tail(todo))
          BY <3>2, <4>2, FrontOf
        <4>5. Good(profile, cache, <<c>> \o Tail(todo))
          BY <3>2, <4>3, <4>4 DEF Planned, Good
        <4>6. Alone(<<c>> \o Tail(todo), "rdtofsinfo", {"rdtofsinfo", "rdtofs"})
          <5>1. /\ Free(<<c>>, {"rdtofsinfo"} \cup {"rdtofsinfo", "rdtofs"})
                /\ Alone(Tail(todo), "rdtofsinfo", {"rdtofsinfo", "rdtofs"})
            BY <3>2, <4>2, <4>3 DEF Planned, Free
          <5>2. QED
            BY <3>2, <4>3, <5>1, AloneJoin
        <4>7. Alone(<<c>> \o Tail(todo), "exeprgname", {"exeprgname", "rdexecprog"})
          <5>1. /\ Free(Tail(todo), {"exeprgname"} \cup {"exeprgname", "rdexecprog"})
                /\ Alone(<<c>>, "exeprgname", {"exeprgname", "rdexecprog"})
            BY <3>2, <3>6, <4>3 DEF Planned, Free, TextCall
          <5>2. QED
            BY <3>2, <4>3, <5>1, AloneJoin
        <4>8. Planned(profile, cache, <<c>> \o Tail(todo))
          BY <4>5, <4>6, <4>7 DEF Planned
        <4>9. QED
          BY <2>1, <2>4, <3>6, <4>1, <4>8 DEF CallsOK, TextCall, c
      <3>7. QED
        BY <2>1, <2>2, <3>3, <3>4, <3>5, <3>6 DEF LeavesCalls
    <2>5. QED
      BY <2>3, <2>4
  <1>4. ASSUME BeginSweep PROVE CallsOK'
    <2>1. profile' = profile /\ cache' = cache
      BY <1>4 DEF BeginSweep, Begin, clientVars, worldVars
    <2>2. CASE profile = "mill"
      BY <1>4, <2>1, <2>2, MillPlanOf DEF BeginSweep, Begin, CallsOK, ClientOK
    <2>3. CASE profile = "lathe"
      BY <1>4, <2>1, <2>3, LathePlanOf DEF BeginSweep, Begin, CallsOK
    <2>4. QED
      BY <1>4, <2>2, <2>3 DEF BeginSweep
  <1>5. ASSUME Deliver PROVE CallsOK'
    BY <1>5 DEF Deliver, CallsOK, clientVars, worldVars
  <1>6. ASSUME Connection PROVE CallsOK'
    <2>1. UNCHANGED <<profile, todo>>
      BY <1>6 DEF Connection, AllocateHandle, Prime, PrimeFails, Close, sweepVars, worldVars
    <2>2. CASE AllocateHandle
      <3>1. todo = <<>>
        BY <2>2 DEF AllocateHandle, ClientOK
      <3>2. QED
        BY <1>2, <2>1, <3>1 DEF CallsOK, ExportTodo
    <2>3. CASE ~AllocateHandle
      <3>1. cache' = cache
        BY <1>6, <2>3 DEF Connection, Prime, PrimeFails, Close
      <3>2. QED
        BY <2>1, <3>1 DEF CallsOK, ExportTodo
    <2>4. QED
      BY <2>2, <2>3
  <1>7. ASSUME World PROVE CallsOK'
    <2>1. UNCHANGED <<profile, todo, cache>>
      BY <1>7 DEF World, Edit, Reconfigure, LinkChanges, sweepVars, clientVars
    <2>2. QED
      BY <2>1 DEF CallsOK, ExportTodo
  <1>8. ASSUME Export PROVE CallsOK'
    <2>1. profile' = profile /\ cache' = cache
      BY <1>8 DEF Export, BeginExport, Resolve, StartUpload, UploadChunk, EndUpload,
                  CloseExport, clientVars, Apart, worldVars
    <2>2. profile = "export"
      <3>1. CASE BeginExport
        BY <3>1 DEF BeginExport
      <3>2. CASE ~BeginExport
        <4>1. /\ todo # <<>>
              /\ Head(todo).fn \in {"resolve", "upstart3", "upload3", "upend3", "close"}
          BY <1>8, <3>2 DEF Export, Resolve, StartUpload, UploadChunk, EndUpload, CloseExport, Due
        <4>2. GoodCall(profile, cache, Head(todo))
          BY <4>1, CallIsGood DEF ClientOK
        <4>3. QED
          BY <1>1, <4>1, <4>2 DEF GoodCall, FnsOf
      <3>3. QED
        BY <3>1, <3>2
    <2>3. ExportTodo'
      <3>1. CASE BeginExport
        BY <3>1 DEF BeginExport, ExportTodo
      <3>2. CASE Resolve
        BY <3>2 DEF Resolve, Throw, Then, ExportTodo
      <3>3. CASE StartUpload
        BY <3>3 DEF StartUpload, Throw, Then, Call1, ExportTodo
      <3>4. CASE UploadChunk
        <4>1. todo' \in {Cleanup, Call1("upload3")}
          BY <3>4 DEF UploadChunk, NoData, Throw, Then
        <4>2. QED
          BY <4>1 DEF Cleanup, Call1, ExportTodo
      <3>5. CASE EndUpload
        BY <3>5 DEF EndUpload, Then, Call1, ExportTodo
      <3>6. CASE CloseExport
        BY <3>6 DEF CloseExport, ExportTodo
      <3>7. QED
        BY <1>8, <3>1, <3>2, <3>3, <3>4, <3>5, <3>6 DEF Export
    <2>4. QED
      BY <2>1, <2>2, <2>3 DEF CallsOK
  <1>9. ASSUME NEW sparse, ExportG10(sparse) PROVE CallsOK'
    BY <1>9 DEF ExportG10, exportVars, readVars, clientVars, sweepVars, worldVars, CallsOK, ExportTodo
  <1>10. ASSUME RunG10 PROVE CallsOK'
    BY <1>10 DEF RunG10, clientVars, sweepVars, CallsOK, ExportTodo
  <1>11. ASSUME Stutters PROVE CallsOK'
    BY <1>11 DEF Stutters, vars, exportVars, readVars, clientVars, sweepVars, worldVars, CallsOK, ExportTodo
  <1>12. QED
    BY <1>3, <1>4, <1>5, <1>6, <1>7, <1>8, <1>9, <1>10, <1>11, StepKinds

-----------------------------------------------------------------------------
(* What pottracker makes of a word, and what the panel shows for it.        *)

\* A product divided by a factor.
LEMMA Quotient ==
  ASSUME NEW a \in Int, NEW b \in Nat \ {0}
  PROVE  (a * b) \div b = a
  <1> DEFINE q == (a * b) \div b
             r == (a * b) % b
  <1>1. a * b = b * q + r /\ q \in Int /\ r \in 0..(b - 1)
    OBVIOUS
  <1>2. b * (a - q) = r
    BY <1>1
  <1> HIDE DEF q, r
  <1>3. a - q \in Int
    BY <1>1
  <1>4. ~(a - q >= 1)
    <2>1. a - q >= 1 => b * (a - q) >= b
      BY <1>3
    <2>2. QED
      BY <1>1, <1>2, <2>1
  <1>5. ~(a - q <= -1)
    <2>1. a - q <= -1 => b * (a - q) <= -b
      BY <1>3
    <2>2. QED
      BY <1>1, <1>2, <2>1
  <1>6. QED
    BY <1>1, <1>3, <1>4, <1>5 DEF q

\* A byte that is two decimal digits, and no other, is the number of a tool.
LEMMA PotShown ==
  ASSUME NEW i, NEW word \in 0..255
  PROVE  /\ DecodePotBcd(word) = Shown(<<"pot", i>>, word)
         /\ DecodePotBcd(word) = Nothing \/ \E t \in Nat : DecodePotBcd(word) = Just(t)
  <1> DEFINE hi == word \div 16
             lo == word % 16
             Is(t) == word = 16 * (t \div 10) + (t % 10)
  <1>1. hi \in 0..15 /\ lo \in 0..15 /\ word = 16 * hi + lo
    OBVIOUS
  <1>2. \A t \in 1..99 : t \div 10 \in 0..9 /\ t % 10 \in 0..9 /\ t = 10 * (t \div 10) + (t % 10)
    OBVIOUS
  <1>3. \A t \in 1..99 : Is(t) => hi = t \div 10 /\ lo = t % 10
    BY <1>1, <1>2
  <1>4. Shown(<<"pot", i>>, word) =
          IF \E t \in 1..99 : Is(t) THEN Just(CHOOSE t \in 1..99 : Is(t)) ELSE Nothing
    BY DEF Shown
  <1>5. DecodePotBcd(word) =
          IF hi > 9 \/ lo > 9 \/ hi * 10 + lo = 0 THEN Nothing ELSE Just(hi * 10 + lo)
    BY DEF DecodePotBcd
  <1>6. CASE \E t \in 1..99 : Is(t)
    <2>1. PICK t \in 1..99 : Is(t)
      BY <1>6
    <2>2. \A s \in 1..99 : Is(s) => s = hi * 10 + lo
      BY <1>2, <1>3
    <2>3. (CHOOSE s \in 1..99 : Is(s)) = hi * 10 + lo
      <3> HIDE DEF Is, hi, lo
      <3> QED
        BY <2>1, <2>2
    <2>4. hi \in 0..9 /\ lo \in 0..9 /\ hi * 10 + lo = t
      BY <1>2, <1>3, <2>1
    <2> HIDE DEF Is, hi, lo
    <2>5. Shown(<<"pot", i>>, word) = Just(t)
      BY <1>4, <1>6, <2>3, <2>4, Zenon
    <2>6. DecodePotBcd(word) = Just(t)
      <3>1. ~(hi > 9 \/ lo > 9 \/ hi * 10 + lo = 0)
        BY <2>1, <2>4
      <3>2. QED
        BY <1>5, <2>4, <3>1
    <2>7. QED
      BY <2>1, <2>5, <2>6
  <1>7. CASE ~(\E t \in 1..99 : Is(t))
    <2>1. ASSUME hi \in 0..9, lo \in 0..9, hi * 10 + lo # 0 PROVE FALSE
      <3> DEFINE t == hi * 10 + lo
      <3> HIDE DEF hi, lo
      <3>1. t \in 1..99 /\ t \div 10 = hi /\ t % 10 = lo
        BY <2>1
      <3>2. word = 16 * (t \div 10) + (t % 10)
        BY <1>1, <3>1
      <3>3. QED
        BY <1>7, <3>1, <3>2
    <2> HIDE DEF Is, hi, lo
    <2>2. hi > 9 \/ lo > 9 \/ hi * 10 + lo = 0
      BY <1>1, <2>1
    <2>3. QED
      BY <1>4, <1>5, <1>7, <2>2
  <1>8. QED
    BY <1>6, <1>7

\* A number that is not zero is the number of a tool.
LEMMA ToolShown ==
  ASSUME NEW what \in {"head", "next", "tword", "program"}, NEW word \in Nat
  PROVE  /\ DecodeTool(word) = Shown(<<what, 0>>, word)
         /\ DecodeTool(word) = Nothing \/ DecodeTool(word) = Just(word)
  <1>1. Shown(<<what, 0>>, word) = IF word = 0 THEN Nothing ELSE Just(word)
    BY DEF Shown
  <1>2. QED
    BY <1>1 DEF DecodeTool

\* Ten thousand is a hundred hundreds, and so on.
LEMMA Powers ==
  ASSUME NEW d \in 0..4
  PROVE  /\ Power10(d) \in Nat \ {0} /\ Power10(4 - d) \in Nat \ {0}
         /\ Whole = Power10(4 - d) * Power10(d)
  BY DEF Power10, Whole

\* A macro variable has the value that is shown.
LEMMA MacroShown ==
  ASSUME NEW i, NEW word, IsWord("macro", word)
  PROVE  DecodeMacro(word) = Shown(<<"macro", i>>, word)
  <1>1. word.mcr \in Int /\ word.dec \in Int /\ word.dec <= 4
    BY DEF IsWord
  <1>2. Shown(<<"macro", i>>, word) =
          IF word.dec < 0 THEN Nothing ELSE Just(word.mcr * Power10(4 - word.dec))
    BY DEF Shown
  <1>3. ASSUME ~(word.dec < 0)
        PROVE  (word.mcr * Whole) \div Power10(word.dec) = word.mcr * Power10(4 - word.dec)
    <2> DEFINE d == word.dec
               a == Power10(4 - d)
               b == Power10(d)
    <2>1. d \in 0..4
      BY <1>1, <1>3
    <2>2. a \in Nat \ {0} /\ b \in Nat \ {0} /\ Whole = a * b
      BY <2>1, Powers
    <2> HIDE DEF a, b
    <2>3. word.mcr * Whole = (word.mcr * a) * b /\ word.mcr * a \in Int
      BY <1>1, <2>2
    <2>4. ((word.mcr * a) * b) \div b = word.mcr * a
      BY <2>2, <2>3, Quotient
    <2>5. QED
      BY <2>3, <2>4 DEF a, b
  <1>4. QED
    BY <1>2, <1>3 DEF DecodeMacro

-----------------------------------------------------------------------------
(* What a sweep reports.                                                    *)

LengthBanks == {"h_geom", "h_wear", "d_geom", "d_wear"}

(* Values of a datum; and data as snapshots and the mirror have them.      *)
ValueOK(k, v) ==
  /\ k[1] = "tip" => \E w \in Int : v = w * Whole
  /\ k[1] \in AllBanks \ {"tip"} => \E w \in Int : v = w * Increment
  /\ k[1] \in {"pot", "head", "next"} => v = Nothing \/ \E t \in Nat : v = Just(t)

Known(k, v) == k = <<"name", 0>> \/ k[1] = "life" \/ (k \in Keys /\ ValueOK(k, v))

RowsOK(rows) == \A k \in DOMAIN rows : Known(k, rows[k])

(* What SnapshotIsHonest says of a datum, and more of a status.            *)
Honest(k, v) ==
  \/ k[1] \in {"status", "name", "life"}
  \/ relaid /\ k[1] \in LengthBanks
  \/ v \in {Shown(k, word) : word \in held[k]}
  \/ k[1] \in {"head", "next", "wcs", "tword", "program"} /\ v = Nothing

Reported(k, v) ==
  /\ Known(k, v) /\ Honest(k, v)
  /\ k = <<"status", 0>> => \E word \in held[k] : v = DecodeStatus(word)

(* A mill's registers are read after the layout.                           *)
LayoutFirst ==
  (profile = "mill" /\ ~Free(todo, {"rdtofsinfo"})) => \A k \in DOMAIN snap : k[1] \notin LengthBanks

SnapOK == (\A k \in DOMAIN snap : Reported(k, snap[k])) /\ LayoutFirst

(* What a read adds to the snapshot.                                       *)
Observes ==
  \/ snap' \in {snap, Empty}
  \/ \E k, v : /\ snap' = With(snap, k, v) /\ Reported(k, v)
               /\ k[1] \in LengthBanks => Head(todo).fn = "rdtofs"

\* The banks by name, all of them.
LEMMA AllBankNames ==
  AllBanks = LengthBanks \cup {"x_wear", "z_wear", "r_wear", "x_geom", "z_geom", "r_geom", "tip"}
  BY BankNames DEF AllBanks, LengthBanks

\* The data of a control by profile.
LEMMA DataShapes ==
  ASSUME profile \in Profiles
  PROVE  \E n \in 1..RegisterLimit :
           /\ Keys = DataOf(profile, n) /\ \A l \in LayoutsHad : l.use <= n
           /\ \A k \in Keys : k[1] \in AllBanks => k = <<k[1], k[2]>> /\ k[2] \in 1..n
           /\ profile = "mill" => /\ LengthBanks \X (1..n) \subseteq Keys
                                  /\ \A k \in Keys : k[1] \in AllBanks => k[1] \in LengthBanks
           /\ profile = "lathe" => /\ (AllBanks \ LengthBanks) \X (1..n) \subseteq Keys
                                   /\ \A k \in Keys : k[1] \notin LengthBanks
           /\ profile = "export" => \A k \in Keys : k = <<"program", 0>>
  <1>1. profile \in {"mill", "lathe", "export"}
    BY Bounds
  <1>2. PICK n \in 1..RegisterLimit : Keys = DataOf(profile, n) /\ \A l \in LayoutsHad : l.use <= n
    BY KeysOf
  <1>3. CASE profile = "mill"
    <2>1. Keys = ({"status", "head", "next"} \X {0}) \cup ({"pot"} \X (1..PotCount))
                   \cup ({"macro"} \X Range(MacroVars)) \cup (LengthBanks \X (1..n))
      BY <1>2, <1>3 DEF DataOf, LengthBanks
    <2>2. /\ LengthBanks \X (1..n) \subseteq Keys
          /\ \A k \in Keys : k[1] \in AllBanks => /\ k[1] \in LengthBanks
                                                  /\ k = <<k[1], k[2]>> /\ k[2] \in 1..n
      BY <2>1, AllBankNames DEF LengthBanks
    <2>3. QED
      BY <1>2, <1>3, <2>2
  <1>4. CASE profile = "lathe"
    <2> DEFINE Banks == AllBanks \ LengthBanks
    <2>1. Banks = {"x_wear", "x_geom", "z_wear", "z_geom", "r_wear", "r_geom", "tip"}
      BY AllBankNames DEF LengthBanks
    <2>2. Keys = ({"status", "program", "wcs", "tword", "shift"} \X {0})
                   \cup ({"zofs"} \X Range(ZofsSlots)) \cup (Banks \X (1..n))
      BY <1>2, <1>4, <2>1 DEF DataOf
    <2>3. /\ Banks \X (1..n) \subseteq Keys
          /\ \A k \in Keys : /\ k[1] \in AllBanks => k = <<k[1], k[2]>> /\ k[2] \in 1..n
                             /\ k[1] \notin LengthBanks
      BY <2>1, <2>2, AllBankNames DEF LengthBanks
    <2>4. QED
      BY <1>2, <1>4, <2>3
  <1>5. CASE profile = "export"
    <2>1. Keys = {<<"program", 0>>}
      BY <1>2, <1>5 DEF DataOf
    <2>2. \A k \in Keys : k = <<"program", 0>> /\ k[1] \notin AllBanks
      BY <2>1, AllBankNames DEF LengthBanks
    <2>3. QED
      BY <1>2, <1>5, <2>2
  <1>6. QED
    BY <1>1, <1>3, <1>4, <1>5

\* A register is reported as it is shown.
LEMMA BankShown ==
  ASSUME NEW bank \in AllBanks, NEW a, NEW word \in Int
  PROVE  /\ DecodeOffset(bank, word, Increment) = Shown(<<bank, a>>, word)
         /\ ValueOK(<<bank, a>>, DecodeOffset(bank, word, Increment))
  <1> USE AllBankNames DEF LengthBanks
  <1>1. CASE bank = "tip"
    BY <1>1 DEF DecodeOffset, Shown, ValueOK
  <1>2. CASE bank # "tip"
    <2>1. DecodeOffset(bank, word, Increment) = word * Increment
      BY <1>2 DEF DecodeOffset
    <2>2. Shown(<<bank, a>>, word) = word * Increment
      BY <1>2 DEF Shown
    <2>3. QED
      BY <1>2, <2>1, <2>2 DEF ValueOK
  <1>3. QED
    BY <1>1, <1>2

\* The word of a register is a number.
LEMMA BankWord ==
  ASSUME NEW bank \in AllBanks, NEW word, IsWord(bank, word)
  PROVE  word \in Int
  BY AllBankNames DEF LengthBanks, IsWord

\* A register is reported under the name that the panel has for it, unless the
\* table was laid out anew.
LEMMA OffsetObserved ==
  ASSUME ClientOK, DataOK, CallsOK, ReadOffset
  PROVE  Observes
  <1> DEFINE call == Head(todo)
             bank == BanksOf(cache[1].type)[call.b]
             key == <<bank, call.a>>
             panel == PanelBank(call.b)
             word == control[<<panel, call.a>>]
             value == DecodeOffset(bank, word, Increment)
  <1>1. /\ outcome = "sweeping" /\ todo # <<>> /\ call.fn = "rdtofs"
        /\ \/ Accepted(call) /\ Observe(key, value)
           \/ snap' \in {snap, Empty}
    BY DEF ReadOffset, Due, Served, PassOver
  <1>2. CASE snap' \in {snap, Empty}
    BY <1>2 DEF Observes
  <1>3. CASE Accepted(call) /\ Observe(key, value)
    <2>1. /\ profile \in {"mill", "lathe"} /\ cache # Nothing
          /\ call.a \in 1..cache[1].use /\ call.b \in DOMAIN BanksFor(profile, cache[1].type)
      <3>1. GoodCall(profile, cache, call) /\ profile \in {"mill", "lathe", "export"}
        BY <1>1, CallIsGood, Bounds DEF ClientOK
      <3> HIDE DEF call
      <3>2. QED
        BY <1>1, <3>1 DEF GoodCall, FnsOf
    <2>2. PICK l \in LayoutsHad : cache = Just(l)
      BY <2>1 DEF ClientOK
    <2>3. /\ cache[1] = l /\ l \in [type : 1..3, use : Nat]
          /\ layout \in LayoutsHad /\ layout \in [type : 1..3, use : Nat]
          /\ BanksOf(cache[1].type) = BanksFor(profile, l.type)
      BY <2>1, <2>2, AfterLayoutOf DEF Just, ClientOK, BanksOf, BanksFor
    <2>4. call.a \in 1..layout.use /\ call.b \in PanelCodes
      <3>1. call.a <= layout.use /\ call.b \in PanelCodes
        BY <1>1, <1>3 DEF Accepted, Serves
      <3> HIDE DEF call
      <3>2. QED
        BY <2>1, <2>3, <3>1
    <2>5. /\ bank \in (IF profile = "mill" THEN LengthBanks ELSE AllBanks \ LengthBanks)
          /\ panel \in (IF profile = "mill" THEN LengthBanks ELSE AllBanks \ LengthBanks)
          /\ bank = panel \/ (profile = "mill" /\ l # layout)
      <3> DEFINE b == call.b
      <3>1. b \in DOMAIN BanksFor(profile, l.type) /\ b \in PanelCodes
            /\ bank = BanksFor(profile, l.type)[b] /\ panel = PanelBank(b)
        BY <2>1, <2>3, <2>4
      <3> HIDE DEF b, bank, panel
      <3>2. CASE profile = "lathe"
        <4>1. b \in 0..6 /\ bank = LatheTypeMap[b]
          BY <3>1, <3>2 DEF BanksFor, LatheTypeMap
        <4>2. /\ panel = <<"x_wear", "x_geom", "z_wear", "z_geom", "r_wear", "r_geom", "tip",
                           "tip">>[b + 1]
          BY <3>1, <3>2 DEF PanelBank
        <4>3. bank = panel /\ bank \in {"x_wear", "x_geom", "z_wear", "z_geom", "r_wear",
                                        "r_geom", "tip"}
          BY <4>1, <4>2 DEF LatheTypeMap
        <4>4. QED
          BY <3>2, <4>3, AllBankNames DEF LengthBanks
      <3>3. CASE profile = "mill"
        <4>1. bank \in LengthBanks /\ bank = OfsTypeDispatch(l.type)[b]
              /\ b \in DOMAIN OfsTypeDispatch(l.type)
          <5>1. b \in DOMAIN OfsTypeDispatch(l.type) /\ bank = OfsTypeDispatch(l.type)[b]
            BY <3>1, <3>3 DEF BanksFor
          <5>2. QED
            BY <2>3, <5>1 DEF OfsTypeDispatch, MemoryA, MemoryB, MemoryC, LengthBanks
        <4>2. panel \in LengthBanks
          BY <2>3, <3>1, <3>3 DEF PanelBank, PanelCodes, LengthBanks
        <4>3. ASSUME l = layout PROVE bank = panel
          BY <2>3, <3>1, <3>3, <4>1, <4>3 DEF PanelBank, OfsTypeDispatch, MemoryA, MemoryB, MemoryC
        <4>4. QED
          BY <3>3, <4>1, <4>2, <4>3
      <3>4. QED
        BY <2>1, <3>2, <3>3
    <2> HIDE DEF bank, panel, call
    <2>6. key \in Keys /\ <<panel, call.a>> \in Keys
      <3>1. PICK n \in 1..RegisterLimit :
              /\ \A m \in LayoutsHad : m.use <= n
              /\ profile = "mill" => LengthBanks \X (1..n) \subseteq Keys
              /\ profile = "lathe" => (AllBanks \ LengthBanks) \X (1..n) \subseteq Keys
        BY DataShapes DEF ClientOK
      <3>2. n \in Nat /\ layout.use <= n /\ layout.use \in Nat
        BY <2>3, <3>1 DEF RegisterLimit
      <3>3. call.a \in 1..n
        BY <2>4, <3>2
      <3>4. QED
        BY <2>1, <2>5, <3>1, <3>3
    <2>7. word \in Int /\ word \in held[<<panel, call.a>>] /\ bank \in AllBanks
      <3>1. panel \in AllBanks /\ bank \in AllBanks
        BY <2>5, AllBankNames
      <3>2. IsWord(panel, word) /\ word \in held[<<panel, call.a>>]
        BY <1>1, <2>6 DEF DataOK, AreWords, HeldOK
      <3>3. QED
        BY <3>1, <3>2, BankWord
    <2> HIDE DEF word
    <2>8. value = Shown(key, word) /\ ValueOK(key, value)
      BY <2>7, BankShown
    <2> HIDE DEF value
    <2>9. Known(key, value) /\ key[1] = bank
      BY <2>6, <2>8 DEF Known
    <2>10. Honest(key, value)
      <3>1. CASE bank = panel
        BY <2>7, <2>8, <3>1 DEF Honest
      <3>2. CASE profile = "mill" /\ l # layout
        <4>1. relaid
          <5>1. Just(l) # Just(layout)
            BY <3>2 DEF Just
          <5>2. QED
            BY <2>1, <2>2, <5>1 DEF ClientOK, LayoutIsKept
        <4>2. QED
          BY <2>5, <3>2, <4>1 DEF Honest
      <3>3. QED
        BY <2>5, <3>1, <3>2
    <2>11. key # <<"status", 0>>
      BY <2>7, AllBankNames DEF LengthBanks
    <2>12. Reported(key, value)
      BY <2>9, <2>10, <2>11 DEF Reported
    <2> HIDE DEF key
    <2>13. QED
      BY <1>1, <1>3, <2>12 DEF Observes, Observe, call
  <1>4. QED
    BY <1>1, <1>2, <1>3

\* The data besides the registers.
LEMMA KeysHere ==
  ASSUME profile \in Profiles
  PROVE  /\ profile = "mill" => /\ \A what \in {"status", "head", "next"} : <<what, 0>> \in Keys
                                /\ \A i \in 1..PotCount : <<"pot", i>> \in Keys
                                /\ \A i \in Range(MacroVars) : <<"macro", i>> \in Keys
         /\ profile = "lathe" => /\ \A what \in {"status", "program", "wcs", "tword", "shift"} :
                                      <<what, 0>> \in Keys
                                 /\ \A i \in Range(ZofsSlots) : <<"zofs", i>> \in Keys
         /\ profile = "export" => <<"program", 0>> \in Keys
  <1>1. PICK n \in 1..RegisterLimit : Keys = DataOf(profile, n)
    BY KeysOf
  <1>2. QED
    BY <1>1 DEF DataOf

\* A datum that is read is reported as it is shown; a field of the status may
\* also be none.
LEMMA ShownHere ==
  ASSUME DataOK, outcome = "sweeping", NEW what, NEW i, <<what, i>> \in Keys,
         what \notin AllBanks, what # "status"
  PROVE  /\ \A v : /\ v = Shown(<<what, i>>, control[<<what, i>>])
                   /\ what \in {"pot", "head", "next"} => v = Nothing \/ \E t \in Nat : v = Just(t)
                   => Reported(<<what, i>>, v)
         /\ what \in {"head", "next", "wcs", "tword", "program"} => Reported(<<what, i>>, Nothing)
  <1> DEFINE k == <<what, i>>
  <1>1. /\ k \in Keys /\ k[1] = what /\ k # <<"status", 0>> /\ control[k] \in held[k]
        /\ what # "tip" /\ what \notin AllBanks
    BY AllBankNames DEF DataOK, HeldOK
  <1> HIDE DEF k
  <1>2. ASSUME NEW v, v = Shown(k, control[k]),
               what \in {"pot", "head", "next"} => v = Nothing \/ \E t \in Nat : v = Just(t)
        PROVE  Reported(k, v)
    <2>1. ValueOK(k, v)
      BY <1>1, <1>2 DEF ValueOK
    <2>2. QED
      BY <1>1, <1>2, <2>1 DEF Reported, Known, Honest
  <1>3. ASSUME what \in {"head", "next", "wcs", "tword", "program"}
        PROVE  Reported(k, Nothing)
    <2>1. ValueOK(k, Nothing)
      BY <1>1 DEF ValueOK
    <2>2. QED
      BY <1>1, <1>3, <2>1 DEF Reported, Known, Honest
  <1>4. QED
    BY <1>2, <1>3 DEF k

\* A read that reports no register.
LEMMA ObservesOne ==
  ASSUME NEW what, NEW i, NEW v, what \notin AllBanks, Reported(<<what, i>>, v),
         Observe(<<what, i>>, v)
  PROVE  Observes
  <1> DEFINE k == <<what, i>>
  <1>1. k[1] \notin LengthBanks
    BY AllBankNames
  <1> HIDE DEF k
  <1>2. snap' = With(snap, k, v) /\ Reported(k, v)
    BY DEF Observe, k
  <1>3. QED
    BY <1>1, <1>2 DEF Observes

\* Every read reports what is so, or nothing.
LEMMA ReadsObserve ==
  ASSUME ClientOK, DataOK, CallsOK, Reads
  PROVE  Observes
  <1> DEFINE call == Head(todo)
  <1>1. Reading
    BY ReadsRead
  <1>2. /\ profile \in {"mill", "lathe", "export"} /\ profile \in Profiles
        /\ outcome = "sweeping" /\ todo # <<>> /\ GoodCall(profile, cache, call)
    BY <1>1, CallIsGood, Bounds DEF ClientOK, Reading
  <1> HIDE DEF call
  <1>3. snap' \in {snap, Empty} => Observes
    BY DEF Observes
  <1>4. {"status", "pot", "head", "next", "life", "macro", "program", "name", "wcs", "tword",
         "zofs", "shift"} \cap AllBanks = {}
    BY AllBankNames DEF LengthBanks
  <1>5. \A k \in Keys : IsWord(k[1], control[k])
    BY DEF DataOK, AreWords
  <1>6. CASE ReadStatus
    <2> DEFINE key == <<"status", 0>>
               value == DecodeStatus(control[key])
    <2>1. call.fn = "statinfo" /\ (Observe(key, value) \/ snap' \in {snap, Empty})
      BY <1>6 DEF ReadStatus, Due, Raise, call
    <2>2. key \in Keys
      <3>1. profile \in {"mill", "lathe"}
        BY <1>2, <2>1 DEF GoodCall, FnsOf
      <3>2. QED
        BY <1>2, <3>1, KeysHere
    <2>3. Reported(key, value)
      <3>1. control[key] \in held[key]
        BY <1>2, <2>2 DEF DataOK, HeldOK
      <3>2. ValueOK(key, value)
        BY AllBankNames DEF ValueOK, LengthBanks
      <3> HIDE DEF value
      <3>3. Known(key, value) /\ Honest(key, value)
        BY <2>2, <3>2 DEF Known, Honest
      <3>4. QED
        BY <3>1, <3>3 DEF Reported, value
    <2> HIDE DEF value
    <2>4. QED
      BY <1>3, <1>4, <2>1, <2>3, ObservesOne
  <1>7. CASE ReadLayout \/ ReadLifeGroups \/ ReadLifeGroup \/ ReadAlarms
    BY <1>3, <1>7 DEF ReadLayout, ReadLifeGroups, ReadLifeGroup, ReadAlarms, Raise, PassOver
  <1>8. CASE ReadOffset
    BY <1>8, OffsetObserved
  <1>9. CASE ReadPmcByte
    <2> DEFINE pot == call.b - 104
    <2>1. call.fn = "pmc"
      BY <1>9 DEF ReadPmcByte, Due, call
    <2>2. profile = "mill" /\ (call.a \in {"head", "next"} \/ (call.a = "pot" /\ pot \in 1..PotCount))
      BY <1>2, <2>1 DEF GoodCall, FnsOf
    <2>3. CASE call.a = "pot"
      <3>1. \/ snap' \in {snap, Empty}
            \/ Observe(<<"pot", pot>>, DecodePotBcd(control[<<"pot", pot>>]))
        BY <1>9, <2>3 DEF ReadPmcByte, PassOver, call
      <3>2. pot \in 1..PotCount
        BY <2>2, <2>3
      <3> HIDE DEF pot
      <3>3. <<"pot", pot>> \in Keys
        BY <1>2, <2>2, <3>2, KeysHere
      <3>4. IsWord("pot", control[<<"pot", pot>>])
        BY <1>5, <3>3
      <3>5. control[<<"pot", pot>>] \in 0..255
        BY <3>4 DEF IsWord
      <3>6. Reported(<<"pot", pot>>, DecodePotBcd(control[<<"pot", pot>>]))
        BY <1>2, <1>4, <3>3, <3>5, PotShown, ShownHere
      <3>7. QED
        BY <1>3, <1>4, <3>1, <3>6, ObservesOne
    <2>4. CASE call.a \in {"head", "next"}
      <3> DEFINE what == call.a
      <3>1. \/ Observe(<<what, 0>>, DecodeTool(control[<<what, 0>>]))
            \/ Observe(<<what, 0>>, Nothing)
        BY <1>9, <2>4 DEF ReadPmcByte, call
      <3>2. what \in {"head", "next"}
        BY <2>4
      <3> HIDE DEF what
      <3>3. <<what, 0>> \in Keys
        BY <1>2, <2>2, <3>2, KeysHere
      <3>4. IsWord(what, control[<<what, 0>>])
        BY <1>5, <3>3
      <3>5. control[<<what, 0>>] \in Nat
        BY <3>2, <3>4 DEF IsWord
      <3>6. /\ Reported(<<what, 0>>, DecodeTool(control[<<what, 0>>]))
            /\ Reported(<<what, 0>>, Nothing)
        BY <1>2, <1>4, <3>2, <3>3, <3>5, ToolShown, ShownHere
      <3>7. QED
        BY <1>4, <3>1, <3>2, <3>6, ObservesOne
    <2>5. QED
      BY <2>2, <2>3, <2>4
  <1>10. CASE ReadLifeSlot
    <2>1. \/ snap' \in {snap, Empty}
          \/ \E t : Observe(<<"life", t>>, Just("live"))
      BY <1>10 DEF ReadLifeSlot, PassOver
    <2>2. ASSUME NEW t PROVE Reported(<<"life", t>>, Just("live"))
      BY DEF Reported, Known, Honest
    <2>3. QED
      BY <1>3, <1>4, <2>1, <2>2, ObservesOne
  <1>11. CASE ReadMacro
    <2> DEFINE a == call.a
    <2>1. /\ call.fn = "rdmacro"
          /\ \/ snap' \in {snap, Empty}
             \/ Observe(<<"macro", a>>, DecodeMacro(control[<<"macro", a>>]))
      BY <1>11 DEF ReadMacro, Due, PassOver, call
    <2>2. profile = "mill" /\ a \in Range(MacroVars)
      BY <1>2, <2>1 DEF GoodCall, FnsOf
    <2> HIDE DEF a
    <2>3. <<"macro", a>> \in Keys
      BY <1>2, <2>2, KeysHere
    <2>4. IsWord("macro", control[<<"macro", a>>])
      BY <1>5, <2>3
    <2>5. Reported(<<"macro", a>>, DecodeMacro(control[<<"macro", a>>]))
      BY <1>2, <1>4, <2>3, <2>4, MacroShown, ShownHere
    <2>6. QED
      BY <1>3, <1>4, <2>1, <2>5, ObservesOne
  <1>12. CASE ReadProgramNumber
    <2> DEFINE o == control[<<"program", 0>>]
    <2>1. /\ call.fn = "exeprgname"
          /\ Observe(<<"program", 0>>, DecodeTool(o)) \/ Observe(<<"program", 0>>, Nothing)
      BY <1>12 DEF ReadProgramNumber, Due, call
    <2>2. profile \in {"lathe", "export"}
      BY <1>2, <2>1 DEF GoodCall, FnsOf
    <2>3. <<"program", 0>> \in Keys
      BY <1>2, <2>2, KeysHere
    <2>4. IsWord("program", o)
      BY <1>5, <2>3
    <2>5. o \in Nat
      BY <2>4 DEF IsWord
    <2>6. Reported(<<"program", 0>>, DecodeTool(o)) /\ Reported(<<"program", 0>>, Nothing)
      BY <1>2, <1>4, <2>3, <2>5, ToolShown, ShownHere
    <2> HIDE DEF o
    <2>7. QED
      BY <1>4, <2>1, <2>6, ObservesOne
  <1>13. CASE ReadProgramText
    <2>1. \E v : Observe(<<"name", 0>>, v)
      BY <1>13 DEF ReadProgramText
    <2>2. ASSUME NEW v PROVE Reported(<<"name", 0>>, v)
      BY DEF Reported, Known, Honest
    <2>3. QED
      BY <1>4, <2>1, <2>2, ObservesOne
  <1>14. CASE ReadActiveWcs
    <2> DEFINE key == <<"wcs", 0>>
               value == Just(control[key])
    <2>1. call.fn = "rdgcode" /\ (Observe(key, value) \/ Observe(key, Nothing))
      BY <1>14 DEF ReadActiveWcs, ReadStatusField, Due, call
    <2>2. profile = "lathe"
      BY <1>2, <2>1 DEF GoodCall, FnsOf
    <2>3. key \in Keys
      BY <1>2, <2>2, KeysHere
    <2>4. value = Shown(key, control[key])
      BY DEF Shown
    <2>5. Reported(key, value) /\ Reported(key, Nothing)
      BY <1>2, <1>4, <2>3, <2>4, ShownHere
    <2> HIDE DEF value
    <2>6. QED
      BY <1>4, <2>1, <2>5, ObservesOne
  <1>15. CASE ReadCommandedT
    <2> DEFINE key == <<"tword", 0>>
               value == DecodeTool(control[key])
    <2>1. call.fn = "rdcommand" /\ (Observe(key, value) \/ Observe(key, Nothing))
      BY <1>15 DEF ReadCommandedT, ReadStatusField, Due, call
    <2>2. profile = "lathe"
      BY <1>2, <2>1 DEF GoodCall, FnsOf
    <2>3. key \in Keys
      BY <1>2, <2>2, KeysHere
    <2>4. IsWord("tword", control[key])
      BY <1>5, <2>3
    <2>5. control[key] \in Nat
      BY <2>4 DEF IsWord
    <2>6. Reported(key, value) /\ Reported(key, Nothing)
      BY <1>2, <1>4, <2>3, <2>5, ToolShown, ShownHere
    <2> HIDE DEF value
    <2>7. QED
      BY <1>4, <2>1, <2>6, ObservesOne
  <1>16. CASE ReadWorkOffset
    <2> DEFINE key == IF call.fn = "rdzofs" THEN <<"zofs", call.a>> ELSE <<"shift", 0>>
               value == control[key] * Increment
    <2>1. /\ call.fn \in {"rdzofs", "rdwkcdshft"}
          /\ snap' \in {snap, Empty} \/ Observe(key, value)
      BY <1>16 DEF ReadWorkOffset, Due, PassOver, call
    <2>2. profile = "lathe" /\ (call.fn = "rdzofs" => call.a \in Range(ZofsSlots))
      BY <1>2, <2>1 DEF GoodCall, FnsOf
    <2>3. ASSUME NEW what \in {"zofs", "shift"}, NEW i, <<what, i>> \in Keys
          PROVE  Reported(<<what, i>>, control[<<what, i>>] * Increment)
      <3>1. Shown(<<what, i>>, control[<<what, i>>]) = control[<<what, i>>] * Increment
        BY DEF Shown
      <3>2. QED
        BY <1>2, <1>4, <2>3, <3>1, ShownHere
    <2>4. CASE call.fn = "rdzofs"
      <3>1. key = <<"zofs", call.a>>
        BY <2>4
      <3>2. <<"zofs", call.a>> \in Keys
        BY <1>2, <2>2, <2>4, KeysHere
      <3>3. Reported(<<"zofs", call.a>>, control[<<"zofs", call.a>>] * Increment)
        BY <2>3, <3>2
      <3>4. QED
        BY <1>3, <1>4, <2>1, <3>1, <3>3, ObservesOne
    <2>5. CASE call.fn # "rdzofs"
      <3>1. key = <<"shift", 0>>
        BY <2>5
      <3>2. <<"shift", 0>> \in Keys
        BY <1>2, <2>2, KeysHere
      <3>3. Reported(<<"shift", 0>>, control[<<"shift", 0>>] * Increment)
        BY <2>3, <3>2
      <3>4. QED
        BY <1>3, <1>4, <2>1, <3>1, <3>3, ObservesOne
    <2>6. QED
      BY <2>4, <2>5
  <1>17. QED
    BY <1>6, <1>7, <1>8, <1>9, <1>10, <1>11, <1>12, <1>13, <1>14, <1>15, <1>16 DEF Reads

-----------------------------------------------------------------------------
(* The offset program as it runs.                                           *)

(* The program that is exported from some rows.                            *)
Punch(rows, sparse) ==
  [rows |-> rows, listed |-> SelectRegisters(rows, sparse, RegisterCount),
   blocks |-> BuildG10(rows, Class, "inch", sparse, RegisterCount)]

MirrorOK == RowsOK(mirror)

PunchedOK ==
  /\ exports \in 0..MaxExports
  /\ punched = Nothing \/ \E rows, sparse : RowsOK(rows) /\ punched = Just(Punch(rows, sparse))

\* What is known of a control are rows of its registers.
LEMMA RowsAre ==
  ASSUME profile \in Profiles, NEW rows, RowsOK(rows)
  PROVE  \E b \in 0..RegisterLimit : AreRows(rows, b)
  <1>1. PICK n \in 1..RegisterLimit :
          \A k \in Keys : k[1] \in AllBanks => k = <<k[1], k[2]>> /\ k[2] \in 1..n
    BY DataShapes
  <1>2. n \in 0..RegisterLimit
    BY DEF RegisterLimit
  <1>3. ASSUME NEW k \in DOMAIN rows, k[1] \in AllBanks
        PROVE  /\ k = <<k[1], k[2]>> /\ k[2] \in 1..n /\ rows[k] \in Int
               /\ k[1] = "tip" => \E code \in Int : rows[k] = code * Whole
    <2>1. k # <<"name", 0>> /\ k[1] # "life"
      BY <1>3, AllBankNames DEF LengthBanks
    <2>2. k \in Keys /\ ValueOK(k, rows[k])
      BY <2>1 DEF RowsOK, Known
    <2>3. Increment \in Int /\ Whole \in Int
      BY Bounds DEF Whole
    <2>4. rows[k] \in Int
      <3>1. \A w \in Int : w * Whole \in Int /\ w * Increment \in Int
        BY <2>3
      <3>2. QED
        BY <1>3, <2>2, <3>1 DEF ValueOK
    <2>5. QED
      BY <1>1, <1>3, <2>2, <2>4 DEF ValueOK
  <1>4. QED
    BY <1>2, <1>3 DEF AreRows

\* A value that is written to a register is the one that it then shows.
LEMMA RegisterRestored ==
  ASSUME NEW k, k[1] \in AllBanks, NEW v, ValueOK(k, v) \/ v = 0
  PROVE  /\ WordOf(k, v) \in Int /\ IsWord(k[1], WordOf(k, v))
         /\ Shown(k, WordOf(k, v)) = v
  <1>1. Increment \in Nat \ {0} /\ Whole \in Nat \ {0}
    BY Bounds DEF Whole
  <1> DEFINE unit == IF k[1] = "tip" THEN Whole ELSE Increment
  <1>2. unit \in Nat \ {0}
    BY <1>1
  <1>3. WordOf(k, v) = v \div unit
    BY DEF WordOf
  <1>4. \A word : Shown(k, word) = word * unit
    BY AllBankNames DEF LengthBanks, Shown
  <1>5. PICK w \in Int : v = w * unit
    <2>1. CASE v = 0
      <3> HIDE DEF unit
      <3>1. 0 * unit = 0
        BY <1>2
      <3>2. QED
        BY <2>1, <3>1
    <2>2. CASE ValueOK(k, v)
      BY <2>2 DEF ValueOK
    <2>3. QED
      BY <2>1, <2>2
  <1> HIDE DEF unit
  <1>6. v \div unit = w
    BY <1>2, <1>5, Quotient
  <1>7. WordOf(k, v) = w /\ Shown(k, w) = v
    BY <1>3, <1>4, <1>5, <1>6
  <1>8. \A word \in Int : IsWord(k[1], word)
    BY AllBankNames DEF LengthBanks, IsWord
  <1>9. QED
    BY <1>7, <1>8

\* The program is of one of the classes.
LEMMA ClassOf == Class \in Classes
  BY DEF Class, Classes

\* An exported program says what it was built from.
LEMMA PunchedTells ==
  ASSUME profile \in Profiles, PunchedOK, punched # Nothing
  PROVE  \E rows : /\ RowsOK(rows) /\ punched[1].rows = rows
                   /\ Tells(ParseG10(punched[1].blocks), rows, Class, punched[1].listed)
                   /\ Tells(Written(punched[1].blocks), rows, Class, punched[1].listed)
  <1>1. PICK rows, sparse : RowsOK(rows) /\ punched = Just(Punch(rows, sparse))
    BY DEF PunchedOK
  <1>2. punched[1] = Punch(rows, sparse)
    BY <1>1 DEF Just
  <1>3. PICK b \in 0..RegisterLimit : AreRows(rows, b)
    BY <1>1, RowsAre
  <1>4. RegisterCount \in 0..RegisterLimit /\ Class \in Classes
    BY Bounds, ClassOf
  <1> DEFINE program == BuildG10(rows, Class, "inch", sparse, RegisterCount)
             S == SelectRegisters(rows, sparse, RegisterCount)
  <1>5. Tells(ParseG10(program), rows, Class, S) /\ Tells(Written(program), rows, Class, S)
    BY <1>3, <1>4, ProgramTells
  <1>6. punched[1].rows = rows /\ punched[1].blocks = program /\ punched[1].listed = S
    BY <1>2 DEF Punch
  <1> HIDE DEF program, S
  <1>7. QED
    BY <1>1, <1>5, <1>6

\* Every word that running a program writes is one that the register then
\* shows as the program has it.
LEMMA RunWrites ==
  ASSUME profile \in Profiles, PunchedOK, RunG10,
         NEW k \in Keys, k \in DOMAIN Written(punched[1].blocks)
  PROVE  /\ k[1] \in AllBanks /\ IsWord(k[1], control'[k])
         /\ Shown(k, control'[k]) = Said(punched[1].rows, k)
         /\ k[2] \in punched[1].listed
  <1> DEFINE d == Written(punched[1].blocks)
  <1>1. PICK rows : /\ RowsOK(rows) /\ punched[1].rows = rows
                    /\ Tells(d, rows, Class, punched[1].listed)
    BY PunchedTells DEF RunG10
  <1>2. control'[k] = WordOf(k, d[k])
    BY DEF RunG10
  <1> HIDE DEF d
  <1>3. d[k] = Said(rows, k) /\ k[1] \in ClassBanks(Class) /\ k[2] \in punched[1].listed
    BY <1>1 DEF Tells, d
  <1>4. k[1] \in AllBanks
    BY <1>3, ClassOf DEF AllBanks, Classes
  <1>5. ValueOK(k, Said(rows, k)) \/ Said(rows, k) = 0
    <2>1. k # <<"name", 0>> /\ k[1] # "life"
      BY <1>4, AllBankNames DEF LengthBanks
    <2>2. QED
      BY <1>1, <2>1 DEF Said, RowsOK, Known
  <1>6. IsWord(k[1], WordOf(k, Said(rows, k))) /\ Shown(k, WordOf(k, Said(rows, k))) = Said(rows, k)
    BY <1>4, <1>5, RegisterRestored
  <1>7. QED
    BY <1>1, <1>2, <1>3, <1>4, <1>6

\* The control has a word of the right kind for each datum, and during a sweep
\* the words of a datum that are remembered are those it has had.
LEMMA DataStep ==
  ASSUME ClientOK, PunchedOK, DataOK, [Next]_vars
  PROVE  DataOK'
  <1> USE DEF DataOK, AreWords, HeldOK
  <1>1. profile \in Profiles /\ (outcome = "sweeping" => handle \in {"primed", "forgotten"})
    BY DEF ClientOK
  <1>2. profile' = profile => Keys' = Keys
    BY DEF Keys
  <1>3. UNCHANGED <<profile, control, held>> /\ (outcome' = "sweeping" => outcome = "sweeping")
          => DataOK'
    BY <1>2
  <1>4. /\ UNCHANGED <<profile, control>> /\ held' = [k \in Keys |-> {control[k]}]
        => DataOK'
    BY <1>2
  <1>5. ASSUME Reads PROVE DataOK'
    BY <1>3, <1>5, ReadsRead DEF Reading, worldVars
  <1>6. ASSUME BeginSweep PROVE DataOK'
    BY <1>4, <1>6 DEF BeginSweep, Begin, worldVars
  <1>7. ASSUME Deliver PROVE DataOK'
    BY <1>2, <1>7 DEF Deliver, worldVars
  <1>8. ASSUME Connection PROVE DataOK'
    BY <1>3, <1>8 DEF Connection, AllocateHandle, Prime, PrimeFails, Close, sweepVars,
                      worldVars, histVars
  <1>9. ASSUME World PROVE DataOK'
    <2>1. CASE Edit
      <3>1. PICK change \in Changes[profile] :
              /\ control' = [control EXCEPT ![change[1]] = change[2]]
              /\ held' = [held EXCEPT ![change[1]] = @ \cup {change[2]}]
        BY <2>1 DEF Edit
      <3>2. change[1] \in Keys /\ IsWord(change[1][1], change[2])
        BY <1>1, KeysOf
      <3>3. UNCHANGED <<profile, outcome>>
        BY <2>1 DEF Edit, sweepVars
      <3> DEFINE key == change[1]
                 word == change[2]
      <3> HIDE DEF key, word
      <3>4. /\ DOMAIN control' = Keys /\ DOMAIN held' = Keys
            /\ \A k \in Keys : /\ control'[k] = IF k = key THEN word ELSE control[k]
                               /\ held'[k] = IF k = key THEN held[k] \cup {word} ELSE held[k]
        BY <3>1, <3>2 DEF key, word
      <3>5. key \in Keys /\ IsWord(key[1], word)
        BY <3>2 DEF key, word
      <3>6. QED
        BY <1>2, <3>3, <3>4, <3>5
    <2>2. CASE Reconfigure \/ LinkChanges
      BY <1>3, <2>2 DEF Reconfigure, LinkChanges, sweepVars
    <2>3. QED
      BY <1>9, <2>1, <2>2 DEF World
  <1>10. ASSUME Export PROVE DataOK'
    <2>1. CASE BeginExport
      BY <1>4, <2>1 DEF BeginExport, worldVars
    <2>2. CASE ~BeginExport
      <3>1. Apart /\ outcome = "sweeping"
        BY <1>10, <2>2 DEF Export, Resolve, StartUpload, UploadChunk, EndUpload, CloseExport, Due
      <3>2. QED
        BY <1>3, <3>1 DEF Apart, worldVars
    <2>3. QED
      BY <2>1, <2>2
  <1>11. ASSUME NEW sparse, ExportG10(sparse) PROVE DataOK'
    BY <1>3, <1>11 DEF ExportG10, exportVars, readVars, sweepVars, worldVars, histVars
  <1>12. ASSUME RunG10 PROVE DataOK'
    <2>1. /\ DOMAIN control' = Keys /\ DOMAIN held' = Keys
          /\ \A k \in Keys : held'[k] = held[k] \cup {control'[k]}
          /\ UNCHANGED <<profile, outcome>>
      BY <1>12 DEF RunG10, sweepVars
    <2>2. ASSUME NEW k \in Keys PROVE IsWord(k[1], control'[k])
      <3>1. CASE k \in DOMAIN Written(punched[1].blocks)
        BY <1>1, <1>12, <3>1, RunWrites
      <3>2. CASE k \notin DOMAIN Written(punched[1].blocks)
        BY <1>12, <3>2 DEF RunG10
      <3>3. QED
        BY <3>1, <3>2
    <2>3. QED
      BY <1>2, <2>1, <2>2
  <1>13. ASSUME Stutters PROVE DataOK'
    BY <1>3, <1>13 DEF Stutters, vars, exportVars, readVars, sweepVars, worldVars, histVars
  <1>14. QED
    BY <1>5, <1>6, <1>7, <1>8, <1>9, <1>10, <1>11, <1>12, <1>13, StepKinds

\* Only the layout that is read takes a doubt back.
LEMMA DoubtStays ==
  ASSUME Reads, ~ReadLayout
  PROVE  relaid' = relaid
  <1> USE DEF GoOn, PassOver, Raise, histVars
  <1>1. CASE ReadStatus \/ ReadAlarms \/ ReadMacro
    BY <1>1 DEF ReadStatus, ReadAlarms, ReadMacro
  <1>2. CASE ReadOffset
    BY <1>2 DEF ReadOffset
  <1>3. CASE ReadPmcByte
    BY <1>3 DEF ReadPmcByte
  <1>4. CASE ReadLifeGroups \/ ReadLifeGroup \/ ReadLifeSlot
    BY <1>4 DEF ReadLifeGroups, ReadLifeGroup, ReadLifeSlot
  <1>5. CASE ReadProgramNumber \/ ReadProgramText
    BY <1>5 DEF ReadProgramNumber, ReadProgramText
  <1>6. CASE ReadActiveWcs \/ ReadCommandedT
    BY <1>6 DEF ReadActiveWcs, ReadCommandedT, ReadStatusField
  <1>7. CASE ReadWorkOffset
    BY <1>7 DEF ReadWorkOffset
  <1>8. QED
    BY <1>1, <1>2, <1>3, <1>4, <1>5, <1>6, <1>7 DEF Reads

\* What was reported stays so when more words are remembered; unless the layout
\* is now known, for registers whose layout was not.
LEMMA ReportedLasts ==
  ASSUME profile' = profile, \A k \in Keys : held[k] \subseteq held'[k],
         NEW k, NEW v, Reported(k, v), relaid' = relaid \/ relaid' \/ k[1] \notin LengthBanks
  PROVE  Reported(k, v)'
  <1>1. Known(k, v)'
    BY DEF Reported, Known, Keys, ValueOK
  <1>2. k \in Keys \/ k = <<"name", 0>> \/ k[1] = "life"
    BY DEF Reported, Known
  <1>3. Honest(k, v)'
    <2>1. CASE k \in Keys
      <3>1. v \in {Shown(k, word) : word \in held[k]} => v \in {Shown(k, word) : word \in held'[k]}
        BY <2>1
      <3>2. (v \in {Shown(k, word) : word \in held[k]})' <=> v \in {Shown(k, word) : word \in held'[k]}
        BY DEF Shown
      <3>3. QED
        BY <3>1, <3>2 DEF Reported, Honest
    <2>2. CASE k \notin Keys
      BY <1>2, <2>2 DEF Honest
    <2>3. QED
      BY <2>1, <2>2
  <1>4. (k = <<"status", 0>> => \E word \in held[k] : v = DecodeStatus(word))'
    <2>1. CASE k \in Keys
      BY <2>1 DEF Reported
    <2>2. CASE k \notin Keys
      BY <1>2, <2>2
    <2>3. QED
      BY <2>1, <2>2
  <1>5. QED
    BY <1>1, <1>3, <1>4 DEF Reported

\* Registers are read when the layout is known.
LEMMA RegistersLast ==
  ASSUME NEW p, NEW kept, NEW s, Planned(p, kept, s), s # <<>>, Head(s).fn = "rdtofs"
  PROVE  Free(s, {"rdtofsinfo"})
  <1>1. s \in Seq(AnyCall) /\ Alone(s, "rdtofsinfo", {"rdtofsinfo", "rdtofs"})
    BY DEF Planned, Good
  <1>2. Head(s) = s[1] /\ 1 \in 1..Len(s)
    BY <1>1, TailOf
  <1>3. ASSUME NEW i \in 1..Len(s), s[i].fn = "rdtofsinfo" PROVE FALSE
    <2>1. i # 1
      BY <1>2, <1>3
    <2>2. QED
      BY <1>1, <1>2, <1>3, <2>1 DEF Alone
  <1>4. QED
    BY <1>3 DEF Free, Items

\* What a mill's sweep leaves to do reads the layout only if it still had to.
LEMMA LayoutLeft ==
  ASSUME profile = "mill", ClientOK, CallsOK, todo # <<>>, LeavesCalls,
         ~Free(todo', {"rdtofsinfo"})
  PROVE  ~Free(todo, {"rdtofsinfo"}) /\ Head(todo).fn # "rdtofs"
  <1>1. Planned(profile, cache, todo)
    BY DEF CallsOK
  <1>2. /\ todo \in Seq(AnyCall) /\ Tail(todo) \in Seq(AnyCall)
        /\ GoodCall(profile, cache, Head(todo)) /\ Planned(profile, cache, Tail(todo))
        /\ Head(todo).fn = "rdtofsinfo" => Free(Tail(todo), {"rdtofsinfo", "rdtofs"})
    BY <1>1, PlannedTail
  <1>3. Items(Tail(todo)) \subseteq Items(todo)
    BY <1>2, TailOf
  <1>4. todo' # <<>>
    BY DEF Free, Items
  <1>5. ~Free(Tail(todo), {"rdtofsinfo"})
    <2>1. CASE NextCall
      BY <2>1 DEF NextCall
    <2>2. CASE LayoutCalls
      <3>1. Free(AfterLayout(layout) \o Tail(todo), {"rdtofsinfo"})
        BY <1>2, <2>2, PlannedLayout DEF LayoutCalls, ClientOK
      <3>2. QED
        BY <2>2, <3>1 DEF LayoutCalls
    <2>3. CASE LifeCalls
      <3>1. PICK s : Quiet(profile, cache, s) /\ todo' = s \o Tail(todo)
        BY <2>3 DEF LifeCalls
      <3>2. s \in Seq(AnyCall) /\ Free(s, {"rdtofsinfo"})
        BY <3>1 DEF Quiet, Good, Free
      <3>3. Items(s \o Tail(todo)) = Items(s) \cup Items(Tail(todo))
        BY <1>2, <3>2, JoinOf
      <3>4. QED
        BY <3>1, <3>2, <3>3 DEF Free
    <2>4. ~TextCall
      BY <1>2 DEF TextCall, GoodCall, FnsOf
    <2>5. QED
      BY <1>4, <2>1, <2>2, <2>3, <2>4 DEF LeavesCalls
  <1>6. ~Free(todo, {"rdtofsinfo"})
    BY <1>3, <1>5 DEF Free
  <1>7. QED
    BY <1>1, <1>6, RegistersLast

\* What a read reports is so, and what was reported stays so.
LEMMA SnapRead ==
  ASSUME ClientOK, DataOK, CallsOK, SnapOK, Reads
  PROVE  SnapOK'
  <1>1. /\ Reading /\ LeavesCalls /\ Observes /\ todo # <<>>
        /\ UNCHANGED <<profile, held>>
    BY ReadsRead, ReadsLeave, ReadsObserve DEF Reading, worldVars, DataOK
  <1>2. CASE snap' = Empty
    BY <1>2 DEF SnapOK, LayoutFirst, Empty
  <1>3. CASE ReadLayout /\ snap' # Empty
    <2>1. snap' = snap /\ Head(todo).fn = "rdtofsinfo"
      BY <1>3 DEF ReadLayout, Raise, Due
    <2>2. ASSUME NEW k \in DOMAIN snap PROVE k[1] \notin LengthBanks
      <3>1. CASE profile = "mill"
        <4>1. Planned(profile, cache, todo)
          BY <3>1 DEF CallsOK
        <4>2. todo \in Seq(AnyCall)
          BY <4>1 DEF Planned, Good
        <4>3. ~Free(todo, {"rdtofsinfo"})
          BY <1>1, <2>1, <4>2, TailOf DEF Free
        <4>4. QED
          BY <2>2, <3>1, <4>3 DEF SnapOK, LayoutFirst
      <3>2. CASE profile # "mill"
        <4>1. k \in Keys \/ k = <<"name", 0>> \/ k[1] = "life"
          BY <2>2 DEF SnapOK, Reported, Known
        <4>2. \A key \in Keys : key[1] \notin LengthBanks
          <5>1. profile \in {"lathe", "export"} /\ profile \in Profiles
            BY <3>2, Bounds DEF ClientOK
          <5>2. QED
            BY <5>1, DataShapes DEF LengthBanks
        <4>3. QED
          BY <4>1, <4>2 DEF LengthBanks
      <3>3. QED
        BY <3>1, <3>2
    <2>3. \A k \in DOMAIN snap : Reported(k, snap[k])'
      <3> TAKE k \in DOMAIN snap
      <3>1. Reported(k, snap[k]) /\ k[1] \notin LengthBanks
        BY <2>2 DEF SnapOK
      <3> DEFINE v == snap[k]
      <3>2. ASSUME NEW w, w = snap[k] PROVE Reported(k, w)'
        BY <1>1, <3>1, <3>2, ReportedLasts
      <3>3. QED
        BY <2>1, <3>2
    <2>4. LayoutFirst'
      BY <2>1, <2>2 DEF LayoutFirst
    <2>5. QED
      BY <2>1, <2>3, <2>4 DEF SnapOK
  <1>4. CASE ~ReadLayout /\ snap' # Empty
    <2>1. relaid' = relaid
      BY <1>4, DoubtStays
    <2>2. \A k, v : Reported(k, v) => Reported(k, v)'
      BY <1>1, <2>1, ReportedLasts
    <2>3. \A k \in DOMAIN snap' :
            \/ k \in DOMAIN snap /\ snap'[k] = snap[k]
            \/ Reported(k, snap'[k]) /\ (k[1] \in LengthBanks => Head(todo).fn = "rdtofs")
      BY <1>1, <1>4 DEF Observes, With
    <2>4. ASSUME NEW k \in DOMAIN snap' PROVE Reported(k, snap[k])'
      <3>1. Reported(k, snap'[k])
        BY <2>3, <2>4 DEF SnapOK
      <3>2. ASSUME NEW w, w = snap'[k] PROVE Reported(k, w)'
        BY <2>2, <3>1, <3>2
      <3>3. QED
        BY <3>2
    <2>5. ASSUME profile' = "mill", ~Free(todo', {"rdtofsinfo"}), NEW k \in DOMAIN snap'
          PROVE  k[1] \notin LengthBanks
      <3>1. profile = "mill"
        BY <1>1, <2>5
      <3>2. ~Free(todo, {"rdtofsinfo"}) /\ Head(todo).fn # "rdtofs"
        BY <1>1, <2>5, <3>1, LayoutLeft
      <3>3. QED
        BY <2>3, <2>5, <3>1, <3>2 DEF SnapOK, LayoutFirst
    <2>6. LayoutFirst'
      BY <2>5 DEF LayoutFirst
    <2>7. QED
      BY <2>4, <2>6 DEF SnapOK
  <1>5. QED
    BY <1>2, <1>3, <1>4

\* What a sweep reports is so, step by step.
LEMMA SnapStep ==
  ASSUME ClientOK, DataOK, CallsOK, SnapOK, [Next]_vars
  PROVE  SnapOK'
  <1>1. ASSUME snap' = Empty PROVE SnapOK'
    BY <1>1 DEF SnapOK, LayoutFirst, Empty
  <1>2. ASSUME UNCHANGED <<profile, snap>>, todo' \in {todo, <<>>}, relaid' = relaid \/ relaid',
               \A k \in Keys : held[k] \subseteq held'[k]
        PROVE  SnapOK'
    <2>1. ASSUME NEW k \in DOMAIN snap PROVE Reported(k, snap[k])'
      <3>1. Reported(k, snap[k])
        BY <2>1 DEF SnapOK
      <3>2. ASSUME NEW w, w = snap[k] PROVE Reported(k, w)'
        BY <1>2, <3>1, <3>2, ReportedLasts
      <3>3. QED
        BY <1>2, <3>2
    <2>2. LayoutFirst'
      BY <1>2 DEF SnapOK, LayoutFirst, Free, Items
    <2>3. QED
      BY <1>2, <2>1, <2>2 DEF SnapOK
  <1>3. ASSUME Reads PROVE SnapOK'
    BY <1>3, SnapRead
  <1>4. ASSUME BeginSweep \/ Deliver PROVE SnapOK'
    BY <1>1, <1>4 DEF BeginSweep, Begin, Deliver
  <1>5. ASSUME Connection PROVE SnapOK'
    BY <1>2, <1>5 DEF Connection, AllocateHandle, Prime, PrimeFails, Close, sweepVars,
                      worldVars, histVars
  <1>6. ASSUME World PROVE SnapOK'
    <2>1. CASE Edit
      <3>1. PICK change : held' = [held EXCEPT ![change[1]] = @ \cup {change[2]}]
        BY <2>1 DEF Edit
      <3>2. \A k \in Keys : held[k] \subseteq held'[k]
        BY <3>1 DEF DataOK, HeldOK
      <3>3. QED
        BY <1>2, <2>1, <3>2 DEF Edit, sweepVars
    <2>2. CASE Reconfigure \/ LinkChanges
      BY <1>2, <2>2 DEF Reconfigure, LinkChanges, sweepVars
    <2>3. QED
      BY <1>6, <2>1, <2>2 DEF World
  <1>7. ASSUME Export PROVE SnapOK'
    <2>1. CASE BeginExport
      BY <1>1, <2>1 DEF BeginExport
    <2>2. CASE ~BeginExport
      <3>1. Apart /\ snap' = snap
        BY <1>7, <2>2 DEF Export, Resolve, StartUpload, UploadChunk, EndUpload, CloseExport
      <3>2. profile = "export"
        <4>1. /\ todo # <<>>
              /\ Head(todo).fn \in {"resolve", "upstart3", "upload3", "upend3", "close"}
          BY <1>7, <2>2 DEF Export, Resolve, StartUpload, UploadChunk, EndUpload, CloseExport, Due
        <4>2. GoodCall(profile, cache, Head(todo)) /\ profile \in {"mill", "lathe", "export"}
          BY <4>1, CallIsGood, Bounds DEF ClientOK
        <4>3. QED
          BY <4>1, <4>2 DEF GoodCall, FnsOf
      <3>3. ASSUME NEW k \in DOMAIN snap PROVE Reported(k, snap[k])'
        <4>1. Reported(k, snap[k])
          BY <3>3 DEF SnapOK
        <4>2. ASSUME NEW w, w = snap[k] PROVE Reported(k, w)'
          BY <3>1, <4>1, <4>2, ReportedLasts DEF Apart, worldVars
        <4>3. QED
          BY <3>1, <4>2
      <3>4. QED
        BY <3>1, <3>2, <3>3 DEF SnapOK, LayoutFirst, Apart, worldVars
    <2>3. QED
      BY <2>1, <2>2
  <1>8. ASSUME NEW sparse, ExportG10(sparse) PROVE SnapOK'
    BY <1>2, <1>8 DEF ExportG10, exportVars, readVars, sweepVars, worldVars, histVars
  <1>9. ASSUME RunG10 PROVE SnapOK'
    <2>1. \A k \in Keys : held[k] \subseteq held'[k]
      BY <1>9 DEF RunG10
    <2>2. QED
      BY <1>2, <1>9, <2>1 DEF RunG10, sweepVars
  <1>10. ASSUME Stutters PROVE SnapOK'
    BY <1>2, <1>10 DEF Stutters, vars, exportVars, readVars, sweepVars, worldVars, histVars
  <1>11. QED
    BY <1>3, <1>4, <1>5, <1>6, <1>7, <1>8, <1>9, <1>10, StepKinds

\* The mirror and an exported program have what sweeps have reported.
LEMMA MirrorStep ==
  ASSUME ClientOK, SnapOK, MirrorOK, PunchedOK, [Next]_vars
  PROVE  MirrorOK' /\ PunchedOK'
  <1>1. ASSUME profile' = profile, NEW rows, RowsOK(rows) PROVE RowsOK(rows)'
    BY <1>1 DEF RowsOK, Known, Keys, ValueOK
  <1>2. ASSUME UNCHANGED <<profile, mirror>> PROVE MirrorOK'
    <2>1. ASSUME NEW rows, rows = mirror PROVE RowsOK(rows)'
      BY <1>1, <1>2, <2>1 DEF MirrorOK
    <2>2. QED
      BY <1>2, <2>1 DEF MirrorOK, RowsOK
  <1>3. ASSUME UNCHANGED <<profile, punched, exports>> PROVE PunchedOK'
    <2>1. CASE punched = Nothing
      BY <1>3, <2>1 DEF PunchedOK
    <2>2. CASE punched # Nothing
      <3>1. PICK rows, sparse : RowsOK(rows) /\ punched = Just(Punch(rows, sparse))
        BY <2>2 DEF PunchedOK
      <3>2. RowsOK(rows)'
        BY <1>1, <1>3, <3>1
      <3>3. Punch(rows, sparse)' = Punch(rows, sparse)
        BY <1>3 DEF Punch, Class
      <3>4. punched' = Just(Punch(rows, sparse)')
        BY <1>3, <3>1, <3>3
      <3>5. QED
        BY <1>3, <3>2, <3>4 DEF PunchedOK, Just
    <2>3. QED
      BY <2>1, <2>2
  <1>4. ASSUME Reads, UNCHANGED panelVars PROVE MirrorOK' /\ PunchedOK'
    BY <1>2, <1>3, <1>4, ReadsRead DEF Reading, worldVars, panelVars
  <1>5. ASSUME BeginSweep, UNCHANGED panelVars PROVE MirrorOK' /\ PunchedOK'
    BY <1>2, <1>3, <1>5 DEF BeginSweep, Begin, worldVars, panelVars
  <1>6. ASSUME Deliver, UNCHANGED panelVars PROVE MirrorOK' /\ PunchedOK'
    <2>1. UNCHANGED <<profile, punched, exports>> /\ mirror' = Updated(mirror, snap)
      BY <1>6 DEF Deliver, worldVars, panelVars
    <2>2. RowsOK(snap)
      BY DEF SnapOK, Reported, RowsOK
    <2>3. ASSUME NEW rows, rows = Updated(mirror, snap) PROVE RowsOK(rows)'
      <3>1. RowsOK(rows)
        BY <2>2, <2>3 DEF MirrorOK, RowsOK, Updated
      <3>2. QED
        BY <1>1, <2>1, <3>1
    <2>4. MirrorOK'
      BY <2>1, <2>3 DEF MirrorOK, RowsOK
    <2>5. QED
      BY <1>3, <2>1, <2>4
  <1>7. ASSUME Connection, UNCHANGED panelVars PROVE MirrorOK' /\ PunchedOK'
    BY <1>2, <1>3, <1>7 DEF Connection, AllocateHandle, Prime, PrimeFails, Close, worldVars,
                            panelVars
  <1>8. ASSUME World, UNCHANGED panelVars PROVE MirrorOK' /\ PunchedOK'
    BY <1>2, <1>3, <1>8 DEF World, Edit, Reconfigure, LinkChanges, panelVars
  <1>9. ASSUME Export, UNCHANGED panelVars PROVE MirrorOK' /\ PunchedOK'
    BY <1>2, <1>3, <1>9 DEF Export, BeginExport, Resolve, StartUpload, UploadChunk, EndUpload,
                            CloseExport, Apart, worldVars, panelVars
  <1>10. ASSUME NEW sparse, ExportG10(sparse) PROVE MirrorOK' /\ PunchedOK'
    <2>1. /\ UNCHANGED <<profile, mirror>> /\ exports < MaxExports /\ exports' = exports + 1
          /\ punched' = Just(Punch(mirror, sparse))
      BY <1>10 DEF ExportG10, exportVars, readVars, worldVars, Punch
    <2>2. exports' \in 0..MaxExports
      BY <2>1, Bounds DEF PunchedOK
    <2>3. \E rows, how : RowsOK(rows)' /\ punched' = Just(Punch(rows, how)')
      <3>1. ASSUME NEW rows, rows = mirror
            PROVE  RowsOK(rows)' /\ Punch(rows, sparse)' = Punch(mirror, sparse)
        BY <1>1, <2>1, <3>1 DEF MirrorOK, Punch, Class
      <3>2. QED
        BY <2>1, <3>1
    <2>4. PunchedOK'
      BY <2>2, <2>3 DEF PunchedOK, Just
    <2>5. QED
      BY <1>2, <2>1, <2>4
  <1>11. ASSUME RunG10 PROVE MirrorOK' /\ PunchedOK'
    <2>1. UNCHANGED <<profile, mirror, exports>> /\ punched' = Nothing
      BY <1>11 DEF RunG10
    <2>2. QED
      BY <1>2, <2>1 DEF PunchedOK
  <1>12. ASSUME Stutters PROVE MirrorOK' /\ PunchedOK'
    BY <1>2, <1>3, <1>12 DEF Stutters, vars, exportVars, readVars, worldVars, panelVars
  <1>13. QED
    BY <1>4, <1>5, <1>6, <1>7, <1>8, <1>9, <1>10, <1>11, <1>12, StepKinds

(* What is so of the reports of sweeps, and of what is made of them.       *)
ReportsOK == ClientOK /\ CallsOK /\ DataOK /\ SnapOK /\ MirrorOK /\ PunchedOK

\* Nothing is reported to begin with.
LEMMA ReportsStart ==
  ASSUME Init
  PROVE  ReportsOK
  <1>1. ClientOK
    BY ClientStart
  <1>2. /\ profile \in Profiles /\ control = Contents[profile] /\ held = [k \in Keys |-> {}]
        /\ outcome = "none" /\ todo = <<>> /\ snap = Empty /\ mirror = Empty
        /\ punched = Nothing /\ exports = 0
    BY DEF Init, ExportInit, ReadInit
  <1>3. CallsOK
    BY <1>2 DEF CallsOK, ExportTodo, Planned, Good, Alone, Items
  <1>4. DataOK
    BY <1>2, KeysOf DEF DataOK, AreWords, HeldOK
  <1>5. SnapOK /\ MirrorOK
    BY <1>2 DEF SnapOK, LayoutFirst, MirrorOK, RowsOK, Empty
  <1>6. PunchedOK
    BY <1>2, Bounds DEF PunchedOK
  <1>7. QED
    BY <1>1, <1>3, <1>4, <1>5, <1>6 DEF ReportsOK

\* What sweeps report is so, and stays in the mirror and in a program as it is.
LEMMA ReportsStep ==
  ASSUME ReportsOK, [Next]_vars
  PROVE  ReportsOK'
  <1>1. /\ ClientOK /\ CallsOK /\ DataOK /\ SnapOK /\ MirrorOK /\ PunchedOK /\ AreWords(control)
    BY DEF ReportsOK, DataOK
  <1>2. ClientOK' /\ CallsOK' /\ DataOK' /\ SnapOK' /\ MirrorOK' /\ PunchedOK'
    BY <1>1, ClientStep, CallsStep, DataStep, SnapStep, MirrorStep
  <1>3. QED
    BY <1>2 DEF ReportsOK

\* Every call of a sweep is one that the profile makes; what it reports of a
\* datum is what the panel has shown for it during the sweep.
THEOREM ReportsAreSound == Spec => [](ReportsOK /\ SnapshotIsHonest)
  <1>1. Init => ReportsOK
    BY ReportsStart
  <1>2. ReportsOK /\ [Next]_vars => ReportsOK'
    BY ReportsStep
  <1>3. ReportsOK => SnapshotIsHonest
    BY DEF ReportsOK, SnapOK, Reported, Honest, LengthBanks, SnapshotIsHonest
  <1>4. QED
    BY <1>1, <1>2, <1>3, PTL DEF Spec

-----------------------------------------------------------------------------
(* Failures and outages.                                                    *)

CausesOK ==
  /\ disturbed \in BOOLEAN
  /\ (outcome = "sweeping" /\ (link # "up" \/ handle = "forgotten")) => disturbed
  /\ FailuresHaveCauses

\* A call that ends a sweep can be rejected only if something disturbed it.
LEMMA CausesStep ==
  ASSUME ClientOK, CallsOK, CausesOK, [Next]_vars
  PROVE  CausesOK'
  <1> USE DEF CausesOK, FailuresHaveCauses
  <1>1. ASSUME Reads PROVE CausesOK'
    <2>1. Reading
      BY <1>1, ReadsRead
    <2>2. CASE GoesOn \/ TakesLayout
      <3>1. /\ outcome = "sweeping" /\ outcome' = "sweeping"
            /\ UNCHANGED <<profile, link, handle>>
            /\ disturbed' \in {disturbed, TRUE}
        BY <2>1, <2>2 DEF Reading, GoesOn, TakesLayout, worldVars, clientVars
      <3>2. QED
        BY <3>1
    <2>3. CASE Ends
      <3>1. /\ outcome = "sweeping" /\ outcome' \in {"raised", "crashed"}
            /\ UNCHANGED <<profile, link, handle>>
            /\ disturbed' \in {disturbed, TRUE}
        BY <2>1, <2>3 DEF Reading, Ends, worldVars, clientVars
      <3>2. ASSUME outcome' = "raised" PROVE disturbed'
        <4>1. /\ Rejected(Head(todo))
              /\ Head(todo).fn \in {"statinfo", "rdtofsinfo", "rdalmmsg2"}
          BY <2>3, <3>2 DEF Ends
        <4>2. CASE Accepted(Head(todo))
          BY <4>1, <4>2 DEF Rejected
        <4>3. CASE ~Accepted(Head(todo))
          <5>1. link # "up" \/ handle = "forgotten"
            <6>1. handle \in {"primed", "forgotten"}
              BY <3>1 DEF ClientOK
            <6>2. QED
              BY <4>1, <4>3, <6>1 DEF Accepted, Serves
          <5>2. disturbed' = disturbed
            BY <4>1, <4>3 DEF Rejected
          <5>3. QED
            BY <3>1, <5>1, <5>2
        <4>4. QED
          BY <4>2, <4>3
      <3>3. QED
        BY <3>1, <3>2
    <2>4. QED
      BY <2>1, <2>2, <2>3 DEF Reading
  <1>2. ASSUME BeginSweep \/ Deliver PROVE CausesOK'
    BY <1>2 DEF BeginSweep, Begin, Deliver, clientVars, worldVars
  <1>3. ASSUME Connection PROVE CausesOK'
    <2>1. CASE AllocateHandle
      BY <2>1 DEF AllocateHandle, ClientOK, worldVars
    <2>2. CASE Prime \/ Close
      BY <2>2 DEF Prime, Close, ClientOK, sweepVars, worldVars, histVars
    <2>3. CASE PrimeFails
      BY <2>3 DEF PrimeFails, Rejected, ClientOK, sweepVars, worldVars
    <2>4. QED
      BY <1>3, <2>1, <2>2, <2>3 DEF Connection
  <1>4. ASSUME World PROVE CausesOK'
    BY <1>4 DEF World, Edit, Reconfigure, LinkChanges, clientVars, sweepVars, ClientOK
  <1>5. ASSUME Export PROVE CausesOK'
    <2>1. CASE BeginExport
      BY <2>1 DEF BeginExport, clientVars, worldVars
    <2>2. CASE Resolve
      BY <2>2 DEF Resolve, Due, Apart, clientVars, worldVars
    <2>3. CASE StartUpload \/ EndUpload
      BY <2>3 DEF StartUpload, EndUpload, Due, Apart, Served, Rejected, clientVars, worldVars
    <2>4. CASE UploadChunk
      <3>1. disturbed' \in {disturbed, TRUE}
        BY <2>4 DEF UploadChunk, NoData, Served, Rejected
      <3>2. /\ outcome = "sweeping" /\ UNCHANGED <<clientVars, outcome>>
            /\ Apart
        BY <2>4 DEF UploadChunk, Due
      <3>3. QED
        BY <3>1, <3>2 DEF Apart, clientVars, worldVars
    <2>5. CASE CloseExport
      <3>1. todo # <<>> /\ Head(todo).fn = "close" /\ profile \in {"mill", "lathe", "export"}
        BY <2>5, Bounds DEF CloseExport, Due, ClientOK
      <3>2. GoodCall(profile, cache, Head(todo))
        BY <3>1, CallIsGood DEF ClientOK
      <3>3. profile = "export"
        BY <3>1, <3>2 DEF GoodCall, FnsOf
      <3>4. QED
        BY <2>5, <3>3 DEF CloseExport, Apart, worldVars
    <2>6. QED
      BY <1>5, <2>1, <2>2, <2>3, <2>4, <2>5 DEF Export
  <1>6. ASSUME NEW sparse, ExportG10(sparse) PROVE CausesOK'
    BY <1>6 DEF ExportG10, exportVars, readVars, clientVars, sweepVars, worldVars, histVars
  <1>7. ASSUME RunG10 PROVE CausesOK'
    BY <1>7 DEF RunG10, clientVars, sweepVars
  <1>8. ASSUME Stutters PROVE CausesOK'
    BY <1>8 DEF Stutters, vars, exportVars, readVars, clientVars, sweepVars, worldVars, histVars
  <1>9. QED
    BY <1>1, <1>2, <1>3, <1>4, <1>5, <1>6, <1>7, <1>8, StepKinds

(* Where a sweep or a request is as long as no call could be accepted.     *)
Unanswered ==
  /\ todo # <<>>
  /\ IF profile = "export"
     THEN \/ Head(todo).fn \in {"exeprgname", "upstart3"}
          \/ Head(todo).fn = "resolve" /\ snap[<<"program", 0>>] = Nothing
          \/ Head(todo).fn = "close" /\ failed
     ELSE Head(todo).fn = "statinfo"

AnsweredOK ==
  /\ answered \in BOOLEAN
  /\ outcome = "sweeping" /\ Works => answered
  /\ outcome = "sweeping" /\ ~answered => Unanswered
  /\ OutagesAreNoticed

\* A control that does not work serves nothing.
LEMMA NothingServed ==
  ASSUME ~Works, Head(todo).fn # "sysinfo"
  PROVE  ~Accepted(Head(todo))
  BY DEF Works, Accepted, Serves

\* A read of a control that could not answer ends the sweep, or leaves a request
\* without the number of a program.
LEMMA UnansweredRead ==
  ASSUME ClientOK, CallsOK, AnsweredOK, Reads, ~answered
  PROVE  outcome' # "sweeping" \/ Unanswered'
  <1>1. /\ outcome = "sweeping" /\ profile' = profile /\ ~Works /\ Unanswered
        /\ profile \in {"mill", "lathe", "export"}
    BY ReadsRead, Bounds DEF Reading, worldVars, AnsweredOK, ClientOK
  <1>2. CASE profile = "export"
    <2>1. Head(todo).fn = "exeprgname"
      BY <1>1, <1>2 DEF Unanswered, Reads, ReadStatus, ReadLayout, ReadOffset, ReadPmcByte,
         ReadLifeGroups, ReadLifeGroup, ReadLifeSlot, ReadAlarms, ReadMacro, ReadProgramNumber,
         ReadProgramText, ReadActiveWcs, ReadCommandedT, ReadStatusField, ReadWorkOffset, Due
    <2>2. ~Accepted(Head(todo))
      BY <1>1, <2>1, NothingServed
    <2>3. ReadProgramNumber
      BY <2>1 DEF Reads, ReadStatus, ReadLayout, ReadOffset, ReadPmcByte,
         ReadLifeGroups, ReadLifeGroup, ReadLifeSlot, ReadAlarms, ReadMacro,
         ReadProgramText, ReadActiveWcs, ReadCommandedT, ReadStatusField, ReadWorkOffset, Due
    <2>4. snap' = With(snap, <<"program", 0>>, Nothing) /\ todo' = Tail(todo)
      BY <2>2, <2>3 DEF ReadProgramNumber, Served, Observe, GoOn
    <2>5. Tail(todo) = <<Call("resolve", 0, 0)>>
      BY <1>1, <1>2, <2>1, ExportCalls DEF CallsOK, Unanswered
    <2>6. todo' # <<>> /\ Head(todo').fn = "resolve"
      <3>1. todo' = <<Call("resolve", 0, 0)>>
        BY <2>4, <2>5
      <3>2. todo' # <<>> /\ Head(todo') = Call("resolve", 0, 0)
        BY <3>1
      <3>3. QED
        BY <3>2 DEF Call
    <2>7. snap'[<<"program", 0>>] = Nothing
      BY <2>4 DEF With
    <2>8. QED
      BY <1>1, <1>2, <2>6, <2>7 DEF Unanswered
  <1>3. CASE profile # "export"
    <2>1. Head(todo).fn = "statinfo"
      BY <1>1, <1>3 DEF Unanswered
    <2>2. ~Accepted(Head(todo))
      BY <1>1, <2>1, NothingServed
    <2>3. ReadStatus
      BY <2>1 DEF Reads, ReadLayout, ReadOffset, ReadPmcByte, ReadLifeGroups, ReadLifeGroup,
         ReadLifeSlot, ReadAlarms, ReadMacro, ReadProgramNumber, ReadProgramText,
         ReadActiveWcs, ReadCommandedT, ReadStatusField, ReadWorkOffset, Due
    <2>4. QED
      BY <2>2, <2>3 DEF ReadStatus, Served, Raise
  <1>4. QED
    BY <1>2, <1>3

\* A sweep that is reported as read had an answer.
LEMMA AnsweredStep ==
  ASSUME ClientOK, CallsOK, AnsweredOK, [Next]_vars
  PROVE  AnsweredOK'
  <1> USE DEF OutagesAreNoticed
  <1>1. ASSUME Reads PROVE AnsweredOK'
    <2>1. /\ outcome = "sweeping" /\ outcome' \in {"sweeping", "raised", "crashed"}
          /\ UNCHANGED <<link, handle, answered>>
      BY <1>1, ReadsRead DEF Reading, GoesOn, TakesLayout, Ends, worldVars, clientVars
    <2>2. Works' <=> Works
      BY <2>1 DEF Works
    <2>3. outcome' = "sweeping" /\ ~answered => Unanswered'
      BY <1>1, UnansweredRead
    <2>4. QED
      BY <2>1, <2>2, <2>3 DEF AnsweredOK
  <1>2. ASSUME BeginSweep PROVE AnsweredOK'
    <2>1. /\ outcome' = "sweeping" /\ answered' = Works
          /\ UNCHANGED <<profile, link, handle>> /\ profile # "export"
      BY <1>2 DEF BeginSweep, Begin, worldVars, clientVars
    <2>2. todo' # <<>> /\ Head(todo').fn = "statinfo"
      <3>1. CASE profile = "mill"
        BY <1>2, <3>1, MillPlanOf DEF BeginSweep, Begin, ClientOK
      <3>2. CASE profile = "lathe"
        BY <1>2, <3>2, LathePlanOf DEF BeginSweep, Begin
      <3>3. QED
        BY <1>2, <3>1, <3>2 DEF BeginSweep
    <2>3. QED
      BY <2>1, <2>2 DEF AnsweredOK, Unanswered, Works
  <1>3. ASSUME Deliver PROVE AnsweredOK'
    BY <1>3 DEF Deliver, AnsweredOK, Unanswered
  <1>4. ASSUME Connection PROVE AnsweredOK'
    <2>1. outcome # "sweeping" /\ outcome' \in {outcome, "none"} /\ answered' = answered
      BY <1>4 DEF Connection, AllocateHandle, Prime, PrimeFails, Close, sweepVars, histVars,
                  ClientOK
    <2>2. QED
      BY <2>1 DEF AnsweredOK
  <1>5. ASSUME World, UNCHANGED failed PROVE AnsweredOK'
    <2>1. UNCHANGED <<profile, todo, snap, outcome>>
      BY <1>5 DEF World, Edit, Reconfigure, LinkChanges, sweepVars
    <2>2. Unanswered' <=> Unanswered
      BY <1>5, <2>1 DEF Unanswered
    <2>3. CASE Edit \/ Reconfigure
      BY <2>1, <2>2, <2>3 DEF Edit, Reconfigure, clientVars, AnsweredOK, Works
    <2>4. CASE LinkChanges
      BY <2>1, <2>2, <2>4 DEF LinkChanges, AnsweredOK, Works
    <2>5. QED
      BY <1>5, <2>3, <2>4 DEF World
  <1>6. ASSUME Export PROVE AnsweredOK'
    <2>1. CASE BeginExport
      <3>1. /\ outcome' = "sweeping" /\ answered' = Works
            /\ UNCHANGED <<profile, link, handle>> /\ profile = "export"
        BY <2>1 DEF BeginExport, worldVars, clientVars
      <3>2. todo' # <<>> /\ Head(todo').fn \in {"exeprgname", "upstart3"}
        <4>1. CASE todo' = <<Call("exeprgname", 0, 0), Call("resolve", 0, 0)>>
          BY <4>1 DEF Call
        <4>2. CASE \E o \in DOMAIN Programs : todo' = <<Call("upstart3", o, 0)>>
          BY <4>2 DEF Call
        <4>3. QED
          BY <2>1, <4>1, <4>2 DEF BeginExport
      <3>3. QED
        BY <3>1, <3>2 DEF AnsweredOK, Unanswered, Works
    <2>2. CASE Export /\ ~BeginExport
      <3>1. /\ outcome = "sweeping" /\ todo # <<>> /\ answered' = answered
            /\ UNCHANGED <<profile, link>>
        BY <2>2 DEF Export, Resolve, StartUpload, UploadChunk, EndUpload, CloseExport, Apart,
                    Due, worldVars
      <3>2. CASE CloseExport
        BY <3>1, <3>2 DEF CloseExport, AnsweredOK, Unanswered, Due
      <3>3. CASE answered /\ ~CloseExport
        <4>1. outcome' = outcome
          BY <2>2, <3>3 DEF Export, Resolve, StartUpload, UploadChunk, EndUpload
        <4>2. QED
          BY <3>1, <3>3, <4>1 DEF AnsweredOK
      <3>4. CASE ~answered /\ ~CloseExport
        <4>1. ~Works /\ Unanswered
          BY <3>1, <3>4 DEF AnsweredOK
        <4>2. Head(todo).fn \in {"resolve", "upstart3", "upload3", "upend3"}
          BY <2>2, <3>4 DEF Export, Resolve, StartUpload, UploadChunk, EndUpload, Due
        <4>3. GoodCall(profile, cache, Head(todo)) /\ profile \in {"mill", "lathe", "export"}
          BY <3>1, CallIsGood, Bounds DEF ClientOK
        <4>4. profile = "export"
          BY <4>2, <4>3 DEF GoodCall, FnsOf
        <4>5. UNCHANGED <<outcome, handle>>
          BY <2>2, <3>4 DEF Export, Resolve, StartUpload, UploadChunk, EndUpload, clientVars
        <4>6. Works' <=> Works
          BY <3>1, <4>5 DEF Works
        <4>7. Unanswered'
          <5>1. CASE Head(todo).fn = "resolve"
            <6>1. Resolve /\ snap[<<"program", 0>>] = Nothing
              BY <2>2, <3>4, <4>1, <4>4, <5>1 DEF Export, StartUpload, UploadChunk, EndUpload,
                                                  Due, Unanswered
            <6>2. todo' = <<Call("close", 0, 0)>> /\ failed'
              BY <6>1 DEF Resolve, Throw
            <6>3. todo' # <<>> /\ Head(todo').fn = "close"
              BY <6>2 DEF Call
            <6>4. QED
              BY <3>1, <4>4, <6>2, <6>3 DEF Unanswered
          <5>2. CASE Head(todo).fn = "upstart3"
            <6>1. StartUpload /\ ~Accepted(Head(todo))
              BY <2>2, <3>4, <4>1, <5>2, NothingServed DEF Export, Resolve, UploadChunk, EndUpload, Due
            <6>2. todo' = <<Call("close", wanted, 0)>> /\ failed'
              BY <6>1 DEF StartUpload, Served, Throw, Call1
            <6>3. todo' # <<>> /\ Head(todo').fn = "close"
              BY <6>2 DEF Call
            <6>4. QED
              BY <3>1, <4>4, <6>2, <6>3 DEF Unanswered
          <5>3. QED
            BY <4>1, <4>2, <4>4, <5>1, <5>2 DEF Unanswered
        <4>8. QED
          BY <3>1, <3>4, <4>1, <4>5, <4>6, <4>7 DEF AnsweredOK
      <3>5. QED
        BY <3>2, <3>3, <3>4
    <2>3. QED
      BY <1>6, <2>1, <2>2
  <1>7. ASSUME UNCHANGED <<profile, todo, snap, outcome, failed, link, handle, answered>>
        PROVE  AnsweredOK'
    BY <1>7 DEF AnsweredOK, Unanswered, Works
  <1>8. ASSUME NEW sparse, ExportG10(sparse) PROVE AnsweredOK'
    BY <1>7, <1>8 DEF ExportG10, exportVars, readVars, clientVars, sweepVars, worldVars,
                      histVars, uploadVars
  <1>9. ASSUME RunG10 PROVE AnsweredOK'
    BY <1>7, <1>9 DEF RunG10, clientVars, sweepVars, uploadVars
  <1>10. ASSUME Stutters PROVE AnsweredOK'
    BY <1>7, <1>10 DEF Stutters, vars, exportVars, readVars, clientVars, sweepVars, worldVars,
                       histVars, uploadVars
  <1>11. QED
    BY <1>1, <1>2, <1>3, <1>4, <1>5, <1>6, <1>8, <1>9, <1>10, StepKinds DEF uploadVars

-----------------------------------------------------------------------------
(* What a sweep tells, if nothing disturbs it.                              *)

\* A page and a place on it have their number.
LEMMA NumberOf ==
  ASSUME NEW use \in Nat, NEW n \in 1..7, NEW a \in 1..use, NEW j \in 1..n
  PROVE  \E i \in 1..(use * n) : ((i - 1) \div n) + 1 = a /\ ((i - 1) % n) + 1 = j
  <1> DEFINE i == n * (a - 1) + j
  <1>1. i \in 1..(use * n)
    <2>1. /\ a - 1 \in Nat /\ n \in Nat /\ j \in Nat /\ n * (a - 1) \in Nat
          /\ n * (a - 1) + n = n * a
      OBVIOUS
    <2>2. n * a <= use * n
      OBVIOUS
    <2> DEFINE x == n * (a - 1)
               y == n * a
               z == use * n
    <2>3. x \in Nat /\ y \in Int /\ z \in Int /\ x + n = y /\ y <= z /\ j >= 1 /\ j <= n
      BY <2>1, <2>2
    <2> HIDE DEF x, y, z
    <2>4. x + j \in 1..z
      BY <2>1, <2>3
    <2>5. QED
      BY <2>4 DEF x, z
  <1>2. (i - 1) \div n = a - 1 /\ (i - 1) % n = j - 1
    <2>1. \A q \in Nat, r \in 0..n - 1 : (n * q + r) \div n = q /\ (n * q + r) % n = r
      <3>1. CASE n = 1
        BY <3>1
      <3>2. CASE n = 2
        BY <3>2
      <3>3. CASE n = 3
        BY <3>3
      <3>4. CASE n = 4
        BY <3>4
      <3>5. CASE n = 5
        BY <3>5
      <3>6. CASE n = 6
        BY <3>6
      <3>7. CASE n = 7
        BY <3>7
      <3>8. QED
        BY <3>1, <3>2, <3>3, <3>4, <3>5, <3>6, <3>7
    <2>2. a - 1 \in Nat /\ j - 1 \in 0..n - 1
      OBVIOUS
    <2>3. i - 1 = n * (a - 1) + (j - 1)
      <3>1. n * (a - 1) \in Int
        OBVIOUS
      <3>2. QED
        BY <3>1
    <2> HIDE DEF i
    <2>4. QED
      BY <2>1, <2>2, <2>3
  <1>3. (a - 1) + 1 = a /\ (j - 1) + 1 = j
    OBVIOUS
  <1> HIDE DEF i
  <1>4. QED
    BY <1>1, <1>2, <1>3

\* Every register of a layout is read in each of its banks.
LEMMA EveryRegister ==
  ASSUME NEW p, NEW l \in [type : 1..3, use : Nat],
         NEW a \in 1..l.use, NEW b \in DOMAIN BanksFor(p, l.type)
  PROVE  Call("rdtofs", a, b) \in Items(OffsetCalls(BanksFor(p, l.type), l.use))
  <1> DEFINE D == DOMAIN BanksFor(p, l.type)
             codes == Ascending(D)
             n == Len(codes)
             use == l.use
             m == use * n
             Item(i) == Call("rdtofs", ((i - 1) \div n) + 1, codes[((i - 1) % n) + 1])
             s == OffsetCalls(BanksFor(p, l.type), l.use)
  <1>1. D \in SUBSET (0..6) /\ IsFiniteSet(D) /\ D \in SUBSET Nat
    BY BankCodes
  <1>2. /\ codes \in Seq(D) /\ n = Cardinality(D) /\ n \in Nat
        /\ \A c \in D : \E j \in 1..n : codes[j] = c
    <2> HIDE DEF D
    <2> QED
      BY <1>1, AscendingOf
  <1>3. n <= 7
    <2> DEFINE top == 6
    <2>1. top \in Nat /\ top \in Int /\ 0 \in Int /\ top - 0 + 1 = 7 /\ ~(0 > top)
      OBVIOUS
    <2> HIDE DEF top
    <2>2. IsFiniteSet(0..top) /\ Cardinality(0..top) = 7
      BY <2>1, FS_Interval, Zenon
    <2>3. D \in SUBSET (0..top)
      BY <1>1 DEF top
    <2>4. Cardinality(D) <= Cardinality(0..top)
      <3> HIDE DEF D
      <3> QED
        BY <2>2, <2>3, FS_Subset
    <2> HIDE DEF n, D
    <2>5. QED
      BY <1>2, <2>2, <2>4
  <1>4. s = [i \in 1..m |-> Item(i)]
    BY DEF OffsetCalls
  <1>5. PICK j \in 1..n : codes[j] = b
    BY <1>2
  <1>6. n \in 1..7 /\ use \in Nat /\ a \in 1..use
    <2>1. use \in Nat /\ a \in 1..use
      OBVIOUS
    <2>2. n \in Nat /\ n <= 7 /\ j \in 1..n
      BY <1>2, <1>3, <1>5
    <2> HIDE DEF n, use
    <2>3. QED
      BY <2>1, <2>2
  <1>7. PICK i \in 1..m : ((i - 1) \div n) + 1 = a /\ ((i - 1) % n) + 1 = j
    <2> DEFINE Numbered(u, k, x, y) ==
                 \E i \in 1..(u * k) : ((i - 1) \div k) + 1 = x /\ ((i - 1) % k) + 1 = y
    <2>1. \A u \in Nat, k \in 1..7 : \A x \in 1..u, y \in 1..k : Numbered(u, k, x, y)
      BY NumberOf
    <2> HIDE DEF n, use, codes, Numbered
    <2>2. Numbered(use, n, a, j)
      BY <1>5, <1>6, <2>1
    <2>3. QED
      BY <2>2 DEF Numbered
  <1>8. s[i] = Call("rdtofs", a, b)
    <2>1. s[i] = Item(i)
      BY <1>4
    <2> HIDE DEF n, codes
    <2>2. QED
      BY <1>5, <1>7, <2>1
  <1>9. m \in Nat /\ Len(s) = m
    <2>1. m \in Nat
      <3> HIDE DEF n, use
      <3> QED
        BY <1>6
    <2> HIDE DEF m, Item, s
    <2>2. DOMAIN s = 1..m
      BY <1>4
    <2>3. s \in Seq(AnyCall)
      BY OffsetCallsOf DEF s
    <2>4. QED
      BY <2>1, <2>2, <2>3
  <1> HIDE DEF s, m
  <1>10. QED
    BY <1>7, <1>8, <1>9 DEF Items, s

(* The datum that a call reports, and the data that it brings, at once or  *)
(* by the calls that follow from it.                                       *)
KeyOf(kept, call) ==
  CASE call.fn = "statinfo" -> <<"status", 0>>
    [] call.fn = "pmc" -> IF call.a = "pot" THEN <<"pot", call.b - 104>> ELSE <<call.a, 0>>
    [] call.fn = "rdmacro" -> <<"macro", call.a>>
    [] call.fn = "exeprgname" -> <<"program", 0>>
    [] call.fn = "rdexecprog" -> <<"name", 0>>
    [] call.fn = "rdgcode" -> <<"wcs", 0>>
    [] call.fn = "rdcommand" -> <<"tword", 0>>
    [] call.fn = "rdzofs" -> <<"zofs", call.a>>
    [] call.fn = "rdwkcdshft" -> <<"shift", 0>>
    [] call.fn = "rdtofs" -> <<BanksFor(profile, kept[1].type)[call.b], call.a>>

Telling == {"statinfo", "pmc", "rdmacro", "exeprgname", "rdexecprog", "rdgcode", "rdcommand",
            "rdzofs", "rdwkcdshft", "rdtofs"}

Brings(kept, call, k) ==
  \/ call.fn \in Telling /\ k = KeyOf(kept, call)
  \/ call.fn = "rdtofsinfo" /\ IsOffset(k)

(* A datum is told, or will be; or it is of a table laid out anew.         *)
Told(k) == k \in DOMAIN snap \/ \E call \in Items(todo) : Brings(cache, call, k)
InDoubt(k) == relaid /\ IsOffset(k)

(* A sweep tells all that the panel has, or the status and nothing else.   *)
TellsAll == \A k \in OnPanel : Told(k) \/ InDoubt(k)

TellsStatus ==
  /\ profile = "lathe"
  /\ \A call \in Items(todo) :
       call.fn \in {"statinfo", "exeprgname", "rdexecprog", "rdgcode", "rdcommand"}
  /\ DOMAIN snap \subseteq StatusKeys \cup {<<"name", 0>>}
  /\ \A k \in StatusKeys : Told(k)

CompleteOK ==
  (profile # "export" /\ outcome = "sweeping" /\ ~disturbed) => TellsAll \/ TellsStatus

\* The registers that the panel has are read by the layout it has.
LEMMA LayoutTells ==
  ASSUME profile \in Profiles, profile \in {"mill", "lathe"}, layout \in LayoutsHad,
         NEW k \in OnPanel, IsOffset(k)
  PROVE  \E call \in Items(AfterLayout(layout)) : Brings(Just(layout), call, k)
  <1>1. layout \in [type : 1..3, use : Nat]
    BY AfterLayoutOf
  <1>2. /\ k \in Keys /\ k[2] <= layout.use
        /\ \E code \in PanelCodes : PanelBank(code) = k[1]
    BY DEF OnPanel
  <1>3. k[1] \in AllBanks
    BY AllBankNames DEF IsOffset, LengthBanks
  <1>4. k = <<k[1], k[2]>> /\ k[2] \in 1..layout.use
    <2>1. PICK n \in 1..RegisterLimit :
            \A key \in Keys : key[1] \in AllBanks => key = <<key[1], key[2]>> /\ key[2] \in 1..n
      BY DataShapes
    <2>2. n \in Nat /\ k = <<k[1], k[2]>> /\ k[2] \in 1..n
      <3>1. n \in Nat
        BY DEF RegisterLimit
      <3>2. QED
        BY <1>2, <1>3, <2>1, <3>1
    <2> DEFINE a == k[2]
    <2>3. a \in 1..n /\ a <= layout.use
      BY <1>2, <2>2
    <2> HIDE DEF a
    <2>4. a \in 1..layout.use
      BY <1>1, <2>2, <2>3
    <2>5. QED
      BY <2>2, <2>4 DEF a
  <1>5. \E b \in DOMAIN BanksFor(profile, layout.type) :
          BanksFor(profile, layout.type)[b] = k[1]
    <2> DEFINE bank == k[1]
    <2>1. PICK code \in PanelCodes : PanelBank(code) = bank
      BY <1>2
    <2> HIDE DEF bank
    <2>2. CASE profile = "lathe"
      <3>1. code \in 0..7 /\ bank = <<"x_wear", "x_geom", "z_wear", "z_geom", "r_wear",
                                      "r_geom", "tip", "tip">>[code + 1]
        BY <2>1, <2>2 DEF PanelCodes, PanelBank
      <3>2. \E b \in 0..6 : bank = LatheTypeMap[b]
        <4>1. CASE code = 7
          <5>1. bank = LatheTypeMap[6] /\ 6 \in 0..6
            BY <3>1, <4>1 DEF LatheTypeMap
          <5>2. QED
            BY <5>1
        <4>2. CASE code # 7
          <5>1. code \in 0..6 /\ bank = LatheTypeMap[code]
            BY <3>1, <4>2 DEF LatheTypeMap
          <5>2. QED
            BY <5>1
        <4>3. QED
          BY <4>1, <4>2
      <3>3. DOMAIN LatheTypeMap = 0..6
        BY DEF LatheTypeMap
      <3>4. QED
        BY <2>2, <3>2, <3>3 DEF BanksFor, bank
    <2>3. CASE profile = "mill"
      <3>1. layout.type \in 1..3
        BY <1>1
      <3>2. /\ code \in DOMAIN OfsTypeDispatch(layout.type)
            /\ bank = OfsTypeDispatch(layout.type)[code]
        BY <2>1, <2>3, <3>1 DEF PanelCodes, PanelBank, OfsTypeDispatch, MemoryA, MemoryB, MemoryC
      <3>3. QED
        BY <2>3, <3>2 DEF BanksFor, bank
    <2>4. QED
      BY <2>2, <2>3
  <1>6. PICK b \in DOMAIN BanksFor(profile, layout.type) :
          BanksFor(profile, layout.type)[b] = k[1]
    BY <1>5
  <1> DEFINE call == Call("rdtofs", k[2], b)
  <1>7. call \in Items(OffsetCalls(BanksFor(profile, layout.type), layout.use))
    BY <1>1, <1>4, EveryRegister
  <1>8. AfterLayout(layout) = OffsetCalls(BanksFor(profile, layout.type), layout.use)
    BY DEF AfterLayout, BanksOf, BanksFor
  <1>9. /\ call.fn = "rdtofs" /\ call.a = k[2] /\ call.b = b
        /\ Just(layout)[1] = layout
    BY DEF Call, Just
  <1> HIDE DEF call
  <1>10. KeyOf(Just(layout), call) = <<BanksFor(profile, layout.type)[b], k[2]>>
    BY <1>9 DEF KeyOf
  <1>11. KeyOf(Just(layout), call) = k
    BY <1>4, <1>6, <1>10
  <1>12. Brings(Just(layout), call, k)
    BY <1>9, <1>11 DEF Brings, Telling
  <1>13. QED
    BY <1>7, <1>8, <1>12

\* The plan of a mill brings all that the panel has.
LEMMA MillTells ==
  ASSUME ClientOK, profile = "mill", NEW k \in OnPanel
  PROVE  InDoubt(k) \/ \E call \in Items(MillPlan) : Brings(cache, call, k)
  <1> DEFINE Here(call) == call \in Items(MillPlan)
  <1>1. /\ profile \in Profiles /\ layout \in LayoutsHad /\ LayoutIsKept
        /\ cache \in {Nothing} \cup {Just(l) : l \in LayoutsHad}
    BY DEF ClientOK
  <1>2. /\ Here(Call("statinfo", 0, 0)) /\ Here(Call("pmc", "head", 327))
        /\ Here(Call("pmc", "next", 325))
        /\ IF cache = Nothing THEN Here(Call("rdtofsinfo", 0, 0))
           ELSE Items(AfterLayout(cache[1])) \subseteq Items(MillPlan)
        /\ \A i \in 1..PotCount : Here(Call("pmc", "pot", 104 + i))
        /\ \A i \in 1..Len(MacroVars) : Here(Call("rdmacro", MacroVars[i], 10))
    BY <1>1, MillPlanOf
  <1>3. CASE IsOffset(k)
    <2>1. CASE cache = Nothing
      <3>1. Call("rdtofsinfo", 0, 0).fn = "rdtofsinfo"
        BY DEF Call
      <3>2. Brings(cache, Call("rdtofsinfo", 0, 0), k)
        BY <1>3, <3>1 DEF Brings
      <3>3. QED
        BY <1>2, <2>1, <3>2
    <2>2. CASE cache # Nothing /\ ~relaid
      <3>1. cache = Just(layout) /\ cache[1] = layout
        BY <1>1, <2>2 DEF LayoutIsKept, Just
      <3>2. PICK call \in Items(AfterLayout(layout)) : Brings(Just(layout), call, k)
        BY <1>1, <1>3, LayoutTells
      <3>3. QED
        BY <1>2, <2>2, <3>1, <3>2
    <2>3. CASE relaid
      BY <1>3, <2>3 DEF InDoubt
    <2>4. QED
      BY <1>1, <2>1, <2>2, <2>3 DEF LayoutIsKept
  <1>4. CASE ~IsOffset(k)
    <2>1. PICK n \in 1..RegisterLimit : Keys = DataOf(profile, n)
      BY <1>1, KeysOf
    <2>2. k \in Keys
      BY DEF OnPanel
    <2>3. \/ k \in {<<"status", 0>>, <<"head", 0>>, <<"next", 0>>}
          \/ \E i \in 1..PotCount : k = <<"pot", i>>
          \/ \E m \in Range(MacroVars) : k = <<"macro", m>>
      BY <1>4, <2>1, <2>2 DEF DataOf, IsOffset
    <2>4. \E call \in Items(MillPlan) : call.fn \in Telling /\ k = KeyOf(cache, call)
      <3>1. CASE k = <<"status", 0>>
        <4> DEFINE call == Call("statinfo", 0, 0)
        <4>1. call.fn = "statinfo"
          BY DEF Call
        <4> HIDE DEF call
        <4>2. call.fn \in Telling /\ KeyOf(cache, call) = k
          BY <3>1, <4>1 DEF Telling, KeyOf
        <4>3. QED
          BY <1>2, <4>2 DEF call
      <3>2. ASSUME NEW a \in {"head", "next"}, k = <<a, 0>>
            PROVE  \E call \in Items(MillPlan) : call.fn \in Telling /\ k = KeyOf(cache, call)
        <4>1. PICK b \in {327, 325} : Here(Call("pmc", a, b))
          BY <1>2, <3>2
        <4> DEFINE call == Call("pmc", a, b)
        <4>2. call.fn = "pmc" /\ call.a = a /\ a # "pot"
          BY <3>2 DEF Call
        <4> HIDE DEF call
        <4>3. call.fn \in Telling /\ KeyOf(cache, call) = k
          BY <3>2, <4>2 DEF Telling, KeyOf
        <4>4. QED
          BY <4>1, <4>3 DEF call
      <3>3. ASSUME NEW i \in 1..PotCount, k = <<"pot", i>>
            PROVE  \E call \in Items(MillPlan) : call.fn \in Telling /\ k = KeyOf(cache, call)
        <4> DEFINE call == Call("pmc", "pot", 104 + i)
        <4>1. PotCount \in Nat
          BY Bounds
        <4>2. call.fn = "pmc" /\ call.a = "pot" /\ call.b - 104 = i
          BY <4>1 DEF Call
        <4>3. Here(call)
          BY <1>2
        <4> HIDE DEF call
        <4>4. call.fn \in Telling /\ KeyOf(cache, call) = k
          BY <3>3, <4>2 DEF Telling, KeyOf
        <4>5. QED
          BY <4>3, <4>4
      <3>4. ASSUME NEW m \in Range(MacroVars), k = <<"macro", m>>
            PROVE  \E call \in Items(MillPlan) : call.fn \in Telling /\ k = KeyOf(cache, call)
        <4>1. PICK i \in 1..Len(MacroVars) : m = MacroVars[i]
          <5>1. DOMAIN MacroVars = 1..Len(MacroVars)
            BY Bounds
          <5>2. QED
            BY <5>1 DEF Range
        <4> DEFINE call == Call("rdmacro", MacroVars[i], 10)
        <4>2. call.fn = "rdmacro" /\ call.a = m
          BY <4>1 DEF Call
        <4>3. Here(call)
          BY <1>2
        <4> HIDE DEF call
        <4>4. call.fn \in Telling /\ KeyOf(cache, call) = k
          BY <3>4, <4>2 DEF Telling, KeyOf
        <4>5. QED
          BY <4>3, <4>4
      <3>5. QED
        BY <2>3, <3>1, <3>2, <3>3, <3>4
    <2>5. QED
      BY <2>4 DEF Brings
  <1>5. QED
    BY <1>3, <1>4

\* The fast tier of a lathe brings the status, and its full sweep all that the
\* panel has.
LEMMA LatheTells ==
  ASSUME profile \in Profiles, profile = "lathe", NEW kept
  PROVE  /\ \A k \in StatusKeys : \E call \in Items(LatheStatusPlan) : Brings(kept, call, k)
         /\ \A k \in OnPanel : \E call \in Items(LathePlan) : Brings(kept, call, k)
         /\ \A call \in Items(LatheStatusPlan) :
              call.fn \in {"statinfo", "exeprgname", "rdexecprog", "rdgcode", "rdcommand"}
  <1>1. /\ Items(LatheStatusPlan) = {Call("statinfo", 0, 0), Call("exeprgname", 0, 0),
                                     Call("rdgcode", 13, 0), Call("rdcommand", 0, 0)}
        /\ Items(LatheStatusPlan) \subseteq Items(LathePlan)
        /\ {Call("rdtofsinfo", 0, 0), Call("rdwkcdshft", 0, 0)} \subseteq Items(LathePlan)
        /\ \A i \in 1..Len(ZofsSlots) : Call("rdzofs", ZofsSlots[i], 0) \in Items(LathePlan)
    BY LathePlanOf
  <1>2. \A fn, a, b : Call(fn, a, b).fn = fn /\ Call(fn, a, b).a = a
    BY DEF Call
  <1>3. ASSUME NEW k \in StatusKeys
        PROVE  \E call \in Items(LatheStatusPlan) : Brings(kept, call, k)
    <2>1. k \in {<<"status", 0>>, <<"program", 0>>, <<"wcs", 0>>, <<"tword", 0>>}
      BY DEF StatusKeys
    <2>2. /\ Brings(kept, Call("statinfo", 0, 0), <<"status", 0>>)
          /\ Brings(kept, Call("exeprgname", 0, 0), <<"program", 0>>)
          /\ Brings(kept, Call("rdgcode", 13, 0), <<"wcs", 0>>)
          /\ Brings(kept, Call("rdcommand", 0, 0), <<"tword", 0>>)
      BY <1>2 DEF Brings, Telling, KeyOf
    <2>3. QED
      BY <1>1, <2>1, <2>2
  <1>4. ASSUME NEW k \in OnPanel
        PROVE  \E call \in Items(LathePlan) : Brings(kept, call, k)
    <2>1. PICK n \in 1..RegisterLimit : Keys = DataOf(profile, n)
      BY KeysOf
    <2>2. k \in Keys
      BY DEF OnPanel
    <2>3. \/ k \in StatusKeys \/ k = <<"shift", 0>> \/ IsOffset(k)
          \/ \E m \in Range(ZofsSlots) : k = <<"zofs", m>>
      BY <2>1, <2>2 DEF DataOf, IsOffset, StatusKeys
    <2>4. CASE k \in StatusKeys
      BY <1>1, <1>3, <2>4
    <2>5. CASE k = <<"shift", 0>>
      <3>1. Brings(kept, Call("rdwkcdshft", 0, 0), k)
        BY <1>2, <2>5 DEF Brings, Telling, KeyOf
      <3>2. QED
        BY <1>1, <3>1
    <2>6. CASE IsOffset(k)
      <3>1. Brings(kept, Call("rdtofsinfo", 0, 0), k)
        BY <1>2, <2>6 DEF Brings
      <3>2. QED
        BY <1>1, <3>1
    <2>7. ASSUME NEW m \in Range(ZofsSlots), k = <<"zofs", m>>
          PROVE  \E call \in Items(LathePlan) : Brings(kept, call, k)
      <3>1. PICK i \in 1..Len(ZofsSlots) : m = ZofsSlots[i]
        <4>1. DOMAIN ZofsSlots = 1..Len(ZofsSlots)
          BY Bounds
        <4>2. QED
          BY <4>1 DEF Range
      <3>2. Brings(kept, Call("rdzofs", m, 0), k)
        BY <1>2, <2>7 DEF Brings, Telling, KeyOf
      <3>3. QED
        BY <1>1, <3>1, <3>2
    <2>8. QED
      BY <2>3, <2>4, <2>5, <2>6, <2>7
  <1>5. \A call \in Items(LatheStatusPlan) :
          call.fn \in {"statinfo", "exeprgname", "rdexecprog", "rdgcode", "rdcommand"}
    BY <1>1, <1>2
  <1>6. QED
    BY <1>3, <1>4, <1>5

\* In a sweep that nothing disturbed only a register can be rejected, and only
\* if the table was laid out anew.
LEMMA OnlyRegisters ==
  ASSUME ClientOK, CausesOK, CallsOK, profile # "export", outcome = "sweeping", todo # <<>>,
         ~disturbed', Rejected(Head(todo))
  PROVE  Head(todo).fn = "rdtofs" /\ relaid
  <1> DEFINE call == Head(todo)
  <1>1. /\ profile \in {"mill", "lathe", "export"} /\ profile \in Profiles
        /\ GoodCall(profile, cache, call)
    BY CallIsGood, Bounds DEF ClientOK
  <1>2. ~Accepted(call) /\ ~disturbed
    BY DEF Rejected
  <1>3. link = "up" /\ handle = "primed"
    BY <1>2 DEF CausesOK, ClientOK
  <1>4. call.fn = "rdtofs" /\ ~(call.a <= layout.use /\ call.b \in PanelCodes)
    BY <1>2, <1>3 DEF Accepted, Serves
  <1>5. ASSUME ~relaid PROVE FALSE
    <2> HIDE DEF call
    <2>1. /\ cache # Nothing /\ call.a \in 1..cache[1].use
          /\ call.b \in DOMAIN BanksFor(profile, cache[1].type)
      BY <1>1, <1>4 DEF GoodCall
    <2>2. cache[1] = layout /\ layout \in LayoutsHad
      BY <1>5, <2>1 DEF ClientOK, LayoutIsKept, Just
    <2>3. layout \in [type : 1..3, use : Nat] /\ profile \in {"mill", "lathe"}
      BY <1>1, <2>2, AfterLayoutOf
    <2>4. call.a <= layout.use
      BY <2>1, <2>2, <2>3
    <2>5. call.b \in PanelCodes
      <3> DEFINE b == call.b
      <3>1. b \in DOMAIN BanksFor(profile, layout.type)
        BY <2>1, <2>2
      <3> HIDE DEF b
      <3>2. CASE profile = "lathe"
        <4>1. b \in 0..6
          BY <3>1, <3>2 DEF BanksFor, LatheTypeMap
        <4>2. b \in 0..7
          BY <4>1
        <4>3. PanelCodes = 0..7
          BY <3>2, Zenon DEF PanelCodes
        <4>4. QED
          BY <4>2, <4>3 DEF b
      <3>3. CASE profile = "mill"
        <4>1. b \in DOMAIN OfsTypeDispatch(layout.type) /\ layout.type \in 1..3
          BY <2>3, <3>1, <3>3 DEF BanksFor
        <4>2. b \in PanelCodes
          BY <3>3, <4>1 DEF OfsTypeDispatch, MemoryA, MemoryB, MemoryC, PanelCodes
        <4>3. QED
          BY <4>2 DEF b
      <3>4. QED
        BY <2>3, <3>2, <3>3
    <2>6. QED
      BY <1>4, <2>4, <2>5
  <1>6. LayoutIsKept
    BY DEF ClientOK
  <1>7. QED
    BY <1>4, <1>5, <1>6 DEF LayoutIsKept

(* What a read adds, if nothing disturbs it: the datum of its call.        *)
Adds ==
  /\ DOMAIN snap \subseteq DOMAIN snap'
  /\ profile = "lathe" => DOMAIN snap' \subseteq DOMAIN snap \cup {KeyOf(cache, Head(todo))}
  /\ Head(todo).fn \in Telling =>
       \/ KeyOf(cache, Head(todo)) \in DOMAIN snap'
       \/ Head(todo).fn = "rdtofs" /\ relaid

\* A read that nothing disturbed adds its datum.
LEMMA ReadsAdd ==
  ASSUME ClientOK, CausesOK, CallsOK, profile # "export", Reads, outcome' = "sweeping",
         ~disturbed'
  PROVE  Adds
  <1> DEFINE call == Head(todo)
  <1>1. /\ outcome = "sweeping" /\ todo # <<>>
        /\ profile \in {"mill", "lathe", "export"} /\ GoodCall(profile, cache, call)
    BY ReadsRead, CallIsGood, Bounds DEF Reading, ClientOK
  <1>2. Rejected(call) => call.fn = "rdtofs" /\ relaid
    BY <1>1, OnlyRegisters
  <1>3. ASSUME NEW k, NEW v, Observe(k, v), call.fn \in Telling => k = KeyOf(cache, call),
               profile = "lathe" => call.fn \in Telling
        PROVE  Adds
    <2>1. DOMAIN snap' = DOMAIN snap \cup {k}
      BY <1>3 DEF Observe, With
    <2>2. QED
      BY <1>3, <2>1 DEF Adds
  <1>4. ASSUME snap' = snap, call.fn \in Telling => call.fn = "rdtofs" /\ relaid
        PROVE  Adds
    BY <1>4 DEF Adds
  <1> HIDE DEF call
  <1>5. CASE ReadStatus
    <2>1. call.fn = "statinfo" /\ ~Raise
      BY <1>1, <1>5 DEF ReadStatus, Due, Raise, call
    <2>2. PICK v : Observe(<<"status", 0>>, v)
      BY <1>5, <2>1 DEF ReadStatus
    <2>3. QED
      BY <1>3, <2>1, <2>2 DEF KeyOf, Telling
  <1>6. CASE ReadLayout
    <2>1. call.fn = "rdtofsinfo" /\ snap' = snap
      BY <1>1, <1>6 DEF ReadLayout, Due, Raise, call
    <2>2. QED
      BY <1>4, <2>1 DEF Telling
  <1>7. CASE ReadOffset
    <2> DEFINE bank == BanksOf(cache[1].type)[call.b]
    <2>1. /\ call.fn = "rdtofs"
          /\ (\E v : Observe(<<bank, call.a>>, v)) \/ (Rejected(call) /\ snap' = snap)
      BY <1>1, <1>7 DEF ReadOffset, Due, PassOver, call
    <2>2. bank = BanksFor(profile, cache[1].type)[call.b]
      BY DEF BanksOf, BanksFor
    <2> HIDE DEF bank
    <2>3. call.fn \in Telling /\ KeyOf(cache, call) = <<bank, call.a>>
      BY <2>1, <2>2 DEF KeyOf, Telling
    <2>4. QED
      BY <1>2, <1>3, <1>4, <2>1, <2>3
  <1>8. CASE ReadPmcByte
    <2>1. call.fn = "pmc" /\ ~Rejected(call)
      BY <1>2, <1>8 DEF ReadPmcByte, Due, call
    <2>2. call.a = "pot" => \E v : Observe(<<"pot", call.b - 104>>, v)
      BY <1>8, <2>1 DEF ReadPmcByte, PassOver, call
    <2>3. call.a # "pot" => \E v : Observe(<<call.a, 0>>, v)
      BY <1>8, <2>1 DEF ReadPmcByte, call
    <2>4. call.fn \in Telling
      BY <2>1 DEF Telling
    <2>5. KeyOf(cache, call) = IF call.a = "pot" THEN <<"pot", call.b - 104>> ELSE <<call.a, 0>>
      BY <2>1 DEF KeyOf
    <2>6. QED
      BY <1>3, <2>2, <2>3, <2>4, <2>5
  <1>9. CASE ReadLifeGroups \/ ReadLifeGroup
    <2>1. call.fn \in {"rdngrp", "rdgrpid"} /\ snap' = snap
      BY <1>9 DEF ReadLifeGroups, ReadLifeGroup, PassOver, Due, call
    <2>2. QED
      BY <1>4, <2>1 DEF Telling
  <1>10. CASE ReadLifeSlot
    <2>1. call.fn = "rd1tlifedata" /\ (snap' = snap \/ \E k, v : Observe(k, v))
      BY <1>10 DEF ReadLifeSlot, PassOver, Due, call
    <2>2. profile # "lathe"
      BY <1>1, <2>1 DEF GoodCall, FnsOf
    <2>3. call.fn \notin Telling
      BY <2>1 DEF Telling
    <2>4. QED
      BY <1>3, <1>4, <2>1, <2>2, <2>3
  <1>11. CASE ReadAlarms
    <2>1. call.fn = "rdalmmsg2" /\ snap' = snap
      BY <1>1, <1>11 DEF ReadAlarms, Raise, Due, call
    <2>2. QED
      BY <1>4, <2>1 DEF Telling
  <1>12. CASE ReadMacro
    <2>1. call.fn = "rdmacro" /\ ~Rejected(call)
      BY <1>2, <1>12 DEF ReadMacro, Due, call
    <2>2. PICK v : Observe(<<"macro", call.a>>, v)
      BY <1>12, <2>1 DEF ReadMacro, PassOver, call
    <2>3. QED
      BY <1>3, <2>1, <2>2 DEF KeyOf, Telling
  <1>13. CASE ReadProgramNumber
    <2>1. call.fn = "exeprgname"
      BY <1>13 DEF ReadProgramNumber, Due, call
    <2>2. PICK v : Observe(<<"program", 0>>, v)
      BY <1>13 DEF ReadProgramNumber
    <2>3. QED
      BY <1>3, <2>1, <2>2 DEF KeyOf, Telling
  <1>14. CASE ReadProgramText
    <2>1. call.fn = "rdexecprog"
      BY <1>14 DEF ReadProgramText, Due, call
    <2>2. PICK v : Observe(<<"name", 0>>, v)
      BY <1>14 DEF ReadProgramText
    <2>3. QED
      BY <1>3, <2>1, <2>2 DEF KeyOf, Telling
  <1>15. CASE ReadActiveWcs
    <2>1. call.fn = "rdgcode"
      BY <1>15 DEF ReadActiveWcs, ReadStatusField, Due, call
    <2>2. PICK v : Observe(<<"wcs", 0>>, v)
      BY <1>15 DEF ReadActiveWcs, ReadStatusField
    <2>3. QED
      BY <1>3, <2>1, <2>2 DEF KeyOf, Telling
  <1>16. CASE ReadCommandedT
    <2>1. call.fn = "rdcommand"
      BY <1>16 DEF ReadCommandedT, ReadStatusField, Due, call
    <2>2. PICK v : Observe(<<"tword", 0>>, v)
      BY <1>16 DEF ReadCommandedT, ReadStatusField
    <2>3. QED
      BY <1>3, <2>1, <2>2 DEF KeyOf, Telling
  <1>17. CASE ReadWorkOffset
    <2> DEFINE key == IF call.fn = "rdzofs" THEN <<"zofs", call.a>> ELSE <<"shift", 0>>
    <2>1. call.fn \in {"rdzofs", "rdwkcdshft"} /\ ~Rejected(call)
      BY <1>2, <1>17 DEF ReadWorkOffset, Due, call
    <2>2. PICK v : Observe(key, v)
      BY <1>17, <2>1 DEF ReadWorkOffset, PassOver, call
    <2> HIDE DEF key
    <2>3. call.fn \in Telling /\ KeyOf(cache, call) = key
      BY <2>1 DEF KeyOf, Telling, key
    <2>4. QED
      BY <1>3, <2>2, <2>3
  <1>18. QED
    BY <1>5, <1>6, <1>7, <1>8, <1>9, <1>10, <1>11, <1>12, <1>13, <1>14, <1>15, <1>16, <1>17
       DEF Reads

\* A read that does not end the sweep leaves all to do that was left but itself,
\* and the layout the registers.
LEMMA NothingDropped ==
  ASSUME ClientOK, AreWords(control), CallsOK, profile # "export", Reads, outcome' = "sweeping"
  PROVE  /\ Items(todo) \subseteq {Head(todo)} \cup Items(Tail(todo))
         /\ Items(Tail(todo)) \subseteq Items(todo')
         /\ Head(todo).fn = "rdtofsinfo" =>
              /\ cache' = Just(layout) /\ Items(AfterLayout(layout)) \subseteq Items(todo')
              /\ Free(Tail(todo), {"rdtofs"})
         /\ Head(todo).fn # "rdtofsinfo" => cache' = cache
         /\ profile = "lathe" => \A call \in Items(todo') :
              \/ call \in Items(todo) \/ call.fn = "rdexecprog"
              \/ Head(todo).fn = "rdtofsinfo"
  <1> DEFINE rest == Tail(todo)
  <1>1. /\ todo # <<>> /\ Planned(profile, cache, todo)
        /\ profile \in {"mill", "lathe"} /\ layout \in LayoutsHad
    BY ReadsRead, Bounds DEF Reading, CallsOK, ClientOK
  <1>2. /\ todo \in Seq(AnyCall) /\ rest \in Seq(AnyCall)
        /\ GoodCall(profile, cache, Head(todo))
        /\ Head(todo).fn = "rdtofsinfo" => Free(rest, {"rdtofsinfo", "rdtofs"})
    BY <1>1, PlannedTail
  <1>3. Items(todo) \subseteq {Head(todo)} \cup Items(rest) /\ Items(rest) \subseteq Items(todo)
    <2>1. /\ Len(rest) = Len(todo) - 1 /\ Len(todo) \in Nat \ {0} /\ Head(todo) = todo[1]
          /\ \A i \in 1..Len(rest) : rest[i] = todo[i + 1]
          /\ Items(rest) \subseteq Items(todo)
      BY <1>1, <1>2, TailOf
    <2>2. ASSUME NEW i \in 1..Len(todo), i # 1 PROVE todo[i] \in Items(rest)
      <3> HIDE DEF rest
      <3>1. i - 1 \in 1..Len(rest) /\ (i - 1) + 1 = i
        BY <2>1, <2>2
      <3>2. rest[i - 1] = todo[i]
        BY <2>1, <3>1
      <3>3. QED
        BY <3>1, <3>2 DEF Items
    <2>3. QED
      BY <2>1, <2>2 DEF Items
  <1> HIDE DEF rest
  <1>4. NextCall \/ LayoutCalls \/ LifeCalls \/ TextCall
    BY ReadsLeave DEF LeavesCalls
  <1>5. CASE NextCall /\ Head(todo).fn # "rdtofsinfo"
    BY <1>2, <1>3, <1>5 DEF NextCall, rest
  <1>6. CASE LayoutCalls
    <2> DEFINE A == AfterLayout(layout)
    <2>1. A \in Seq(AnyCall)
      BY <1>1, AfterLayoutOf DEF Planned, Good
    <2>2. todo' = A \o rest /\ cache' = Just(layout) /\ Head(todo).fn = "rdtofsinfo"
      BY <1>6 DEF LayoutCalls, rest
    <2> HIDE DEF A
    <2>3. Items(A \o rest) = Items(A) \cup Items(rest)
      BY <1>2, <2>1, JoinOf
    <2>4. QED
      BY <1>2, <1>3, <2>2, <2>3 DEF Free, A, rest
  <1>7. CASE LifeCalls /\ Head(todo).fn # "rdtofsinfo"
    <2>1. PICK s : Quiet(profile, cache, s) /\ todo' = s \o rest
      BY <1>7 DEF LifeCalls, rest
    <2>2. s \in Seq(AnyCall)
      BY <2>1 DEF Quiet, Good
    <2>3. Items(s \o rest) = Items(s) \cup Items(rest)
      BY <1>2, <2>2, JoinOf
    <2>4. QED
      BY <1>3, <1>7, <2>1, <2>3 DEF LifeCalls, rest
  <1>8. CASE TextCall
    <2>1. PICK o \in Nat : todo' = <<Call("rdexecprog", o, 512)>> \o rest
      BY <1>8 DEF TextCall, rest
    <2> DEFINE c == Call("rdexecprog", o, 512)
    <2>2. c \in AnyCall /\ c.fn = "rdexecprog"
      BY NumberCall
    <2> HIDE DEF c
    <2>3. Items(<<c>> \o rest) = {c} \cup Items(rest)
      BY <1>2, <2>2, FrontOf
    <2>4. todo' = <<c>> \o rest /\ Head(todo).fn = "exeprgname" /\ cache' = cache
      BY <1>8, <2>1 DEF TextCall, c
    <2>5. QED
      BY <1>3, <2>2, <2>3, <2>4 DEF rest
  <1>9. ASSUME Head(todo).fn = "rdtofsinfo" PROVE LayoutCalls
    <2>1. ReadLayout
      BY <1>9 DEF Reads, ReadStatus, ReadOffset, ReadPmcByte, ReadLifeGroups, ReadLifeGroup,
         ReadLifeSlot, ReadAlarms, ReadMacro, ReadProgramNumber, ReadProgramText,
         ReadActiveWcs, ReadCommandedT, ReadStatusField, ReadWorkOffset, Due
    <2>2. QED
      BY <2>1 DEF ReadLayout, Due, Raise, LayoutCalls
  <1>10. QED
    BY <1>4, <1>5, <1>6, <1>7, <1>8, <1>9

\* What is to be told is told by a read, or stays to be told.
LEMMA ToldLasts ==
  ASSUME ClientOK, DataOK, CausesOK, CallsOK, profile # "export", Reads, outcome' = "sweeping",
         ~disturbed', NEW k, Told(k),
         Head(todo).fn = "rdtofsinfo" /\ IsOffset(k) => k \in OnPanel
  PROVE  Told(k)' \/ InDoubt(k)'
  <1> DEFINE head == Head(todo)
             rest == Tail(todo)
  <1>1. /\ profile \in Profiles /\ profile \in {"mill", "lathe"} /\ layout \in LayoutsHad
        /\ profile' = profile
    BY ReadsRead, Bounds DEF ClientOK, Reading, worldVars
  <1>2. /\ Items(todo) \subseteq {head} \cup Items(rest) /\ Items(rest) \subseteq Items(todo')
        /\ head.fn = "rdtofsinfo" =>
             /\ cache' = Just(layout) /\ Items(AfterLayout(layout)) \subseteq Items(todo')
             /\ Free(rest, {"rdtofs"})
        /\ head.fn # "rdtofsinfo" => cache' = cache
    BY NothingDropped DEF DataOK
  <1>3. Adds
    BY ReadsAdd
  <1> HIDE DEF head, rest
  <1>4. ASSUME NEW call \in Items(todo'), Brings(cache', call, k) PROVE Told(k)'
    <2>1. Brings(cache', call, k) = Brings(cache, call, k)'
      BY <1>1 DEF Brings, KeyOf, BanksFor, IsOffset
    <2>2. QED
      BY <1>4, <2>1 DEF Told
  <1>5. CASE k \in DOMAIN snap
    BY <1>3, <1>5 DEF Adds, Told
  <1>6. ASSUME NEW call \in Items(rest), Brings(cache, call, k) PROVE Told(k)'
    <2>1. Brings(cache', call, k)
      <3>1. CASE head.fn # "rdtofsinfo"
        BY <1>2, <1>6, <3>1
      <3>2. CASE head.fn = "rdtofsinfo"
        <4>1. call.fn # "rdtofs"
          BY <1>2, <1>6, <3>2 DEF Free
        <4>2. KeyOf(cache', call) = KeyOf(cache, call) \/ call.fn \notin Telling
          BY <4>1 DEF KeyOf, Telling
        <4>3. QED
          BY <1>6, <4>2 DEF Brings
      <3>3. QED
        BY <3>1, <3>2
    <2>2. QED
      BY <1>2, <1>4, <1>6, <2>1
  <1>7. CASE Brings(cache, head, k) /\ head.fn = "rdtofsinfo"
    <2>1. IsOffset(k) /\ k \in OnPanel
      BY <1>7 DEF Brings, Telling, head
    <2>2. PICK call \in Items(AfterLayout(layout)) : Brings(Just(layout), call, k)
      BY <1>1, <2>1, LayoutTells
    <2>3. QED
      BY <1>2, <1>4, <1>7, <2>2
  <1>8. CASE Brings(cache, head, k) /\ head.fn # "rdtofsinfo"
    <2>1. head.fn \in Telling /\ k = KeyOf(cache, head)
      BY <1>8 DEF Brings
    <2>2. k \in DOMAIN snap' \/ (head.fn = "rdtofs" /\ relaid)
      BY <1>3, <2>1 DEF Adds, head
    <2>3. ASSUME head.fn = "rdtofs", relaid PROVE InDoubt(k)'
      <3>1. ~ReadLayout
        BY <2>3 DEF ReadLayout, Due, head
      <3>2. relaid'
        BY <2>3, <3>1, DoubtStays
      <3>3. IsOffset(k)
        <4>1. /\ head.b \in DOMAIN BanksFor(profile, cache[1].type)
              /\ cache # Nothing
          <5>1. todo # <<>>
            BY ReadsRead DEF Reading
          <5>2. GoodCall(profile, cache, head)
            BY <1>1, <5>1, CallIsGood DEF head
          <5>3. QED
            BY <2>3, <5>2 DEF GoodCall
        <4>2. PICK l \in LayoutsHad : cache = Just(l)
          BY <4>1 DEF ClientOK
        <4>3. cache[1] = l /\ l \in [type : 1..3, use : Nat]
          BY <1>1, <4>2, AfterLayoutOf DEF Just
        <4> DEFINE b == head.b
                   bank == BanksFor(profile, l.type)[b]
        <4>4. k = <<bank, head.a>> /\ b \in DOMAIN BanksFor(profile, l.type)
          BY <2>1, <2>3, <4>1, <4>3 DEF KeyOf
        <4> HIDE DEF b
        <4>5. bank \in {"h_geom", "h_wear", "d_geom", "d_wear", "x_geom", "x_wear",
                        "z_geom", "z_wear", "r_geom", "r_wear", "tip"}
          <5>1. CASE profile = "lathe"
            <6>1. b \in 0..6 /\ bank = LatheTypeMap[b]
              BY <4>4, <5>1 DEF BanksFor, LatheTypeMap
            <6> HIDE DEF bank
            <6>2. QED
              BY <6>1 DEF LatheTypeMap
          <5>2. CASE profile = "mill"
            <6>1. b \in DOMAIN OfsTypeDispatch(l.type) /\ bank = OfsTypeDispatch(l.type)[b]
                  /\ l.type \in 1..3
              BY <4>3, <4>4, <5>2 DEF BanksFor
            <6> HIDE DEF bank
            <6>2. QED
              BY <6>1 DEF OfsTypeDispatch, MemoryA, MemoryB, MemoryC
          <5>3. QED
            BY <1>1, <5>1, <5>2
        <4> HIDE DEF bank
        <4>6. QED
          BY <4>4, <4>5 DEF IsOffset
      <3>4. QED
        BY <3>2, <3>3 DEF InDoubt, IsOffset
    <2>4. QED
      BY <2>2, <2>3 DEF Told
  <1>9. \/ k \in DOMAIN snap
        \/ \E call \in Items(todo) : Brings(cache, call, k)
    BY DEF Told
  <1>10. QED
    BY <1>2, <1>5, <1>6, <1>7, <1>8, <1>9

\* What a read tells and leaves to be told is all that was to be told.
LEMMA CompleteRead ==
  ASSUME ClientOK, DataOK, CausesOK, CallsOK, CompleteOK, Reads
  PROVE  CompleteOK'
  <1> SUFFICES ASSUME (profile # "export")', outcome' = "sweeping", ~disturbed'
               PROVE  (TellsAll \/ TellsStatus)'
    BY DEF CompleteOK
  <1>1. /\ outcome = "sweeping" /\ todo # <<>> /\ ~disturbed /\ profile # "export"
        /\ profile \in Profiles /\ profile \in {"mill", "lathe"} /\ layout \in LayoutsHad
        /\ UNCHANGED <<profile, layout>>
    BY ReadsRead, Bounds DEF ClientOK, Reading, worldVars
  <1>2. Adds /\ (\A k : k \in OnPanel' <=> k \in OnPanel)
    <2>1. \A k : k \in OnPanel' <=> k \in OnPanel
      BY <1>1 DEF OnPanel, IsOffset, PanelCodes, PanelBank, Keys
    <2>2. QED
      BY <1>1, <2>1, ReadsAdd
  <1>3. ASSUME NEW k, Told(k), Head(todo).fn = "rdtofsinfo" /\ IsOffset(k) => k \in OnPanel
        PROVE  Told(k)' \/ InDoubt(k)'
    BY <1>1, <1>3, ToldLasts
  <1>4. CASE TellsAll
    <2>1. ASSUME NEW k \in OnPanel, InDoubt(k), ReadLayout PROVE Told(k)'
      <3>1. Head(todo).fn = "rdtofsinfo" /\ IsOffset(k)
        BY <2>1 DEF ReadLayout, Due, InDoubt
      <3>2. cache' = Just(layout) /\ Items(AfterLayout(layout)) \subseteq Items(todo')
        BY <1>1, <3>1, NothingDropped DEF DataOK
      <3>3. PICK call \in Items(AfterLayout(layout)) : Brings(Just(layout), call, k)
        BY <1>1, <3>1, LayoutTells
      <3>4. Brings(cache, call, k)'
        BY <1>1, <3>2, <3>3 DEF Brings, KeyOf, BanksFor, IsOffset
      <3>5. QED
        BY <3>2, <3>3, <3>4 DEF Told
    <2>2. ASSUME NEW k, InDoubt(k), ~ReadLayout PROVE InDoubt(k)'
      BY <2>2, DoubtStays DEF InDoubt, IsOffset
    <2>3. \A k \in OnPanel : Told(k)' \/ InDoubt(k)'
      BY <1>3, <1>4, <2>1, <2>2 DEF TellsAll
    <2>4. TellsAll'
      BY <1>2, <2>3 DEF TellsAll
    <2>5. QED
      BY <2>4
  <1>5. CASE TellsStatus
    <2> DEFINE Fast == {"statinfo", "exeprgname", "rdexecprog", "rdgcode", "rdcommand"}
    <2>1. /\ profile = "lathe" /\ \A call \in Items(todo) : call.fn \in Fast
          /\ DOMAIN snap \subseteq StatusKeys \cup {<<"name", 0>>}
          /\ \A k \in StatusKeys : Told(k)
      BY <1>5 DEF TellsStatus
    <2>2. Head(todo).fn \in Fast
      <3>1. todo \in Seq(AnyCall)
        BY <1>1 DEF CallsOK, Planned, Good
      <3>2. Head(todo) \in Items(todo)
        BY <1>1, <3>1, TailOf
      <3>3. QED
        BY <2>1, <3>2
    <2>3. Head(todo).fn # "rdtofsinfo"
      BY <2>2
    <2>4. ASSUME NEW k \in StatusKeys PROVE Told(k)'
      <3>1. Told(k)' \/ InDoubt(k)'
        BY <1>3, <2>1, <2>3
      <3>2. k[1] \in {"status", "program", "wcs", "tword"}
        BY DEF StatusKeys
      <3>3. ~InDoubt(k)'
        BY <3>2 DEF InDoubt, IsOffset
      <3>4. QED
        BY <3>1, <3>3
    <2>5. \A call \in Items(todo') : call.fn \in Fast
      BY <1>1, <2>1, <2>3, NothingDropped DEF DataOK
    <2>6. KeyOf(cache, Head(todo)) \in StatusKeys \cup {<<"name", 0>>}
      BY <2>2 DEF KeyOf, StatusKeys
    <2>7. DOMAIN snap' \subseteq StatusKeys \cup {<<"name", 0>>}
      BY <1>2, <2>1, <2>6 DEF Adds
    <2>8. TellsStatus'
      BY <1>1, <2>1, <2>4, <2>5, <2>7 DEF TellsStatus, StatusKeys
    <2>9. QED
      BY <2>8
  <1>6. QED
    BY <1>1, <1>4, <1>5 DEF CompleteOK

\* A sweep leaves to be told what it has not told, from its plan to its end.
LEMMA CompleteStep ==
  ASSUME ClientOK, DataOK, CausesOK, CallsOK, CompleteOK, [Next]_vars
  PROVE  CompleteOK'
  <1>1. ASSUME UNCHANGED <<profile, layout, cache, todo, snap, outcome, relaid>>,
               ~disturbed' => ~disturbed
        PROVE  CompleteOK'
    <2> USE <1>1
    <2>1. \A k : k \in OnPanel' <=> k \in OnPanel
      BY DEF OnPanel, IsOffset, PanelCodes, PanelBank, Keys
    <2>2. \A k : Told(k)' <=> Told(k)
      <3>1. \A call, k : Brings(cache, call, k)' <=> Brings(cache, call, k)
        BY DEF Brings, KeyOf, BanksFor, IsOffset
      <3>2. QED
        BY <3>1 DEF Told
    <2>3. \A k : InDoubt(k)' <=> InDoubt(k)
      BY DEF InDoubt, IsOffset
    <2>4. TellsAll' <=> TellsAll
      BY <2>1, <2>2, <2>3 DEF TellsAll
    <2>5. TellsStatus' <=> TellsStatus
      BY <2>2 DEF TellsStatus, StatusKeys
    <2>6. QED
      BY <2>4, <2>5 DEF CompleteOK
  <1>2. ASSUME outcome' # "sweeping" \/ (profile = "export" /\ profile' = profile)
        PROVE  CompleteOK'
    BY <1>2 DEF CompleteOK
  <1>3. ASSUME BeginSweep PROVE CompleteOK'
    <2>1. /\ snap' = Empty /\ profile \in Profiles
          /\ UNCHANGED <<cache, relaid, profile, layout>>
      BY <1>3 DEF BeginSweep, Begin, clientVars, worldVars, ClientOK
    <2>2. \A k : k \in OnPanel' <=> k \in OnPanel
      BY <2>1 DEF OnPanel, IsOffset, PanelCodes, PanelBank, Keys
    <2>3. ASSUME NEW k, \E call \in Items(todo') : Brings(cache, call, k) PROVE Told(k)'
      <3>1. PICK call \in Items(todo') : Brings(cache, call, k)
        BY <2>3
      <3>2. Brings(cache, call, k)'
        BY <2>1, <3>1 DEF Brings, KeyOf, BanksFor, IsOffset
      <3>3. QED
        BY <3>2 DEF Told
    <2>4. ASSUME NEW k, InDoubt(k) PROVE InDoubt(k)'
      BY <2>1, <2>4 DEF InDoubt, IsOffset
    <2>5. CASE profile = "mill"
      <3>1. todo' = MillPlan
        BY <1>3, <2>5 DEF BeginSweep, Begin
      <3>2. \A k \in OnPanel : Told(k)' \/ InDoubt(k)'
        BY <2>3, <2>4, <2>5, <3>1, MillTells
      <3>3. TellsAll'
        BY <2>2, <3>2 DEF TellsAll
      <3>4. QED
        BY <3>3 DEF CompleteOK
    <2>6. CASE profile = "lathe" /\ todo' = LathePlan
      <3>1. \A k \in OnPanel : Told(k)'
        BY <2>1, <2>3, <2>6, LatheTells
      <3>2. TellsAll'
        BY <2>2, <3>1 DEF TellsAll
      <3>3. QED
        BY <3>2 DEF CompleteOK
    <2>7. CASE profile = "lathe" /\ todo' = LatheStatusPlan
      <3>1. /\ \A k \in StatusKeys : Told(k)'
            /\ \A call \in Items(todo') :
                 call.fn \in {"statinfo", "exeprgname", "rdexecprog", "rdgcode", "rdcommand"}
        BY <2>1, <2>3, <2>7, LatheTells
      <3>2. DOMAIN snap' = {}
        BY <2>1 DEF Empty
      <3>3. TellsStatus'
        BY <2>1, <2>7, <3>1, <3>2 DEF TellsStatus, StatusKeys
      <3>4. QED
        BY <3>3 DEF CompleteOK
    <2>8. QED
      BY <1>3, <2>5, <2>6, <2>7 DEF BeginSweep, Begin
  <1>4. ASSUME Deliver PROVE CompleteOK'
    BY <1>2, <1>4 DEF Deliver
  <1>5. ASSUME Connection PROVE CompleteOK'
    <2>1. CASE AllocateHandle
      BY <1>2, <2>1 DEF AllocateHandle
    <2>2. CASE Prime \/ PrimeFails \/ Close
      <3>1. outcome' = outcome /\ outcome # "sweeping"
        BY <2>2 DEF Prime, PrimeFails, Close, ClientOK, sweepVars
      <3>2. QED
        BY <1>2, <3>1
    <2>3. QED
      BY <1>5, <2>1, <2>2 DEF Connection
  <1>6. ASSUME World PROVE CompleteOK'
    <2>1. CASE Edit \/ LinkChanges
      <3>1. UNCHANGED <<profile, layout, cache, todo, snap, outcome, relaid>>
        BY <2>1 DEF Edit, LinkChanges, clientVars, sweepVars
      <3>2. ~disturbed' => ~disturbed
        BY <2>1 DEF Edit, LinkChanges
      <3>3. QED
        BY <1>1, <3>1, <3>2
    <2>2. CASE Reconfigure
      <3>1. UNCHANGED <<profile, cache, todo, snap, outcome, disturbed>> /\ relaid' = TRUE
        BY <2>2 DEF Reconfigure, clientVars, sweepVars
      <3>2. \A k : Told(k)' <=> Told(k)
        <4>1. \A call, k : Brings(cache, call, k)' <=> Brings(cache, call, k)
          BY <3>1 DEF Brings, KeyOf, BanksFor, IsOffset
        <4>2. QED
          BY <3>1, <4>1 DEF Told
      <3>3. ASSUME TellsAll PROVE TellsAll'
        <4>1. ASSUME NEW k \in OnPanel', ~IsOffset(k) PROVE Told(k)'
          <5>1. k \in OnPanel
            BY <3>1, <4>1 DEF OnPanel, Keys, IsOffset
          <5>2. ~InDoubt(k)
            BY <4>1 DEF InDoubt
          <5>3. QED
            BY <3>2, <3>3, <5>1, <5>2 DEF TellsAll
        <4>2. ASSUME NEW k, IsOffset(k) PROVE InDoubt(k)'
          BY <3>1, <4>2 DEF InDoubt, IsOffset
        <4>3. QED
          BY <4>1, <4>2 DEF TellsAll
      <3>4. ASSUME TellsStatus PROVE TellsStatus'
        BY <3>1, <3>2, <3>4 DEF TellsStatus, StatusKeys
      <3>5. QED
        BY <3>1, <3>3, <3>4 DEF CompleteOK
    <2>3. QED
      BY <1>6, <2>1, <2>2 DEF World
  <1>7. ASSUME Export PROVE CompleteOK'
    <2>1. profile' = profile
      BY <1>7 DEF Export, BeginExport, Resolve, StartUpload, UploadChunk, EndUpload,
                  CloseExport, Apart, worldVars
    <2>2. CASE BeginExport
      BY <1>2, <2>1, <2>2 DEF BeginExport
    <2>3. CASE ~BeginExport
      <3>1. /\ todo # <<>>
            /\ Head(todo).fn \in {"resolve", "upstart3", "upload3", "upend3", "close"}
        BY <1>7, <2>3 DEF Export, Resolve, StartUpload, UploadChunk, EndUpload, CloseExport, Due
      <3>2. GoodCall(profile, cache, Head(todo)) /\ profile \in {"mill", "lathe", "export"}
        BY <3>1, CallIsGood, Bounds DEF ClientOK
      <3>3. profile = "export"
        BY <3>1, <3>2 DEF GoodCall, FnsOf
      <3>4. QED
        BY <1>2, <2>1, <3>3
    <2>4. QED
      BY <2>2, <2>3
  <1>8. ASSUME NEW sparse, ExportG10(sparse) PROVE CompleteOK'
    BY <1>1, <1>8 DEF ExportG10, exportVars, readVars, clientVars, sweepVars, worldVars, histVars
  <1>9. ASSUME RunG10 PROVE CompleteOK'
    BY <1>1, <1>9 DEF RunG10, clientVars, sweepVars
  <1>10. ASSUME Stutters PROVE CompleteOK'
    BY <1>1, <1>10 DEF Stutters, vars, exportVars, readVars, clientVars, sweepVars, worldVars,
                       histVars
  <1>11. QED
    BY <1>3, <1>4, <1>5, <1>6, <1>7, <1>8, <1>9, <1>10, CompleteRead, StepKinds

-----------------------------------------------------------------------------
(* The name of a part and the number of its program.                        *)

Number == <<"program", 0>>
Name == <<"name", 0>>

(* The text of a program is read right after its number, and the number is *)
(* not read again with a name at hand.                                     *)
TextFits ==
  todo # <<>> =>
    /\ Free(Tail(todo), {"rdexecprog"})
    /\ Head(todo).fn = "rdexecprog" =>
         /\ Number \in DOMAIN snap /\ snap[Number] = Just(Head(todo).a)
         /\ Free(Tail(todo), {"exeprgname"})
    /\ (Head(todo).fn = "exeprgname" \/ ~Free(Tail(todo), {"exeprgname"})) => Name \notin DOMAIN snap

NameOK ==
  /\ TextFits /\ NameFitsNumber
  /\ Name \in DOMAIN snap => Number \in DOMAIN snap

\* What is left of calls among which some are not.
LEMMA FreeRest ==
  ASSUME NEW s \in Seq(AnyCall), s # <<>>, NEW fns
  PROVE  /\ Free(s, fns) => Head(s).fn \notin fns /\ Free(Tail(s), fns)
         /\ Head(s).fn \in fns \/ ~Free(Tail(s), fns) => ~Free(s, fns)
  BY TailOf DEF Free

\* Calls after others that are not.
LEMMA FreeJoin ==
  ASSUME NEW s \in Seq(AnyCall), NEW t \in Seq(AnyCall), NEW fns, Free(s, fns)
  PROVE  Free(s \o t, fns) <=> Free(t, fns)
  BY JoinOf DEF Free

\* What is left after the call that is due are calls.
LEMMA RestIsCalls ==
  ASSUME ClientOK, CallsOK, todo # <<>>
  PROVE  /\ Tail(todo) \in Seq(AnyCall)
         /\ Head(todo).fn = "exeprgname" => Free(Tail(todo), {"exeprgname", "rdexecprog"})
  <1>1. CASE profile = "export"
    <2>1. Tail(todo) \in {<<>>, <<Call("resolve", 0, 0)>>}
      BY <1>1, ExportCalls DEF CallsOK
    <2>2. /\ Call("resolve", 0, 0) \in AnyCall /\ Call("resolve", 0, 0).fn = "resolve"
      BY DEF Call, AnyCall, AnyFn
    <2>3. <<Call("resolve", 0, 0)>> \in Seq(AnyCall) /\ <<>> \in Seq(AnyCall)
      <3> DEFINE c == Call("resolve", 0, 0)
      <3>1. c \in AnyCall
        BY <2>2
      <3>2. <<>> \in Seq(AnyCall)
        OBVIOUS
      <3> HIDE DEF c, AnyCall
      <3>3. <<c>> \in Seq(AnyCall)
        BY <3>1
      <3>4. QED
        BY <3>2, <3>3 DEF c
    <2>4. \A call \in Items(<<Call("resolve", 0, 0)>>) : call.fn = "resolve"
      BY <2>2 DEF Items
    <2>5. Items(<<>>) = {}
      BY DEF Items
    <2>6. QED
      BY <2>1, <2>3, <2>4, <2>5 DEF Free
  <1>2. CASE profile # "export"
    BY <1>2, PlannedTail DEF CallsOK
  <1>3. QED
    BY <1>1, <1>2

\* Calls that read no text can be next.
LEMMA TextFitsNext ==
  ASSUME todo' \in Seq(AnyCall), Free(todo', {"rdexecprog"}),
         ~Free(todo', {"exeprgname"}) => Name \notin DOMAIN snap'
  PROVE  TextFits'
  <1>1. CASE todo' = <<>>
    BY <1>1 DEF TextFits
  <1>2. CASE todo' # <<>>
    <2>1. Head(todo').fn # "rdexecprog" /\ Free(Tail(todo'), {"rdexecprog"})
      BY <1>2, FreeRest
    <2>2. Head(todo').fn = "exeprgname" \/ ~Free(Tail(todo'), {"exeprgname"})
            => Name \notin DOMAIN snap'
      BY <1>2, FreeRest
    <2>3. QED
      BY <2>1, <2>2 DEF TextFits, Name
  <1>3. QED
    BY <1>1, <1>2

\* The other reads leave number and name alone.
LEMMA OtherReads ==
  ASSUME ClientOK, CallsOK, Reads, ~ReadProgramNumber, ~ReadProgramText
  PROVE  /\ \/ snap' \in {snap, Empty}
            \/ \E k, v : snap' = With(snap, k, v) /\ k # Name /\ k # Number
         /\ Head(todo).fn # "exeprgname"
  <1> DEFINE call == Head(todo)
             Other == \E k, v : snap' = With(snap, k, v) /\ k # Name /\ k # Number
             Same == snap' \in {snap, Empty}
  <1>1. Head(todo).fn # "exeprgname"
    BY DEF Reads, ReadStatus, ReadLayout, ReadOffset, ReadPmcByte, ReadLifeGroups, ReadLifeGroup,
       ReadLifeSlot, ReadAlarms, ReadMacro, ReadActiveWcs, ReadCommandedT, ReadStatusField,
       ReadWorkOffset, Due
  <1>2. SUFFICES Same \/ Other
    BY <1>1
  <1>3. /\ todo # <<>> /\ GoodCall(profile, cache, call)
    BY ReadsRead, CallIsGood DEF ClientOK, Reading
  <1> HIDE DEF Other, Same
  <1>4. \A what, i, v : what \notin {"name", "program"} /\ Observe(<<what, i>>, v) => Other
    BY DEF Observe, Name, Number, Other
  <1>5. snap' \in {snap, Empty} => Same
    BY DEF Same
  <1>6. CASE ReadStatus
    BY <1>4, <1>5, <1>6 DEF ReadStatus, Raise
  <1>7. CASE ReadLayout \/ ReadLifeGroups \/ ReadLifeGroup \/ ReadAlarms
    BY <1>4, <1>5, <1>7 DEF ReadLayout, ReadLifeGroups, ReadLifeGroup, ReadAlarms, Raise, PassOver
  <1>8. CASE ReadOffset
    <2> DEFINE bank == BanksOf(cache[1].type)[call.b]
    <2>1. call.fn = "rdtofs" /\ (Same \/ \E v : snap' = With(snap, <<bank, call.a>>, v))
      BY <1>8 DEF ReadOffset, PassOver, Due, Observe, Same
    <2>2. call.b \in DOMAIN BanksFor(profile, cache[1].type)
      BY <1>3, <2>1 DEF GoodCall
    <2>3. bank = BanksFor(profile, cache[1].type)[call.b] /\ cache # Nothing
      BY <1>3, <2>1 DEF BanksOf, BanksFor, GoodCall
    <2>4. bank \notin {"name", "program"}
      <3> DEFINE b == call.b
                 type == cache[1].type
      <3>1. type \in 1..3
        <4>1. PICK l \in LayoutsHad : cache = Just(l)
          BY <2>3 DEF ClientOK
        <4>2. profile \in {"mill", "lathe"}
          <5>1. profile \in {"mill", "lathe", "export"}
            BY Bounds DEF ClientOK
          <5>2. QED
            BY <1>3, <2>1, <5>1 DEF GoodCall, FnsOf
        <4>3. l \in [type : 1..3, use : Nat]
          BY <4>2, AfterLayoutOf
        <4>4. QED
          BY <4>1, <4>3 DEF Just
      <3> HIDE DEF b, type
      <3>2. b \in DOMAIN BanksFor(profile, type) => BanksFor(profile, type)[b] \notin {"name", "program"}
        BY <3>1 DEF BanksFor, LatheTypeMap, OfsTypeDispatch, MemoryA, MemoryB, MemoryC
      <3>3. QED
        BY <2>2, <2>3, <3>2 DEF b, type
    <2> HIDE DEF bank
    <2>5. QED
      BY <2>1, <2>4 DEF Other, Name, Number
  <1>9. CASE ReadPmcByte
    <2>1. /\ call.fn = "pmc"
          /\ Same \/ (\E i, v : snap' = With(snap, <<"pot", i>>, v))
                  \/ (\E v : snap' = With(snap, <<call.a, 0>>, v) /\ call.a # "pot")
      BY <1>9 DEF ReadPmcByte, PassOver, Due, Observe, Same
    <2>2. call.a \in {"head", "next", "pot"}
      BY <1>3, <2>1 DEF GoodCall
    <2>3. QED
      BY <2>1, <2>2 DEF Other, Name, Number
  <1>10. CASE ReadLifeSlot
    BY <1>4, <1>5, <1>10 DEF ReadLifeSlot, PassOver
  <1>11. CASE ReadMacro
    BY <1>4, <1>5, <1>11 DEF ReadMacro, PassOver
  <1>12. CASE ReadActiveWcs \/ ReadCommandedT
    BY <1>4, <1>5, <1>12 DEF ReadActiveWcs, ReadCommandedT, ReadStatusField
  <1>13. CASE ReadWorkOffset
    BY <1>4, <1>5, <1>13 DEF ReadWorkOffset, PassOver
  <1>14. QED
    BY <1>6, <1>7, <1>8, <1>9, <1>10, <1>11, <1>12, <1>13 DEF Reads

\* The number of the program is a number.
LEMMA ProgramNumber ==
  ASSUME ClientOK, AreWords(control), GoodCall(profile, cache, Head(todo)),
         Head(todo).fn = "exeprgname"
  PROVE  control[<<"program", 0>>] \in Nat
  <1>1. profile \in {"lathe", "export"}
    BY Bounds DEF ClientOK, GoodCall, FnsOf
  <1>2. \E n \in 1..RegisterLimit : Keys = DataOf(profile, n)
    BY KeysOf DEF ClientOK
  <1>3. <<"program", 0>> \in Keys
    BY <1>1, <1>2 DEF DataOf
  <1>4. QED
    BY <1>3 DEF AreWords, IsWord

\* A part name fits the number it is reported with, read by read.
LEMMA NameRead ==
  ASSUME ClientOK, AreWords(control), CallsOK, NameOK, Reads
  PROVE  NameOK'
  <1> DEFINE rest == Tail(todo)
  <1>1. /\ todo # <<>> /\ LeavesCalls /\ profile' = profile /\ UNCHANGED control
        /\ rest \in Seq(AnyCall) /\ GoodCall(profile, cache, Head(todo))
        /\ Head(todo).fn = "exeprgname" => Free(rest, {"exeprgname", "rdexecprog"})
    BY ReadsRead, ReadsLeave, RestIsCalls, CallIsGood DEF ClientOK, Reading, worldVars
  <1>2. /\ Free(rest, {"rdexecprog"})
        /\ Head(todo).fn = "rdexecprog" => /\ Number \in DOMAIN snap
                                           /\ snap[Number] = Just(Head(todo).a)
                                           /\ Free(rest, {"exeprgname"})
        /\ (Head(todo).fn = "exeprgname" \/ ~Free(rest, {"exeprgname"})) => Name \notin DOMAIN snap
    BY <1>1 DEF NameOK, TextFits
  <1>3. CASE ReadProgramText
    <2>1. /\ Head(todo).fn = "rdexecprog" /\ todo' = rest
          /\ \E v : /\ snap' = With(snap, Name, v)
                    /\ v = Nothing \/ \E o, n : v = ParseComment([o |-> o, name |-> <<n, o>>], Head(todo).a)
      BY <1>3 DEF ReadProgramText, Due, Observe, GoOn, Name
    <2>2. PICK v : /\ snap' = With(snap, Name, v)
                   /\ v = Nothing \/ \E o, n : v = ParseComment([o |-> o, name |-> <<n, o>>], Head(todo).a)
      BY <2>1
    <2>3. v # Nothing => v[1][2] = Head(todo).a
      BY <2>2 DEF ParseComment, Just, Nothing
    <2>4. snap'[Name] = v /\ snap'[Number] = snap[Number]
      BY <1>2, <2>1, <2>2 DEF With, Name, Number
    <2>5. NameFitsNumber' /\ Number \in DOMAIN snap'
      BY <1>2, <2>1, <2>2, <2>3, <2>4 DEF NameFitsNumber, Name, Number, With
    <2>6. TextFits'
      BY <1>1, <1>2, <2>1, TextFitsNext
    <2>7. QED
      BY <2>5, <2>6 DEF NameOK
  <1>4. CASE ReadProgramNumber
    <2>1. /\ Head(todo).fn = "exeprgname"
          /\ \E v : snap' = With(snap, Number, v)
      BY <1>4 DEF ReadProgramNumber, Due, Observe, Number
    <2>2. Name \notin DOMAIN snap'
      BY <1>2, <2>1 DEF With, Name, Number
    <2>3. NameFitsNumber'
      BY <2>2 DEF NameFitsNumber, Name
    <2>4. TextFits'
      <3>1. CASE todo' = rest
        BY <1>1, <1>2, <2>2, <3>1, TextFitsNext
      <3>2. CASE TextCall
        <4>1. PICK o \in Nat : /\ snap' = With(snap, Number, Just(o))
                               /\ todo' = <<Call("rdexecprog", o, 512)>> \o rest
          BY <3>2 DEF TextCall, Number
        <4> DEFINE c == Call("rdexecprog", o, 512)
        <4>2. c \in AnyCall /\ c.fn = "rdexecprog" /\ c.a = o
          BY NumberCall
        <4> HIDE DEF c
        <4>3. Head(<<c>> \o rest) = c /\ Tail(<<c>> \o rest) = rest
          BY <1>1, <4>2, FrontOf
        <4>4. Head(todo') = c /\ Tail(todo') = rest
          BY <4>1, <4>3 DEF c
        <4>5. Free(rest, {"exeprgname"})
          BY <1>1, <2>1 DEF Free
        <4>6. snap'[Number] = Just(o) /\ Number \in DOMAIN snap'
          BY <4>1 DEF With
        <4>7. QED
          BY <1>2, <2>2, <4>2, <4>4, <4>5, <4>6 DEF TextFits, Name, Number
      <3>3. todo' = rest \/ TextCall
        <4> DEFINE o == control[<<"program", 0>>]
        <4>1. o \in Nat
          BY <1>1, <2>1, ProgramNumber
        <4>2. \/ todo' = rest
              \/ /\ o > 0 /\ snap' = With(snap, <<"program", 0>>, DecodeTool(o))
                 /\ todo' = <<Call("rdexecprog", o, 512)>> \o rest
          <5> HIDE DEF rest
          <5> QED
            BY <1>4 DEF ReadProgramNumber, GoOn, Observe, rest
        <4>3. cache' = cache
          BY <1>4 DEF ReadProgramNumber, GoOn, clientVars
        <4> HIDE DEF o
        <4>4. o > 0 => DecodeTool(o) = Just(o)
          BY DEF DecodeTool
        <4>5. QED
          BY <2>1, <4>1, <4>2, <4>3, <4>4 DEF TextCall
      <3>4. QED
        BY <3>1, <3>2, <3>3
    <2>5. QED
      BY <2>2, <2>3, <2>4 DEF NameOK
  <1>5. CASE ~ReadProgramNumber /\ ~ReadProgramText
    <2>1. /\ \/ snap' \in {snap, Empty}
             \/ \E k, v : snap' = With(snap, k, v) /\ k # Name /\ k # Number
          /\ Head(todo).fn # "exeprgname"
      BY <1>5, OtherReads
    <2>2. /\ Name \in DOMAIN snap' => Name \in DOMAIN snap /\ snap'[Name] = snap[Name]
          /\ Name \in DOMAIN snap' => /\ Number \in DOMAIN snap
                                      /\ Number \in DOMAIN snap'
                                      /\ snap'[Number] = snap[Number]
      BY <2>1 DEF With, Empty, NameOK
    <2>3. NameFitsNumber'
      BY <2>2 DEF NameOK, NameFitsNumber, Name, Number
    <2>4. TextFits'
      <3>1. CASE todo' = <<>>
        BY <3>1 DEF TextFits
      <3>2. CASE NextCall
        BY <1>1, <1>2, <2>2, <3>2, TextFitsNext DEF NextCall
      <3>3. ASSUME NEW s \in Seq(AnyCall), Free(s, {"rdexecprog"}), Free(s, {"exeprgname"}),
                   todo' = s \o rest
            PROVE  TextFits'
        <4>1. todo' \in Seq(AnyCall)
          BY <1>1, <3>3, JoinOf
        <4>2. Free(todo', {"rdexecprog"}) /\ (Free(todo', {"exeprgname"}) <=> Free(rest, {"exeprgname"}))
          BY <1>1, <1>2, <3>3, FreeJoin
        <4>3. QED
          BY <1>2, <2>2, <4>1, <4>2, TextFitsNext
      <3>4. CASE LayoutCalls
        <4>1. layout \in LayoutsHad /\ profile \in {"mill", "lathe"}
          <5>1. profile \in {"mill", "lathe", "export"} /\ Head(todo).fn = "rdtofsinfo"
            BY <3>4, Bounds DEF LayoutCalls, ClientOK
          <5>2. QED
            BY <1>1, <5>1 DEF GoodCall, FnsOf, ClientOK
        <4> DEFINE s == AfterLayout(layout)
        <4>2. s \in Seq(AnyCall) /\ Free(s, {"rdtofsinfo", "exeprgname", "rdexecprog"})
          BY <4>1, AfterLayoutOf DEF Planned, Good
        <4>3. todo' = s \o rest
          BY <3>4 DEF LayoutCalls
        <4> HIDE DEF s
        <4>4. Free(s, {"rdexecprog"}) /\ Free(s, {"exeprgname"})
          BY <4>2 DEF Free
        <4>5. QED
          BY <3>3, <4>2, <4>3, <4>4
      <3>5. CASE LifeCalls
        <4>1. PICK s : Quiet(profile, cache, s) /\ todo' = s \o rest
          BY <3>5 DEF LifeCalls
        <4>2. s \in Seq(AnyCall) /\ Free(s, {"rdexecprog"}) /\ Free(s, {"exeprgname"})
          BY <4>1 DEF Quiet, Good, Free
        <4>3. QED
          BY <3>3, <4>1, <4>2
      <3>6. QED
        BY <1>1, <2>1, <3>1, <3>2, <3>4, <3>5 DEF LeavesCalls, TextCall
    <2>5. QED
      BY <2>2, <2>3, <2>4 DEF NameOK
  <1>6. QED
    BY <1>3, <1>4, <1>5

\* A name fits its number, step by step.
LEMMA NameStep ==
  ASSUME ClientOK, AreWords(control), CallsOK, NameOK, [Next]_vars
  PROVE  NameOK'
  <1>1. ASSUME snap' = Empty, TextFits' PROVE NameOK'
    BY <1>1 DEF NameOK, NameFitsNumber, Empty, Name
  <1>2. ASSUME UNCHANGED snap, TextFits' PROVE NameOK'
    BY <1>2 DEF NameOK, NameFitsNumber, Name, Number
  <1>3. ASSUME UNCHANGED <<snap, todo>> PROVE NameOK'
    BY <1>3 DEF NameOK, TextFits, NameFitsNumber, Name, Number
  <1>4. ASSUME NEW fn, NEW o, todo' = <<Call(fn, o, 0)>>, fn \notin {"exeprgname", "rdexecprog"}
        PROVE  TextFits'
    <2>1. Head(todo') = Call(fn, o, 0) /\ Tail(todo') = <<>>
      BY <1>4
    <2>2. Head(todo').fn = fn
      BY <2>1 DEF Call
    <2>3. Items(<<>>) = {}
      BY DEF Items
    <2>4. QED
      BY <1>4, <2>1, <2>2, <2>3 DEF TextFits, Free
  <1>5. ASSUME Reads PROVE NameOK'
    BY <1>5, NameRead
  <1>6. ASSUME BeginSweep PROVE NameOK'
    <2>1. todo' \in Seq(AnyCall) /\ Free(todo', {"rdexecprog"})
      <3>1. CASE profile = "mill"
        <4>1. Planned("mill", cache, MillPlan)
          BY <3>1, MillPlanOf DEF ClientOK
        <4>2. \A call : GoodCall("mill", cache, call) => call.fn \notin {"rdexecprog"}
          BY DEF GoodCall, FnsOf
        <4>3. todo' = MillPlan
          BY <1>6, <3>1 DEF BeginSweep, Begin
        <4>4. QED
          BY <4>1, <4>2, <4>3 DEF Planned, Good, Free
      <3>2. CASE profile = "lathe"
        BY <1>6, <3>2, LathePlanOf DEF BeginSweep, Begin, Planned, Good
      <3>3. QED
        BY <1>6, <3>1, <3>2 DEF BeginSweep
    <2>2. snap' = Empty
      BY <1>6 DEF BeginSweep, Begin
    <2>3. Name \notin DOMAIN snap'
      BY <2>2 DEF Empty
    <2>4. QED
      BY <1>1, <2>1, <2>2, <2>3, TextFitsNext
  <1>7. ASSUME Deliver PROVE NameOK'
    BY <1>1, <1>7 DEF Deliver, TextFits
  <1>8. ASSUME Connection \/ World PROVE NameOK'
    BY <1>3, <1>8 DEF Connection, AllocateHandle, Prime, PrimeFails, Close, World, Edit,
                      Reconfigure, LinkChanges, sweepVars
  <1>9. ASSUME Export PROVE NameOK'
    <2>1. CASE BeginExport
      <3>1. snap' = Empty
        BY <2>1 DEF BeginExport
      <3>2. CASE todo' = <<Call("exeprgname", 0, 0), Call("resolve", 0, 0)>>
        <4> DEFINE c == Call("resolve", 0, 0)
        <4>1. Head(todo') = Call("exeprgname", 0, 0) /\ Tail(todo') = <<c>>
          BY <3>2
        <4>2. Head(todo').fn = "exeprgname" /\ c.fn = "resolve"
          BY <4>1 DEF Call
        <4> HIDE DEF c
        <4>3. Items(<<c>>) = {c}
          BY DEF Items
        <4>4. TextFits'
          BY <3>1, <4>1, <4>2, <4>3 DEF TextFits, Free, Empty
        <4>5. QED
          BY <1>1, <3>1, <4>4
      <3>3. CASE \E o : todo' = <<Call("upstart3", o, 0)>>
        BY <1>1, <1>4, <3>1, <3>3
      <3>4. QED
        BY <2>1, <3>2, <3>3 DEF BeginExport
    <2>2. CASE ~BeginExport
      <3>1. snap' = snap
        BY <1>9, <2>2 DEF Export, Resolve, StartUpload, UploadChunk, EndUpload, CloseExport
      <3>2. \/ todo' = <<>>
            \/ \E fn \in {"close", "upstart3", "upload3", "upend3"} : \E o : todo' = <<Call(fn, o, 0)>>
        BY <1>9, <2>2 DEF Export, Resolve, StartUpload, UploadChunk, NoData, EndUpload,
                          CloseExport, Throw, Then, Call1, Cleanup
      <3>3. TextFits'
        BY <1>4, <3>2 DEF TextFits
      <3>4. QED
        BY <1>2, <3>1, <3>3
    <2>3. QED
      BY <2>1, <2>2
  <1>10. ASSUME NEW sparse, ExportG10(sparse) PROVE NameOK'
    BY <1>3, <1>10 DEF ExportG10, exportVars, readVars, sweepVars
  <1>11. ASSUME RunG10 PROVE NameOK'
    BY <1>3, <1>11 DEF RunG10, sweepVars
  <1>12. ASSUME Stutters PROVE NameOK'
    BY <1>3, <1>12 DEF Stutters, vars, exportVars, readVars, sweepVars
  <1>13. QED
    BY <1>5, <1>6, <1>7, <1>8, <1>9, <1>10, <1>11, <1>12, StepKinds

-----------------------------------------------------------------------------
(* The program that is exported.                                            *)

(* The function of the call that is due.                                   *)
At(fn) == todo # <<>> /\ Head(todo).fn = fn

(* The control executes one of its programs or none, and so says the sweep. *)
ProgramsOK ==
  profile = "export" =>
    /\ control[Number] \in {0} \cup DOMAIN Programs
    /\ Number \in DOMAIN snap => snap[Number] \in {Nothing} \cup {Just(o) : o \in DOMAIN Programs}
    /\ At("rdexecprog") \/ At("resolve") => Number \in DOMAIN snap

\* A request reads the number of the program and its text, and resolves it.
LEMMA ExportReads ==
  ASSUME ClientOK, AreWords(control), CallsOK, Reads, profile = "export"
  PROVE  /\ ReadProgramNumber \/ ReadProgramText
         /\ At("exeprgname") \/ At("rdexecprog")
         /\ todo' = <<>> \/ At("rdexecprog")' \/ At("resolve")'
  <1>1. /\ todo # <<>> /\ LeavesCalls
    BY ReadsRead, ReadsLeave DEF Reading
  <1>2. /\ Head(todo).fn \in {"exeprgname", "rdexecprog", "resolve", "upstart3", "upload3",
                              "upend3", "close"}
        /\ Head(todo).fn \in {"exeprgname", "rdexecprog"} => Tail(todo) = <<Call("resolve", 0, 0)>>
    BY <1>1, ExportCalls DEF CallsOK
  <1>3. ReadProgramNumber \/ ReadProgramText
    BY <1>2 DEF Reads, ReadStatus, ReadLayout, ReadOffset, ReadPmcByte, ReadLifeGroups,
       ReadLifeGroup, ReadLifeSlot, ReadAlarms, ReadMacro, ReadActiveWcs, ReadCommandedT,
       ReadStatusField, ReadWorkOffset, Due
  <1>4. Head(todo).fn \in {"exeprgname", "rdexecprog"} /\ Tail(todo) = <<Call("resolve", 0, 0)>>
    BY <1>2, <1>3 DEF ReadProgramNumber, ReadProgramText, Due
  <1>5. CASE NextCall
    <2>1. todo' = <<Call("resolve", 0, 0)>>
      BY <1>4, <1>5 DEF NextCall
    <2>2. todo' # <<>> /\ Head(todo') = Call("resolve", 0, 0)
      BY <2>1
    <2>3. At("resolve")'
      BY <2>2 DEF At, Call
    <2>4. QED
      BY <1>1, <1>3, <1>4, <2>3 DEF At
  <1>6. CASE TextCall
    <2>1. PICK o \in Nat : todo' = <<Call("rdexecprog", o, 512), Call("resolve", 0, 0)>>
      BY <1>4, <1>6, TextThen
    <2>3. todo' # <<>> /\ Head(todo') = Call("rdexecprog", o, 512)
      BY <2>1
    <2>4. At("rdexecprog")'
      BY <2>3 DEF At, Call
    <2>5. QED
      BY <1>1, <1>3, <1>4, <2>4 DEF At
  <1>7. QED
    BY <1>1, <1>3, <1>4, <1>5, <1>6 DEF LeavesCalls, LayoutCalls, LifeCalls, At

\* A request that has begun to upload, or to clean up, exports.
LEMMA ExportingIs ==
  ASSUME ClientOK, CallsOK, Export
  PROVE  profile = "export"
  <1>1. CASE BeginExport
    BY <1>1 DEF BeginExport
  <1>2. CASE ~BeginExport
    <2>1. todo # <<>> /\ Head(todo).fn \in {"resolve", "upstart3", "upload3", "upend3", "close"}
      BY <1>2 DEF Export, Resolve, StartUpload, UploadChunk, EndUpload, CloseExport, Due
    <2>2. GoodCall(profile, cache, Head(todo)) /\ profile \in {"mill", "lathe", "export"}
      BY <2>1, CallIsGood, Bounds DEF ClientOK
    <2>3. QED
      BY <2>1, <2>2 DEF GoodCall, FnsOf
  <1>3. QED
    BY <1>1, <1>2

\* What is due when one call is left.
LEMMA OneLeft ==
  ASSUME NEW fn, NEW o, todo' = <<Call(fn, o, 0)>>
  PROVE  \A f : At(f)' <=> f = fn
  <1>1. todo' # <<>> /\ Head(todo') = Call(fn, o, 0)
    OBVIOUS
  <1>2. QED
    BY <1>1 DEF At, Call

\* What an export that goes on leaves to do.
LEMMA ExportLeaves ==
  ASSUME Export, ~BeginExport
  PROVE  ~At("rdexecprog")' /\ ~At("resolve")' /\ ~At("exeprgname")'
  <1>1. \/ todo' = <<>>
        \/ \E fn \in {"close", "upstart3", "upload3", "upend3"} : \E o : todo' = <<Call(fn, o, 0)>>
    BY DEF Export, Resolve, StartUpload, UploadChunk, NoData, EndUpload,
           CloseExport, Throw, Then, Call1, Cleanup
  <1>2. CASE todo' = <<>>
    BY <1>2 DEF At
  <1>3. CASE todo' # <<>>
    BY <1>1, <1>3, OneLeft
  <1>4. QED
    BY <1>2, <1>3

\* The control goes from one of its programs to another.
LEMMA ProgramsStep ==
  ASSUME ClientOK, DataOK, CallsOK, PunchedOK, ProgramsOK, [Next]_vars
  PROVE  ProgramsOK'
  <1>1. ASSUME UNCHANGED <<profile, control, todo, snap>> PROVE ProgramsOK'
    BY <1>1 DEF ProgramsOK, At, Number
  <1>2. profile = "export" => Keys = {Number}
    <2>1. ASSUME profile = "export" PROVE Keys = {Number}
      <3>1. \E n \in 1..RegisterLimit : Keys = DataOf(profile, n)
        BY KeysOf DEF ClientOK
      <3>2. QED
        BY <2>1, <3>1 DEF DataOf, Number
    <2>2. QED
      BY <2>1
  <1>3. ASSUME Reads PROVE ProgramsOK'
    <2> SUFFICES ASSUME profile = "export" PROVE ProgramsOK'
      BY <1>3, ReadsRead DEF Reading, worldVars, ProgramsOK
    <2>1. /\ ReadProgramNumber \/ ReadProgramText
          /\ UNCHANGED <<profile, control>> /\ todo # <<>>
          /\ At("exeprgname") \/ At("rdexecprog")
      BY <1>3, ExportReads, ReadsRead DEF Reading, worldVars, DataOK
    <2>2. control[Number] \in {0} \cup DOMAIN Programs
      BY DEF ProgramsOK
    <2>3. CASE ReadProgramNumber
      <3>1. PICK v : snap' = With(snap, Number, v) /\ v \in {Nothing, DecodeTool(control[Number])}
        BY <2>3 DEF ReadProgramNumber, Observe, Number
      <3>2. v \in {Nothing} \cup {Just(o) : o \in DOMAIN Programs}
        BY <2>2, <3>1, ProgramExportAssumption DEF DecodeTool
      <3>3. Number \in DOMAIN snap' /\ snap'[Number] = v
        BY <3>1 DEF With
      <3>4. QED
        BY <2>1, <2>2, <3>2, <3>3 DEF ProgramsOK, Number
    <2>4. CASE ReadProgramText
      <3>1. \E v : snap' = With(snap, Name, v)
        BY <2>4 DEF ReadProgramText, Observe, Name
      <3>2. At("rdexecprog")
        BY <2>1, <2>4 DEF ReadProgramText, Due, At
      <3>3. Number \in DOMAIN snap' /\ snap'[Number] = snap[Number]
        BY <3>1, <3>2 DEF With, Name, Number, ProgramsOK
      <3>4. QED
        BY <2>1, <2>2, <3>2, <3>3 DEF ProgramsOK, Number
    <2>5. QED
      BY <2>1, <2>3, <2>4
  <1>4. ASSUME BeginSweep \/ Deliver PROVE ProgramsOK'
    BY <1>4 DEF BeginSweep, Begin, Deliver, worldVars, ProgramsOK
  <1>5. ASSUME Connection PROVE ProgramsOK'
    BY <1>1, <1>5 DEF Connection, AllocateHandle, Prime, PrimeFails, Close, sweepVars, worldVars
  <1>6. ASSUME World PROVE ProgramsOK'
    <2>1. CASE Edit
      <3>1. PICK change \in Changes[profile] : control' = [control EXCEPT ![change[1]] = change[2]]
        BY <2>1 DEF Edit
      <3>2. UNCHANGED <<profile, todo, snap>>
        BY <2>1 DEF Edit, sweepVars
      <3>3. profile = "export" => control'[Number] \in {0} \cup DOMAIN Programs
        <4> SUFFICES ASSUME profile = "export"
                     PROVE  control'[Number] \in {0} \cup DOMAIN Programs
          OBVIOUS
        <4>1. "export" \in Profiles
          BY DEF ClientOK
        <4>2. change[2] \in {0} \cup DOMAIN Programs
          BY <3>1, <4>1, ProgramExportAssumption
        <4>3. DOMAIN control = Keys
          BY DEF DataOK, AreWords
        <4>4. control'[Number] \in {change[2], control[Number]}
          BY <1>2, <3>1, <4>3
        <4>5. QED
          BY <4>2, <4>4 DEF ProgramsOK
      <3>4. QED
        BY <3>2, <3>3 DEF ProgramsOK, At, Number
    <2>2. CASE Reconfigure \/ LinkChanges
      BY <1>1, <2>2 DEF Reconfigure, LinkChanges, sweepVars
    <2>3. QED
      BY <1>6, <2>1, <2>2 DEF World
  <1>7. ASSUME Export PROVE ProgramsOK'
    <2>1. /\ UNCHANGED <<profile, control>> /\ snap' \in {snap, Empty}
      BY <1>7 DEF Export, BeginExport, Resolve, StartUpload, UploadChunk, EndUpload,
                  CloseExport, Apart, worldVars
    <2>2. ~At("rdexecprog")' /\ ~At("resolve")'
      <3>1. CASE ~BeginExport
        BY <1>7, <3>1, ExportLeaves
      <3>2. CASE todo' = <<Call("exeprgname", 0, 0), Call("resolve", 0, 0)>>
        <4>1. Head(todo') = Call("exeprgname", 0, 0)
          BY <3>2
        <4>2. QED
          BY <4>1 DEF At, Call
      <3>3. CASE \E o : todo' = <<Call("upstart3", o, 0)>>
        BY <3>3, OneLeft
      <3>4. QED
        BY <3>1, <3>2, <3>3 DEF BeginExport
    <2>3. QED
      BY <2>1, <2>2 DEF ProgramsOK, Number, Empty
  <1>8. ASSUME NEW sparse, ExportG10(sparse) PROVE ProgramsOK'
    BY <1>1, <1>8 DEF ExportG10, exportVars, readVars, sweepVars, worldVars
  <1>9. ASSUME RunG10 PROVE ProgramsOK'
    <2>1. UNCHANGED <<profile, todo, snap>>
      BY <1>9 DEF RunG10, sweepVars
    <2>2. ASSUME profile = "export" PROVE control'[Number] = control[Number]
      <3>1. Number \in Keys
        BY <1>2, <2>2
      <3>2. Number[1] \notin AllBanks
        BY AllBankNames DEF Number, LengthBanks
      <3>3. Number \notin DOMAIN Written(punched[1].blocks)
        BY <1>9, <3>1, <3>2, RunWrites DEF ClientOK
      <3>4. QED
        BY <1>9, <3>1, <3>3 DEF RunG10
    <2>3. QED
      BY <2>1, <2>2 DEF ProgramsOK, At, Number
  <1>10. ASSUME Stutters PROVE ProgramsOK'
    BY <1>1, <1>10 DEF Stutters, vars, exportVars, readVars, sweepVars, worldVars
  <1>11. QED
    BY <1>3, <1>4, <1>5, <1>6, <1>7, <1>8, <1>9, <1>10, StepKinds

\* One more piece of a program.
LEMMA PieceOf ==
  ASSUME NEW T, NEW p \in Seq(T), NEW m \in 0..Len(p), NEW n \in Nat \ {0},
         n <= Len(SubSeq(p, m + 1, Len(p)))
  PROVE  LET piece == SubSeq(SubSeq(p, m + 1, Len(p)), 1, n)
         IN /\ m + n \in 0..Len(p) /\ SubSeq(p, 1, m) \o piece = SubSeq(p, 1, m + n)
            /\ piece \in Seq(T) /\ Len(piece) = n
            /\ \A i \in 1..n : piece[i] = p[m + i]
  <1> DEFINE rest == SubSeq(p, m + 1, Len(p))
             piece == SubSeq(rest, 1, n)
             front == SubSeq(p, 1, m)
             whole == SubSeq(p, 1, m + n)
  <1>1. Len(p) \in Nat /\ m \in Nat
    OBVIOUS
  <1>2. /\ rest \in Seq(T) /\ Len(rest) = Len(p) - m
        /\ \A i \in 1..Len(p) - m : rest[i] = p[m + i]
    BY <1>1
  <1>3. m + n \in 0..Len(p) /\ n <= Len(rest)
    BY <1>1, <1>2
  <1> HIDE DEF rest
  <1>4. /\ piece \in Seq(T) /\ Len(piece) = n
        /\ \A i \in 1..n : piece[i] = rest[i]
    BY <1>2, <1>3
  <1>5. \A i \in 1..n : piece[i] = p[m + i]
    BY <1>1, <1>2, <1>3, <1>4
  <1>6. /\ front \in Seq(T) /\ Len(front) = m /\ \A i \in 1..m : front[i] = p[i]
        /\ whole \in Seq(T) /\ Len(whole) = m + n /\ \A i \in 1..(m + n) : whole[i] = p[i]
    BY <1>1, <1>3
  <1> HIDE DEF piece, front, whole
  <1>7. /\ front \o piece \in Seq(T) /\ Len(front \o piece) = m + n
        /\ \A i \in 1..(m + n) : (front \o piece)[i] = IF i <= m THEN front[i] ELSE piece[i - m]
    <2>1. /\ front \o piece \in Seq(T) /\ Len(front \o piece) = Len(front) + Len(piece)
          /\ \A i \in 1..Len(front \o piece) :
               (front \o piece)[i] = IF i <= Len(front) THEN front[i] ELSE piece[i - Len(front)]
      BY <1>4, <1>6, JoinOf
    <2>2. Len(front) = m /\ Len(front) + Len(piece) = m + n
      BY <1>4, <1>6
    <2>3. QED
      BY <2>1, <2>2
  <1>8. \A i \in 1..(m + n) : (front \o piece)[i] = whole[i]
    <2> TAKE i \in 1..(m + n)
    <2>1. CASE i <= m
      <3>1. (front \o piece)[i] = front[i]
        BY <1>7, <2>1
      <3>2. i \in 1..m
        BY <1>1, <2>1
      <3>3. QED
        BY <1>6, <3>1, <3>2
    <2>2. CASE ~(i <= m)
      <3>1. i - m \in 1..n /\ m + (i - m) = i
        BY <1>1, <2>2
      <3>2. (front \o piece)[i] = piece[i - m]
        BY <1>7, <2>2
      <3>3. QED
        BY <1>5, <1>6, <3>1, <3>2
    <2>3. QED
      BY <2>1, <2>2
  <1>9. front \o piece = whole
    BY <1>6, <1>7, <1>8
  <1>10. QED
    BY <1>3, <1>4, <1>5, <1>9 DEF piece, front, whole, rest

\* A text that ends with a mark has both, or is just the opening one.
LEMMA TextEnds ==
  ASSUME NEW p, IsProgram(p), NEW m \in 0..Len(p), NEW n \in Nat \ {0},
         n <= Len(SubSeq(p, m + 1, Len(p))),
         EndsText(SubSeq(SubSeq(p, m + 1, Len(p)), 1, n), Len(SubSeq(p, 1, m + n)))
  PROVE  LET got == SubSeq(p, 1, m + n)
         IN \/ Cardinality({i \in DOMAIN got : got[i] = "%"}) = 2
            \/ got = <<"%", "n">>
  <1> DEFINE piece == SubSeq(SubSeq(p, m + 1, Len(p)), 1, n)
             got == SubSeq(p, 1, m + n)
             total == m + n
  <1>1. /\ p \in Seq(STRING) /\ Len(p) >= 3 /\ p[1] = "%" /\ p[2] = "n" /\ p[3] # "n"
        /\ Len(p) \in Nat /\ m \in Nat
    BY DEF IsProgram
  <1>2. PICK e \in 3..Len(p) : \A i \in 2..Len(p) : p[i] = "%" <=> i = e
    BY DEF IsProgram
  <1>3. /\ total \in 0..Len(p) /\ Len(piece) = n /\ DOMAIN piece = 1..n
        /\ \A i \in 1..n : piece[i] = p[m + i]
    BY <1>1, PieceOf
  <1>4. Len(got) = total /\ DOMAIN got = 1..total /\ \A i \in 1..total : got[i] = p[i]
    BY <1>1, <1>3
  <1>5. /\ total > 1
        /\ \E i \in 1..n : piece[i] = "%" /\ \A j \in i + 1..n : piece[j] = "n"
    BY <1>3, <1>4 DEF EndsText, EndsTextAny
  <1> HIDE DEF piece, got
  <1>6. PICK i \in 1..n : piece[i] = "%" /\ \A j \in i + 1..n : piece[j] = "n"
    BY <1>5
  <1>7. /\ m + i \in 1..total /\ p[m + i] = "%"
        /\ \A j \in 1..total : j > m + i => p[j] = "n"
    <2>1. m + i \in 1..total /\ p[m + i] = "%"
      BY <1>1, <1>3, <1>6
    <2>2. ASSUME NEW j \in 1..total, j > m + i PROVE p[j] = "n"
      <3>1. j - m \in i + 1..n /\ j - m \in 1..n /\ m + (j - m) = j
        BY <1>1, <2>2
      <3>2. QED
        BY <1>3, <1>6, <3>1
    <2>3. QED
      BY <2>1, <2>2
  <1>8. CASE m + i = 1
    <2>1. total = 2
      <3>1. total < 3
        <4>1. total >= 3 => p[3] = "n"
          BY <1>1, <1>7, <1>8
        <4>2. QED
          BY <1>1, <1>3, <4>1
      <3>2. QED
        BY <1>3, <1>5, <3>1
    <2>2. DOMAIN got = 1..2 /\ got[1] = "%" /\ got[2] = "n" /\ got \in Seq(STRING) /\ Len(got) = 2
      BY <1>1, <1>3, <1>4, <2>1 DEF got
    <2>3. got = <<"%", "n">>
      BY <2>2
    <2>4. QED
      BY <2>3 DEF got
  <1>9. CASE m + i # 1
    <2>1. m + i = e
      BY <1>1, <1>2, <1>3, <1>7, <1>9
    <2>2. {k \in DOMAIN got : got[k] = "%"} = {1, e}
      <3>1. 1 \in 1..total /\ e \in 1..total /\ got[1] = "%" /\ got[e] = "%"
        BY <1>1, <1>3, <1>4, <1>7, <2>1
      <3>2. ASSUME NEW k \in 1..total, got[k] = "%" PROVE k \in {1, e}
        <4>1. p[k] = "%" /\ k \in 1..Len(p)
          BY <1>3, <1>4, <3>2
        <4>2. k = 1 \/ k \in 2..Len(p)
          BY <1>1, <4>1
        <4>3. QED
          BY <1>2, <4>1, <4>2
      <3>3. QED
        BY <1>4, <3>1, <3>2
    <2>3. Cardinality({1, e}) = 2
      <3>1. IsFiniteSet({1}) /\ Cardinality({1}) = 1
        BY FS_Singleton
      <3>2. Cardinality({1} \cup {e}) = IF e \in {1} THEN Cardinality({1}) ELSE Cardinality({1}) + 1
        BY <3>1, FS_AddElement
      <3>3. {1} \cup {e} = {1, e} /\ e \notin {1}
        BY <1>1
      <3>4. Cardinality({1, e}) = Cardinality({1}) + 1
        BY <3>2, <3>3
      <3>5. QED
        BY <3>1, <3>4
    <2>4. QED
      BY <2>2, <2>3 DEF got
  <1>10. QED
    BY <1>8, <1>9

Entire ==
  \/ Cardinality({i \in DOMAIN text : text[i] = "%"}) = 2
  \/ text = <<"%", "n">>

(* How far an export has come, by the call that is due.                    *)
Uploads ==
  /\ At("exeprgname") \/ At("rdexecprog") \/ At("resolve") \/ At("upstart3") =>
       ~failed /\ sent = 0 /\ text = <<>> /\ calls = 0 /\ streak = 0
  /\ At("upstart3") \/ At("upload3") \/ At("upend3") => wanted # 0
  /\ At("upload3") => ~failed /\ calls < MaxCalls /\ streak <= MaxEmptyStreak
  /\ (At("upend3") \/ At("close")) /\ ~failed => Entire
  /\ outcome = "ok" => Entire
  /\ uploading => At("upload3") \/ At("upend3") \/ unended

UploadOK ==
  /\ UploadTypeOK
  /\ wanted # 0 => sent \in 0..Len(Programs[wanted])
  /\ IF profile = "export" THEN Uploads ELSE ~uploading

\* One more call of cnc_upload3.
LEMMA ChunkStep ==
  ASSUME ClientOK, CallsOK, UploadOK, UploadChunk
  PROVE  UploadOK'
  <1>1. profile = "export" /\ At("upload3") /\ Uploads
    BY ExportingIs DEF Export, UploadChunk, Due, At, UploadOK
  <1>2. /\ wanted \in DOMAIN Programs /\ wanted # 0 /\ ~failed /\ failed \in BOOLEAN
        /\ calls \in 0..MaxCalls /\ calls < MaxCalls
        /\ streak \in 0..(MaxEmptyStreak + 1) /\ streak <= MaxEmptyStreak
        /\ sent \in 0..Len(Programs[wanted]) /\ text = SubSeq(Programs[wanted], 1, sent)
        /\ MaxCalls \in Nat \ {0} /\ MaxEmptyStreak \in Nat
    BY <1>1, ProgramExportAssumption DEF Uploads, UploadOK, UploadTypeOK
  <1>3. UNCHANGED <<profile, uploading, wanted, unended, outcome>> /\ outcome = "sweeping"
    BY DEF UploadChunk, Due, Apart, worldVars
  <1>4. calls' = calls + 1 /\ streak' \in {0, streak + 1}
    BY DEF UploadChunk, NoData
  <1>5. calls' \in 0..MaxCalls /\ streak' \in 0..(MaxEmptyStreak + 1)
    BY <1>2, <1>4
  <1> DEFINE p == Programs[wanted]
             rest == SubSeq(p, sent + 1, Len(p))
  <1>6. \/ Then(Call1("upload3")) /\ calls' # MaxCalls /\ streak' <= MaxEmptyStreak
        \/ Throw(Cleanup)
        \/ /\ Then(Cleanup)
           /\ \E n \in 1..ChunkBytes : /\ n <= Len(rest) /\ sent' = sent + n
                                       /\ text' = text \o SubSeq(rest, 1, n)
                                       /\ EndsText(SubSeq(rest, 1, n), Len(text'))
    <2> HIDE DEF rest
    <2>1. CASE NoData
      <3>1. Throw(Cleanup) \/ (Then(Call1("upload3")) /\ ~(streak' > MaxEmptyStreak \/ calls' = MaxCalls))
        BY <2>1 DEF NoData, LastCall
      <3>2. ~(streak' > MaxEmptyStreak) => streak' <= MaxEmptyStreak
        BY <1>2, <1>5
      <3>3. QED
        BY <3>1, <3>2
    <2>2. CASE ~NoData
      <3>1. /\ streak' = 0
            /\ \/ Throw(Cleanup)
               \/ \E n \in 1..ChunkBytes :
                    /\ n <= Len(rest) /\ sent' = sent + n /\ text' = text \o SubSeq(rest, 1, n)
                    /\ \/ EndsText(SubSeq(rest, 1, n), Len(text')) /\ Then(Cleanup)
                       \/ Then(Call1("upload3")) /\ calls' # MaxCalls
        BY <2>2 DEF UploadChunk, LastCall, rest
      <3>2. streak' = 0 => streak' <= MaxEmptyStreak
        BY <1>2
      <3>3. QED
        BY <3>1, <3>2
    <2>3. QED
      BY <2>1, <2>2
  <1>7. /\ sent' \in 0..Len(p) /\ text' = SubSeq(p, 1, sent')
        /\ Then(Cleanup) => Entire' \/ Throw(Cleanup)
    <2>1. IsProgram(p) /\ p \in Seq(STRING)
      BY <1>2, ProgramExportAssumption DEF IsProgram
    <2>2. CASE UNCHANGED <<sent, text>> /\ ~Then(Cleanup)
      BY <1>2, <2>2
    <2>3. CASE UNCHANGED <<sent, text>> /\ Throw(Cleanup)
      BY <1>2, <2>3
    <2>4. ASSUME NEW n \in 1..ChunkBytes, n <= Len(rest), sent' = sent + n,
                 text' = text \o SubSeq(rest, 1, n),
                 Then(Cleanup) => EndsText(SubSeq(rest, 1, n), Len(text')) \/ Throw(Cleanup)
          PROVE  /\ sent' \in 0..Len(p) /\ text' = SubSeq(p, 1, sent')
                 /\ Then(Cleanup) => Entire' \/ Throw(Cleanup)
      <3>1. n \in Nat \ {0}
        BY <2>4, ProgramExportAssumption
      <3>2. p \in Seq(STRING) /\ sent \in 0..Len(p) /\ n <= Len(SubSeq(p, sent + 1, Len(p)))
        BY <1>2, <2>1, <2>4
      <3> HIDE DEF p
      <3>3. sent + n \in 0..Len(p) /\ SubSeq(p, 1, sent) \o SubSeq(rest, 1, n) = SubSeq(p, 1, sent + n)
        BY <3>1, <3>2, PieceOf
      <3>4. text' = SubSeq(p, 1, sent + n)
        BY <1>2, <2>4, <3>3 DEF p
      <3>5. ASSUME EndsText(SubSeq(rest, 1, n), Len(text')) PROVE Entire'
        <4>1. EndsText(SubSeq(rest, 1, n), Len(SubSeq(p, 1, sent + n)))
          BY <3>4, <3>5
        <4>2. sent \in 0..Len(p) /\ n <= Len(SubSeq(p, sent + 1, Len(p)))
          BY <1>2, <2>4 DEF p
        <4> DEFINE got == SubSeq(p, 1, sent + n)
        <4>3. \/ Cardinality({i \in DOMAIN got : got[i] = "%"}) = 2
              \/ got = <<"%", "n">>
          BY <2>1, <3>1, <4>1, <4>2, TextEnds
        <4> HIDE DEF got
        <4>4. text' = got
          BY <3>4 DEF got
        <4>5. QED
          BY <4>3, <4>4 DEF Entire
      <3>6. QED
        BY <2>4, <3>4, <3>5, <3>3
    <2> HIDE DEF rest, p
    <2>5. CASE NoData
      <3>1. UNCHANGED <<sent, text>> /\ (Throw(Cleanup) \/ Then(Call1("upload3")))
        BY <2>5 DEF NoData
      <3>2. Then(Call1("upload3")) => ~Then(Cleanup)
        BY DEF Then, Call1, Cleanup, Call
      <3>3. QED
        BY <2>2, <2>3, <3>1, <3>2
    <2>6. CASE ~NoData
      <3>1. Then(Call1("upload3")) => ~Then(Cleanup)
        BY DEF Then, Call1, Cleanup, Call
      <3>2. CASE UNCHANGED <<sent, text>> /\ Throw(Cleanup)
        BY <2>3, <3>2
      <3>3. CASE ~(UNCHANGED <<sent, text>> /\ Throw(Cleanup))
        <4>1. PICK n \in 1..ChunkBytes :
                /\ n <= Len(rest) /\ sent' = sent + n
                /\ text' = text \o SubSeq(rest, 1, n)
                /\ \/ Throw(Cleanup) \/ EndsText(SubSeq(rest, 1, n), Len(text'))
                   \/ Then(Call1("upload3"))
          BY <2>6, <3>3 DEF UploadChunk, rest, p
        <4>2. QED
          BY <2>4, <3>1, <4>1
      <3>4. QED
        BY <3>2, <3>3
    <2>7. QED
      BY <2>5, <2>6
  <1>8. UploadTypeOK'
    <2>1. failed' \in BOOLEAN
      BY <1>2, <1>6 DEF Throw, Then
    <2>2. text' = SubSeq(Programs[wanted'], 1, sent')
      BY <1>3, <1>7
    <2>3. QED
      BY <1>1, <1>3, <1>5, <2>1, <2>2 DEF UploadTypeOK, UploadOK
  <1>9. Uploads'
    <2>1. CASE Then(Call1("upload3")) /\ calls' # MaxCalls /\ streak' <= MaxEmptyStreak
      <3>1. \A f : At(f)' <=> f = "upload3"
        BY <2>1, OneLeft DEF Then, Call1
      <3>2. failed' = failed /\ calls' < MaxCalls
        BY <1>2, <1>5, <2>1 DEF Then
      <3>3. QED
        BY <1>2, <1>3, <2>1, <3>1, <3>2 DEF Uploads
    <2>2. CASE todo' = Cleanup /\ (failed' \/ Entire')
      <3>1. \A f : At(f)' <=> f = "upend3"
        BY <2>2, OneLeft DEF Cleanup, Call1
      <3>2. QED
        BY <1>2, <1>3, <2>2, <3>1 DEF Uploads
    <2>3. QED
      BY <1>6, <1>7, <2>1, <2>2 DEF Throw, Then
  <1>10. QED
    BY <1>1, <1>2, <1>3, <1>7, <1>8, <1>9 DEF UploadOK

\* An export is whole, and leaves the upload mode, step by step.
LEMMA UploadStep ==
  ASSUME ClientOK, DataOK, CallsOK, ProgramsOK, UploadOK, [Next]_vars
  PROVE  UploadOK'
  <1> DEFINE Facts == UploadTypeOK /\ (wanted # 0 => sent \in 0..Len(Programs[wanted]))
  <1>1. ASSUME UNCHANGED uploadVars PROVE Facts'
    BY <1>1 DEF UploadOK, UploadTypeOK, uploadVars
  <1>2. ASSUME UNCHANGED uploadVars, UNCHANGED <<profile, todo>>, outcome' \in {outcome, "none"}
        PROVE  UploadOK'
    <2>1. \A f : At(f)' <=> At(f)
      BY <1>2 DEF At
    <2>2. profile' = "export" => Uploads'
      BY <1>2, <2>1 DEF UploadOK, Uploads, Entire, uploadVars
    <2>3. profile' # "export" => ~uploading'
      BY <1>2 DEF UploadOK, uploadVars
    <2>4. QED
      BY <1>1, <1>2, <2>2, <2>3 DEF UploadOK
  <1>3. ASSUME UNCHANGED uploadVars, profile' = profile, profile # "export" PROVE UploadOK'
    <2>1. ~uploading'
      BY <1>3 DEF UploadOK, uploadVars
    <2>2. QED
      BY <1>1, <1>3, <2>1 DEF UploadOK
  <1>4. ASSUME Reads, UNCHANGED uploadVars PROVE UploadOK'
    <2>1. profile' = profile /\ outcome' \in {"sweeping", "raised", "crashed"}
      BY <1>4, ReadsRead DEF Reading, GoesOn, TakesLayout, Ends, worldVars
    <2>2. CASE profile # "export"
      BY <1>3, <1>4, <2>1, <2>2
    <2>3. CASE profile = "export"
      <3>1. /\ At("exeprgname") \/ At("rdexecprog")
            /\ todo' = <<>> \/ At("rdexecprog")' \/ At("resolve")'
        BY <1>4, <2>3, ExportReads DEF DataOK
      <3>2. ~At("upstart3")' /\ ~At("upload3")' /\ ~At("upend3")' /\ ~At("close")'
        BY <3>1 DEF At
      <3>3. Uploads
        BY <2>3 DEF UploadOK
      <3>4. /\ ~failed /\ sent = 0 /\ text = <<>> /\ calls = 0 /\ streak = 0
            /\ uploading => unended
        BY <3>1, <3>3 DEF Uploads, At
      <3>5. Uploads'
        BY <1>4, <2>1, <3>2, <3>4 DEF Uploads, uploadVars
      <3>6. QED
        BY <1>1, <1>4, <2>1, <2>3, <3>5 DEF UploadOK
    <2>4. QED
      BY <2>2, <2>3
  <1>5. ASSUME BeginSweep \/ Deliver, UNCHANGED uploadVars PROVE UploadOK'
    <2>1. profile # "export" /\ profile' = profile
      BY <1>5 DEF BeginSweep, Begin, Deliver, worldVars
    <2>2. QED
      BY <1>3, <1>5, <2>1
  <1>6. ASSUME Connection, UNCHANGED uploadVars PROVE UploadOK'
    BY <1>2, <1>6 DEF Connection, AllocateHandle, Prime, PrimeFails, Close, sweepVars, worldVars
  <1>7. ASSUME World, UNCHANGED uploadVars PROVE UploadOK'
    BY <1>2, <1>7 DEF World, Edit, Reconfigure, LinkChanges, sweepVars
  <1>8. ASSUME Export PROVE UploadOK'
    <2>1. profile = "export" /\ profile' = profile /\ Uploads /\ Facts
      <3>1. profile = "export"
        BY <1>8, ExportingIs
      <3>2. profile' = profile
        BY <1>8 DEF Export, BeginExport, Resolve, StartUpload, UploadChunk, EndUpload,
                    CloseExport, Apart, worldVars
      <3>3. QED
        BY <3>1, <3>2 DEF UploadOK
    <2>2. SUFFICES Facts' /\ Uploads'
      BY <2>1 DEF UploadOK
    <2>3. CASE BeginExport
      <3>1. /\ ~failed' /\ sent' = 0 /\ text' = <<>> /\ calls' = 0 /\ streak' = 0
            /\ failed' \in BOOLEAN
            /\ outcome = "none" /\ outcome' = "sweeping" /\ UNCHANGED <<uploading, unended>>
            /\ wanted' \in {0} \cup DOMAIN Programs
        BY <2>3 DEF BeginExport
      <3>2. Facts'
        <4>1. wanted' # 0 => /\ 0 \in 0..Len(Programs[wanted'])
                             /\ SubSeq(Programs[wanted'], 1, 0) = <<>>
          <5>1. wanted' # 0 => Programs[wanted'] \in Seq(STRING)
            BY <3>1, ProgramExportAssumption DEF IsProgram
          <5>2. QED
            BY <5>1
        <4>2. 0 \in 0..MaxCalls /\ 0 \in 0..(MaxEmptyStreak + 1)
          BY ProgramExportAssumption
        <4>3. QED
          BY <2>1, <3>1, <4>1, <4>2 DEF UploadTypeOK
      <3>3. uploading => unended
        <4>1. todo = <<>>
          BY <3>1 DEF ClientOK
        <4>2. QED
          BY <2>1, <4>1 DEF Uploads, At
      <3>4. CASE todo' = <<Call("exeprgname", 0, 0), Call("resolve", 0, 0)>>
        <4>1. Head(todo') = Call("exeprgname", 0, 0)
          BY <3>4
        <4>2. ~At("upstart3")' /\ ~At("upload3")' /\ ~At("upend3")' /\ ~At("close")'
          BY <4>1 DEF At, Call
        <4>3. QED
          BY <3>1, <3>2, <3>3, <4>2 DEF Uploads
      <3>5. CASE \E o \in DOMAIN Programs : todo' = <<Call("upstart3", o, 0)>> /\ wanted' = o
        <4>1. wanted' # 0
          BY <3>5, ProgramExportAssumption
        <4>2. ~At("upload3")' /\ ~At("upend3")' /\ ~At("close")'
          BY <3>5, OneLeft
        <4>3. QED
          BY <3>1, <3>2, <3>3, <4>1, <4>2 DEF Uploads
      <3>6. QED
        BY <2>3, <3>4, <3>5 DEF BeginExport
    <2>4. CASE Resolve
      <3>1. /\ At("resolve") /\ outcome = "sweeping"
            /\ UNCHANGED <<outcome, uploading, sent, text, calls, streak, unended>>
        BY <2>4 DEF Resolve, Due, At
      <3>2. /\ ~failed /\ sent = 0 /\ text = <<>> /\ calls = 0 /\ streak = 0
            /\ uploading => unended
        BY <2>1, <3>1 DEF Uploads, At
      <3>3. snap[Number] \in {Nothing} \cup {Just(o) : o \in DOMAIN Programs}
        BY <2>1, <3>1 DEF ProgramsOK
      <3>4. CASE snap[Number] = Nothing
        <4>1. Throw(<<Call("close", 0, 0)>>) /\ wanted' = 0
          BY <2>4, <3>4 DEF Resolve, Number
        <4>2. \A f : At(f)' <=> f = "close"
          BY <4>1, OneLeft DEF Throw
        <4>3. Facts'
          BY <2>1, <3>1, <4>1 DEF UploadTypeOK, Throw
        <4>4. QED
          BY <3>1, <3>2, <4>1, <4>2, <4>3 DEF Uploads, Throw
      <3>5. CASE snap[Number] # Nothing
        <4>1. PICK o \in DOMAIN Programs : snap[Number] = Just(o)
          BY <3>3, <3>5
        <4>2. Then(<<Call("upstart3", o, 0)>>) /\ wanted' = o
          <5>1. Just(o)[1] = o
            BY DEF Just
          <5>2. Then(<<Call("upstart3", snap[Number][1], 0)>>) /\ wanted' = snap[Number][1]
            BY <2>4, <3>5 DEF Resolve, Number
          <5>3. QED
            BY <4>1, <5>1, <5>2
        <4>3. \A f : At(f)' <=> f = "upstart3"
          BY <4>2, OneLeft DEF Then
        <4>4. o # 0 /\ Programs[o] \in Seq(STRING)
          BY ProgramExportAssumption DEF IsProgram
        <4>5. 0 \in 0..Len(Programs[o]) /\ SubSeq(Programs[o], 1, 0) = <<>>
          BY <4>4
        <4>6. Facts'
          BY <2>1, <3>1, <3>2, <4>2, <4>5 DEF UploadTypeOK, Then
        <4>7. QED
          BY <3>1, <3>2, <4>2, <4>3, <4>4, <4>6 DEF Uploads, Then
      <3>6. QED
        BY <3>4, <3>5
    <2>5. CASE StartUpload
      <3>1. /\ At("upstart3") /\ outcome = "sweeping"
            /\ UNCHANGED <<outcome, sent, text, calls, streak, wanted, unended>>
        BY <2>5 DEF StartUpload, Due, At
      <3>2. /\ ~failed /\ failed \in BOOLEAN /\ calls = 0 /\ streak = 0 /\ wanted # 0
            /\ uploading => unended
        BY <2>1, <3>1 DEF Uploads, At, UploadTypeOK
      <3>3. 0 < MaxCalls /\ 0 <= MaxEmptyStreak
        BY ProgramExportAssumption
      <3>4. CASE Then(Call1("upload3")) /\ uploading' = TRUE
        <4>1. \A f : At(f)' <=> f = "upload3"
          BY <3>4, OneLeft DEF Then, Call1
        <4>2. Facts'
          BY <2>1, <3>1, <3>4 DEF UploadTypeOK, Then
        <4>3. QED
          BY <3>1, <3>2, <3>3, <3>4, <4>1, <4>2 DEF Uploads, Then
      <3>5. CASE Throw(Call1("close")) /\ UNCHANGED uploading
        <4>1. \A f : At(f)' <=> f = "close"
          BY <3>5, OneLeft DEF Throw, Call1
        <4>2. Facts'
          BY <2>1, <3>1, <3>5 DEF UploadTypeOK, Throw
        <4>3. QED
          BY <3>1, <3>2, <3>5, <4>1, <4>2 DEF Uploads, Throw
      <3>6. QED
        BY <2>5, <3>4, <3>5 DEF StartUpload
    <2>6. CASE UploadChunk
      BY <2>1, <2>6, ChunkStep DEF UploadOK
    <2>7. CASE EndUpload
      <3>1. /\ At("upend3") /\ outcome = "sweeping"
            /\ UNCHANGED <<outcome, sent, text, calls, streak, wanted, failed>>
            /\ todo' = Call1("close")
            /\ \/ uploading' = FALSE /\ unended' = FALSE
               \/ uploading' = uploading /\ unended' = TRUE
        BY <2>7 DEF EndUpload, Due, At, Then
      <3>2. \A f : At(f)' <=> f = "close"
        BY <3>1, OneLeft DEF Call1
      <3>3. Facts'
        BY <2>1, <3>1 DEF UploadTypeOK
      <3>4. ~failed' => Entire'
        BY <2>1, <3>1 DEF Uploads, Entire
      <3>5. QED
        BY <3>1, <3>2, <3>3, <3>4 DEF Uploads
    <2>8. CASE CloseExport
      <3>1. /\ At("close") /\ todo' = <<>> /\ UNCHANGED uploadVars
            /\ outcome' = IF failed THEN "raised" ELSE "ok"
        BY <2>8 DEF CloseExport, Due, At
      <3>2. \A f : ~At(f)'
        BY <3>1 DEF At
      <3>3. uploading' => unended'
        BY <2>1, <3>1 DEF Uploads, At, uploadVars
      <3>4. outcome' = "ok" => Entire'
        BY <2>1, <3>1 DEF Uploads, Entire, uploadVars
      <3>5. QED
        BY <1>1, <3>1, <3>2, <3>3, <3>4 DEF Uploads
    <2>9. QED
      BY <1>8, <2>3, <2>4, <2>5, <2>6, <2>7, <2>8 DEF Export
  <1>9. ASSUME NEW sparse, ExportG10(sparse) PROVE UploadOK'
    BY <1>2, <1>9 DEF ExportG10, exportVars, readVars, sweepVars, worldVars
  <1>10. ASSUME RunG10 PROVE UploadOK'
    BY <1>2, <1>10 DEF RunG10, sweepVars
  <1>11. ASSUME Stutters PROVE UploadOK'
    BY <1>2, <1>11 DEF Stutters, vars, exportVars, readVars, sweepVars, worldVars
  <1>12. QED
    BY <1>4, <1>5, <1>6, <1>7, <1>8, <1>9, <1>10, <1>11, StepKinds

(* What is so of sweeps and exports, taken together.                       *)
SoundOK ==
  /\ ReportsOK /\ CausesOK /\ AnsweredOK /\ CompleteOK
  /\ NameOK /\ ProgramsOK /\ UploadOK

\* Neither a sweep nor an export is under way to begin with.
LEMMA SoundStart ==
  ASSUME Init
  PROVE  SoundOK
  <1>1. ReportsOK
    BY ReportsStart
  <1>2. /\ profile \in Profiles /\ control = Contents[profile]
        /\ link = "up" /\ handle = "none" /\ outcome = "none" /\ todo = <<>> /\ snap = Empty
        /\ disturbed = FALSE /\ answered = FALSE
        /\ uploading = FALSE /\ sent = 0 /\ text = <<>> /\ calls = 0 /\ streak = 0
        /\ failed = FALSE /\ wanted = 0 /\ unended = FALSE
    BY DEF Init, ExportInit, ReadInit
  <1>3. CausesOK /\ AnsweredOK /\ CompleteOK
    BY <1>2 DEF CausesOK, FailuresHaveCauses, AnsweredOK, OutagesAreNoticed, CompleteOK
  <1>4. NameOK
    BY <1>2 DEF NameOK, TextFits, NameFitsNumber, Name, Empty
  <1>5. ProgramsOK
    <2>1. ASSUME profile = "export" PROVE control[Number] \in {0} \cup DOMAIN Programs
      BY <1>2, <2>1, ProgramExportAssumption DEF Number
    <2>2. QED
      BY <1>2, <2>1 DEF ProgramsOK, At, Empty
  <1>6. UploadOK
    <2>1. 0 \in 0..MaxCalls /\ 0 \in 0..(MaxEmptyStreak + 1)
      BY ProgramExportAssumption
    <2>2. UploadTypeOK
      BY <1>2, <2>1 DEF UploadTypeOK
    <2>3. Uploads
      BY <1>2 DEF Uploads, At
    <2>4. QED
      BY <1>2, <2>2, <2>3 DEF UploadOK
  <1>7. QED
    BY <1>1, <1>3, <1>4, <1>5, <1>6 DEF SoundOK

\* Each step keeps sweeps and exports sound.
LEMMA SoundStep ==
  ASSUME SoundOK, [Next]_vars
  PROVE  SoundOK'
  <1>1. /\ ClientOK /\ CallsOK /\ DataOK /\ PunchedOK /\ AreWords(control)
        /\ ReportsOK /\ CausesOK /\ AnsweredOK /\ CompleteOK
        /\ NameOK /\ ProgramsOK /\ UploadOK
    BY DEF SoundOK, ReportsOK, DataOK
  <1>2. /\ ReportsOK' /\ CausesOK' /\ AnsweredOK' /\ CompleteOK'
        /\ NameOK' /\ ProgramsOK' /\ UploadOK'
    BY <1>1, ReportsStep, CausesStep, AnsweredStep, CompleteStep, NameStep, ProgramsStep,
       UploadStep
  <1>3. QED
    BY <1>2 DEF SoundOK

\* What a sweep or an export tells was so at some moment of it, and is all there
\* is if nothing disturbed the sweep; a part name goes with its program, an exported program is whole, a failure has a cause,
\* an outage is noticed, and neither a handle nor the upload mode is left behind.
THEOREM ReadsAlwaysSound == Spec => []ReadsAreSound
  <1>1. Init => SoundOK
    BY SoundStart
  <1>2. SoundOK /\ [Next]_vars => SoundOK'
    BY SoundStep
  <1>3. SoundOK => ReadsAreSound
    <2> SUFFICES ASSUME SoundOK PROVE ReadsAreSound
      OBVIOUS
    <2>1. ClientOK /\ SnapOK /\ CausesOK /\ AnsweredOK /\ CompleteOK /\ NameOK /\ UploadOK
      BY DEF SoundOK, ReportsOK
    <2>2. SnapshotIsHonest
      BY <2>1 DEF SnapOK, Reported, Honest, LengthBanks, SnapshotIsHonest
    <2>3. NameFitsNumber /\ FailuresHaveCauses /\ OutagesAreNoticed /\ HandlesAreReturned
      BY <2>1 DEF NameOK, CausesOK, AnsweredOK, ClientOK
    <2>4. UploadIsWhole
      BY <2>1 DEF UploadOK, Uploads, Entire, UploadIsWhole
    <2>5. UploadModeIsLeft
      <3>1. ASSUME handle = "none" PROVE todo = <<>>
        BY <2>1, <3>1 DEF ClientOK
      <3>2. QED
        BY <2>1, <3>1 DEF UploadOK, Uploads, At, UploadModeIsLeft
    <2>6. SweepsAreComplete
      <3> SUFFICES ASSUME profile # "export", outcome = "sweeping", todo = <<>>, ~disturbed, ~relaid
                   PROVE  \/ OnPanel \subseteq DOMAIN snap
                          \/ /\ profile = "lathe" /\ StatusKeys \subseteq DOMAIN snap
                             /\ DOMAIN snap \subseteq StatusKeys \cup {<<"name", 0>>}
        BY DEF SweepsAreComplete
      <3>1. Items(todo) = {}
        BY DEF Items
      <3>2. \A k : (Told(k) => k \in DOMAIN snap) /\ ~InDoubt(k)
        BY <3>1 DEF Told, InDoubt
      <3>3. TellsAll \/ TellsStatus
        BY <2>1 DEF CompleteOK
      <3>4. QED
        BY <3>2, <3>3 DEF TellsAll, TellsStatus
    <2>7. QED
      BY <2>2, <2>3, <2>4, <2>5, <2>6 DEF ReadsAreSound
  <1>4. QED
    BY <1>1, <1>2, <1>3, PTL DEF Spec

\* The client, the upload and the panel keep to their types.
THEOREM TypeCorrect == Spec => []TypeOK
  <1>1. Init => SoundOK
    BY SoundStart
  <1>2. SoundOK /\ [Next]_vars => SoundOK'
    BY SoundStep
  <1>3. SoundOK => TypeOK
    <2> SUFFICES ASSUME SoundOK PROVE TypeOK
      OBVIOUS
    <2>1. ClientOK /\ SnapOK /\ PunchedOK /\ UploadOK
      BY DEF SoundOK, ReportsOK
    <2>2. open \in 0..1
      BY <2>1 DEF ClientOK, HandlesAreReturned
    <2>3. cache \in {Nothing} \cup {Just(Layouts[i]) : i \in DOMAIN Layouts}
      BY <2>1 DEF ClientOK, LayoutsHad
    <2>4. \A k \in DOMAIN snap \ {<<"name", 0>>} : k \in Keys \/ k[1] = "life"
      BY <2>1 DEF SnapOK, Reported, Known
    <2>5. ReadTypeOK
      BY <2>1, <2>2, <2>3, <2>4 DEF ReadTypeOK, ClientOK
    <2>6. exports \in 0..MaxExports /\ Len(punched) <= 1
      <3>1. Len(<<>>) = 0 /\ \A x : Len(<<x>>) = 1
        OBVIOUS
      <3>2. punched = Nothing \/ \E x : punched = Just(x)
        BY <2>1 DEF PunchedOK
      <3>3. Len(punched) \in {0, 1}
        BY <3>1, <3>2 DEF Nothing, Just
      <3>4. Len(punched) <= 1
        <4>1. \A n \in {0, 1} : n <= 1
          OBVIOUS
        <4>2. QED
          BY <3>3, <4>1, Zenon
      <3>5. exports \in 0..MaxExports
        BY <2>1 DEF PunchedOK
      <3>6. QED
        BY <3>4, <3>5
    <2>7. QED
      BY <2>1, <2>5, <2>6 DEF TypeOK, UploadOK
  <1>4. QED
    BY <1>1, <1>2, <1>3, PTL DEF Spec

-----------------------------------------------------------------------------
(* The offset program restores.                                             *)

(* What running a program does to an offset.                               *)
Restores ==
  RunG10 =>
    \A k \in OffsetKeys :
      LET now == Shown(k, control'[k])
          rows == punched[1].rows
      IN IF k[2] \notin punched[1].listed THEN control'[k] = control[k]
         ELSE IF k \in DOMAIN rows THEN now = rows[k] ELSE now = 0

\* An exported program is read back as it was built.
LEMMA ProgramParsesBack ==
  ASSUME ReportsOK
  PROVE  ParsesBack
  <1> SUFFICES ASSUME punched # Nothing PROVE ParsesBack
    BY DEF ParsesBack
  <1> DEFINE parsed == ParseG10(punched[1].blocks)
  <1>1. PICK rows : /\ punched[1].rows = rows
                    /\ Tells(parsed, rows, Class, punched[1].listed)
    BY PunchedTells DEF ReportsOK, ClientOK
  <1> HIDE DEF parsed
  <1>2. /\ DOMAIN parsed = ClassBanks(Class) \X punched[1].listed
        /\ \A k \in DOMAIN parsed : parsed[k] = Said(rows, k)
    BY <1>1 DEF Tells
  <1>3. QED
    BY <1>1, <1>2 DEF ParsesBack, Said, parsed

\* Running it restores the offsets.
LEMMA RunRestores ==
  ASSUME ReportsOK
  PROVE  Restores
  <1> SUFFICES ASSUME RunG10, NEW k \in OffsetKeys
               PROVE  IF k[2] \notin punched[1].listed THEN control'[k] = control[k]
                      ELSE IF k \in DOMAIN punched[1].rows
                      THEN Shown(k, control'[k]) = punched[1].rows[k]
                      ELSE Shown(k, control'[k]) = 0
    BY DEF Restores
  <1>1. k \in Keys /\ k[1] \in ClassBanks(Class) /\ profile \in Profiles /\ PunchedOK
    BY DEF OffsetKeys, ReportsOK, ClientOK
  <1>2. k = <<k[1], k[2]>>
    <2>1. k[1] \in AllBanks
      BY <1>1, ClassOf DEF AllBanks, Classes
    <2>2. QED
      BY <1>1, <2>1, DataShapes
  <1> DEFINE d == Written(punched[1].blocks)
  <1>3. DOMAIN d = ClassBanks(Class) \X punched[1].listed
    BY <1>1, PunchedTells DEF RunG10, Tells
  <1>4. k[2] \notin punched[1].listed => control'[k] = control[k]
    <2>1. k[2] \notin punched[1].listed => k \notin DOMAIN d
      BY <1>2, <1>3
    <2>2. QED
      BY <1>1, <2>1 DEF RunG10
  <1>5. k[2] \in punched[1].listed => Shown(k, control'[k]) = Said(punched[1].rows, k)
    <2>1. k[2] \in punched[1].listed => k \in DOMAIN d
      BY <1>1, <1>2, <1>3
    <2>2. QED
      BY <1>1, <2>1, RunWrites
  <1>6. QED
    BY <1>4, <1>5 DEF Said

\* A program that is exported says what the mirror had, to the strict parser
\* and to the control that runs it.
THEOREM ExportsAlwaysRestore == Spec => ExportRestores
  <1>1. Init => ReportsOK
    BY ReportsStart
  <1>2. ReportsOK /\ [Next]_vars => ReportsOK'
    BY ReportsStep
  <1>3. ReportsOK => ParsesBack
    BY ProgramParsesBack
  <1>4. ReportsOK /\ [Next]_vars => [Restores]_vars
    BY RunRestores
  <1>5. Spec => []ParsesBack /\ [][Restores]_vars
    BY <1>1, <1>2, <1>3, <1>4, PTL DEF Spec
  <1>6. QED
    BY <1>5 DEF ExportRestores, RunningRestores, Restores

-----------------------------------------------------------------------------
(* What is concluded from the mirror.                                       *)

\* What the mirror has of tools.
LEMMA ToolsKnown ==
  ASSUME MirrorOK, profile \in Profiles
  PROVE  /\ \A pot \in Pots(mirror) : /\ <<"pot", pot>> \in DOMAIN mirror /\ pot \in Nat
                                      /\ \/ mirror[<<"pot", pot>>] = Nothing
                                         \/ \E t \in Nat : mirror[<<"pot", pot>>] = Just(t)
                                      /\ profile = "mill"
         /\ Head1 = Nothing \/ \E t \in Nat : Head1 = Just(t)
         /\ Next1 = Nothing \/ \E t \in Nat : Next1 = Just(t)
  <1>1. ASSUME NEW k \in DOMAIN mirror, k[1] \in {"pot", "head", "next"}
        PROVE  k \in Keys /\ (mirror[k] = Nothing \/ \E t \in Nat : mirror[k] = Just(t))
    <2>1. k # <<"name", 0>> /\ k[1] # "life"
      BY <1>1
    <2>2. k \in Keys /\ ValueOK(k, mirror[k])
      BY <2>1 DEF MirrorOK, RowsOK, Known
    <2>3. QED
      BY <1>1, <2>2 DEF ValueOK
  <1>2. ASSUME NEW pot \in Pots(mirror)
        PROVE  /\ <<"pot", pot>> \in DOMAIN mirror /\ pot \in Nat /\ profile = "mill"
    <2>1. PICK k \in DOMAIN mirror : k[1] = "pot" /\ pot = k[2]
      BY DEF Pots
    <2>2. k \in Keys /\ profile \in {"mill", "lathe", "export"}
      BY <1>1, <2>1, Bounds
    <2>3. PICK n \in 1..RegisterLimit : Keys = DataOf(profile, n)
      BY KeysOf
    <2>4. profile = "mill" /\ k \in {"pot"} \X (1..PotCount)
      <3>1. CASE profile = "mill"
        BY <2>1, <2>2, <2>3, <3>1 DEF DataOf
      <3>2. CASE profile = "lathe"
        BY <2>1, <2>2, <2>3, <3>2 DEF DataOf
      <3>3. CASE profile = "export"
        BY <2>1, <2>2, <2>3, <3>3 DEF DataOf
      <3>4. QED
        BY <2>2, <3>1, <3>2, <3>3
    <2>5. PICK i \in 1..PotCount : k = <<"pot", i>>
      BY <2>4
    <2>6. i \in Nat
      BY Bounds
    <2>7. QED
      BY <2>1, <2>4, <2>5, <2>6
  <1>3. Head1 = Nothing \/ \E t \in Nat : Head1 = Just(t)
    <2>1. <<"head", 0>>[1] = "head"
      OBVIOUS
    <2>2. QED
      BY <1>1, <2>1 DEF Head1, Lookup, Nothing
  <1>4. Next1 = Nothing \/ \E t \in Nat : Next1 = Just(t)
    <2>1. <<"next", 0>>[1] = "next"
      OBVIOUS
    <2>2. QED
      BY <1>1, <2>1 DEF Next1, Lookup, Nothing
  <1>5. ASSUME NEW pot \in Pots(mirror)
        PROVE  \/ mirror[<<"pot", pot>>] = Nothing
               \/ \E t \in Nat : mirror[<<"pot", pot>>] = Just(t)
    <2>1. <<"pot", pot>>[1] = "pot"
      OBVIOUS
    <2>2. QED
      BY <1>1, <1>2, <2>1
  <1>6. QED
    BY <1>2, <1>3, <1>4, <1>5

\* The row of a pot.
LEMMA RowOf ==
  ASSUME MirrorOK, profile \in Profiles, NEW row \in PotRows
  PROVE  /\ row.pot \in Nat /\ (row.t = Nothing \/ \E t \in Nat : row.t = Just(t))
         /\ row.t = Nothing => row.state = "empty"
         /\ profile = "mill"
         /\ row.state = "loaded" =>
              /\ row.t # Nothing /\ row.t # ProbeTool /\ row.t[1] \in DOMAIN Assigned
              /\ <<"h_geom", Assigned[row.t[1]][1]>> \in DOMAIN mirror
              /\ mirror[<<"h_geom", Assigned[row.t[1]][1]>>] # 0
              /\ Assigned[row.t[1]] = Just(Assigned[row.t[1]][1])
  <1>1. PICK pot \in Pots(mirror) : row = PotRow(mirror, Assigned, ProbeTool, Presetter, pot)
    BY DEF PotRows, Occupied
  <1> DEFINE t == mirror[<<"pot", pot>>]
             h == IF t = <<>> THEN <<>> ELSE Lookup(Assigned, t[1])
             length == IF h = <<>> THEN <<>> ELSE Length(mirror, h[1])
  <1>2. row.pot = pot /\ row.t = t /\ row.state = ClassifyPot(pot, t, ProbeTool, h, length)
    BY <1>1 DEF PotRow
  <1>3. /\ pot \in Nat /\ profile = "mill" /\ (t = Nothing \/ \E n \in Nat : t = Just(n))
    BY ToolsKnown
  <1> HIDE DEF t
  <1>4. t = Nothing => row.state = "empty"
    BY <1>2 DEF ClassifyPot, Nothing
  <1>5. ASSUME row.state = "loaded"
        PROVE  t # <<>> /\ t # ProbeTool /\ h # <<>> /\ length # <<>> /\ length # <<0>>
    <2> HIDE DEF h, length
    <2> QED
      BY <1>2, <1>5 DEF ClassifyPot
  <1>6. ASSUME row.state = "loaded"
        PROVE  /\ t[1] \in DOMAIN Assigned /\ h = Assigned[t[1]]
               /\ length = Length(mirror, Assigned[t[1]][1])
    BY <1>5, <1>6 DEF Lookup
  <1>7. ASSUME row.state = "loaded"
        PROVE  /\ <<"h_geom", Assigned[t[1]][1]>> \in DOMAIN mirror
               /\ mirror[<<"h_geom", Assigned[t[1]][1]>>] # 0
    <2> HIDE DEF length
    <2> QED
      BY <1>5, <1>6, <1>7 DEF Length
  <1>8. ASSUME row.state = "loaded" PROVE Assigned[t[1]] = Just(Assigned[t[1]][1])
    <2>1. h \in Seq(Nat) /\ Len(h) <= 1
      BY <1>6, <1>8, MachineViewsAssumption
    <2>2. h # <<>>
      BY <1>5, <1>8
    <2>3. \A s \in Seq(Nat) : Len(s) <= 1 /\ s # <<>> => s = <<s[1]>>
      <3> SUFFICES ASSUME NEW s \in Seq(Nat), Len(s) <= 1, s # <<>> PROVE s = <<s[1]>>
        OBVIOUS
      <3>1. Len(s) \in Nat \ {0}
        BY TailOf
      <3>2. \A n \in Nat \ {0} : n <= 1 => n = 1
        OBVIOUS
      <3>3. Len(s) = 1
        BY <3>1, <3>2, Zenon
      <3>4. QED
        BY <3>3
    <2> HIDE DEF h
    <2>4. h = <<h[1]>>
      BY <2>1, <2>2, <2>3
    <2>5. QED
      BY <1>6, <1>8, <2>4 DEF Just
  <1>9. QED
    BY <1>2, <1>3, <1>4, <1>5, <1>6, <1>7, <1>8 DEF Nothing

\* Of the rows that name a tool one is the first.
LEMMA FirstRow ==
  ASSUME NEW rows, \A row \in rows : row.pot \in Nat, NEW t, \E row \in rows : row.t = t
  PROVE  FirstOf(rows, t) \in rows /\ FirstOf(rows, t).t = t
  <1> DEFINE N == {row.pot : row \in {row \in rows : row.t = t}}
  <1>1. N \in SUBSET Nat /\ N # {}
    OBVIOUS
  <1>2. PICK m \in N : \A k \in N : m <= k
    <2> HIDE DEF N
    <2> QED
      BY <1>1, LeastOf
  <1>3. PICK row \in rows : row.t = t /\ row.pot = m
    OBVIOUS
  <1>4. \A other \in rows : other.t = t => row.pot <= other.pot
    BY <1>2, <1>3
  <1>5. QED
    BY <1>3, <1>4 DEF FirstOf

\* A pot is said to be loaded only for a register that is not zero.
LEMMA PresenceProved ==
  ASSUME MirrorOK, profile \in Profiles
  PROVE  PresenceNeedsProof
  BY RowOf DEF PresenceNeedsProof

\* The loadout lists every tool once.
LEMMA LoadoutLists ==
  ASSUME MirrorOK, profile \in Profiles
  PROVE  LoadoutListsOnce
  <1> DEFINE seen == {row.t : row \in {row \in PotRows : row.state # "empty"}}
             resident == Residents(PotRows, Head1, Next1)
             Tool(t) == t = Nothing \/ \E n \in Nat : t = Just(n)
  <1>1. /\ Tool(Head1) /\ Tool(Next1)
        /\ \A row \in PotRows : row.pot \in Nat /\ Tool(row.t)
    BY ToolsKnown, RowOf
  <1>2. \A t, u : Tool(t) /\ Tool(u) /\ t # Nothing /\ u # Nothing => (t[1] = u[1] <=> t = u)
    BY DEF Just, Nothing
  <1>3. \A t : Tool(t) /\ t # Nothing => Just(t[1]) = t
    BY DEF Just, Nothing
  <1>4. /\ resident \subseteq PotRows
        /\ \A row \in resident : /\ row.t # Nothing /\ row.t # Head1 /\ row.t # Next1
                                 /\ row.state # "empty" /\ row.t \in seen
        /\ \A row \in PotRows : row.t \notin {Nothing, Head1, Next1} /\ row.state # "empty"
             => row \in resident
    BY DEF Residents, Nothing
  <1>5. \A entry : entry \in Loadout <=>
          \/ /\ Head1 # Nothing
             /\ entry = Entry(Head1[1], "spindle", StateOf(PotRows, Head1), Records)
          \/ /\ Next1 # Nothing /\ Next1 # Head1
             /\ entry = Entry(Next1[1], "next", StateOf(PotRows, Next1), Records)
          \/ \E row \in resident :
               entry = Entry(row.t[1], "pot", FirstOf(resident, row.t).state, Records)
    <2> HIDE DEF resident
    <2> QED
      BY DEF Loadout, BuildActiveLoadout, Nothing, resident
  <1>6. \A t, where, state : /\ Entry(t, where, state, Records).t = t
                             /\ Entry(t, where, state, Records).where = where
                             /\ Entry(t, where, state, Records).state = state
    BY DEF Entry
  <1> HIDE DEF resident, Tool
  <1>7. ASSUME NEW t \in (seen \cup {Head1, Next1}) \ {Nothing}
        PROVE  \E entry \in Loadout : entry.t = t[1]
    <2>1. CASE t = Head1
      BY <1>5, <1>6, <2>1
    <2>2. CASE t # Head1 /\ t = Next1
      BY <1>5, <1>6, <2>2
    <2>3. CASE t # Head1 /\ t # Next1
      <3>1. PICK row \in PotRows : row.state # "empty" /\ row.t = t
        BY <2>3
      <3>2. row \in resident
        BY <1>4, <2>3, <3>1
      <3>3. QED
        BY <1>5, <1>6, <3>1, <3>2
    <2>4. QED
      BY <2>1, <2>2, <2>3
  <1>8. ASSUME NEW entry \in Loadout, NEW other \in Loadout, entry.t = other.t
        PROVE  entry = other
    <2> DEFINE Spindle(e) == Head1 # Nothing
                             /\ e = Entry(Head1[1], "spindle", StateOf(PotRows, Head1), Records)
               OnDeck(e) == /\ Next1 # Nothing /\ Next1 # Head1
                            /\ e = Entry(Next1[1], "next", StateOf(PotRows, Next1), Records)
               InPot(e, t) == /\ t # Nothing /\ t # Head1 /\ t # Next1 /\ Tool(t)
                              /\ e = Entry(t[1], "pot", FirstOf(resident, t).state, Records)
    <2>1. \A e \in Loadout : Spindle(e) \/ OnDeck(e) \/ \E t : InPot(e, t)
      BY <1>1, <1>4, <1>5
    <2>2. \A e : /\ Spindle(e) => e.t = Head1[1]
                 /\ OnDeck(e) => e.t = Next1[1]
                 /\ \A t : InPot(e, t) => e.t = t[1]
      BY <1>6
    <2>3. CASE Spindle(entry)
      BY <1>1, <1>2, <1>8, <2>1, <2>2, <2>3
    <2>4. CASE OnDeck(entry)
      BY <1>1, <1>2, <1>8, <2>1, <2>2, <2>4
    <2>5. CASE \E t : InPot(entry, t)
      <3>1. PICK t : InPot(entry, t)
        BY <2>5
      <3>2. \A u : InPot(other, u) => u = t
        BY <1>2, <1>8, <2>2, <3>1
      <3>3. ~Spindle(other) /\ ~OnDeck(other)
        BY <1>1, <1>2, <1>8, <2>2, <3>1
      <3>4. QED
        BY <2>1, <3>1, <3>2, <3>3
    <2>6. QED
      BY <2>1, <2>3, <2>4, <2>5
  <1>9. ASSUME NEW entry \in Loadout, entry.where = "pot"
        PROVE  entry.state # "empty" /\ Just(entry.t) \in seen
    <2>1. PICK row \in resident :
            entry = Entry(row.t[1], "pot", FirstOf(resident, row.t).state, Records)
      BY <1>5, <1>6, <1>9
    <2>2. row \in PotRows /\ \A r \in resident : r.pot \in Nat
      BY <1>1, <1>4
    <2>3. FirstOf(resident, row.t) \in resident
      BY <2>1, <2>2, FirstRow
    <2>4. Just(row.t[1]) = row.t
      BY <1>1, <1>3, <1>4, <2>1, <2>2
    <2>5. QED
      BY <1>4, <1>6, <2>1, <2>3, <2>4
  <1>10. QED
    BY <1>7, <1>8, <1>9 DEF LoadoutListsOnce

\* The table lists the registers of the program, and its cells are what the
\* mirror has of them.
LEMMA TableOf ==
  ASSUME MirrorOK, profile \in Profiles, NEW sparse
  PROVE  /\ CsvRegisters(sparse) = SelectRegisters(mirror, sparse, RegisterCount)
         /\ DOMAIN ExportCsv(sparse) = CsvRegisters(sparse)
         /\ \A n \in CsvRegisters(sparse) :
              LET line == ExportCsv(sparse)[n]
              IN /\ \A bank \in CsvColumns :
                      (bank \in DOMAIN line.cells) = (<<bank, n>> \in DOMAIN mirror)
                 /\ \A bank \in DOMAIN line.cells : line.cells[bank] = mirror[<<bank, n>>]
                 /\ \A t \in DOMAIN Assigned : Assigned[t] = Just(n) => t \in line.tools
  <1>1. PICK b \in 0..RegisterLimit : AreRows(mirror, b)
    BY RowsAre DEF MirrorOK
  <1>2. \A k \in DOMAIN mirror : k[1] \in AllBanks => k = <<k[1], k[2]>>
    BY <1>1 DEF AreRows
  <1>3. ASSUME NEW n
        PROVE  (\E k \in DOMAIN mirror : k[1] \in AllBanks /\ k[2] = n /\ mirror[k] # 0)
                 <=> ~RegisterIsEmpty(mirror, n)
    <2>1. ASSUME NEW k \in DOMAIN mirror, k[1] \in AllBanks, k[2] = n, mirror[k] # 0
          PROVE  ~RegisterIsEmpty(mirror, n)
      <3>1. k = <<k[1], n>>
        BY <1>2, <2>1
      <3>2. QED
        BY <2>1, <3>1 DEF RegisterIsEmpty
    <2>2. ASSUME ~RegisterIsEmpty(mirror, n)
          PROVE  \E k \in DOMAIN mirror : k[1] \in AllBanks /\ k[2] = n /\ mirror[k] # 0
      <3>1. PICK bank \in AllBanks : <<bank, n>> \in DOMAIN mirror /\ mirror[<<bank, n>>] # 0
        BY <2>2 DEF RegisterIsEmpty
      <3>2. <<bank, n>>[1] = bank /\ <<bank, n>>[2] = n
        OBVIOUS
      <3>3. QED
        BY <3>1, <3>2
    <2>3. QED
      BY <2>1, <2>2
  <1>4. CsvRegisters(sparse) = SelectRegisters(mirror, sparse, RegisterCount)
    <2>1. {n \in Registers(mirror) : \E k \in DOMAIN mirror :
             k[1] \in AllBanks /\ k[2] = n /\ mirror[k] # 0}
            = {n \in Registers(mirror) : ~RegisterIsEmpty(mirror, n)}
      BY <1>3
    <2>2. QED
      BY <2>1 DEF CsvRegisters, SelectRegisters
  <1>5. QED
    BY <1>4 DEF ExportCsv, IdentityByRegister

\* The views of a mirror tell the same.
LEMMA ViewsTellTheSame ==
  ASSUME MirrorOK, profile \in Profiles
  PROVE  ViewsAgree
  <1>1. ASSUME NEW sparse \in BOOLEAN
        PROVE  LET csv == ExportCsv(sparse)
                   run == Written(BuildG10(mirror, Class, "inch", sparse, RegisterCount))
               IN /\ DOMAIN run = CsvColumns \X DOMAIN csv
                  /\ \A k \in DOMAIN run :
                       LET cells == csv[k[2]].cells
                       IN run[k] = IF k[1] \in DOMAIN cells THEN cells[k[1]] ELSE 0
    <2> DEFINE csv == ExportCsv(sparse)
               run == Written(BuildG10(mirror, Class, "inch", sparse, RegisterCount))
               S == SelectRegisters(mirror, sparse, RegisterCount)
    <2>1. PICK b \in 0..RegisterLimit : AreRows(mirror, b)
      BY RowsAre DEF MirrorOK
    <2>2. RegisterCount \in 0..RegisterLimit /\ Class \in Classes
      BY Bounds, ClassOf
    <2>3. Tells(run, mirror, Class, S)
      BY <2>1, <2>2, ProgramTells
    <2>4. CsvRegisters(sparse) = S /\ DOMAIN csv = S
      BY TableOf
    <2>5. ASSUME NEW n \in S, NEW bank \in CsvColumns
          PROVE  /\ (bank \in DOMAIN csv[n].cells) = (<<bank, n>> \in DOMAIN mirror)
                 /\ bank \in DOMAIN csv[n].cells => csv[n].cells[bank] = mirror[<<bank, n>>]
      BY <2>4, TableOf
    <2> HIDE DEF csv, run, S
    <2>6. DOMAIN run = CsvColumns \X S /\ \A k \in DOMAIN run : run[k] = Said(mirror, k)
      BY <2>3 DEF Tells, CsvColumns
    <2>7. ASSUME NEW k \in DOMAIN run
          PROVE  run[k] = IF k[1] \in DOMAIN csv[k[2]].cells THEN csv[k[2]].cells[k[1]] ELSE 0
      <3>1. k[1] \in CsvColumns /\ k[2] \in S /\ k = <<k[1], k[2]>>
        BY <2>6
      <3>2. run[k] = IF <<k[1], k[2]>> \in DOMAIN mirror THEN mirror[<<k[1], k[2]>>] ELSE 0
        BY <2>6, <3>1 DEF Said
      <3>3. QED
        BY <2>5, <3>1, <3>2
    <2>8. DOMAIN run = CsvColumns \X DOMAIN csv
      BY <2>4, <2>6
    <2>9. QED
      BY <2>7, <2>8 DEF csv, run
  <1>2. ASSUME NEW row \in PotRows, row.state = "loaded"
        PROVE  \E n \in CsvRegisters(TRUE) :
                 LET line == ExportCsv(TRUE)[n]
                 IN /\ row.t[1] \in line.tools /\ "h_geom" \in DOMAIN line.cells
                    /\ line.cells["h_geom"] # 0
    <2> DEFINE n == Assigned[row.t[1]][1]
               key == <<"h_geom", n>>
    <2>1. /\ profile = "mill" /\ row.t[1] \in DOMAIN Assigned
          /\ key \in DOMAIN mirror /\ mirror[key] # 0 /\ Assigned[row.t[1]] = Just(n)
      BY <1>2, RowOf
    <2>2. "h_geom" \in CsvColumns /\ "h_geom" \in AllBanks
      BY <2>1, BankNames DEF CsvColumns, Class, AllBanks
    <2>3. key[1] = "h_geom" /\ key[2] = n
      OBVIOUS
    <2> HIDE DEF n
    <2>4. n \in CsvRegisters(TRUE)
      <3>1. n \in Registers(mirror)
        BY <2>1, <2>2, <2>3 DEF Registers
      <3>2. \E k \in DOMAIN mirror : k[1] \in AllBanks /\ k[2] = n /\ mirror[k] # 0
        BY <2>1, <2>2, <2>3
      <3>3. QED
        BY <3>1, <3>2 DEF CsvRegisters
    <2>5. /\ row.t[1] \in ExportCsv(TRUE)[n].tools
          /\ "h_geom" \in DOMAIN ExportCsv(TRUE)[n].cells
          /\ ExportCsv(TRUE)[n].cells["h_geom"] = mirror[key]
      BY <2>1, <2>2, <2>4, TableOf
    <2>6. QED
      BY <2>1, <2>4, <2>5
  <1>3. QED
    BY <1>1, <1>2 DEF ViewsAgree

\* A status that unlocks writing is of a control at rest, in a mode for it.
LEMMA LockoutEarned ==
  ASSUME SnapOK, DataOK, profile \in Profiles
  PROVE  LockoutIsEarned
  <1> DEFINE k == <<"status", 0>>
  <1> SUFFICES ASSUME k \in DOMAIN snap, ModeLockoutOk(snap[k])
               PROVE  \E word \in held[k] : word.run \in {0, 1} /\ word.aut \in {0, 3, 4, 5, 9}
    BY DEF LockoutIsEarned
  <1>1. Reported(k, snap[k])
    BY DEF SnapOK
  <1>2. k \in Keys
    <2>1. k[1] = "status" /\ k # <<"name", 0>>
      OBVIOUS
    <2>2. QED
      BY <1>1, <2>1 DEF Reported, Known
  <1>3. PICK word \in held[k] : snap[k] = DecodeStatus(word)
    BY <1>1 DEF Reported
  <1>4. word \in [aut : Nat, run : Nat, emergency : BOOLEAN]
    BY <1>2, <1>3 DEF DataOK, HeldOK, IsWord
  <1>5. snap[k].running = (word.run >= 2)
    BY <1>3 DEF DecodeStatus
  <1>6. word.run \in Nat /\ ~(word.run >= 2)
    BY <1>4, <1>5 DEF ModeLockoutOk
  <1>7. word.run \in {0, 1}
    BY <1>6
  <1>8. snap[k].mode = ModeOf(word.aut)
    BY <1>3, <1>6 DEF DecodeStatus
  <1>9. ModeOf(word.aut) \in {"mdi", "edit", "hnd", "jog", "ref"}
    BY <1>8 DEF ModeLockoutOk, WriteSafeModes
  <1>10. word.aut \in {0, 3, 4, 5, 9}
    BY <1>4, <1>9 DEF ModeOf
  <1>11. QED
    BY <1>3, <1>7, <1>10

\* What is concluded from the mirror of a pot, of the loadout and of the offset
\* table is never more than the sweeps have shown, and writing is unlocked only
\* by a control that was seen at rest.
THEOREM ViewsAlwaysTrue == Spec => []ViewsAreTrue
  <1>1. Init => ReportsOK
    BY ReportsStart
  <1>2. ReportsOK /\ [Next]_vars => ReportsOK'
    BY ReportsStep
  <1>3. ReportsOK => ViewsAreTrue
    <2> SUFFICES ASSUME ReportsOK PROVE ViewsAreTrue
      OBVIOUS
    <2>1. MirrorOK /\ SnapOK /\ DataOK /\ profile \in Profiles
      BY DEF ReportsOK, ClientOK
    <2>2. PresenceNeedsProof /\ LoadoutListsOnce /\ ViewsAgree
      BY <2>1, PresenceProved, LoadoutLists, ViewsTellTheSame
    <2>3. LockoutIsEarned
      BY <2>1, LockoutEarned
    <2>4. QED
      BY <2>2, <2>3 DEF ViewsAreTrue
  <1>4. QED
    BY <1>1, <1>2, <1>3, PTL DEF Spec
=============================================================================
