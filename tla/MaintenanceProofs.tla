-------------------------- MODULE MaintenanceProofs --------------------------
(* Theorems about Maintenance for any rows, tools, files, revisions and     *)
(* machines, one invariant for each of its parts.  TInv follows a label     *)
(* from the registry through the hands of the runs to the TechDB and back;  *)
(* LInv says what an import has established about its file and which of it  *)
(* the requests may have changed since; GInv says what the guards of the    *)
(* migrations have let through; SInv types a database in use, and DInv says *)
(* of its schema that it is that of its revision and that its rows obey it. *)
EXTENDS Maintenance, WellFoundedInduction, TLAPS

-----------------------------------------------------------------------------
(* Numbers and functions.                                                   *)

\* A set of naturals has a least element.
LEMMA LeastOf ==
  ASSUME NEW N \in SUBSET Nat, N # {}
  PROVE  \E m \in N : \A k \in N : m <= k
  <1> DEFINE R == {pair \in Nat \X Nat : pair[1] < pair[2]}
  <1>1. IsWellFoundedOn(R, Nat)
    BY NatLessThanWellFounded DEF OpToRel
  <1>2. PICK m \in N : \A k \in N : ~(<<k, m>> \in R)
    <2> HIDE DEF R
    <2> QED
      BY <1>1, WFMin
  <1>3. \A k \in N : ~(k < m)
    BY <1>2
  <1>4. QED
    BY <1>3

\* The least and the greatest that the library's Min and Max choose.
LEMMA MinIsIn == ASSUME NEW N \in SUBSET Nat, N # {} PROVE Min(N) \in N
  BY LeastOf DEF Min

\* The greatest of a range.
LEMMA MaxOfRange == ASSUME NEW n \in Nat \ {0} PROVE Max(1..n) = n
  <1> DEFINE Greatest(x) == \A y \in 1..n : x >= y
             m == CHOOSE x \in 1..n : Greatest(x)
  <1>1. n \in 1..n /\ Greatest(n)
    OBVIOUS
  <1>2. m \in 1..n /\ Greatest(m)
    <2> HIDE DEF Greatest
    <2> QED
      BY <1>1
  <1>3. m = n
    <2> HIDE DEF m
    <2> QED
      BY <1>1, <1>2
  <1>4. QED
    BY <1>3 DEF Max

-----------------------------------------------------------------------------
(* The TechDB batch tool.                                                   *)

(* What rows, links, plans and tables are.                                 *)
Link == [table : Table, id : 1..MaxId]
Tool == [label : Shop, class : Class, link : {Unlinked} \cup Link]
Plan == [table : Table, id : 1..MaxId, label : Shop]
Partial(V) == UNION {[rows -> V] : rows \in SUBSET Row}
Filled == UNION {[1..n -> Shop \cup {NoRow}] : n \in 1..MaxId}

Shapes ==
  /\ registry \in [Row -> Tool \cup {NoRow}]
  /\ techdb \in [Table -> Filled] /\ draft \in [Table -> Filled]
  /\ holder \in Runner \cup {NoRow}
  /\ at \in [Runner -> {"idle", "read", "insert", "write"}]
  /\ seen \in [Runner -> Partial(Tool)] /\ planned \in [Runner -> Partial(Plan)]
  /\ listed \subseteq Shop

(* What a run has in hand at each of its stages.                           *)
Phases ==
  /\ holder = NoRow => draft = techdb
  /\ \A r \in Runner :
       /\ (holder = r) = (at[r] = "insert")
       /\ at[r] \in {"idle", "read"} => DOMAIN planned[r] = {}
       /\ at[r] \in {"idle", "write"} => DOMAIN seen[r] = {}
       /\ DOMAIN seen[r] \cap DOMAIN planned[r] = {}

Hand(r) == DOMAIN seen[r] \cup DOMAIN planned[r]
LabelOf(r, i) == IF i \in DOMAIN seen[r] THEN seen[r][i].label ELSE planned[r][i].label

(* A label has one rowid for good, in the registry and in the runs; of two *)
(* runs that have it in hand both are excused.                             *)
LabelsStay ==
  /\ \A i \in Row : registry[i] # NoRow =>
       /\ registry[i].label \in listed
       /\ \A j \in Row : registry[j] # NoRow /\ registry[j].label = registry[i].label => i = j
  /\ \A r \in Runner : \A i \in Hand(r) :
       /\ LabelOf(r, i) \in listed
       /\ \A j \in Row : registry[j] # NoRow /\ registry[j].label = LabelOf(r, i) => i = j
       /\ \A q \in Runner : \A j \in Hand(q) :
            LabelOf(q, j) = LabelOf(r, i) =>
              i = j /\ (r # q => LabelOf(r, i) \in excused)

(* A rowid in hand has the tool that was read, or is marked.               *)
RowsMarked ==
  \A r \in Runner : \A i \in Hand(r) :
    registry[i] # NoRow /\ registry[i].label # LabelOf(r, i) => i \in replaced

(* The draft is the TechDB and what the holder of the lock has planned.    *)
RealIn(tables, plan) ==
  plan.id \in DOMAIN tables[plan.table] /\ tables[plan.table][plan.id] = plan.label
DraftTrue ==
  /\ \A t \in Table : \A m \in DOMAIN techdb[t] :
       m \in DOMAIN draft[t] /\ draft[t][m] = techdb[t][m]
  /\ \A t \in Table : \A m \in DOMAIN draft[t] :
       /\ draft[t][m] \in listed \cup {NoRow}
       /\ \/ m \in DOMAIN techdb[t]
          \/ /\ holder # NoRow
             /\ \E i \in DOMAIN planned[holder] : planned[holder][i].label = draft[t][m]
  /\ \A r \in Runner : \A i \in DOMAIN planned[r] :
       /\ at[r] = "insert" => RealIn(draft, planned[r][i])
       /\ at[r] = "write" => RealIn(techdb, planned[r][i])

(* A label that is in the TechDB is not to be inserted again: no run has   *)
(* read it as pending, and none will, for its run has yet to write the     *)
(* link or has written it.                                                 *)
Stored(l) == \E t \in Table : \E m \in DOMAIN techdb[t] : techdb[t][m] = l
Safe(l) ==
  /\ \A r \in Runner : \A i \in DOMAIN seen[r] : seen[r][i].label # l
  /\ \/ \E r \in Runner : at[r] = "write" /\ \E i \in DOMAIN planned[r] : planned[r][i].label = l
     \/ \A i \in Row : registry[i] # NoRow /\ registry[i].label = l => registry[i].link # Unlinked
Settled == \A l \in Shop \ excused : Stored(l) => Safe(l)

(* The draft holds a label once.                                           *)
DraftOnce ==
  \A l \in Shop \ excused :
    \A t, u \in Table : \A m \in DOMAIN draft[t], n \in DOMAIN draft[u] :
      draft[t][m] = l /\ draft[u][n] = l => t = u /\ m = n

TInv == /\ Shapes /\ Phases /\ LabelsStay /\ RowsMarked /\ DraftTrue /\ Settled /\ DraftOnce
        /\ LinksAreReal

\* What is known of part of a table, and what stays known.
LEMMA PartialIs ==
  ASSUME NEW V, NEW f \in Partial(V)
  PROVE  /\ DOMAIN f \subseteq Row /\ \A i \in DOMAIN f : f[i] \in V
         /\ f = [i \in DOMAIN f |-> f[i]]
  <1>1. PICK rows \in SUBSET Row : f \in [rows -> V]
    BY DEF Partial
  <1>2. QED
    BY <1>1

\* Part of a table is a function on some of its rows.
LEMMA IsPartial ==
  ASSUME NEW V, NEW rows \in SUBSET Row, NEW f \in [rows -> V]
  PROVE  f \in Partial(V)
  BY DEF Partial

\* A row more.
LEMMA PartialWith ==
  ASSUME NEW V, NEW f \in Partial(V), NEW i \in Row, NEW v \in V
  PROVE  With(f, i, v) \in Partial(V)
  <1>1. {i} \cup DOMAIN f \in SUBSET Row /\ \A j \in DOMAIN f : f[j] \in V
    BY PartialIs
  <1>2. With(f, i, v) \in [{i} \cup DOMAIN f -> V]
    BY <1>1 DEF With
  <1>3. QED
    BY <1>1, <1>2, IsPartial

\* And a row less.
LEMMA PartialWithout ==
  ASSUME NEW V, NEW f \in Partial(V), NEW i
  PROVE  [j \in DOMAIN f \ {i} |-> f[j]] \in Partial(V)
  <1>1. DOMAIN f \ {i} \in SUBSET Row /\ \A j \in DOMAIN f : f[j] \in V
    BY PartialIs
  <1>2. [j \in DOMAIN f \ {i} |-> f[j]] \in [DOMAIN f \ {i} -> V]
    BY <1>1
  <1>3. QED
    BY <1>1, <1>2, IsPartial

\* A table is filled from 1 on, and an insert takes the next ID.
LEMMA NextIsFree ==
  ASSUME TechdbAssumption, Shapes, NEW t \in Table, NextId(t) <= MaxId, NEW l \in Shop
  PROVE  /\ NextId(t) \in 1..MaxId /\ NextId(t) \notin DOMAIN draft[t]
         /\ With(draft[t], NextId(t), l) \in Filled
  <1>1. draft[t] \in Filled
    BY DEF Shapes
  <1>2. PICK n \in 1..MaxId : draft[t] \in [1..n -> Shop \cup {NoRow}]
    BY <1>1 DEF Filled
  <1>3. n \in Nat \ {0} /\ DOMAIN draft[t] = 1..n
    BY <1>2 DEF TechdbAssumption
  <1>4. NextId(t) = n + 1
    BY <1>3, MaxOfRange DEF NextId
  <1>5. n + 1 \in 1..MaxId /\ {n + 1} \cup 1..n = 1..(n + 1)
    BY <1>3, <1>4 DEF TechdbAssumption
  <1>6. With(draft[t], n + 1, l) \in [1..(n + 1) -> Shop \cup {NoRow}]
    <2>1. With(draft[t], n + 1, l) = [y \in {n + 1} \cup 1..n |->
                                        IF y = n + 1 THEN l ELSE draft[t][y]]
      BY <1>3 DEF With
    <2>2. \A y \in 1..(n + 1) : y = n + 1 \/ y \in 1..n
      BY <1>3
    <2>3. QED
      BY <1>2, <1>5, <2>1, <2>2
  <1>7. QED
    BY <1>3, <1>4, <1>5, <1>6 DEF Filled

\* The row that an insert takes is one that it has read.
LEMMA FirstIsSeen ==
  ASSUME TechdbAssumption, Shapes, NEW r \in Runner, DOMAIN seen[r] # {}
  PROVE  LET i == Min(DOMAIN seen[r])
         IN  i \in DOMAIN seen[r] /\ i \in Row /\ seen[r][i] \in Tool
  <1>1. seen[r] \in Partial(Tool)
    BY DEF Shapes
  <1>2. DOMAIN seen[r] \subseteq Row /\ \A i \in DOMAIN seen[r] : seen[r][i] \in Tool
    BY <1>1, PartialIs
  <1>3. Min(DOMAIN seen[r]) \in DOMAIN seen[r]
    BY <1>2, MinIsIn DEF TechdbAssumption
  <1>4. QED
    BY <1>2, <1>3

\* The end of a run keeps the shapes.
LEMMA EndShapes ==
  ASSUME Shapes, NEW r \in Runner, End(r)
  PROVE  /\ draft' \in [Table -> Filled] /\ holder' \in Runner \cup {NoRow}
         /\ at' \in [Runner -> {"idle", "read", "insert", "write"}]
         /\ seen' \in [Runner -> Partial(Tool)] /\ planned' \in [Runner -> Partial(Plan)]
  <1>1. Nothing \in Partial(Tool) /\ Nothing \in Partial(Plan)
    <2>1. \A V : Nothing \in [{} -> V]
      BY DEF Nothing
    <2>2. QED
      BY <2>1, IsPartial
  <1>2. QED
    BY <1>1 DEF End, Shapes

\* What one insert does: a row of a run goes from the rows it has read to those
\* it has planned, and into a table, or is skipped.
Places(r, i, t, n) ==
  /\ n \notin DOMAIN draft[t] /\ With(draft[t], n, seen[r][i].label) \in Filled
  /\ draft' = [draft EXCEPT ![t] = With(draft[t], n, seen[r][i].label)]
  /\ planned' = [planned EXCEPT ![r] =
       With(planned[r], i, [table |-> t, id |-> n, label |-> seen[r][i].label])]
Moves(r, i) ==
  /\ i \in Row /\ seen[r][i] \in Tool
  /\ seen' = [seen EXCEPT ![r] = [j \in DOMAIN seen[r] \ {i} |-> seen[r][j]]]
  /\ \/ UNCHANGED <<draft, planned>>
     \/ \E t \in Table, n \in 1..MaxId : Places(r, i, t, n)

\* What an insert does to the draft and to what the run has in hand.
LEMMA InsertDoes ==
  ASSUME TechdbAssumption, Shapes, NEW r \in Runner, Insert(r)
  PROVE  \E i \in DOMAIN seen[r] : Moves(r, i)
  <1> DEFINE i == Min(DOMAIN seen[r])
             t == Template[seen[r][i].class]
             l == seen[r][i].label
             plan == [table |-> t, id |-> NextId(t), label |-> l]
  <1>1. i \in DOMAIN seen[r] /\ i \in Row /\ seen[r][i] \in Tool
    BY FirstIsSeen DEF Insert
  <1>2. t # NoTable => t \in Table
    BY <1>1 DEF Tool, Table
  <1>3. l \in Shop
    BY <1>1 DEF Tool
  <1>4. /\ seen' = [seen EXCEPT ![r] = [j \in DOMAIN seen[r] \ {i} |-> seen[r][j]]]
        /\ \/ t = NoTable /\ UNCHANGED <<draft, planned>>
           \/ /\ t # NoTable /\ NextId(t) <= MaxId
              /\ draft' = [draft EXCEPT ![t] = With(draft[t], NextId(t), l)]
              /\ planned' = [planned EXCEPT ![r] = With(planned[r], i, plan)]
    BY <1>1, <1>2 DEF Insert, Shapes
  <1>5. CASE t = NoTable
    BY <1>1, <1>4, <1>5 DEF Moves
  <1>6. CASE t # NoTable
    <2>1. /\ NextId(t) \in 1..MaxId /\ NextId(t) \notin DOMAIN draft[t]
          /\ With(draft[t], NextId(t), l) \in Filled
      BY <1>2, <1>3, <1>4, <1>6, NextIsFree
    <2> HIDE DEF i, t, l, plan
    <2>2. plan = [table |-> t, id |-> NextId(t), label |-> l] /\ l = seen[r][i].label
      BY DEF plan, l
    <2>3. QED
      BY <1>1, <1>2, <1>4, <1>6, <2>1, <2>2 DEF Moves, Places
  <1>7. QED
    BY <1>5, <1>6

\* Every step keeps the shapes.
LEMMA NextShapes ==
  ASSUME TechdbAssumption, Shapes, [TechdbNext]_techdbVars
  PROVE  Shapes'
  <1> USE DEF Shapes
  <1>1. ASSUME NEW i \in Row, NEW l \in Shop, NEW c \in Class, ListTool(i, l, c)
        PROVE  Shapes'
    <2>1. [label |-> l, class |-> c, link |-> Unlinked] \in Tool
      BY DEF Tool
    <2>2. QED
      BY <1>1, <2>1 DEF ListTool, runVars
  <1>2. ASSUME NEW i \in Row, RemoveTool(i) PROVE Shapes'
    BY <1>2 DEF RemoveTool, runVars
  <1>3. ASSUME NEW r \in Runner, NEW scope, ReadPending(r, scope) PROVE Shapes'
    <2>1. Pending(scope) \in SUBSET Row /\ \A i \in Pending(scope) : registry[i] \in Tool
      BY DEF Pending
    <2>2. [i \in Pending(scope) |-> registry[i]] \in Partial(Tool)
      BY <2>1, IsPartial
    <2>3. QED
      BY <1>3, <2>2 DEF ReadPending
  <1>4. ASSUME NEW r \in Runner, Begin(r) PROVE Shapes'
    BY <1>4 DEF Begin
  <1>5. ASSUME NEW r \in Runner, Insert(r) PROVE Shapes'
    <2>1. PICK i \in DOMAIN seen[r] : Moves(r, i)
      BY <1>5, InsertDoes
    <2>2. seen' \in [Runner -> Partial(Tool)]
      BY <2>1, PartialWithout DEF Moves
    <2>3. draft' \in [Table -> Filled]
      BY <2>1 DEF Moves, Places
    <2>4. ASSUME NEW t \in Table, NEW n \in 1..MaxId
          PROVE  With(planned[r], i, [table |-> t, id |-> n, label |-> seen[r][i].label])
                   \in Partial(Plan)
      <3>1. [table |-> t, id |-> n, label |-> seen[r][i].label] \in Plan
        BY <2>1 DEF Plan, Tool, Moves
      <3>2. QED
        BY <2>1, <3>1, PartialWith DEF Moves
    <2>5. planned' \in [Runner -> Partial(Plan)]
      <3>1. CASE planned' = planned
        BY <3>1
      <3>2. ASSUME NEW t \in Table, NEW n \in 1..MaxId,
                   planned' = [planned EXCEPT ![r] =
                     With(planned[r], i, [table |-> t, id |-> n, label |-> seen[r][i].label])]
            PROVE  planned' \in [Runner -> Partial(Plan)]
        <4> DEFINE W == With(planned[r], i, [table |-> t, id |-> n, label |-> seen[r][i].label])
        <4>1. W \in Partial(Plan)
          BY <2>4
        <4> HIDE DEF W
        <4>2. planned' = [planned EXCEPT ![r] = W]
          BY <3>2 DEF W
        <4>3. QED
          BY <4>1, <4>2
      <3>3. QED
        BY <2>1, <3>1, <3>2 DEF Moves, Places
    <2>6. QED
      BY <1>5, <2>2, <2>3, <2>5 DEF Insert
  <1>6. ASSUME NEW r \in Runner, Commit(r) PROVE Shapes'
    BY <1>6, EndShapes DEF Commit
  <1>7. ASSUME NEW r \in Runner, WriteBack(r) PROVE Shapes'
    <2>1. ASSUME NEW i \in DOMAIN planned[r]
          PROVE  [registry[i] EXCEPT !.link = [table |-> planned[r][i].table,
                                               id |-> planned[r][i].id]] \in Tool
      <3>1. i \in Row /\ planned[r][i] \in Plan
        BY PartialIs
      <3>2. registry[i] \in Tool
        BY <1>7, <3>1 DEF WriteBack
      <3>3. [table |-> planned[r][i].table, id |-> planned[r][i].id] \in Link
        BY <3>1 DEF Plan, Link
      <3>4. QED
        BY <3>2, <3>3 DEF Tool
    <2>2. registry' \in [Row -> Tool \cup {NoRow}]
      BY <1>7, <2>1 DEF WriteBack
    <2>3. QED
      BY <1>7, <2>2, EndShapes DEF WriteBack
  <1>8. ASSUME NEW r \in Runner, Fail(r) PROVE Shapes'
    BY <1>8, EndShapes DEF Fail
  <1>9. CASE UNCHANGED techdbVars
    BY <1>9 DEF techdbVars, runVars
  <1>10. QED
    BY <1>1, <1>2, <1>3, <1>4, <1>5, <1>6, <1>7, <1>8, <1>9 DEF TechdbNext

\* What a run has in hand: rows of the registry, each with the label it had.
LEMMA HandIs ==
  ASSUME Shapes, NEW r \in Runner
  PROVE  /\ Hand(r) \subseteq Row
         /\ \A i \in DOMAIN seen[r] : seen[r][i] \in Tool /\ LabelOf(r, i) = seen[r][i].label
         /\ \A i \in DOMAIN planned[r] : planned[r][i] \in Plan
         /\ \A i \in Hand(r) : LabelOf(r, i) \in Shop
         /\ Phases => \A i \in DOMAIN planned[r] : LabelOf(r, i) = planned[r][i].label
  <1>1. seen[r] \in Partial(Tool) /\ planned[r] \in Partial(Plan)
    BY DEF Shapes
  <1>2. DOMAIN seen[r] \subseteq Row /\ \A i \in DOMAIN seen[r] : seen[r][i] \in Tool
    BY <1>1, PartialIs
  <1>3. DOMAIN planned[r] \subseteq Row /\ \A i \in DOMAIN planned[r] : planned[r][i] \in Plan
    BY <1>1, PartialIs
  <1>4. \A i \in Hand(r) : LabelOf(r, i) \in Shop
    BY <1>2, <1>3 DEF Hand, LabelOf, Tool, Plan
  <1>5. \A i \in DOMAIN seen[r] : LabelOf(r, i) = seen[r][i].label
    BY DEF LabelOf
  <1>6. Phases => \A i \in DOMAIN planned[r] : LabelOf(r, i) = planned[r][i].label
    BY DEF LabelOf, Phases
  <1>7. QED
    BY <1>2, <1>3, <1>4, <1>5, <1>6 DEF Hand

\* The end of a run keeps the stages.
LEMMA EndPhases ==
  ASSUME Shapes, Phases, NEW r \in Runner, End(r),
         techdb' = techdb \/ (holder # r /\ holder # NoRow)
  PROVE  Phases'
  <1>1. DOMAIN Nothing = {}
    BY DEF Nothing
  <1>2. holder' = NoRow => draft' = techdb'
    BY DEF End, Phases
  <1>3. ASSUME NEW q \in Runner
        PROVE  /\ (holder' = q) = (at'[q] = "insert")
               /\ at'[q] \in {"idle", "read"} => DOMAIN planned'[q] = {}
               /\ at'[q] \in {"idle", "write"} => DOMAIN seen'[q] = {}
               /\ DOMAIN seen'[q] \cap DOMAIN planned'[q] = {}
    <2>1. CASE q = r
      <3>1. at'[q] = "idle" /\ seen'[q] = Nothing /\ planned'[q] = Nothing
        BY <2>1 DEF End, Shapes
      <3>2. holder' # q
        BY <2>1, TechdbAssumption DEF End, Shapes
      <3>3. QED
        BY <1>1, <3>1, <3>2
    <2>2. CASE q # r
      <3>1. at'[q] = at[q] /\ seen'[q] = seen[q] /\ planned'[q] = planned[q]
        BY <2>2 DEF End, Shapes
      <3>2. (holder' = q) = (holder = q)
        BY <2>2, TechdbAssumption DEF End
      <3>3. QED
        BY <3>1, <3>2 DEF Phases
    <2>3. QED
      BY <2>1, <2>2
  <1>4. QED
    BY <1>2, <1>3 DEF Phases

\* What a move leaves and adds.
LEMMA MoveIs ==
  ASSUME Shapes, Phases, NEW r \in Runner, NEW i \in DOMAIN seen[r], Moves(r, i)
  PROVE  /\ \A q \in Runner : q # r => seen'[q] = seen[q] /\ planned'[q] = planned[q]
         /\ DOMAIN seen'[r] = DOMAIN seen[r] \ {i}
         /\ \A j \in DOMAIN seen'[r] : seen'[r][j] = seen[r][j]
         /\ DOMAIN planned[r] \subseteq DOMAIN planned'[r]
         /\ DOMAIN planned'[r] \subseteq {i} \cup DOMAIN planned[r]
         /\ \A j \in DOMAIN planned[r] : planned'[r][j] = planned[r][j]
         /\ i \in DOMAIN planned'[r] => planned'[r][i].label = seen[r][i].label
  <1>1. seen' = [seen EXCEPT ![r] = [j \in DOMAIN seen[r] \ {i} |-> seen[r][j]]]
    BY DEF Moves
  <1>2. seen'[r] = [j \in DOMAIN seen[r] \ {i} |-> seen[r][j]]
        /\ \A q \in Runner : q # r => seen'[q] = seen[q]
    BY <1>1 DEF Shapes
  <1>3. i \notin DOMAIN planned[r]
    BY DEF Phases
  <1>4. CASE planned' = planned
    BY <1>2, <1>3, <1>4
  <1>5. ASSUME NEW t \in Table, NEW n \in 1..MaxId, Places(r, i, t, n)
        PROVE  /\ \A q \in Runner : q # r => planned'[q] = planned[q]
               /\ DOMAIN planned'[r] = {i} \cup DOMAIN planned[r]
               /\ \A j \in DOMAIN planned[r] : planned'[r][j] = planned[r][j]
               /\ planned'[r][i].label = seen[r][i].label
    <2> DEFINE plan == [table |-> t, id |-> n, label |-> seen[r][i].label]
               W == With(planned[r], i, plan)
    <2>1. /\ DOMAIN W = {i} \cup DOMAIN planned[r] /\ W[i] = plan
          /\ \A j \in DOMAIN planned[r] : W[j] = planned[r][j]
      BY <1>3 DEF With
    <2>2. plan.label = seen[r][i].label
      OBVIOUS
    <2> HIDE DEF W
    <2>3. planned' = [planned EXCEPT ![r] = W]
      BY <1>5 DEF Places, W
    <2>4. planned'[r] = W /\ \A q \in Runner : q # r => planned'[q] = planned[q]
      BY <2>3 DEF Shapes
    <2>5. QED
      BY <2>1, <2>2, <2>4
  <1>6. QED
    BY <1>2, <1>4, <1>5 DEF Moves

\* The stages are kept by every step.
LEMMA NextPhases ==
  ASSUME TechdbAssumption, Shapes, Phases, [TechdbNext]_techdbVars
  PROVE  Phases'
  <1> USE DEF Phases
  <1>1. ASSUME NEW i \in Row, NEW l \in Shop, NEW c \in Class, ListTool(i, l, c)
        PROVE  Phases'
    BY <1>1 DEF ListTool, runVars
  <1>2. ASSUME NEW i \in Row, RemoveTool(i) PROVE Phases'
    BY <1>2 DEF RemoveTool, runVars
  <1>3. ASSUME NEW r \in Runner, NEW scope, ReadPending(r, scope) PROVE Phases'
    <2>1. \A q \in Runner : /\ at'[q] = IF q = r THEN "read" ELSE at[q]
                            /\ q # r => seen'[q] = seen[q]
                            /\ planned'[q] = planned[q]
      BY <1>3 DEF ReadPending, Shapes
    <2>2. holder' = holder /\ draft' = draft /\ techdb' = techdb /\ at[r] = "idle"
      BY <1>3 DEF ReadPending
    <2>3. QED
      BY <2>1, <2>2
  <1>4. ASSUME NEW r \in Runner, Begin(r) PROVE Phases'
    <2>1. \A q \in Runner : at'[q] = IF q = r THEN "insert" ELSE at[q]
      BY <1>4 DEF Begin, Shapes
    <2>2. /\ holder = NoRow /\ holder' = r /\ draft' = techdb /\ at[r] = "read"
          /\ techdb' = techdb /\ seen' = seen /\ planned' = planned /\ r # NoRow
      BY <1>4 DEF Begin, TechdbAssumption
    <2>3. \A q \in Runner : at[q] # "insert"
      BY <2>2 DEF TechdbAssumption
    <2>4. QED
      BY <2>1, <2>2, <2>3
  <1>5. ASSUME NEW r \in Runner, Insert(r) PROVE Phases'
    <2>1. PICK i \in DOMAIN seen[r] : Moves(r, i)
      BY <1>5, InsertDoes
    <2>2. /\ at' = at /\ holder' = holder /\ techdb' = techdb /\ at[r] = "insert" /\ holder = r
          /\ holder # NoRow
      BY <1>5 DEF Insert, TechdbAssumption
    <2>3. QED
      BY <2>1, <2>2, MoveIs
  <1>6. ASSUME NEW r \in Runner, Commit(r) PROVE Phases'
    <2>1. CASE DOMAIN planned[r] = {}
      BY <1>6, <2>1, EndPhases DEF Commit
    <2>2. CASE DOMAIN planned[r] # {}
      <3>1. /\ techdb' = draft /\ draft' = draft /\ holder' = NoRow
            /\ seen' = seen /\ planned' = planned /\ DOMAIN seen[r] = {} /\ at[r] = "insert"
            /\ \A q \in Runner : at'[q] = IF q = r THEN "write" ELSE at[q]
        BY <1>6, <2>2 DEF Commit, Shapes
      <3>2. \A q \in Runner : q # NoRow
        BY DEF TechdbAssumption
      <3>3. QED
        BY <3>1, <3>2
    <2>3. QED
      BY <2>1, <2>2
  <1>7. ASSUME NEW r \in Runner, WriteBack(r) PROVE Phases'
    BY <1>7, EndPhases DEF WriteBack
  <1>8. ASSUME NEW r \in Runner, Fail(r) PROVE Phases'
    BY <1>8, EndPhases DEF Fail
  <1>9. CASE UNCHANGED techdbVars
    BY <1>9 DEF techdbVars, runVars
  <1>10. QED
    BY <1>1, <1>2, <1>3, <1>4, <1>5, <1>6, <1>7, <1>8, <1>9 DEF TechdbNext

\* The hands and the registry after a step that reads nothing.
HandsStay ==
  \A q \in Runner :
    /\ \A j \in DOMAIN seen'[q] : j \in DOMAIN seen[q] /\ seen'[q][j] = seen[q][j]
    /\ \A j \in Hand(q)' : j \in Hand(q) /\ LabelOf(q, j)' = LabelOf(q, j)
RegistryStays ==
  \A i \in Row : registry'[i] # NoRow =>
    registry[i] # NoRow /\ registry'[i].label = registry[i].label

\* The hand of a run is what it has seen or planned.
LEMMA HandsOf ==
  ASSUME NEW q \in Runner, seen'[q] = seen[q], planned'[q] = planned[q]
  PROVE  Hand(q)' = Hand(q) /\ \A j : LabelOf(q, j)' = LabelOf(q, j)
  BY DEF Hand, LabelOf

\* Who ends has nothing in hand, and the others have what they had.
LEMMA EndHands ==
  ASSUME Shapes, NEW r \in Runner, End(r)
  PROVE  HandsStay
  <1>1. DOMAIN Nothing = {}
    BY DEF Nothing
  <1>2. seen'[r] = Nothing /\ planned'[r] = Nothing
    BY DEF End, Shapes
  <1>3. Hand(r)' = {}
    BY <1>1, <1>2 DEF Hand
  <1>4. ASSUME NEW q \in Runner, q # r
        PROVE  seen'[q] = seen[q] /\ planned'[q] = planned[q]
    BY <1>4 DEF End, Shapes
  <1>5. QED
    BY <1>1, <1>2, <1>3, <1>4, HandsOf DEF HandsStay

\* A move leaves the labels in hand as they are.
LEMMA MoveHands ==
  ASSUME Shapes, Phases, NEW r \in Runner, NEW i \in DOMAIN seen[r], Moves(r, i)
  PROVE  HandsStay
  <1>1. \A q \in Runner : q # r => seen'[q] = seen[q] /\ planned'[q] = planned[q]
    BY MoveIs
  <1>2. /\ DOMAIN seen'[r] = DOMAIN seen[r] \ {i}
        /\ \A j \in DOMAIN seen'[r] : seen'[r][j] = seen[r][j]
        /\ DOMAIN planned'[r] \subseteq {i} \cup DOMAIN planned[r]
        /\ \A j \in DOMAIN planned[r] : planned'[r][j] = planned[r][j]
        /\ i \in DOMAIN planned'[r] => planned'[r][i].label = seen[r][i].label
    BY MoveIs
  <1>3. Hand(r)' \subseteq Hand(r)
    BY <1>2 DEF Hand
  <1>4. ASSUME NEW j \in Hand(r)' PROVE LabelOf(r, j)' = LabelOf(r, j)
    <2>1. CASE j \in DOMAIN seen'[r]
      BY <1>2, <2>1 DEF LabelOf
    <2>2. CASE j = i
      BY <1>2, <1>4, <2>2 DEF LabelOf, Hand
    <2>3. CASE j \notin DOMAIN seen'[r] /\ j # i
      <3>1. j \in DOMAIN planned[r] /\ j \notin DOMAIN seen[r]
        BY <1>2, <1>4, <2>3 DEF Hand
      <3>2. QED
        BY <1>2, <2>3, <3>1 DEF LabelOf
    <2>4. QED
      BY <2>1, <2>2, <2>3
  <1>5. QED
    BY <1>1, <1>2, <1>3, <1>4, HandsOf DEF HandsStay

\* What each step does to the hands and to the registry.
LEMMA StepsOfHands ==
  ASSUME TechdbAssumption, Shapes, Phases
  PROVE  /\ \A i \in Row, l \in Shop, c \in Class : ListTool(i, l, c) => HandsStay
         /\ \A i \in Row : RemoveTool(i) => HandsStay /\ RegistryStays
         /\ \A r \in Runner : Begin(r) \/ Insert(r) \/ Commit(r) \/ WriteBack(r) \/ Fail(r) =>
              HandsStay /\ RegistryStays
         /\ UNCHANGED techdbVars => HandsStay /\ RegistryStays
  <1>1. seen' = seen /\ planned' = planned => HandsStay
    BY HandsOf DEF HandsStay
  <1>2. registry' = registry => RegistryStays
    BY DEF RegistryStays
  <1>3. ASSUME NEW i \in Row, NEW l \in Shop, NEW c \in Class, ListTool(i, l, c)
        PROVE  HandsStay
    BY <1>1, <1>3 DEF ListTool, runVars
  <1>4. ASSUME NEW i \in Row, RemoveTool(i) PROVE HandsStay /\ RegistryStays
    <2>1. HandsStay
      BY <1>1, <1>4 DEF RemoveTool, runVars
    <2>2. RegistryStays
      BY <1>4 DEF RemoveTool, RegistryStays, Shapes
    <2>3. QED
      BY <2>1, <2>2
  <1>5. ASSUME NEW r \in Runner, Begin(r) PROVE HandsStay /\ RegistryStays
    BY <1>1, <1>2, <1>5 DEF Begin
  <1>6. ASSUME NEW r \in Runner, Insert(r) PROVE HandsStay /\ RegistryStays
    <2>1. PICK i \in DOMAIN seen[r] : Moves(r, i)
      BY <1>6, InsertDoes
    <2>2. QED
      BY <1>2, <1>6, <2>1, MoveHands DEF Insert
  <1>7. ASSUME NEW r \in Runner, Commit(r) PROVE HandsStay /\ RegistryStays
    BY <1>1, <1>2, <1>7, EndHands DEF Commit
  <1>8. ASSUME NEW r \in Runner, WriteBack(r) PROVE HandsStay /\ RegistryStays
    <2>1. HandsStay
      BY <1>8, EndHands DEF WriteBack
    <2>2. ASSUME NEW i \in Row, registry'[i] # NoRow
          PROVE  registry[i] # NoRow /\ registry'[i].label = registry[i].label
      <3>1. CASE i \in DOMAIN planned[r]
        <4>1. registry[i] # NoRow /\ registry[i] \in Tool
          BY <1>8, <3>1 DEF WriteBack, Shapes
        <4>2. registry'[i] = [registry[i] EXCEPT !.link =
                                [table |-> planned[r][i].table, id |-> planned[r][i].id]]
          BY <1>8, <3>1 DEF WriteBack
        <4>3. QED
          BY <4>1, <4>2 DEF Tool
      <3>2. CASE i \notin DOMAIN planned[r]
        BY <1>8, <2>2, <3>2 DEF WriteBack
      <3>3. QED
        BY <3>1, <3>2
    <2>3. QED
      BY <2>1, <2>2 DEF RegistryStays
  <1>9. ASSUME NEW r \in Runner, Fail(r) PROVE HandsStay /\ RegistryStays
    BY <1>2, <1>9, EndHands DEF Fail
  <1>10. UNCHANGED techdbVars => HandsStay /\ RegistryStays
    BY <1>1, <1>2 DEF techdbVars, runVars
  <1>11. QED
    BY <1>3, <1>4, <1>5, <1>6, <1>7, <1>8, <1>9, <1>10

\* What only grows, and what only the owner of the registry changes.
LEMMA HistoryGrows ==
  ASSUME [TechdbNext]_techdbVars
  PROVE  /\ listed \subseteq listed' /\ excused \subseteq excused'
         /\ \/ \E i \in Row, l \in Shop, c \in Class : ListTool(i, l, c)
            \/ listed' = listed /\ replaced' = replaced
  BY DEF TechdbNext, techdbVars, ListTool, RemoveTool, ReadPending, Begin, Insert, Commit,
         WriteBack, Fail, End

\* Labels stay when nothing is read and the registry keeps what it had.
LEMMA LabelsWhenQuiet ==
  ASSUME Shapes, LabelsStay, RowsMarked, HandsStay, RegistryStays,
         listed' = listed, excused \subseteq excused', replaced' = replaced
  PROVE  LabelsStay' /\ RowsMarked'
  <1>1. ASSUME NEW i \in Row, registry'[i] # NoRow
        PROVE  /\ registry'[i].label \in listed'
               /\ \A j \in Row : registry'[j] # NoRow /\ registry'[j].label = registry'[i].label
                    => i = j
    BY <1>1 DEF RegistryStays, LabelsStay
  <1>2. ASSUME NEW r \in Runner, NEW i \in Hand(r)'
        PROVE  /\ LabelOf(r, i)' \in listed'
               /\ \A j \in Row : registry'[j] # NoRow /\ registry'[j].label = LabelOf(r, i)'
                    => i = j
               /\ \A q \in Runner : \A j \in Hand(q)' : LabelOf(q, j)' = LabelOf(r, i)' =>
                    i = j /\ (r # q => LabelOf(r, i)' \in excused')
    <2>1. i \in Hand(r) /\ LabelOf(r, i)' = LabelOf(r, i)
      BY DEF HandsStay
    <2>2. \A q \in Runner : \A j \in Hand(q)' : j \in Hand(q) /\ LabelOf(q, j)' = LabelOf(q, j)
      BY DEF HandsStay
    <2>3. LabelOf(r, i)' \in listed'
      BY <2>1 DEF LabelsStay
    <2>4. \A j \in Row : registry'[j] # NoRow /\ registry'[j].label = LabelOf(r, i)' => i = j
      BY <2>1 DEF LabelsStay, RegistryStays
    <2>5. \A q \in Runner : \A j \in Hand(q)' : LabelOf(q, j)' = LabelOf(r, i)' =>
            i = j /\ (r # q => LabelOf(r, i)' \in excused')
      BY <2>1, <2>2 DEF LabelsStay
    <2>6. QED
      BY <2>3, <2>4, <2>5
  <1>3. ASSUME NEW r \in Runner, NEW i \in Hand(r)',
               registry'[i] # NoRow, registry'[i].label # LabelOf(r, i)'
        PROVE  i \in replaced'
    <2>1. i \in Hand(r) /\ i \in Row
      BY HandIs DEF HandsStay
    <2>2. QED
      BY <1>3, <2>1 DEF HandsStay, RegistryStays, RowsMarked
  <1>4. LabelsStay'
    BY <1>1, <1>2 DEF LabelsStay
  <1>5. QED
    BY <1>3, <1>4 DEF RowsMarked

\* Labels stay when a tool is listed: its label is new.
LEMMA LabelsWhenListed ==
  ASSUME Shapes, LabelsStay, RowsMarked, HandsStay, excused \subseteq excused',
         NEW i \in Row, NEW l \in Shop, NEW c \in Class, ListTool(i, l, c)
  PROVE  LabelsStay' /\ RowsMarked'
  <1>1. /\ registry[i] = NoRow /\ l \notin listed /\ listed' = listed \cup {l}
        /\ registry' = [registry EXCEPT ![i] = [label |-> l, class |-> c, link |-> Unlinked]]
        /\ replaced' = IF InHand(i) THEN replaced \cup {i} ELSE replaced \ {i}
        /\ seen' = seen /\ planned' = planned
    BY DEF ListTool, runVars
  <1>2. registry'[i].label = l /\ \A j \in Row : j # i => registry'[j] = registry[j]
    BY <1>1 DEF Shapes
  <1>3. \A r \in Runner : Hand(r)' = Hand(r) /\ \A j : LabelOf(r, j)' = LabelOf(r, j)
    BY <1>1, HandsOf
  <1>4. \A j \in Row : j # i /\ registry'[j] # NoRow => registry'[j].label \in listed
    BY <1>2 DEF LabelsStay
  <1>5. \A r \in Runner : \A j \in Hand(r) : LabelOf(r, j) \in listed
    BY DEF LabelsStay
  <1>6. ASSUME NEW j \in Row, registry'[j] # NoRow
        PROVE  /\ registry'[j].label \in listed'
               /\ \A k \in Row : registry'[k] # NoRow /\ registry'[k].label = registry'[j].label
                    => j = k
    <2>1. registry'[j].label \in listed'
      BY <1>1, <1>2, <1>4, <1>6
    <2>2. ASSUME NEW k \in Row, registry'[k] # NoRow, registry'[k].label = registry'[j].label
          PROVE  j = k
      <3>1. CASE j = i \/ k = i
        BY <1>1, <1>2, <1>4, <1>6, <2>2, <3>1
      <3>2. CASE j # i /\ k # i
        BY <1>2, <1>6, <2>2, <3>2 DEF LabelsStay
      <3>3. QED
        BY <3>1, <3>2
    <2>3. QED
      BY <2>1, <2>2
  <1>7. ASSUME NEW r \in Runner, NEW k \in Hand(r)
        PROVE  /\ LabelOf(r, k) \in listed'
               /\ \A j \in Row : registry'[j] # NoRow /\ registry'[j].label = LabelOf(r, k)
                    => k = j
               /\ \A q \in Runner : \A j \in Hand(q) : LabelOf(q, j) = LabelOf(r, k) =>
                    k = j /\ (r # q => LabelOf(r, k) \in excused')
    <2>1. LabelOf(r, k) \in listed'
      BY <1>1, <1>5
    <2>2. \A j \in Row : registry'[j] # NoRow /\ registry'[j].label = LabelOf(r, k) => k = j
      BY <1>1, <1>2, <1>5 DEF LabelsStay
    <2>3. QED
      BY <2>1, <2>2 DEF LabelsStay
  <1>8. LabelsStay'
    <2>1. \A j \in Row : registry'[j] # NoRow =>
            /\ registry'[j].label \in listed'
            /\ \A k \in Row : registry'[k] # NoRow /\ registry'[k].label = registry'[j].label
                 => j = k
      BY <1>6
    <2>2. \A r \in Runner : \A k \in Hand(r)' :
            /\ LabelOf(r, k)' \in listed'
            /\ \A j \in Row : registry'[j] # NoRow /\ registry'[j].label = LabelOf(r, k)'
                 => k = j
            /\ \A q \in Runner : \A j \in Hand(q)' : LabelOf(q, j)' = LabelOf(r, k)' =>
                 k = j /\ (r # q => LabelOf(r, k)' \in excused')
      BY <1>3, <1>7
    <2>3. QED
      BY <2>1, <2>2 DEF LabelsStay
  <1>9. ASSUME NEW r \in Runner, NEW k \in Hand(r),
               registry'[k] # NoRow, registry'[k].label # LabelOf(r, k)
        PROVE  k \in replaced'
    <2>1. k \in Row
      BY HandIs
    <2>2. CASE k = i
      BY <1>1, <2>1, <2>2 DEF InHand, Hand
    <2>3. CASE k # i
      BY <1>1, <1>2, <1>9, <2>1, <2>3 DEF RowsMarked
    <2>4. QED
      BY <2>2, <2>3
  <1>10. RowsMarked'
    <2>1. \A r \in Runner : \A k \in Hand(r)' :
            registry'[k] # NoRow /\ registry'[k].label # LabelOf(r, k)' => k \in replaced'
      BY <1>3, <1>9
    <2>2. QED
      BY <2>1 DEF RowsMarked
  <1>11. QED
    BY <1>8, <1>10

\* Who reads has rows of the registry in hand, under their own labels.
LEMMA ReadHands ==
  ASSUME Shapes, Phases, NEW r \in Runner, NEW scope, ReadPending(r, scope)
  PROVE  /\ Hand(r) = {}
         /\ seen'[r] = [i \in Pending(scope) |-> registry[i]] /\ planned'[r] = planned[r]
         /\ Hand(r)' = Pending(scope)
         /\ \A i \in Pending(scope) : LabelOf(r, i)' = registry[i].label
         /\ \A q \in Runner : q # r =>
              seen'[q] = seen[q] /\ Hand(q)' = Hand(q) /\ \A i : LabelOf(q, i)' = LabelOf(q, i)
  <1>1. at[r] = "idle" /\ planned' = planned
        /\ seen' = [seen EXCEPT ![r] = [i \in Pending(scope) |-> registry[i]]]
    BY DEF ReadPending
  <1>2. DOMAIN seen[r] = {} /\ DOMAIN planned[r] = {}
    BY <1>1 DEF Phases
  <1>3. seen'[r] = [i \in Pending(scope) |-> registry[i]]
        /\ \A q \in Runner : q # r => seen'[q] = seen[q]
    BY <1>1 DEF Shapes
  <1>4. \A q \in Runner : q # r =>
          Hand(q)' = Hand(q) /\ \A i : LabelOf(q, i)' = LabelOf(q, i)
    BY <1>1, <1>3, HandsOf
  <1>5. Hand(r)' = Pending(scope) /\ \A i \in Pending(scope) : LabelOf(r, i)' = registry[i].label
    BY <1>1, <1>2, <1>3 DEF Hand, LabelOf
  <1>6. QED
    BY <1>1, <1>2, <1>3, <1>4, <1>5 DEF Hand

\* Labels stay when a run reads: a row that another has in hand is excused.
LEMMA LabelsWhenRead ==
  ASSUME Shapes, Phases, LabelsStay, RowsMarked,
         NEW r \in Runner, NEW scope, ReadPending(r, scope)
  PROVE  LabelsStay' /\ RowsMarked'
  <1> DEFINE P == Pending(scope)
  <1>1. /\ registry' = registry /\ listed' = listed /\ replaced' = replaced
        /\ excused' = excused \cup {registry[i].label : i \in {j \in P : InHand(j)}}
    BY DEF ReadPending
  <1>2. \A i \in P : i \in Row /\ registry[i] # NoRow
    BY DEF Pending
  <1> HIDE DEF P
  <1>3. Hand(r)' = P /\ \A i \in P : LabelOf(r, i)' = registry[i].label
    BY ReadHands DEF P
  <1>4. \A q \in Runner : q # r => Hand(q)' = Hand(q) /\ \A i : LabelOf(q, i)' = LabelOf(q, i)
    BY ReadHands
  <1>5. ASSUME NEW q \in Runner, q # r, NEW j \in Hand(q), NEW i \in P,
               LabelOf(q, j) = registry[i].label
        PROVE  i = j /\ registry[i].label \in excused'
    <2>1. i = j
      BY <1>2, <1>5 DEF LabelsStay
    <2>2. InHand(i)
      BY <1>5, <2>1 DEF InHand, Hand
    <2>3. QED
      BY <1>1, <2>1, <2>2
  <1>6. ASSUME NEW q \in Runner, NEW i \in Hand(q)'
        PROVE  /\ LabelOf(q, i)' \in listed'
               /\ \A j \in Row : registry'[j] # NoRow /\ registry'[j].label = LabelOf(q, i)'
                    => i = j
               /\ \A p \in Runner : \A j \in Hand(p)' : LabelOf(p, j)' = LabelOf(q, i)' =>
                    i = j /\ (q # p => LabelOf(q, i)' \in excused')
    <2>1. CASE q = r
      <3>1. i \in P /\ LabelOf(q, i)' = registry[i].label
        BY <1>3, <1>6, <2>1
      <3>2. /\ LabelOf(q, i)' \in listed'
            /\ \A j \in Row : registry'[j] # NoRow /\ registry'[j].label = LabelOf(q, i)' => i = j
        BY <1>1, <1>2, <3>1 DEF LabelsStay
      <3>3. ASSUME NEW p \in Runner, NEW j \in Hand(p)', LabelOf(p, j)' = LabelOf(q, i)'
            PROVE  i = j /\ (q # p => LabelOf(q, i)' \in excused')
        <4>1. CASE p = r
          <5>1. j \in P /\ LabelOf(p, j)' = registry[j].label
            BY <1>3, <3>3, <4>1
          <5>2. QED
            BY <1>2, <2>1, <3>1, <3>3, <4>1, <5>1 DEF LabelsStay
        <4>2. CASE p # r
          BY <1>4, <1>5, <3>1, <3>3, <4>2
        <4>3. QED
          BY <4>1, <4>2
      <3>4. QED
        BY <3>2, <3>3
    <2>2. CASE q # r
      <3>1. i \in Hand(q) /\ LabelOf(q, i)' = LabelOf(q, i)
        BY <1>4, <1>6, <2>2
      <3>2. /\ LabelOf(q, i)' \in listed'
            /\ \A j \in Row : registry'[j] # NoRow /\ registry'[j].label = LabelOf(q, i)' => i = j
        BY <1>1, <3>1 DEF LabelsStay
      <3>3. ASSUME NEW p \in Runner, NEW j \in Hand(p)', LabelOf(p, j)' = LabelOf(q, i)'
            PROVE  i = j /\ (q # p => LabelOf(q, i)' \in excused')
        <4>1. CASE p = r
          <5>1. j \in P /\ LabelOf(p, j)' = registry[j].label
            BY <1>3, <3>3, <4>1
          <5>2. LabelOf(q, i) = registry[j].label
            BY <3>1, <3>3, <5>1
          <5>3. j = i /\ registry[j].label \in excused'
            BY <1>5, <2>2, <3>1, <5>1, <5>2
          <5>4. QED
            BY <3>1, <5>2, <5>3
        <4>2. CASE p # r
          BY <1>1, <1>4, <3>1, <3>3, <4>2 DEF LabelsStay
        <4>3. QED
          BY <4>1, <4>2
      <3>4. QED
        BY <3>2, <3>3
    <2>3. QED
      BY <2>1, <2>2
  <1>7. \A i \in Row : registry'[i] # NoRow =>
          /\ registry'[i].label \in listed'
          /\ \A j \in Row : registry'[j] # NoRow /\ registry'[j].label = registry'[i].label => i = j
    BY <1>1 DEF LabelsStay
  <1>8. LabelsStay'
    BY <1>6, <1>7 DEF LabelsStay
  <1>9. ASSUME NEW q \in Runner, NEW i \in Hand(q)',
               registry'[i] # NoRow, registry'[i].label # LabelOf(q, i)'
        PROVE  i \in replaced'
    BY <1>1, <1>3, <1>4, <1>9 DEF RowsMarked
  <1>10. RowsMarked'
    BY <1>9 DEF RowsMarked
  <1>11. QED
    BY <1>8, <1>10

\* Every step keeps the labels, and marks the rows that it gives to another tool.
LEMMA NextLabels ==
  ASSUME TechdbAssumption, Shapes, Phases, LabelsStay, RowsMarked, [TechdbNext]_techdbVars
  PROVE  LabelsStay' /\ RowsMarked'
  <1>1. listed \subseteq listed' /\ excused \subseteq excused'
    BY HistoryGrows
  <1>2. ASSUME NEW i \in Row, NEW l \in Shop, NEW c \in Class, ListTool(i, l, c)
        PROVE  LabelsStay' /\ RowsMarked'
    BY <1>1, <1>2, StepsOfHands, LabelsWhenListed
  <1>3. ASSUME NEW r \in Runner, NEW scope, ReadPending(r, scope)
        PROVE  LabelsStay' /\ RowsMarked'
    BY <1>3, LabelsWhenRead
  <1>4. ASSUME HandsStay, RegistryStays, listed' = listed, replaced' = replaced
        PROVE  LabelsStay' /\ RowsMarked'
    BY <1>1, <1>4, LabelsWhenQuiet
  <1>5. ASSUME NEW i \in Row, RemoveTool(i) PROVE LabelsStay' /\ RowsMarked'
    BY <1>4, <1>5, StepsOfHands DEF RemoveTool
  <1>6. ASSUME NEW r \in Runner,
               Begin(r) \/ Insert(r) \/ Commit(r) \/ WriteBack(r) \/ Fail(r)
        PROVE  LabelsStay' /\ RowsMarked'
    <2>1. listed' = listed /\ replaced' = replaced
      BY <1>6 DEF Begin, Insert, Commit, WriteBack, Fail
    <2>2. QED
      BY <1>4, <1>6, <2>1, StepsOfHands
  <1>7. CASE UNCHANGED techdbVars
    BY <1>4, <1>7, StepsOfHands DEF techdbVars
  <1>8. QED
    BY <1>2, <1>3, <1>5, <1>6, <1>7 DEF TechdbNext

\* What a clone adds to a table.
LEMMA PlacesIs ==
  ASSUME Shapes, NEW r \in Runner, NEW i, NEW t \in Table, NEW n \in 1..MaxId,
         Places(r, i, t, n)
  PROVE  /\ \A u \in Table : \A m \in DOMAIN draft[u] :
              m \in DOMAIN draft'[u] /\ draft'[u][m] = draft[u][m]
         /\ \A u \in Table : \A m \in DOMAIN draft'[u] : m \in DOMAIN draft[u] \/ (u = t /\ m = n)
         /\ n \in DOMAIN draft'[t] /\ draft'[t][n] = seen[r][i].label
         /\ n \notin DOMAIN draft[t]
         /\ i \in DOMAIN planned'[r]
         /\ planned'[r][i] = [table |-> t, id |-> n, label |-> seen[r][i].label]
  <1> DEFINE l == seen[r][i].label
             W == With(draft[t], n, l)
             plan == [table |-> t, id |-> n, label |-> l]
             X == With(planned[r], i, plan)
  <1>1. n \notin DOMAIN draft[t]
    BY DEF Places
  <1>2. /\ DOMAIN W = {n} \cup DOMAIN draft[t] /\ W[n] = l
        /\ \A m \in DOMAIN draft[t] : W[m] = draft[t][m]
    BY <1>1 DEF With
  <1>3. i \in DOMAIN X /\ X[i] = plan
    BY DEF With
  <1> HIDE DEF l, W, plan, X
  <1>4. draft' = [draft EXCEPT ![t] = W]
    BY DEF Places, W, l
  <1>5. planned' = [planned EXCEPT ![r] = X]
    BY DEF Places, X, plan, l
  <1>6. draft'[t] = W /\ \A u \in Table : u # t => draft'[u] = draft[u]
    BY <1>4 DEF Shapes
  <1>7. planned'[r] = X
    BY <1>5 DEF Shapes
  <1>8. \A u \in Table : \A m \in DOMAIN draft[u] :
          m \in DOMAIN draft'[u] /\ draft'[u][m] = draft[u][m]
    BY <1>2, <1>6
  <1>9. \A u \in Table : \A m \in DOMAIN draft'[u] : m \in DOMAIN draft[u] \/ (u = t /\ m = n)
    BY <1>2, <1>6
  <1>10. n \in DOMAIN draft'[t] /\ draft'[t][n] = seen[r][i].label
    BY <1>2, <1>6 DEF l
  <1>11. i \in DOMAIN planned'[r]
         /\ planned'[r][i] = [table |-> t, id |-> n, label |-> seen[r][i].label]
    BY <1>3, <1>7 DEF plan, l
  <1>12. QED
    BY <1>1, <1>8, <1>9, <1>10, <1>11

\* A step that neither clones nor commits: the draft stays or falls back to
\* what is committed.
DraftRests ==
  /\ techdb' = techdb
  /\ \/ draft' = techdb
     \/ /\ draft' = draft /\ holder' = holder
        /\ holder # NoRow => planned'[holder] = planned[holder]
  /\ \A r \in Runner : \A i \in DOMAIN planned'[r] :
       /\ i \in DOMAIN planned[r] /\ planned'[r][i] = planned[r][i]
       /\ at'[r] = at[r] \/ at'[r] \notin {"insert", "write"}
       /\ at'[r] = "insert" => draft' = draft

\* A step that commits: the TechDB becomes the draft of the run.
Stores(r) ==
  /\ at[r] = "insert" /\ DOMAIN seen[r] = {} /\ holder = r
  /\ techdb' = draft /\ draft' = draft /\ holder' = NoRow
  /\ seen' = seen /\ planned' = planned
  /\ at' = [at EXCEPT ![r] = "write"]
  /\ UNCHANGED <<registry, listed, excused, replaced>>

\* A run that ends is at rest.
LEMMA EndRests ==
  ASSUME TechdbAssumption, Shapes, Phases, NEW r \in Runner, End(r), techdb' = techdb
  PROVE  DraftRests
  <1>1. DOMAIN Nothing = {}
    BY DEF Nothing
  <1>2. /\ at'[r] = "idle" /\ planned'[r] = Nothing
        /\ \A q \in Runner : q # r => at'[q] = at[q] /\ planned'[q] = planned[q]
    BY DEF End, Shapes
  <1>3. CASE holder = r
    <2>1. draft' = techdb
      BY <1>3 DEF End
    <2>2. \A q \in Runner : q # r => at[q] # "insert"
      BY <1>3 DEF Phases
    <2>3. QED
      BY <1>1, <1>2, <2>1, <2>2 DEF DraftRests
  <1>4. CASE holder # r
    <2>1. draft' = draft /\ holder' = holder
      BY <1>4 DEF End
    <2>2. holder # NoRow => planned'[holder] = planned[holder]
      BY <1>2, <1>4 DEF Shapes
    <2>3. QED
      BY <1>1, <1>2, <2>1, <2>2 DEF DraftRests
  <1>5. QED
    BY <1>3, <1>4

\* Every step is one of the three.
LEMMA StepsOfDraft ==
  ASSUME TechdbAssumption, Shapes, Phases, [TechdbNext]_techdbVars
  PROVE  \/ DraftRests
         \/ \E r \in Runner : \E i \in DOMAIN seen[r], t \in Table, n \in 1..MaxId :
              Insert(r) /\ Moves(r, i) /\ Places(r, i, t, n)
         \/ \E r \in Runner : Stores(r)
  <1> DEFINE Clones == \E r \in Runner : \E i \in DOMAIN seen[r], t \in Table, n \in 1..MaxId :
               Insert(r) /\ Moves(r, i) /\ Places(r, i, t, n)
  <1>1. ASSUME techdb' = techdb, draft' = draft, holder' = holder, at' = at, planned' = planned
        PROVE  DraftRests
    BY <1>1 DEF DraftRests
  <1>2. ASSUME NEW i \in Row, NEW l \in Shop, NEW c \in Class, ListTool(i, l, c)
        PROVE  DraftRests
    BY <1>1, <1>2 DEF ListTool, runVars
  <1>3. ASSUME NEW i \in Row, RemoveTool(i) PROVE DraftRests
    BY <1>1, <1>3 DEF RemoveTool, runVars
  <1>4. ASSUME NEW r \in Runner, NEW scope, ReadPending(r, scope) PROVE DraftRests
    <2>1. /\ techdb' = techdb /\ draft' = draft /\ holder' = holder /\ planned' = planned
          /\ \A q \in Runner : at'[q] = IF q = r THEN "read" ELSE at[q]
      BY <1>4 DEF ReadPending, Shapes
    <2>2. QED
      BY <2>1 DEF DraftRests
  <1>5. ASSUME NEW r \in Runner, Begin(r) PROVE DraftRests
    <2>1. /\ techdb' = techdb /\ draft' = techdb /\ planned' = planned /\ at[r] = "read"
          /\ holder = NoRow
          /\ \A q \in Runner : at'[q] = IF q = r THEN "insert" ELSE at[q]
      BY <1>5 DEF Begin, Shapes
    <2>2. DOMAIN planned[r] = {} /\ draft = techdb
      BY <2>1 DEF Phases
    <2>3. QED
      BY <2>1, <2>2 DEF DraftRests
  <1>6. ASSUME NEW r \in Runner, Insert(r) PROVE DraftRests \/ Clones
    <2>1. PICK i \in DOMAIN seen[r] : Moves(r, i)
      BY <1>6, InsertDoes
    <2>2. CASE UNCHANGED <<draft, planned>>
      BY <1>1, <1>6, <2>2 DEF Insert
    <2>3. CASE \E t \in Table, n \in 1..MaxId : Places(r, i, t, n)
      BY <1>6, <2>1, <2>3
    <2>4. QED
      BY <2>1, <2>2, <2>3 DEF Moves
  <1>7. ASSUME NEW r \in Runner, Commit(r) PROVE DraftRests \/ Stores(r)
    <2>1. CASE DOMAIN planned[r] = {}
      BY <1>7, <2>1, EndRests DEF Commit
    <2>2. CASE DOMAIN planned[r] # {}
      <3>1. holder = r
        BY <1>7 DEF Commit, Phases
      <3>2. QED
        BY <1>7, <2>2, <3>1 DEF Commit, Stores
    <2>3. QED
      BY <2>1, <2>2
  <1>8. ASSUME NEW r \in Runner, WriteBack(r) PROVE DraftRests
    BY <1>8, EndRests DEF WriteBack
  <1>9. ASSUME NEW r \in Runner, Fail(r) PROVE DraftRests
    BY <1>9, EndRests DEF Fail
  <1>10. CASE UNCHANGED techdbVars
    BY <1>1, <1>10 DEF techdbVars, runVars
  <1>11. QED
    BY <1>2, <1>3, <1>4, <1>5, <1>6, <1>7, <1>8, <1>9, <1>10 DEF TechdbNext

\* A draft that rests or is committed is true, and holds a label once.
LEMMA TrueWhenResting ==
  ASSUME Shapes, DraftTrue, DraftRests, listed \subseteq listed'
  PROVE  DraftTrue'
  <1>1. techdb' = techdb /\ (draft' = techdb \/ draft' = draft)
    BY DEF DraftRests
  <1>2. \A t \in Table : \A m \in DOMAIN techdb'[t] :
          m \in DOMAIN draft'[t] /\ draft'[t][m] = techdb'[t][m]
    BY <1>1 DEF DraftTrue
  <1>3. ASSUME NEW t \in Table, NEW m \in DOMAIN draft'[t]
        PROVE  /\ draft'[t][m] \in listed' \cup {NoRow}
               /\ \/ m \in DOMAIN techdb'[t]
                  \/ /\ holder' # NoRow
                     /\ \E i \in DOMAIN planned'[holder'] :
                          planned'[holder'][i].label = draft'[t][m]
    <2>1. CASE draft' = techdb
      <3>1. m \in DOMAIN techdb'[t] /\ draft'[t][m] = draft[t][m] /\ m \in DOMAIN draft[t]
        BY <1>1, <2>1 DEF DraftTrue
      <3>2. draft[t][m] \in listed \cup {NoRow}
        BY <3>1 DEF DraftTrue
      <3>3. QED
        BY <3>1, <3>2
    <2>2. CASE draft' = draft /\ holder' = holder
               /\ (holder # NoRow => planned'[holder] = planned[holder])
      <3>1. m \in DOMAIN draft[t] /\ draft'[t][m] = draft[t][m]
        BY <2>2
      <3>2. draft[t][m] \in listed \cup {NoRow}
        BY <3>1 DEF DraftTrue
      <3>3. \/ m \in DOMAIN techdb[t]
            \/ /\ holder # NoRow
               /\ \E i \in DOMAIN planned[holder] : planned[holder][i].label = draft[t][m]
        BY <3>1 DEF DraftTrue
      <3>4. QED
        BY <1>1, <2>2, <3>1, <3>2, <3>3
    <2>3. QED
      BY <2>1, <2>2 DEF DraftRests
  <1>4. ASSUME NEW r \in Runner, NEW i \in DOMAIN planned'[r]
        PROVE  /\ at'[r] = "insert" => RealIn(draft, planned[r][i])'
               /\ at'[r] = "write" => RealIn(techdb, planned[r][i])'
    <2>1. /\ i \in DOMAIN planned[r] /\ planned'[r][i] = planned[r][i]
          /\ at'[r] = at[r] \/ at'[r] \notin {"insert", "write"}
          /\ at'[r] = "insert" => draft' = draft
      BY DEF DraftRests
    <2>2. /\ at[r] = "insert" => RealIn(draft, planned[r][i])
          /\ at[r] = "write" => RealIn(techdb, planned[r][i])
      BY <2>1 DEF DraftTrue
    <2>3. QED
      BY <1>1, <2>1, <2>2 DEF RealIn
  <1>5. QED
    BY <1>2, <1>3, <1>4 DEF DraftTrue

\* The commit puts the draft where everybody sees it.
LEMMA TrueWhenStored ==
  ASSUME Shapes, Phases, DraftTrue, NEW r \in Runner, Stores(r)
  PROVE  DraftTrue'
  <1>1. /\ techdb' = draft /\ draft' = draft /\ planned' = planned /\ listed' = listed
        /\ at[r] = "insert" /\ holder = r
        /\ \A q \in Runner : at'[q] = IF q = r THEN "write" ELSE at[q]
    BY DEF Stores, Shapes
  <1>2. \A t \in Table : \A m \in DOMAIN draft'[t] : draft'[t][m] \in listed' \cup {NoRow}
    BY <1>1 DEF DraftTrue
  <1>3. ASSUME NEW q \in Runner, NEW i \in DOMAIN planned'[q]
        PROVE  /\ at'[q] = "insert" => RealIn(draft, planned[q][i])'
               /\ at'[q] = "write" => RealIn(techdb, planned[q][i])'
    <2>1. planned[q][i] \in Plan /\ planned[q][i].table \in Table
      BY <1>1, HandIs DEF Plan
    <2>2. /\ at[q] = "insert" => RealIn(draft, planned[q][i])
          /\ at[q] = "write" => RealIn(techdb, planned[q][i])
      BY <1>1 DEF DraftTrue
    <2>3. RealIn(techdb, planned[q][i]) => RealIn(draft, planned[q][i])
      BY <2>1 DEF RealIn, DraftTrue
    <2>4. QED
      BY <1>1, <2>2, <2>3 DEF RealIn
  <1>4. QED
    BY <1>1, <1>2, <1>3 DEF DraftTrue

\* A clone keeps the draft true.
LEMMA TrueWhenCloned ==
  ASSUME TechdbAssumption, Shapes, Phases, LabelsStay, DraftTrue, NEW r \in Runner, NEW i \in DOMAIN seen[r],
         NEW t \in Table, NEW n \in 1..MaxId, Insert(r), Moves(r, i), Places(r, i, t, n)
  PROVE  DraftTrue'
  <1>1. /\ techdb' = techdb /\ holder' = holder /\ at' = at /\ listed' = listed
        /\ at[r] = "insert" /\ holder = r /\ holder # NoRow
    BY DEF Insert, Phases, TechdbAssumption
  <1>2. /\ \A u \in Table : \A m \in DOMAIN draft[u] :
             m \in DOMAIN draft'[u] /\ draft'[u][m] = draft[u][m]
        /\ \A u \in Table : \A m \in DOMAIN draft'[u] : m \in DOMAIN draft[u] \/ (u = t /\ m = n)
        /\ n \in DOMAIN draft'[t] /\ draft'[t][n] = seen[r][i].label
        /\ i \in DOMAIN planned'[r]
        /\ planned'[r][i] = [table |-> t, id |-> n, label |-> seen[r][i].label]
    BY PlacesIs
  <1>3. /\ \A q \in Runner : q # r => planned'[q] = planned[q]
        /\ DOMAIN planned[r] \subseteq DOMAIN planned'[r]
        /\ DOMAIN planned'[r] \subseteq {i} \cup DOMAIN planned[r]
        /\ \A j \in DOMAIN planned[r] : planned'[r][j] = planned[r][j]
    BY MoveIs
  <1>4. seen[r][i].label \in listed
    <2>1. i \in Hand(r) /\ LabelOf(r, i) = seen[r][i].label
      BY DEF Hand, LabelOf
    <2>2. QED
      BY <2>1 DEF LabelsStay
  <1>5. \A u \in Table : \A m \in DOMAIN techdb'[u] :
          m \in DOMAIN draft'[u] /\ draft'[u][m] = techdb'[u][m]
    BY <1>1, <1>2 DEF DraftTrue
  <1>6. ASSUME NEW u \in Table, NEW m \in DOMAIN draft'[u]
        PROVE  /\ draft'[u][m] \in listed' \cup {NoRow}
               /\ \/ m \in DOMAIN techdb'[u]
                  \/ /\ holder' # NoRow
                     /\ \E j \in DOMAIN planned'[holder'] :
                          planned'[holder'][j].label = draft'[u][m]
    <2>1. CASE u = t /\ m = n
      BY <1>1, <1>2, <1>4, <2>1
    <2>2. CASE m \in DOMAIN draft[u]
      <3>1. draft'[u][m] = draft[u][m] /\ draft[u][m] \in listed \cup {NoRow}
        BY <1>2, <2>2 DEF DraftTrue
      <3>2. m \in DOMAIN techdb[u]
            \/ \E j \in DOMAIN planned[r] : planned[r][j].label = draft[u][m]
        BY <1>1, <2>2 DEF DraftTrue
      <3>3. QED
        BY <1>1, <1>3, <3>1, <3>2
    <2>3. QED
      BY <1>2, <2>1, <2>2
  <1>7. ASSUME NEW q \in Runner, NEW j \in DOMAIN planned'[q]
        PROVE  /\ at'[q] = "insert" => RealIn(draft, planned[q][j])'
               /\ at'[q] = "write" => RealIn(techdb, planned[q][j])'
    <2>1. CASE q # r
      <3>1. at[q] # "insert"
        BY <1>1, <2>1 DEF Phases
      <3>2. at[q] = "write" => RealIn(techdb, planned[q][j])
        BY <1>3, <2>1 DEF DraftTrue
      <3>3. QED
        BY <1>1, <1>3, <2>1, <3>1, <3>2 DEF RealIn
    <2>2. CASE q = r /\ j = i
      <3>1. RealIn(draft, planned[q][j])'
        BY <1>2, <2>2 DEF RealIn
      <3>2. QED
        BY <1>1, <2>2, <3>1
    <2>3. CASE q = r /\ j # i
      <3>1. j \in DOMAIN planned[r] /\ planned'[r][j] = planned[r][j]
        BY <1>3, <2>3
      <3>2. RealIn(draft, planned[r][j]) /\ planned[r][j].table \in Table
        BY <1>1, <3>1, HandIs DEF DraftTrue, Plan
      <3>3. RealIn(draft, planned[q][j])'
        BY <1>2, <2>3, <3>1, <3>2 DEF RealIn
      <3>4. QED
        BY <1>1, <2>3, <3>3
    <2>4. QED
      BY <2>1, <2>2, <2>3
  <1>8. QED
    BY <1>5, <1>6, <1>7 DEF DraftTrue

\* A clone brings a label that is in no table: what is in the TechDB is settled,
\* and what the run itself has planned has another rowid.
LEMMA OnceWhenCloned ==
  ASSUME TechdbAssumption, Shapes, Phases, LabelsStay, DraftTrue, Settled, DraftOnce,
         excused \subseteq excused', NEW r \in Runner, NEW i \in DOMAIN seen[r],
         NEW t \in Table, NEW n \in 1..MaxId, Insert(r), Moves(r, i), Places(r, i, t, n)
  PROVE  DraftOnce'
  <1> DEFINE l == seen[r][i].label
  <1>1. holder = r
    BY DEF Insert, Phases
  <1>2. /\ \A u \in Table : \A m \in DOMAIN draft[u] :
             m \in DOMAIN draft'[u] /\ draft'[u][m] = draft[u][m]
        /\ \A u \in Table : \A m \in DOMAIN draft'[u] : m \in DOMAIN draft[u] \/ (u = t /\ m = n)
        /\ n \in DOMAIN draft'[t] /\ draft'[t][n] = seen[r][i].label
        /\ i \in DOMAIN planned'[r]
        /\ planned'[r][i] = [table |-> t, id |-> n, label |-> seen[r][i].label]
    BY PlacesIs
  <1>3. i \in Hand(r) /\ LabelOf(r, i) = l /\ l \in Shop
    BY HandIs DEF Hand, Tool
  <1>4. ASSUME l \notin excused, NEW u \in Table, NEW m \in DOMAIN draft[u], draft[u][m] = l
        PROVE  FALSE
    <2>1. CASE m \in DOMAIN techdb[u]
      <3>1. Stored(l)
        BY <1>4, <2>1 DEF Stored, DraftTrue
      <3>2. QED
        BY <1>3, <1>4, <3>1 DEF Settled, Safe
    <2>2. CASE \E j \in DOMAIN planned[r] : planned[r][j].label = l
      <3>1. PICK j \in DOMAIN planned[r] : planned[r][j].label = l
        BY <2>2
      <3>2. j \in Hand(r) /\ LabelOf(r, j) = l
        BY <3>1, HandIs DEF Hand
      <3>3. i = j
        BY <1>3, <3>2 DEF LabelsStay
      <3>4. QED
        BY <3>1, <3>3 DEF Phases
    <2>3. QED
      BY <1>1, <1>4, <2>1, <2>2 DEF DraftTrue
  <1>5. draft'[t][n] = l
    BY <1>2
  <1> HIDE DEF l
  <1>6. ASSUME NEW k \in Shop, k \notin excused', NEW u \in Table, NEW v \in Table,
               NEW m \in DOMAIN draft'[u], NEW o \in DOMAIN draft'[v],
               draft'[u][m] = k, draft'[v][o] = k
        PROVE  u = v /\ m = o
    <2>1. k \notin excused
      BY <1>6
    <2>2. CASE m \in DOMAIN draft[u] /\ o \in DOMAIN draft[v]
      BY <1>2, <1>6, <2>1, <2>2 DEF DraftOnce
    <2>3. CASE u = t /\ m = n /\ o \in DOMAIN draft[v]
      BY <1>2, <1>4, <1>6, <1>5, <2>1, <2>3
    <2>4. CASE v = t /\ o = n /\ m \in DOMAIN draft[u]
      BY <1>2, <1>4, <1>6, <1>5, <2>1, <2>4
    <2>5. QED
      BY <1>2, <1>6, <2>2, <2>3, <2>4
  <1>7. QED
    BY <1>6 DEF DraftOnce

\* The draft holds a label once.
LEMMA NextOnce ==
  ASSUME TechdbAssumption, Shapes, Phases, LabelsStay, DraftTrue, Settled, DraftOnce,
         [TechdbNext]_techdbVars
  PROVE  DraftOnce'
  <1>1. excused \subseteq excused'
    BY HistoryGrows
  <1>2. CASE draft' = draft
    BY <1>1, <1>2 DEF DraftOnce
  <1>3. CASE draft' = techdb
    <2>1. \A t \in Table : \A m \in DOMAIN draft'[t] :
            m \in DOMAIN draft[t] /\ draft[t][m] = draft'[t][m]
      BY <1>3 DEF DraftTrue
    <2>2. QED
      BY <1>1, <2>1 DEF DraftOnce
  <1>4. ASSUME NEW r \in Runner, NEW i \in DOMAIN seen[r], NEW t \in Table, NEW n \in 1..MaxId,
               Insert(r), Moves(r, i), Places(r, i, t, n)
        PROVE  DraftOnce'
    BY <1>1, <1>4, OnceWhenCloned
  <1>5. QED
    BY <1>2, <1>3, <1>4, StepsOfDraft DEF DraftRests, Stores

\* What is in the TechDB is settled: first the steps that do not commit in it.
LEMMA SettledWhenResting ==
  ASSUME TechdbAssumption, Shapes, Phases, LabelsStay, Settled, HandsStay, RegistryStays,
         techdb' = techdb, excused \subseteq excused', NEW l \in Shop, l \notin excused', Stored(l),
         \A i \in Row : registry[i] # NoRow /\ registry'[i] # NoRow
           /\ registry[i].link # Unlinked => registry'[i].link # Unlinked,
         \A r \in Runner : at[r] = "write" /\ (\E i \in DOMAIN planned[r] : planned[r][i].label = l) =>
           \/ at'[r] = "write" /\ planned'[r] = planned[r]
           \/ \A i \in Row : registry'[i] # NoRow /\ registry'[i].label = l
                => registry'[i].link # Unlinked
  PROVE  Safe(l)'
  <1>1. /\ \A r \in Runner : \A i \in DOMAIN seen[r] : seen[r][i].label # l
        /\ \/ \E r \in Runner : at[r] = "write" /\ \E i \in DOMAIN planned[r] : planned[r][i].label = l
           \/ \A i \in Row : registry[i] # NoRow /\ registry[i].label = l
                => registry[i].link # Unlinked
    BY DEF Settled, Safe
  <1>2. \A r \in Runner : \A i \in DOMAIN seen'[r] : seen'[r][i].label # l
    BY <1>1 DEF HandsStay
  <1>3. CASE \A i \in Row : registry[i] # NoRow /\ registry[i].label = l
               => registry[i].link # Unlinked
    BY <1>2, <1>3 DEF RegistryStays, Safe
  <1>4. CASE \E r \in Runner : at[r] = "write" /\ \E i \in DOMAIN planned[r] : planned[r][i].label = l
    BY <1>2, <1>4 DEF Safe
  <1>5. QED
    BY <1>1, <1>3, <1>4

\* What a step writes in the links.
LEMMA LinksWritten ==
  ASSUME TechdbAssumption, Shapes, NEW r \in Runner, WriteBack(r)
  PROVE  \A i \in Row :
           /\ i \notin DOMAIN planned[r] => registry'[i] = registry[i]
           /\ i \in DOMAIN planned[r] =>
                /\ registry[i] # NoRow /\ registry'[i].label = registry[i].label
                /\ registry'[i].link = [table |-> planned[r][i].table, id |-> planned[r][i].id]
                /\ registry'[i].link # Unlinked
  <1>1. ASSUME NEW i \in Row, i \in DOMAIN planned[r]
        PROVE  /\ registry[i] # NoRow /\ registry'[i].label = registry[i].label
               /\ registry'[i].link = [table |-> planned[r][i].table, id |-> planned[r][i].id]
               /\ registry'[i].link # Unlinked
    <2>1. registry[i] # NoRow /\ registry[i] \in Tool
      BY <1>1 DEF WriteBack, Shapes
    <2>2. registry'[i] = [registry[i] EXCEPT !.link =
                            [table |-> planned[r][i].table, id |-> planned[r][i].id]]
      BY <1>1 DEF WriteBack
    <2>3. planned[r][i] \in Plan
      BY <1>1, HandIs
    <2>4. [table |-> planned[r][i].table, id |-> planned[r][i].id] \in [table : Table, id : 1..MaxId]
      BY <2>3 DEF Plan
    <2>5. [table |-> planned[r][i].table, id |-> planned[r][i].id] # Unlinked
      BY <2>4 DEF TechdbAssumption
    <2>6. QED
      BY <2>1, <2>2, <2>5 DEF Tool
  <1>2. \A i \in Row : i \notin DOMAIN planned[r] => registry'[i] = registry[i]
    BY DEF WriteBack
  <1>3. QED
    BY <1>1, <1>2

\* A label is stored by a run that has yet to link it.
LEMMA SettledWhenStored ==
  ASSUME TechdbAssumption, Shapes, Phases, LabelsStay, DraftTrue, Settled,
         NEW r \in Runner, Stores(r), NEW l \in Shop, l \notin excused, Stored(l)'
  PROVE  Safe(l)'
  <1>1. /\ at[r] = "insert" /\ DOMAIN seen[r] = {} /\ holder = r
        /\ techdb' = draft /\ seen' = seen /\ planned' = planned /\ registry' = registry
        /\ \A q \in Runner : at'[q] = IF q = r THEN "write" ELSE at[q]
    BY DEF Stores, Shapes
  <1>2. CASE Stored(l)
    BY <1>1, <1>2 DEF Settled, Safe
  <1>3. CASE ~Stored(l)
    <2>1. PICK t \in Table : \E m \in DOMAIN draft[t] : draft[t][m] = l
      BY <1>1 DEF Stored
    <2>2. PICK m \in DOMAIN draft[t] : draft[t][m] = l
      BY <2>1
    <2>3. ~(m \in DOMAIN techdb[t])
      BY <1>3, <2>2 DEF DraftTrue, Stored
    <2>4. \E i \in DOMAIN planned[holder] : planned[holder][i].label = draft[t][m]
      BY <2>2, <2>3 DEF DraftTrue
    <2>5. PICK i \in DOMAIN planned[r] : planned[r][i].label = l
      BY <1>1, <2>2, <2>4
    <2>6. i \in Hand(r) /\ LabelOf(r, i) = l
      BY <2>5, HandIs DEF Hand
    <2>7. ASSUME NEW q \in Runner, NEW j \in DOMAIN seen[q], seen[q][j].label = l
          PROVE  FALSE
      <3>1. q # r
        BY <1>1, <2>7
      <3>2. j \in Hand(q) /\ LabelOf(q, j) = l
        BY <2>7, HandIs DEF Hand
      <3>3. QED
        BY <2>6, <3>1, <3>2 DEF LabelsStay
    <2>8. QED
      BY <1>1, <2>5, <2>7 DEF Safe
  <1>4. QED
    BY <1>2, <1>3

\* Who reads a pending row does not read one whose label is in the TechDB, unless
\* another has it in hand.
LEMMA SettledWhenRead ==
  ASSUME TechdbAssumption, Shapes, Phases, LabelsStay, Settled,
         NEW r \in Runner, NEW scope, ReadPending(r, scope),
         NEW l \in Shop, l \notin excused', Stored(l)
  PROVE  Safe(l)'
  <1> DEFINE P == Pending(scope)
  <1>1. /\ registry' = registry /\ planned' = planned /\ at[r] = "idle"
        /\ excused' = excused \cup {registry[i].label : i \in {j \in P : InHand(j)}}
        /\ \A q \in Runner : q # r => at'[q] = at[q]
    BY DEF ReadPending, Shapes
  <1>2. \A i \in P : i \in Row /\ registry[i] # NoRow /\ registry[i].link = Unlinked
    BY DEF Pending
  <1>3. seen'[r] = [i \in P |-> registry[i]] /\ \A q \in Runner : q # r => seen'[q] = seen[q]
    BY ReadHands
  <1> HIDE DEF P
  <1>4. Safe(l)
    BY <1>1 DEF Settled
  <1>5. ASSUME NEW i \in P, registry[i].label = l PROVE FALSE
    <2>1. PICK q \in Runner : at[q] = "write" /\ \E j \in DOMAIN planned[q] : planned[q][j].label = l
      BY <1>2, <1>4, <1>5 DEF Safe
    <2>2. PICK j \in DOMAIN planned[q] : planned[q][j].label = l
      BY <2>1
    <2>3. j \in Hand(q) /\ LabelOf(q, j) = l
      BY <2>2, HandIs DEF Hand
    <2>4. j = i
      <3>1. \A x \in Row : registry[x] # NoRow /\ registry[x].label = LabelOf(q, j) => j = x
        BY <2>3 DEF LabelsStay
      <3>2. QED
        BY <1>2, <1>5, <2>3, <3>1
    <2>5. InHand(i)
      BY <2>2, <2>4 DEF InHand
    <2>6. registry[i].label \in excused'
      BY <1>1, <2>5
    <2>7. QED
      BY <1>5, <2>6
  <1>6. \A q \in Runner : \A i \in DOMAIN seen'[q] : seen'[q][i].label # l
    <2>1. \A i \in DOMAIN seen'[r] : i \in P /\ seen'[r][i] = registry[i]
      BY <1>3
    <2>2. \A i \in DOMAIN seen'[r] : seen'[r][i].label # l
      BY <1>5, <2>1
    <2>3. \A q \in Runner : q # r => \A i \in DOMAIN seen'[q] : seen'[q][i].label # l
      BY <1>3, <1>4 DEF Safe
    <2>4. QED
      BY <2>2, <2>3
  <1>7. \/ \E q \in Runner : at'[q] = "write" /\ \E i \in DOMAIN planned'[q] : planned'[q][i].label = l
        \/ \A i \in Row : registry'[i] # NoRow /\ registry'[i].label = l => registry'[i].link # Unlinked
    BY <1>1, <1>4 DEF Safe
  <1>8. QED
    BY <1>6, <1>7 DEF Safe

\* A tool that is listed has another label than what is in the TechDB.
LEMMA SettledWhenListed ==
  ASSUME TechdbAssumption, Shapes, DraftTrue, Settled,
         NEW i \in Row, NEW k \in Shop, NEW c \in Class, ListTool(i, k, c),
         NEW l \in Shop, l \notin excused, Stored(l)
  PROVE  Safe(l)'
  <1>1. l \in listed
    <2>1. PICK t \in Table : \E m \in DOMAIN techdb[t] : techdb[t][m] = l
      BY DEF Stored
    <2>2. PICK m \in DOMAIN techdb[t] : techdb[t][m] = l
      BY <2>1
    <2>3. m \in DOMAIN draft[t] /\ draft[t][m] = l
      BY <2>2 DEF DraftTrue
    <2>4. l \in listed \cup {NoRow}
      BY <2>3 DEF DraftTrue
    <2>5. QED
      BY <2>4 DEF TechdbAssumption
  <1>2. /\ k \notin listed /\ at' = at /\ seen' = seen /\ planned' = planned
        /\ registry' = [registry EXCEPT ![i] = [label |-> k, class |-> c, link |-> Unlinked]]
    BY DEF ListTool, runVars
  <1>3. registry'[i].label = k /\ \A j \in Row : j # i => registry'[j] = registry[j]
    BY <1>2 DEF Shapes
  <1>4. Safe(l)
    BY DEF Settled
  <1>5. QED
    BY <1>1, <1>2, <1>3, <1>4 DEF Safe

\* What is stored remains settled in each step.
LEMMA NextSettled ==
  ASSUME TechdbAssumption, Shapes, Phases, LabelsStay, DraftTrue, Settled,
         [TechdbNext]_techdbVars
  PROVE  Settled'
  <1> SUFFICES ASSUME NEW l \in Shop, l \notin excused', Stored(l)'
               PROVE  Safe(l)'
    BY DEF Settled
  <1>1. excused \subseteq excused' /\ l \notin excused
    BY HistoryGrows
  <1>2. techdb' = techdb => Stored(l)
    BY DEF Stored
  <1>3. ASSUME NEW r \in Runner, Stores(r) PROVE Safe(l)'
    BY <1>1, <1>3, SettledWhenStored
  <1>4. ASSUME NEW i \in Row, NEW k \in Shop, NEW c \in Class, ListTool(i, k, c)
        PROVE  Safe(l)'
    <2>1. techdb' = techdb
      BY <1>4 DEF ListTool
    <2>2. QED
      BY <1>1, <1>2, <1>4, <2>1, SettledWhenListed
  <1>5. ASSUME NEW r \in Runner, NEW scope, ReadPending(r, scope) PROVE Safe(l)'
    <2>1. techdb' = techdb
      BY <1>5 DEF ReadPending
    <2>2. QED
      BY <1>2, <1>5, <2>1, SettledWhenRead
  <1>6. ASSUME HandsStay, RegistryStays, techdb' = techdb,
               \A i \in Row : registry[i] # NoRow /\ registry'[i] # NoRow
                 /\ registry[i].link # Unlinked => registry'[i].link # Unlinked,
               \A r \in Runner :
                 at[r] = "write" /\ (\E i \in DOMAIN planned[r] : planned[r][i].label = l) =>
                   \/ at'[r] = "write" /\ planned'[r] = planned[r]
                   \/ \A i \in Row : registry'[i] # NoRow /\ registry'[i].label = l
                        => registry'[i].link # Unlinked
        PROVE  Safe(l)'
    BY <1>1, <1>2, <1>6, SettledWhenResting
  <1>7. ASSUME NEW i \in Row, RemoveTool(i) PROVE Safe(l)'
    <2>1. /\ techdb' = techdb /\ at' = at /\ planned' = planned
          /\ registry' = [registry EXCEPT ![i] = NoRow]
      BY <1>7 DEF RemoveTool, runVars
    <2>2. \A j \in Row : registry'[j] # NoRow => registry'[j] = registry[j]
      BY <2>1 DEF Shapes
    <2>3. QED
      BY <1>6, <1>7, <2>1, <2>2, StepsOfHands
  <1>8. ASSUME NEW r \in Runner, Begin(r) PROVE Safe(l)'
    <2>1. /\ techdb' = techdb /\ at[r] = "read" /\ planned' = planned /\ registry' = registry
          /\ \A q \in Runner : q # r => at'[q] = at[q]
      BY <1>8 DEF Begin, Shapes
    <2>2. QED
      BY <1>6, <1>8, <2>1, StepsOfHands
  <1>9. ASSUME NEW r \in Runner, Insert(r) PROVE Safe(l)'
    <2>1. PICK i \in DOMAIN seen[r] : Moves(r, i)
      BY <1>9, InsertDoes
    <2>2. techdb' = techdb /\ at[r] = "insert" /\ at' = at /\ registry' = registry
      BY <1>9 DEF Insert
    <2>3. \A q \in Runner : q # r => planned'[q] = planned[q]
      BY <2>1, MoveIs
    <2>4. QED
      BY <1>6, <1>9, <2>2, <2>3, StepsOfHands
  <1>10. ASSUME NEW r \in Runner, End(r)
         PROVE  \A q \in Runner : q # r => at'[q] = at[q] /\ planned'[q] = planned[q]
    BY <1>10 DEF End, Shapes
  <1>11. ASSUME NEW r \in Runner, Commit(r) PROVE Safe(l)'
    <2>1. CASE DOMAIN planned[r] = {}
      <3>1. techdb' = techdb /\ at[r] = "insert" /\ registry' = registry /\ End(r)
        BY <1>11, <2>1 DEF Commit
      <3>2. QED
        BY <1>6, <1>10, <1>11, <3>1, StepsOfHands
    <2>2. CASE DOMAIN planned[r] # {}
      <3>1. holder = r
        BY <1>11 DEF Commit, Phases
      <3>2. Stores(r)
        BY <1>11, <2>2, <3>1 DEF Commit, Stores
      <3>3. QED
        BY <1>3, <3>2
    <2>3. QED
      BY <2>1, <2>2
  <1>12. ASSUME NEW r \in Runner, WriteBack(r) PROVE Safe(l)'
    <2>1. techdb' = techdb /\ End(r)
      BY <1>12 DEF WriteBack
    <2>2. \A i \in Row :
            /\ i \notin DOMAIN planned[r] => registry'[i] = registry[i]
            /\ i \in DOMAIN planned[r] => registry[i] # NoRow
                 /\ registry'[i].label = registry[i].label /\ registry'[i].link # Unlinked
      BY <1>12, LinksWritten
    <2>3. ASSUME NEW j \in DOMAIN planned[r], planned[r][j].label = l,
                 NEW i \in Row, registry'[i] # NoRow, registry'[i].label = l
          PROVE  registry'[i].link # Unlinked
      <3>1. registry[i] # NoRow /\ registry[i].label = l
        BY <2>2, <2>3
      <3>2. j \in Hand(r) /\ LabelOf(r, j) = l
        BY <2>3, HandIs DEF Hand
      <3>3. \A x \in Row : registry[x] # NoRow /\ registry[x].label = LabelOf(r, j) => j = x
        BY <3>2 DEF LabelsStay
      <3>4. j = i
        BY <3>1, <3>2, <3>3
      <3>5. QED
        BY <2>2, <2>3, <3>4
    <2>4. QED
      BY <1>6, <1>10, <1>12, <2>1, <2>2, <2>3, StepsOfHands
  <1>13. ASSUME NEW r \in Runner, Fail(r) PROVE Safe(l)'
    <2>1. /\ techdb' = techdb /\ End(r) /\ registry' = registry
          /\ at[r] = "write" => \A i \in DOMAIN planned[r] : planned[r][i].label \in excused'
      BY <1>13 DEF Fail
    <2>2. QED
      BY <1>6, <1>10, <1>13, <2>1, StepsOfHands
  <1>14. CASE UNCHANGED techdbVars
    <2>1. techdb' = techdb /\ registry' = registry /\ at' = at /\ planned' = planned
      BY <1>14 DEF techdbVars, runVars
    <2>2. QED
      BY <1>6, <1>14, <2>1, StepsOfHands
  <1>15. QED
    BY <1>4, <1>5, <1>7, <1>8, <1>9, <1>11, <1>12, <1>13, <1>14 DEF TechdbNext

\* The links of the registry are real.
LEMMA NextLinks ==
  ASSUME TechdbAssumption, Shapes, Phases, RowsMarked, DraftTrue, LinksAreReal,
         [TechdbNext]_techdbVars
  PROVE  LinksAreReal'
  <1>1. \A t \in Table : \A m \in DOMAIN techdb[t] :
          m \in DOMAIN techdb'[t] /\ techdb'[t][m] = techdb[t][m]
    <2>1. techdb' = techdb \/ techdb' = draft
      BY StepsOfDraft DEF DraftRests, Stores, Insert
    <2>2. QED
      BY <2>1 DEF DraftTrue
  <1>2. ASSUME NEW i \in Row, i \notin replaced, registry[i] # NoRow, registry[i].link # Unlinked,
               registry'[i] = registry[i]
        PROVE  registry'[i].link.id \in DOMAIN techdb'[registry'[i].link.table]
               /\ techdb'[registry'[i].link.table][registry'[i].link.id] = registry'[i].label
    <2>1. /\ registry[i].link.id \in DOMAIN techdb[registry[i].link.table]
          /\ techdb[registry[i].link.table][registry[i].link.id] = registry[i].label
      BY <1>2 DEF LinksAreReal
    <2>2. registry[i] \in Tool
      BY <1>2 DEF Shapes
    <2>3. registry[i].link.table \in Table
      BY <1>2, <2>2 DEF Tool, Link
    <2>4. QED
      BY <1>1, <1>2, <2>1, <2>3
  <1>3. SUFFICES ASSUME NEW i \in Row, i \notin replaced', registry'[i] # NoRow,
                        registry'[i].link # Unlinked
                 PROVE  registry'[i].link.id \in DOMAIN techdb'[registry'[i].link.table]
                        /\ techdb'[registry'[i].link.table][registry'[i].link.id] = registry'[i].label
    BY DEF LinksAreReal
  <1>4. CASE registry' = registry /\ replaced' = replaced
    BY <1>2, <1>3, <1>4
  <1>5. ASSUME NEW j \in Row, NEW k \in Shop, NEW c \in Class, ListTool(j, k, c), i # j
        PROVE  registry'[i] = registry[i] /\ i \notin replaced
    BY <1>3, <1>5 DEF ListTool, Shapes
  <1>6. ASSUME NEW j \in Row, NEW k \in Shop, NEW c \in Class, ListTool(j, k, c), i = j
        PROVE  FALSE
    BY <1>3, <1>6 DEF ListTool, Shapes
  <1>7. ASSUME NEW j \in Row, RemoveTool(j)
        PROVE  registry'[i] = registry[i] /\ i \notin replaced
    BY <1>3, <1>7 DEF RemoveTool, Shapes
  <1>8. ASSUME NEW r \in Runner, WriteBack(r)
        PROVE  registry'[i].link.id \in DOMAIN techdb'[registry'[i].link.table]
               /\ techdb'[registry'[i].link.table][registry'[i].link.id] = registry'[i].label
    <2>1. techdb' = techdb /\ replaced' = replaced /\ at[r] = "write"
      BY <1>8 DEF WriteBack
    <2>2. CASE i \notin DOMAIN planned[r]
      <3>1. registry'[i] = registry[i]
        BY <1>8, <2>2, LinksWritten
      <3>2. QED
        BY <1>2, <1>3, <2>1, <3>1
    <2>3. CASE i \in DOMAIN planned[r]
      <3>1. /\ registry[i] # NoRow /\ registry'[i].label = registry[i].label
            /\ registry'[i].link = [table |-> planned[r][i].table, id |-> planned[r][i].id]
        BY <1>8, <2>3, LinksWritten
      <3>2. RealIn(techdb, planned[r][i])
        BY <2>1, <2>3 DEF DraftTrue
      <3>3. i \in Hand(r) /\ LabelOf(r, i) = planned[r][i].label
        BY <2>3, HandIs DEF Hand
      <3>4. registry[i].label = planned[r][i].label
        BY <1>3, <2>1, <3>1, <3>3 DEF RowsMarked
      <3>5. /\ registry'[i].link.table = planned[r][i].table
            /\ registry'[i].link.id = planned[r][i].id
        BY <3>1
      <3>6. QED
        BY <2>1, <3>1, <3>2, <3>4, <3>5 DEF RealIn
    <2>4. QED
      BY <2>2, <2>3
  <1>9. ASSUME ~(registry' = registry /\ replaced' = replaced)
        PROVE  \/ \E j \in Row, k \in Shop, c \in Class : ListTool(j, k, c)
               \/ \E j \in Row : RemoveTool(j)
               \/ \E r \in Runner : WriteBack(r)
    BY <1>9 DEF TechdbNext, techdbVars, ReadPending, Begin, Insert, Commit, Fail
  <1>10. QED
    BY <1>2, <1>3, <1>4, <1>5, <1>6, <1>7, <1>8, <1>9

\* At first nothing is listed, in hand or in the tables but the template rows.
LEMMA InitTInv == TechdbAssumption /\ TechdbInit => TInv
  <1> SUFFICES ASSUME TechdbAssumption, TechdbInit PROVE TInv
    OBVIOUS
  <1>1. DOMAIN Nothing = {} /\ \A V : Nothing \in Partial(V)
    <2>1. \A V : Nothing \in [{} -> V]
      BY DEF Nothing
    <2>2. DOMAIN Nothing = {}
      BY DEF Nothing
    <2>3. QED
      BY <2>1, <2>2, IsPartial
  <1>2. \A t \in Table : Tools[t] \in Filled /\ \A m \in DOMAIN Tools[t] : Tools[t][m] = NoRow
    <2>1. 1 \in 1..MaxId /\ 1..1 = {1}
      BY DEF TechdbAssumption
    <2>2. [m \in {1} |-> NoRow] \in [1..1 -> Shop \cup {NoRow}]
      BY <2>1
    <2>3. [m \in {1} |-> NoRow] \in Filled
      BY <2>1, <2>2 DEF Filled
    <2>4. QED
      BY <2>3 DEF Tools
  <1>3. Shapes
    <2>1. Tools \in [Table -> Filled]
      BY <1>2 DEF Tools
    <2>2. QED
      BY <1>1, <2>1 DEF TechdbInit, Shapes
  <1>4. Phases
    BY <1>1 DEF TechdbInit, Phases, TechdbAssumption
  <1>5. \A r \in Runner : Hand(r) = {}
    BY <1>1 DEF Hand, TechdbInit
  <1>6. LabelsStay /\ RowsMarked
    BY <1>5 DEF LabelsStay, RowsMarked, TechdbInit
  <1>7. DraftTrue
    BY <1>1, <1>2 DEF DraftTrue, TechdbInit
  <1>8. Settled /\ DraftOnce
    <2>1. \A l \in Shop : l # NoRow
      BY DEF TechdbAssumption
    <2>2. QED
      BY <1>2, <2>1 DEF Settled, Stored, DraftOnce, TechdbInit
  <1>9. LinksAreReal
    BY DEF LinksAreReal, TechdbInit
  <1>10. QED
    BY <1>3, <1>4, <1>6, <1>7, <1>8, <1>9 DEF TInv

\* Every step keeps it.
LEMMA NextTInv == TechdbAssumption /\ TInv /\ [TechdbNext]_techdbVars => TInv'
  BY NextShapes, NextPhases, NextLabels, StepsOfDraft, TrueWhenResting, TrueWhenStored,
     TrueWhenCloned, HistoryGrows, NextSettled, NextOnce, NextLinks DEF TInv

\* What the tool does is what it does among the other work of the office.
LEMMA TechdbInvariant == Spec => []TInv
  <1>1. Init => TInv
    BY TechdbAssumption, InitTInv DEF Init
  <1>2. TInv /\ [Next]_vars => TInv'
    <2> SUFFICES ASSUME TInv, [Next]_vars PROVE TInv'
      OBVIOUS
    <2>1. [TechdbNext]_techdbVars
      BY DEF Next, vars
    <2>2. QED
      BY <2>1, TechdbAssumption, NextTInv
  <1>3. QED
    BY <1>1, <1>2, PTL DEF Spec

\* However many runs of the tool overlap with each other and with the edits of
\* the registry, and wherever they end: a tool gets one TechDB row, unless two
\* runs had it in hand at once or a run failed between its two commits, and
\* what the registry names is the row of that tool, unless its rowid was given
\* to another tool under a run.
THEOREM InsertsAlwaysSound == Spec => []InsertsAreSound
  <1>1. TInv => InsertedOnce
    BY DEF TInv, DraftTrue, DraftOnce, InsertedOnce
  <1>2. TInv => InsertsAreSound
    BY <1>1 DEF TInv, InsertsAreSound
  <1>3. QED
    BY <1>2, TechdbInvariant, PTL

\* What a concatenation holds.
LEMMA ToSetOfConcat ==
  ASSUME NEW S, NEW s \in Seq(S), NEW t \in Seq(S)
  PROVE  \A x : x \in ToSet(s \o t) <=> x \in ToSet(s) \/ x \in ToSet(t)
  <1>1. \A u \in Seq(S) : ToSet(u) = {u[i] : i \in 1..Len(u)}
    BY DEF ToSet
  <1>2. s \o t \in Seq(S) /\ Len(s \o t) = Len(s) + Len(t)
    OBVIOUS
  <1>3. \A i \in 1..Len(s) : i \in 1..Len(s \o t) /\ (s \o t)[i] = s[i]
    OBVIOUS
  <1>4. \A i \in 1..Len(t) : i + Len(s) \in 1..Len(s \o t) /\ (s \o t)[i + Len(s)] = t[i]
    OBVIOUS
  <1>5. \A i \in 1..Len(s \o t) : i \in 1..Len(s) \/ i - Len(s) \in 1..Len(t)
    BY <1>2
  <1>6. \A i \in 1..Len(s \o t) : i \notin 1..Len(s) => (s \o t)[i] = t[i - Len(s)]
    OBVIOUS
  <1>7. ASSUME NEW x, x \in ToSet(s \o t) PROVE x \in ToSet(s) \/ x \in ToSet(t)
    <2>1. PICK i \in 1..Len(s \o t) : x = (s \o t)[i]
      BY <1>1, <1>2, <1>7
    <2>2. CASE i \in 1..Len(s)
      BY <1>1, <1>3, <2>1, <2>2
    <2>3. CASE i \notin 1..Len(s)
      BY <1>1, <1>5, <1>6, <2>1, <2>3
    <2>4. QED
      BY <2>2, <2>3
  <1>8. ASSUME NEW x, x \in ToSet(s) \/ x \in ToSet(t) PROVE x \in ToSet(s \o t)
    <2>1. CASE x \in ToSet(s)
      <3>1. PICK i \in 1..Len(s) : x = s[i]
        BY <1>1, <2>1
      <3>2. i \in 1..Len(s \o t) /\ (s \o t)[i] = x
        BY <1>3, <3>1
      <3>3. QED
        BY <1>1, <1>2, <3>2
    <2>2. CASE x \in ToSet(t)
      <3>1. PICK i \in 1..Len(t) : x = t[i]
        BY <1>1, <2>2
      <3>2. i + Len(s) \in 1..Len(s \o t) /\ (s \o t)[i + Len(s)] = x
        BY <1>4, <3>1
      <3>3. QED
        BY <1>1, <1>2, <3>2
    <2>3. QED
      BY <1>8, <2>1, <2>2
  <1>9. QED
    BY <1>7, <1>8

-----------------------------------------------------------------------------
(* The guards around migrations.                                           *)

(* The recursive function by which FlattenSeq concatenates: there is one on *)
(* each prefix, and it is a sequence of what the sequences up to there hold.*)
Flattens(f, ss, n) == f = [i \in 1..n |-> IF i = 1 THEN ss[i] ELSE f[i - 1] \o ss[i]]

\* FlattenSeq is a function that follows its recursion, on all sequences of
\* sequences: by the least length at which there were none.
LEMMA FlattenExists ==
  ASSUME NEW ss, NEW N \in Nat
  PROVE  \E f : Flattens(f, ss, N)
  <1> DEFINE Bad == {n \in Nat : ~\E f : Flattens(f, ss, n)}
  <1>1. SUFFICES ASSUME Bad # {} PROVE FALSE
    OBVIOUS
  <1>2. PICK n \in Bad : \A k \in Bad : n <= k
    BY <1>1, LeastOf
  <1>3. n \in Nat /\ ~\E f : Flattens(f, ss, n)
    OBVIOUS
  <1>4. CASE n = 0
    <2> DEFINE f == [i \in 1..0 |-> ss[i]]
    <2>1. Flattens(f, ss, 0)
      BY DEF Flattens
    <2>2. QED
      BY <1>3, <1>4, <2>1
  <1>5. CASE n # 0
    <2>1. n - 1 \in Nat /\ ~(n - 1 \in Bad)
      BY <1>2, <1>3, <1>5
    <2>2. PICK f : Flattens(f, ss, n - 1)
      BY <2>1
    <2> DEFINE E(i) == IF i = n /\ n # 1 THEN f[n - 1] \o ss[n]
                       ELSE IF i = 1 THEN ss[i] ELSE f[i]
               g == [i \in 1..n |-> E(i)]
    <2>3. \A i \in 1..(n - 1) : f[i] = IF i = 1 THEN ss[i] ELSE f[i - 1] \o ss[i]
      BY <2>2 DEF Flattens
    <2>4. \A i \in 1..n : g[i] = E(i)
      OBVIOUS
    <2> HIDE DEF g
    <2>5. ASSUME NEW i \in 1..n
          PROVE  g[i] = IF i = 1 THEN ss[i] ELSE g[i - 1] \o ss[i]
      <3>1. CASE i = 1
        BY <1>3, <2>4, <3>1
      <3>2. CASE i # 1 /\ i = n
        <4>1. n - 1 \in 1..n /\ n - 1 # n
          BY <1>3, <3>2
        <4>2. g[n - 1] = f[n - 1]
          BY <2>1, <2>3, <2>4, <4>1
        <4>3. QED
          BY <2>4, <3>2, <4>2
      <3>3. CASE i # 1 /\ i # n
        <4>1. i - 1 \in 1..n /\ i - 1 # n /\ i \in 1..(n - 1) /\ i - 1 \in 1..(n - 1)
          BY <1>3, <3>3
        <4>2. g[i - 1] = f[i - 1]
          BY <2>3, <2>4, <4>1
        <4>3. g[i] = f[i]
          BY <2>4, <3>3
        <4>4. QED
          BY <2>3, <3>3, <4>1, <4>2, <4>3
      <3>4. QED
        BY <3>1, <3>2, <3>3
    <2>6. g = [i \in 1..n |-> IF i = 1 THEN ss[i] ELSE g[i - 1] \o ss[i]]
      <3>1. g = [i \in 1..n |-> g[i]]
        BY DEF g
      <3>2. QED
        BY <2>5, <3>1
    <2>7. Flattens(g, ss, n)
      BY <2>6 DEF Flattens
    <2>8. QED
      BY <1>3, <2>7
  <1>6. QED
    BY <1>4, <1>5

\* And it keeps what is in the parts.
LEMMA FlattensHold ==
  ASSUME NEW S, NEW ss \in Seq(Seq(S)), NEW f, Flattens(f, ss, Len(ss)), NEW i \in 1..Len(ss)
  PROVE  /\ f[i] \in Seq(S)
         /\ \A x : x \in ToSet(f[i]) <=> \E k \in 1..i : x \in ToSet(ss[k])
  <1> DEFINE Holds(n) == /\ f[n] \in Seq(S)
                         /\ \A x : x \in ToSet(f[n]) <=> \E k \in 1..n : x \in ToSet(ss[k])
             Bad == {n \in 1..Len(ss) : ~Holds(n)}
  <1>1. SUFFICES ASSUME Bad # {} PROVE FALSE
    OBVIOUS
  <1>2. Bad \in SUBSET Nat /\ Len(ss) \in Nat
    OBVIOUS
  <1>3. PICK n \in Bad : \A k \in Bad : n <= k
    BY <1>1, <1>2, LeastOf
  <1>4. n \in 1..Len(ss) /\ ~Holds(n)
    OBVIOUS
  <1>5. \A j \in 1..Len(ss) : f[j] = IF j = 1 THEN ss[j] ELSE f[j - 1] \o ss[j]
    BY DEF Flattens
  <1>6. ss[n] \in Seq(S)
    BY <1>4
  <1>7. CASE n = 1
    <2>1. f[n] = ss[1]
      BY <1>4, <1>5, <1>7
    <2>2. 1..n = {1}
      BY <1>7
    <2>3. \A x : x \in ToSet(f[n]) <=> \E k \in 1..n : x \in ToSet(ss[k])
      BY <2>1, <2>2
    <2>4. QED
      BY <1>4, <1>6, <1>7, <2>1, <2>3
  <1>8. CASE n # 1
    <2>1. n - 1 \in 1..Len(ss) /\ ~(n <= n - 1)
      BY <1>2, <1>4, <1>8
    <2>2. Holds(n - 1)
      <3> HIDE DEF Holds
      <3>1. n - 1 \notin Bad
        <4> HIDE DEF Bad
        <4>1. QED
          BY <1>3, <2>1
      <3>2. QED
        BY <2>1, <3>1
    <2>3. f[n] = f[n - 1] \o ss[n]
      BY <1>4, <1>5, <1>8
    <2>4. f[n] \in Seq(S)
      BY <1>6, <2>2, <2>3
    <2>5. \A x : x \in ToSet(f[n]) <=> x \in ToSet(f[n - 1]) \/ x \in ToSet(ss[n])
      BY <1>6, <2>2, <2>3, ToSetOfConcat
    <2>6. 1..n = 1..(n - 1) \cup {n}
      BY <1>2, <1>4, <1>8
    <2>7. \A x : x \in ToSet(f[n]) <=> \E k \in 1..n : x \in ToSet(ss[k])
      BY <2>2, <2>5, <2>6
    <2>8. QED
      BY <1>4, <2>4, <2>7
  <1>9. QED
    BY <1>7, <1>8

\* What FlattenSeq makes of sequences: all that they hold.
LEMMA FlattenIs ==
  ASSUME NEW S, NEW ss \in Seq(Seq(S))
  PROVE  /\ FlattenSeq(ss) \in Seq(S)
         /\ \A x : x \in ToSet(FlattenSeq(ss)) <=> \E k \in 1..Len(ss) : x \in ToSet(ss[k])
  <1>1. CASE Len(ss) = 0
    <2>1. FlattenSeq(ss) = ss /\ ss = <<>>
      BY <1>1 DEF FlattenSeq
    <2>2. QED
      BY <1>1, <2>1 DEF ToSet
  <1>2. CASE Len(ss) # 0
    <2> DEFINE f == CHOOSE g : Flattens(g, ss, Len(ss))
    <2>1. Len(ss) \in Nat /\ Len(ss) \in 1..Len(ss)
      BY <1>2
    <2>2. Flattens(f, ss, Len(ss))
      BY <2>1, FlattenExists
    <2>3. FlattenSeq(ss) = f[Len(ss)]
      BY <1>2 DEF FlattenSeq, Flattens
    <2> HIDE DEF f
    <2>4. ASSUME NEW i \in 1..Len(ss)
          PROVE  /\ f[i] \in Seq(S)
                 /\ \A x : x \in ToSet(f[i]) <=> \E k \in 1..i : x \in ToSet(ss[k])
      <3>1. i \in 1..Len(ss) /\ Flattens(f, ss, Len(ss))
        BY <2>2
      <3>2. QED
        BY <3>1, FlattensHold, ZenonT(40)
    <2>5. /\ f[Len(ss)] \in Seq(S)
          /\ \A x : x \in ToSet(f[Len(ss)]) <=> \E k \in 1..Len(ss) : x \in ToSet(ss[k])
      BY <2>1, <2>4
    <2>6. QED
      BY <2>3, <2>5
  <1>3. QED
    BY <1>1, <1>2

(* What the statements of a revision, and of the revisions so far, touch.  *)
StatementsOf(n) == UNION {ToSet(written[n].ops[k].ops) : k \in 1..Len(written[n].ops)}
Between(first, last) == UNION {StatementsOf(n) : n \in first..last}
TouchedBy(statements) == UNION {Touches(s) : s \in statements}

Written == [ops : Seq(Operation), generated : BOOLEAN]
GuardShapes ==
  /\ written \in Seq(Written)
  /\ version \in [Database -> 0..Len(written)]
  /\ schemas \in [Database -> SUBSET SchemaName]
  /\ target \in Database \cup {Nowhere} /\ head \in 0..Len(written)
  /\ todo \in Seq(Statement) /\ changed \subseteq SchemaName

(* The first guard: what was generated names its schemas, which are allowed. *)
Checked ==
  \A n \in 1..Len(written) : written[n].generated =>
    \A s \in StatementsOf(n) : CheckOp(s)

(* A database has what its revisions did, none of which the last guard sees. *)
Brought ==
  \A d \in Database :
    /\ schemas[d] \subseteq Allowed \cup TouchedBy(Between(1, version[d]))
    /\ version[d] > 0 => Allowed \cup TouchedBy(Between(1, version[d])) \subseteq schemas[d]
    /\ \A s \in Between(1, version[d]) : ~Refused(s)

(* A run has done, or has still to do, what is between it and the head.    *)
Running ==
  target # Nowhere =>
    /\ version[target] <= head /\ (agreed \/ target = Dev)
    /\ changed \cup TouchedBy(ToSet(todo)) =
         Allowed \cup TouchedBy(Between(version[target] + 1, head))
    /\ \A s \in Between(version[target] + 1, head) : s \in ToSet(todo) \/ ~Refused(s)

Reported ==
  /\ report.head \in Nat
  /\ report.result = "ok" => report.at \in Database /\ version[report.at] >= report.head

GInv == GuardShapes /\ Checked /\ Brought /\ Running /\ Reported

\* What a name reaches.
LEMMA TouchesAre ==
  ASSUME NEW s \in Statement
  PROVE  /\ Touches(s) \subseteq SchemaName
         /\ Touches(s) \subseteq s.schemas \cup Allowed
         /\ s.schemas \subseteq Touches(s)
  <1>1. Head(SearchPath) = "shared"
    BY DEF SearchPath
  <1>2. s.schemas \in SUBSET SchemaName
    BY DEF Statement
  <1>3. QED
    BY <1>1, <1>2 DEF Touches, SchemaName, Allowed

\* The revisions are sequences of operations, and these of statements.
LEMMA RevisionIs ==
  ASSUME GuardShapes, NEW n \in 1..Len(written)
  PROVE  /\ written[n].ops \in Seq(Operation) /\ Len(written[n].ops) \in Nat
         /\ \A k \in 1..Len(written[n].ops) : written[n].ops[k].ops \in Seq(Statement)
         /\ StatementsOf(n) \subseteq Statement
  <1>1. written[n] \in Written
    BY DEF GuardShapes
  <1>2. written[n].ops \in Seq(Operation)
    BY <1>1 DEF Written
  <1>3. \A k \in 1..Len(written[n].ops) : written[n].ops[k] \in Operation
    BY <1>2
  <1>4. \A k \in 1..Len(written[n].ops) : written[n].ops[k].ops \in Seq(Statement)
    BY <1>3 DEF Operation
  <1>5. \A u \in Seq(Statement) : ToSet(u) \subseteq Statement
    BY DEF ToSet
  <1>6. StatementsOf(n) \subseteq Statement
    BY <1>4, <1>5 DEF StatementsOf
  <1>7. QED
    BY <1>2, <1>4, <1>6

\* Statements lists what is between two revisions.
LEMMA StatementsAre ==
  ASSUME GuardShapes, NEW first \in Nat \ {0}, NEW last \in 0..Len(written), first <= last + 1
  PROVE  /\ Statements(first, last) \in Seq(Statement)
         /\ ToSet(Statements(first, last)) = Between(first, last)
  <1> DEFINE Inner(m) == [n \in 1..Len(written[m].ops) |-> written[m].ops[n].ops]
             outer == [k \in 1..(last - first + 1) |-> FlattenSeq(Inner(first + k - 1))]
  <1>1. Len(written) \in Nat /\ last - first + 1 \in Nat
    BY DEF GuardShapes
  <1>2. ASSUME NEW m \in 1..Len(written)
        PROVE  FlattenSeq(Inner(m)) \in Seq(Statement)
               /\ ToSet(FlattenSeq(Inner(m))) = StatementsOf(m)
    <2>1. /\ Len(written[m].ops) \in Nat
          /\ \A k \in 1..Len(written[m].ops) : written[m].ops[k].ops \in Seq(Statement)
      BY RevisionIs
    <2>2. /\ Inner(m) \in Seq(Seq(Statement)) /\ Len(Inner(m)) = Len(written[m].ops)
          /\ \A k \in 1..Len(written[m].ops) : Inner(m)[k] = written[m].ops[k].ops
      BY <2>1
    <2> HIDE DEF Inner
    <2>3. /\ FlattenSeq(Inner(m)) \in Seq(Statement)
          /\ \A x : x \in ToSet(FlattenSeq(Inner(m))) <=>
               \E k \in 1..Len(Inner(m)) : x \in ToSet(Inner(m)[k])
      BY <2>2, FlattenIs
    <2>4. \A x : x \in ToSet(FlattenSeq(Inner(m))) <=> x \in StatementsOf(m)
      BY <2>2, <2>3 DEF StatementsOf
    <2>5. QED
      BY <2>3, <2>4
  <1>3. \A k \in 1..(last - first + 1) : first + k - 1 \in 1..Len(written)
    BY <1>1
  <1>4. Statements(first, last) = FlattenSeq(outer)
    BY DEF Statements
  <1> HIDE DEF Inner
  <1>5. /\ outer \in Seq(Seq(Statement)) /\ Len(outer) = last - first + 1
        /\ \A k \in 1..(last - first + 1) : ToSet(outer[k]) = StatementsOf(first + k - 1)
    BY <1>1, <1>2, <1>3
  <1> HIDE DEF outer
  <1>6. /\ FlattenSeq(outer) \in Seq(Statement)
        /\ \A x : x \in ToSet(FlattenSeq(outer)) <=>
             \E k \in 1..Len(outer) : x \in ToSet(outer[k])
    BY <1>5, FlattenIs
  <1>7. ASSUME NEW x PROVE x \in ToSet(FlattenSeq(outer)) <=> x \in Between(first, last)
    <2>1. x \in ToSet(FlattenSeq(outer)) <=>
            \E k \in 1..(last - first + 1) : x \in StatementsOf(first + k - 1)
      BY <1>5, <1>6
    <2>2. ASSUME NEW k \in 1..(last - first + 1), x \in StatementsOf(first + k - 1)
          PROVE  x \in Between(first, last)
      <3>1. first + k - 1 \in first..last
        BY <1>1
      <3>2. QED
        BY <2>2, <3>1 DEF Between
    <2>3. ASSUME x \in Between(first, last)
          PROVE  \E k \in 1..(last - first + 1) : x \in StatementsOf(first + k - 1)
      <3>1. PICK n \in first..last : x \in StatementsOf(n)
        BY <2>3 DEF Between
      <3>2. n - first + 1 \in 1..(last - first + 1) /\ first + (n - first + 1) - 1 = n
        BY <1>1
      <3>3. QED
        BY <3>1, <3>2
    <2>4. QED
      BY <2>1, <2>2, <2>3
  <1>8. QED
    BY <1>4, <1>6, <1>7

\* A new revision is checked, if it was generated, and is no part of any run.
LEMMA AddKeeps ==
  ASSUME MigrationsAssumption, GInv, NEW ops \in Revision, NEW generated \in BOOLEAN,
         AddRevision(ops, generated),
         \A n \in 1..Len(written) :
           written'[n] = written[n] /\ StatementsOf(n)' = StatementsOf(n)
  PROVE  GInv'
  <1> USE DEF GInv
  <1> DEFINE L == Len(written)
  <1>1. ops \in Seq(Operation)
    BY DEF MigrationsAssumption
  <1>2. [ops |-> ops, generated |-> generated] \in Written
    BY <1>1 DEF Written
  <1>3. /\ L \in Nat /\ written' = Append(written, [ops |-> ops, generated |-> generated])
        /\ UNCHANGED <<version, schemas, target, agreed, head, todo, changed, report>>
    BY DEF AddRevision, upgradeVars, GuardShapes
  <1>4. /\ written' \in Seq(Written) /\ Len(written') = L + 1
        /\ written'[L + 1] = [ops |-> ops, generated |-> generated]
    <2> DEFINE new == [ops |-> ops, generated |-> generated]
    <2>1. new \in Written
      BY <1>2
    <2> HIDE DEF new
    <2>2. written' = Append(written, new)
      BY <1>3 DEF new
    <2>3. written' \in Seq(Written) /\ Len(written') = L + 1 /\ written'[L + 1] = new
      BY <2>1, <2>2 DEF GuardShapes
    <2>4. QED
      BY <2>3 DEF new
  <1>5. GuardShapes'
    <2>1. \A n \in 0..L : n \in 0..(L + 1)
      BY <1>3
    <2>2. version' \in [Database -> 0..Len(written')]
      BY <1>3, <1>4, <2>1 DEF GuardShapes
    <2>3. QED
      BY <1>3, <1>4, <2>1, <2>2 DEF GuardShapes
  <1>6. Checked'
    <2>1. ASSUME NEW n \in 1..(L + 1), written'[n].generated, NEW s \in StatementsOf(n)'
          PROVE  CheckOp(s)
      <3>1. CASE n \in 1..L
        BY <2>1, <3>1 DEF Checked
      <3>2. CASE n = L + 1
        <4>1. PICK k \in 1..Len(ops) : s \in ToSet(ops[k].ops)
          BY <1>4, <3>2 DEF StatementsOf
        <4>2. generated
          BY <1>4, <2>1, <3>2
        <4>3. QED
          BY <4>1, <4>2 DEF AddRevision, Walk
      <3>3. QED
        BY <1>3, <3>1, <3>2
    <2>2. QED
      BY <1>4, <2>1 DEF Checked
  <1>7. ASSUME NEW first \in Nat \ {0}, NEW last \in 0..L
        PROVE  UNION {StatementsOf(n)' : n \in first..last} = Between(first, last)
    <2>1. \A n \in first..last : n \in 1..L
      BY <1>3
    <2>2. \A n \in first..last : StatementsOf(n)' = StatementsOf(n)
      BY <2>1
    <2>3. QED
      BY <2>2 DEF Between
  <1>8. Brought'
    <2>1. \A d \in Database : version[d] \in 0..L /\ version'[d] = version[d]
      BY <1>3 DEF GuardShapes
    <2>2. \A d \in Database : Between(1, version[d])' = Between(1, version[d])
      BY <1>7, <2>1 DEF Between
    <2>3. QED
      BY <1>3, <2>1, <2>2 DEF Brought, TouchedBy
  <1>9. Running'
    <2>1. CASE target = Nowhere
      BY <1>3, <2>1 DEF Running
    <2>2. CASE target # Nowhere
      <3>1. version[target] + 1 \in Nat \ {0} /\ head \in 0..L
        BY <2>2 DEF GuardShapes
      <3>2. Between(version[target] + 1, head)' = Between(version[target] + 1, head)
        BY <1>3, <1>7, <3>1 DEF Between
      <3>3. QED
        BY <1>3, <2>2, <3>2 DEF Running, TouchedBy
    <2>3. QED
      BY <2>1, <2>2
  <1>10. Reported'
    BY <1>3 DEF Reported
  <1>11. QED
    BY <1>5, <1>6, <1>8, <1>9, <1>10

\* A run begins with all that is between its database and the head still to do.
LEMMA UpgradeKeeps ==
  ASSUME MigrationsAssumption, GInv, NEW url \in Url, NEW consent \in BOOLEAN, Upgrade(url, consent)
  PROVE  GInv'
  <1> USE DEF GInv
  <1> DEFINE d == url.reaches
  <1>1. /\ written' = written /\ version' = version /\ schemas' = schemas /\ report' = report
        /\ target' = d /\ agreed' = consent /\ head' = Len(written)
        /\ todo' = Statements(version[d] + 1, Len(written)) /\ changed' = Allowed
        /\ IsDev(url) \/ consent
    BY DEF Upgrade
  <1>2. d \in Database /\ (consent \/ d = Dev)
    BY <1>1 DEF Database, IsDev, MigrationsAssumption
  <1>3. Len(written) \in Nat /\ version[d] \in 0..Len(written)
    BY <1>2 DEF GuardShapes
  <1>4. /\ todo' \in Seq(Statement)
        /\ ToSet(todo') = Between(version[d] + 1, Len(written))
    BY <1>1, <1>3, StatementsAre
  <1> HIDE DEF d
  <1>5. \A first, last : Between(first, last)' = Between(first, last)
    BY <1>1 DEF Between, StatementsOf
  <1>6. GuardShapes'
    <2>1. Allowed \subseteq SchemaName
      BY DEF Allowed, SchemaName
    <2>2. QED
      BY <1>1, <1>2, <1>3, <1>4, <2>1 DEF GuardShapes
  <1>7. Checked'
    BY <1>1 DEF Checked, StatementsOf
  <1>8. Brought'
    BY <1>1 DEF Brought, TouchedBy, Between, StatementsOf
  <1>9. Running'
    <2>1. target' = d /\ version'[target'] = version[d] /\ head' = Len(written)
      BY <1>1
    <2>2. Between(version[target] + 1, head)' = Between(version[d] + 1, Len(written))
      BY <1>1, <2>1 DEF Between, StatementsOf
    <2>3. version'[target'] <= head' /\ (agreed' \/ target' = Dev)
      BY <1>1, <1>2, <1>3
    <2>4. changed' \cup TouchedBy(ToSet(todo')) =
            Allowed \cup TouchedBy(Between(version[d] + 1, Len(written)))
      BY <1>1, <1>4
    <2>5. \A s \in Between(version[d] + 1, Len(written)) : s \in ToSet(todo')
      BY <1>4
    <2>6. QED
      BY <2>2, <2>3, <2>4, <2>5 DEF Running, TouchedBy, ToSet
  <1>10. Reported'
    BY <1>1 DEF Reported
  <1>11. QED
    BY <1>6, <1>7, <1>8, <1>9, <1>10

\* The first of a sequence and the others.
LEMMA ToSetOfTail ==
  ASSUME NEW S, NEW s \in Seq(S), s # <<>>
  PROVE  /\ Head(s) \in S /\ Tail(s) \in Seq(S)
         /\ \A x : x \in ToSet(s) <=> x = Head(s) \/ x \in ToSet(Tail(s))
  <1>1. Len(s) \in Nat \ {0} /\ Head(s) = s[1] /\ Head(s) \in S
    OBVIOUS
  <1>2. Tail(s) \in Seq(S) /\ Len(Tail(s)) = Len(s) - 1
        /\ \A i \in 1..(Len(s) - 1) : Tail(s)[i] = s[i + 1]
    OBVIOUS
  <1>3. \A u \in Seq(S) : ToSet(u) = {u[i] : i \in 1..Len(u)}
    BY DEF ToSet
  <1>4. ASSUME NEW x, x \in ToSet(s) PROVE x = Head(s) \/ x \in ToSet(Tail(s))
    <2>1. PICK i \in 1..Len(s) : x = s[i]
      BY <1>3, <1>4
    <2>2. CASE i = 1
      BY <1>1, <2>1, <2>2
    <2>3. CASE i # 1
      <3>1. i - 1 \in 1..Len(Tail(s)) /\ Tail(s)[i - 1] = x
        BY <1>1, <1>2, <2>1, <2>3
      <3>2. QED
        BY <1>2, <1>3, <3>1
    <2>4. QED
      BY <2>2, <2>3
  <1>5. ASSUME NEW x, x = Head(s) \/ x \in ToSet(Tail(s)) PROVE x \in ToSet(s)
    <2>1. CASE x = Head(s)
      <3>1. 1 \in 1..Len(s) /\ s[1] = x
        BY <1>1, <2>1
      <3>2. QED
        BY <1>3, <3>1
    <2>2. CASE x \in ToSet(Tail(s))
      <3>1. PICK i \in 1..Len(Tail(s)) : x = Tail(s)[i]
        BY <1>2, <1>3, <2>2
      <3>2. i + 1 \in 1..Len(s) /\ s[i + 1] = x
        BY <1>1, <1>2, <3>1
      <3>3. QED
        BY <1>3, <3>2
    <2>3. QED
      BY <1>5, <2>1, <2>2
  <1>6. QED
    BY <1>1, <1>2, <1>4, <1>5

\* A statement that is executed has passed the last guard.
LEMMA ExecuteKeeps ==
  ASSUME GInv, Execute
  PROVE  GInv'
  <1> USE DEF GInv
  <1> DEFINE s == Head(todo)
  <1>1. /\ target # Nowhere /\ todo # <<>> /\ ~Refused(s)
        /\ changed' = changed \cup Touches(s) /\ todo' = Tail(todo)
        /\ written' = written /\ version' = version /\ schemas' = schemas /\ report' = report
        /\ target' = target /\ agreed' = agreed /\ head' = head
    BY DEF Execute
  <1>2. /\ s \in Statement /\ todo' \in Seq(Statement)
        /\ \A x : x \in ToSet(todo) <=> x = s \/ x \in ToSet(todo')
    BY <1>1, ToSetOfTail DEF GuardShapes
  <1> HIDE DEF s
  <1>3. GuardShapes'
    BY <1>1, <1>2, TouchesAre DEF GuardShapes
  <1>4. Checked'
    BY <1>1 DEF Checked, StatementsOf
  <1>5. Brought'
    BY <1>1 DEF Brought, TouchedBy, Between, StatementsOf
  <1>6. Running'
    <2>1. Between(version[target] + 1, head)' = Between(version[target] + 1, head)
      BY <1>1 DEF Between, StatementsOf
    <2>2. TouchedBy(ToSet(todo)) = Touches(s) \cup TouchedBy(ToSet(todo'))
      BY <1>2 DEF TouchedBy
    <2>3. changed' \cup TouchedBy(ToSet(todo')) =
            Allowed \cup TouchedBy(Between(version[target] + 1, head))
      BY <1>1, <2>2 DEF Running
    <2>4. \A x \in Between(version[target] + 1, head) : x \in ToSet(todo') \/ ~Refused(x)
      BY <1>1, <1>2 DEF Running
    <2>5. version[target] <= head /\ (agreed \/ target = Dev)
      BY <1>1 DEF Running
    <2>6. QED
      BY <1>1, <2>1, <2>3, <2>4, <2>5 DEF Running, TouchedBy, ToSet
  <1>7. Reported'
    BY <1>1 DEF Reported
  <1>8. QED
    BY <1>3, <1>4, <1>5, <1>6, <1>7

\* A run that is committed has brought its database to the head.
LEMMA CommitKeeps ==
  ASSUME MigrationsAssumption, GInv, CommitUpgrade
  PROVE  GInv'
  <1> USE DEF GInv
  <1> DEFINE v == version[target]
  <1>1. /\ target # Nowhere /\ todo = <<>> /\ written' = written
        /\ version' = [version EXCEPT ![target] = head]
        /\ schemas' = [schemas EXCEPT ![target] = schemas[target] \cup changed]
        /\ report' = [result |-> "ok", at |-> target, head |-> head]
        /\ target' = Nowhere /\ head' = 0 /\ todo' = <<>> /\ changed' = {}
    BY DEF CommitUpgrade, Stop, GuardShapes
  <1>2. /\ target \in Database /\ Len(written) \in Nat /\ head \in 0..Len(written)
        /\ v \in 0..Len(written) /\ v <= head
    BY <1>1 DEF GuardShapes, Running
  <1>3. /\ version'[target] = head /\ \A d \in Database : d # target => version'[d] = version[d]
        /\ schemas'[target] = schemas[target] \cup changed
        /\ \A d \in Database : d # target => schemas'[d] = schemas[d]
    BY <1>1, <1>2 DEF GuardShapes
  <1>4. changed = Allowed \cup TouchedBy(Between(v + 1, head))
    BY <1>1 DEF Running, TouchedBy, ToSet
  <1>5. \A s \in Between(v + 1, head) : ~Refused(s)
    BY <1>1 DEF Running, ToSet
  <1>6. /\ schemas[target] \subseteq Allowed \cup TouchedBy(Between(1, v))
        /\ v > 0 => Allowed \cup TouchedBy(Between(1, v)) \subseteq schemas[target]
        /\ \A s \in Between(1, v) : ~Refused(s)
    BY <1>2 DEF Brought
  <1> HIDE DEF v
  <1>7. /\ Between(1, head) = Between(1, v) \cup Between(v + 1, head)
        /\ TouchedBy(Between(1, head)) = TouchedBy(Between(1, v)) \cup TouchedBy(Between(v + 1, head))
    <2>1. \A n : n \in 1..head <=> n \in 1..v \/ n \in (v + 1)..head
      BY <1>2
    <2>2. Between(1, head) = Between(1, v) \cup Between(v + 1, head)
      BY <2>1 DEF Between
    <2>3. QED
      BY <2>2 DEF TouchedBy
  <1>8. v = 0 => Between(1, v) = {}
    BY DEF Between
  <1>9. GuardShapes'
    <2>1. version' \in [Database -> 0..Len(written')]
      BY <1>1, <1>2 DEF GuardShapes
    <2>2. schemas' \in [Database -> SUBSET SchemaName]
      BY <1>1, <1>2 DEF GuardShapes
    <2>3. QED
      BY <1>1, <1>2, <2>1, <2>2 DEF GuardShapes
  <1>10. Checked'
    BY <1>1 DEF Checked, StatementsOf
  <1>11. ASSUME NEW d \in Database
         PROVE  /\ schemas'[d] \subseteq Allowed \cup TouchedBy(Between(1, version'[d]))
                /\ version'[d] > 0 => Allowed \cup TouchedBy(Between(1, version'[d])) \subseteq schemas'[d]
                /\ \A s \in Between(1, version'[d]) : ~Refused(s)
    <2>1. CASE d # target
      BY <1>3, <2>1 DEF Brought
    <2>2. CASE d = target
      <3>1. schemas'[d] \subseteq Allowed \cup TouchedBy(Between(1, head))
        BY <1>3, <1>4, <1>6, <1>7, <2>2
      <3>2. Allowed \cup TouchedBy(Between(1, head)) \subseteq schemas'[d]
        <4>1. CASE v = 0
          <5>1. TouchedBy(Between(1, v)) = {}
            BY <1>8, <4>1 DEF TouchedBy
          <5>2. QED
            BY <1>3, <1>4, <1>7, <2>2, <5>1
        <4>2. CASE v # 0
          <5>1. v > 0
            BY <1>2, <4>2 DEF v
          <5>2. QED
            BY <1>3, <1>4, <1>6, <1>7, <2>2, <5>1
        <4>3. QED
          BY <4>1, <4>2
      <3>3. \A s \in Between(1, head) : ~Refused(s)
        BY <1>5, <1>6, <1>7
      <3>4. QED
        BY <1>3, <2>2, <3>1, <3>2, <3>3
    <2>3. QED
      BY <2>1, <2>2
  <1>12. Brought'
    <2>1. \A d \in Database : Between(1, version[d])' = Between(1, version'[d])
      BY <1>1 DEF Between, StatementsOf
    <2>2. QED
      BY <1>11, <2>1 DEF Brought, TouchedBy
  <1>13. Running'
    BY <1>1 DEF Running
  <1>14. Reported'
    <2>1. head \in Nat /\ version'[target] >= head
      BY <1>2, <1>3
    <2>2. QED
      BY <1>1, <1>2, <2>1 DEF Reported
  <1>15. QED
    BY <1>9, <1>10, <1>12, <1>13, <1>14

\* A run that fails leaves nothing.
LEMMA FailKeeps ==
  ASSUME GInv, FailUpgrade
  PROVE  GInv'
  <1> USE DEF GInv
  <1>1. /\ written' = written /\ version' = version /\ schemas' = schemas
        /\ report' = [result |-> "failed", at |-> target, head |-> head]
        /\ target' = Nowhere /\ head' = 0 /\ todo' = <<>> /\ changed' = {}
    BY DEF FailUpgrade, Stop
  <1>2. GuardShapes'
    <2>1. 0 \in 0..Len(written)
      BY DEF GuardShapes
    <2>2. QED
      BY <1>1, <2>1 DEF GuardShapes
  <1>3. Checked'
    BY <1>1 DEF Checked, StatementsOf
  <1>4. Brought'
    BY <1>1 DEF Brought, TouchedBy, Between, StatementsOf
  <1>5. Running'
    BY <1>1 DEF Running
  <1>6. Reported'
    BY <1>1 DEF Reported, GuardShapes
  <1>7. QED
    BY <1>2, <1>3, <1>4, <1>5, <1>6

\* The invariant of the guards, in the beginning and in each step.
LEMMA InitGInv == MigrationsAssumption /\ MigrationsInit => GInv
  <1> SUFFICES ASSUME MigrationsInit PROVE GInv
    OBVIOUS
  <1>1. /\ written = <<>> /\ version = [d \in Database |-> 0]
        /\ schemas = [d \in Database |-> {}] /\ target = Nowhere /\ head = 0
        /\ todo = <<>> /\ changed = {} /\ report.result = "none" /\ report.head = 0
    BY DEF MigrationsInit
  <1>2. <<>> \in Seq(Written) /\ Len(<<>>) = 0 /\ <<>> \in Seq(Statement)
    OBVIOUS
  <1>3. GuardShapes
    BY <1>1, <1>2 DEF GuardShapes
  <1>4. Checked
    BY <1>1, <1>2 DEF Checked
  <1>5. Brought
    <2>1. \A d \in Database : version[d] = 0 /\ schemas[d] = {}
      BY <1>1
    <2>2. Between(1, 0) = {}
      BY DEF Between
    <2>3. QED
      BY <2>1, <2>2 DEF Brought
  <1>6. Running /\ Reported
    BY <1>1 DEF Running, Reported
  <1>7. QED
    BY <1>3, <1>4, <1>5, <1>6 DEF GInv

\* Each step of a run or of the developers keeps it.
LEMMA NextGInv == MigrationsAssumption /\ GInv /\ [MigrationsNext]_migrationVars => GInv'
  <1> SUFFICES ASSUME MigrationsAssumption, GInv, [MigrationsNext]_migrationVars
               PROVE  GInv'
    OBVIOUS
  <1>1. ASSUME NEW ops \in Revision, NEW generated \in BOOLEAN, AddRevision(ops, generated)
        PROVE  GInv'
    <2>1. \A n \in 1..Len(written) :
            written'[n] = written[n] /\ StatementsOf(n)' = StatementsOf(n)
      <3>1. \A n \in 1..Len(written) : written'[n] = written[n]
        BY <1>1 DEF AddRevision, GInv, GuardShapes
      <3>2. QED
        BY <3>1 DEF StatementsOf
    <2>2. QED
      BY <1>1, <2>1, AddKeeps
  <1>2. ASSUME NEW url \in Url, NEW consent \in BOOLEAN, Upgrade(url, consent) PROVE GInv'
    BY <1>2, UpgradeKeeps
  <1>3. CASE UNCHANGED migrationVars
    <2>1. /\ written' = written /\ version' = version /\ schemas' = schemas /\ report' = report
          /\ target' = target /\ agreed' = agreed /\ head' = head /\ todo' = todo
          /\ changed' = changed
      BY <1>3 DEF migrationVars, upgradeVars
    <2>2. GuardShapes' /\ Checked'
      BY <2>1 DEF GInv, GuardShapes, Checked, StatementsOf
    <2>3. Brought'
      BY <2>1 DEF GInv, Brought, TouchedBy, Between, StatementsOf
    <2>4. Running'
      BY <2>1 DEF GInv, Running, TouchedBy, Between, StatementsOf
    <2>5. Reported'
      BY <2>1 DEF GInv, Reported
    <2>6. QED
      BY <2>2, <2>3, <2>4, <2>5 DEF GInv
  <1>4. QED
    BY <1>1, <1>2, <1>3, ExecuteKeeps, CommitKeeps, FailKeeps DEF MigrationsNext

\* What follows from the invariant.
LEMMA GuardsFollow ==
  ASSUME GInv
  PROVE  TrackerIsKept /\ BareNamesStay /\ GeneratedIsExplicit /\ UpgradeIsWhole
  <1> USE DEF GInv
  <1>1. Len(written) \in Nat /\ \A d \in Database : version[d] \in 0..Len(written)
    BY DEF GuardShapes
  <1>2. \A n \in 1..Len(written) : StatementsOf(n) \subseteq Statement
    BY RevisionIs
  <1>3. \A n \in 1..Len(written) : ToSet(Statements(n, n)) = StatementsOf(n)
    <2>1. ASSUME NEW n \in 1..Len(written)
          PROVE  ToSet(Statements(n, n)) = StatementsOf(n)
      <3>1. n \in Nat \ {0} /\ n \in 0..Len(written) /\ n <= n + 1 /\ n..n = {n}
        BY <1>1
      <3>2. ToSet(Statements(n, n)) = Between(n, n)
        BY <3>1, StatementsAre
      <3>3. QED
        BY <3>1, <3>2 DEF Between
    <2>2. QED
      BY <2>1
  <1>4. \A d \in Database : ToSet(Statements(1, version[d])) = Between(1, version[d])
    <2>1. ASSUME NEW v \in 0..Len(written)
          PROVE  ToSet(Statements(1, v)) = Between(1, v)
      <3>1. 1 <= v + 1 /\ 1 \in Nat \ {0}
        BY <1>1
      <3>2. QED
        BY <3>1, StatementsAre
    <2>2. QED
      BY <1>1, <2>1
  <1>5. TrackerIsKept
    <2>1. ASSUME NEW d \in Database, schemas[d] \cap Forbidden # {}
          PROVE  \E n \in 1..version[d] :
                   /\ ~written[n].generated
                   /\ \E s \in ToSet(Statements(n, n)) :
                        s.form # "objects" /\ s.schemas \cap Forbidden # {}
      <3>1. "tracker" \in schemas[d] /\ "tracker" \notin Allowed
        BY <2>1 DEF Forbidden, Allowed
      <3>2. "tracker" \in TouchedBy(Between(1, version[d]))
        BY <3>1 DEF Brought
      <3>3. PICK n \in 1..version[d] : \E s \in StatementsOf(n) : "tracker" \in Touches(s)
        BY <3>2 DEF TouchedBy, Between
      <3>4. PICK s \in StatementsOf(n) : "tracker" \in Touches(s)
        BY <3>3
      <3>5. n \in 1..Len(written) /\ s \in Statement
        BY <1>1, <1>2, <3>4
      <3>6. "tracker" \in s.schemas
        BY <3>1, <3>4, <3>5, TouchesAre
      <3>7. ~Refused(s)
        BY <3>4 DEF Brought, Between
      <3>8. s.form # "objects"
        BY <3>6, <3>7 DEF Refused, Forbidden
      <3>9. ~written[n].generated
        BY <3>4, <3>5, <3>8 DEF Checked, CheckOp
      <3>10. s \in ToSet(Statements(n, n))
        BY <1>3, <3>4, <3>5
      <3>11. QED
        BY <3>6, <3>8, <3>9, <3>10 DEF Forbidden
    <2>2. QED
      BY <2>1 DEF TrackerIsKept
  <1>6. BareNamesStay
    <2>1. ASSUME NEW d \in Database,
                 \A s \in ToSet(Statements(1, version[d])) : s.schemas \subseteq Allowed
          PROVE  schemas[d] \subseteq Allowed
      <3>1. \A s \in Between(1, version[d]) : s \in Statement /\ s.schemas \subseteq Allowed
        BY <1>1, <1>2, <1>4, <2>1 DEF Between
      <3>2. \A s \in Between(1, version[d]) : Touches(s) \subseteq Allowed
        BY <3>1, TouchesAre
      <3>3. TouchedBy(Between(1, version[d])) \subseteq Allowed
        BY <3>2 DEF TouchedBy
      <3>4. QED
        BY <3>3 DEF Brought
    <2>2. QED
      BY <2>1 DEF BareNamesStay
  <1>7. GeneratedIsExplicit
    BY <1>3 DEF GeneratedIsExplicit, Checked, CheckOp
  <1>8. UpgradeIsWhole
    <2>1. report.result = "ok" => version[report.at] >= report.head
      BY DEF Reported
    <2>2. ASSUME NEW d \in Database, version[d] > 0
          PROVE  schemas[d] = Allowed \cup UNION {Touches(s) : s \in ToSet(Statements(1, version[d]))}
      <3>1. schemas[d] = Allowed \cup TouchedBy(Between(1, version[d]))
        BY <2>2 DEF Brought
      <3>2. QED
        BY <1>4, <3>1 DEF TouchedBy
    <2>3. QED
      BY <2>1, <2>2 DEF UpgradeIsWhole
  <1>9. QED
    BY <1>5, <1>6, <1>7, <1>8

\* Whatever revisions are generated or written by hand, and however runs end:
\* the tracker's schema is changed only by a statement of a revision written by
\* hand that the guard of the run does not see through, a generated revision
\* names its schemas, a run does all or nothing, and only one that was told so
\* changes another database than that of the developers.
THEOREM GuardsAlwaysHold == Spec => GuardsHold
  <1> DEFINE Kept == \A d \in Database \ {Dev} :
               <<version[d], schemas[d]>>' # <<version[d], schemas[d]>> => agreed /\ target = d
  <1>1. Init => GInv
    BY MigrationsAssumption, InitGInv DEF Init
  <1>2. [Next]_vars => [MigrationsNext]_migrationVars
    BY DEF Next, vars
  <1>3. GInv /\ [Next]_vars => GInv'
    BY <1>2, MigrationsAssumption, NextGInv
  <1>4. GInv => TrackerIsKept /\ BareNamesStay /\ GeneratedIsExplicit /\ UpgradeIsWhole
    BY GuardsFollow
  <1>5. GInv /\ [Next]_vars => [Kept]_migrationVars
    <2> SUFFICES ASSUME GInv, [MigrationsNext]_migrationVars, NEW d \in Database \ {Dev},
                        <<version[d], schemas[d]>>' # <<version[d], schemas[d]>>
                 PROVE  agreed /\ target = d
      BY <1>2
    <2>1. version' # version \/ schemas' # schemas
      OBVIOUS
    <2>2. CommitUpgrade
      BY <2>1 DEF MigrationsNext, migrationVars, AddRevision, Upgrade, Execute, FailUpgrade, Stop
    <2>3. target # Nowhere /\ (agreed \/ target = Dev)
      BY <2>2 DEF CommitUpgrade, GInv, Running
    <2>4. target = d
      BY <2>2 DEF CommitUpgrade, GInv, GuardShapes
    <2>5. QED
      BY <2>3, <2>4
  <1> HIDE DEF Kept
  <1>6. Spec => [](TrackerIsKept /\ BareNamesStay /\ GeneratedIsExplicit /\ UpgradeIsWhole)
    BY <1>1, <1>3, <1>4, PTL DEF Spec
  <1>7. Spec => [][Kept]_migrationVars
    BY <1>1, <1>3, <1>5, PTL DEF Spec
  <1>8. QED
    BY <1>6, <1>7 DEF GuardsHold, ProductionNeedsConsent, Kept

-----------------------------------------------------------------------------
(* The import of the tool library.                                         *)

ToolRow == [type : Type, retired : BOOLEAN]
LibraryShapes ==
  /\ types \subseteq Type /\ tools \in [Gtid -> ToolRow \cup {Absent}]
  /\ probes \in [Machine -> Place \cup {Absent}]
  /\ step \in {"idle", "read", "check", "insert"} /\ row \in Nat
  /\ file \in File \cup {Absent} /\ quiet \in File \cup {Absent}
  /\ (step = "idle") = (file = Absent)
  /\ step = "idle" => moved = {} /\ freed = {}
  /\ step \in {"idle", "read"} => DOMAIN upserted = {} /\ given = {}
  /\ \A g \in Gtid : tools[g] # Absent => tools[g].type \in types

(* A file without errors, against the types and the machines of a moment.  *)
Faultless(f, known, guards) ==
  /\ Len(f) > 0
  /\ \A n \in 1..Len(f) :
       /\ f[n].readable /\ f[n].type \in known
       /\ \A k \in 1..(n - 1) : f[k].gtid # f[n].gtid
       /\ f[n].machine # Absent /\ guards[f[n].machine] # Absent =>
            ~Reserved(guards[f[n].machine], Wish(f[n]).t, Wish(f[n]).h)

(* Of what was looked up, the types are still there and the probes that did *)
(* not move are where they were.                                            *)
LookedUp ==
  step # "idle" =>
    /\ row > 0 /\ (step = "read" => row = 1) /\ looked.types \subseteq types
    /\ \A m \in Machine \ moved : looked.probes[m] = probes[m]

(* An import holds the tools of its whole file as they will be, has passed *)
(* no row over whose T number is free, and gives only what its file asks.  *)
Importing ==
  step \in {"check", "insert"} =>
    /\ Faultless(file, looked.types, looked.probes)
    /\ DOMAIN upserted = {file[n].gtid : n \in 1..Len(file)}
    /\ \A n \in 1..Len(file) : upserted[file[n].gtid] = Upserted(file[n])
    /\ row \in 1..(Len(file) + 1)
    /\ step = "insert" => row <= Len(file) /\ Wishes(file[row])
    /\ \A n \in 1..(row - 1) : Wishes(file[n]) =>
         \E a \in assigned \cup given \cup freed :
           a.machine = file[n].machine /\ a.t = file[n].t
    /\ \A a \in given : \E n \in 1..Len(file) : Wishes(file[n]) /\ a = Wish(file[n])

NoneCollide == \A a, b \in assigned \cup given : a # b => ~Collide(a, b)

(* A file that was just imported is in the library, and importing it again *)
(* meets what it met.                                                      *)
JustImported ==
  quiet # Absent =>
    /\ Faultless(quiet, types, probes)
    /\ \A n \in 1..Len(quiet) :
         /\ tools[quiet[n].gtid] # Absent /\ tools[quiet[n].gtid].type = quiet[n].type
         /\ quiet[n].machine # Absent /\ probes[quiet[n].machine] # Absent =>
              \E a \in assigned : a.machine = quiet[n].machine /\ a.t = quiet[n].t
    /\ step # "idle" => looked.types = types /\ looked.probes = probes /\ freed = {}
    /\ step # "idle" /\ file = quiet => step # "insert" /\ given = {}

LInv == LibraryShapes /\ LookedUp /\ Importing /\ NoneCollide /\ JustImported

\* The rows of a file.
LEMMA FileIs ==
  ASSUME NEW f \in File
  PROVE  /\ Len(f) \in Nat /\ ToSet(f) = {f[n] : n \in 1..Len(f)} /\ f # Absent
         /\ \A n \in 1..Len(f) :
              f[n].gtid \in Gtid /\ f[n].type \in Type /\ f[n].machine \in Machine \cup {Absent}
  <1> DEFINE Line == [gtid : Gtid, type : Type, machine : Machine \cup {Absent},
                      t : Nat \cup {Absent}, h : Nat \cup {Absent}, readable : BOOLEAN]
  <1>1. f \in Seq(Line) /\ f # Absent
    BY ImportAssumption DEF ImportAssumption
  <1>2. \A r \in Line : r.gtid \in Gtid /\ r.type \in Type /\ r.machine \in Machine \cup {Absent}
    OBVIOUS
  <1> HIDE DEF Line
  <1>3. Len(f) \in Nat /\ DOMAIN f = 1..Len(f) /\ \A n \in 1..Len(f) : f[n] \in Line
    BY <1>1
  <1>4. QED
    BY <1>1, <1>2, <1>3 DEF ToSet

\* What is written is the whole of a file without errors.
LEMMA WantedIs ==
  ASSUME file \in File
  PROVE  Wanted # {} => /\ Faultless(file, looked.types, looked.probes)
                        /\ Wanted = ToSet(file)
  <1>1. Len(file) \in Nat /\ ToSet(file) = {file[n] : n \in 1..Len(file)}
    BY FileIs
  <1>2. ASSUME NEW n \in 1..Len(file), ~Wrong(n)
        PROVE  /\ file[n].readable /\ file[n].type \in looked.types
               /\ \A k \in 1..(n - 1) : file[k].gtid # file[n].gtid
               /\ file[n].machine # Absent /\ looked.probes[file[n].machine] # Absent =>
                    ~Reserved(looked.probes[file[n].machine], Wish(file[n]).t, Wish(file[n]).h)
    BY <1>2 DEF Wrong, Locked, Wishes
  <1>3. ASSUME Wanted # {}
        PROVE  /\ \A n \in 1..Len(file) : ~Wrong(n)
               /\ Wanted = ToSet(file)
    BY <1>3 DEF Wanted
  <1>4. ASSUME ToSet(file) # {} PROVE Len(file) > 0
    BY <1>1, <1>4
  <1>5. QED
    BY <1>2, <1>3, <1>4 DEF Faultless

\* And of one without errors the whole is written.
LEMMA FaultlessIsWanted ==
  ASSUME file \in File, Faultless(file, looked.types, looked.probes)
  PROVE  Wanted = ToSet(file) /\ Wanted # {}
  <1>1. Len(file) \in Nat /\ ToSet(file) = {file[n] : n \in 1..Len(file)}
    BY FileIs
  <1>2. \A n \in 1..Len(file) : ~Wrong(n)
    BY DEF Faultless, Wrong, Locked, Wishes
  <1>3. file[1] \in ToSet(file)
    BY <1>1 DEF Faultless
  <1>4. QED
    BY <1>2, <1>3 DEF Wanted

\* A request is no step of the import, and ends the quiet.
LEMMA CreateTypeKeeps ==
  ASSUME LInv, NEW ty \in Type, CreateType(ty)
  PROVE  LInv'
  <1> USE DEF LInv
  <1>1. /\ types' = types \cup {ty} /\ quiet' = Absent
        /\ UNCHANGED <<tools, probes, assigned, moved, freed, step, file, looked, row, upserted, given>>
    BY DEF CreateType, Request, importVars
  <1>2. LibraryShapes'
    BY <1>1 DEF LibraryShapes
  <1>3. LookedUp'
    BY <1>1 DEF LookedUp
  <1>4. Importing'
    BY <1>1 DEF Importing, Upserted, Wishes
  <1>5. NoneCollide' /\ JustImported'
    BY <1>1 DEF NoneCollide, JustImported
  <1>6. QED
    BY <1>2, <1>3, <1>4, <1>5

\* A probe that moves under an import is known to have moved.
LEMMA SetProbeKeeps ==
  ASSUME LInv, NEW m \in Machine, NEW p \in Place, SetProbe(m, p)
  PROVE  LInv'
  <1> USE DEF LInv
  <1>1. /\ probes' = [probes EXCEPT ![m] = p] /\ quiet' = Absent
        /\ moved' = IF step = "idle" THEN moved ELSE moved \cup {m}
        /\ UNCHANGED <<types, tools, assigned, freed, step, file, looked, row, upserted, given>>
    BY DEF SetProbe, Request, importVars
  <1>2. LibraryShapes'
    BY <1>1 DEF LibraryShapes
  <1>3. LookedUp'
    BY <1>1 DEF LookedUp, LibraryShapes
  <1>4. Importing'
    BY <1>1 DEF Importing, Upserted, Wishes
  <1>5. NoneCollide' /\ JustImported'
    BY <1>1 DEF NoneCollide, JustImported
  <1>6. QED
    BY <1>2, <1>3, <1>4, <1>5

\* The tools that the import has written are its own.
LEMMA SetToolKeeps ==
  ASSUME LInv, NEW g \in Gtid, NEW t \in ToolRow, t.type \in types, SetTool(g, t)
  PROVE  LInv'
  <1> USE DEF LInv
  <1>1. /\ g \notin DOMAIN upserted /\ tools' = [tools EXCEPT ![g] = t] /\ quiet' = Absent
        /\ UNCHANGED <<types, probes, assigned, moved, freed, step, file, looked, row, upserted, given>>
    BY DEF SetTool, Request, importVars
  <1>2. tools'[g] = t /\ \A k \in Gtid : k # g => tools'[k] = tools[k]
    BY <1>1 DEF LibraryShapes
  <1>3. LibraryShapes'
    BY <1>1, <1>2 DEF LibraryShapes
  <1>4. LookedUp'
    BY <1>1 DEF LookedUp
  <1>5. ASSUME step \in {"check", "insert"}
        PROVE  \A n \in 1..Len(file) : tools'[file[n].gtid] = tools[file[n].gtid]
    <2>1. file \in File
      BY <1>5 DEF LibraryShapes
    <2>2. \A n \in 1..Len(file) : file[n].gtid \in Gtid /\ file[n].gtid \in DOMAIN upserted
      BY <1>5, <2>1, FileIs DEF Importing
    <2>3. QED
      BY <1>1, <1>2, <2>2
  <1>6. Importing'
    BY <1>1, <1>5 DEF Importing, Upserted, Wishes
  <1>7. NoneCollide' /\ JustImported'
    BY <1>1 DEF NoneCollide, JustImported
  <1>8. QED
    BY <1>3, <1>4, <1>6, <1>7

\* What one gives to a tool collides with nothing, and what one deletes under
\* an import is known to it.
LEMMA AssignKeeps ==
  ASSUME LInv, NEW a, Assign(a) \/ Unassign(a)
  PROVE  LInv'
  <1> USE DEF LInv
  <1>1. /\ quiet' = Absent
        /\ UNCHANGED <<types, tools, probes, moved, step, file, looked, row, upserted, given>>
        /\ freed \subseteq freed' /\ (step = "idle" => freed' = freed)
    BY DEF Assign, Unassign, Request, importVars
  <1>2. assigned \cup freed \subseteq assigned' \cup freed' \/ step = "idle"
    BY DEF Assign, Unassign
  <1>3. LibraryShapes'
    BY <1>1 DEF LibraryShapes
  <1>4. LookedUp'
    BY <1>1 DEF LookedUp
  <1>5. Importing'
    <2>1. CASE step \notin {"check", "insert"}
      BY <1>1, <2>1 DEF Importing
    <2>2. CASE step \in {"check", "insert"}
      <3>1. \A n \in 1..(row - 1) : Wishes(file[n]) =>
              \E b \in assigned' \cup given \cup freed' :
                b.machine = file[n].machine /\ b.t = file[n].t
        BY <1>2, <2>2 DEF Importing
      <3>2. QED
        BY <1>1, <2>2, <3>1 DEF Importing, Upserted, Wishes
    <2>3. QED
      BY <2>1, <2>2
  <1>6. NoneCollide'
    <2>1. CASE Assign(a)
      <3>1. assigned' = assigned \cup {a} /\ \A b \in assigned \cup given : ~Collide(a, b)
        BY <2>1 DEF Assign
      <3>2. \A b \in assigned \cup given : ~Collide(b, a)
        BY <3>1 DEF Collide
      <3>3. QED
        BY <1>1, <3>1, <3>2 DEF NoneCollide
    <2>2. CASE Unassign(a)
      BY <1>1, <2>2 DEF NoneCollide, Unassign
    <2>3. QED
      BY <2>1, <2>2
  <1>7. JustImported'
    BY <1>1 DEF JustImported
  <1>8. QED
    BY <1>3, <1>4, <1>5, <1>6, <1>7

\* What the look-up saw is what is there.
LEMMA StartKeeps ==
  ASSUME LInv, NEW f \in File, StartImport(f)
  PROVE  LInv'
  <1> USE DEF LInv
  <1>1. /\ step = "idle" /\ step' = "read" /\ file' = f /\ row' = 1
        /\ looked' = [types |-> types, probes |-> probes]
        /\ UNCHANGED <<types, tools, probes, assigned, upserted, given, quiet, moved, freed>>
    BY DEF StartImport, libVars, histVars
  <1>2. f # Absent /\ moved = {} /\ freed = {} /\ DOMAIN upserted = {} /\ given = {}
    BY <1>1, FileIs DEF LibraryShapes
  <1>3. LibraryShapes'
    BY <1>1, <1>2 DEF LibraryShapes
  <1>4. LookedUp'
    BY <1>1 DEF LookedUp
  <1>5. Importing'
    BY <1>1 DEF Importing
  <1>6. NoneCollide'
    BY <1>1 DEF NoneCollide
  <1>7. JustImported'
    BY <1>1, <1>2 DEF JustImported
  <1>8. QED
    BY <1>3, <1>4, <1>5, <1>6, <1>7

\* A file names a tool once, so that each gets what its own row says.
LEMMA UpsertKeeps ==
  ASSUME LInv, Upsert
  PROVE  LInv'
  <1> USE DEF LInv
  <1>1. /\ step = "read" /\ Wanted # {} /\ step' = "check"
        /\ upserted' = [g \in {r.gtid : r \in Wanted} |->
                          Upserted(CHOOSE r \in Wanted : r.gtid = g)]
        /\ UNCHANGED <<types, tools, probes, assigned, file, looked, row, given, quiet, moved, freed>>
    BY DEF Upsert, libVars, histVars
  <1>2. file \in File /\ given = {}
    BY <1>1 DEF LibraryShapes
  <1>3. Len(file) \in Nat /\ ToSet(file) = {file[n] : n \in 1..Len(file)}
    BY <1>2, FileIs
  <1>4. Faultless(file, looked.types, looked.probes) /\ Wanted = ToSet(file)
    BY <1>1, <1>2, WantedIs
  <1>5. \A n, k \in 1..Len(file) : file[k].gtid = file[n].gtid => k = n
    <2>1. ASSUME NEW n \in 1..Len(file), NEW k \in 1..Len(file), file[k].gtid = file[n].gtid, k # n
          PROVE  FALSE
      <3>1. k \in 1..(n - 1) \/ n \in 1..(k - 1)
        BY <1>3, <2>1
      <3>2. QED
        BY <1>4, <2>1, <3>1 DEF Faultless
    <2>2. QED
      BY <2>1
  <1>6. DOMAIN upserted' = {file[n].gtid : n \in 1..Len(file)}
    BY <1>1, <1>3, <1>4
  <1>7. ASSUME NEW n \in 1..Len(file)
        PROVE  upserted'[file[n].gtid] = Upserted(file[n])
    <2> DEFINE c == CHOOSE r \in Wanted : r.gtid = file[n].gtid
    <2>1. file[n] \in Wanted
      BY <1>3, <1>4
    <2>2. c \in Wanted /\ c.gtid = file[n].gtid
      BY <2>1
    <2>3. upserted'[file[n].gtid] = Upserted(c)
      BY <1>1, <2>1
    <2> HIDE DEF c
    <2>4. PICK k \in 1..Len(file) : c = file[k]
      BY <1>3, <1>4, <2>2
    <2>5. k = n
      BY <1>5, <2>2, <2>4
    <2>6. QED
      BY <2>3, <2>4, <2>5
  <1>8. row \in 1..(Len(file) + 1) /\ 1..(row - 1) = {}
    <2>1. row = 1
      BY <1>1 DEF LookedUp
    <2>2. QED
      BY <1>3, <2>1
  <1>9. LibraryShapes'
    BY <1>1 DEF LibraryShapes
  <1>10. LookedUp'
    BY <1>1 DEF LookedUp
  <1>11. Importing'
    <2>1. \A n \in 1..Len(file) : (Upserted(file[n]))' = Upserted(file[n])
      BY <1>1 DEF Upserted
    <2>2. /\ Faultless(file, looked.types, looked.probes)'
          /\ DOMAIN upserted' = {file'[n].gtid : n \in 1..Len(file')}
      BY <1>1, <1>4, <1>6
    <2>3. \A n \in 1..Len(file) : upserted'[file[n].gtid] = (Upserted(file[n]))'
      BY <1>7, <2>1
    <2>4. (\A n \in 1..Len(file) : upserted[file[n].gtid] = Upserted(file[n]))'
      BY <1>1, <2>3
    <2>5. row' \in 1..(Len(file') + 1) /\ step' = "check" /\ given' = {}
      BY <1>1, <1>2, <1>8
    <2>6. \A n \in 1..(row' - 1) : FALSE
      BY <1>1, <1>8
    <2>7. QED
      BY <2>2, <2>4, <2>5, <2>6 DEF Importing
  <1>12. NoneCollide'
    BY <1>1 DEF NoneCollide
  <1>13. JustImported'
    BY <1>1, <1>2 DEF JustImported
  <1>14. QED
    BY <1>9, <1>10, <1>11, <1>12, <1>13

\* A row is passed over when it asks for nothing or its T number is taken.
LEMMA CheckRowKeeps ==
  ASSUME LInv, CheckRow
  PROVE  LInv'
  <1> USE DEF LInv
  <1>1. /\ step = "check" /\ row <= Len(file)
        /\ \/ Wishes(file[row]) /\ ~Taken(Wish(file[row])) /\ step' = "insert" /\ row' = row
           \/ /\ ~(file[row] \in Wanted /\ Wishes(file[row]) /\ ~Taken(Wish(file[row])))
              /\ row' = row + 1 /\ step' = step
        /\ UNCHANGED <<types, tools, probes, assigned, file, looked, upserted, given, quiet, moved, freed>>
    BY DEF CheckRow, libVars, histVars
  <1>2. file \in File /\ file # Absent
    BY <1>1, FileIs DEF LibraryShapes
  <1>3. Len(file) \in Nat /\ ToSet(file) = {file[n] : n \in 1..Len(file)}
    BY <1>2, FileIs
  <1>4. Faultless(file, looked.types, looked.probes) /\ row \in 1..Len(file)
    BY <1>1, <1>3 DEF Importing
  <1>5. file[row] \in Wanted
    BY <1>2, <1>3, <1>4, FaultlessIsWanted
  <1>6. \/ Wishes(file[row]) /\ ~Taken(Wish(file[row])) /\ step' = "insert" /\ row' = row
        \/ (Wishes(file[row]) => Taken(Wish(file[row]))) /\ step' = "check" /\ row' = row + 1
    BY <1>1, <1>5
  <1>7. LibraryShapes'
    BY <1>1, <1>2, <1>4, <1>6 DEF LibraryShapes
  <1>8. LookedUp'
    BY <1>1, <1>4, <1>6 DEF LookedUp
  <1>9. Importing'
    <2>1. row' \in 1..(Len(file) + 1) /\ (step' = "insert" => row' <= Len(file) /\ Wishes(file[row']))
      BY <1>3, <1>4, <1>6
    <2>2. ASSUME NEW n \in 1..(row' - 1), Wishes(file[n])
          PROVE  \E a \in assigned \cup given \cup freed :
                   a.machine = file[n].machine /\ a.t = file[n].t
      <3>1. CASE n \in 1..(row - 1)
        BY <1>1, <2>2, <3>1 DEF Importing
      <3>2. CASE n = row /\ step' = "check"
        <4>1. Taken(Wish(file[n]))
          BY <1>6, <2>2, <3>2
        <4>2. Wish(file[n]).machine = file[n].machine /\ Wish(file[n]).t = file[n].t
          BY DEF Wish
        <4>3. QED
          BY <4>1, <4>2 DEF Taken
      <3>3. QED
        BY <1>3, <1>4, <1>6, <3>1, <3>2
    <2>3. \A n \in 1..Len(file) : (Upserted(file[n]))' = Upserted(file[n])
      BY <1>1 DEF Upserted
    <2>4. \A r : Wishes(r)' = Wishes(r)
      BY <1>1 DEF Wishes
    <2>5. \A n \in 1..(row' - 1) : Wishes(file[n])' =>
            \E a \in assigned' \cup given' \cup freed' :
              a.machine = file'[n].machine /\ a.t = file'[n].t
      BY <1>1, <2>2, <2>4
    <2>6. \A a \in given' : \E n \in 1..Len(file') : Wishes(file[n])' /\ a = Wish(file'[n])
      BY <1>1, <2>4 DEF Importing
    <2>7. step' = "insert" => row' <= Len(file') /\ Wishes(file[row])'
      BY <1>1, <2>1 DEF Wishes
    <2>8. \A n \in 1..Len(file') : upserted'[file'[n].gtid] = (Upserted(file[n]))'
      BY <1>1, <2>3 DEF Importing
    <2>9. /\ Faultless(file, looked.types, looked.probes)'
          /\ DOMAIN upserted' = {file'[n].gtid : n \in 1..Len(file')}
      BY <1>1, <1>4 DEF Importing
    <2>10. QED
      BY <1>1, <2>1, <2>5, <2>6, <2>7, <2>8, <2>9 DEF Importing
  <1>10. NoneCollide'
    BY <1>1 DEF NoneCollide
  <1>11. JustImported'
    <2>1. ASSUME quiet # Absent, file = quiet, Wishes(file[row]), ~Taken(Wish(file[row]))
          PROVE  FALSE
      <3>1. looked.probes = probes
        BY <1>1, <2>1 DEF JustImported
      <3>2. file[row].machine # Absent /\ probes[file[row].machine] # Absent
        BY <2>1, <3>1 DEF Wishes
      <3>3. \E a \in assigned : a.machine = file[row].machine /\ a.t = file[row].t
        BY <1>4, <2>1, <3>2 DEF JustImported
      <3>4. Wish(file[row]).machine = file[row].machine /\ Wish(file[row]).t = file[row].t
        BY DEF Wish
      <3>5. QED
        BY <2>1, <3>3, <3>4 DEF Taken
    <2>2. quiet # Absent /\ file = quiet => step' # "insert"
      BY <1>6, <2>1
    <2>3. QED
      BY <1>1, <1>2, <2>2 DEF JustImported
  <1>12. QED
    BY <1>7, <1>8, <1>9, <1>10, <1>11

\* A row is given what nobody has.
LEMMA InsertRowKeeps ==
  ASSUME LInv, InsertRow
  PROVE  LInv'
  <1> USE DEF LInv
  <1> DEFINE a == Wish(file[row])
  <1>1. /\ step = "insert" /\ \A b \in assigned \cup given : ~Collide(a, b)
        /\ given' = given \cup {a} /\ row' = row + 1 /\ step' = "check"
        /\ UNCHANGED <<types, tools, probes, assigned, file, looked, upserted, quiet, moved, freed>>
    BY DEF InsertRow, libVars, histVars
  <1>2. file \in File /\ file # Absent /\ Len(file) \in Nat
    BY <1>1, FileIs DEF LibraryShapes
  <1>3. row \in 1..Len(file) /\ Wishes(file[row])
    BY <1>1, <1>2 DEF Importing
  <1>4. a.machine = file[row].machine /\ a.t = file[row].t
    BY DEF Wish
  <1>5. LibraryShapes'
    BY <1>1, <1>2, <1>3 DEF LibraryShapes
  <1>6. LookedUp'
    BY <1>1, <1>3 DEF LookedUp
  <1> HIDE DEF a
  <1>7. Importing'
    <2>1. row' \in 1..(Len(file) + 1)
      BY <1>1, <1>2, <1>3
    <2>2. ASSUME NEW n \in 1..(row' - 1), Wishes(file[n])
          PROVE  \E b \in assigned \cup given' \cup freed :
                   b.machine = file[n].machine /\ b.t = file[n].t
      <3>1. CASE n \in 1..(row - 1)
        BY <1>1, <2>2, <3>1 DEF Importing
      <3>2. CASE n = row
        BY <1>1, <1>4, <3>2
      <3>3. QED
        BY <1>1, <1>2, <1>3, <3>1, <3>2
    <2>3. \A b \in given' : \E n \in 1..Len(file) : Wishes(file[n]) /\ b = Wish(file[n])
      BY <1>1, <1>3 DEF Importing, a
    <2>4. \A n \in 1..(row' - 1) : Wishes(file[n])' =>
            \E b \in assigned' \cup given' \cup freed' :
              b.machine = file'[n].machine /\ b.t = file'[n].t
      BY <1>1, <2>2 DEF Wishes
    <2>5. \A b \in given' : \E n \in 1..Len(file') : Wishes(file[n])' /\ b = Wish(file'[n])
      BY <1>1, <2>3 DEF Wishes
    <2>6. \A n \in 1..Len(file') : upserted'[file'[n].gtid] = (Upserted(file[n]))'
      BY <1>1 DEF Importing, Upserted
    <2>7. /\ Faultless(file, looked.types, looked.probes)'
          /\ DOMAIN upserted' = {file'[n].gtid : n \in 1..Len(file')}
          /\ row' \in 1..(Len(file') + 1) /\ step' # "insert"
      BY <1>1, <2>1 DEF Importing
    <2>8. QED
      BY <2>4, <2>5, <2>6, <2>7 DEF Importing
  <1>8. NoneCollide'
    <2>1. \A b \in assigned \cup given : ~Collide(b, a)
      BY <1>1 DEF Collide
    <2>2. QED
      BY <1>1, <2>1 DEF NoneCollide
  <1>9. JustImported'
    BY <1>1, <1>2 DEF JustImported
  <1>10. QED
    BY <1>5, <1>6, <1>7, <1>8, <1>9

\* An import that is rolled back leaves what was there.
LEMMA RollbackKeeps ==
  ASSUME LInv, Finish, UNCHANGED <<libVars, quiet>>
  PROVE  LInv'
  <1> USE DEF LInv
  <1>1. /\ step' = "idle" /\ file' = Absent /\ row' = 0 /\ upserted' = None /\ given' = {}
        /\ moved' = {} /\ freed' = {}
        /\ UNCHANGED <<types, tools, probes, assigned, quiet>>
    BY DEF Finish, libVars
  <1>2. DOMAIN None = {}
    BY DEF None
  <1>3. LibraryShapes'
    BY <1>1, <1>2 DEF LibraryShapes
  <1>4. LookedUp' /\ Importing'
    BY <1>1 DEF LookedUp, Importing
  <1>5. NoneCollide'
    BY <1>1 DEF NoneCollide
  <1>6. JustImported'
    BY <1>1 DEF JustImported
  <1>7. QED
    BY <1>3, <1>4, <1>5, <1>6

\* What the import writes of a tool.
LEMMA UpsertedIs ==
  ASSUME LInv, step \in {"check", "insert"}
  PROVE  /\ \A n \in 1..Len(file) :
              /\ file[n].gtid \in DOMAIN upserted
              /\ upserted[file[n].gtid].type = file[n].type
         /\ \A g \in DOMAIN upserted :
              /\ g \in Gtid /\ upserted[g] \in ToolRow /\ upserted[g].type \in types
              /\ tools[g] # Absent => upserted[g].retired = tools[g].retired
  <1> USE DEF LInv
  <1>1. file \in File
    BY DEF LibraryShapes
  <1>2. ASSUME NEW n \in 1..Len(file)
        PROVE  LET g == file[n].gtid IN
               /\ g \in Gtid /\ g \in DOMAIN upserted
               /\ upserted[g] \in ToolRow /\ upserted[g].type = file[n].type
               /\ upserted[g].type \in types
               /\ tools[g] # Absent => upserted[g].retired = tools[g].retired
    <2> DEFINE g == file[n].gtid
    <2>1. g \in Gtid /\ file[n].type \in Type
      BY <1>1, FileIs
    <2>2. g \in DOMAIN upserted /\ upserted[g] = Upserted(file[n])
      BY DEF Importing
    <2>3. tools[g] \in ToolRow \cup {Absent}
      BY <2>1 DEF LibraryShapes
    <2>4. file[n].type \in types
      BY DEF Importing, Faultless, LookedUp
    <2>5. /\ Upserted(file[n]) \in ToolRow /\ Upserted(file[n]).type = file[n].type
          /\ tools[g] # Absent => Upserted(file[n]).retired = tools[g].retired
      BY <2>1, <2>3 DEF Upserted, ToolRow
    <2>6. QED
      BY <2>1, <2>2, <2>4, <2>5
  <1>3. \A g \in DOMAIN upserted : \E n \in 1..Len(file) : g = file[n].gtid
    BY DEF Importing
  <1>4. QED
    BY <1>2, <1>3

\* The commit puts the file in the library.
LEMMA CommitImportKeeps ==
  ASSUME LInv, CommitImport
  PROVE  LInv'
  <1> USE DEF LInv
  <1>1. /\ step = "check" /\ row > Len(file)
        /\ tools' = [g \in Gtid |-> IF g \in DOMAIN upserted THEN upserted[g] ELSE tools[g]]
        /\ assigned' = assigned \cup given
        /\ quiet' = IF moved \cup freed = {} THEN file ELSE Absent
        /\ step' = "idle" /\ file' = Absent /\ row' = 0 /\ upserted' = None /\ given' = {}
        /\ moved' = {} /\ freed' = {} /\ UNCHANGED <<types, probes>>
    BY DEF CommitImport, Finish
  <1>2. file \in File /\ Len(file) \in Nat
    BY <1>1, FileIs DEF LibraryShapes
  <1>3. \A g \in DOMAIN upserted : g \in Gtid /\ upserted[g] \in ToolRow /\ upserted[g].type \in types
    BY <1>1, UpsertedIs
  <1>4. DOMAIN None = {} /\ Absent \notin ToolRow
    BY ImportAssumption DEF None, ImportAssumption, ToolRow
  <1>5. tools' \in [Gtid -> ToolRow \cup {Absent}] /\ \A g \in Gtid : tools'[g] # Absent => tools'[g].type \in types
    BY <1>1, <1>3 DEF LibraryShapes
  <1>6. LibraryShapes'
    BY <1>1, <1>2, <1>4, <1>5 DEF LibraryShapes
  <1>7. LookedUp' /\ Importing'
    BY <1>1 DEF LookedUp, Importing
  <1>8. NoneCollide'
    BY <1>1 DEF NoneCollide
  <1>9. ASSUME moved = {}, freed = {}
        PROVE  /\ Faultless(file, types, probes)
               /\ \A n \in 1..Len(file) :
                    /\ tools'[file[n].gtid] # Absent /\ tools'[file[n].gtid].type = file[n].type
                    /\ file[n].machine # Absent /\ probes[file[n].machine] # Absent =>
                         \E a \in assigned' : a.machine = file[n].machine /\ a.t = file[n].t
    <2>1. Faultless(file, looked.types, looked.probes) /\ looked.types \subseteq types
      BY <1>1 DEF Importing, LookedUp
    <2>2. ASSUME NEW n \in 1..Len(file), file[n].machine # Absent
          PROVE  looked.probes[file[n].machine] = probes[file[n].machine]
      <3>1. file[n].machine \in Machine
        BY <1>2, <2>2, FileIs
      <3>2. QED
        BY <1>1, <1>9, <3>1 DEF LookedUp
    <2>3. Faultless(file, types, probes)
      BY <2>1, <2>2 DEF Faultless
    <2>4. ASSUME NEW n \in 1..Len(file)
          PROVE  tools'[file[n].gtid] # Absent /\ tools'[file[n].gtid].type = file[n].type
      <3>1. file[n].gtid \in DOMAIN upserted /\ upserted[file[n].gtid].type = file[n].type
        BY <1>1, UpsertedIs
      <3>2. QED
        BY <1>1, <1>3, <1>4, <3>1
    <2>5. ASSUME NEW n \in 1..Len(file), file[n].machine # Absent, probes[file[n].machine] # Absent
          PROVE  \E a \in assigned' : a.machine = file[n].machine /\ a.t = file[n].t
      <3>1. Wishes(file[n])
        BY <2>2, <2>5 DEF Wishes
      <3>2. n \in 1..(row - 1)
        BY <1>1, <1>2 DEF Importing
      <3>3. \E a \in assigned \cup given \cup freed : a.machine = file[n].machine /\ a.t = file[n].t
        BY <1>1, <3>1, <3>2 DEF Importing
      <3>4. QED
        BY <1>1, <1>9, <3>3
    <2>6. QED
      BY <2>3, <2>4, <2>5
  <1>10. JustImported'
    <2>1. CASE moved = {} /\ freed = {}
      <3>1. quiet' = file /\ step' = "idle"
        BY <1>1, <2>1
      <3>2. (Faultless(quiet, types, probes))'
        BY <1>1, <1>9, <2>1, <3>1 DEF Faultless, Reserved, Wish
      <3>3. QED
        BY <1>1, <1>9, <2>1, <3>1, <3>2 DEF JustImported
    <2>2. CASE ~(moved = {} /\ freed = {})
      <3>1. quiet' = Absent
        BY <1>1, <2>2
      <3>2. QED
        BY <3>1 DEF JustImported
    <2>3. QED
      BY <2>1, <2>2
  <1>11. QED
    BY <1>6, <1>7, <1>8, <1>10

\* The invariant of the library, in the beginning, in each step and for good.
LEMMA InitLInv == ImportAssumption /\ LibraryInit => LInv
  <1>1. Absent \notin File
    BY ImportAssumption DEF ImportAssumption
  <1>2. DOMAIN None = {}
    BY DEF None
  <1>3. QED
    BY <1>1, <1>2 DEF LibraryInit, LInv, LibraryShapes, LookedUp, Importing, NoneCollide, JustImported

\* Each request and each step of the import keeps it.
LEMMA NextLInv == LInv /\ [LibraryNext]_libraryVars => LInv'
  <1> SUFFICES ASSUME LInv, [LibraryNext]_libraryVars PROVE LInv'
    OBVIOUS
  <1>1. ASSUME NEW ty \in Type, CreateType(ty) PROVE LInv'
    BY <1>1, CreateTypeKeeps
  <1>2. ASSUME NEW m \in Machine, NEW p \in Place, SetProbe(m, p) PROVE LInv'
    BY <1>2, SetProbeKeeps
  <1>3. types \subseteq Type
    BY DEF LInv, LibraryShapes
  <1>4. ASSUME NEW g \in Gtid, tools[g] # Absent
        PROVE  tools[g] \in ToolRow /\ tools[g].type \in types
    BY <1>4 DEF LInv, LibraryShapes
  <1>5. ASSUME NEW g \in Gtid, NEW ty \in Type, CreateTool(g, ty) PROVE LInv'
    <2>1. [type |-> ty, retired |-> FALSE] \in ToolRow
      BY DEF ToolRow
    <2>2. QED
      BY <1>5, <2>1, SetToolKeeps DEF CreateTool
  <1>6. ASSUME NEW g \in Gtid, NEW ty \in Type, UpdateTool(g, ty) PROVE LInv'
    <2> DEFINE t == [tools[g] EXCEPT !.type = ty]
    <2>1. tools[g] # Absent /\ ty \in types /\ SetTool(g, t)
      BY <1>6 DEF UpdateTool
    <2>2. t \in ToolRow /\ t.type = ty
      BY <1>4, <2>1 DEF ToolRow
    <2>3. QED
      BY <2>1, <2>2, SetToolKeeps
  <1>7. ASSUME NEW g \in Gtid, NEW forced \in BOOLEAN, RetireTool(g, forced) PROVE LInv'
    <2> DEFINE t == [tools[g] EXCEPT !.retired = TRUE]
    <2>1. tools[g] # Absent /\ SetTool(g, t)
      BY <1>7 DEF RetireTool
    <2>2. t \in ToolRow /\ t.type \in types
      BY <1>4, <2>1 DEF ToolRow
    <2>3. QED
      BY <2>1, <2>2, SetToolKeeps
  <1>8. ASSUME NEW g \in Gtid, NEW copy \in Gtid, DuplicateTool(g, copy) PROVE LInv'
    <2> DEFINE t == [tools[g] EXCEPT !.retired = FALSE]
    <2>1. tools[g] # Absent /\ SetTool(copy, t)
      BY <1>8 DEF DuplicateTool
    <2>2. t \in ToolRow /\ t.type \in types
      BY <1>4, <2>1 DEF ToolRow
    <2>3. QED
      BY <2>1, <2>2, SetToolKeeps
  <1>9. ASSUME NEW a, Assign(a) \/ (a \in assigned /\ Unassign(a)) PROVE LInv'
    BY <1>9, AssignKeeps
  <1>10. ASSUME NEW f \in File, StartImport(f) PROVE LInv'
    BY <1>10, StartKeeps
  <1>11. ASSUME RefuseImport \/ AbandonImport PROVE LInv'
    BY <1>11, RollbackKeeps DEF RefuseImport, AbandonImport
  <1>12. CASE UNCHANGED libraryVars
    <2>1. UNCHANGED <<types, tools, probes, assigned, step, file, looked, row, upserted, given, quiet, moved, freed>>
      BY <1>12 DEF libraryVars, libVars, importVars, histVars
    <2>2. LibraryShapes' /\ LookedUp' /\ NoneCollide'
      BY <2>1 DEF LInv, LibraryShapes, LookedUp, NoneCollide
    <2>3. Importing'
      BY <2>1 DEF LInv, Importing, Upserted, Wishes
    <2>4. JustImported'
      BY <2>1 DEF LInv, JustImported
    <2>5. QED
      BY <2>2, <2>3, <2>4 DEF LInv
  <1>13. ASSUME NEW g \in Gtid, NEW m \in Machine, NEW p \in Place,
               Assign([gtid |-> g, machine |-> m, t |-> p.t, h |-> p.h])
         PROVE  LInv'
    <2> DEFINE a == [gtid |-> g, machine |-> m, t |-> p.t, h |-> p.h]
    <2>1. Assign(a)
      BY <1>13
    <2> HIDE DEF a
    <2>2. QED
      BY <2>1, AssignKeeps
  <1>14. ASSUME NEW a \in assigned, Unassign(a) PROVE LInv'
    BY <1>9, <1>14
  <1>15. ASSUME Upsert \/ CheckRow \/ InsertRow \/ CommitImport PROVE LInv'
    BY <1>15, UpsertKeeps, CheckRowKeeps, InsertRowKeeps, CommitImportKeeps
  <1>16. QED
    BY <1>1, <1>2, <1>5, <1>6, <1>7, <1>8, <1>10, <1>11, <1>12, <1>13, <1>14, <1>15 DEF LibraryNext

\* What follows from the invariant at a commit.
LEMMA CommitIsSound ==
  ASSUME LInv, CommitImport
  PROVE  /\ \A r \in ToSet(file) :
              /\ tools'[r.gtid] # Absent /\ tools'[r.gtid].type = r.type
              /\ Wishes(r) => \E a \in assigned' \cup freed : a.machine = r.machine /\ a.t = r.t
         /\ \A g \in Gtid : tools[g] # Absent /\ tools[g].retired => tools'[g].retired
         /\ \A a \in given : a.machine \notin moved => ~Reserved(probes[a.machine], a.t, a.h)
  <1>1. /\ step = "check" /\ row > Len(file)
        /\ tools' = [g \in Gtid |-> IF g \in DOMAIN upserted THEN upserted[g] ELSE tools[g]]
        /\ assigned' = assigned \cup given
    BY DEF CommitImport
  <1>2. file \in File /\ Len(file) \in Nat /\ ToSet(file) = {file[n] : n \in 1..Len(file)}
    BY <1>1, FileIs DEF LInv, LibraryShapes
  <1>3. /\ \A n \in 1..Len(file) :
             /\ file[n].gtid \in DOMAIN upserted
             /\ upserted[file[n].gtid].type = file[n].type
        /\ \A g \in DOMAIN upserted :
             /\ g \in Gtid /\ upserted[g] \in ToolRow
             /\ tools[g] # Absent => upserted[g].retired = tools[g].retired
    BY <1>1, UpsertedIs
  <1>4. Absent \notin ToolRow
    BY ImportAssumption DEF ImportAssumption, ToolRow
  <1>5. \A r \in ToSet(file) : tools'[r.gtid] # Absent /\ tools'[r.gtid].type = r.type
    BY <1>1, <1>2, <1>3, <1>4
  <1>6. ASSUME NEW r \in ToSet(file), Wishes(r)
        PROVE  \E a \in assigned' \cup freed : a.machine = r.machine /\ a.t = r.t
    <2>1. PICK n \in 1..Len(file) : r = file[n]
      BY <1>2
    <2>2. n \in 1..(row - 1)
      BY <1>1, <1>2 DEF LInv, Importing
    <2>3. QED
      BY <1>1, <1>6, <2>1, <2>2 DEF LInv, Importing
  <1>7. \A g \in Gtid : tools[g] # Absent /\ tools[g].retired => tools'[g].retired
    BY <1>1, <1>3
  <1>8. ASSUME NEW a \in given, a.machine \notin moved
        PROVE  ~Reserved(probes[a.machine], a.t, a.h)
    <2>1. PICK n \in 1..Len(file) : Wishes(file[n]) /\ a = Wish(file[n])
      BY <1>1 DEF LInv, Importing
    <2>2. a.machine = file[n].machine /\ file[n].machine # Absent
      BY <2>1 DEF Wish, Wishes
    <2>3. a.machine \in Machine
      BY <1>2, <2>2, FileIs
    <2>4. ~Reserved(looked.probes[a.machine], a.t, a.h)
      BY <1>1, <2>1, <2>2 DEF LInv, Importing, Faultless, Wishes
    <2>5. looked.probes[a.machine] = probes[a.machine]
      BY <1>1, <1>8, <2>3 DEF LInv, LookedUp
    <2>6. QED
      BY <2>4, <2>5
  <1>9. QED
    BY <1>5, <1>6, <1>7, <1>8

\* And at the end of an import of the file that was just imported.
LEMMA ReimportFollows ==
  ASSUME LInv, quiet = file, CommitImport \/ RefuseImport
  PROVE  CommitImport /\ UNCHANGED <<tools, assigned>>
  <1> USE DEF LInv
  <1>1. step # "idle"
    BY DEF CommitImport, RefuseImport
  <1>2. file \in File /\ file # Absent /\ Len(file) \in Nat
    BY <1>1, FileIs DEF LibraryShapes
  <1>3. /\ Faultless(file, types, probes) /\ looked.types = types /\ looked.probes = probes
        /\ step # "insert" /\ given = {}
    BY <1>1, <1>2 DEF JustImported
  <1>4. CommitImport
    BY <1>2, <1>3, FaultlessIsWanted DEF RefuseImport
  <1>5. /\ step = "check" /\ assigned' = assigned \cup given
        /\ tools' = [g \in Gtid |-> IF g \in DOMAIN upserted THEN upserted[g] ELSE tools[g]]
    BY <1>4 DEF CommitImport
  <1>6. ASSUME NEW g \in DOMAIN upserted PROVE upserted[g] = tools[g]
    <2>1. PICK n \in 1..Len(file) : g = file[n].gtid
      BY <1>5 DEF Importing
    <2>2. upserted[g] = Upserted(file[n])
      BY <1>5, <2>1 DEF Importing
    <2>3. tools[g] # Absent /\ tools[g].type = file[n].type
      BY <1>2, <2>1 DEF JustImported
    <2>4. tools[g] \in ToolRow
      BY <1>2, <2>1, <2>3, FileIs DEF LibraryShapes
    <2>5. [tools[g] EXCEPT !.type = file[n].type] = tools[g]
      BY <2>3, <2>4 DEF ToolRow
    <2>6. QED
      BY <2>1, <2>2, <2>3, <2>5 DEF Upserted
  <1>7. tools' = tools
    <2>1. tools \in [Gtid -> ToolRow \cup {Absent}]
      BY DEF LibraryShapes
    <2>2. QED
      BY <1>5, <1>6, <2>1
  <1>8. QED
    BY <1>3, <1>4, <1>5, <1>7

\* So that it always holds.
LEMMA LibraryInvariant == Spec => []LInv
  <1>1. Init => LInv
    BY ImportAssumption, InitLInv DEF Init
  <1>2. LInv /\ [Next]_vars => LInv'
    <2>1. [Next]_vars => [LibraryNext]_libraryVars
      BY DEF Next, vars
    <2>2. QED
      BY <2>1, NextLInv
  <1>3. QED
    BY <1>1, <1>2, PTL DEF Spec

\* Whatever the API does between the look-up of an import and its commit, and
\* whatever files are imported: what is committed is the whole file and nothing
\* else, a retired tool stays so, no tool is given what the probe is known to
\* have, and a file imported twice changes nothing the second time.
THEOREM ImportsAlwaysSound == Spec => ImportIsSound
  <1> DEFINE Whole == CommitImport =>
               \A r \in ToSet(file) :
                 /\ tools'[r.gtid] # Absent /\ tools'[r.gtid].type = r.type
                 /\ Wishes(r) => \E a \in assigned' \cup freed : a.machine = r.machine /\ a.t = r.t
             Retired == CommitImport =>
               \A g \in Gtid : tools[g] # Absent /\ tools[g].retired => tools'[g].retired
             Probe == CommitImport =>
               \A a \in given : a.machine \notin moved => ~Reserved(probes[a.machine], a.t, a.h)
             Quiet == quiet = file /\ (CommitImport \/ RefuseImport) =>
               CommitImport /\ UNCHANGED <<tools, assigned>>
  <1>1. LInv => Whole /\ Retired /\ Probe
    BY CommitIsSound
  <1>2. LInv => Quiet
    BY ReimportFollows
  <1> HIDE DEF Whole, Retired, Probe, Quiet
  <1>3. Spec => [][Whole]_libraryVars /\ [][Retired]_libraryVars /\ [][Probe]_libraryVars /\ [][Quiet]_libraryVars
    BY <1>1, <1>2, LibraryInvariant, PTL
  <1>4. QED
    BY <1>3 DEF ImportIsSound, ImportIsWhole, RetirementIsKept, ProbeIsNotGiven, ReimportIsQuiet,
                Whole, Retired, Probe, Quiet

-----------------------------------------------------------------------------
(* The types of the four.                                                  *)

Banks == SUBSET {"mill", "lathe"}
SInv ==
  /\ revision \in 0..Latest
  /\ db = [columns |-> db.columns, checks |-> db.checks, machines |-> db.machines, banks |-> db.banks]
  /\ db.machines \in [Control -> Probes \cup {NotThere}]
  /\ db.banks \in [Control -> Banks]

\* There are thirteen revisions.
LEMMA LatestIs == Latest \in Nat
  <1>1. Latest = 13
    BY DEF Latest, Revisions
  <1>2. QED
    BY <1>1

\* A migration keeps the rows of machines that it does not drop.
LEMMA AfterKeeps ==
  ASSUME SInv, NEW s, db' = After(db, s), revision' \in 0..Latest
  PROVE  SInv'
  <1> USE DEF SInv
  <1> DEFINE gone == {c \in db.columns : c[1] \in s.drops} \cup s.removes
             columns == (db.columns \ gone) \cup s.adds
             checks == {k \in db.checks : k.table \notin s.drops /\ k.name \notin s.lifts} \cup s.sets
             machines == [m \in Control |-> Without(db.machines[m], gone)]
             banks == [m \in Control |->
                         IF "focas_offset_register" \in s.drops THEN {} ELSE db.banks[m]]
  <1>1. db' = [columns |-> columns, checks |-> checks, machines |-> machines, banks |-> banks]
    BY DEF After
  <1>2. ASSUME NEW m \in Control
        PROVE  Without(db.machines[m], gone) \in Probes \cup {NotThere}
    <2>1. db.machines[m] \in Probes \cup {NotThere}
      OBVIOUS
    <2> HIDE DEF gone
    <2>2. QED
      BY <2>1 DEF Without, Probes
  <1>3. machines \in [Control -> Probes \cup {NotThere}]
    BY <1>2
  <1>4. banks \in [Control -> Banks]
    BY DEF Banks
  <1> HIDE DEF columns, checks, machines, banks
  <1>5. QED
    BY <1>1, <1>3, <1>4

\* The rows of the database in use, in the beginning and in each step.
LEMMA InitSInv == SchemaInit => SInv
  BY LatestIs DEF SchemaInit, SInv, Banks

\* Each migration and each change of a row keeps them.
LEMMA NextSInv == SInv /\ [SchemaNext]_schemaVars => SInv'
  <1> SUFFICES ASSUME SInv, [SchemaNext]_schemaVars PROVE SInv'
    OBVIOUS
  <1>1. revision \in 0..Latest /\ Latest \in Nat
    BY LatestIs DEF SInv
  <1>2. CASE Upgraded
    <2>1. db' = After(db, Revisions[revision + 1].up) /\ revision' \in 0..Latest
      BY <1>1, <1>2 DEF Upgraded
    <2>2. QED
      BY <2>1, AfterKeeps
  <1>3. CASE Downgraded
    <2>1. db' = After(db, Revisions[revision].down) /\ revision' \in 0..Latest
      BY <1>1, <1>3 DEF Downgraded
    <2>2. QED
      BY <2>1, AfterKeeps
  <1>4. ASSUME NEW m \in Control, NEW line \in Probes, PutMachine(m, line) PROVE SInv'
    BY <1>4 DEF SInv, PutMachine
  <1>5. ASSUME NEW m \in Control, PutOffsets(m) PROVE SInv'
    <2>1. db.machines[m].class \in {"mill", "lathe"}
      BY <1>5 DEF SInv, PutOffsets, Probes
    <2>2. QED
      BY <1>5, <2>1 DEF SInv, PutOffsets, Banks
  <1>6. ASSUME NEW m \in Control, NEW class \in {"mill", "lathe"}, DeleteOffsets(m, class) PROVE SInv'
    BY <1>6 DEF SInv, DeleteOffsets, Banks
  <1>7. CASE UNCHANGED schemaVars
    BY <1>7 DEF SInv, schemaVars
  <1>8. QED
    BY <1>2, <1>3, <1>4, <1>5, <1>6, <1>7 DEF SchemaNext

\* The rows that tools take are labelled, what the TechDB holds unlocked is
\* stored, tools have types, no two assignments collide, and databases are at
\* revisions that there are.
THEOREM TypeCorrect == Spec => []TypeOK
  <1>1. Init => GInv /\ SInv
    BY MigrationsAssumption, InitGInv, InitSInv DEF Init
  <1>2. GInv /\ [Next]_vars => GInv'
    <2>1. [Next]_vars => [MigrationsNext]_migrationVars
      BY DEF Next, vars
    <2>2. QED
      BY <2>1, MigrationsAssumption, NextGInv
  <1>3. SInv /\ [Next]_vars => SInv'
    <2>1. [Next]_vars => [SchemaNext]_schemaVars
      BY DEF Next, vars
    <2>2. QED
      BY <2>1, NextSInv
  <1>4. TInv /\ LInv /\ GInv /\ SInv => TypeOK
    <2> SUFFICES ASSUME TInv, LInv, GInv, SInv PROVE TypeOK
      OBVIOUS
    <2>1. /\ \A i \in Row : registry[i] # NoRow =>
               registry[i].label \in listed /\ registry[i].class \in Class
          /\ \A r \in Runner : (holder = r) = (at[r] = "insert")
          /\ holder = NoRow => draft = techdb
      BY DEF TInv, Shapes, Phases, LabelsStay, Tool
    <2>2. /\ \A g \in Gtid : tools[g] # Absent => tools[g].type \in types
          /\ \A a, b \in assigned : a # b => ~Collide(a, b)
          /\ (step = "idle") = (file = Absent) /\ quiet \in File \cup {Absent}
      BY DEF LInv, LibraryShapes, NoneCollide
    <2>3. \A b \in given : tools[b.gtid] # Absent \/ b.gtid \in DOMAIN upserted
      BY DEF LInv, LibraryShapes, Importing, Wish
    <2>4. \A d \in Database : version[d] \in 0..Len(written) /\ schemas[d] \subseteq
            {"shared", "tooling", "public", "tracker"}
      BY DEF GInv, GuardShapes, SchemaName
    <2>5. /\ revision \in 0..Latest
          /\ \A m \in Control : /\ db.machines[m] \in Probes \cup {NotThere}
                               /\ db.banks[m] \subseteq {"mill", "lathe"}
      BY DEF SInv, Banks
    <2>6. QED
      BY <2>1, <2>2, <2>3, <2>4, <2>5 DEF TypeOK
  <1>5. QED
    BY <1>1, <1>2, <1>3, <1>4, TechdbInvariant, LibraryInvariant, PTL DEF Spec

-----------------------------------------------------------------------------
(* The schema of a database in use.                                        *)

Up(n) == Revisions[n].up
Down(n) == Revisions[n].down

\* A step of a revision, and a revision, spelled out.
StepOf(creates, adds, drops, removes, lifts, sets) ==
  [creates |-> creates, adds |-> adds, drops |-> drops, removes |-> removes,
   lifts |-> lifts, sets |-> sets]
Both(up, down) == [up |-> up, down |-> down]

\* The checks that a database of a revision has.
ChecksAt(n) ==
  {k \in {ProbePair, ProbeIdentity, MillBanksOnly, MachineClass, BothBanks} :
     \/ k = ProbePair /\ n \in 1..6
     \/ k = ProbeIdentity /\ n \in 7..13
     \/ k = MillBanksOnly /\ n \in 2..7
     \/ k \in {MachineClass, BothBanks} /\ n \in 8..13}

\* What a revision adds is gone with the tables and the columns that its
\* downgrade takes away, which take nothing else with them.
Reversible(up, down) ==
  /\ up.drops = {} /\ up.removes = {} /\ down.creates = {} /\ down.adds = {}
  /\ down.drops \subseteq up.creates /\ down.removes \subseteq up.adds
  /\ \A c \in up.adds : c[1] \in down.drops \/ c \in down.removes

\* The columns of tables, table by table.
LEMMA ColumnsAre ==
  ASSUME NEW T, NEW c
  PROVE  c \in ColumnsOf(T) <=> \E t \in DOMAIN T : c \in {t} \X T[t]
  BY DEF ColumnsOf

\* The tables that columns belong to, none of which is without columns.
LEMMA TablesAre ==
  ASSUME NEW T, \A t \in DOMAIN T : T[t] # {}
  PROVE  {c[1] : c \in ColumnsOf(T)} = DOMAIN T
  <1>1. ASSUME NEW c \in ColumnsOf(T) PROVE c[1] \in DOMAIN T
    BY ColumnsAre
  <1>2. ASSUME NEW t \in DOMAIN T PROVE t \in {c[1] : c \in ColumnsOf(T)}
    <2>1. PICK x : x \in T[t]
      OBVIOUS
    <2>2. <<t, x>> \in ColumnsOf(T) /\ <<t, x>>[1] = t
      BY <2>1, ColumnsAre
    <2>3. QED
      BY <2>2
  <1>3. QED
    BY <1>1, <1>2

\* The steps that set some parts of NoStep.
Replaces(gone, put) == [NoStep EXCEPT !.lifts = gone, !.sets = put]
AddsAndReplaces(here, gone, put) == [NoStep EXCEPT !.adds = here, !.lifts = gone, !.sets = put]
RemovesAndReplaces(here, gone, put) ==
  [NoStep EXCEPT !.removes = here, !.lifts = gone, !.sets = put]

\* Tables created, columns added, tables dropped, columns removed.
LEMMA StepsDo ==
  ASSUME NEW here, NEW gone
  PROVE  /\ [NoStep EXCEPT !.creates = gone, !.adds = here] = StepOf(gone, here, {}, {}, {}, {})
         /\ [NoStep EXCEPT !.adds = here] = StepOf({}, here, {}, {}, {}, {})
         /\ [NoStep EXCEPT !.drops = gone] = StepOf({}, {}, gone, {}, {}, {})
         /\ [NoStep EXCEPT !.removes = gone] = StepOf({}, {}, {}, gone, {}, {})
  <1> DEFINE none == {}
             created == [NoStep EXCEPT !.creates = gone]
  <1>1. NoStep = StepOf(none, none, none, none, none, none)
    BY DEF NoStep, StepOf
  <1> HIDE DEF none
  <1>2. /\ [NoStep EXCEPT !.adds = here] = StepOf(none, here, none, none, none, none)
        /\ [NoStep EXCEPT !.drops = gone] = StepOf(none, none, gone, none, none, none)
        /\ [NoStep EXCEPT !.removes = gone] = StepOf(none, none, none, gone, none, none)
        /\ created = StepOf(gone, none, none, none, none, none)
    BY <1>1 DEF StepOf
  <1>3. [NoStep EXCEPT !.creates = gone, !.adds = here] = [created EXCEPT !.adds = here]
    OBVIOUS
  <1> HIDE DEF created
  <1>4. [created EXCEPT !.adds = here] = StepOf(gone, here, none, none, none, none)
    BY <1>2 DEF StepOf
  <1>5. QED
    BY <1>2, <1>3, <1>4 DEF none

\* Checks are replaced, beside columns that are added or removed.
LEMMA ReplacesDo ==
  ASSUME NEW here, NEW gone, NEW put
  PROVE  /\ Replaces(gone, put) = StepOf({}, {}, {}, {}, gone, put)
         /\ AddsAndReplaces(here, gone, put) = StepOf({}, here, {}, {}, gone, put)
         /\ RemovesAndReplaces(here, gone, put) = StepOf({}, {}, {}, here, gone, put)
  <1> DEFINE none == {}
             lifted == [NoStep EXCEPT !.lifts = gone]
             added == [NoStep EXCEPT !.adds = here]
             removed == [NoStep EXCEPT !.removes = here]
             addedLifted == [added EXCEPT !.lifts = gone]
             removedLifted == [removed EXCEPT !.lifts = gone]
  <1>1. NoStep = StepOf(none, none, none, none, none, none)
    BY DEF NoStep, StepOf
  <1> HIDE DEF none
  <1>2. /\ lifted = StepOf(none, none, none, none, gone, none)
        /\ added = StepOf(none, here, none, none, none, none)
        /\ removed = StepOf(none, none, none, here, none, none)
    BY <1>1 DEF StepOf
  <1> HIDE DEF lifted, added, removed
  <1>3. /\ [lifted EXCEPT !.sets = put] = StepOf(none, none, none, none, gone, put)
        /\ addedLifted = StepOf(none, here, none, none, gone, none)
        /\ removedLifted = StepOf(none, none, none, here, gone, none)
    BY <1>2 DEF StepOf
  <1> HIDE DEF addedLifted, removedLifted
  <1>4. /\ [addedLifted EXCEPT !.sets = put] = StepOf(none, here, none, none, gone, put)
        /\ [removedLifted EXCEPT !.sets = put] = StepOf(none, none, none, here, gone, put)
    BY <1>3 DEF StepOf
  <1>5. /\ Replaces(gone, put) = [lifted EXCEPT !.sets = put]
        /\ AddsAndReplaces(here, gone, put) = [addedLifted EXCEPT !.sets = put]
        /\ RemovesAndReplaces(here, gone, put) = [removedLifted EXCEPT !.sets = put]
    BY DEF lifted, added, removed, addedLifted, removedLifted,
           Replaces, AddsAndReplaces, RemovesAndReplaces
  <1>6. QED
    BY <1>3, <1>4, <1>5 DEF none

\* The parts of a revision may be changed one by one.
UpSets(rev, x) == [rev EXCEPT !.up.sets = x]
UpAdds(rev, x) == [rev EXCEPT !.up.adds = @ \cup x]
DownRemoves(rev, x) == [rev EXCEPT !.down.removes = x]

\* Its new checks.
LEMMA UpSetsIs ==
  ASSUME NEW rev, NEW c, NEW a, NEW d, NEW r, NEW l, NEW s, NEW down, NEW x,
         rev = Both(StepOf(c, a, d, r, l, s), down)
  PROVE  UpSets(rev, x) = Both(StepOf(c, a, d, r, l, x), down)
  <1>1. [StepOf(c, a, d, r, l, s) EXCEPT !.sets = x] = StepOf(c, a, d, r, l, x)
    BY DEF StepOf
  <1>2. [rev EXCEPT !.up.sets = x] = Both([StepOf(c, a, d, r, l, s) EXCEPT !.sets = x], down)
    BY DEF Both
  <1>3. QED
    BY <1>1, <1>2 DEF UpSets

\* Its further columns.
LEMMA UpAddsIs ==
  ASSUME NEW rev, NEW c, NEW a, NEW d, NEW r, NEW l, NEW s, NEW down, NEW x,
         rev = Both(StepOf(c, a, d, r, l, s), down)
  PROVE  UpAdds(rev, x) = Both(StepOf(c, a \cup x, d, r, l, s), down)
  <1>1. [StepOf(c, a, d, r, l, s) EXCEPT !.adds = @ \cup x] = StepOf(c, a \cup x, d, r, l, s)
    BY DEF StepOf
  <1>2. [rev EXCEPT !.up.adds = @ \cup x] = Both([StepOf(c, a, d, r, l, s) EXCEPT !.adds = @ \cup x], down)
    BY DEF Both
  <1>3. QED
    BY <1>1, <1>2 DEF UpAdds

\* The columns that its downgrade removes.
LEMMA DownRemovesIs ==
  ASSUME NEW rev, NEW c, NEW a, NEW d, NEW r, NEW l, NEW s, NEW up, NEW x,
         rev = Both(up, StepOf(c, a, d, r, l, s))
  PROVE  DownRemoves(rev, x) = Both(up, StepOf(c, a, d, x, l, s))
  <1>1. [StepOf(c, a, d, r, l, s) EXCEPT !.removes = x] = StepOf(c, a, d, x, l, s)
    BY DEF StepOf
  <1>2. [rev EXCEPT !.down.removes = x] = Both(up, [StepOf(c, a, d, r, l, s) EXCEPT !.removes = x])
    BY DEF Both
  <1>3. QED
    BY <1>1, <1>2 DEF DownRemoves

\* A revision that creates tables, and one that adds columns.
LEMMA CreatesIs ==
  ASSUME NEW columns, NEW dropped
  PROVE  Creates(columns, dropped) =
           Both(StepOf({c[1] : c \in columns}, columns, {}, {}, {}, {}),
                StepOf({}, {}, dropped, {}, {}, {}))
  <1> DEFINE tables == {c[1] : c \in columns}
  <1>1. Creates(columns, dropped) =
          Both([NoStep EXCEPT !.creates = tables, !.adds = columns], [NoStep EXCEPT !.drops = dropped])
    BY DEF Creates, Both
  <1> HIDE DEF tables
  <1>2. Creates(columns, dropped) =
          Both(StepOf(tables, columns, {}, {}, {}, {}), StepOf({}, {}, dropped, {}, {}, {}))
    BY <1>1, StepsDo
  <1>3. QED
    BY <1>2 DEF tables

\* One that adds columns to a table.
LEMMA AddsIs ==
  ASSUME NEW table, NEW added, NEW removed
  PROVE  Adds(table, added, removed) =
           Both(StepOf({}, {table} \X added, {}, {}, {}, {}),
                StepOf({}, {}, {}, {table} \X removed, {}, {}))
  <1>1. Adds(table, added, removed) =
          Both([NoStep EXCEPT !.adds = {table} \X added],
               [NoStep EXCEPT !.removes = {table} \X removed])
    BY DEF Adds, Both
  <1>2. QED
    BY <1>1, StepsDo

\* The revisions in their order.
LEMMA RevisionsAre ==
  /\ Latest = 13
  /\ Revisions[1] = SharedCore /\ Revisions[2] = FocasState /\ Revisions[3] = ToolingCore
  /\ Revisions[4] = FocasMacro /\ Revisions[5] = FocasStatus /\ Revisions[6] = ToolMaker
  /\ Revisions[7] = ProbePotDecouple /\ Revisions[8] = LatheClass
  /\ Revisions[9] = WorkOffsetMirror /\ Revisions[10] = ActiveWcs
  /\ Revisions[11] = LastToolMemory /\ Revisions[12] = StatusPollInterval
  /\ Revisions[13] = ProgramDisplay
  BY DEF Latest, Revisions

\* What each revision adds.
CoreTables == ColumnsOf(OfficeTables) \cup ColumnsOf(AuditTable)
MirrorTables ==
  [focas_offset_register |-> Polled \cup {"register_number", "register_type", "value_mm"},
   focas_pot |-> Polled \cup {"pot_number", "t_number"},
   focas_tool_life |-> {"machine_id", "t_number", "life_count", "life_max",
     "status", "last_polled_at"}]
ToolingTables == ColumnsOf(LibraryTables) \cup ColumnsOf(WorkTables)

\* What the revisions that create several tables create.
LEMMA TablesCreated ==
  /\ {c[1] : c \in CoreTables} = {"machine", "user", "audit_log"}
  /\ {c[1] : c \in ColumnsOf(MirrorTables)} =
       {"focas_offset_register", "focas_pot", "focas_tool_life"}
  /\ {c[1] : c \in ToolingTables} =
       {"tool_type", "tool", "assignment", "pot_observation", "offset_write_request"}
  <1>1. DOMAIN OfficeTables = {"machine", "user"} /\ \A t \in DOMAIN OfficeTables : OfficeTables[t] # {}
    BY DEF OfficeTables
  <1>2. DOMAIN AuditTable = {"audit_log"} /\ \A t \in DOMAIN AuditTable : AuditTable[t] # {}
    BY DEF AuditTable
  <1>3. /\ DOMAIN MirrorTables = {"focas_offset_register", "focas_pot", "focas_tool_life"}
        /\ \A t \in DOMAIN MirrorTables : MirrorTables[t] # {}
    BY DEF MirrorTables
  <1>4. /\ DOMAIN LibraryTables = {"tool_type", "tool"}
        /\ \A t \in DOMAIN LibraryTables : LibraryTables[t] # {}
    BY DEF LibraryTables
  <1>5. /\ DOMAIN WorkTables = {"assignment", "pot_observation", "offset_write_request"}
        /\ \A t \in DOMAIN WorkTables : WorkTables[t] # {}
    BY DEF WorkTables
  <1>6. /\ {c[1] : c \in ColumnsOf(OfficeTables)} = {"machine", "user"}
        /\ {c[1] : c \in ColumnsOf(AuditTable)} = {"audit_log"}
        /\ {c[1] : c \in ColumnsOf(MirrorTables)} =
             {"focas_offset_register", "focas_pot", "focas_tool_life"}
        /\ {c[1] : c \in ColumnsOf(LibraryTables)} = {"tool_type", "tool"}
        /\ {c[1] : c \in ColumnsOf(WorkTables)} =
             {"assignment", "pot_observation", "offset_write_request"}
    BY <1>1, <1>2, <1>3, <1>4, <1>5, TablesAre
  <1>7. \A A, B : {c[1] : c \in A \cup B} = {c[1] : c \in A} \cup {c[1] : c \in B}
    OBVIOUS
  <1>8. {c[1] : c \in CoreTables} = {"machine", "user"} \cup {"audit_log"}
    BY <1>6, <1>7 DEF CoreTables
  <1>9. {c[1] : c \in ToolingTables} =
          {"tool_type", "tool"} \cup {"assignment", "pot_observation", "offset_write_request"}
    BY <1>6, <1>7 DEF ToolingTables
  <1>10. QED
    BY <1>6, <1>8, <1>9

\* What each of the revisions does, and what takes it back.
ProbeColumn == {<<"machine", "probe_h_register">>}
ClassColumn == {<<"machine", "machine_class">>}
TableOf(table, columns) ==
  Both(StepOf({table}, {table} \X columns, {}, {}, {}, {}), StepOf({}, {}, {table}, {}, {}, {}))
ColumnsTo(table, columns) ==
  Both(StepOf({}, {table} \X columns, {}, {}, {}, {}), StepOf({}, {}, {}, {table} \X columns, {}, {}))
Spelled(n) ==
  CASE n = 1 -> LET tables == {"machine", "user", "audit_log"}
                IN Both(StepOf(tables, CoreTables, {}, {}, {}, {ProbePair}),
                        StepOf({}, {}, tables, {}, {}, {}))
    [] n = 2 -> LET tables == {"focas_offset_register", "focas_pot", "focas_tool_life"}
                IN Both(StepOf(tables, ColumnsOf(MirrorTables), {}, {}, {}, {MillBanksOnly}),
                        StepOf({}, {}, tables, {}, {}, {}))
    [] n = 3 -> LET tables == {"tool_type", "tool", "assignment", "pot_observation",
                               "offset_write_request"}
                IN Both(StepOf(tables, ToolingTables \cup ProbeColumn, {}, {}, {}, {}),
                        StepOf({}, {}, tables, ProbeColumn, {}, {}))
    [] n = 4 -> TableOf("focas_macro_var", Polled \cup {"number", "value"})
    [] n = 5 -> TableOf("focas_machine_status", Polled \cup {"head_t_number", "next_t_number",
                          "mode", "running", "emergency_stop"})
    [] n = 6 -> ColumnsTo("tool", {"manufacturer", "edp_number"})
    [] n = 7 -> Both(StepOf({}, {}, {}, {}, {ProbePair.name}, {ProbeIdentity}),
                     StepOf({}, {}, {}, {}, {ProbeIdentity.name}, {ProbePair}))
    [] n = 8 -> Both(StepOf({}, ClassColumn, {}, {}, {MillBanksOnly.name}, {MachineClass, BothBanks}),
                     StepOf({}, {}, {}, ClassColumn, {BothBanks.name, MachineClass.name},
                            {MillBanksOnly}))
    [] n = 9 -> TableOf("focas_work_offset", Polled \cup {"slot", "axis", "value"})
    [] n = 10 -> ColumnsTo("focas_machine_status", {"active_wcs"})
    [] n = 11 -> ColumnsTo("focas_machine_status", {"last_tool_t_word", "last_tool_at"})
    [] n = 12 -> ColumnsTo("machine", {"status_poll_interval_seconds"})
    [] n = 13 -> ColumnsTo("focas_machine_status", {"program_number", "program_name"})

\* The thirteen revisions, spelled out.
LEMMA RevisionsDo == \A n \in 1..13 : Revisions[n] = Spelled(n)
  <1>1. Revisions[1] = Spelled(1)
    <2> DEFINE tables == {"machine", "user", "audit_log"}
    <2>1. SharedCore = UpSets(Creates(CoreTables, tables), {ProbePair})
      <3>1. tables = {"audit_log", "user", "machine"}
        OBVIOUS
      <3> HIDE DEF tables
      <3>2. QED
        BY <3>1 DEF SharedCore, CoreTables, UpSets
    <2>2. Creates(CoreTables, tables) =
            Both(StepOf(tables, CoreTables, {}, {}, {}, {}), StepOf({}, {}, tables, {}, {}, {}))
      BY CreatesIs, TablesCreated
    <2> HIDE DEF tables
    <2>3. SharedCore = Both(StepOf(tables, CoreTables, {}, {}, {}, {ProbePair}),
                            StepOf({}, {}, tables, {}, {}, {}))
      BY <2>1, <2>2, UpSetsIs
    <2>4. QED
      BY <2>3, RevisionsAre DEF Spelled, tables
  <1>2. Revisions[2] = Spelled(2)
    <2> DEFINE tables == {"focas_offset_register", "focas_pot", "focas_tool_life"}
               columns == ColumnsOf(MirrorTables)
    <2>1. FocasState = UpSets(Creates(columns, tables), {MillBanksOnly})
      <3>1. tables = {"focas_tool_life", "focas_pot", "focas_offset_register"}
        OBVIOUS
      <3> HIDE DEF tables
      <3>2. QED
        BY <3>1 DEF FocasState, MirrorTables, UpSets
    <2>2. Creates(columns, tables) =
            Both(StepOf(tables, columns, {}, {}, {}, {}), StepOf({}, {}, tables, {}, {}, {}))
      BY CreatesIs, TablesCreated
    <2> HIDE DEF tables, columns
    <2>3. FocasState = Both(StepOf(tables, columns, {}, {}, {}, {MillBanksOnly}),
                            StepOf({}, {}, tables, {}, {}, {}))
      BY <2>1, <2>2, UpSetsIs
    <2>4. QED
      BY <2>3, RevisionsAre DEF Spelled, tables, columns
  <1>3. Revisions[3] = Spelled(3)
    <2> DEFINE tables == {"tool_type", "tool", "assignment", "pot_observation", "offset_write_request"}
               made == Creates(ToolingTables, tables)
               half == UpAdds(made, ProbeColumn)
    <2>1. ToolingCore = [made EXCEPT !.up.adds = @ \cup ProbeColumn, !.down.removes = ProbeColumn]
      <3>1. tables = {"offset_write_request", "pot_observation", "assignment", "tool", "tool_type"}
        OBVIOUS
      <3> HIDE DEF tables
      <3>2. QED
        BY <3>1 DEF ToolingCore, ToolingTables, ProbeColumn
    <2>2. made = Both(StepOf(tables, ToolingTables, {}, {}, {}, {}), StepOf({}, {}, tables, {}, {}, {}))
      BY CreatesIs, TablesCreated
    <2>3. ToolingCore = DownRemoves(half, ProbeColumn)
      <3> HIDE DEF made
      <3> QED
        BY <2>1 DEF UpAdds, DownRemoves
    <2> HIDE DEF tables, made
    <2>4. half = Both(StepOf(tables, ToolingTables \cup ProbeColumn, {}, {}, {}, {}),
                      StepOf({}, {}, tables, {}, {}, {}))
      BY <2>2, UpAddsIs
    <2> HIDE DEF half
    <2>5. ToolingCore = Both(StepOf(tables, ToolingTables \cup ProbeColumn, {}, {}, {}, {}),
                             StepOf({}, {}, tables, ProbeColumn, {}, {}))
      BY <2>3, <2>4, DownRemovesIs
    <2>6. QED
      BY <2>5, RevisionsAre DEF Spelled, tables
  <1>4. \A table, columns : columns # {} => Creates({table} \X columns, {table}) = TableOf(table, columns)
    <2>1. \A table, columns : columns # {} => {c[1] : c \in {table} \X columns} = {table}
      <3>1. ASSUME NEW table, NEW columns, columns # {}
            PROVE  {c[1] : c \in {table} \X columns} = {table}
        <4>1. PICK x : x \in columns
          BY <3>1
        <4>2. <<table, x>> \in {table} \X columns /\ <<table, x>>[1] = table
          BY <4>1
        <4>3. QED
          BY <4>2
      <3>2. QED
        BY <3>1
    <2>2. QED
      BY <2>1, CreatesIs DEF TableOf
  <1>5. Revisions[4] = Spelled(4)
    BY <1>4, RevisionsAre DEF FocasMacro, Spelled
  <1>6. Revisions[5] = Spelled(5)
    BY <1>4, RevisionsAre DEF FocasStatus, Spelled
  <1>7. Revisions[9] = Spelled(9)
    BY <1>4, RevisionsAre DEF WorkOffsetMirror, Spelled
  <1>8. \A table, columns : Adds(table, columns, columns) = ColumnsTo(table, columns)
    BY AddsIs DEF ColumnsTo
  <1>9. Revisions[6] = Spelled(6)
    BY <1>8, RevisionsAre DEF ToolMaker, Spelled
  <1>10. Revisions[10] = Spelled(10)
    BY <1>8, RevisionsAre DEF ActiveWcs, Spelled
  <1>11. Revisions[11] = Spelled(11)
    BY <1>8, RevisionsAre DEF LastToolMemory, Spelled
  <1>12. Revisions[12] = Spelled(12)
    BY <1>8, RevisionsAre DEF StatusPollInterval, Spelled
  <1>13. Revisions[13] = Spelled(13)
    BY <1>8, RevisionsAre DEF ProgramDisplay, Spelled
  <1>14. Revisions[7] = Spelled(7)
    <2> DEFINE gone == {ProbePair.name}
               put == {ProbeIdentity}
               goneDown == {ProbeIdentity.name}
               putDown == {ProbePair}
    <2>1. ProbePotDecouple = Both(Replaces(gone, put), Replaces(goneDown, putDown))
      BY DEF ProbePotDecouple, Both, Replaces
    <2> HIDE DEF gone, put, goneDown, putDown
    <2>2. /\ Replaces(gone, put) = StepOf({}, {}, {}, {}, gone, put)
          /\ Replaces(goneDown, putDown) = StepOf({}, {}, {}, {}, goneDown, putDown)
      BY ReplacesDo
    <2>3. ProbePotDecouple = Both(StepOf({}, {}, {}, {}, gone, put), StepOf({}, {}, {}, {}, goneDown, putDown))
      BY <2>1, <2>2
    <2>4. QED
      BY <2>3, RevisionsAre DEF Spelled, gone, put, goneDown, putDown
  <1>15. Revisions[8] = Spelled(8)
    <2> DEFINE gone == {MillBanksOnly.name}
               put == {MachineClass, BothBanks}
               goneDown == {BothBanks.name, MachineClass.name}
               putDown == {MillBanksOnly}
    <2>1. LatheClass =
            Both(AddsAndReplaces(ClassColumn, gone, put),
                 RemovesAndReplaces(ClassColumn, goneDown, putDown))
      BY DEF LatheClass, Both, ClassColumn, AddsAndReplaces, RemovesAndReplaces
    <2> HIDE DEF gone, put, goneDown, putDown
    <2>2. \A here, l, s : /\ AddsAndReplaces(here, l, s) = StepOf({}, here, {}, {}, l, s)
                          /\ RemovesAndReplaces(here, l, s) = StepOf({}, {}, {}, here, l, s)
      BY ReplacesDo
    <2>3. LatheClass = Both(StepOf({}, ClassColumn, {}, {}, gone, put),
                            StepOf({}, {}, {}, ClassColumn, goneDown, putDown))
      BY <2>1, <2>2
    <2>4. QED
      BY <2>3, RevisionsAre DEF Spelled, gone, put, goneDown, putDown
  <1>16. QED
    BY <1>1, <1>2, <1>3, <1>5, <1>6, <1>7, <1>9, <1>10, <1>11, <1>12, <1>13, <1>14, <1>15

\* The steps of a revision, part by part.
LEMMA PartsOf ==
  ASSUME NEW n \in 1..13, NEW c, NEW a, NEW d, NEW r, NEW l, NEW s,
         NEW c2, NEW a2, NEW d2, NEW r2, NEW l2, NEW s2,
         Spelled(n) = Both(StepOf(c, a, d, r, l, s), StepOf(c2, a2, d2, r2, l2, s2))
  PROVE  /\ Up(n).creates = c /\ Up(n).adds = a /\ Up(n).drops = d
         /\ Up(n).removes = r /\ Up(n).lifts = l /\ Up(n).sets = s
         /\ Down(n).creates = c2 /\ Down(n).adds = a2 /\ Down(n).drops = d2
         /\ Down(n).removes = r2 /\ Down(n).lifts = l2 /\ Down(n).sets = s2
  <1>1. Up(n) = StepOf(c, a, d, r, l, s) /\ Down(n) = StepOf(c2, a2, d2, r2, l2, s2)
    BY RevisionsDo DEF Up, Down, Both
  <1>2. QED
    BY <1>1 DEF StepOf

\* Each of them in a line: what it creates and adds; what it drops and removes
\* on the way down; and the checks it replaces.
Does(n, creates, adds, drops, removes) ==
  /\ Up(n).creates = creates /\ Up(n).adds = adds /\ Up(n).drops = {} /\ Up(n).removes = {}
  /\ Down(n).creates = {} /\ Down(n).adds = {} /\ Down(n).drops = drops /\ Down(n).removes = removes
Checks(n, lifts, sets, lifted, put) ==
  /\ Up(n).lifts = lifts /\ Up(n).sets = sets
  /\ Down(n).lifts = lifted /\ Down(n).sets = put
Core == {"machine", "user", "audit_log"}
Mirror == {"focas_offset_register", "focas_pot", "focas_tool_life"}
Tooling == {"tool_type", "tool", "assignment", "pot_observation", "offset_write_request"}

\* A revision that creates one table and touches no check.
LEMMA TablesDo ==
  ASSUME NEW n \in 1..13, NEW table, NEW columns, Spelled(n) = TableOf(table, columns)
  PROVE  Does(n, {table}, {table} \X columns, {table}, {}) /\ Checks(n, {}, {}, {}, {})
  BY PartsOf DEF TableOf, Does, Checks

\* A revision that adds columns to one table and touches no check.
LEMMA ColumnsDo ==
  ASSUME NEW n \in 1..13, NEW table, NEW columns, Spelled(n) = ColumnsTo(table, columns)
  PROVE  Does(n, {}, {table} \X columns, {}, {table} \X columns) /\ Checks(n, {}, {}, {}, {})
  BY PartsOf DEF ColumnsTo, Does, Checks

\* All thirteen, part by part.
LEMMA AllDo ==
  /\ Does(1, Core, CoreTables, Core, {}) /\ Checks(1, {}, {ProbePair}, {}, {})
  /\ Does(2, Mirror, ColumnsOf(MirrorTables), Mirror, {}) /\ Checks(2, {}, {MillBanksOnly}, {}, {})
  /\ Does(3, Tooling, ToolingTables \cup ProbeColumn, Tooling, ProbeColumn)
  /\ Checks(3, {}, {}, {}, {})
  /\ Does(7, {}, {}, {}, {}) /\ Checks(7, {ProbePair.name}, {ProbeIdentity}, {ProbeIdentity.name}, {ProbePair})
  /\ Does(8, {}, ClassColumn, {}, ClassColumn)
  /\ Checks(8, {MillBanksOnly.name}, {MachineClass, BothBanks},
            {BothBanks.name, MachineClass.name}, {MillBanksOnly})
  /\ \A n \in {4, 5, 9} : \E table, columns :
       /\ Does(n, {table}, {table} \X columns, {table}, {}) /\ Checks(n, {}, {}, {}, {})
       /\ table \in {"focas_macro_var", "focas_machine_status", "focas_work_offset"}
  /\ \A n \in {6, 10, 11, 12, 13} : \E table, columns :
       /\ Does(n, {}, {table} \X columns, {}, {table} \X columns) /\ Checks(n, {}, {}, {}, {})
       /\ columns \cap {"id", "probe_h_register", "machine_class"} = {}
  <1>1. Does(1, Core, CoreTables, Core, {}) /\ Checks(1, {}, {ProbePair}, {}, {})
    <2>1. Spelled(1) = Both(StepOf(Core, CoreTables, {}, {}, {}, {ProbePair}),
                            StepOf({}, {}, Core, {}, {}, {}))
      BY DEF Spelled, Core
    <2>2. QED
      BY <2>1, PartsOf DEF Does, Checks
  <1>2. Does(2, Mirror, ColumnsOf(MirrorTables), Mirror, {}) /\ Checks(2, {}, {MillBanksOnly}, {}, {})
    <2>1. Spelled(2) = Both(StepOf(Mirror, ColumnsOf(MirrorTables), {}, {}, {}, {MillBanksOnly}),
                            StepOf({}, {}, Mirror, {}, {}, {}))
      BY DEF Spelled, Mirror
    <2>2. QED
      BY <2>1, PartsOf DEF Does, Checks
  <1>3. /\ Does(3, Tooling, ToolingTables \cup ProbeColumn, Tooling, ProbeColumn)
        /\ Checks(3, {}, {}, {}, {})
    <2>1. Spelled(3) = Both(StepOf(Tooling, ToolingTables \cup ProbeColumn, {}, {}, {}, {}),
                            StepOf({}, {}, Tooling, ProbeColumn, {}, {}))
      BY DEF Spelled, Tooling
    <2>2. QED
      BY <2>1, PartsOf DEF Does, Checks
  <1>4. /\ Does(7, {}, {}, {}, {})
        /\ Checks(7, {ProbePair.name}, {ProbeIdentity}, {ProbeIdentity.name}, {ProbePair})
    <2>1. Spelled(7) = Both(StepOf({}, {}, {}, {}, {ProbePair.name}, {ProbeIdentity}),
                            StepOf({}, {}, {}, {}, {ProbeIdentity.name}, {ProbePair}))
      BY DEF Spelled
    <2>2. QED
      BY <2>1, PartsOf DEF Does, Checks
  <1>5. /\ Does(8, {}, ClassColumn, {}, ClassColumn)
        /\ Checks(8, {MillBanksOnly.name}, {MachineClass, BothBanks},
                  {BothBanks.name, MachineClass.name}, {MillBanksOnly})
    <2>1. Spelled(8) =
            Both(StepOf({}, ClassColumn, {}, {}, {MillBanksOnly.name}, {MachineClass, BothBanks}),
                 StepOf({}, {}, {}, ClassColumn, {BothBanks.name, MachineClass.name}, {MillBanksOnly}))
      BY DEF Spelled
    <2>2. QED
      BY <2>1, PartsOf DEF Does, Checks
  <1>6. ASSUME NEW n \in {4, 5, 9}
        PROVE  \E table, columns :
                 /\ Does(n, {table}, {table} \X columns, {table}, {}) /\ Checks(n, {}, {}, {}, {})
                 /\ table \in {"focas_macro_var", "focas_machine_status", "focas_work_offset"}
    <2>1. \E table, columns : /\ Spelled(n) = TableOf(table, columns)
                              /\ table \in {"focas_macro_var", "focas_machine_status", "focas_work_offset"}
      BY DEF Spelled
    <2>2. PICK table, columns : /\ Spelled(n) = TableOf(table, columns)
                                /\ table \in {"focas_macro_var", "focas_machine_status", "focas_work_offset"}
      BY <2>1
    <2>3. Does(n, {table}, {table} \X columns, {table}, {}) /\ Checks(n, {}, {}, {}, {})
      BY <2>2, TablesDo
    <2>4. QED
      BY <2>2, <2>3
  <1>7. ASSUME NEW n \in {6, 10, 11, 12, 13}
        PROVE  \E table, columns :
                 /\ Does(n, {}, {table} \X columns, {}, {table} \X columns) /\ Checks(n, {}, {}, {}, {})
                 /\ columns \cap {"id", "probe_h_register", "machine_class"} = {}
    <2>1. \E table, columns : /\ Spelled(n) = ColumnsTo(table, columns)
                              /\ columns \cap {"id", "probe_h_register", "machine_class"} = {}
      BY DEF Spelled
    <2>2. QED
      BY <2>1, ColumnsDo
  <1>8. QED
    BY <1>1, <1>2, <1>3, <1>4, <1>5, <1>6, <1>7

\* Each revision may be taken back.
LEMMA AllReversible == \A n \in 1..13 : Reversible(Up(n), Down(n))
  <1>1. ASSUME NEW n \in 1..13, NEW creates, NEW adds, NEW removes,
               Does(n, creates, adds, creates, removes), removes \subseteq adds,
               \A c \in adds : c[1] \in creates \/ c \in removes
        PROVE  Reversible(Up(n), Down(n))
    BY <1>1 DEF Does, Reversible
  <1>2. \A c \in CoreTables : c[1] \in Core
    BY TablesCreated DEF Core
  <1>3. Reversible(Up(1), Down(1))
    BY <1>1, <1>2, AllDo
  <1>4. \A c \in ColumnsOf(MirrorTables) : c[1] \in Mirror
    BY TablesCreated DEF Mirror
  <1>5. Reversible(Up(2), Down(2))
    BY <1>1, <1>4, AllDo
  <1>6. \A c \in ToolingTables \cup ProbeColumn : c[1] \in Tooling \/ c \in ProbeColumn
    BY TablesCreated DEF Tooling
  <1>7. Reversible(Up(3), Down(3))
    BY <1>1, <1>6, AllDo
  <1>8. Reversible(Up(7), Down(7))
    BY <1>1, AllDo
  <1>9. Reversible(Up(8), Down(8))
    BY <1>1, AllDo
  <1>10. ASSUME NEW n \in {4, 5, 9} PROVE Reversible(Up(n), Down(n))
    <2>1. PICK table, columns : Does(n, {table}, {table} \X columns, {table}, {})
      BY AllDo
    <2>2. \A c \in {table} \X columns : c[1] \in {table}
      OBVIOUS
    <2>3. QED
      BY <1>1, <2>1, <2>2
  <1>11. ASSUME NEW n \in {6, 10, 11, 12, 13} PROVE Reversible(Up(n), Down(n))
    <2>1. PICK table, columns : Does(n, {}, {table} \X columns, {}, {table} \X columns)
      BY AllDo
    <2>2. QED
      BY <1>1, <2>1
  <1>12. QED
    BY <1>3, <1>5, <1>7, <1>8, <1>9, <1>10, <1>11

\* No two of the checks are the same, two of them have the same name, and those
\* of a table go with it.
LEMMA ChecksAre ==
  /\ ProbePair # ProbeIdentity /\ ProbePair # MillBanksOnly /\ ProbePair # MachineClass
  /\ ProbePair # BothBanks /\ ProbeIdentity # MillBanksOnly /\ ProbeIdentity # MachineClass
  /\ ProbeIdentity # BothBanks /\ MillBanksOnly # MachineClass /\ MillBanksOnly # BothBanks
  /\ MachineClass # BothBanks
  /\ ProbePair.name = "ck_machine_probe_pair_consistent" /\ ProbePair.table = "machine"
  /\ ProbeIdentity.name = "ck_machine_probe_identity_pair" /\ ProbeIdentity.table = "machine"
  /\ MillBanksOnly.name = "ck_focas_offset_register_type"
  /\ MillBanksOnly.table = "focas_offset_register"
  /\ MachineClass.name = "ck_machine_class" /\ MachineClass.table = "machine"
  /\ BothBanks.name = "ck_focas_offset_register_type" /\ BothBanks.table = "focas_offset_register"
  /\ ProbePair.rule = "pot with T" /\ ProbeIdentity.rule = "H with T" /\ MillBanksOnly.rule = "mill"
  /\ MachineClass.rule = "any" /\ BothBanks.rule = "any"
  BY DEF ProbePair, ProbeIdentity, MillBanksOnly, MachineClass, BothBanks, Check

\* The checks, revision by revision.
LEMMA ChecksThen ==
  /\ ChecksAt(0) = {} /\ ChecksAt(1) = {ProbePair}
  /\ \A n \in 2..6 : ChecksAt(n) = {ProbePair, MillBanksOnly}
  /\ ChecksAt(7) = {ProbeIdentity, MillBanksOnly}
  /\ \A n \in 8..13 : ChecksAt(n) = {ProbeIdentity, MachineClass, BothBanks}
  BY DEF ChecksAt

\* Where a revision replaces nothing, the checks remain; its tables are new.
LEMMA ChecksMove ==
  \A n \in 1..13 :
    /\ ChecksAt(n) = {k \in ChecksAt(n - 1) : k.name \notin Up(n).lifts} \cup Up(n).sets
    /\ ChecksAt(n - 1) = {k \in ChecksAt(n) : k.table \notin Down(n).drops /\ k.name \notin Down(n).lifts}
                           \cup Down(n).sets
  <1> DEFINE Shifts(n) ==
        /\ ChecksAt(n) = {k \in ChecksAt(n - 1) : k.name \notin Up(n).lifts} \cup Up(n).sets
        /\ ChecksAt(n - 1) = {k \in ChecksAt(n) : k.table \notin Down(n).drops /\ k.name \notin Down(n).lifts}
                               \cup Down(n).sets
  <1>1. Shifts(1)
    <2>1. ChecksAt(1 - 1) = {} /\ ChecksAt(1) = {ProbePair}
      BY ChecksThen
    <2>2. /\ Up(1).lifts = {} /\ Up(1).sets = {ProbePair}
          /\ Down(1).drops = Core /\ Down(1).lifts = {} /\ Down(1).sets = {}
      BY AllDo DEF Does, Checks
    <2>3. QED
      BY <2>1, <2>2, ChecksAre DEF Core
  <1>2. Shifts(2)
    <2>1. ChecksAt(2 - 1) = {ProbePair} /\ ChecksAt(2) = {ProbePair, MillBanksOnly}
      BY ChecksThen
    <2>2. /\ Up(2).lifts = {} /\ Up(2).sets = {MillBanksOnly}
          /\ Down(2).drops = Mirror /\ Down(2).lifts = {} /\ Down(2).sets = {}
      BY AllDo DEF Does, Checks
    <2>3. QED
      BY <2>1, <2>2, ChecksAre DEF Mirror
  <1>3. Shifts(3)
    <2>1. ChecksAt(3 - 1) = {ProbePair, MillBanksOnly} /\ ChecksAt(3) = {ProbePair, MillBanksOnly}
      BY ChecksThen
    <2>2. /\ Up(3).lifts = {} /\ Up(3).sets = {}
          /\ Down(3).drops = Tooling /\ Down(3).lifts = {} /\ Down(3).sets = {}
      BY AllDo DEF Does, Checks
    <2>3. QED
      BY <2>1, <2>2, ChecksAre DEF Tooling
  <1>4. Shifts(7)
    <2>1. ChecksAt(7 - 1) = {ProbePair, MillBanksOnly} /\ ChecksAt(7) = {ProbeIdentity, MillBanksOnly}
      BY ChecksThen
    <2>2. /\ Down(7).drops = {} /\ Up(7).lifts = {ProbePair.name} /\ Up(7).sets = {ProbeIdentity}
          /\ Down(7).lifts = {ProbeIdentity.name} /\ Down(7).sets = {ProbePair}
      BY AllDo DEF Does, Checks
    <2>3. {k \in ChecksAt(7 - 1) : k.name \notin Up(7).lifts} = {MillBanksOnly}
      BY <2>1, <2>2, ChecksAre
    <2>4. {k \in ChecksAt(7) : k.table \notin Down(7).drops /\ k.name \notin Down(7).lifts} = {MillBanksOnly}
      BY <2>1, <2>2, ChecksAre
    <2>5. QED
      BY <2>1, <2>2, <2>3, <2>4
  <1>5. Shifts(8)
    <2>1. /\ ChecksAt(8 - 1) = {ProbeIdentity, MillBanksOnly}
          /\ ChecksAt(8) = {ProbeIdentity, MachineClass, BothBanks}
      BY ChecksThen
    <2>2. /\ Down(8).drops = {} /\ Up(8).lifts = {MillBanksOnly.name}
          /\ Up(8).sets = {MachineClass, BothBanks}
          /\ Down(8).lifts = {BothBanks.name, MachineClass.name} /\ Down(8).sets = {MillBanksOnly}
      BY AllDo DEF Does, Checks
    <2>3. {k \in ChecksAt(8 - 1) : k.name \notin Up(8).lifts} = {ProbeIdentity}
      BY <2>1, <2>2, ChecksAre
    <2>4. {k \in ChecksAt(8) : k.table \notin Down(8).drops /\ k.name \notin Down(8).lifts} = {ProbeIdentity}
      BY <2>1, <2>2, ChecksAre
    <2>5. QED
      BY <2>1, <2>2, <2>3, <2>4
  <1>6. ASSUME NEW n \in {4, 5, 9}
        PROVE  Shifts(n)
    <2>1. ChecksAt(n) = ChecksAt(n - 1)
      BY ChecksThen
    <2>2. \A k \in ChecksAt(n) : k.table \in {"machine", "focas_offset_register"}
      BY ChecksAre DEF ChecksAt
    <2>3. PICK table, columns :
            /\ Does(n, {table}, {table} \X columns, {table}, {}) /\ Checks(n, {}, {}, {}, {})
            /\ table \in {"focas_macro_var", "focas_machine_status", "focas_work_offset"}
      BY AllDo
    <2>4. QED
      BY <2>1, <2>2, <2>3 DEF Does, Checks
  <1>7. ASSUME NEW n \in {6, 10, 11, 12, 13}
        PROVE  Shifts(n)
    <2>1. ChecksAt(n) = ChecksAt(n - 1)
      BY ChecksThen
    <2>2. PICK table, columns :
            Does(n, {}, {table} \X columns, {}, {table} \X columns) /\ Checks(n, {}, {}, {}, {})
      BY AllDo
    <2>3. QED
      BY <2>1, <2>2 DEF Does, Checks
  <1>8. QED
    BY <1>1, <1>2, <1>3, <1>4, <1>5, <1>6, <1>7

\* What becomes of the rows of machines: only revision 1 drops them, 3 and those
\* before it their H register, 8 their class, 2 the banks of their offsets.
LEMMA RowsAre ==
  /\ \A c \in Up(1).adds : c[1] # "focas_offset_register"
  /\ <<"machine", "id">> \in Up(1).adds /\ "machine" \in Down(1).drops
  /\ "focas_offset_register" \in Down(2).drops
  /\ \A n \in 2..13 : "machine" \notin Down(n).drops /\ <<"machine", "id">> \notin Down(n).removes
  /\ \A n \in 4..13 : <<"machine", "probe_h_register">> \notin Down(n).removes
  /\ \A n \in 2..13 : n # 8 => <<"machine", "machine_class">> \notin Down(n).removes
  <1>1. \A c \in Up(1).adds : c[1] # "focas_offset_register"
    <2>1. Up(1).adds = CoreTables
      BY AllDo DEF Does
    <2>2. \A c \in CoreTables : c[1] \in {"machine", "user", "audit_log"}
      BY TablesCreated
    <2>3. QED
      BY <2>1, <2>2
  <1>2. <<"machine", "id">> \in Up(1).adds
    <2>1. "machine" \in DOMAIN OfficeTables /\ "id" \in OfficeTables["machine"]
      BY DEF OfficeTables
    <2>2. <<"machine", "id">> \in ColumnsOf(OfficeTables)
      BY <2>1, ColumnsAre
    <2>3. QED
      BY <2>2, AllDo DEF Does, CoreTables
  <1>3. "machine" \in Down(1).drops /\ "focas_offset_register" \in Down(2).drops
    BY AllDo DEF Does, Core, Mirror
  <1>4. /\ "machine" \notin Down(2).drops /\ Down(2).removes = {}
        /\ "machine" \notin Down(3).drops /\ Down(3).removes = ProbeColumn
        /\ Down(7).drops = {} /\ Down(7).removes = {}
        /\ Down(8).drops = {} /\ Down(8).removes = ClassColumn
    BY AllDo DEF Does, Mirror, Tooling
  <1>5. \A n \in {4, 5, 9} : "machine" \notin Down(n).drops /\ Down(n).removes = {}
    BY AllDo DEF Does
  <1>6. ASSUME NEW n \in {6, 10, 11, 12, 13}
        PROVE  /\ Down(n).drops = {} /\ <<"machine", "id">> \notin Down(n).removes
               /\ <<"machine", "probe_h_register">> \notin Down(n).removes
               /\ <<"machine", "machine_class">> \notin Down(n).removes
    <2>1. PICK table, columns : /\ Does(n, {}, {table} \X columns, {}, {table} \X columns)
                                /\ columns \cap {"id", "probe_h_register", "machine_class"} = {}
      BY AllDo
    <2>2. QED
      BY <2>1 DEF Does
  <1>7. QED
    BY <1>1, <1>2, <1>3, <1>4, <1>5, <1>6 DEF ProbeColumn, ClassColumn

(* A database has the columns and the checks of its revision and obeys them; *)
(* what a revision has added belonged to none before it, nor did its tables. *)
ColumnsUpTo(r) == UNION {Up(n).adds : n \in 1..r}
AsRevision == db.columns = ColumnsUpTo(revision) /\ db.checks = ChecksAt(revision)
Apart ==
  \A n \in 1..revision : \A k \in 1..(n - 1) : \A c \in Up(k).adds :
    c \notin Up(n).adds /\ c[1] \notin Up(n).creates
AllObeyed == \A k \in db.checks : Obeyed(k.rule, db)
NoBanksYet == revision < 2 => \A m \in Control : db.banks[m] = {}
DInv == SInv /\ AsRevision /\ Apart /\ AllObeyed /\ NoBanksYet

\* What a step takes away, and what it leaves.
Gone(s) == {c \in db.columns : c[1] \in s.drops} \cup s.removes

\* The parts of a database after a step.
LEMMA AfterIs ==
  ASSUME NEW s, db' = After(db, s)
  PROVE  /\ db'.columns = (db.columns \ Gone(s)) \cup s.adds
         /\ db'.checks = {k \in db.checks : k.table \notin s.drops /\ k.name \notin s.lifts} \cup s.sets
         /\ db'.machines = [m \in Control |-> Without(db.machines[m], Gone(s))]
         /\ db'.banks = [m \in Control |->
                           IF "focas_offset_register" \in s.drops THEN {} ELSE db.banks[m]]
  <1> DEFINE columns == (db.columns \ Gone(s)) \cup s.adds
             checks == {k \in db.checks : k.table \notin s.drops /\ k.name \notin s.lifts} \cup s.sets
             machines == [m \in Control |-> Without(db.machines[m], Gone(s))]
             banks == [m \in Control |->
                         IF "focas_offset_register" \in s.drops THEN {} ELSE db.banks[m]]
  <1>1. db' = [columns |-> columns, checks |-> checks, machines |-> machines, banks |-> banks]
    BY DEF After, Gone
  <1> HIDE DEF columns, checks, machines, banks
  <1>2. db'.columns = columns /\ db'.checks = checks /\ db'.machines = machines /\ db'.banks = banks
    BY <1>1
  <1>3. QED
    BY <1>2 DEF columns, checks, machines, banks

\* A machine that loses nothing remains what it is.
LEMMA WithoutIs ==
  ASSUME NEW p \in Probes \cup {NotThere}, NEW gone,
         <<"machine", "id">> \notin gone
  PROVE  /\ p = NotThere => Without(p, gone) = NotThere
         /\ p # NotThere =>
              /\ Without(p, gone) # NotThere => p \in Probes
              /\ Without(p, gone).pot = p.pot /\ Without(p, gone).t = p.t
              /\ Without(p, gone).h = (p.h /\ <<"machine", "probe_h_register">> \notin gone)
         /\ <<"machine", "probe_h_register">> \notin gone /\ <<"machine", "machine_class">> \notin gone =>
              Without(p, gone) = p
  BY DEF Without, Probes

\* Of the rules of the checks, that on H is of revision 7.
LEMMA RulesAre ==
  ASSUME NEW n \in 0..13, NEW k \in ChecksAt(n)
  PROVE  /\ k.rule \in {"pot with T", "H with T", "mill", "any"}
         /\ k.rule = "H with T" => n > 6
  <1>1. \/ k \in {ProbePair, MillBanksOnly, MachineClass, BothBanks}
        \/ k = ProbeIdentity /\ n > 6
    BY DEF ChecksAt
  <1>2. QED
    BY <1>1, ChecksAre

\* An upgrade.
LEMMA UpgradedKeeps ==
  ASSUME DInv, Upgraded
  PROVE  DInv' /\ db'.machines = db.machines
  <1> USE DEF DInv
  <1> DEFINE n == revision + 1
             s == Up(n)
  <1>1. revision \in 0..Latest /\ revision < Latest /\ revision' = n /\ Latest = 13
    BY RevisionsAre DEF SInv, Upgraded
  <1>2. n \in 1..13 /\ n - 1 = revision
    BY <1>1
  <1>3. Accepted(db, s) /\ db' = After(db, s)
    BY DEF Upgraded, Up
  <1>4. /\ s.creates \cap TablesOf(db) = {} /\ s.adds \cap db.columns = {}
        /\ \A k \in s.sets : Obeyed(k.rule, db)
    BY <1>3 DEF Accepted, Possible
  <1>5. s.drops = {} /\ s.removes = {}
    BY <1>2, AllReversible DEF Reversible
  <1>6. Gone(s) = {}
    BY <1>5 DEF Gone
  <1> HIDE DEF s, n
  <1>7. /\ db'.columns = db.columns \cup s.adds
        /\ db'.checks = {k \in db.checks : k.name \notin s.lifts} \cup s.sets
        /\ db'.machines = [m \in Control |-> Without(db.machines[m], {})]
        /\ db'.banks = [m \in Control |-> db.banks[m]]
    <2>1. /\ db'.columns = (db.columns \ Gone(s)) \cup s.adds
          /\ db'.checks = {k \in db.checks : k.table \notin s.drops /\ k.name \notin s.lifts} \cup s.sets
          /\ db'.machines = [m \in Control |-> Without(db.machines[m], Gone(s))]
          /\ db'.banks = [m \in Control |->
                            IF "focas_offset_register" \in s.drops THEN {} ELSE db.banks[m]]
      BY <1>3, AfterIs
    <2>2. QED
      BY <1>5, <1>6, <2>1
  <1>8. db'.machines = db.machines
    <2>1. \A m \in Control : Without(db.machines[m], {}) = db.machines[m]
      BY WithoutIs DEF SInv
    <2>2. QED
      BY <1>7, <2>1 DEF SInv
  <1>9. db'.banks = db.banks
    BY <1>7 DEF SInv
  <1>10. SInv'
    BY <1>1, <1>2, <1>3, AfterKeeps
  <1>11. AsRevision'
    <2>1. ColumnsUpTo(n) = ColumnsUpTo(revision) \cup Up(n).adds
      <3>1. 1..n = 1..revision \cup {n}
        BY <1>1, <1>2
      <3>2. QED
        BY <3>1 DEF ColumnsUpTo
    <2>2. ChecksAt(n) = {k \in ChecksAt(revision) : k.name \notin Up(n).lifts} \cup Up(n).sets
      BY <1>2, ChecksMove
    <2>3. QED
      BY <1>1, <1>7, <2>1, <2>2 DEF AsRevision, s
  <1>12. Apart'
    <2>1. ASSUME NEW k \in 1..(n - 1), NEW c \in Up(k).adds
          PROVE  c \notin Up(n).adds /\ c[1] \notin Up(n).creates
      <3>1. c \in db.columns
        BY <1>2 DEF AsRevision, ColumnsUpTo
      <3>2. c[1] \in TablesOf(db)
        BY <3>1 DEF TablesOf
      <3>3. QED
        BY <1>4, <3>1, <3>2 DEF s
    <2>2. 1..n = 1..revision \cup {n}
      BY <1>1, <1>2
    <2>3. QED
      BY <1>1, <2>1, <2>2 DEF Apart
  <1>13. AllObeyed'
    <2>1. \A rule : Obeyed(rule, db') = Obeyed(rule, db)
      BY <1>8, <1>9 DEF Obeyed
    <2>2. \A k \in db'.checks : Obeyed(k.rule, db')
      BY <1>4, <1>7, <2>1 DEF AllObeyed
    <2>3. QED
      BY <2>2 DEF AllObeyed, Obeyed
  <1>14. NoBanksYet'
    BY <1>1, <1>2, <1>9 DEF NoBanksYet
  <1>15. QED
    BY <1>8, <1>10, <1>11, <1>12, <1>13, <1>14

\* A rule that a database obeys is obeyed when a downgrade has left of a machine
\* its pot, its T and, where the rule asks for it, its H.
LEMMA StillObeyed ==
  ASSUME SInv, NEW gone, <<"machine", "id">> \notin gone,
         NEW d, d.machines = [m \in Control |-> Without(db.machines[m], gone)],
         \A m \in Control : d.banks[m] \subseteq db.banks[m],
         NEW rule \in {"pot with T", "H with T", "mill", "any"}, Obeyed(rule, db),
         rule = "H with T" => <<"machine", "probe_h_register">> \notin gone
  PROVE  Obeyed(rule, d)
  <1> SUFFICES ASSUME NEW m \in Control, d.machines[m] # NotThere
               PROVE  CASE rule = "pot with T" -> d.machines[m].pot = d.machines[m].t
                        [] rule = "H with T" -> d.machines[m].h = d.machines[m].t
                        [] rule = "mill" -> "lathe" \notin d.banks[m]
                        [] rule = "any" -> TRUE
    BY DEF Obeyed
  <1> DEFINE p == db.machines[m]
  <1>1. p \in Probes \cup {NotThere} /\ d.machines[m] = Without(p, gone)
    BY DEF SInv
  <1> HIDE DEF p
  <1>2. p # NotThere
    BY <1>1, WithoutIs
  <1>3. /\ d.machines[m].pot = p.pot /\ d.machines[m].t = p.t
        /\ d.machines[m].h = (p.h /\ <<"machine", "probe_h_register">> \notin gone)
    <2>1. /\ Without(p, gone).pot = p.pot /\ Without(p, gone).t = p.t
          /\ Without(p, gone).h = (p.h /\ <<"machine", "probe_h_register">> \notin gone)
      BY <1>1, <1>2, WithoutIs, Zenon
    <2>2. QED
      BY <1>1, <2>1, Zenon
  <1>4. CASE rule = "pot with T"
    <2>1. p.pot = p.t
      BY <1>2, <1>4 DEF Obeyed, p
    <2>2. QED
      BY <1>3, <1>4, <2>1
  <1>5. CASE rule = "H with T"
    <2>1. p.h = p.t
      BY <1>2, <1>5 DEF Obeyed, p
    <2>2. p.h \in BOOLEAN
      BY <1>1, <1>2 DEF Probes
    <2>3. d.machines[m].h = p.h
      BY <1>3, <1>5, <2>2
    <2>4. QED
      BY <1>3, <1>5, <2>1, <2>3
  <1>6. CASE rule = "mill"
    BY <1>2, <1>6 DEF Obeyed, p
  <1>7. CASE rule = "any"
    BY <1>7
  <1>8. QED
    BY <1>4, <1>5, <1>6, <1>7

\* A downgrade.
LEMMA DowngradedKeeps ==
  ASSUME DInv, Downgraded
  PROVE  DInv'
  <1> USE DEF DInv
  <1> DEFINE n == revision
             s == Down(n)
  <1>1. n \in 1..13 /\ revision' = n - 1 /\ Latest = 13
    BY RevisionsAre DEF SInv, Downgraded
  <1>2. Accepted(db, s) /\ db' = After(db, s)
    BY DEF Downgraded, Down
  <1>3. \A k \in s.sets : Obeyed(k.rule, db)
    BY <1>2 DEF Accepted
  <1>4. /\ s.creates = {} /\ s.adds = {} /\ s.drops \subseteq Up(n).creates
        /\ s.removes \subseteq Up(n).adds /\ \A c \in Up(n).adds : c[1] \in s.drops \/ c \in s.removes
    BY <1>1, AllReversible DEF Reversible
  <1> HIDE DEF s
  <1>5. /\ db'.columns = (db.columns \ Gone(s)) \cup s.adds
        /\ db'.checks = {k \in db.checks : k.table \notin s.drops /\ k.name \notin s.lifts} \cup s.sets
        /\ db'.machines = [m \in Control |-> Without(db.machines[m], Gone(s))]
        /\ db'.banks = [m \in Control |->
                          IF "focas_offset_register" \in s.drops THEN {} ELSE db.banks[m]]
    BY <1>2, AfterIs
  <1>6. SInv'
    BY <1>1, <1>2, AfterKeeps
  <1>7. db'.columns = ColumnsUpTo(n - 1)
    <2>1. 1..n = 1..(n - 1) \cup {n}
      BY <1>1
    <2>2. db.columns = ColumnsUpTo(n - 1) \cup Up(n).adds
      BY <2>1 DEF AsRevision, ColumnsUpTo
    <2>3. ASSUME NEW c \in ColumnsUpTo(n - 1)
          PROVE  c \in db.columns /\ c \notin Gone(s)
      <3>1. c \notin Up(n).adds /\ c[1] \notin Up(n).creates
        BY <1>1 DEF ColumnsUpTo, Apart
      <3>2. QED
        BY <1>4, <2>2, <3>1 DEF Gone
    <2>4. \A c \in Up(n).adds : c \in db.columns /\ c \in Gone(s)
      BY <1>4, <2>2 DEF Gone
    <2>5. QED
      BY <1>4, <1>5, <2>2, <2>3, <2>4
  <1>8. db'.checks = ChecksAt(n - 1)
    <2>1. ChecksAt(n - 1) = {k \in ChecksAt(n) : k.table \notin s.drops /\ k.name \notin s.lifts} \cup s.sets
      BY <1>1, ChecksMove DEF s
    <2>2. QED
      BY <1>5, <2>1 DEF AsRevision
  <1>9. AsRevision'
    BY <1>1, <1>7, <1>8 DEF AsRevision
  <1>10. Apart'
    BY <1>1 DEF Apart
  <1>11. ASSUME NEW k \in db'.checks
         PROVE  Obeyed(k.rule, db')
    <2>1. n \in 2..13
      BY <1>1, <1>8, ChecksThen
    <2>2. <<"machine", "id">> \notin Gone(s)
      BY <2>1, RowsAre DEF Gone, s
    <2>3. k.rule \in {"pot with T", "H with T", "mill", "any"} /\ (k.rule = "H with T" => n > 7)
      <3>1. n - 1 \in 0..13 /\ k \in ChecksAt(n - 1)
        BY <1>8, <2>1
      <3>2. k.rule \in {"pot with T", "H with T", "mill", "any"} /\ (k.rule = "H with T" => n - 1 > 6)
        BY <3>1, RulesAre
      <3>3. n - 1 > 6 => n > 7
        BY <2>1
      <3>4. QED
        BY <3>2, <3>3, Zenon
    <2>4. k.rule = "H with T" => <<"machine", "probe_h_register">> \notin Gone(s)
      <3>1. n > 7 => n \in 4..13 /\ n \in 2..13
        BY <2>1
      <3> SUFFICES ASSUME k.rule = "H with T" PROVE <<"machine", "probe_h_register">> \notin Gone(s)
        OBVIOUS
      <3>2. n \in 4..13 /\ n \in 2..13
        BY <2>3, <3>1, Zenon
      <3>3. /\ "machine" \notin s.drops
            /\ <<"machine", "probe_h_register">> \notin s.removes
        BY <3>2, RowsAre DEF s
      <3>4. QED
        BY <3>3 DEF Gone
    <2>5. Obeyed(k.rule, db)
      BY <1>3, <1>5 DEF AllObeyed
    <2>6. \A m \in Control : db'.banks[m] \subseteq db.banks[m]
      BY <1>5
    <2> HIDE DEF DInv
    <2>7. SInv
      BY DEF DInv
    <2> DEFINE d == db'
    <2>8. /\ d.machines = [m \in Control |-> Without(db.machines[m], Gone(s))]
          /\ \A m \in Control : d.banks[m] \subseteq db.banks[m]
      BY <1>5, <2>6
    <2> HIDE DEF d
    <2>9. Obeyed(k.rule, d)
      BY <2>2, <2>3, <2>4, <2>5, <2>7, <2>8, StillObeyed
    <2>10. QED
      BY <2>9 DEF d
  <1>12. AllObeyed'
    BY <1>11 DEF AllObeyed, Obeyed
  <1>13. NoBanksYet'
    <2>1. CASE n = 1
      BY <1>1, <1>5, <2>1 DEF NoBanksYet
    <2>2. CASE n = 2
      <3>1. "focas_offset_register" \in s.drops
        BY <2>2, RowsAre DEF s
      <3>2. QED
        BY <1>5, <3>1 DEF NoBanksYet
    <2>3. QED
      BY <1>1, <2>1, <2>2 DEF NoBanksYet
  <1>14. QED
    BY <1>6, <1>9, <1>10, <1>12, <1>13

\* A change of a row, which the checks have passed; and one that takes banks away.
LEMMA RowKept ==
  ASSUME DInv, SInv', UNCHANGED revision,
         db'.columns = db.columns, db'.checks = db.checks,
         \A k \in db.checks : Obeyed(k.rule, db'),
         revision < 2 => \A m \in Control : db'.banks[m] = {}
  PROVE  DInv'
  BY DEF DInv, AsRevision, Apart, AllObeyed, NoBanksYet, Obeyed

\* A machine's row, which knows the columns and passes the checks of the day.
LEMMA PutMachineKeeps ==
  ASSUME DInv, NEW m \in Control, NEW line \in Probes, PutMachine(m, line)
  PROVE  DInv'
  <1>1. db' = [db EXCEPT !.machines[m] = line] /\ UNCHANGED revision
    BY DEF PutMachine
  <1>2. \A k \in db.checks : Obeyed(k.rule, db')
    BY DEF PutMachine
  <1>3. /\ db'.columns = db.columns /\ db'.checks = db.checks /\ db'.banks = db.banks
        /\ SInv'
    BY <1>1 DEF DInv, SInv
  <1>4. QED
    BY <1>1, <1>2, <1>3, RowKept DEF DInv, NoBanksYet

\* The banks of a poll, which want the table of revision 2.
LEMMA PutOffsetsKeeps ==
  ASSUME DInv, NEW m \in Control, PutOffsets(m)
  PROVE  DInv'
  <1>1. db' = [db EXCEPT !.banks[m] = @ \cup {db.machines[m].class}] /\ UNCHANGED revision
    BY DEF PutOffsets
  <1>2. \A k \in db.checks : Obeyed(k.rule, db')
    BY DEF PutOffsets
  <1>3. db'.columns = db.columns /\ db'.checks = db.checks
    BY <1>1 DEF DInv, SInv
  <1>4. SInv'
    <2>1. db.machines[m].class \in {"mill", "lathe"}
      BY DEF DInv, SInv, PutOffsets, Probes
    <2>2. QED
      BY <1>1, <2>1 DEF DInv, SInv, Banks
  <1>5. revision >= 2
    <2>1. PICK c \in db.columns : c[1] = "focas_offset_register"
      BY DEF PutOffsets, TablesOf
    <2>2. PICK k \in 1..revision : c \in Up(k).adds
      BY <2>1 DEF DInv, AsRevision, ColumnsUpTo
    <2>3. k # 1
      BY <2>1, <2>2, RowsAre
    <2>4. QED
      BY <2>2, <2>3, RevisionsAre DEF DInv, SInv
  <1>6. revision < 2 => \A x \in Control : db'.banks[x] = {}
    BY <1>5, RevisionsAre DEF DInv, SInv
  <1>7. QED
    BY <1>1, <1>2, <1>3, <1>4, <1>6, RowKept

\* The rows of a bank, deleted.
LEMMA DeleteOffsetsKeeps ==
  ASSUME DInv, NEW m \in Control, NEW class \in {"mill", "lathe"}, DeleteOffsets(m, class)
  PROVE  DInv'
  <1>1. db' = [db EXCEPT !.banks[m] = @ \ {class}] /\ UNCHANGED revision
    BY DEF DeleteOffsets
  <1>2. /\ db'.columns = db.columns /\ db'.checks = db.checks /\ db'.machines = db.machines
        /\ SInv' /\ \A x \in Control : db'.banks[x] \subseteq db.banks[x]
    BY <1>1 DEF DInv, SInv, Banks
  <1>3. ASSUME NEW k \in db.checks
        PROVE  Obeyed(k.rule, db')
    <2>1. Obeyed(k.rule, db)
      BY DEF DInv, AllObeyed
    <2>2. k.rule \in {"pot with T", "H with T", "mill", "any"}
      BY RevisionsAre, RulesAre DEF DInv, SInv, AsRevision
    <2>3. QED
      BY <1>2, <2>1, <2>2 DEF Obeyed
  <1>4. revision < 2 => \A x \in Control : db'.banks[x] = {}
    BY <1>2 DEF DInv, NoBanksYet
  <1>5. QED
    BY <1>1, <1>2, <1>3, <1>4, RowKept

\* An empty database, and every step.
LEMMA InitDInv == SchemaInit => DInv
  <1> SUFFICES ASSUME SchemaInit PROVE DInv
    OBVIOUS
  <1>1. /\ revision = 0 /\ db.columns = {} /\ db.checks = {}
        /\ \A m \in Control : db.banks[m] = {}
    BY DEF SchemaInit
  <1>2. ColumnsUpTo(0) = {} /\ ChecksAt(0) = {}
    BY ChecksThen DEF ColumnsUpTo
  <1>3. QED
    BY <1>1, <1>2, InitSInv DEF DInv, AsRevision, Apart, AllObeyed, NoBanksYet

\* Each migration and each change of a row keeps the invariant.
LEMMA NextDInv == DInv /\ [SchemaNext]_schemaVars => DInv'
  <1> SUFFICES ASSUME DInv, [SchemaNext]_schemaVars PROVE DInv'
    OBVIOUS
  <1>1. CASE Upgraded
    BY <1>1, UpgradedKeeps
  <1>2. CASE Downgraded
    BY <1>2, DowngradedKeeps
  <1>3. ASSUME NEW m \in Control, NEW line \in Probes, PutMachine(m, line) PROVE DInv'
    BY <1>3, PutMachineKeeps
  <1>4. ASSUME NEW m \in Control, PutOffsets(m) PROVE DInv'
    BY <1>4, PutOffsetsKeeps
  <1>5. ASSUME NEW m \in Control, NEW class \in {"mill", "lathe"}, DeleteOffsets(m, class) PROVE DInv'
    BY <1>5, DeleteOffsetsKeeps
  <1>6. CASE UNCHANGED schemaVars
    <2>1. UNCHANGED revision /\ UNCHANGED db
      BY <1>6 DEF schemaVars
    <2>2. QED
      BY <2>1 DEF DInv, SInv, AsRevision, Apart, AllObeyed, NoBanksYet, Obeyed
  <1>7. QED
    BY <1>1, <1>2, <1>3, <1>4, <1>5, <1>6 DEF SchemaNext

\* The checks of a straight way to a revision are those that the database has.
Straight(r) ==
  UNION {{k \in Revisions[n].up.sets :
            \A later \in (n + 1)..r : k.name \notin Revisions[later].up.lifts} : n \in 1..r}

\* One more revision lifts some checks and sets others.
LEMMA StraightMoves ==
  ASSUME NEW n \in 1..13
  PROVE  Straight(n) = {k \in Straight(n - 1) : k.name \notin Up(n).lifts} \cup Up(n).sets
  <1>1. \A r, k : k \in Straight(r) <=>
          \E i \in 1..r : /\ k \in Up(i).sets
                          /\ \A later \in (i + 1)..r : k.name \notin Up(later).lifts
    BY DEF Straight, Up
  <1>2. ASSUME NEW k \in Straight(n)
        PROVE  k \in Up(n).sets \/ (k \in Straight(n - 1) /\ k.name \notin Up(n).lifts)
    <2>1. PICK i \in 1..n : /\ k \in Up(i).sets
                            /\ \A later \in (i + 1)..n : k.name \notin Up(later).lifts
      BY <1>1
    <2>2. CASE i = n
      BY <2>1, <2>2
    <2>3. CASE i # n
      <3>1. i \in 1..(n - 1) /\ n \in (i + 1)..n /\ \A later \in (i + 1)..(n - 1) : later \in (i + 1)..n
        BY <2>3
      <3>2. QED
        BY <1>1, <2>1, <3>1
    <2>4. QED
      BY <2>2, <2>3
  <1>3. ASSUME NEW k \in Up(n).sets
        PROVE  k \in Straight(n)
    <2>1. n \in 1..n /\ (n + 1)..n = {}
      OBVIOUS
    <2>2. QED
      BY <1>1, <2>1
  <1>4. ASSUME NEW k \in Straight(n - 1), k.name \notin Up(n).lifts
        PROVE  k \in Straight(n)
    <2>1. PICK i \in 1..(n - 1) : /\ k \in Up(i).sets
                                  /\ \A later \in (i + 1)..(n - 1) : k.name \notin Up(later).lifts
      BY <1>1
    <2>2. i \in 1..n /\ \A later \in (i + 1)..n : later = n \/ later \in (i + 1)..(n - 1)
      OBVIOUS
    <2>3. \A later \in (i + 1)..n : k.name \notin Up(later).lifts
      BY <1>4, <2>1, <2>2
    <2>4. QED
      BY <1>1, <2>1, <2>2, <2>3
  <1>5. QED
    BY <1>2, <1>3, <1>4

\* They are those of the revision, for there is no first one where they differ.
LEMMA StraightIs == \A n \in 0..13 : Straight(n) = ChecksAt(n)
  <1> DEFINE N == {n \in Nat : n <= 13 /\ Straight(n) # ChecksAt(n)}
  <1>1. Straight(0) = ChecksAt(0)
    BY ChecksThen DEF Straight
  <1>2. N = {}
    <2> SUFFICES ASSUME N # {} PROVE FALSE
      OBVIOUS
    <2>1. PICK n \in N : \A m \in N : n <= m
      BY LeastOf
    <2>2. n \in 1..13 /\ n - 1 \in Nat /\ n - 1 \notin N
      BY <1>1, <2>1
    <2>3. Straight(n - 1) = ChecksAt(n - 1)
      BY <2>2
    <2>4. Straight(n) = ChecksAt(n)
      BY <2>2, <2>3, StraightMoves, ChecksMove
    <2>5. QED
      BY <2>1, <2>4
  <1>3. QED
    BY <1>2

\* The columns of one table, and of the tables of a record.
Of(table, columns) == {table} \X columns

\* The columns of a table in several parts.
LEMMA OfAll ==
  ASSUME NEW t, NEW A, NEW B, NEW C, NEW D
  PROVE  Of(t, A \cup B \cup C \cup D) = Of(t, A) \cup Of(t, B) \cup Of(t, C) \cup Of(t, D)
  BY DEF Of

\* The tables that the revisions create, one by one.
LEMMA TablesOfRecord ==
  /\ ColumnsOf(OfficeTables) = Of("machine", OfficeTables.machine) \cup Of("user", OfficeTables.user)
  /\ ColumnsOf(AuditTable) = Of("audit_log", AuditTable.audit_log)
  /\ ColumnsOf(MirrorTables) = Of("focas_offset_register", MirrorTables.focas_offset_register)
       \cup Of("focas_pot", MirrorTables.focas_pot)
       \cup Of("focas_tool_life", MirrorTables.focas_tool_life)
  /\ ColumnsOf(LibraryTables) = Of("tool_type", LibraryTables.tool_type) \cup Of("tool", LibraryTables.tool)
  /\ ColumnsOf(WorkTables) = Of("assignment", WorkTables.assignment)
       \cup Of("pot_observation", WorkTables.pot_observation)
       \cup Of("offset_write_request", WorkTables.offset_write_request)
  <1>1. DOMAIN OfficeTables = {"machine", "user"}
    BY DEF OfficeTables
  <1>2. DOMAIN AuditTable = {"audit_log"}
    BY DEF AuditTable
  <1>3. DOMAIN MirrorTables = {"focas_offset_register", "focas_pot", "focas_tool_life"}
    BY DEF MirrorTables
  <1>4. DOMAIN LibraryTables = {"tool_type", "tool"}
    BY DEF LibraryTables
  <1>5. DOMAIN WorkTables = {"assignment", "pot_observation", "offset_write_request"}
    BY DEF WorkTables
  <1>6. ColumnsOf(OfficeTables) = Of("machine", OfficeTables["machine"]) \cup Of("user", OfficeTables["user"])
    BY <1>1, ColumnsAre DEF Of
  <1>7. ColumnsOf(AuditTable) = Of("audit_log", AuditTable["audit_log"])
    BY <1>2, ColumnsAre DEF Of
  <1>8. ColumnsOf(MirrorTables) = Of("focas_offset_register", MirrorTables["focas_offset_register"])
          \cup Of("focas_pot", MirrorTables["focas_pot"])
          \cup Of("focas_tool_life", MirrorTables["focas_tool_life"])
    BY <1>3, ColumnsAre DEF Of
  <1>9. ColumnsOf(LibraryTables) = Of("tool_type", LibraryTables["tool_type"])
          \cup Of("tool", LibraryTables["tool"])
    BY <1>4, ColumnsAre DEF Of
  <1>10. ColumnsOf(WorkTables) = Of("assignment", WorkTables["assignment"])
           \cup Of("pot_observation", WorkTables["pot_observation"])
           \cup Of("offset_write_request", WorkTables["offset_write_request"])
    BY <1>5, ColumnsAre DEF Of
  <1>11. QED
    BY <1>6, <1>7, <1>8, <1>9, <1>10

\* The tables that the program declares, one by one.
LEMMA TablesOfProgram ==
  /\ ColumnsOf(DeclaredOffice) = Of("machine", DeclaredOffice.machine) \cup Of("user", DeclaredOffice.user)
  /\ ColumnsOf(DeclaredMirror) = Of("focas_offset_register", DeclaredMirror.focas_offset_register)
       \cup Of("focas_pot", DeclaredMirror.focas_pot)
       \cup Of("focas_tool_life", DeclaredMirror.focas_tool_life)
       \cup Of("focas_macro_var", DeclaredMirror.focas_macro_var)
       \cup Of("focas_machine_status", DeclaredMirror.focas_machine_status)
       \cup Of("focas_work_offset", DeclaredMirror.focas_work_offset)
       \cup Of("audit_log", DeclaredMirror.audit_log)
  /\ ColumnsOf(DeclaredTooling) = Of("tool_type", DeclaredTooling.tool_type)
       \cup Of("tool", DeclaredTooling.tool)
       \cup Of("assignment", DeclaredTooling.assignment)
       \cup Of("pot_observation", DeclaredTooling.pot_observation)
       \cup Of("offset_write_request", DeclaredTooling.offset_write_request)
  <1>1. DOMAIN DeclaredOffice = {"machine", "user"}
    BY DEF DeclaredOffice
  <1>2. DOMAIN DeclaredMirror =
          {"focas_offset_register", "focas_pot", "focas_tool_life", "focas_macro_var",
           "focas_machine_status", "focas_work_offset", "audit_log"}
    BY DEF DeclaredMirror
  <1>3. DOMAIN DeclaredTooling =
          {"tool_type", "tool", "assignment", "pot_observation", "offset_write_request"}
    BY DEF DeclaredTooling
  <1>4. ColumnsOf(DeclaredOffice) =
          Of("machine", DeclaredOffice["machine"]) \cup Of("user", DeclaredOffice["user"])
    BY <1>1, ColumnsAre DEF Of
  <1>5. ColumnsOf(DeclaredMirror) = Of("focas_offset_register", DeclaredMirror["focas_offset_register"])
          \cup Of("focas_pot", DeclaredMirror["focas_pot"])
          \cup Of("focas_tool_life", DeclaredMirror["focas_tool_life"])
          \cup Of("focas_macro_var", DeclaredMirror["focas_macro_var"])
          \cup Of("focas_machine_status", DeclaredMirror["focas_machine_status"])
          \cup Of("focas_work_offset", DeclaredMirror["focas_work_offset"])
          \cup Of("audit_log", DeclaredMirror["audit_log"])
    BY <1>2, ColumnsAre DEF Of
  <1>6. ColumnsOf(DeclaredTooling) = Of("tool_type", DeclaredTooling["tool_type"])
          \cup Of("tool", DeclaredTooling["tool"])
          \cup Of("assignment", DeclaredTooling["assignment"])
          \cup Of("pot_observation", DeclaredTooling["pot_observation"])
          \cup Of("offset_write_request", DeclaredTooling["offset_write_request"])
    BY <1>3, ColumnsAre DEF Of
  <1>7. QED
    BY <1>4, <1>5, <1>6

\* Table by table, what is declared is what was created and what was added.
LEMMA DeclaredIs ==
  /\ DeclaredOffice.machine = OfficeTables.machine \cup {"probe_h_register"}
       \cup {"machine_class"} \cup {"status_poll_interval_seconds"}
  /\ DeclaredOffice.user = OfficeTables.user
  /\ DeclaredMirror.focas_offset_register = MirrorTables.focas_offset_register
  /\ DeclaredMirror.focas_pot = MirrorTables.focas_pot
  /\ DeclaredMirror.focas_tool_life = MirrorTables.focas_tool_life
  /\ DeclaredMirror.focas_macro_var = Polled \cup {"number", "value"}
  /\ DeclaredMirror.focas_machine_status =
       (Polled \cup {"head_t_number", "next_t_number", "mode", "running", "emergency_stop"})
         \cup {"active_wcs"} \cup {"last_tool_t_word", "last_tool_at"}
         \cup {"program_number", "program_name"}
  /\ DeclaredMirror.focas_work_offset = Polled \cup {"slot", "axis", "value"}
  /\ DeclaredMirror.audit_log = AuditTable.audit_log
  /\ DeclaredTooling.tool_type = LibraryTables.tool_type
  /\ DeclaredTooling.tool = LibraryTables.tool \cup {"manufacturer", "edp_number"}
  /\ DeclaredTooling.assignment = WorkTables.assignment
  /\ DeclaredTooling.pot_observation = WorkTables.pot_observation
  /\ DeclaredTooling.offset_write_request = WorkTables.offset_write_request
  <1>1. /\ DeclaredOffice.machine = OfficeTables.machine \cup {"probe_h_register"}
             \cup {"machine_class"} \cup {"status_poll_interval_seconds"}
        /\ DeclaredOffice.user = OfficeTables.user
    BY DEF DeclaredOffice, OfficeTables
  <1>2. /\ DeclaredMirror.focas_offset_register = MirrorTables.focas_offset_register
        /\ DeclaredMirror.focas_pot = MirrorTables.focas_pot
        /\ DeclaredMirror.focas_tool_life = MirrorTables.focas_tool_life
        /\ DeclaredMirror.focas_macro_var = Polled \cup {"number", "value"}
        /\ DeclaredMirror.focas_work_offset = Polled \cup {"slot", "axis", "value"}
    BY DEF DeclaredMirror, MirrorTables
  <1>3. DeclaredMirror.focas_machine_status =
          (Polled \cup {"head_t_number", "next_t_number", "mode", "running", "emergency_stop"})
            \cup {"active_wcs"} \cup {"last_tool_t_word", "last_tool_at"}
            \cup {"program_number", "program_name"}
    BY DEF DeclaredMirror
  <1>4. DeclaredMirror.audit_log = AuditTable.audit_log
    BY DEF DeclaredMirror, AuditTable
  <1>5. /\ DeclaredTooling.tool_type = LibraryTables.tool_type
        /\ DeclaredTooling.tool = LibraryTables.tool \cup {"manufacturer", "edp_number"}
    BY DEF DeclaredTooling, LibraryTables
  <1>6. /\ DeclaredTooling.assignment = WorkTables.assignment
        /\ DeclaredTooling.pot_observation = WorkTables.pot_observation
        /\ DeclaredTooling.offset_write_request = WorkTables.offset_write_request
    BY DEF DeclaredTooling, WorkTables
  <1>7. QED
    BY <1>1, <1>2, <1>3, <1>4, <1>5, <1>6

\* Revision by revision, what was created and what was added.
LEMMA LatestColumns ==
  ColumnsUpTo(13) = UNION {ColumnsOf(DeclaredOffice), ColumnsOf(DeclaredMirror), ColumnsOf(DeclaredTooling)}
  <1>1. 1..13 = {1, 2, 3, 4, 5, 6, 7, 8, 9, 10, 11, 12, 13}
    OBVIOUS
  <1>2. ColumnsUpTo(13) = Up(1).adds \cup Up(2).adds \cup Up(3).adds \cup Up(4).adds \cup Up(5).adds
          \cup Up(6).adds \cup Up(7).adds \cup Up(8).adds \cup Up(9).adds \cup Up(10).adds
          \cup Up(11).adds \cup Up(12).adds \cup Up(13).adds
    BY <1>1 DEF ColumnsUpTo
  <1>3. /\ Up(1).adds = ColumnsOf(OfficeTables) \cup ColumnsOf(AuditTable)
        /\ Up(2).adds = ColumnsOf(MirrorTables)
        /\ Up(3).adds = ColumnsOf(LibraryTables) \cup ColumnsOf(WorkTables)
                          \cup Of("machine", {"probe_h_register"})
        /\ Up(7).adds = {} /\ Up(8).adds = Of("machine", {"machine_class"})
    <2>1. ProbeColumn = Of("machine", {"probe_h_register"}) /\ ClassColumn = Of("machine", {"machine_class"})
      BY DEF ProbeColumn, ClassColumn, Of
    <2>2. QED
      BY <2>1, AllDo DEF Does, CoreTables, ToolingTables
  <1>4. ASSUME NEW n \in 1..13, NEW table, NEW columns,
               Spelled(n) = TableOf(table, columns) \/ Spelled(n) = ColumnsTo(table, columns)
        PROVE  Up(n).adds = Of(table, columns)
    <2>1. Up(n).adds = {table} \X columns
      BY <1>4, TablesDo, ColumnsDo DEF Does
    <2>2. QED
      BY <2>1 DEF Of
  <1>5. Up(4).adds = Of("focas_macro_var", Polled \cup {"number", "value"})
    <2>1. Spelled(4) = TableOf("focas_macro_var", Polled \cup {"number", "value"})
      BY DEF Spelled
    <2>2. QED
      BY <1>4, <2>1
  <1>6. Up(5).adds = Of("focas_machine_status", Polled \cup {"head_t_number", "next_t_number",
                          "mode", "running", "emergency_stop"})
    <2>1. Spelled(5) = TableOf("focas_machine_status", Polled \cup {"head_t_number", "next_t_number",
                          "mode", "running", "emergency_stop"})
      BY DEF Spelled
    <2>2. QED
      BY <1>4, <2>1
  <1>7. Up(6).adds = Of("tool", {"manufacturer", "edp_number"})
    <2>1. Spelled(6) = ColumnsTo("tool", {"manufacturer", "edp_number"})
      BY DEF Spelled
    <2>2. QED
      BY <1>4, <2>1
  <1>8. Up(9).adds = Of("focas_work_offset", Polled \cup {"slot", "axis", "value"})
    <2>1. Spelled(9) = TableOf("focas_work_offset", Polled \cup {"slot", "axis", "value"})
      BY DEF Spelled
    <2>2. QED
      BY <1>4, <2>1
  <1>9. Up(10).adds = Of("focas_machine_status", {"active_wcs"})
    <2>1. Spelled(10) = ColumnsTo("focas_machine_status", {"active_wcs"})
      BY DEF Spelled
    <2>2. QED
      BY <1>4, <2>1
  <1>10. Up(11).adds = Of("focas_machine_status", {"last_tool_t_word", "last_tool_at"})
    <2>1. Spelled(11) = ColumnsTo("focas_machine_status", {"last_tool_t_word", "last_tool_at"})
      BY DEF Spelled
    <2>2. QED
      BY <1>4, <2>1
  <1>11. Up(12).adds = Of("machine", {"status_poll_interval_seconds"})
    <2>1. Spelled(12) = ColumnsTo("machine", {"status_poll_interval_seconds"})
      BY DEF Spelled
    <2>2. QED
      BY <1>4, <2>1
  <1>12. Up(13).adds = Of("focas_machine_status", {"program_number", "program_name"})
    <2>1. Spelled(13) = ColumnsTo("focas_machine_status", {"program_number", "program_name"})
      BY DEF Spelled
    <2>2. QED
      BY <1>4, <2>1
  <1>13. Of("machine", DeclaredOffice.machine) = Of("machine", OfficeTables.machine)
           \cup Of("machine", {"probe_h_register"}) \cup Of("machine", {"machine_class"})
           \cup Of("machine", {"status_poll_interval_seconds"})
    <2>1. DeclaredOffice.machine = OfficeTables.machine \cup {"probe_h_register"}
            \cup {"machine_class"} \cup {"status_poll_interval_seconds"}
      BY DeclaredIs
    <2>2. QED
      BY <2>1, OfAll, SMTT(30)
  <1>14. Of("focas_machine_status", DeclaredMirror.focas_machine_status) =
           Of("focas_machine_status", Polled \cup {"head_t_number", "next_t_number", "mode", "running",
                                                   "emergency_stop"})
             \cup Of("focas_machine_status", {"active_wcs"})
             \cup Of("focas_machine_status", {"last_tool_t_word", "last_tool_at"})
             \cup Of("focas_machine_status", {"program_number", "program_name"})
    <2>1. DeclaredMirror.focas_machine_status =
            (Polled \cup {"head_t_number", "next_t_number", "mode", "running", "emergency_stop"})
              \cup {"active_wcs"} \cup {"last_tool_t_word", "last_tool_at"}
              \cup {"program_number", "program_name"}
      BY DeclaredIs
    <2>2. QED
      BY <2>1, OfAll, SMTT(30)
  <1>15. Of("tool", DeclaredTooling.tool) = Of("tool", LibraryTables.tool)
                                              \cup Of("tool", {"manufacturer", "edp_number"})
    BY DeclaredIs DEF Of
  <1> DEFINE office == ColumnsOf(DeclaredOffice)
             mirror == ColumnsOf(DeclaredMirror)
             tooling == ColumnsOf(DeclaredTooling)
  <1>16. ColumnsOf(AuditTable) \subseteq mirror /\ ColumnsOf(MirrorTables) \subseteq mirror
    BY TablesOfRecord, TablesOfProgram, DeclaredIs
  <1>17. ColumnsOf(WorkTables) \subseteq tooling /\ ColumnsOf(LibraryTables) \subseteq tooling
         /\ Up(6).adds \subseteq tooling
    BY <1>7, <1>15, TablesOfRecord, TablesOfProgram, DeclaredIs
  <1>18. ColumnsOf(OfficeTables) \subseteq office /\ Of("machine", {"probe_h_register"}) \subseteq office
         /\ Up(8).adds \subseteq office /\ Up(12).adds \subseteq office
    BY <1>3, <1>11, <1>13, TablesOfRecord, TablesOfProgram, DeclaredIs
  <1>19. /\ Up(2).adds \cup Up(4).adds \cup Up(5).adds \cup Up(9).adds \cup Up(10).adds
              \cup Up(11).adds \cup Up(13).adds \subseteq mirror
         /\ mirror \subseteq Up(1).adds \cup Up(2).adds \cup Up(4).adds \cup Up(5).adds \cup Up(9).adds
              \cup Up(10).adds \cup Up(11).adds \cup Up(13).adds
    <2>1. Of("focas_machine_status", DeclaredMirror.focas_machine_status) =
            Up(5).adds \cup Up(10).adds \cup Up(11).adds \cup Up(13).adds
      BY <1>6, <1>9, <1>10, <1>12, <1>14
    <2>2. /\ Of("focas_macro_var", DeclaredMirror.focas_macro_var) = Up(4).adds
          /\ Of("focas_work_offset", DeclaredMirror.focas_work_offset) = Up(9).adds
      BY <1>5, <1>8, DeclaredIs
    <2>3. /\ Up(2).adds = Of("focas_offset_register", DeclaredMirror.focas_offset_register)
               \cup Of("focas_pot", DeclaredMirror.focas_pot)
               \cup Of("focas_tool_life", DeclaredMirror.focas_tool_life)
          /\ Of("audit_log", DeclaredMirror.audit_log) \subseteq Up(1).adds
      BY <1>3, TablesOfRecord, DeclaredIs
    <2>4. QED
      BY <2>1, <2>2, <2>3, TablesOfProgram
  <1>20. office \subseteq Up(1).adds \cup Up(3).adds \cup Up(8).adds \cup Up(12).adds
    BY <1>3, <1>11, <1>13, TablesOfRecord, TablesOfProgram, DeclaredIs
  <1>21. tooling \subseteq Up(3).adds \cup Up(6).adds
    BY <1>3, <1>7, <1>15, TablesOfRecord, TablesOfProgram, DeclaredIs
  <1>22. ColumnsUpTo(13) \subseteq office \cup mirror \cup tooling
    BY <1>2, <1>3, <1>16, <1>17, <1>18, <1>19
  <1>23. office \cup mirror \cup tooling \subseteq ColumnsUpTo(13)
    BY <1>2, <1>19, <1>20, <1>21
  <1>24. QED
    BY <1>22, <1>23

\* No step on the way makes a mill of a lathe.
LEMMA LatheIsKept ==
  ASSUME DInv, [SchemaNext]_schemaVars, NEW m \in Control,
         revision' # revision, db.machines[m] # NotThere, "lathe" \in db.banks[m]
  PROVE  db'.machines[m] = db.machines[m]
  <1>1. Upgraded \/ Downgraded
    BY DEF SchemaNext, schemaVars, PutMachine, PutOffsets, DeleteOffsets
  <1>2. CASE Upgraded
    BY <1>2, UpgradedKeeps
  <1>3. CASE Downgraded
    <2> DEFINE n == revision
               s == Down(n)
    <2>1. n \in 2..13
      BY RevisionsAre DEF DInv, SInv, NoBanksYet
    <2>2. Accepted(db, s) /\ db' = After(db, s)
      BY <1>3 DEF Downgraded, Down
    <2>3. Obeyed("mill", db) => FALSE
      BY DEF Obeyed
    <2>4. n \notin 2..7
      <3>1. n \in 2..7 => MillBanksOnly \in db.checks
        BY DEF DInv, AsRevision, ChecksAt
      <3>2. MillBanksOnly \in db.checks => Obeyed(MillBanksOnly.rule, db)
        BY DEF DInv, AllObeyed
      <3>3. QED
        BY <2>3, <3>1, <3>2, ChecksAre
    <2>5. n # 8
      <3>1. n = 8 => MillBanksOnly \in s.sets
        BY AllDo DEF Checks
      <3>2. MillBanksOnly \in s.sets => Obeyed(MillBanksOnly.rule, db)
        BY <2>2 DEF Accepted
      <3>3. QED
        BY <2>3, <3>1, <3>2, ChecksAre
    <2>6. n \in 9..13
      BY <2>1, <2>4, <2>5
    <2>7. /\ "machine" \notin s.drops /\ <<"machine", "id">> \notin s.removes
          /\ <<"machine", "probe_h_register">> \notin s.removes
          /\ <<"machine", "machine_class">> \notin s.removes
      BY <2>6, RowsAre
    <2>8. /\ <<"machine", "id">> \notin Gone(s) /\ <<"machine", "probe_h_register">> \notin Gone(s)
          /\ <<"machine", "machine_class">> \notin Gone(s)
      BY <2>7 DEF Gone
    <2> HIDE DEF s
    <2>9. db'.machines = [x \in Control |-> Without(db.machines[x], Gone(s))]
      BY <2>2, AfterIs
    <2>10. db.machines[m] \in Probes \cup {NotThere}
      BY DEF DInv, SInv
    <2>11. Without(db.machines[m], Gone(s)) = db.machines[m]
      BY <2>8, <2>10, WithoutIs
    <2>12. QED
      BY <2>9, <2>11
  <1>4. QED
    BY <1>1, <1>2, <1>3

\* What the revision says of the database.
LEMMA SchemaFollows == DInv => SchemaFollowsRevision /\ LatestMatchesProgram /\ ProbeLocksTogether
  <1> SUFFICES ASSUME DInv PROVE SchemaFollowsRevision /\ LatestMatchesProgram /\ ProbeLocksTogether
    OBVIOUS
  <1>1. revision \in 0..13 /\ Latest = 13
    BY RevisionsAre DEF DInv, SInv
  <1>2. db.columns = ColumnsUpTo(revision) /\ db.checks = ChecksAt(revision)
    BY DEF DInv, AsRevision
  <1>3. SchemaFollowsRevision
    <2>1. db.columns = UNION {Revisions[n].up.adds : n \in 1..revision}
      BY <1>2 DEF ColumnsUpTo, Up
    <2>2. db.checks = Straight(revision)
      BY <1>1, <1>2, StraightIs
    <2>3. QED
      BY <2>1, <2>2 DEF SchemaFollowsRevision, Straight
  <1>4. LatestMatchesProgram
    BY <1>1, <1>2, LatestColumns DEF LatestMatchesProgram
  <1>5. ProbeLocksTogether
    <2> SUFFICES ASSUME revision >= 7, NEW m \in Control, db.machines[m] # NotThere
                 PROVE  db.machines[m].t = db.machines[m].h
      BY DEF ProbeLocksTogether
    <2>1. ProbeIdentity \in ChecksAt(revision)
      BY <1>1 DEF ChecksAt
    <2>2. Obeyed("H with T", db)
      BY <1>2, <2>1, ChecksAre DEF DInv, AllObeyed
    <2>3. QED
      BY <2>2 DEF Obeyed
  <1>6. QED
    BY <1>3, <1>4, <1>5

\* A database in use may be taken up and down through the thirteen revisions, with
\* refusals on the way: it has the columns and the checks of its revision, at the
\* latest the columns that the program declares; the locks of its probes go
\* together, and no machine with the banks of a lathe becomes a mill.
THEOREM SchemaAlwaysKept == Spec => SchemaIsKept
  <1>1. Init => DInv
    BY InitDInv DEF Init
  <1>2. DInv /\ [Next]_vars => DInv'
    <2>1. [Next]_vars => [SchemaNext]_schemaVars
      BY DEF Next, vars
    <2>2. QED
      BY <2>1, NextDInv
  <1> DEFINE A == \A m \in Control :
                    (revision' # revision /\ db.machines[m] # NotThere /\ "lathe" \in db.banks[m])
                      => db'.machines[m] = db.machines[m]
  <1>3. DInv /\ [Next]_vars => [A]_schemaVars
    <2>1. [Next]_vars => [SchemaNext]_schemaVars
      BY DEF Next, vars
    <2>2. DInv /\ [SchemaNext]_schemaVars => A
      BY LatheIsKept
    <2>3. QED
      BY <2>1, <2>2
  <1> HIDE DEF A
  <1>4. Spec => [](SchemaFollowsRevision /\ LatestMatchesProgram /\ ProbeLocksTogether) /\ [][A]_schemaVars
    BY <1>1, <1>2, <1>3, SchemaFollows, PTL DEF Spec
  <1>5. [][A]_schemaVars <=> LatheStaysLathe
    BY DEF A, LatheStaysLathe
  <1>6. QED
    BY <1>4, <1>5 DEF SchemaIsKept
=============================================================================
