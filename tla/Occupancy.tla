------------------------------ MODULE Occupancy ------------------------------
(***************************************************************************)
(* What the mirror of a mill says of its pots (services/occupancy.py) and  *)
(* of the tools that are on the machine now (web, lib/activeLoadout.ts):   *)
(* pure operators over a mirror, a function from <<what, number>> to       *)
(* values.  Absent values are <<>>, others <<v>>; lengths are plain.       *)
(***************************************************************************)
EXTENDS Integers, Sequences, FiniteSets

Lookup(f, k) == IF k \in DOMAIN f THEN f[k] ELSE <<>>
Length(mirror, h) ==
  IF <<"h_geom", h>> \in DOMAIN mirror THEN <<mirror[<<"h_geom", h>>]>> ELSE <<>>

\* classify_pot: t the tool that the cell names, h the register its active
\* assignment gives it, length the mirror's, each if there is one.
\* (Variant: a tool without an assignment is taken to use the register of its
\* own number.)
ClassifyPotByNumber(pot, t, probe, h, length) ==
  IF t # <<>> /\ t = probe THEN "probe"
  ELSE IF t = <<>> THEN "empty"
  ELSE IF h = <<>> THEN "loaded"
  ELSE IF length = <<>> \/ length = <<0>> THEN "empty" ELSE "loaded"

ClassifyPot(pot, t, probe, h, length) ==
  IF t # <<>> /\ t = probe THEN "probe"
  ELSE IF t = <<>> THEN "empty"
  ELSE IF h = <<>> THEN IF t = <<pot>> THEN "empty" ELSE "unverified"
  ELSE IF length = <<>> \/ length = <<0>> THEN "empty" ELSE "loaded"

\* _pot_location
PotLocation(t, head, next) ==
  CASE t # <<>> /\ t = head -> "spindle"
    [] t # <<>> /\ t # head /\ t = next -> "next"
    [] OTHER -> "none"

\* occupancy: a row for each pot the mirror has, in the order of the pots.
Pots(mirror) == {k[2] : k \in {k \in DOMAIN mirror : k[1] = "pot"}}

PotRow(mirror, assigned, probe, presetter, pot) ==
  LET t == mirror[<<"pot", pot>>]
      h == IF t = <<>> THEN <<>> ELSE Lookup(assigned, t[1])
      length == IF h = <<>> THEN <<>> ELSE Length(mirror, h[1])
      state == ClassifyPot(pot, t, probe, h, length)
  IN [pot |-> pot, t |-> t, state |-> state,
      verified |-> state = "loaded" /\ h # <<>> /\ h[1] \in presetter,
      location |-> PotLocation(t, Lookup(mirror, <<"head", 0>>),
                               Lookup(mirror, <<"next", 0>>))]

Occupied(mirror, assigned, probe, presetter) ==
  {PotRow(mirror, assigned, probe, presetter, pot) : pot \in Pots(mirror)}

-----------------------------------------------------------------------------
(* buildActiveLoadout.  A tool is put in the loadout where it is seen first, *)
(* in the order spindle, next, pots.                                       *)

\* statusFor: how a row of the loadout is marked.  records: whether the review
\* of the assignment is pending, by the number of its tool.
StatusFor(state, t, records) ==
  CASE state = "probe" -> "probe"
    [] state # "probe" /\ t \notin DOMAIN records -> "no_record"
    [] state # "probe" /\ t \in DOMAIN records /\ records[t] -> "pending"
    [] state = "unverified" /\ t \in DOMAIN records /\ ~records[t] -> "unverified"
    [] OTHER -> "verified"

Entry(t, where, state, records) ==
  [t |-> t, where |-> where, state |-> state, status |-> StatusFor(state, t, records)]

\* The first of some rows that names a tool.
FirstOf(rows, t) ==
  CHOOSE row \in rows : row.t = t /\ \A other \in rows : other.t = t => row.pot <= other.pot

StateOf(rows, t) ==
  IF \E row \in rows : row.t = t THEN FirstOf(rows, t).state ELSE "spindle_only"

\* (Variant: a tool is listed in its pot even while it is in the spindle.)
ResidentsGhost(rows, head, next) ==
  {row \in rows : row.t \notin {<<>>, next} /\ row.state # "empty"}

Residents(rows, head, next) ==
  {row \in rows : row.t \notin {<<>>, head, next} /\ row.state # "empty"}

BuildActiveLoadout(rows, head, next, records) ==
  LET resident == Residents(rows, head, next)
  IN {Entry(head[1], "spindle", StateOf(rows, head), records) : x \in {head} \ {<<>>}}
     \cup {Entry(next[1], "next", StateOf(rows, next), records) : x \in {next} \ {<<>>, head}}
     \cup {Entry(t[1], "pot", FirstOf(resident, t).state, records) : t \in {row.t : row \in resident}}
=============================================================================
