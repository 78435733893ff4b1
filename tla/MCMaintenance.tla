--------------------------- MODULE MCMaintenance ---------------------------
(***************************************************************************)
(* Two runs over two registry rows that three tools take in turn; files    *)
(* with default registers, two tools for one T number and one tool twice;  *)
(* revisions of every form against three URLs of two databases; and one    *)
(* machine in the database that goes from revision to revision.            *)
(***************************************************************************)
EXTENDS Maintenance

CONSTANTS mill, tap, nMills, g1, g2, m1, type1, type2

TemplateOf == (mill :> nMills) @@ (tap :> NoTable)

Line(g, ty, m, t, h) ==
  [gtid |-> g, type |-> ty, machine |-> m, t |-> t, h |-> h, readable |-> TRUE]
Garbled(line) == [line EXCEPT !.readable = FALSE]
Files ==
  { <<Line(g1, type1, m1, 1, Absent), Line(g2, type2, m1, 2, Absent)>>,
    <<Line(g1, type2, m1, 2, 1), Line(g2, type2, m1, 2, 2)>>,
    <<Line(g1, type1, Absent, Absent, Absent), Line(g1, type2, m1, 1, 2)>>,
    <<Line(g2, type1, m1, 1, 2), Garbled(Line(g1, type1, m1, 3, 3))>> }
Places == {[t |-> 1, h |-> 1], [t |-> 3, h |-> 1], [t |-> 3, h |-> 3]}

S(form, names, bare) == [form |-> form, schemas |-> names, bare |-> bare]
One(s) == [schema |-> NoSchema, ops |-> <<s>>]
Table1(s) == [schema |-> "tooling", ops |-> <<S("objects", {"tooling"}, FALSE), s>>]
Written ==
  { <<One(S("objects", {"tooling"}, FALSE)), One(S("rows", {"shared"}, FALSE))>>,
    <<Table1(S("objects", {"tooling", "shared"}, FALSE))>>,
    <<Table1(S("objects", {"tooling", "tracker"}, FALSE))>>,
    <<One(S("objects", {}, TRUE))>>,
    <<One(S("schema", {"tracker"}, FALSE))>>,
    <<One(S("rows", {"tracker"}, FALSE))>> }
Urls ==
  { [host |-> "local", port |-> 5433, reaches |-> "dev"],
    [host |-> "local", port |-> 5432, reaches |-> "prod"],
    [host |-> "remote", port |-> 5433, reaches |-> "prod"] }
=============================================================================
