SPECIFICATION Spec
CONSTANTS
  Runner = {r1, r2}
  Row = {1, 2}
  Shop = {l1, l2, l3}
  mill = mill
  tap = tap
  nMills = nMills
  Class = {mill, tap}
  Template <- TemplateOf
  NoTable = notable
  NoRow = norow
  Unlinked = unlinked
  MaxId = 3
  g1 = g1
  g2 = g2
  m1 = m1
  type1 = type1
  type2 = type2
  Gtid = {g1, g2}
  Type = {type1, type2}
  Machine = {m1}
  Place <- Places
  File <- Files
  Absent = absent
  Url <- Urls
  Revision <- Written
  NoSchema = noschema
  Nowhere = nowhere
  Dev = "dev"
  MaxRevisions = 3
  Control = {c1}
  NotThere = notthere
INVARIANTS
  TypeOK InsertsAreSound
PROPERTIES
  ImportIsSound  SchemaIsKept
CHECK_DEADLOCK FALSE
