----------------------------- MODULE Migrations -----------------------------
(***************************************************************************)
(* The guards around schema migrations (migrations/_guard.py, env.py and   *)
(* shared/dsn_guard.py): a revision is generated, or written by hand, and  *)
(* run, with all others that are pending, against the database that        *)
(* DATABASE_URL names, next to the schema of the tracker, which no         *)
(* migration may touch.                                                    *)
(*                                                                         *)
(* A statement is [form, schemas, bare]: its form, the schemas that it     *)
(* names, and whether it also names an object without one.  The forms are  *)
(* "objects" (DDL on objects of schemas), "schema" (DDL on a whole schema, *)
(* such as DROP SCHEMA) and "rows" (no DDL).  An operation of a revision   *)
(* is [schema, ops]: the container of a table's operations, which has a    *)
(* schema of its own, or NoSchema around a single statement.               *)
(***************************************************************************)
EXTENDS Naturals, Sequences, SequencesExt

CONSTANTS
  Url,           (* [host, port, reaches]: the database it leads to        *)
  Revision,      (* sequences of operations that may be come up with       *)
  NoSchema,      (* operation that is no container                         *)
  Nowhere, Dev,  (* no database; that of the developers                    *)
  MaxRevisions   (* bound on revisions                                     *)

VARIABLES
  written,   (* revisions in the repository: [ops, generated]              *)
  version,   (* alembic_version of each database                           *)
  schemas,   (* of each database: schemas that migrations have changed     *)
  target,    (* database of the run, or Nowhere                            *)
  agreed,    (* the run was told that it may leave the dev database        *)
  head,      (* the revision it upgrades to                                *)
  todo,      (* statements still to execute                                *)
  changed,   (* schemas that its transaction has changed                   *)
  report     (* of the last run: "ok" and the database, or "failed"        *)

upgradeVars == <<target, agreed, head, todo, changed>>
migrationVars == <<written, version, schemas, upgradeVars, report>>

Database == {u.reaches : u \in Url}

\* Statements and operations that are come up with; "public" is any schema of
\* neither the office nor the tracker.
SchemaName == {"shared", "tooling", "public", "tracker"}
Statement == [form : {"objects", "schema", "rows"}, schemas : SUBSET SchemaName, bare : BOOLEAN]
Operation == [schema : {NoSchema} \cup SchemaName, ops : Seq(Statement)]

\* ALLOWED_SCHEMAS in the sorted order of SEARCH_PATH_SQL; FORBIDDEN_SCHEMAS.
\* (Variant: the search path of PostgreSQL.)
SearchPathDefault == <<"public">>
SearchPath == <<"shared", "tooling">>
Allowed == {"shared", "tooling"}
Forbidden == {"tracker"}

MigrationsInit ==
  /\ written = <<>>
  /\ version = [d \in Database |-> 0] /\ schemas = [d \in Database |-> {}]
  /\ target = Nowhere /\ agreed = FALSE /\ head = 0 /\ todo = <<>> /\ changed = {}
  /\ report = [result |-> "none", at |-> Nowhere, head |-> 0]

-----------------------------------------------------------------------------
(* alembic revision.                                                       *)

\* check_op_schemas: all schemas are given and allowed; raw SQL, and what
\* names no schema at all, is refused.
CheckOp(s) == s.form = "objects" /\ ~s.bare /\ s.schemas # {} /\ s.schemas \subseteq Allowed

\* walk_ops: a container and what it contains.  (Variant: the former only.)
WalkFlat(op) ==
  IF op.schema = NoSchema THEN ToSet(op.ops)
  ELSE {[form |-> "objects", schemas |-> {op.schema}, bare |-> FALSE]}
Walk(op) ==
  ToSet(op.ops) \cup
  IF op.schema = NoSchema THEN {}
  ELSE {[form |-> "objects", schemas |-> {op.schema}, bare |-> FALSE]}

\* process_revision_directives: one bad operation, and no file is written.  By
\* hand anything is.
AddRevision(ops, generated) ==
  /\ Len(written) < MaxRevisions
  /\ generated => \A n \in 1..Len(ops) : \A s \in Walk(ops[n]) : CheckOp(s)
  /\ written' = Append(written, [ops |-> ops, generated |-> generated])
  /\ UNCHANGED <<version, schemas, upgradeVars, report>>

-----------------------------------------------------------------------------
(* alembic upgrade.                                                        *)

\* _is_dev  (Variant: a local host will do.)
IsDevLocal(url) == url.host = "local"
IsDev(url) == url.host = "local" /\ url.port = 5433

\* What stands at the port of the developers is theirs.
ASSUME MigrationsAssumption ==
  /\ Nowhere \notin Database /\ Revision \subseteq Seq(Operation) /\ MaxRevisions \in Nat
  /\ \A url \in Url : url.host = "local" /\ url.port = 5433 => url.reaches = Dev

\* The statements of revisions first..last, in order.
Statements(first, last) ==
  FlattenSeq([k \in 1..(last - first + 1) |->
    FlattenSeq([n \in 1..Len(written[first + k - 1].ops) |-> written[first + k - 1].ops[n].ops])])

\* assert_target_allowed; then, in the transaction that env.py begins, the
\* search path and the schemas.
Upgrade(url, consent) ==
  /\ target = Nowhere
  /\ IsDev(url) \/ consent
  /\ target' = url.reaches /\ agreed' = consent /\ head' = Len(written)
  /\ todo' = Statements(version[url.reaches] + 1, Len(written))
  /\ changed' = Allowed
  /\ UNCHANGED <<written, version, schemas, report>>

\* runtime_ddl_check sees the schema of a qualified object in a DDL statement:
\* neither a schema that is named alone nor a statement that is no DDL.
\* (Variant: the listener is not attached.)
RefusedNever(s) == FALSE
Refused(s) == s.form = "objects" /\ s.schemas \cap Forbidden # {}

\* A bare name is resolved along the search path.
Touches(s) == s.schemas \cup IF s.bare THEN {Head(SearchPath)} ELSE {}

Execute ==
  /\ target # Nowhere /\ todo # <<>> /\ ~Refused(Head(todo))
  /\ changed' = changed \cup Touches(Head(todo))
  /\ todo' = Tail(todo)
  /\ UNCHANGED <<written, version, schemas, target, agreed, head, report>>

Stop(result) ==
  /\ report' = [result |-> result, at |-> target, head |-> head]
  /\ target' = Nowhere /\ agreed' = FALSE /\ head' = 0 /\ todo' = <<>> /\ changed' = {}
  /\ UNCHANGED written

\* The end of the outer begin().  (Variant: of a connection without one, which
\* drops what was done and reports success.)
CommitInner ==
  /\ target # Nowhere /\ todo = <<>>
  /\ Stop("ok") /\ UNCHANGED <<version, schemas>>
CommitUpgrade ==
  /\ target # Nowhere /\ todo = <<>>
  /\ version' = [version EXCEPT ![target] = head]
  /\ schemas' = [schemas EXCEPT ![target] = @ \cup changed]
  /\ Stop("ok")

\* The guard refuses, a statement fails, or the process ends.
FailUpgrade ==
  /\ target # Nowhere
  /\ Stop("failed") /\ UNCHANGED <<version, schemas>>

MigrationsNext ==
  \/ \E ops \in Revision, generated \in BOOLEAN : AddRevision(ops, generated)
  \/ \E url \in Url, consent \in BOOLEAN : Upgrade(url, consent)
  \/ Execute \/ CommitUpgrade \/ FailUpgrade

-----------------------------------------------------------------------------
\* The schema of the tracker is changed only where a revision written by hand
\* has a statement that the runtime check does not see through.
TrackerIsKept ==
  \A d \in Database : schemas[d] \cap Forbidden # {} =>
    \E n \in 1..version[d] :
      /\ ~written[n].generated
      /\ \E s \in ToSet(Statements(n, n)) : s.form # "objects" /\ s.schemas \cap Forbidden # {}

\* No name without a schema reaches beyond the schemas of the office.
BareNamesStay ==
  \A d \in Database :
    (\A s \in ToSet(Statements(1, version[d])) : s.schemas \subseteq Allowed)
      => schemas[d] \subseteq Allowed

\* A generated revision names an allowed schema in all of its statements.
GeneratedIsExplicit ==
  \A n \in 1..Len(written) : written[n].generated =>
    \A s \in ToSet(Statements(n, n)) : ~s.bare /\ s.schemas # {} /\ s.schemas \subseteq Allowed

\* A run that reports success has brought its database to the head, with all
\* that the revisions up to it change, and one that fails has changed nothing.
UpgradeIsWhole ==
  /\ report.result = "ok" => version[report.at] >= report.head
  /\ \A d \in Database : version[d] > 0 =>
       schemas[d] = Allowed \cup UNION {Touches(s) : s \in ToSet(Statements(1, version[d]))}

\* Only a run that was told so changes a database other than that of the
\* developers.
ProductionNeedsConsent ==
  [][\A d \in Database \ {Dev} :
       <<version[d], schemas[d]>>' # <<version[d], schemas[d]>> => agreed /\ target = d]_migrationVars

\* The guards together: no database but the one that was meant, none of the
\* schemas that are not the office's, and all of a run or nothing.
GuardsHold ==
  /\ [](TrackerIsKept /\ BareNamesStay /\ GeneratedIsExplicit /\ UpgradeIsWhole)
  /\ ProductionNeedsConsent
=============================================================================
