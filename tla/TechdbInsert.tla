---------------------------- MODULE TechdbInsert ----------------------------
(***************************************************************************)
(* The batch tool that clones rows of a TechDB copy for the tools that the *)
(* shop's registry lists without a TechDB row (src/techdb_insert.py): two  *)
(* SQLite files, each with a commit of its own.  A run reads the pending   *)
(* rows of the registry, inserts in the TechDB under its write lock,       *)
(* commits there, and then names the new rows in the registry.  Runs may   *)
(* overlap, end anywhere, and meet a registry that its owner edits.        *)
(***************************************************************************)
EXTENDS Naturals, FiniteSetsExt

CONSTANTS
  Runner,          (* runs of the tool with --apply                        *)
  Row,             (* rowids of the registry, numbers                      *)
  Shop,            (* shop labels; every tool has its own                  *)
  Class,           (* classes of tools                                     *)
  Template,        (* of a class: the table of its template, or NoTable    *)
  NoTable, NoRow,  (* class without a confirmed template; empty rowid      *)
  Unlinked,        (* techdb_id IS NULL                                    *)
  MaxId            (* bound on the IDs of a table                          *)

Table == {Template[c] : c \in Class} \ {NoTable}

ASSUME TechdbAssumption ==
  /\ Row \subseteq Nat /\ MaxId \in Nat \ {0}
  /\ NoRow \notin Runner \cup Shop
  /\ Unlinked \notin [table : Table, id : 1..MaxId]
  /\ NoRow \notin [label : Shop, class : Class,
                   link : {Unlinked} \cup [table : Table, id : 1..MaxId]]

VARIABLES
  registry,  (* of each rowid: the label, class and link of its tool       *)
  techdb,    (* committed: of each table, the label at each ID             *)
  draft,     (* what the holder of the write lock sees                     *)
  holder,    (* of the write lock of the TechDB, or NoRow                  *)
  at,        (* of each run: idle, read, insert, write                     *)
  seen,      (* of each run: the pending rows that it read                 *)
  planned,   (* of each run: the link that it made for each row            *)
  listed,    (* history: labels that the registry has had                  *)
  excused,   (* history: labels in hand of two runs at once, or of a run   *)
             (* that failed between its two commits                        *)
  replaced   (* history: rowids that got another tool under a run          *)

runVars == <<at, seen, planned>>
techdbVars == <<registry, techdb, draft, holder, runVars, listed, excused, replaced>>

Nothing == [i \in {} |-> i]
Tools == [t \in Table |-> [m \in {1} |-> NoRow]]  (* the template row *)

\* A function with one more entry.
With(f, x, value) == [y \in {x} \cup DOMAIN f |-> IF y = x THEN value ELSE f[y]]

TechdbInit ==
  /\ registry = [i \in Row |-> NoRow]
  /\ techdb = Tools /\ draft = Tools /\ holder = NoRow
  /\ at = [r \in Runner |-> "idle"]
  /\ seen = [r \in Runner |-> Nothing] /\ planned = [r \in Runner |-> Nothing]
  /\ listed = {} /\ excused = {} /\ replaced = {}

-----------------------------------------------------------------------------
(* The owner of the registry.                                              *)

InHand(i) == \E r \in Runner : i \in DOMAIN seen[r] \cup DOMAIN planned[r]

\* A new tool may get the rowid of one that was removed.
ListTool(i, l, c) ==
  /\ registry[i] = NoRow /\ l \notin listed
  /\ registry' = [registry EXCEPT ![i] = [label |-> l, class |-> c, link |-> Unlinked]]
  /\ listed' = listed \cup {l}
  /\ replaced' = IF InHand(i) THEN replaced \cup {i} ELSE replaced \ {i}
  /\ UNCHANGED <<techdb, draft, holder, runVars, excused>>

RemoveTool(i) ==
  /\ registry[i] # NoRow
  /\ registry' = [registry EXCEPT ![i] = NoRow]
  /\ UNCHANGED <<techdb, draft, holder, runVars, listed, excused, replaced>>

-----------------------------------------------------------------------------
(* A run.                                                                  *)

\* A run is over; what it had not committed is rolled back.
\* (Variant: the TechDB is not closed.)
EndOpen(r) ==
  /\ at' = [at EXCEPT ![r] = "idle"]
  /\ seen' = [seen EXCEPT ![r] = Nothing]
  /\ planned' = [planned EXCEPT ![r] = Nothing]
  /\ UNCHANGED <<holder, draft>>
End(r) ==
  /\ at' = [at EXCEPT ![r] = "idle"]
  /\ seen' = [seen EXCEPT ![r] = Nothing]
  /\ planned' = [planned EXCEPT ![r] = Nothing]
  /\ holder' = IF holder = r THEN NoRow ELSE holder
  /\ draft' = IF holder = r THEN techdb ELSE draft

\* pending_rows, of all labels or of one.
\* (Variant: without the test of techdb_id.)
PendingAll(scope) == {i \in Row : registry[i] # NoRow /\ registry[i].label \in scope}
Pending(scope) ==
  {i \in Row : /\ registry[i] # NoRow /\ registry[i].label \in scope
               /\ registry[i].link = Unlinked}

ReadPending(r, scope) ==
  /\ at[r] = "idle" /\ Pending(scope) # {}
  /\ at' = [at EXCEPT ![r] = "read"]
  /\ seen' = [seen EXCEPT ![r] = [i \in Pending(scope) |-> registry[i]]]
  /\ excused' = excused \cup {registry[i].label : i \in {j \in Pending(scope) : InHand(j)}}
  /\ UNCHANGED <<registry, techdb, draft, holder, planned, listed, replaced>>

\* BEGIN IMMEDIATE
Begin(r) ==
  /\ at[r] = "read" /\ holder = NoRow
  /\ at' = [at EXCEPT ![r] = "insert"]
  /\ holder' = r /\ draft' = techdb
  /\ UNCHANGED <<registry, techdb, seen, planned, listed, excused, replaced>>

\* max(next_free_id, allocated + 1); the connection sees its own inserts.
\* (Variant: it does not, and nothing is kept of the IDs given out.)
NextIdCommitted(t) == 1 + Max(DOMAIN techdb[t])
NextId(t) == 1 + Max(DOMAIN draft[t])

\* The next row of the loop: cloned, or skipped without a confirmed template.
Insert(r) ==
  /\ at[r] = "insert" /\ DOMAIN seen[r] # {}
  /\ LET i == Min(DOMAIN seen[r])
         tool == seen[r][i]
         t == Template[tool.class]
     IN /\ seen' = [seen EXCEPT ![r] = [j \in DOMAIN @ \ {i} |-> @[j]]]
        /\ IF t = NoTable THEN UNCHANGED <<draft, planned>>
           ELSE /\ NextId(t) <= MaxId
                /\ draft' = [draft EXCEPT ![t] = With(@, NextId(t), tool.label)]
                /\ planned' = [planned EXCEPT ![r] =
                     With(@, i, [table |-> t, id |-> NextId(t), label |-> tool.label])]
  /\ UNCHANGED <<registry, techdb, holder, at, listed, excused, replaced>>

\* techdb.commit, or rollback when every row was skipped.
Commit(r) ==
  /\ at[r] = "insert" /\ DOMAIN seen[r] = {}
  /\ IF DOMAIN planned[r] = {} THEN End(r) /\ UNCHANGED techdb
     ELSE /\ techdb' = draft /\ holder' = NoRow
          /\ at' = [at EXCEPT ![r] = "write"]
          /\ UNCHANGED <<draft, seen, planned>>
  /\ UNCHANGED <<registry, listed, excused, replaced>>

\* The links are written by rowid and committed together.
WriteBack(r) ==
  /\ at[r] = "write" /\ \A i \in DOMAIN planned[r] : registry[i] # NoRow
  /\ registry' = [i \in Row |->
       IF i \in DOMAIN planned[r]
       THEN [registry[i] EXCEPT !.link = [table |-> planned[r][i].table, id |-> planned[r][i].id]]
       ELSE registry[i]]
  /\ End(r)
  /\ UNCHANGED <<techdb, listed, excused, replaced>>

\* A row that is gone, a locked file or an end of the process; after the commit
\* in the TechDB the links are lost.
Fail(r) ==
  /\ at[r] # "idle"
  /\ excused' = IF at[r] = "write"
                THEN excused \cup {planned[r][i].label : i \in DOMAIN planned[r]}
                ELSE excused
  /\ End(r)
  /\ UNCHANGED <<registry, techdb, listed, replaced>>

TechdbNext ==
  \/ \E i \in Row : (\E l \in Shop, c \in Class : ListTool(i, l, c)) \/ RemoveTool(i)
  \/ \E r \in Runner :
       \/ \E scope \in {Shop} \cup {{l} : l \in Shop} : ReadPending(r, scope)
       \/ Begin(r) \/ Insert(r) \/ Commit(r) \/ WriteBack(r) \/ Fail(r)

-----------------------------------------------------------------------------
\* A tool gets one TechDB row, unless two runs had it in hand at once or a run
\* failed between its commits: the pending rows are read before the write lock
\* is taken, and the two files are committed one after the other.
InsertedOnce ==
  \A l \in Shop \ excused :
    \A t, u \in Table : \A m \in DOMAIN techdb[t], n \in DOMAIN techdb[u] :
      techdb[t][m] = l /\ techdb[u][n] = l => t = u /\ m = n

\* What the registry names exists in the TechDB and is the row of that tool,
\* unless its rowid was given to another tool under a run.
LinksAreReal ==
  \A i \in Row \ replaced :
    registry[i] # NoRow /\ registry[i].link # Unlinked =>
      LET link == registry[i].link
      IN link.id \in DOMAIN techdb[link.table]
         /\ techdb[link.table][link.id] = registry[i].label

\* The two files tell one story, with the exceptions that their two commits make.
InsertsAreSound == InsertedOnce /\ LinksAreReal
=============================================================================
