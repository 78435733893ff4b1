---------------------------- MODULE Maintenance ----------------------------
(***************************************************************************)
(* What the office does to the data beside the running system: it inserts  *)
(* TechDB rows, imports the tool library while the API serves requests,    *)
(* runs migrations past their guards, and takes a database in use from     *)
(* revision to revision.  The four share no state, so that a behaviour of  *)
(* one says nothing about the others and each has behaviours of its own.   *)
(***************************************************************************)
EXTENDS TechdbInsert, ToolImport, Migrations, Schema

VARIABLE desk   (* where the work is done: techdb, library, guards, schema  *)

vars == <<desk, techdbVars, libraryVars, migrationVars, schemaVars>>

Init ==
  /\ desk \in {"techdb", "library", "guards", "schema"}
  /\ TechdbInit /\ LibraryInit /\ MigrationsInit /\ SchemaInit

Next ==
  /\ UNCHANGED desk
  /\ \/ /\ desk = "techdb" /\ TechdbNext
        /\ UNCHANGED <<libraryVars, migrationVars, schemaVars>>
     \/ /\ desk = "library" /\ LibraryNext
        /\ UNCHANGED <<techdbVars, migrationVars, schemaVars>>
     \/ /\ desk = "guards" /\ MigrationsNext
        /\ UNCHANGED <<techdbVars, libraryVars, schemaVars>>
     \/ /\ desk = "schema" /\ SchemaNext
        /\ UNCHANGED <<techdbVars, libraryVars, migrationVars>>

Spec == Init /\ [][Next]_vars

-----------------------------------------------------------------------------
\* What the four are made of; the write lock of the TechDB is that of a run
\* that inserts, and what nobody holds has no changes in it.
TypeOK ==
  /\ \A i \in Row : registry[i] # NoRow =>
       registry[i].label \in listed /\ registry[i].class \in Class
  /\ \A r \in Runner : (holder = r) = (at[r] = "insert")
  /\ holder = NoRow => draft = techdb
  /\ \A g \in Gtid : tools[g] # Absent => tools[g].type \in types
  /\ \A a, b \in assigned : a # b => ~Collide(a, b)
  /\ \A b \in given : tools[b.gtid] # Absent \/ b.gtid \in DOMAIN upserted
  /\ (step = "idle") = (file = Absent) /\ quiet \in File \cup {Absent}
  /\ \A d \in Database : version[d] \in 0..Len(written) /\ schemas[d] \subseteq
       {"shared", "tooling", "public", "tracker"}
  /\ revision \in 0..Latest
  /\ \A m \in Control : /\ db.machines[m] \in Probes \cup {NotThere}
                       /\ db.banks[m] \subseteq {"mill", "lathe"}
=============================================================================
