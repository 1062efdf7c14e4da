-------------------------- MODULE SessionRegistry ---------------------------
(***************************************************************************)
(* The tables of one session: Delta sources, SQL-derived tables that wait  *)
(* for a name, and registered derived aliases, with the lineage that is    *)
(* captured when a statement is planned.  Models registry/source.rs,       *)
(* registry/derived.rs and registry/lineage.rs.  Every operation takes     *)
(* &mut self, so each is one step.                                         *)
(*                                                                         *)
(* A name stands for all its spellings that differ only in case.           *)
(***************************************************************************)
EXTENDS Integers, Sequences, FiniteSets

CONSTANTS
  Names,       \* table names
  Statements,  \* SQL statements: see StatementType
  MaxTables    \* bound on the tables of the session

NoName == "no name"

\* What is under a name of the catalog, besides the tables 1, 2, ...
Free == 0
External == -1

\* relations: bare names that are read outside the scope of a CTE of that name;
\* ctes: names the statement declares; qualified: names read as catalog.schema.name;
\* complete: whether DataFusion's resolver accepts the statement.
StatementType ==
  [relations : SUBSET Names, ctes : SUBSET Names, qualified : SUBSET Names,
   complete : BOOLEAN]

ASSUME RegistryAssumption ==
  /\ NoName \notin Names
  /\ Statements \subseteq StatementType
  /\ MaxTables \in Nat

VARIABLES
  tables,   \* tables[t]: the lazy table with id t
  sources,  \* ids of the registered Delta sources
  pending,  \* ids of the derived tables that have no alias
  derived,  \* ids of the registered aliases, in registration order
  catalog   \* catalog[n]: the table DataFusion finds under name n

vars == <<tables, sources, pending, derived, catalog>>

Tables == DOMAIN tables
Registered == {derived[i] : i \in DOMAIN derived}

\* reads: the tables the planned view is bound to; deps: those lineage names.
TableType ==
  [kind : {"source", "derived"}, name : Names \cup {NoName},
   reads : SUBSET (1 .. MaxTables), deps : SUBSET (1 .. MaxTables), complete : BOOLEAN]

Init ==
  /\ tables = <<>>
  /\ sources = {}
  /\ pending = {}
  /\ derived = <<>>
  /\ catalog = [n \in Names |-> Free]
-----------------------------------------------------------------------------
(* Registration. *)

AliasTaken(n) == \E t \in sources \cup Registered : tables[t].name = n

AllocatesTable == Len(tables) < MaxTables

NextTable == Len(tables) + 1

\* Tables that a caller registers with the public DataFusion context.
RegisterExternal(n) ==
  /\ catalog[n] = Free
  /\ catalog' = [catalog EXCEPT ![n] = External]
  /\ UNCHANGED <<tables, sources, pending, derived>>

\* Every refusal and every failure leaves the session as it is.
DeltaLake(n) ==
  /\ AllocatesTable
  /\ ~AliasTaken(n) /\ catalog[n] = Free
  /\ catalog' = [catalog EXCEPT ![n] = NextTable]
  /\ tables' = Append(tables, [kind |-> "source", name |-> n, reads |-> {}, deps |-> {},
                               complete |-> TRUE])
  /\ sources' = sources \cup {NextTable}
  /\ UNCHANGED <<pending, derived>>

\* Lineage: bare names, less every name the statement declares as a CTE anywhere;
\* a qualified name is unknown.
ClassifyLineageReferences(s) ==
  {t \in sources \cup Registered : tables[t].name \in s.relations \ s.ctes}

\* The plan resolves every name in the catalog and keeps the provider it finds.
TableFromSql(s) ==
  /\ AllocatesTable
  /\ \A n \in s.relations \cup s.qualified : catalog[n] # Free
  /\ tables' = Append(tables,
       [kind |-> "derived", name |-> NoName,
        reads |-> {catalog[n] : n \in s.relations \cup s.qualified} \ {External},
        deps |-> IF s.complete THEN ClassifyLineageReferences(s) ELSE {},
        complete |-> s.complete])
  /\ pending' = pending \cup {NextTable}
  /\ UNCHANGED <<sources, derived, catalog>>

\* The table is taken out of the pending ones, then given its name.
RegisterAlias(n, t) ==
  /\ ~AliasTaken(n) /\ t \in pending
  /\ catalog[n] = Free
  /\ catalog' = [catalog EXCEPT ![n] = t]
  /\ tables' = [tables EXCEPT ![t].name = n]
  /\ pending' = pending \ {t}
  /\ derived' = Append(derived, t)
  /\ UNCHANGED sources

\* DataFusion already has a table of that name, and the pending table is lost.
RegisterAliasLosesTable(n, t) ==
  /\ ~AliasTaken(n) /\ t \in pending
  /\ catalog[n] # Free
  /\ pending' = pending \ {t}
  /\ UNCHANGED <<tables, sources, derived, catalog>>

\* DataFusion already has a table of that name: the pending table is put back.
RegisterAliasRefused(n, t) ==
  /\ ~AliasTaken(n) /\ t \in pending
  /\ catalog[n] # Free
  /\ pending' = (pending \ {t}) \cup {t}
  /\ UNCHANGED <<tables, sources, derived, catalog>>

Next ==
  \/ \E n \in Names : RegisterExternal(n) \/ DeltaLake(n)
  \/ \E s \in Statements : TableFromSql(s)
  \/ \E n \in Names, t \in Tables : RegisterAlias(n, t) \/ RegisterAliasRefused(n, t)

Spec == Init /\ [][Next]_vars
-----------------------------------------------------------------------------
(* Lineage of registered tables. *)

DirectDerived(t) == tables[t].deps \cap Registered

\* What can be reached from the tables of D along R in at most n steps.
Reached(D, R, n) ==
  LET step[k \in Nat] ==
        IF k = 0 THEN D
        ELSE LET reached == step[k - 1] IN reached \cup UNION {R[d] : d \in reached}
  IN  step[n]

\* The registered derived tables that lineage reaches from t.
TransitiveDerived(t) ==
  Reached(DirectDerived(t), [d \in Registered |-> DirectDerived(d)], Len(derived))

\* Without a look at the lineage of the tables in between.
KnownIfOwnLineage(t) == tables[t].complete

\* Source usage is known if no lineage on the way is incomplete.
UsageKnown(t) == \A d \in {t} \cup TransitiveDerived(t) : tables[d].complete

\* The sources that lineage reaches from t.
SourceDependencies(t) ==
  IF tables[t].kind = "source" THEN {t}
  ELSE sources \cap UNION {tables[d].deps : d \in {t} \cup TransitiveDerived(t)}
-----------------------------------------------------------------------------
TypeOK ==
  /\ tables \in Seq(TableType) /\ Len(tables) <= MaxTables
  /\ sources \subseteq Tables /\ pending \subseteq Tables
  /\ derived \in Seq(Tables)
  /\ catalog \in [Names -> {Free, External} \cup Tables]

\* Every table that was handed out stays with the session, in exactly one place,
\* also when DataFusion refuses an alias; a registered name leads to its table in
\* the catalog, and no two tables share a name.
TablesKept ==
  /\ Tables = sources \cup pending \cup Registered
  /\ sources \cap pending = {} /\ (sources \cup pending) \cap Registered = {}
  /\ \A i, j \in DOMAIN derived : derived[i] = derived[j] => i = j
  /\ \A t \in sources \cup Registered : tables[t].name # NoName /\ catalog[tables[t].name] = t

\* "A downstream alias can only reference an upstream alias that was already
\* registered": lineage goes from later to earlier registrations, and never to a
\* table that is still pending.
UpstreamFirst ==
  /\ \A t \in Tables : tables[t].deps \subseteq sources \cup Registered
  /\ \A i, j \in DOMAIN derived : derived[i] \in tables[derived[j]].deps => i < j
=============================================================================
