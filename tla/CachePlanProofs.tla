-------------------------- MODULE CachePlanProofs ---------------------------
(***************************************************************************)
(* For any names, statements and number of tables: a session keeps every   *)
(* table it handed out, names are unique and lead to their table, and      *)
(* lineage runs from later to earlier registrations.  On that rest the     *)
(* cache plan and the source usage, for any list of outputs: the frontier  *)
(* of shared aliases covers them all, a selected alias runs once, and the  *)
(* usage of a source is what the plans read.  The searches of the lineage  *)
(* are recursive functions; LeastNumber is the induction they need.        *)
(***************************************************************************)
EXTENDS CachePlan, TLAPS

\* Most steps need no arithmetic; a step that does names the SMT solver.
USE ZenonT(60)

RegistryInv == TypeOK /\ TablesKept /\ UpstreamFirst
-----------------------------------------------------------------------------
\* Appending to a sequence: its length, its elements and its range.
LEMMA AppendFacts ==
  ASSUME NEW S, NEW s \in Seq(S), NEW e
  PROVE  /\ Len(Append(s, e)) = Len(s) + 1
         /\ DOMAIN Append(s, e) = 1 .. Len(s) + 1
         /\ Append(s, e)[Len(s) + 1] = e
         /\ \A i \in 1 .. Len(s) : Append(s, e)[i] = s[i]
BY SMTT(30)

\* The indices of a sequence.
LEMMA SeqDomain ==
  ASSUME NEW S, NEW s \in Seq(S)
  PROVE  /\ DOMAIN s = 1 .. Len(s) /\ Len(s) \in Nat
         /\ \A i \in DOMAIN s : s[i] \in S
BY SMTT(30)

\* Appending keeps the elements in the set, and a larger set does as well.
LEMMA AppendType ==
  ASSUME NEW S, NEW T, S \subseteq T, NEW s \in Seq(S), NEW e \in T
  PROVE  s \in Seq(T) /\ Append(s, e) \in Seq(T)
BY SMTT(30)

\* The range of a sequence after an append.
LEMMA AppendRange ==
  ASSUME NEW S, NEW s \in Seq(S), NEW e
  PROVE  {Append(s, e)[i] : i \in DOMAIN Append(s, e)} = {s[i] : i \in DOMAIN s} \cup {e}
<1> DEFINE r == Append(s, e)
<1>1. DOMAIN r = 1 .. Len(s) + 1 /\ r[Len(s) + 1] = e /\ \A i \in 1 .. Len(s) : r[i] = s[i]
  BY SMTT(30), AppendFacts
<1>2. DOMAIN s = 1 .. Len(s) /\ Len(s) \in Nat
  BY SeqDomain
<1> HIDE DEF r
<1>3. {r[i] : i \in DOMAIN r} = {s[i] : i \in DOMAIN s} \cup {e}
  BY ONLY <1>1, <1>2
<1> QED BY <1>3 DEF r

\* A session starts without tables.
LEMMA RegistryInit == Init => RegistryInv
<1> SUFFICES ASSUME Init PROVE RegistryInv
  OBVIOUS
<1> USE DEF Init
<1>1. Tables = {} /\ Registered = {} /\ DOMAIN derived = {} /\ Len(tables) = 0
  BY SMTT(30) DEF Tables, Registered
<1>2. TypeOK
  BY SMTT(30), <1>1, RegistryAssumption DEF TypeOK
<1>3. TablesKept
  BY <1>1 DEF TablesKept
<1>4. UpstreamFirst
  BY <1>1 DEF UpstreamFirst
<1> QED BY <1>2, <1>3, <1>4 DEF RegistryInv
-----------------------------------------------------------------------------
\* What a step does that gives out a new table: the others stay as they are.
Allocated(r) ==
  /\ r \in TableType /\ r.deps \subseteq sources \cup Registered
  /\ AllocatesTable
  /\ tables' = Append(tables, r)
  /\ derived' = derived

\* A new table is a new id, and nothing is said of it yet.
LEMMA AllocatedTables ==
  ASSUME RegistryInv, NEW r, Allocated(r)
  PROVE  /\ Tables' = Tables \cup {NextTable} /\ NextTable \notin Tables
         /\ tables'[NextTable] = r
         /\ \A t \in Tables : tables'[t] = tables[t]
         /\ tables' \in Seq(TableType) /\ Len(tables') <= MaxTables
         /\ Registered' = Registered
         /\ derived' \in Seq(Tables')
<1> USE DEF Allocated
<1>1. tables \in Seq(TableType) /\ derived \in Seq(Tables)
  BY DEF RegistryInv, TypeOK
<1>2. /\ Len(tables') = Len(tables) + 1
      /\ DOMAIN tables' = 1 .. Len(tables) + 1
      /\ tables'[Len(tables) + 1] = r
      /\ \A i \in 1 .. Len(tables) : tables'[i] = tables[i]
  BY SMTT(30), <1>1, AppendFacts
<1>3. DOMAIN tables = 1 .. Len(tables) /\ Len(tables) \in Nat
  BY <1>1, SeqDomain
<1>4. Tables' = Tables \cup {NextTable} /\ NextTable \notin Tables
  BY ONLY <1>2, <1>3 DEF Tables, NextTable
<1>5. tables' \in Seq(TableType)
  BY <1>1, AppendType
<1>6. Len(tables') <= MaxTables
  BY SMTT(30), <1>2, <1>3, RegistryAssumption DEF AllocatesTable
<1>7. Registered' = Registered
  BY DEF Registered
<1>8. derived' \in Seq(Tables')
  BY SMTT(30), <1>1, <1>4
<1>9. tables'[NextTable] = r /\ \A t \in Tables : tables'[t] = tables[t]
  BY <1>2, <1>3 DEF Tables, NextTable
<1> QED BY <1>4, <1>5, <1>6, <1>7, <1>8, <1>9

\* Lineage stays acyclic if the new table only names registered ones.
LEMMA AllocatedUpstream ==
  ASSUME RegistryInv, NEW r, Allocated(r), sources \subseteq sources'
  PROVE  UpstreamFirst'
<1>1. /\ Tables' = Tables \cup {NextTable} /\ tables'[NextTable] = r
      /\ (\A t \in Tables : tables'[t] = tables[t]) /\ Registered' = Registered
  BY AllocatedTables
<1>2. r.deps \subseteq sources \cup Registered /\ derived' = derived
  BY DEF Allocated
<1>3. \A t \in Tables : tables[t].deps \subseteq sources \cup Registered
  BY DEF RegistryInv, UpstreamFirst
<1>4. \A t \in Tables' : tables'[t].deps \subseteq sources' \cup Registered'
  BY <1>1, <1>2, <1>3
<1>5. \A i \in DOMAIN derived : derived[i] \in Tables
  BY SeqDomain DEF RegistryInv, TypeOK
<1>6. \A i, j \in DOMAIN derived' : derived'[i] \in tables'[derived'[j]].deps => i < j
  BY <1>1, <1>2, <1>5 DEF RegistryInv, UpstreamFirst
<1> QED BY <1>4, <1>6 DEF UpstreamFirst

\* Registering a source keeps the invariant.
LEMMA DeltaLakeStep ==
  ASSUME RegistryInv, NEW n \in Names, DeltaLake(n)
  PROVE  RegistryInv'
<1> DEFINE r == [kind |-> "source", name |-> n, reads |-> {}, deps |-> {}, complete |-> TRUE]
<1>1. r \in TableType
  BY DEF TableType
<1>2. Allocated(r)
  BY <1>1 DEF DeltaLake, Allocated
<1>3. r.name = n
  OBVIOUS
<1> HIDE DEF r
<1>4. /\ Tables' = Tables \cup {NextTable} /\ NextTable \notin Tables
      /\ tables'[NextTable] = r
      /\ \A t \in Tables : tables'[t] = tables[t]
      /\ tables' \in Seq(TableType) /\ Len(tables') <= MaxTables
      /\ Registered' = Registered
      /\ derived' \in Seq(Tables')
  BY <1>2, AllocatedTables
<1>5. /\ catalog[n] = Free /\ ~AliasTaken(n) /\ catalog' = [catalog EXCEPT ![n] = NextTable]
      /\ sources' = sources \cup {NextTable} /\ pending' = pending /\ derived' = derived
  BY DEF DeltaLake
<1>6. /\ sources \subseteq Tables /\ pending \subseteq Tables
      /\ catalog \in [Names -> {Free, External} \cup Tables]
  BY DEF RegistryInv, TypeOK
<1>7. TypeOK'
  BY <1>4, <1>5, <1>6 DEF TypeOK
<1>8. TablesKept'
  <2>1. Tables' = sources' \cup pending' \cup Registered'
    BY <1>4, <1>5 DEF RegistryInv, TablesKept
  <2>2. sources' \cap pending' = {} /\ (sources' \cup pending') \cap Registered' = {}
    BY <1>4, <1>5 DEF RegistryInv, TablesKept
  <2>3. \A i, j \in DOMAIN derived' : derived'[i] = derived'[j] => i = j
    BY <1>5 DEF RegistryInv, TablesKept
  <2>4. ASSUME NEW t \in sources' \cup Registered'
        PROVE  tables'[t].name # NoName /\ catalog'[tables'[t].name] = t
    <3>1. CASE t = NextTable
      BY <3>1, <1>3, <1>4, <1>5, <1>6, RegistryAssumption
    <3>2. CASE t # NextTable
      <4>1. t \in sources \cup Registered /\ t \in Tables
        BY <3>2, <1>4, <1>5 DEF RegistryInv, TablesKept
      <4>2. tables[t].name # n /\ tables[t].name # NoName /\ catalog[tables[t].name] = t
        BY <4>1, <1>5 DEF RegistryInv, TablesKept, AliasTaken
      <4> QED BY SMTT(30), <4>1, <4>2, <1>4, <1>5, <1>6
    <3> QED BY <3>1, <3>2
  <2> QED BY <2>1, <2>2, <2>3, <2>4 DEF TablesKept
<1>9. UpstreamFirst'
  BY <1>2, <1>5, AllocatedUpstream
<1> QED BY <1>7, <1>8, <1>9 DEF RegistryInv

\* The record of a derived table: what it reads and names are tables of the session.
LEMMA DerivedRecord ==
  ASSUME RegistryInv, NEW s \in Statements, TableFromSql(s)
  PROVE  Allocated([kind |-> "derived", name |-> NoName,
                    reads |-> {catalog[n] : n \in s.relations \cup s.qualified} \ {External},
                    deps |-> IF s.complete THEN ClassifyLineageReferences(s) ELSE {},
                    complete |-> s.complete])
<1> DEFINE reads == {catalog[n] : n \in s.relations \cup s.qualified} \ {External}
           deps == IF s.complete THEN ClassifyLineageReferences(s) ELSE {}
<1>1. s \in StatementType
  BY RegistryAssumption
<1>2. s.relations \subseteq Names /\ s.qualified \subseteq Names /\ s.complete \in BOOLEAN
  BY <1>1 DEF StatementType
<1>3. tables \in Seq(TableType) /\ Len(tables) <= MaxTables /\ MaxTables \in Nat
  BY RegistryAssumption DEF RegistryInv, TypeOK
<1>4. Tables \subseteq 1 .. MaxTables
  BY SMTT(30), <1>3, SeqDomain DEF Tables
<1>5. /\ catalog \in [Names -> {Free, External} \cup Tables] /\ sources \subseteq Tables
      /\ \A n \in s.relations \cup s.qualified : catalog[n] # Free
  BY DEF RegistryInv, TypeOK, TableFromSql
<1>6. reads \subseteq 1 .. MaxTables
  BY <1>2, <1>4, <1>5
<1>7. deps \subseteq sources \cup Registered
  BY DEF ClassifyLineageReferences
<1>8. Registered \subseteq Tables
  BY SMTT(30), SeqDomain DEF RegistryInv, TypeOK, Registered
<1>9. deps \subseteq 1 .. MaxTables
  BY <1>4, <1>5, <1>7, <1>8
<1> HIDE DEF reads, deps
<1>10. [kind |-> "derived", name |-> NoName, reads |-> reads, deps |-> deps,
        complete |-> s.complete] \in TableType
  BY <1>2, <1>6, <1>9 DEF TableType
<1>11. AllocatesTable /\ derived' = derived
  BY DEF TableFromSql
<1>12. tables' = Append(tables, [kind |-> "derived", name |-> NoName, reads |-> reads,
                                 deps |-> deps, complete |-> s.complete])
  BY DEF TableFromSql, reads, deps
<1>13. Allocated([kind |-> "derived", name |-> NoName, reads |-> reads, deps |-> deps,
                  complete |-> s.complete])
  BY <1>7, <1>10, <1>11, <1>12 DEF Allocated
<1> QED BY <1>13 DEF reads, deps

\* Planning a statement keeps the invariant.
LEMMA TableFromSqlStep ==
  ASSUME RegistryInv, NEW s \in Statements, TableFromSql(s)
  PROVE  RegistryInv'
<1>1. PICK r : Allocated(r)
  BY DerivedRecord
<1>2. /\ Tables' = Tables \cup {NextTable} /\ NextTable \notin Tables
      /\ \A t \in Tables : tables'[t] = tables[t]
      /\ tables' \in Seq(TableType) /\ Len(tables') <= MaxTables
      /\ Registered' = Registered
      /\ derived' \in Seq(Tables')
  BY <1>1, AllocatedTables
<1>3. /\ pending' = pending \cup {NextTable} /\ sources' = sources
      /\ catalog' = catalog /\ derived' = derived
  BY DEF TableFromSql
<1>4. /\ sources \subseteq Tables /\ pending \subseteq Tables
      /\ catalog \in [Names -> {Free, External} \cup Tables]
  BY DEF RegistryInv, TypeOK
<1>5. TypeOK'
  BY <1>2, <1>3, <1>4 DEF TypeOK
<1>6. TablesKept'
  BY <1>2, <1>3 DEF RegistryInv, TablesKept
<1>7. UpstreamFirst'
  BY <1>1, <1>3, AllocatedUpstream
<1> QED BY <1>5, <1>6, <1>7 DEF RegistryInv

\* Giving a pending table its name keeps the invariant.
LEMMA RegisterAliasStep ==
  ASSUME RegistryInv, NEW n \in Names, NEW t \in Tables, RegisterAlias(n, t)
  PROVE  RegistryInv'
<1>1. /\ ~AliasTaken(n) /\ t \in pending /\ catalog' = [catalog EXCEPT ![n] = t]
      /\ tables' = [tables EXCEPT ![t].name = n]
      /\ pending' = pending \ {t} /\ derived' = Append(derived, t) /\ sources' = sources
  BY DEF RegisterAlias
<1>2. /\ tables \in Seq(TableType) /\ Len(tables) <= MaxTables
      /\ sources \subseteq Tables /\ pending \subseteq Tables /\ derived \in Seq(Tables)
      /\ catalog \in [Names -> {Free, External} \cup Tables]
  BY DEF RegistryInv, TypeOK
<1>3. /\ Tables = sources \cup pending \cup Registered /\ sources \cap pending = {}
      /\ (sources \cup pending) \cap Registered = {}
      /\ \A i, j \in DOMAIN derived : derived[i] = derived[j] => i = j
      /\ \A u \in sources \cup Registered :
           tables[u].name # NoName /\ catalog[tables[u].name] = u
  BY DEF RegistryInv, TablesKept
<1>4. /\ \A u \in Tables : tables[u].deps \subseteq sources \cup Registered
      /\ \A i, j \in DOMAIN derived : derived[i] \in tables[derived[j]].deps => i < j
  BY DEF RegistryInv, UpstreamFirst
<1>5. DOMAIN tables = 1 .. Len(tables) /\ (\A u \in Tables : tables[u] \in TableType)
  BY <1>2, SeqDomain DEF Tables
<1>6. tables[t] \in TableType /\ [tables[t] EXCEPT !.name = n] \in TableType
  BY <1>5 DEF TableType
<1>7. /\ tables' \in Seq(TableType) /\ Len(tables') = Len(tables) /\ Tables' = Tables
  BY SMTT(30), <1>1, <1>2, <1>5, <1>6 DEF Tables
<1>8. /\ tables'[t].name = n /\ tables'[t].deps = tables[t].deps
      /\ \A u \in Tables \ {t} : tables'[u] = tables[u]
  BY <1>1, <1>5, <1>6 DEF Tables, TableType
<1>9. Registered' = Registered \cup {t}
  BY SMTT(30), <1>1, <1>2, AppendRange DEF Registered
<1>10. derived' \in Seq(Tables')
  BY <1>1, <1>2, <1>7, AppendType
<1>11. /\ DOMAIN derived' = 1 .. Len(derived) + 1 /\ derived'[Len(derived) + 1] = t
       /\ \A i \in 1 .. Len(derived) : derived'[i] = derived[i]
  BY SMTT(30), <1>1, <1>2, AppendFacts
<1>12. /\ DOMAIN derived = 1 .. Len(derived) /\ Len(derived) \in Nat
       /\ \A i \in DOMAIN derived : derived[i] \in Tables
  BY <1>2, SeqDomain
<1>13. \A i \in 1 .. Len(derived) : derived[i] \in Registered /\ derived[i] # t
  BY SMTT(30), <1>1, <1>3, <1>12 DEF Registered
<1>14. TypeOK'
  BY <1>1, <1>2, <1>7, <1>10 DEF TypeOK
<1>15. TablesKept'
  <2>1. Tables' = sources' \cup pending' \cup Registered'
    BY <1>1, <1>3, <1>7, <1>9
  <2>2. sources' \cap pending' = {} /\ (sources' \cup pending') \cap Registered' = {}
    BY <1>1, <1>3, <1>9
  <2>3. \A i, j \in DOMAIN derived' : derived'[i] = derived'[j] => i = j
    BY SMTT(30), <1>3, <1>11, <1>12, <1>13
  <2>4. ASSUME NEW u \in sources' \cup Registered'
        PROVE  tables'[u].name # NoName /\ catalog'[tables'[u].name] = u
    <3>1. CASE u = t
      BY SMTT(30), <3>1, <1>1, <1>2, <1>8, RegistryAssumption
    <3>2. CASE u # t
      <4>1. u \in sources \cup Registered /\ u \in Tables
        BY <3>2, <1>1, <1>3, <1>9
      <4>2. tables[u].name # n
        BY <4>1, <1>1 DEF AliasTaken
      <4>3. tables[u].name # NoName /\ catalog[tables[u].name] = u
        BY <4>1, <1>3
      <4>4. tables'[u] = tables[u] /\ tables[u].name \in Names
        BY <3>2, <4>1, <4>3, <1>5, <1>8 DEF TableType
      <4> QED BY <4>2, <4>3, <4>4, <1>1, <1>2
    <3> QED BY <3>1, <3>2
  <2> QED BY <2>1, <2>2, <2>3, <2>4 DEF TablesKept
<1>16. UpstreamFirst'
  <2>1. \A u \in Tables : tables'[u].deps = tables[u].deps
    BY <1>8
  <2>2. \A u \in Tables' : tables'[u].deps \subseteq sources' \cup Registered'
    BY <2>1, <1>1, <1>4, <1>7, <1>9
  <2>3. \A u \in Tables : t \notin tables[u].deps
    BY <1>1, <1>3, <1>4
  <2>4. ASSUME NEW i \in DOMAIN derived', NEW j \in DOMAIN derived',
               derived'[i] \in tables'[derived'[j]].deps
        PROVE  i < j
    <3>1. derived'[j] \in Tables
      BY SMTT(30), <1>11, <1>12
    <3>2. derived'[i] \in tables[derived'[j]].deps /\ i # Len(derived) + 1
      BY <2>1, <2>3, <2>4, <3>1, <1>11
    <3>3. i \in DOMAIN derived /\ derived'[i] = derived[i]
      BY SMTT(30), <3>2, <1>11, <1>12
    <3>4. CASE j = Len(derived) + 1
      BY SMTT(30), <3>3, <3>4, <1>12
    <3>5. CASE j # Len(derived) + 1
      <4>1. j \in DOMAIN derived /\ derived'[j] = derived[j]
        BY SMTT(30), <3>5, <1>11, <1>12
      <4> QED BY <4>1, <3>2, <3>3, <1>4
    <3> QED BY <3>4, <3>5
  <2> QED BY <2>2, <2>4 DEF UpstreamFirst
<1> QED BY <1>14, <1>15, <1>16 DEF RegistryInv

\* A refused alias and a table from outside the session keep the invariant.
LEMMA QuietRegistryStep ==
  ASSUME RegistryInv, NEW n \in Names,
         RegisterExternal(n) \/ (\E t \in Tables : RegisterAliasRefused(n, t))
  PROVE  RegistryInv'
<1>1. /\ tables' = tables /\ sources' = sources /\ derived' = derived
      /\ pending' = pending
  BY DEF RegisterExternal, RegisterAliasRefused
<1>2. Tables' = Tables /\ Registered' = Registered
  BY <1>1 DEF Tables, Registered
<1>3. catalog \in [Names -> {Free, External} \cup Tables]
  BY DEF RegistryInv, TypeOK
<1>4. \/ catalog' = catalog
      \/ catalog[n] = Free /\ catalog' = [catalog EXCEPT ![n] = External]
  BY DEF RegisterExternal, RegisterAliasRefused
<1>5. TypeOK'
  BY <1>1, <1>2, <1>3, <1>4 DEF RegistryInv, TypeOK
<1>6. /\ tables \in Seq(TableType) /\ sources \cup Registered \subseteq Tables
      /\ \A u \in sources \cup Registered :
           tables[u].name # NoName /\ catalog[tables[u].name] = u
  BY DEF RegistryInv, TypeOK, TablesKept
<1>7. ASSUME NEW u \in sources \cup Registered PROVE catalog'[tables[u].name] = u
  <2>1. u \in 1 .. Len(tables) /\ tables[u] \in TableType
    BY <1>6, SeqDomain DEF Tables
  <2>2. u # Free /\ tables[u].name \in Names
    BY SMTT(30), <2>1, <1>6 DEF TableType, Free
  <2>3. catalog[tables[u].name] = u
    BY <1>6
  <2> QED BY <2>2, <2>3, <1>3, <1>4
<1>8. TablesKept'
  BY <1>1, <1>2, <1>7 DEF RegistryInv, TablesKept
<1>9. UpstreamFirst'
  BY <1>1, <1>2 DEF RegistryInv, UpstreamFirst
<1> QED BY <1>5, <1>8, <1>9 DEF RegistryInv

\* Source and alias registration, planning and refusals, in any order, keep the
\* types, the tables and the order of lineage.
THEOREM RegistryInvariant == Spec => []RegistryInv
<1>1. Init => RegistryInv
  BY RegistryInit
<1>2. RegistryInv /\ [Next]_vars => RegistryInv'
  <2> SUFFICES ASSUME RegistryInv, [Next]_vars PROVE RegistryInv'
    OBVIOUS
  <2>1. CASE \E n \in Names : RegisterExternal(n)
    BY <2>1, QuietRegistryStep
  <2>2. CASE \E n \in Names : DeltaLake(n)
    BY <2>2, DeltaLakeStep
  <2>3. CASE \E s \in Statements : TableFromSql(s)
    BY <2>3, TableFromSqlStep
  <2>4. CASE \E n \in Names, t \in Tables : RegisterAlias(n, t)
    BY <2>4, RegisterAliasStep
  <2>5. CASE \E n \in Names, t \in Tables : RegisterAliasRefused(n, t)
    BY <2>5, QuietRegistryStep
  <2>6. CASE UNCHANGED vars
    BY SMTT(30), <2>6 DEF RegistryInv, TypeOK, TablesKept, UpstreamFirst, Tables, Registered, vars
  <2> QED BY <2>1, <2>2, <2>3, <2>4, <2>5, <2>6 DEF Next
<1> QED BY <1>1, <1>2, PTL DEF Spec

\* No table that delta_lake or table_from_sql returned is lost or in two places, also
\* when register_alias fails half-way, and a name leads to one table.
THEOREM NoTableLost == Spec => []TablesKept
BY RegistryInvariant, PTL DEF RegistryInv

\* Lineage is acyclic: explicit caches can be materialized in registration order.
THEOREM LineageAcyclic == Spec => []UpstreamFirst
BY RegistryInvariant, PTL DEF RegistryInv
-----------------------------------------------------------------------------
(* What a search along a relation collects. *)

INSTANCE WellFoundedInduction

\* Every nonempty set of natural numbers has a least element.
LEMMA LeastNumber ==
  ASSUME NEW T \in SUBSET Nat, T # {}
  PROVE  \E x \in T : \A y \in T : x <= y
<1> DEFINE R == {z \in Nat \X Nat : z[1] < z[2]}
<1>1. R = OpToRel(<, Nat)
  BY DEF OpToRel
<1>2. IsWellFoundedOn(R, Nat)
  BY <1>1, NatLessThanWellFounded
<1>3. \A x, y \in Nat : <<y, x>> \in R <=> y < x
  OBVIOUS
<1> HIDE DEF R
<1>4. PICK x \in T : \A y \in T : ~(<<y, x>> \in R)
  BY <1>2, WFMin
<1>5. \A y \in T : ~(y < x)
  BY <1>3, <1>4
<1> QED BY SMTT(30), <1>4, <1>5

\* Induction, for a set of natural numbers.
LEMMA SetInduction ==
  ASSUME NEW S, 0 \in S, \A n \in Nat : n \in S => n + 1 \in S
  PROVE  \A n \in Nat : n \in S
<1> SUFFICES ASSUME Nat \ S # {} PROVE FALSE
  OBVIOUS
<1>1. PICK x \in Nat \ S : \A y \in Nat \ S : x <= y
  BY LeastNumber
<1>2. x # 0 /\ x - 1 \in Nat
  BY SMTT(30), <1>1
<1>3. x - 1 \in S
  BY SMTT(30), <1>1, <1>2
<1> QED BY SMTT(30), <1>1, <1>2, <1>3

\* The first values of an iteration.
Iterates(V, v, F, n, p) ==
  p \in [0 .. n -> V] /\ p[0] = v /\ \A k \in 0 .. n - 1 : p[k + 1] = F[p[k]]

Iterated(V, v, F, h) ==
  h \in [Nat -> V] /\ h[0] = v /\ \A k \in Nat : h[k + 1] = F[h[k]]

\* A function can be iterated.
LEMMA Iteration ==
  ASSUME NEW V, NEW v \in V, NEW F \in [V -> V]
  PROVE  \E h : Iterated(V, v, F, h)
<1> DEFINE A == {n \in Nat : \E p : Iterates(V, v, F, n, p)}
<1>1. \A n \in Nat : n \in A
  <2>1. 0 \in A
    <3>1. Iterates(V, v, F, 0, [i \in 0 .. 0 |-> v])
      BY SMTT(30) DEF Iterates
    <3> QED BY <3>1
  <2>2. ASSUME NEW n \in Nat, n \in A PROVE n + 1 \in A
    <3>1. PICK p : Iterates(V, v, F, n, p)
      BY <2>2
    <3> DEFINE q == [i \in 0 .. n + 1 |-> IF i = n + 1 THEN F[p[n]] ELSE p[i]]
    <3>2. \A i \in 0 .. n : p[i] \in V /\ q[i] = p[i]
      BY SMTT(30), <3>1 DEF Iterates
    <3>3. F[p[n]] \in V /\ q[n + 1] = F[p[n]]
      <4>1. n \in 0 .. n /\ n + 1 \in 0 .. n + 1
        BY SMTT(30)
      <4>2. p[n] \in V
        BY <3>2, <4>1
      <4> QED BY <4>1, <4>2
    <3>4. q \in [0 .. n + 1 -> V]
      BY SMTT(30), <3>2, <3>3
    <3>5. q[0] = v
      BY SMTT(30), <3>1, <3>2 DEF Iterates
    <3>6. ASSUME NEW k \in 0 .. (n + 1) - 1 PROVE q[k + 1] = F[q[k]]
      <4>1. CASE k = n
        BY SMTT(30), <3>2, <3>3, <4>1
      <4>2. CASE k # n
        <5>1. k \in 0 .. n - 1 /\ k \in 0 .. n /\ k + 1 \in 0 .. n
          BY SMTT(30), <4>2
        <5> QED BY <3>1, <3>2, <5>1 DEF Iterates
      <4> QED BY <4>1, <4>2
    <3> HIDE DEF q
    <3>7. Iterates(V, v, F, n + 1, q)
      BY <3>4, <3>5, <3>6 DEF Iterates
    <3> QED BY SMTT(30), <3>7
  <2> HIDE DEF A
  <2> QED BY <2>1, <2>2, SetInduction
<1> DEFINE P(n) == CHOOSE p : Iterates(V, v, F, n, p)
<1>2. \A n \in Nat : Iterates(V, v, F, n, P(n))
  BY <1>1
<1> HIDE DEF A, P
<1>3. \A k \in Nat : \A m, n \in Nat : k <= m /\ k <= n => P(m)[k] = P(n)[k]
  <2> DEFINE B == {k \in Nat : \A m, n \in Nat : k <= m /\ k <= n => P(m)[k] = P(n)[k]}
  <2>1. 0 \in B
    BY <1>2 DEF Iterates
  <2>2. ASSUME NEW k \in Nat, k \in B PROVE k + 1 \in B
    <3> SUFFICES ASSUME NEW m \in Nat, NEW n \in Nat, k + 1 <= m, k + 1 <= n
                 PROVE  P(m)[k + 1] = P(n)[k + 1]
      BY SMTT(30)
    <3>1. k \in 0 .. m - 1 /\ k \in 0 .. n - 1 /\ k <= m /\ k <= n
      BY SMTT(30)
    <3>2. P(m)[k + 1] = F[P(m)[k]] /\ P(n)[k + 1] = F[P(n)[k]]
      BY <1>2, <3>1 DEF Iterates
    <3>3. P(m)[k] = P(n)[k]
      BY <2>2, <3>1
    <3> QED BY <3>2, <3>3
  <2>3. \A k \in Nat : k \in B
    <3> HIDE DEF B
    <3> QED BY <2>1, <2>2, SetInduction
  <2> QED BY <2>3
<1> DEFINE h == [n \in Nat |-> P(n)[n]]
<1>4. \A n \in Nat : P(n)[n] \in V
  BY SMTT(30), <1>2 DEF Iterates
<1>5. h \in [Nat -> V] /\ h[0] = v
  <2>1. P(0)[0] = v
    BY <1>2 DEF Iterates
  <2> QED BY <1>4, <2>1
<1>6. ASSUME NEW k \in Nat PROVE h[k + 1] = F[h[k]]
  <2>1. k + 1 \in Nat /\ k \in 0 .. (k + 1) - 1 /\ k <= k /\ k <= k + 1
    BY SMTT(30)
  <2>2. P(k + 1)[k + 1] = F[P(k + 1)[k]]
    BY <1>2, <2>1 DEF Iterates
  <2>3. P(k + 1)[k] = P(k)[k]
    BY <1>3, <2>1
  <2> QED BY <2>1, <2>2, <2>3
<1> HIDE DEF h
<1>7. Iterated(V, v, F, h)
  BY <1>5, <1>6 DEF Iterated
<1> QED BY <1>7

\* Collecting what can be reached from D in one step, two steps, ...
Collects(U, D, R, h) ==
  /\ h \in [Nat -> SUBSET U] /\ h[0] = D
  /\ \A k \in Nat : h[k + 1] = h[k] \cup UNION {R[d] : d \in h[k]}

\* A search exists,
LEMMA SearchExists ==
  ASSUME NEW U, NEW D \in SUBSET U, NEW R \in [U -> SUBSET U]
  PROVE  \E h : Collects(U, D, R, h)
<1> DEFINE V == SUBSET U
           F == [S \in V |-> S \cup UNION {R[d] : d \in S}]
<1>1. F \in [V -> V] /\ D \in V
  OBVIOUS
<1>2. \A S \in SUBSET U : F[S] = S \cup UNION {R[d] : d \in S}
  OBVIOUS
<1> HIDE DEF F, V
<1>3. PICK h : Iterated(V, D, F, h)
  BY <1>1, Iteration
<1>4. h \in [Nat -> SUBSET U] /\ \A k \in Nat : h[k] \in SUBSET U
  BY <1>3 DEF V, Iterated
<1>5. \A k \in Nat : h[k + 1] = h[k] \cup UNION {R[d] : d \in h[k]}
  BY <1>2, <1>3, <1>4 DEF Iterated
<1>6. Collects(U, D, R, h)
  BY <1>3, <1>4, <1>5 DEF Collects, Iterated
<1> QED BY <1>6

\* it stays in every set that is closed,
LEMMA SearchStays ==
  ASSUME NEW U, NEW D, NEW R, NEW h, Collects(U, D, R, h),
         NEW S, D \subseteq S, \A d \in S \cap U : R[d] \subseteq S
  PROVE  \A k \in Nat : h[k] \subseteq S
<1> DEFINE B == {k \in Nat : h[k] \subseteq S}
<1>1. 0 \in B
  BY DEF Collects
<1>2. ASSUME NEW k \in Nat, k \in B PROVE k + 1 \in B
  <2>1. h[k] \subseteq S \cap U /\ h[k + 1] = h[k] \cup UNION {R[d] : d \in h[k]}
    BY <1>2 DEF Collects
  <2>2. h[k + 1] \subseteq S
    BY <2>1
  <2> QED BY SMTT(30), <2>2
<1>3. \A k \in Nat : k \in B
  <2> HIDE DEF B
  <2> QED BY <1>1, <1>2, SetInduction
<1> QED BY <1>3

\* keeps what it starts from,
LEMMA SearchKeeps ==
  ASSUME NEW U, NEW D, NEW R, NEW h, Collects(U, D, R, h)
  PROVE  \A k \in Nat : D \subseteq h[k]
<1> DEFINE B == {k \in Nat : D \subseteq h[k]}
<1>1. 0 \in B
  BY DEF Collects
<1>2. ASSUME NEW k \in Nat, k \in B PROVE k + 1 \in B
  BY SMTT(30), <1>2 DEF Collects
<1>3. \A k \in Nat : k \in B
  <2> HIDE DEF B
  <2> QED BY <1>1, <1>2, SetInduction
<1> QED BY <1>3

\* and is complete after n steps where each step descends in 1 .. n.
LEMMA SearchEnds ==
  ASSUME NEW U, NEW D, NEW R, NEW h, Collects(U, D, R, h),
         NEW n \in Nat, NEW rank \in [U -> 1 .. n],
         \A d \in U : R[d] \subseteq U /\ \A e \in R[d] : rank[e] < rank[d]
  PROVE  \A d \in h[n] : R[d] \subseteq h[n]
<1> DEFINE B == {k \in Nat : \A e \in h[k + 1] \ h[k] : rank[e] <= n - k - 1}
<1>0. \A k \in Nat : /\ h[k] \subseteq U
                     /\ h[k + 1] = h[k] \cup UNION {R[d] : d \in h[k]}
  BY DEF Collects
<1>r. \A d \in U : rank[d] \in 1 .. n
  OBVIOUS
<1>1. 0 \in B
  <2> SUFFICES ASSUME NEW e \in h[0 + 1] \ h[0] PROVE rank[e] <= n - 0 - 1
    OBVIOUS
  <2>1. PICK d \in h[0] : e \in R[d]
    BY SMTT(30), <1>0
  <2>2. d \in U /\ e \in U /\ rank[e] < rank[d]
    BY <1>0, <2>1
  <2> QED BY SMTT(30), <1>r, <2>2
<1>2. ASSUME NEW k \in Nat, k \in B PROVE k + 1 \in B
  <2> SUFFICES ASSUME NEW e \in h[(k + 1) + 1] \ h[k + 1] PROVE rank[e] <= n - (k + 1) - 1
    BY SMTT(30)
  <2>1. k + 1 \in Nat
    BY SMTT(30)
  <2>2. PICK d \in h[k + 1] : e \in R[d]
    BY SMTT(30), <1>0, <2>1
  <2>3. d \notin h[k]
    BY SMTT(30), <1>0, <2>2
  <2>4. d \in U /\ e \in U /\ rank[e] < rank[d]
    BY <1>0, <2>1, <2>2
  <2>5. rank[d] <= n - k - 1
    BY <1>2, <2>2, <2>3
  <2> QED BY SMTT(30), <1>r, <2>4, <2>5
<1>3. \A k \in Nat : k \in B
  <2> HIDE DEF B
  <2> QED BY <1>1, <1>2, SetInduction
<1> SUFFICES ASSUME NEW d \in h[n], NEW e \in R[d], e \notin h[n] PROVE FALSE
  OBVIOUS
<1>4. e \in h[n + 1] \ h[n] /\ e \in U
  BY SMTT(30), <1>0
<1>5. rank[e] <= n - n - 1
  BY <1>3, <1>4
<1> QED BY SMTT(30), <1>r, <1>4, <1>5
-----------------------------------------------------------------------------
(* What the views are bound to. *)

\* Sources read nothing; a derived table is bound to sources and registered aliases
\* that are older than itself, because the catalog holds no others.
BindingInv ==
  /\ \A t \in sources : /\ tables[t].kind = "source" /\ tables[t].complete
                        /\ tables[t].reads = {} /\ tables[t].deps = {}
  /\ \A t \in pending \cup Registered : tables[t].kind = "derived"
  /\ \A n \in Names : catalog[n] \in {Free, External} \cup sources \cup Registered
  /\ \A t \in Tables : tables[t].reads \subseteq sources \cup Registered /\ \A d \in tables[t].reads : d < t

\* A new table keeps what the others are bound to.
LEMMA AllocatedBinding ==
  ASSUME RegistryInv, BindingInv, NEW r, Allocated(r), r.reads \subseteq sources \cup Registered,
         sources \subseteq sources'
  PROVE  \A t \in Tables' : tables'[t].reads \subseteq sources' \cup Registered'
                              /\ \A d \in tables'[t].reads : d < t
<1>1. /\ Tables' = Tables \cup {NextTable} /\ tables'[NextTable] = r
      /\ (\A t \in Tables : tables'[t] = tables[t]) /\ Registered' = Registered
  BY AllocatedTables
<1>2. sources \cup Registered \subseteq Tables
  BY DEF RegistryInv, TablesKept
<1>3. \A d \in Tables : d < NextTable
  BY SMTT(30), SeqDomain DEF RegistryInv, TypeOK, Tables, NextTable
<1> QED BY SMTT(30), <1>1, <1>2, <1>3 DEF BindingInv

\* Every step keeps the bindings.
LEMMA BindingStep ==
  ASSUME RegistryInv, BindingInv, RegistryInv', Next
  PROVE  BindingInv'
<1>0. /\ Tables = sources \cup pending \cup Registered /\ sources \cap pending = {}
      /\ (sources \cup pending) \cap Registered = {}
      /\ catalog \in [Names -> {Free, External} \cup Tables] /\ tables \in Seq(TableType)
  BY DEF RegistryInv, TypeOK, TablesKept
<1>1. CASE \E n \in Names : RegisterExternal(n)
  BY SMTT(30), <1>0, <1>1 DEF RegisterExternal, BindingInv, Tables, Registered
<1>2. ASSUME NEW n \in Names, DeltaLake(n) PROVE BindingInv'
  <2> DEFINE r == [kind |-> "source", name |-> n, reads |-> {}, deps |-> {}, complete |-> TRUE]
  <2>1. r \in TableType
    BY DEF TableType
  <2>2. Allocated(r) /\ r.reads = {} /\ r.deps = {} /\ r.kind = "source" /\ r.complete
    BY <1>2, <2>1 DEF DeltaLake, Allocated
  <2> HIDE DEF r
  <2>3. /\ Tables' = Tables \cup {NextTable} /\ NextTable \notin Tables
        /\ tables'[NextTable] = r /\ (\A t \in Tables : tables'[t] = tables[t])
        /\ Registered' = Registered
    BY <2>2, AllocatedTables
  <2>4. /\ catalog' = [catalog EXCEPT ![n] = NextTable] /\ sources' = sources \cup {NextTable}
        /\ pending' = pending
    BY <1>2 DEF DeltaLake
  <2>5. \A t \in Tables' : tables'[t].reads \subseteq sources' \cup Registered'
                            /\ \A d \in tables'[t].reads : d < t
    BY <2>2, <2>4, AllocatedBinding
  <2>6. \A m \in Names : catalog'[m] \in {Free, External} \cup sources' \cup Registered'
    BY <1>0, <2>3, <2>4 DEF BindingInv
  <2>7. \A t \in sources' : /\ tables'[t].kind = "source" /\ tables'[t].complete
                            /\ tables'[t].reads = {} /\ tables'[t].deps = {}
    BY SMTT(30), <1>0, <2>2, <2>3, <2>4 DEF BindingInv
  <2>8. \A t \in pending' \cup Registered' : tables'[t].kind = "derived"
    BY <1>0, <2>3, <2>4 DEF BindingInv
  <2> QED BY <2>5, <2>6, <2>7, <2>8 DEF BindingInv
<1>3. ASSUME NEW s \in Statements, TableFromSql(s) PROVE BindingInv'
  <2> DEFINE r == [kind |-> "derived", name |-> NoName,
                   reads |-> {catalog[n] : n \in s.relations \cup s.qualified} \ {External},
                   deps |-> IF s.complete THEN ClassifyLineageReferences(s) ELSE {},
                   complete |-> s.complete]
  <2>1. Allocated(r)
    BY <1>3, DerivedRecord
  <2>2. s.relations \subseteq Names /\ s.qualified \subseteq Names
    BY RegistryAssumption DEF StatementType
  <2>3. r.kind = "derived" /\ r.reads \subseteq sources \cup Registered
    <3>1. \A n \in s.relations \cup s.qualified : catalog[n] # Free
      BY <1>3 DEF TableFromSql
    <3> QED BY SMTT(30), <2>2, <3>1 DEF BindingInv
  <2> HIDE DEF r
  <2>4. /\ Tables' = Tables \cup {NextTable} /\ NextTable \notin Tables
        /\ tables'[NextTable] = r /\ (\A t \in Tables : tables'[t] = tables[t])
        /\ Registered' = Registered
    BY <2>1, AllocatedTables
  <2>5. catalog' = catalog /\ sources' = sources /\ pending' = pending \cup {NextTable}
    BY <1>3 DEF TableFromSql
  <2>6. \A t \in Tables' : tables'[t].reads \subseteq sources' \cup Registered'
                            /\ \A d \in tables'[t].reads : d < t
    BY <2>1, <2>3, <2>5, AllocatedBinding
  <2>7. \A t \in sources' : /\ tables'[t].kind = "source" /\ tables'[t].complete
                            /\ tables'[t].reads = {} /\ tables'[t].deps = {}
    BY <1>0, <2>4, <2>5 DEF BindingInv
  <2>8. \A t \in pending' \cup Registered' : tables'[t].kind = "derived"
    BY <1>0, <2>3, <2>4, <2>5 DEF BindingInv
  <2> QED BY <2>4, <2>5, <2>6, <2>7, <2>8 DEF BindingInv
<1>4. ASSUME NEW n \in Names, NEW t \in Tables, RegisterAlias(n, t) PROVE BindingInv'
  <2>1. /\ t \in pending /\ catalog' = [catalog EXCEPT ![n] = t]
        /\ tables' = [tables EXCEPT ![t].name = n]
        /\ pending' = pending \ {t} /\ derived' = Append(derived, t) /\ sources' = sources
    BY <1>4 DEF RegisterAlias
  <2>2. Registered' = Registered \cup {t}
    <3>1. derived \in Seq(Tables)
      BY DEF RegistryInv, TypeOK
    <3> QED BY SMTT(30), <2>1, <3>1, AppendRange DEF Registered
  <2>3. /\ Tables' = Tables
        /\ \A u \in Tables : /\ tables'[u].reads = tables[u].reads /\ tables'[u].deps = tables[u].deps
                              /\ tables'[u].kind = tables[u].kind
    <3>1. \A u \in Tables : tables[u] \in TableType
      BY <1>0, SeqDomain DEF Tables
    <3> QED BY <2>1, <3>1 DEF Tables, TableType
  <2> QED BY SMTT(30), <1>0, <2>1, <2>2, <2>3 DEF BindingInv
<1>5. CASE \E n \in Names, t \in Tables : RegisterAliasRefused(n, t)
  BY SMTT(30), <1>5 DEF RegisterAliasRefused, BindingInv, Tables, Registered
<1> QED BY <1>1, <1>2, <1>3, <1>4, <1>5 DEF Next

PlanInv == RegistryInv /\ BindingInv

\* Views are bound to what the session registered before them.
THEOREM PlanInvariant == Spec => []PlanInv
<1>1. Init => BindingInv
  BY SMTT(30) DEF Init, BindingInv, Tables, Registered
<1>2. RegistryInv /\ RegistryInv' /\ BindingInv /\ [Next]_vars => BindingInv'
  <2>1. UNCHANGED vars => (BindingInv => BindingInv')
    BY SMTT(30) DEF vars, BindingInv, Tables, Registered
  <2> QED BY <2>1, BindingStep
<1> QED BY <1>1, <1>2, RegistryInvariant, PTL DEF Spec, PlanInv
-----------------------------------------------------------------------------
(* The two searches of the plan. *)

\* A function that satisfies the equation of a search is that search.
LEMMA SearchEquation ==
  ASSUME NEW U, NEW D \in SUBSET U, NEW R \in [U -> SUBSET U], NEW g,
         g = [k \in Nat |-> IF k = 0 THEN D ELSE g[k - 1] \cup UNION {R[d] : d \in g[k - 1]}]
  PROVE  Collects(U, D, R, g)
<1>1. g[0] = D
  OBVIOUS
<1>2. \A k \in Nat : g[k + 1] = g[k] \cup UNION {R[d] : d \in g[k]}
  <2> SUFFICES ASSUME NEW k \in Nat PROVE g[k + 1] = g[k] \cup UNION {R[d] : d \in g[k]}
    OBVIOUS
  <2>1. k + 1 \in Nat /\ k + 1 # 0 /\ (k + 1) - 1 = k
    BY SMTT(30)
  <2> QED BY <2>1
<1> DEFINE B == {k \in Nat : g[k] \in SUBSET U}
<1>3. 0 \in B
  BY <1>1
<1>4. ASSUME NEW k \in Nat, k \in B PROVE k + 1 \in B
  BY SMTT(30), <1>2, <1>4
<1>5. \A k \in Nat : k \in B
  <2> HIDE DEF B
  <2> QED BY <1>3, <1>4, SetInduction
<1>6. g \in [Nat -> SUBSET U]
  <2>1. DOMAIN g = Nat /\ g = [k \in DOMAIN g |-> g[k]]
    OBVIOUS
  <2> QED BY <1>5, <2>1
<1> QED BY <1>1, <1>2, <1>6 DEF Collects

\* The equation of a search has a solution.
LEMMA SearchSolved ==
  ASSUME NEW U, NEW D \in SUBSET U, NEW R \in [U -> SUBSET U], NEW g,
         g = CHOOSE f : f = [k \in Nat |-> IF k = 0 THEN D
                                           ELSE f[k - 1] \cup UNION {R[d] : d \in f[k - 1]}]
  PROVE  Collects(U, D, R, g)
<1>1. PICK h : Collects(U, D, R, h)
  BY SearchExists
<1>2. h = [k \in Nat |-> IF k = 0 THEN D ELSE h[k - 1] \cup UNION {R[d] : d \in h[k - 1]}]
  <2> DEFINE e == [k \in Nat |-> IF k = 0 THEN D ELSE h[k - 1] \cup UNION {R[d] : d \in h[k - 1]}]
  <2>1. \A k \in Nat : h[k] = e[k]
    <3> SUFFICES ASSUME NEW k \in Nat PROVE h[k] = e[k]
      OBVIOUS
    <3>1. CASE k = 0
      BY <1>1, <3>1 DEF Collects
    <3>2. CASE k # 0
      <4>1. k - 1 \in Nat /\ (k - 1) + 1 = k
        BY SMTT(30), <3>2
      <4>2. h[(k - 1) + 1] = h[k - 1] \cup UNION {R[d] : d \in h[k - 1]}
        BY <1>1, <4>1 DEF Collects
      <4> QED BY <3>2, <4>1, <4>2
    <3> QED BY <3>1, <3>2
  <2>2. h = [k \in Nat |-> h[k]] /\ e = [k \in Nat |-> e[k]]
    BY <1>1 DEF Collects
  <2> HIDE DEF e
  <2>3. h = e
    BY <2>1, <2>2
  <2> QED BY <2>3 DEF e
<1>3. g = [k \in Nat |-> IF k = 0 THEN D ELSE g[k - 1] \cup UNION {R[d] : d \in g[k - 1]}]
  BY <1>2
<1> QED BY <1>3, SearchEquation

\* X is the least set with D that is closed under R, and lies in U.
LeastClosed(U, D, R, X) ==
  /\ D \subseteq X /\ X \subseteq U
  /\ \A d \in X : R[d] \subseteq X
  /\ \A S : D \subseteq S /\ (\A d \in S \cap U : R[d] \subseteq S) => X \subseteq S

\* That is what a search finds if each step descends in 1 .. n.
LEMMA ReachedLeast ==
  ASSUME NEW U, NEW D \in SUBSET U, NEW R \in [U -> SUBSET U],
         NEW n \in Nat, NEW rank \in [U -> 1 .. n],
         \A d \in U : \A e \in R[d] : rank[e] < rank[d]
  PROVE  LeastClosed(U, D, R, Reached(D, R, n))
<1> DEFINE g == CHOOSE f : f = [k \in Nat |-> IF k = 0 THEN D
                                             ELSE f[k - 1] \cup UNION {R[d] : d \in f[k - 1]}]
<1>1. Reached(D, R, n) = g[n]
  BY DEF Reached
<1>2. Collects(U, D, R, g)
  BY SearchSolved
<1> HIDE DEF g
<1>3. D \subseteq g[n]
  BY <1>2, SearchKeeps
<1>6. g[n] \subseteq U
  BY <1>2 DEF Collects
<1>4. \A d \in g[n] : R[d] \subseteq g[n]
  BY SMTT(30), <1>2, SearchEnds
<1>5. ASSUME NEW S, D \subseteq S, \A d \in S \cap U : R[d] \subseteq S PROVE g[n] \subseteq S
  <2>1. \A k \in Nat : g[k] \subseteq S
    BY SMTT(30), <1>2, <1>5, SearchStays
  <2> QED BY <2>1
<1> QED BY SMTT(30), <1>1, <1>3, <1>4, <1>5, <1>6 DEF LeastClosed

\* The position of an alias in the order of registration.
Position(d) == CHOOSE i \in DOMAIN derived : derived[i] = d

LEMMA Positions ==
  ASSUME PlanInv
  PROVE  /\ Len(derived) \in Nat /\ DOMAIN derived = 1 .. Len(derived)
         /\ \A d \in Registered : Position(d) \in DOMAIN derived /\ derived[Position(d)] = d
         /\ \A i \in DOMAIN derived : derived[i] \in Registered /\ Position(derived[i]) = i
         /\ \A d, e \in Registered : e \in tables[d].deps => Position(e) < Position(d)
<1>1. derived \in Seq(Tables) /\ \A i, j \in DOMAIN derived : derived[i] = derived[j] => i = j
  BY DEF PlanInv, RegistryInv, TypeOK, TablesKept
<1>2. Len(derived) \in Nat /\ DOMAIN derived = 1 .. Len(derived)
  BY <1>1, SeqDomain
<1>3. \A d \in Registered : Position(d) \in DOMAIN derived /\ derived[Position(d)] = d
  BY DEF Position, Registered
<1>4. \A i \in DOMAIN derived : derived[i] \in Registered /\ Position(derived[i]) = i
  <2>1. \A i \in DOMAIN derived : derived[i] \in Registered
    BY DEF Registered
  <2> QED BY <1>1, <1>3, <2>1
<1>5. \A d, e \in Registered : e \in tables[d].deps => Position(e) < Position(d)
  BY <1>3 DEF PlanInv, RegistryInv, UpstreamFirst
<1> QED BY <1>2, <1>3, <1>4, <1>5

\* What lineage reaches: the least set of aliases with the direct ones of t that is closed.
LEMMA DerivedSearch ==
  ASSUME PlanInv, NEW t \in Tables
  PROVE  /\ DirectDerived(t) \subseteq TransitiveDerived(t) /\ TransitiveDerived(t) \subseteq Registered
         /\ \A d \in TransitiveDerived(t) : DirectDerived(d) \subseteq TransitiveDerived(t)
         /\ \A S : DirectDerived(t) \subseteq S /\ (\A d \in S \cap Registered : DirectDerived(d) \subseteq S)
                    => TransitiveDerived(t) \subseteq S
<1> DEFINE R == [d \in Registered |-> DirectDerived(d)]
           rank == [d \in Registered |-> Position(d)]
<1>1. \A d : DirectDerived(d) \in SUBSET Registered
  BY DEF DirectDerived
<1>2. R \in [Registered -> SUBSET Registered] /\ \A d \in Registered : R[d] = DirectDerived(d)
  BY <1>1
<1>3. Len(derived) \in Nat /\ rank \in [Registered -> 1 .. Len(derived)]
  BY Positions
<1>4. \A d \in Registered : \A e \in R[d] : rank[e] < rank[d]
  <2>1. \A d \in Registered : \A e \in R[d] : e \in Registered /\ e \in tables[d].deps
    BY <1>2 DEF DirectDerived
  <2> QED BY <2>1, Positions
<1>5. TransitiveDerived(t) = Reached(DirectDerived(t), R, Len(derived))
  BY DEF TransitiveDerived
<1> HIDE DEF R, rank
<1>6. LeastClosed(Registered, DirectDerived(t), R, TransitiveDerived(t))
  BY SMTT(30), <1>1, <1>2, <1>3, <1>4, <1>5, ReachedLeast
<1> QED BY <1>2, <1>6 DEF LeastClosed

\* What a view runs: the least set of tables with t that is closed under reading.
LEMMA ReadSearch ==
  ASSUME PlanInv, NEW t \in Tables
  PROVE  /\ t \in BoundReads(t) /\ BoundReads(t) \subseteq Tables
         /\ \A d \in BoundReads(t) : tables[d].reads \subseteq BoundReads(t)
         /\ \A S : t \in S /\ (\A d \in S \cap Tables : tables[d].reads \subseteq S) => BoundReads(t) \subseteq S
<1> DEFINE R == [d \in Tables |-> tables[d].reads]
           rank == [d \in Tables |-> d]
           D == {t}
<1>1. /\ Len(tables) \in Nat /\ Tables = 1 .. Len(tables)
      /\ sources \cup Registered \subseteq Tables
  BY SeqDomain DEF PlanInv, RegistryInv, TypeOK, TablesKept, Tables
<1>2. R \in [Tables -> SUBSET Tables] /\ \A d \in Tables : R[d] = tables[d].reads
  BY <1>1 DEF PlanInv, BindingInv
<1>3. rank \in [Tables -> 1 .. Len(tables)]
  BY <1>1
<1>4. \A d \in Tables : \A e \in R[d] : rank[e] < rank[d]
  BY <1>2 DEF PlanInv, BindingInv
<1>5. BoundReads(t) = Reached(D, R, Len(tables)) /\ D \in SUBSET Tables
  BY DEF BoundReads
<1> HIDE DEF R, rank, D
<1>6. LeastClosed(Tables, D, R, BoundReads(t))
  <2>1. Len(tables) \in Nat /\ R \in [Tables -> SUBSET Tables]
    BY <1>1, <1>2
  <2>2. LeastClosed(Tables, D, R, Reached(D, R, Len(tables)))
    BY <1>3, <1>4, <1>5, <2>1, ReachedLeast
  <2> QED BY <1>5, <2>2
<1> QED BY <1>2, <1>6 DEF LeastClosed, D
-----------------------------------------------------------------------------
(* Lineage and the plans. *)

\* What the kinds of tables are.
LEMMA Kinds ==
  ASSUME PlanInv
  PROVE  /\ Tables = sources \cup pending \cup Registered
         /\ sources \cap Registered = {}
         /\ \A t \in Tables : tables[t].kind = "source" <=> t \in sources
         /\ \A t \in sources : tables[t].reads = {} /\ tables[t].deps = {}
         /\ \A t \in Tables : tables[t].deps \subseteq sources \cup Registered
         /\ Registered \subseteq Tables
BY DEF PlanInv, BindingInv, RegistryInv, TablesKept, UpstreamFirst

\* An alias reaches what its dependencies reach, all of it registered before.
LEMMA LineageDescends ==
  ASSUME PlanInv, NEW t \in Tables, NEW d \in TransitiveDerived(t)
  PROVE  /\ d \in Registered /\ TransitiveDerived(d) \subseteq TransitiveDerived(t)
         /\ t \in Registered => Position(d) < Position(t)
<1>1. d \in Registered /\ d \in Tables
  BY DerivedSearch, Kinds
<1>2. TransitiveDerived(d) \subseteq TransitiveDerived(t)
  <2>1. DirectDerived(d) \subseteq TransitiveDerived(t)
    BY DerivedSearch
  <2>2. \A e \in TransitiveDerived(t) \cap Registered : DirectDerived(e) \subseteq TransitiveDerived(t)
    BY DerivedSearch
  <2> QED BY <1>1, <2>1, <2>2, DerivedSearch
<1>3. ASSUME t \in Registered PROVE Position(d) < Position(t)
  <2> DEFINE S == {e \in Registered : Position(e) < Position(t)}
  <2>1. \A e \in Registered : Position(e) \in Nat
    BY SMTT(30), Positions
  <2>2. DirectDerived(t) \subseteq S
    BY <1>3, Positions DEF DirectDerived
  <2>3. \A e \in S \cap Registered : DirectDerived(e) \subseteq S
    <3> SUFFICES ASSUME NEW e \in S, NEW x \in DirectDerived(e) PROVE x \in S
      OBVIOUS
    <3>1. x \in Registered /\ x \in tables[e].deps
      BY DEF DirectDerived
    <3>2. Position(x) < Position(e) /\ Position(e) < Position(t)
      BY <3>1, Positions
    <3> QED BY SMTT(30), <1>3, <2>1, <3>1, <3>2
  <2> HIDE DEF S
  <2>4. TransitiveDerived(t) \subseteq S
    BY <2>2, <2>3, DerivedSearch
  <2> QED BY <2>4 DEF S
<1> QED BY <1>1, <1>2, <1>3

\* A source is read alone.
LEMMA SourceReads ==
  ASSUME PlanInv, NEW t \in sources
  PROVE  BoundReads(t) = {t}
<1>1. t \in Tables /\ tables[t].reads = {}
  BY Kinds
<1>2. t \in {t} /\ \A d \in {t} \cap Tables : tables[d].reads \subseteq {t}
  BY <1>1
<1>3. BoundReads(t) \subseteq {t}
  BY <1>1, <1>2, ReadSearch
<1> QED BY SMTT(30), <1>1, <1>3, ReadSearch

\* Where lineage is faithful a plan runs what lineage reaches, and the sources of that.
LEMMA FaithfulReads ==
  ASSUME PlanInv, NEW t \in Tables, FaithfulLineage(t)
  PROVE  /\ {t} \cup TransitiveDerived(t) \subseteq BoundReads(t)
         /\ BoundReads(t) \subseteq
              {t} \cup TransitiveDerived(t)
                \cup (sources \cap UNION {tables[d].deps : d \in {t} \cup TransitiveDerived(t)})
         /\ \A d \in BoundReads(t) : d \in Tables /\ FaithfulLineage(d)
<1>1. /\ t \in BoundReads(t) /\ BoundReads(t) \subseteq Tables
      /\ \A d \in BoundReads(t) : /\ tables[d].reads \subseteq BoundReads(t)
                                   /\ tables[d].complete /\ tables[d].deps = tables[d].reads
  BY ReadSearch DEF FaithfulLineage
<1>2. TransitiveDerived(t) \subseteq BoundReads(t)
  <2>1. \A d \in BoundReads(t) : DirectDerived(d) \subseteq BoundReads(t)
    BY <1>1 DEF DirectDerived
  <2> QED BY <1>1, <2>1, DerivedSearch
<1>3. BoundReads(t) \subseteq {t} \cup TransitiveDerived(t)
        \cup (sources \cap UNION {tables[d].deps : d \in {t} \cup TransitiveDerived(t)})
  <2> DEFINE L == {t} \cup TransitiveDerived(t)
             E == sources \cap UNION {tables[d].deps : d \in L}
             S == (L \cup E) \cap BoundReads(t)
  <2>1. \A d \in L : DirectDerived(d) \subseteq L
    BY DerivedSearch
  <2>2. \A d \in L : d \in Tables
    BY <1>1, <1>2
  <2>3. \A d \in L : tables[d].deps \subseteq L \cup E
    <3> SUFFICES ASSUME NEW d \in L, NEW e \in tables[d].deps PROVE e \in L \cup E
      OBVIOUS
    <3>1. e \in sources \/ e \in DirectDerived(d)
      BY <2>2, Kinds DEF DirectDerived
    <3> QED BY <2>1, <3>1
  <2>4. \A d \in E : tables[d].reads = {}
    BY Kinds
  <2> HIDE DEF L, E
  <2>5. \A d \in S : tables[d].reads \subseteq S
    BY <1>1, <2>3, <2>4
  <2>6. t \in S
    BY <1>1 DEF L
  <2> HIDE DEF S
  <2>7. BoundReads(t) \subseteq S
    BY <2>5, <2>6, ReadSearch
  <2> QED BY <2>7 DEF S, L, E
<1>4. ASSUME NEW d \in BoundReads(t) PROVE d \in Tables /\ FaithfulLineage(d)
  <2>1. d \in Tables
    BY <1>1
  <2>2. BoundReads(d) \subseteq BoundReads(t)
    BY <1>1, <2>1, ReadSearch
  <2> QED BY <1>1, <2>1, <2>2 DEF FaithfulLineage
<1> QED BY <1>1, <1>2, <1>3, <1>4

\* The outputs of a request are tables.
LEMMA RequestTables ==
  ASSUME NEW req \in Requests
  PROVE  Range(req) \subseteq Tables /\ \A i \in DOMAIN req : req[i] \in Tables /\ req[i] \in Range(req)
<1>1. CASE \E t \in Tables : req = <<t, t>>
  BY SMTT(30), <1>1 DEF Range
<1>2. CASE \E n \in 0 .. MaxOutputs : req \in [1 .. n -> Tables]
  BY <1>2 DEF Range
<1> QED BY <1>1, <1>2 DEF Requests

\* The usage that lineage gives a table of faithful lineage is known, and it is what
\* its plan reads.
LEMMA FaithfulUsage ==
  ASSUME PlanInv, NEW t \in Tables, FaithfulLineage(t), NEW s \in sources
  PROVE  UsageKnown(t) /\ (s \in SourceDependencies(t) <=> s \in BoundReads(t))
<1>1. UsageKnown(t)
  BY FaithfulReads DEF UsageKnown, FaithfulLineage
<1>2. CASE t \in sources
  <2>1. tables[t].kind = "source" /\ BoundReads(t) = {t}
    BY <1>2, SourceReads, Kinds
  <2> QED BY <1>1, <2>1 DEF SourceDependencies
<1>3. CASE t \notin sources
  <2>1. SourceDependencies(t) = sources \cap UNION {tables[d].deps : d \in {t} \cup TransitiveDerived(t)}
    BY <1>3, Kinds DEF SourceDependencies
  <2>2. s # t /\ s \notin TransitiveDerived(t)
    BY <1>3, DerivedSearch, Kinds
  <2>3. s \in BoundReads(t) => s \in SourceDependencies(t)
    BY <2>1, <2>2, FaithfulReads
  <2>4. ASSUME s \in SourceDependencies(t) PROVE s \in BoundReads(t)
    <3>1. PICK d \in {t} \cup TransitiveDerived(t) : s \in tables[d].deps
      BY <2>1, <2>4
    <3>2. d \in BoundReads(t) /\ tables[d].deps = tables[d].reads
      BY FaithfulReads DEF FaithfulLineage
    <3> QED BY <3>1, <3>2, ReadSearch
  <2> QED BY <1>1, <2>3, <2>4
<1> QED BY <1>1, <1>2, <1>3

\* If usage is known and every captured lineage names what is read, no lineage on the
\* way was lost: a search along the reads stays within what lineage reaches.
LEMMA KnownIsFaithful ==
  ASSUME PlanInv, NEW t \in Tables, CapturedNamesAll(t), UsageKnown(t)
  PROVE  FaithfulLineage(t)
<1> DEFINE L == {t} \cup TransitiveDerived(t)
           S == (L \cup sources) \cap BoundReads(t)
<1>1. /\ t \in BoundReads(t) /\ BoundReads(t) \subseteq Tables
      /\ \A d \in BoundReads(t) : tables[d].reads \subseteq BoundReads(t)
  BY ReadSearch
<1>2. \A d \in L : d \in Tables /\ tables[d].complete /\ DirectDerived(d) \subseteq L
  BY DerivedSearch, Kinds DEF UsageKnown
<1>3. \A d \in L : tables[d].deps \subseteq L \cup sources
  BY <1>2, Kinds DEF DirectDerived
<1>4. \A d \in L \cap BoundReads(t) : tables[d].deps = tables[d].reads
  BY <1>2 DEF CapturedNamesAll
<1>5. \A d \in sources : tables[d].reads = {} /\ tables[d].deps = {} /\ d \in Tables
  BY Kinds
<1>6. t \in L
  OBVIOUS
<1> HIDE DEF L
<1>7. t \in S /\ \A d \in S : tables[d].reads \subseteq S
  BY <1>1, <1>3, <1>4, <1>5, <1>6
<1> HIDE DEF S
<1>8. BoundReads(t) \subseteq S
  BY <1>7, ReadSearch
<1>9. \A d \in sources : tables[d].complete
  BY DEF PlanInv, BindingInv
<1> QED BY <1>2, <1>4, <1>5, <1>8, <1>9 DEF S, FaithfulLineage

\* Only what is cached or hidden by an unselected alias keeps an output from a cache.
LEMMA RunsNoSelected ==
  ASSUME PlanInv, NEW sel \in SUBSET Registered, NEW t \in FaithfulTables
  PROVE  /\ BoundReads(t) \cap sel \subseteq {t} \cup TransitiveDerived(t)
         /\ \A d \in tables[t].reads \ sel :
              ~HidesSelected(t, sel) => BoundReads(d) \cap sel = {}
<1>1. t \in Tables /\ FaithfulLineage(t)
  BY DEF FaithfulTables
<1>2. ASSUME NEW u \in Tables, FaithfulLineage(u) PROVE BoundReads(u) \cap sel \subseteq {u} \cup TransitiveDerived(u)
  BY <1>2, FaithfulReads, Kinds
<1>3. ASSUME NEW d \in tables[t].reads \ sel, ~HidesSelected(t, sel) PROVE BoundReads(d) \cap sel = {}
  <2>1. d \in BoundReads(t) /\ d \in tables[t].deps
    BY <1>1, ReadSearch DEF FaithfulLineage
  <2>2. d \in Tables /\ FaithfulLineage(d) /\ d \in sources \cup Registered
    BY <1>1, <2>1, FaithfulReads, Kinds
  <2>3. CASE d \in sources
    BY <2>3, SourceReads, Kinds
  <2>4. CASE d \in Registered
    <3>1. TransitiveDerived(d) \cap sel = {}
      BY <1>3, <2>1, <2>4 DEF HidesSelected, DirectDerived
    <3> QED BY <1>2, <1>3, <2>2, <3>1
  <2> QED BY <2>2, <2>3, <2>4
<1> QED BY <1>1, <1>2, <1>3

LEMMA OutputRunsNoSelected ==
  ASSUME PlanInv, NEW sel \in SUBSET Registered, NEW t \in FaithfulTables,
         (t \notin sel /\ tables[t].kind = "derived") => ~HidesSelected(t, sel)
  PROVE  Executed(t, sel) \cap sel = {}
<1>1. CASE t \in sel
  BY <1>1 DEF Executed
<1>2. CASE RequiresReplan(t, sel)
  <2>1. t \notin sel /\ ~HidesSelected(t, sel)
    BY <1>2 DEF RequiresReplan
  <2>2. \A d \in tables[t].reads \ sel : BoundReads(d) \cap sel = {}
    BY <2>1, RunsNoSelected
  <2> QED BY <1>2, <2>1, <2>2 DEF Executed
<1>3. CASE t \notin sel /\ ~RequiresReplan(t, sel)
  <2>1. Executed(t, sel) = BoundReads(t)
    BY <1>3 DEF Executed
  <2>2. t \in Tables
    BY DEF FaithfulTables
  <2>3. CASE t \in sources
    BY <1>3, <2>1, <2>3, SourceReads
  <2>4. CASE t \notin sources
    <3>1. TransitiveDerived(t) \cap sel = {}
      <4>1. tables[t].kind = "derived"
        BY <2>2, <2>4 DEF PlanInv, BindingInv, RegistryInv, TablesKept
      <4> QED BY <1>3, <4>1 DEF RequiresReplan
    <3> QED BY SMTT(30), <1>3, <2>1, <3>1, RunsNoSelected
  <2> QED BY <2>3, <2>4
<1> QED BY <1>1, <1>2, <1>3

\* Source usage, for any request.
LEMMA UsageHolds == PlanInv => UsageExact
<1> SUFFICES ASSUME PlanInv, NEW req \in Requests, NEW s \in sources
             PROVE  /\ Range(req) \subseteq FaithfulTables =>
                         UsageStatus(req, s) =
                           IF Range(req) \cap {t \in Tables : s \in BoundReads(t)} # {}
                           THEN "used" ELSE "not_used"
                    /\ UsageStatus(req, s) = "not_used" =>
                         \A t \in Range(req) : ~(s \in BoundReads(t) /\ CapturedNamesAll(t))
  BY DEF UsageExact
<1>1. Range(req) \subseteq Tables /\ \A i \in DOMAIN req : req[i] \in Tables /\ req[i] \in Range(req)
  BY RequestTables
<1>2. \A t \in Range(req) : \E i \in DOMAIN req : req[i] = t
  BY DEF Range
<1>3. ASSUME Range(req) \subseteq FaithfulTables
      PROVE  UsageStatus(req, s) = IF Range(req) \cap {t \in Tables : s \in BoundReads(t)} # {}
                                   THEN "used" ELSE "not_used"
  <2>1. \A i \in DOMAIN req : UsageKnown(req[i]) /\ (s \in SourceDependencies(req[i]) <=> s \in BoundReads(req[i]))
    BY <1>1, <1>3, FaithfulUsage DEF FaithfulTables
  <2>2. UsedBy(req, s) # {} <=> Range(req) \cap {t \in Tables : s \in BoundReads(t)} # {}
    BY <1>1, <1>2, <2>1 DEF UsedBy
  <2> QED BY <2>1, <2>2 DEF UsageStatus
<1>4. ASSUME NEW t \in Range(req), s \in BoundReads(t), CapturedNamesAll(t)
      PROVE  UsageStatus(req, s) # "not_used"
  <2>1. PICK i \in DOMAIN req : req[i] = t
    BY <1>2
  <2>2. CASE UsageKnown(t)
    <3>1. FaithfulLineage(t)
      BY <1>1, <1>4, <2>2, KnownIsFaithful
    <3>2. s \in SourceDependencies(t)
      BY <1>1, <1>4, <3>1, FaithfulUsage
    <3> QED BY <2>1, <2>2, <3>2 DEF UsageStatus, UsedBy
  <2>3. CASE ~UsageKnown(t)
    BY <2>1, <2>3 DEF UsageStatus
  <2> QED BY <2>2, <2>3
<1> QED BY <1>3, <1>4

\* Shared candidates are registered aliases.
LEMMA SharedRegistered == \A req : SharedCandidates(req) \subseteq Registered
BY DEF SharedCandidates

\* The explicit mode, for any request and any selection it accepts.
LEMMA ExplicitHolds == PlanInv => ExplicitRunsOnce
<1> SUFFICES ASSUME PlanInv, NEW req \in Requests, NEW sel \in SUBSET SharedCandidates(req),
                    ExplicitAccepted(req, SharedCandidates(req), sel)
             PROVE  /\ \A t \in Range(req) \cap FaithfulTables : Executed(t, sel) \cap sel = {}
                    /\ \A c \in sel \cap FaithfulTables :
                         Materialized(c, CachedBefore(c, sel)) \cap sel = {c}
  BY DEF ExplicitRunsOnce
<1>1. sel \in SUBSET Registered
  BY SharedRegistered
<1>2. /\ \A c \in sel : ~HidesSelected(c, sel)
      /\ \A i \in DOMAIN req : (tables[req[i]].kind = "derived" /\ req[i] \notin sel) => ~HidesSelected(req[i], sel)
  BY DEF ExplicitAccepted, ReplayClosed
<1>3. ASSUME NEW t \in Range(req) \cap FaithfulTables PROVE Executed(t, sel) \cap sel = {}
  <2>1. PICK i \in DOMAIN req : req[i] = t
    BY DEF Range
  <2>2. (t \notin sel /\ tables[t].kind = "derived") => ~HidesSelected(t, sel)
    BY <1>2, <2>1
  <2> QED BY <1>1, <2>2, OutputRunsNoSelected
<1>4. ASSUME NEW c \in sel \cap FaithfulTables
      PROVE  Materialized(c, CachedBefore(c, sel)) \cap sel = {c}
  <2>1. c \in Registered /\ c \in Tables /\ FaithfulLineage(c)
    BY <1>1 DEF FaithfulTables
  <2>2. tables[c].deps = tables[c].reads
    BY <2>1, ReadSearch DEF FaithfulLineage
  <2>3. ASSUME NEW d \in tables[c].reads, d \in sel PROVE d \in CachedBefore(c, sel)
    <3>1. d \in Registered /\ Position(d) < Position(c)
      BY <1>1, <2>1, <2>2, <2>3, Positions
    <3>2. /\ Position(d) \in DOMAIN derived /\ derived[Position(d)] = d
          /\ Position(c) \in DOMAIN derived /\ derived[Position(c)] = c
      BY <2>1, <3>1, Positions
    <3> QED BY <2>3, <3>1, <3>2 DEF CachedBefore
  <2>4. \A d \in tables[c].reads \ sel : BoundReads(d) \cap sel = {}
    BY <1>1, <1>2, RunsNoSelected
  <2>5. \A d \in tables[c].reads \ CachedBefore(c, sel) : BoundReads(d) \cap sel = {}
    BY <2>3, <2>4
  <2> QED BY <2>5 DEF Materialized
<1> QED BY <1>3, <1>4

\* Among the shared aliases that use c there is a deepest one.
LEMMA DeepestUser ==
  ASSUME PlanInv, NEW shared \in SUBSET Registered, NEW c \in shared
  PROVE  \E s \in Frontier(shared) : Uses(s, c)
<1> DEFINE users == {d \in shared : Uses(d, c)}
           T == {Len(derived) - Position(d) : d \in users}
<1>1. c \in users
  BY DEF Uses
<1>2. \A d \in Registered : Position(d) \in Nat /\ Len(derived) - Position(d) \in Nat
  BY SMTT(30), Positions
<1>3. T \in SUBSET Nat /\ T # {}
  BY <1>1, <1>2
<1>4. PICK x \in T : \A y \in T : x <= y
  <2> HIDE DEF T
  <2> QED BY <1>3, LeastNumber
<1>5. PICK s \in users : x = Len(derived) - Position(s)
  OBVIOUS
<1>6. \A d \in users : Len(derived) - Position(s) <= Len(derived) - Position(d)
  BY <1>4, <1>5
<1>7. \A d \in users : Position(d) <= Position(s)
  BY SMTT(30), <1>2, <1>6, Positions
<1>8. ASSUME NEW d \in shared, DeeperThan(d, s) PROVE FALSE
  <2>1. d \in Registered /\ s \in Registered /\ d \in Tables /\ s \in Tables
    BY Kinds
  <2>2. s \in TransitiveDerived(d) /\ tables[d].kind = "derived"
    BY <1>8 DEF DeeperThan, Uses
  <2>3. Position(s) < Position(d) /\ TransitiveDerived(s) \subseteq TransitiveDerived(d)
    BY <2>1, <2>2, LineageDescends
  <2>4. Uses(d, c)
    <3>1. Uses(s, c)
      BY <1>5
    <3> QED BY <2>2, <2>3, <3>1 DEF Uses
  <2>5. Position(d) <= Position(s)
    BY <1>7, <2>4
  <2> QED BY SMTT(30), <1>2, <2>1, <2>3, <2>5
<1>9. s \in Frontier(shared)
  BY <1>8 DEF Frontier
<1> QED BY <1>5, <1>9

INSTANCE FiniteSetTheorems

\* The frontier, for any set of shared aliases.
LEMMA FrontierOf ==
  ASSUME PlanInv, NEW shared \in SUBSET Registered
  PROVE  /\ shared # {} => ~Ambiguous(shared, Frontier(shared))
         /\ \A c, d \in Frontier(shared) : ~DeeperThan(c, d)
         /\ \A c \in shared : \E s \in Frontier(shared) : Uses(s, c)
<1> DEFINE frontier == Frontier(shared)
           covered == Covered(shared, frontier)
<1>1. \A c, d \in frontier : ~DeeperThan(c, d)
  BY DEF Frontier
<1>2. \A c \in shared : \E s \in frontier : Uses(s, c)
  BY DeepestUser
<1>3. frontier \subseteq shared /\ covered = shared \ frontier
  <2>1. frontier \subseteq shared
    BY DEF Frontier
  <2>2. ASSUME NEW c \in shared \ frontier PROVE \E s \in frontier : DeeperThan(s, c)
    BY <1>2, <2>2 DEF DeeperThan
  <2> QED BY <2>1, <2>2 DEF Covered
<1> HIDE DEF frontier, covered
<1>4. IsFiniteSet(shared)
  <2>1. Len(tables) \in Nat /\ shared \in SUBSET (1 .. Len(tables))
    BY SMTT(30), Kinds, SeqDomain DEF PlanInv, RegistryInv, TypeOK, Tables
  <2>2. IsFiniteSet(1 .. Len(tables))
    BY SMTT(30), <2>1, FS_Interval
  <2> QED BY <2>1, <2>2, FS_Subset
<1>5. Cardinality(frontier) + Cardinality(covered) = Cardinality(shared)
  <2>1. IsFiniteSet(frontier) /\ shared \cap frontier = frontier
    BY <1>3, <1>4, FS_Subset
  <2>2. Cardinality(shared \ frontier) = Cardinality(shared) - Cardinality(shared \cap frontier)
    BY <1>4, FS_Difference
  <2>3. Cardinality(shared) \in Nat /\ Cardinality(frontier) \in Nat
    BY <1>4, <2>1, FS_CardinalityType
  <2>4. Cardinality(covered) = Cardinality(shared) - Cardinality(frontier)
    BY <1>3, <2>1, <2>2
  <2> QED BY SMTT(30), <2>3, <2>4
<1>6. ASSUME shared # {} PROVE ~Ambiguous(shared, frontier)
  <2>1. frontier # {}
    BY <1>2, <1>6
  <2> QED BY <1>5, <2>1 DEF Ambiguous, covered
<1> QED BY <1>1, <1>2, <1>6 DEF frontier

LEMMA FrontierHolds == PlanInv => FrontierCovers
BY SharedRegistered, FrontierOf DEF FrontierCovers

\* The automatic mode, for any request.
LEMMA AutoHolds == PlanInv => AutoRunsOnceUnlessHidden
<1> SUFFICES ASSUME PlanInv, NEW req \in Requests, PlanAuto(req) # {}
             PROVE  /\ \A t \in Range(req) \cap FaithfulTables :
                         ~HidesSelected(t, PlanAuto(req)) =>
                           Executed(t, PlanAuto(req)) \cap PlanAuto(req) = {}
                    /\ \A c \in PlanAuto(req) \cap FaithfulTables :
                         BoundReads(c) \cap PlanAuto(req) = {c}
  BY DEF AutoRunsOnceUnlessHidden
<1> DEFINE sel == PlanAuto(req)
<1>1. sel = Frontier(SharedCandidates(req))
  BY DEF PlanAuto
<1>2. sel \in SUBSET Registered /\ \A c, d \in sel : ~DeeperThan(c, d)
  BY <1>1, SharedRegistered, FrontierOf DEF Frontier
<1> HIDE DEF sel
<1>3. ASSUME NEW t \in Range(req) \cap FaithfulTables, ~HidesSelected(t, sel)
      PROVE  Executed(t, sel) \cap sel = {}
  BY <1>2, <1>3, OutputRunsNoSelected
<1>4. ASSUME NEW c \in sel \cap FaithfulTables PROVE BoundReads(c) \cap sel = {c}
  <2>1. c \in Tables /\ c \in Registered /\ tables[c].kind = "derived"
    BY <1>2 DEF FaithfulTables, PlanInv, BindingInv
  <2>2. \A d \in sel : d \in TransitiveDerived(c) => d = c
    BY <1>2, <2>1 DEF DeeperThan, Uses
  <2>3. BoundReads(c) \cap sel \subseteq {c} \cup TransitiveDerived(c)
    BY <1>2, RunsNoSelected
  <2> QED BY SMTT(30), <2>1, <2>2, <2>3, ReadSearch
<1> QED BY <1>3, <1>4 DEF sel

\* In every session the reports say "used" and "not_used" of a source exactly as the
\* plans of the outputs read it, where lineage is faithful, and a lost lineage never makes
\* a source "not_used" that an output reads.
THEOREM UsageIsExact == Spec => []UsageExact
BY PlanInvariant, UsageHolds, PTL

\* In every session the frontier that plan_mssql_output_cache selects is unambiguous and
\* covers every shared alias.
THEOREM FrontierCoversAll == Spec => []FrontierCovers
BY PlanInvariant, FrontierHolds, PTL

\* In every session an alias cached in the automatic mode runs once for an output unless
\* an unselected alias hides it.
THEOREM AutoCachesRunOnce == Spec => []AutoRunsOnceUnlessHidden
BY PlanInvariant, AutoHolds, PTL

\* In every session the explicit selections that pass the replay check run each selected
\* alias once, also while the caches themselves are built.
THEOREM ExplicitCachesRunOnce == Spec => []ExplicitRunsOnce
BY PlanInvariant, ExplicitHolds, PTL
=============================================================================
