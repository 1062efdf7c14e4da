-------------------------- MODULE MssqlSinkProofs ---------------------------
(***************************************************************************)
(* Proofs about the one-output sink, for any number of runs, tables,       *)
(* batches and auxiliary names.                                            *)
(***************************************************************************)
EXTENDS MssqlSink, TLAPS

\* Most steps need no arithmetic; a step that does names the SMT solver.
USE ZenonT(60)

(* Types. *)

\* Labels that only replace runs reach.
ReplaceLabels == {"probe_staging", "enable_lock", "disable_lock", "probe_backup",
                  "swap_begin", "swap_commit"}

\* The name a run prepared: a staging name of its target for replace, the target
\* itself otherwise; and which modes reach which label.
PreparedInv ==
  \A r \in Runs :
    /\ pc[r] \in Working =>
         IF Mode(r) = "replace"
           THEN \E a \in Attempts : prepared[r] = StagingName(Target(r), a)
           ELSE prepared[r] = Target(r)
    /\ pc[r] \in ReplaceLabels => Mode(r) = "replace"
    /\ pc[r] = "create" => Mode(r) # "append"

\* The names the sink puts together are names of the catalog.
LEMMA AuxNamesAreNames ==
  ASSUME NEW t \in Tables, NEW a \in Attempts
  PROVE  /\ StagingName(t, a) \in AuxNames
         /\ BackupName(t, a) \in AuxNames
         /\ StagingName(t, a) \in Names
         /\ BackupName(t, a) \in Names
BY NamesAssumption DEF StagingName, BackupName, AuxNames, Names, Kinds

\* Adding rows to a table or switching its lock gives a table.
LEMMA TableUpdates ==
  ASSUME NEW tbl \in Table, NEW r \in Runs, NEW k \in Nat, NEW b \in BOOLEAN
  PROVE  /\ [tbl EXCEPT !.count = @ + k, !.from[r] = @ + k] \in Table
         /\ [tbl EXCEPT !.bulkLock = b] \in Table
<1> DEFINE f == [tbl.from EXCEPT ![r] = @ + k]
<1>1. f \in [Runs -> Nat] /\ tbl.count + k \in Nat
  BY SMTT(30) DEF Table
<1>2. [tbl EXCEPT !.count = tbl.count + k, !.from = f] \in Table
  <2> HIDE DEF f
  <2> QED BY <1>1 DEF Table
<1>3. [tbl EXCEPT !.count = @ + k, !.from[r] = @ + k] \in Table
  BY <1>2 DEF Table
<1>4. [tbl EXCEPT !.bulkLock = b] \in Table
  BY DEF Table
<1> QED BY <1>3, <1>4

\* Every statement of the sink keeps the catalog a map from names to tables.
LEMMA StatementTypes ==
  ASSUME NEW c \in Catalog, NEW n \in Names, NEW r \in Runs
  PROVE  /\ CreateTable(c, n, r) \in Catalog
         /\ DropTable(c, n) \in Catalog
         /\ TableExists(c, n) => \A k \in Nat : InsertRows(c, n, r, k) \in Catalog
         /\ TableExists(c, n) =>
              \A b \in BOOLEAN : SetBulkLoadTableLock(c, n, b) \in Catalog
<1>1. NewTable(r) \in Table
  BY DEF NewTable, Table, NoRows
<1>2. CreateTable(c, n, r) \in Catalog /\ DropTable(c, n) \in Catalog
  BY <1>1 DEF CreateTable, DropTable, Catalog
<1>3. ASSUME TableExists(c, n), NEW k \in Nat, NEW b \in BOOLEAN
      PROVE  InsertRows(c, n, r, k) \in Catalog /\ SetBulkLoadTableLock(c, n, b) \in Catalog
  <2>1. c[n] \in Table
    BY <1>3 DEF TableExists, Catalog
  <2>2. /\ [c[n] EXCEPT !.count = @ + k, !.from[r] = @ + k] \in Table
        /\ [c[n] EXCEPT !.bulkLock = b] \in Table
    BY <2>1, <1>3, TableUpdates
  <2> QED BY <2>2 DEF InsertRows, SetBulkLoadTableLock, Catalog
<1> QED BY <1>2, <1>3

\* What the swap transaction commits, name by name: the final name gets the
\* staging table, the staging name is free, the backup name is free again.
LEMMA SwapEffect ==
  ASSUME NEW c \in Catalog, NEW final \in Names, NEW staging \in Names,
         NEW backup \in Names,
         final # staging, final # backup, staging # backup,
         SwapAllowed(c, staging, backup)
  PROVE  /\ SwapTables(c, final, staging, backup) \in Catalog
         /\ SwapTables(c, final, staging, backup)[final] = c[staging]
         /\ SwapTables(c, final, staging, backup)[staging] = NoTable
         /\ \A n \in Names \ {final, staging} :
              SwapTables(c, final, staging, backup)[n] = c[n]
<1>1. CASE TableExists(c, final)
  BY <1>1 DEF SwapTables, SwapAllowed, TableExists, DropTable, Rename, Catalog
<1>2. CASE ~TableExists(c, final)
  BY <1>2 DEF SwapTables, SwapAllowed, TableExists, DropTable, Rename, Catalog
<1> QED BY <1>1, <1>2

\* What adding rows does: nothing under another name, and the owner stays.
LEMMA InsertEffects ==
  ASSUME NEW c \in Catalog, NEW n \in Names, NEW r \in Runs, NEW k \in Nat,
         TableExists(c, n)
  PROVE  LET tbl == InsertRows(c, n, r, k)[n]
         IN /\ tbl # NoTable /\ tbl.owner = c[n].owner /\ tbl.count = c[n].count + k
            /\ tbl.from[r] = c[n].from[r] + k /\ tbl.bulkLock = c[n].bulkLock
<1>1. c[n] \in Table
  BY DEF TableExists, Catalog
<1>2. InsertRows(c, n, r, k)[n] = [c[n] EXCEPT !.count = @ + k, !.from[r] = @ + k]
  BY DEF InsertRows, Catalog
<1>3. [c[n] EXCEPT !.count = @ + k, !.from[r] = @ + k] \in Table
  BY <1>1, TableUpdates
<1> QED BY <1>1, <1>2, <1>3, ServerAssumption DEF Table

\* What adding rows does to the count of each run's rows.
LEMMA InsertedFrom ==
  ASSUME NEW c \in Catalog, NEW n \in Names, NEW r \in Runs, NEW k \in Nat,
         TableExists(c, n)
  PROVE  InsertRows(c, n, r, k)[n].from = [c[n].from EXCEPT ![r] = @ + k]
<1>1. c[n] \in Table
  BY DEF TableExists, Catalog
<1>2. InsertRows(c, n, r, k)[n] = [c[n] EXCEPT !.count = @ + k, !.from[r] = @ + k]
  BY DEF InsertRows, Catalog
<1> QED BY <1>1, <1>2 DEF Table

\* What switching the bulk-load lock does: rows and owner stay.
LEMMA LockEffects ==
  ASSUME NEW c \in Catalog, NEW n \in Names, NEW b \in BOOLEAN, TableExists(c, n)
  PROVE  LET tbl == SetBulkLoadTableLock(c, n, b)[n]
         IN /\ tbl # NoTable /\ tbl.owner = c[n].owner /\ tbl.count = c[n].count
            /\ tbl.from = c[n].from /\ tbl.bulkLock = b
<1>1. c[n] \in Table
  BY DEF TableExists, Catalog
<1>2. SetBulkLoadTableLock(c, n, b)[n] = [c[n] EXCEPT !.bulkLock = b]
  BY DEF SetBulkLoadTableLock, Catalog
<1>3. [c[n] EXCEPT !.bulkLock = b] \in Table
  BY <1>1 DEF Table
<1> QED BY <1>1, <1>2, <1>3, ServerAssumption DEF Table

TypeInv == TypeOK /\ PreparedInv

\* The initial state has its type.
LEMMA TypeInit == Init => TypeInv
<1> SUFFICES ASSUME Init PROVE TypeInv
  OBVIOUS
<1>1. plan \in [Runs -> OutputPlans]
  BY SinkAssumption DEF Init
<1>2. catalog \in Catalog
  <2>1. \A k \in InitialRows : ExistingTable(k) \in Table
    BY SinkAssumption DEF ExistingTable, Table, NoRows
  <2> QED BY <2>1 DEF Init, Catalog
<1>3. /\ swapLock \in [Tables -> Runs \cup {NoRun}]
      /\ pc \in [Runs -> Labels]
      /\ prepared \in [Runs -> Names \cup {NoName}]
  BY DEF Init, Labels
<1>4. job \in [Runs -> Jobs]
  BY SMTT(30), NamesAssumption, SinkAssumption DEF Init, Jobs, Attempts
<1>5. result \in [Runs -> Results]
  BY DEF Init, Results, Phases, CleanupStatuses, ValidationStatuses,
         CleanupBeforeTargetCreation
<1>6. PreparedInv
  BY DEF Init, PreparedInv, Working, ReplaceLabels
<1> QED BY <1>1, <1>2, <1>3, <1>4, <1>5, <1>6 DEF TypeInv, TypeOK

\* Facts about one run that its type gives.
LEMMA RunTypes ==
  ASSUME TypeInv, NEW r \in Runs
  PROVE  /\ plan[r] \in OutputPlans /\ job[r] \in Jobs /\ job[r].attempt \in Attempts
         /\ Target(r) \in Tables /\ Target(r) \in Names /\ Mode(r) \in LoadModes
         /\ CreatedName(r) \in Names
         /\ Mode(r) = "replace" => CreatedName(r) \in AuxNames
         /\ pc[r] \in Working => prepared[r] \in Names
         /\ (pc[r] \in Working /\ Mode(r) = "replace") => prepared[r] \in AuxNames
         /\ (pc[r] \in Working /\ Mode(r) # "replace") => prepared[r] = Target(r)
<1>1. /\ plan[r] \in OutputPlans /\ job[r] \in Jobs /\ job[r].attempt \in Attempts
      /\ Target(r) \in Tables /\ Target(r) \in Names /\ Mode(r) \in LoadModes
  BY DEF TypeInv, TypeOK, OutputPlans, Target, Mode, Names, Jobs
<1>2. /\ CreatedName(r) \in Names
      /\ Mode(r) = "replace" => CreatedName(r) \in AuxNames
  BY <1>1, AuxNamesAreNames DEF CreatedName
<1>3. (pc[r] \in Working /\ Mode(r) = "replace") => prepared[r] \in AuxNames
  BY <1>1, AuxNamesAreNames DEF TypeInv, PreparedInv
<1>4. (pc[r] \in Working /\ Mode(r) # "replace") => prepared[r] = Target(r)
  BY DEF TypeInv, PreparedInv
<1>5. pc[r] \in Working => prepared[r] \in Names
  BY <1>1, <1>3, <1>4 DEF Names
<1> QED BY <1>1, <1>2, <1>3, <1>4, <1>5

\* The swap a run is about to commit: its three names are distinct names, so the
\* transaction moves the staging table to the target and leaves the rest alone.
LEMMA SwapStep ==
  ASSUME TypeInv, NEW r \in Runs, pc[r] = "swap_commit", SwapChecks(r)
  PROVE  /\ Mode(r) = "replace" /\ prepared[r] \in AuxNames
         /\ TableExists(catalog, prepared[r])
         /\ SwappedCatalog(r) \in Catalog
         /\ SwappedCatalog(r)[Target(r)] = catalog[prepared[r]]
         /\ SwappedCatalog(r)[prepared[r]] = NoTable
         /\ \A n \in Names \ {Target(r), prepared[r]} : SwappedCatalog(r)[n] = catalog[n]
<1>1. Mode(r) = "replace" /\ pc[r] \in Working
  BY DEF TypeInv, PreparedInv, ReplaceLabels, Working
<1> DEFINE backup == BackupName(Target(r), job[r].attempt)
<1>2. /\ Target(r) \in Tables /\ Target(r) \in Names /\ prepared[r] \in AuxNames
      /\ prepared[r] \in Names /\ backup \in Names /\ backup \in AuxNames
  BY <1>1, RunTypes, AuxNamesAreNames
<1>3. Target(r) # prepared[r] /\ Target(r) # backup
  BY <1>2, NamesAssumption
<1>4. prepared[r] # backup
  <2>1. PICK a \in Attempts : prepared[r] = StagingName(Target(r), a)
    BY <1>1 DEF TypeInv, PreparedInv
  <2>2. prepared[r][2] = "replace" /\ backup[2] = "backup"
    BY SMTT(30), <2>1 DEF StagingName, BackupName
  <2> QED BY <2>2
<1>5. SwapAllowed(catalog, prepared[r], backup) /\ catalog \in Catalog
  BY DEF SwapChecks, TypeInv, TypeOK
<1>6. SwappedCatalog(r) = SwapTables(catalog, Target(r), prepared[r], backup)
  BY DEF SwappedCatalog
<1>7. TableExists(catalog, prepared[r])
  BY <1>5 DEF SwapAllowed
<1> HIDE DEF backup
<1> QED BY SMTT(30), <1>1, <1>2, <1>3, <1>4, <1>5, <1>6, <1>7, SwapEffect

\* No step of a run leaves the types.
LEMMA TypeStep == TypeInv /\ [Next]_vars => TypeInv'
<1> SUFFICES ASSUME TypeInv, [Next]_vars PROVE TypeInv'
  OBVIOUS
<1> USE DEF TypeInv, TypeOK
<1>0. CASE UNCHANGED vars
  BY <1>0 DEF vars, PreparedInv, Mode, Target
<1>1. CASE Terminated
  BY <1>1 DEF Terminated, vars, PreparedInv, Mode, Target
<1>2. ASSUME NEW r \in Runs, Step(r) PROVE TypeInv'
  <2>0. /\ plan[r] \in OutputPlans /\ job[r] \in Jobs /\ job[r].attempt \in Attempts
        /\ Target(r) \in Names /\ CreatedName(r) \in Names
        /\ pc[r] \in Working => prepared[r] \in Names
    BY RunTypes
  <2>1. CASE Connect(r)
    <3>2. pc' \in [Runs -> Labels]
      BY <2>1 DEF Connect, Query, Continue, Goto, Abort, Labels, Terminal
    <3>3. result' \in [Runs -> Results]
      BY SMTT(30), <2>1 DEF Connect, Query, Continue, Goto, Abort, Results, Phases
    <3>4. job' \in [Runs -> Jobs]
      BY <2>1 DEF Connect
    <3>5. catalog' \in Catalog
      BY <2>1 DEF Connect, Query
    <3>6. /\ plan' = plan /\ prepared' \in [Runs -> Names \cup {NoName}]
          /\ swapLock' \in [Tables -> Runs \cup {NoRun}]
      BY <2>1 DEF Connect
    <3>7. PreparedInv'
      BY <2>0, <2>1 DEF Connect, Query, Continue, Goto, Abort, PreparedInv, Working,
             ReplaceLabels, Mode, Target
    <3> QED BY <3>2, <3>3, <3>4, <3>5, <3>6, <3>7
  <2>2. CASE ProbeTargetAppend(r)
    <3>2. pc' \in [Runs -> Labels]
      BY <2>2 DEF ProbeTargetAppend, Continue, Goto, Abort, Labels, Terminal
    <3>3. result' \in [Runs -> Results]
      BY SMTT(30), <2>2 DEF ProbeTargetAppend, Continue, Goto, Abort, Results, Phases
    <3>4. job' \in [Runs -> Jobs]
      BY <2>2 DEF ProbeTargetAppend
    <3>5. catalog' \in Catalog
      BY <2>2 DEF ProbeTargetAppend
    <3>6. /\ plan' = plan /\ prepared' \in [Runs -> Names \cup {NoName}]
          /\ swapLock' \in [Tables -> Runs \cup {NoRun}]
      BY <2>0, <2>2 DEF ProbeTargetAppend
    <3>7. PreparedInv'
      BY SMTT(30), <2>0, <2>2 DEF ProbeTargetAppend, Continue, Goto, Abort, PreparedInv, Working,
             ReplaceLabels, Mode, Target
    <3> QED BY <3>2, <3>3, <3>4, <3>5, <3>6, <3>7
  <2>3. CASE ProbeTargetCreate(r)
    <3>2. pc' \in [Runs -> Labels]
      BY <2>3 DEF ProbeTargetCreate, Query, Continue, Goto, Abort, Labels, Terminal
    <3>3. result' \in [Runs -> Results]
      BY SMTT(30), <2>3 DEF ProbeTargetCreate, Query, Continue, Goto, Abort, Results, Phases
    <3>4. job' \in [Runs -> Jobs]
      BY <2>3 DEF ProbeTargetCreate
    <3>5. catalog' \in Catalog
      BY <2>3 DEF ProbeTargetCreate, Query
    <3>6. /\ plan' = plan /\ prepared' \in [Runs -> Names \cup {NoName}]
          /\ swapLock' \in [Tables -> Runs \cup {NoRun}]
      BY <2>3 DEF ProbeTargetCreate
    <3>7. PreparedInv'
      BY <2>0, <2>3 DEF ProbeTargetCreate, Query, Continue, Goto, Abort, PreparedInv,
             Working, ReplaceLabels, Mode, Target
    <3> QED BY <3>2, <3>3, <3>4, <3>5, <3>6, <3>7
  <2>4. CASE ProbeTargetReplace(r)
    <3>2. pc' \in [Runs -> Labels]
      BY <2>4 DEF ProbeTargetReplace, Query, Continue, Goto, Abort, Labels, Terminal
    <3>3. result' \in [Runs -> Results]
      BY SMTT(30), <2>4 DEF ProbeTargetReplace, Query, Continue, Goto, Abort, Results, Phases
    <3>4. job' \in [Runs -> Jobs]
      BY <2>4 DEF ProbeTargetReplace
    <3>5. catalog' \in Catalog
      BY <2>4 DEF ProbeTargetReplace, Query
    <3>6. /\ plan' = plan /\ prepared' \in [Runs -> Names \cup {NoName}]
          /\ swapLock' \in [Tables -> Runs \cup {NoRun}]
      BY <2>4 DEF ProbeTargetReplace
    <3>7. PreparedInv'
      BY <2>0, <2>4 DEF ProbeTargetReplace, Query, Continue, Goto, Abort, PreparedInv,
             Working, ReplaceLabels, Mode, Target
    <3> QED BY <3>2, <3>3, <3>4, <3>5, <3>6, <3>7
  <2>5. CASE ProbeStaging(r)
    <3>2. pc' \in [Runs -> Labels]
      BY <2>5 DEF ProbeStaging, Continue, Goto, Abort, Labels, Terminal
    <3>3. result' \in [Runs -> Results]
      BY SMTT(30), <2>5 DEF ProbeStaging, Continue, Goto, Abort, Results, Phases
    <3>4. job' \in [Runs -> Jobs]
      <4>1. job' = job \/ (job' = NextAttempt(r) /\ MoreAttempts(r))
        BY <2>5 DEF ProbeStaging
      <4>2. MoreAttempts(r) => NextAttempt(r) \in [Runs -> Jobs]
        BY SMTT(30), <2>0, NamesAssumption DEF NextAttempt, MoreAttempts, Jobs, Attempts
      <4> QED BY <4>1, <4>2
    <3>5. catalog' \in Catalog
      BY <2>5 DEF ProbeStaging
    <3>6. /\ plan' = plan /\ prepared' \in [Runs -> Names \cup {NoName}]
          /\ swapLock' \in [Tables -> Runs \cup {NoRun}]
      BY <2>5 DEF ProbeStaging
    <3>7. PreparedInv'
      BY <2>0, <2>5 DEF ProbeStaging, Continue, Goto, Abort, PreparedInv, Working,
             ReplaceLabels, Mode, Target
    <3> QED BY <3>2, <3>3, <3>4, <3>5, <3>6, <3>7
  <2>6. CASE CreateTarget(r)
    <3>2. pc' \in [Runs -> Labels]
      BY <2>6 DEF CreateTarget, Statement, Continue, Goto, Abort, Labels, Terminal
    <3>3. result' \in [Runs -> Results]
      BY SMTT(30), <2>6 DEF CreateTarget, Statement, Continue, Goto, Abort, Results, Phases
    <3>4. job' \in [Runs -> Jobs]
      BY <2>6 DEF CreateTarget
    <3>5. catalog' \in Catalog
      BY <2>0, <2>6, StatementTypes DEF CreateTarget, Statement
    <3>6. /\ plan' = plan /\ prepared' \in [Runs -> Names \cup {NoName}]
          /\ swapLock' \in [Tables -> Runs \cup {NoRun}]
      BY <2>0, <2>6 DEF CreateTarget, Statement
    <3>7. PreparedInv'
      <4>1. CASE pc' = [pc EXCEPT ![r] = "failed"] /\ prepared' = prepared
        BY <2>6, <4>1 DEF CreateTarget, PreparedInv, Working, ReplaceLabels, Mode,
               Target
      <4>2. CASE /\ pc' = [pc EXCEPT ![r] = IF Mode(r) = "replace" THEN "enable_lock"
                                                             ELSE "count_before"]
                 /\ prepared' = [prepared EXCEPT ![r] = CreatedName(r)]
        BY <2>0, <2>6, <4>2
           DEF CreateTarget, CreatedName, PreparedInv, Working, ReplaceLabels, Mode,
                  Target
      <4> QED BY <2>6, <4>1, <4>2 DEF CreateTarget, Statement, Continue, Goto, Abort
    <3> QED BY <3>2, <3>3, <3>4, <3>5, <3>6, <3>7
  <2>7. CASE EnableBulkLoadTableLock(r)
    <3>0. prepared[r] \in Names
      BY <2>0, <2>7 DEF EnableBulkLoadTableLock, Working
    <3>2. pc' \in [Runs -> Labels]
      BY <2>7 DEF EnableBulkLoadTableLock, Statement, Continue, Goto, FailPrepared,
             Labels, Terminal
    <3>3. result' \in [Runs -> Results]
      <4>1. \/ result' = result
            \/ FailPrepared(r, "prepare_target_lifecycle", FALSE)
        BY <2>7 DEF EnableBulkLoadTableLock, Statement, Continue
      <4> QED BY SMTT(30), <4>1 DEF FailPrepared, Results, Phases
    <3>4. job' \in [Runs -> Jobs]
      <4>1. job' = job \/ job' = [job EXCEPT ![r].lockOn = TRUE]
        BY <2>7 DEF EnableBulkLoadTableLock, Statement
      <4>2. [job EXCEPT ![r].lockOn = TRUE] \in [Runs -> Jobs]
        BY <2>0 DEF Jobs
      <4> QED BY <4>1, <4>2
    <3>5. catalog' \in Catalog
      BY <2>7, <3>0, StatementTypes DEF EnableBulkLoadTableLock, Statement
    <3>6. /\ plan' = plan /\ prepared' \in [Runs -> Names \cup {NoName}]
          /\ swapLock' \in [Tables -> Runs \cup {NoRun}]
      BY <2>7 DEF EnableBulkLoadTableLock
    <3>7. PreparedInv'
      BY <2>0, <2>7, <3>0 DEF EnableBulkLoadTableLock, Statement, Continue, Goto,
             FailPrepared, PreparedInv, Working, ReplaceLabels, Mode, Target
    <3> QED BY <3>2, <3>3, <3>4, <3>5, <3>6, <3>7
  <2>8. CASE CountBeforeAppend(r)
    <3>0. prepared[r] \in Names
      BY <2>0, <2>8 DEF CountBeforeAppend, Working
    <3>2. pc' \in [Runs -> Labels]
      BY <2>8 DEF CountBeforeAppend, Continue, Goto, Labels, Terminal
    <3>3. result' \in [Runs -> Results]
      BY SMTT(30), <2>8 DEF CountBeforeAppend, Continue, Goto, Results, Phases, ValidationStatuses
    <3>4. job' \in [Runs -> Jobs]
      <4>1. TableExists(catalog, prepared[r]) => catalog[prepared[r]].count \in Nat
        BY <3>0 DEF TableExists, Catalog, Table
      <4> QED BY SMTT(30), <2>8, <4>1 DEF CountBeforeAppend, Jobs
    <3>5. catalog' \in Catalog
      BY <2>8 DEF CountBeforeAppend
    <3>6. /\ plan' = plan /\ prepared' \in [Runs -> Names \cup {NoName}]
          /\ swapLock' \in [Tables -> Runs \cup {NoRun}]
      BY <2>8 DEF CountBeforeAppend
    <3>7. PreparedInv'
      BY <2>0, <2>8, <3>0 DEF CountBeforeAppend, Continue, Goto, PreparedInv, Working,
             ReplaceLabels, Mode, Target
    <3> QED BY <3>2, <3>3, <3>4, <3>5, <3>6, <3>7
  <2>9. CASE InitializeWriter(r)
    <3>2. pc' \in [Runs -> Labels]
      BY <2>9 DEF InitializeWriter, Query, Continue, Goto, FailPrepared, Labels,
             Terminal
    <3>3. result' \in [Runs -> Results]
      BY SMTT(30), <2>9 DEF InitializeWriter, Query, Continue, Goto, FailPrepared, Results, Phases
    <3>4. job' \in [Runs -> Jobs]
      BY <2>9 DEF InitializeWriter
    <3>5. catalog' \in Catalog
      BY <2>9 DEF InitializeWriter, Query
    <3>6. /\ plan' = plan /\ prepared' \in [Runs -> Names \cup {NoName}]
          /\ swapLock' \in [Tables -> Runs \cup {NoRun}]
      BY <2>9 DEF InitializeWriter
    <3>7. PreparedInv'
      BY <2>0, <2>9 DEF InitializeWriter, Query, Continue, Goto, FailPrepared,
             PreparedInv, Working, ReplaceLabels, Mode, Target
    <3> QED BY <3>2, <3>3, <3>4, <3>5, <3>6, <3>7
  <2>10. ASSUME NEW k \in BatchSizes, NEW j \in StoredRows(k), WriteBatch(r, k, j)
         PROVE  TypeInv'
    <3>0. prepared[r] \in Names
      BY <2>0, <2>10 DEF WriteBatch, Working
    <3>1. k \in Nat /\ j \in Nat /\ MaxBatches \in Nat
      BY SMTT(30), SinkAssumption DEF StoredRows
    <3>2. pc' \in [Runs -> Labels]
      BY <2>10 DEF WriteBatch, Statement, Goto, FailPrepared, Labels, Terminal
    <3>3. result' \in [Runs -> Results]
      <4>1. PartialWritePossible(r) \in BOOLEAN
        BY DEF PartialWritePossible
      <4> QED BY SMTT(30), <2>10, <4>1 DEF WriteBatch, Statement, Goto, FailPrepared, Results,
             Phases
    <3>4. job' \in [Runs -> Jobs]
      <4>1. \/ job' = [job EXCEPT ![r].inRows = @ + k, ![r].rows = @ + k, ![r].batches =
             @ + 1]
            \/ job' = [job EXCEPT ![r].inRows = @ + k]
        BY <2>10 DEF WriteBatch, Statement
      <4>2. job[r].batches < MaxBatches /\ job[r].batches \in 0 .. MaxBatches
        BY <2>0, <2>10 DEF WriteBatch, Jobs
      <4>3. job[r].batches + 1 \in 0 .. MaxBatches
        BY SMTT(30), <3>1, <4>2
      <4> QED BY SMTT(30), <2>0, <3>1, <4>1, <4>3 DEF Jobs
    <3>5. catalog' \in Catalog
      BY SMTT(30), <2>10, <3>0, <3>1, StatementTypes DEF WriteBatch, Statement
    <3>6. /\ plan' = plan /\ prepared' \in [Runs -> Names \cup {NoName}]
          /\ swapLock' \in [Tables -> Runs \cup {NoRun}]
      BY <2>10 DEF WriteBatch
    <3>7. PreparedInv'
      BY <2>0, <2>10, <3>0 DEF WriteBatch, Statement, Goto, FailPrepared, PreparedInv,
             Working, ReplaceLabels, Mode, Target
    <3> QED BY <3>2, <3>3, <3>4, <3>5, <3>6, <3>7
  <2>11. ASSUME NEW k \in BatchSizes, RejectBatchSchema(r, k)
         PROVE  TypeInv'
    <3>2. pc' \in [Runs -> Labels]
      BY <2>11 DEF RejectBatchSchema, Goto, FailPrepared, Labels, Terminal
    <3>3. result' \in [Runs -> Results]
      <4>1. PartialWritePossible(r) \in BOOLEAN
        BY DEF PartialWritePossible
      <4> QED BY <2>11, <4>1 DEF RejectBatchSchema, Goto, FailPrepared, Results, Phases
    <3>4. job' \in [Runs -> Jobs]
      BY SMTT(30), <2>11, SinkAssumption DEF RejectBatchSchema, Jobs
    <3>5. catalog' \in Catalog
      BY <2>11 DEF RejectBatchSchema
    <3>6. /\ plan' = plan /\ prepared' \in [Runs -> Names \cup {NoName}]
          /\ swapLock' \in [Tables -> Runs \cup {NoRun}]
      BY <2>11 DEF RejectBatchSchema
    <3>7. PreparedInv'
      BY <2>0, <2>11 DEF RejectBatchSchema, Goto, FailPrepared, PreparedInv, Working,
             ReplaceLabels, Mode, Target
    <3> QED BY <3>2, <3>3, <3>4, <3>5, <3>6, <3>7
  <2>12. CASE PollError(r)
    <3>2. pc' \in [Runs -> Labels]
      BY <2>12 DEF PollError, Goto, FailPrepared, Labels, Terminal
    <3>3. result' \in [Runs -> Results]
      <4>1. PartialWritePossible(r) \in BOOLEAN
        BY DEF PartialWritePossible
      <4> QED BY <2>12, <4>1 DEF PollError, Goto, FailPrepared, Results, Phases
    <3>4. job' \in [Runs -> Jobs]
      BY <2>12 DEF PollError
    <3>5. catalog' \in Catalog
      BY <2>12 DEF PollError
    <3>6. /\ plan' = plan /\ prepared' \in [Runs -> Names \cup {NoName}]
          /\ swapLock' \in [Tables -> Runs \cup {NoRun}]
      BY <2>12 DEF PollError
    <3>7. PreparedInv'
      BY <2>0, <2>12 DEF PollError, Goto, FailPrepared, PreparedInv, Working,
             ReplaceLabels, Mode, Target
    <3> QED BY <3>2, <3>3, <3>4, <3>5, <3>6, <3>7
  <2>13. CASE FinishWriter(r)
    <3>2. pc' \in [Runs -> Labels]
      BY <2>13 DEF FinishWriter, Query, Continue, Goto, FailPrepared, Labels, Terminal
    <3>3. result' \in [Runs -> Results]
      <4>1. PartialWritePossible(r) \in BOOLEAN
        BY DEF PartialWritePossible
      <4> QED BY SMTT(30), <2>13, <4>1 DEF FinishWriter, Query, Continue, Goto, FailPrepared,
             Results, Phases
    <3>4. job' \in [Runs -> Jobs]
      BY <2>13 DEF FinishWriter, Jobs
    <3>5. catalog' \in Catalog
      BY <2>13 DEF FinishWriter, Query
    <3>6. /\ plan' = plan /\ prepared' \in [Runs -> Names \cup {NoName}]
          /\ swapLock' \in [Tables -> Runs \cup {NoRun}]
      BY <2>13 DEF FinishWriter
    <3>7. PreparedInv'
      BY <2>0, <2>13 DEF FinishWriter, Query, Continue, Goto, FailPrepared, PreparedInv,
             Working, ReplaceLabels, Mode, Target
    <3> QED BY <3>2, <3>3, <3>4, <3>5, <3>6, <3>7
  <2>14. CASE ValidateWrittenTarget(r)
    <3>2. pc' \in [Runs -> Labels]
      BY <2>14 DEF ValidateWrittenTarget, Validated, ValidationError, CountUnavailable,
             Goto, Labels, Terminal
    <3>3. result' \in [Runs -> Results]
      <4>1. \E status \in ValidationStatuses :
              Validated(r, status) \/ ValidationError(r, status)
        BY <2>14 DEF ValidateWrittenTarget, CountUnavailable, ValidationStatuses
      <4>2. PICK status \in ValidationStatuses :
              \/ result' = [result EXCEPT ![r].validation = status]
              \/ result' = [result EXCEPT ![r].phase = "validation",
                                          ![r].validation = status]
        BY <4>1 DEF Validated, ValidationError
      <4>3. [result EXCEPT ![r].validation = status] \in [Runs -> Results]
        BY DEF Results
      <4>4. [result EXCEPT ![r].phase = "validation", ![r].validation = status]
              \in [Runs -> Results]
        BY DEF Results, Phases
      <4> QED BY <4>2, <4>3, <4>4
    <3>4. job' \in [Runs -> Jobs]
      <4>1. job' = job \/ job' = [job EXCEPT ![r].attempt = 0]
        BY <2>14 DEF ValidateWrittenTarget, Validated, ValidationError, CountUnavailable
      <4>2. 0 \in Attempts
        BY SMTT(30), NamesAssumption DEF Attempts
      <4> QED BY SMTT(30), <4>1, <4>2 DEF Jobs
    <3>5. catalog' \in Catalog
      BY <2>14 DEF ValidateWrittenTarget
    <3>6. /\ plan' = plan /\ prepared' \in [Runs -> Names \cup {NoName}]
          /\ swapLock' \in [Tables -> Runs \cup {NoRun}]
      BY <2>14 DEF ValidateWrittenTarget
    <3>7. PreparedInv'
      BY <2>0, <2>14 DEF ValidateWrittenTarget, Validated, ValidationError,
             CountUnavailable, Goto, PreparedInv, Working, ReplaceLabels, Mode, Target
    <3> QED BY <3>2, <3>3, <3>4, <3>5, <3>6, <3>7
  <2>15. CASE DisableBulkLoadTableLock(r)
    <3>0. prepared[r] \in Names
      BY <2>0, <2>15 DEF DisableBulkLoadTableLock, Working
    <3>2. pc' \in [Runs -> Labels]
      BY <2>15 DEF DisableBulkLoadTableLock, Statement, Continue, Goto, FailPrepared,
             Labels, Terminal
    <3>3. result' \in [Runs -> Results]
      BY SMTT(30), <2>15 DEF DisableBulkLoadTableLock, Statement, Continue, Goto, FailPrepared,
             Results, Phases
    <3>4. job' \in [Runs -> Jobs]
      BY <2>15 DEF DisableBulkLoadTableLock
    <3>5. catalog' \in Catalog
      BY <2>15, <3>0, StatementTypes DEF DisableBulkLoadTableLock, Statement
    <3>6. /\ plan' = plan /\ prepared' \in [Runs -> Names \cup {NoName}]
          /\ swapLock' \in [Tables -> Runs \cup {NoRun}]
      BY <2>15 DEF DisableBulkLoadTableLock
    <3>7. PreparedInv'
      BY <2>0, <2>15, <3>0 DEF DisableBulkLoadTableLock, Statement, Continue, Goto,
             FailPrepared, PreparedInv, Working, ReplaceLabels, Mode, Target
    <3> QED BY <3>2, <3>3, <3>4, <3>5, <3>6, <3>7
  <2>16. CASE ProbeBackup(r)
    <3>2. pc' \in [Runs -> Labels]
      BY <2>16 DEF ProbeBackup, Continue, Goto, FailPrepared, Labels, Terminal
    <3>3. result' \in [Runs -> Results]
      BY SMTT(30), <2>16 DEF ProbeBackup, Continue, Goto, FailPrepared, Results, Phases
    <3>4. job' \in [Runs -> Jobs]
      <4>1. job' = job \/ (job' = NextAttempt(r) /\ MoreAttempts(r))
        BY <2>16 DEF ProbeBackup
      <4>2. MoreAttempts(r) => NextAttempt(r) \in [Runs -> Jobs]
        BY SMTT(30), <2>0, NamesAssumption DEF NextAttempt, MoreAttempts, Jobs, Attempts
      <4> QED BY <4>1, <4>2
    <3>5. catalog' \in Catalog
      BY <2>16 DEF ProbeBackup
    <3>6. /\ plan' = plan /\ prepared' \in [Runs -> Names \cup {NoName}]
          /\ swapLock' \in [Tables -> Runs \cup {NoRun}]
      BY <2>16 DEF ProbeBackup
    <3>7. PreparedInv'
      BY <2>0, <2>16 DEF ProbeBackup, Continue, Goto, FailPrepared, PreparedInv,
             Working, ReplaceLabels, Mode, Target
    <3> QED BY <3>2, <3>3, <3>4, <3>5, <3>6, <3>7
  <2>17. CASE BeginSwap(r)
    <3>2. pc' \in [Runs -> Labels]
      BY <2>17 DEF BeginSwap, Continue, Goto, FailPrepared, Labels, Terminal
    <3>3. result' \in [Runs -> Results]
      BY SMTT(30), <2>17 DEF BeginSwap, Continue, Goto, FailPrepared, Results, Phases
    <3>4. job' \in [Runs -> Jobs]
      BY <2>17 DEF BeginSwap
    <3>5. catalog' \in Catalog
      BY <2>17 DEF BeginSwap
    <3>6. /\ plan' = plan /\ prepared' \in [Runs -> Names \cup {NoName}]
          /\ swapLock' \in [Tables -> Runs \cup {NoRun}]
      BY <2>17 DEF BeginSwap
    <3>7. PreparedInv'
      BY <2>0, <2>17 DEF BeginSwap, Continue, Goto, FailPrepared, PreparedInv, Working,
             ReplaceLabels, Mode, Target
    <3> QED BY <3>2, <3>3, <3>4, <3>5, <3>6, <3>7
  <2>18. CASE CommitSwap(r)
    <3>2. pc' \in [Runs -> Labels]
      BY <2>18 DEF CommitSwap, Statement, Continue, Goto, FailPrepared, Labels, Terminal
    <3>3. result' \in [Runs -> Results]
      BY SMTT(30), <2>18 DEF CommitSwap, Statement, Continue, Goto, FailPrepared, Results, Phases
    <3>4. job' \in [Runs -> Jobs]
      BY <2>18 DEF CommitSwap
    <3>5. catalog' \in Catalog
      BY <2>18, SwapStep DEF CommitSwap, Statement
    <3>6. /\ plan' = plan /\ prepared' \in [Runs -> Names \cup {NoName}]
          /\ swapLock' \in [Tables -> Runs \cup {NoRun}]
      BY <2>18 DEF CommitSwap, ReleaseSwapLock
    <3>7. PreparedInv'
      BY <2>0, <2>18 DEF CommitSwap, Statement, Continue, Goto, FailPrepared,
             PreparedInv, Working, ReplaceLabels, Mode, Target
    <3> QED BY <3>2, <3>3, <3>4, <3>5, <3>6, <3>7
  <2>19. CASE CleanupPreparedTarget(r)
    <3>0. prepared[r] \in Names
      BY <2>0, <2>19 DEF CleanupPreparedTarget, Working
    <3>2. pc' \in [Runs -> Labels]
      BY <2>19 DEF CleanupPreparedTarget, Statement, SetCleanup, Goto, Labels, Terminal
    <3>3. result' \in [Runs -> Results]
      <4>1. \E status \in CleanupStatuses : SetCleanup(r, status)
        BY <2>19 DEF CleanupPreparedTarget, Statement, CleanupStatuses
      <4> QED BY <4>1 DEF SetCleanup, Results
    <3>4. job' \in [Runs -> Jobs]
      BY <2>19 DEF CleanupPreparedTarget
    <3>5. catalog' \in Catalog
      BY <2>19, <3>0, StatementTypes DEF CleanupPreparedTarget, Statement, DroppedName
    <3>6. /\ plan' = plan /\ prepared' \in [Runs -> Names \cup {NoName}]
          /\ swapLock' \in [Tables -> Runs \cup {NoRun}]
      BY <2>19 DEF CleanupPreparedTarget
    <3>7. PreparedInv'
      BY <2>0, <2>19, <3>0 DEF CleanupPreparedTarget, Statement, SetCleanup, Goto,
             PreparedInv, Working, ReplaceLabels, Mode, Target
    <3> QED BY <3>2, <3>3, <3>4, <3>5, <3>6, <3>7
  <2> QED BY <1>2, <2>1, <2>2, <2>3, <2>4, <2>5, <2>6, <2>7, <2>8, <2>9, <2>10, <2>11, <2>12, <2>13, <2>14, <2>15, <2>16, <2>17, <2>18, <2>19 DEF Step
<1>3. ASSUME NEW r \in Runs, Crash(r) PROVE TypeInv'
  <2>1. catalog' \in Catalog
    BY <1>3, SwapStep DEF Crash
  <2>2. /\ plan' = plan /\ prepared' = prepared /\ job' = job /\ result' = result
        /\ swapLock' \in [Tables -> Runs \cup {NoRun}]
        /\ pc' \in [Runs -> Labels]
    BY <1>3 DEF Crash, Continue, Goto, ReleaseSwapLock, Labels, Terminal
  <2>3. PreparedInv'
    BY <1>3 DEF Crash, Continue, Goto, PreparedInv, Working, ReplaceLabels, Mode, Target
  <2> QED BY <2>1, <2>2, <2>3
<1> QED BY <1>0, <1>1, <1>2, <1>3 DEF Next

\* Type correctness: in every behaviour the labels, phases, statuses, counters and
\* tables are those of the code, and a run's prepared name is the target or one of
\* its staging names.
THEOREM TypeCorrect == Spec => []TypeOK
<1>1. Init => TypeInv
  BY TypeInit
<1>2. TypeInv /\ [Next]_vars => TypeInv'
  BY TypeStep
<1>3. TypeInv => TypeOK
  BY DEF TypeInv
<1> QED BY <1>1, <1>2, <1>3, PTL DEF Spec
-----------------------------------------------------------------------------
(* The private staging table. *)

\* A step of one run leaves the plan and the local state of every other run alone,
\* and a run that has returned or crashed takes no step.
LEMMA RunFrame ==
  ASSUME TypeInv, NEW r \in Runs, Step(r) \/ Crash(r)
  PROVE  /\ plan' = plan /\ pc[r] \notin Terminal
         /\ \A q \in Runs \ {r} : /\ pc'[q] = pc[q] /\ prepared'[q] = prepared[q]
                                  /\ job'[q] = job[q] /\ result'[q] = result[q]
<1> USE DEF TypeInv, TypeOK, Terminal, Continue, Goto, Abort, FailPrepared, Statement, Query
<1>1. CASE \/ Connect(r) \/ ProbeTargetAppend(r) \/ ProbeTargetCreate(r)
           \/ ProbeTargetReplace(r)
  BY <1>1 DEF Connect, ProbeTargetAppend, ProbeTargetCreate, ProbeTargetReplace
<1>2. CASE ProbeStaging(r)
  BY <1>2 DEF ProbeStaging, NextAttempt
<1>3. CASE CreateTarget(r)
  BY <1>3 DEF CreateTarget
<1>4. CASE EnableBulkLoadTableLock(r)
  BY <1>4 DEF EnableBulkLoadTableLock
<1>5. CASE CountBeforeAppend(r)
  BY <1>5 DEF CountBeforeAppend
<1>6. CASE InitializeWriter(r)
  BY <1>6 DEF InitializeWriter
<1>7. CASE \E k \in BatchSizes : \E j \in StoredRows(k) : WriteBatch(r, k, j)
  BY <1>7 DEF WriteBatch
<1>8. CASE \E k \in BatchSizes : RejectBatchSchema(r, k)
  BY <1>8 DEF RejectBatchSchema
<1>9. CASE PollError(r) \/ FinishWriter(r)
  BY <1>9 DEF PollError, FinishWriter
<1>10. CASE ValidateWrittenTarget(r)
  BY <1>10 DEF ValidateWrittenTarget, Validated, ValidationError, CountUnavailable
<1>11. CASE DisableBulkLoadTableLock(r)
  BY <1>11 DEF DisableBulkLoadTableLock
<1>12. CASE ProbeBackup(r)
  BY <1>12 DEF ProbeBackup, NextAttempt
<1>13. CASE BeginSwap(r)
  BY <1>13 DEF BeginSwap
<1>14. CASE CommitSwap(r)
  BY <1>14 DEF CommitSwap
<1>15. CASE CleanupPreparedTarget(r)
  BY <1>15 DEF CleanupPreparedTarget, SetCleanup
<1>16. CASE Crash(r)
  BY <1>16 DEF Crash
<1> QED BY <1>1, <1>2, <1>3, <1>4, <1>5, <1>6, <1>7, <1>8, <1>9, <1>10, <1>11, <1>12,
           <1>13, <1>14, <1>15, <1>16 DEF Step

\* The statements a run can send, and from where: these are all the ways the
\* catalog changes.
CreateStep(r) ==
  /\ pc[r] = "create" /\ ~TableExists(catalog, CreatedName(r))
  /\ catalog' = CreateTable(catalog, CreatedName(r), r)

InsertStep(r) ==
  /\ pc[r] = "write" /\ TableExists(catalog, prepared[r])
  /\ \E j \in Nat : catalog' = InsertRows(catalog, prepared[r], r, j)

LockStep(r) ==
  /\ pc[r] \in {"enable_lock", "disable_lock"} /\ TableExists(catalog, prepared[r])
  /\ \E b \in BOOLEAN : catalog' = SetBulkLoadTableLock(catalog, prepared[r], b)

DropStep(r) ==
  /\ pc[r] = "cleanup" /\ pc'[r] = "failed" /\ Mode(r) # "append"
  /\ catalog' = DropTable(catalog, prepared[r])

LostSwap(r) == pc'[r] = "cleanup" /\ result'[r].partial /\ SwapInDoubt'

SwapStepOf(r) ==
  /\ pc[r] = "swap_commit"
  /\ \/ pc'[r] = "succeeded"
     \/ pc'[r] = "crashed" /\ result' = result
     \/ LostSwap(r)
  /\ SwapChecks(r) /\ catalog' = SwappedCatalog(r) /\ job' = job

\* A run whose swap was committed without it knowing reports that it does not know.
LEMMA LostSwapFlagged ==
  ASSUME TypeInv, NEW r \in Runs, CommitSwap(r), pc'[r] # "succeeded", catalog' # catalog
  PROVE  LostSwap(r)
<1>1. /\ "lost" \in SwapOutcomes /\ plan' = plan /\ pc' = [pc EXCEPT ![r] = "cleanup"]
      /\ result' = [result EXCEPT ![r].phase = "swap_target", ![r].partial = TRUE]
  BY SinkAssumption DEF CommitSwap, Statement, Continue, Goto, FailPrepared, TypeInv, TypeOK
<1>2. result'[r].partial /\ pc'[r] = "cleanup"
  BY <1>1 DEF TypeInv, TypeOK, Results
<1>3. Mode(r) = "replace"
  BY DEF CommitSwap, TypeInv, PreparedInv, ReplaceLabels
<1> QED BY <1>1, <1>2, <1>3 DEF LostSwap, SwapInDoubt, Mode

\* A step of one run changes the catalog at most under the name of that run's
\* prepared table, or by committing that run's swap.
LEMMA CatalogStep ==
  ASSUME TypeInv, NEW r \in Runs, Step(r) \/ Crash(r)
  PROVE  \/ catalog' = catalog
         \/ CreateStep(r) \/ InsertStep(r) \/ LockStep(r) \/ DropStep(r) \/ SwapStepOf(r)
<1>1. CASE CreateTarget(r)
  BY <1>1 DEF CreateTarget, Statement, CreateAllowed, CreateStep
<1>2. CASE EnableBulkLoadTableLock(r)
  BY <1>2 DEF EnableBulkLoadTableLock, Statement, LockStep
<1>3. ASSUME NEW k \in BatchSizes, NEW j \in StoredRows(k), WriteBatch(r, k, j)
      PROVE  catalog' = catalog \/ InsertStep(r)
  <2>1. j \in Nat
    BY SMTT(30), SinkAssumption DEF StoredRows
  <2> QED BY <1>3, <2>1 DEF WriteBatch, Statement, InsertStep
<1>4. CASE DisableBulkLoadTableLock(r)
  BY <1>4 DEF DisableBulkLoadTableLock, Statement, LockStep
<1>5. CASE CommitSwap(r)
  <2>1. pc'[r] = "succeeded" \/ catalog' = catalog \/ LostSwap(r)
    BY <1>5, LostSwapFlagged
  <2> QED BY <1>5, <2>1 DEF CommitSwap, Statement, SwapStepOf
<1>6. CASE CleanupPreparedTarget(r)
  BY <1>6 DEF CleanupPreparedTarget, Statement, DropStep, SetCleanup, Goto, DroppedName,
              TypeInv, TypeOK
<1>7. CASE Crash(r)
  BY <1>7 DEF Crash, SwapStepOf, Continue, Goto, TypeInv, TypeOK
<1>8. CASE \/ Connect(r) \/ ProbeTargetAppend(r) \/ ProbeTargetCreate(r)
           \/ ProbeTargetReplace(r) \/ ProbeStaging(r) \/ CountBeforeAppend(r)
           \/ InitializeWriter(r) \/ PollError(r) \/ FinishWriter(r)
           \/ ValidateWrittenTarget(r) \/ ProbeBackup(r) \/ BeginSwap(r)
           \/ \E k \in BatchSizes : RejectBatchSchema(r, k)
  BY <1>8 DEF Connect, ProbeTargetAppend, ProbeTargetCreate, ProbeTargetReplace,
              ProbeStaging, CountBeforeAppend, InitializeWriter, PollError, FinishWriter,
              ValidateWrittenTarget, ProbeBackup, BeginSwap, RejectBatchSchema, Query
<1> QED BY <1>1, <1>2, <1>3, <1>4, <1>5, <1>6, <1>7, <1>8 DEF Step

\* Labels of a run that has validated its staging table and not yet published it.
Publishing == {"disable_lock", "probe_backup", "swap_begin", "swap_commit"}

\* The staging table of a working replace run: it is there, it is the run's own, and
\* all rows in it are the run's.  After validation it holds the whole stream; its
\* bulk-load lock is on only while the run remembers to switch it off.
StagingInv(r) ==
  /\ CreatedBy(r, prepared[r])
  /\ catalog[prepared[r]].count = catalog[prepared[r]].from[r]
  /\ pc[r] \in Publishing \cup {"validate"} => job[r].eof
  /\ pc[r] \in Publishing => catalog[prepared[r]].count = job[r].inRows
  /\ pc[r] \in {"count_before", "init_writer", "write", "validate"} =>
       (catalog[prepared[r]].bulkLock => job[r].lockOn)
  /\ pc[r] \in {"enable_lock", "probe_backup", "swap_begin", "swap_commit"} =>
       ~catalog[prepared[r]].bulkLock

LoadedInv ==
  \A r \in Runs : (Mode(r) = "replace" /\ pc[r] \in Working) => StagingInv(r)

\* A run whose table has a final name has published it: it swapped and returned, or
\* crashed while the swap committed.
PublishedInv ==
  \A r \in Runs : \A t \in Tables :
    (Mode(r) = "replace" /\ CreatedBy(r, t)) => pc[r] \in {"succeeded", "crashed"}

\* Only a run that failed or crashed has set partial_write_possible.
FlagInv ==
  \A r \in Runs : pc[r] \notin {"cleanup", "failed", "crashed"} => ~result[r].partial

\* Once a swap is in doubt, the cleanup of its run may drop the staging table of
\* another, which is why most of the invariant ends there.
SinkInv ==
  /\ TypeInv /\ FlagInv
  /\ ~SwapInDoubt => LoadedInv /\ PublishedInv /\ ReplaceAtomic

\* Two working replace runs never share a staging name.
LEMMA StagingNamesDiffer ==
  ASSUME LoadedInv, NEW q \in Runs, NEW r \in Runs, q # r,
         Mode(q) = "replace", pc[q] \in Working, Mode(r) = "replace", pc[r] \in Working
  PROVE  prepared[q] # prepared[r]
BY SMTT(30) DEF LoadedInv, StagingInv, CreatedBy

\* A step of run r leaves the staging table of every other working replace run as
\* it is: what r creates was free, what r fills or drops it owns, and what r swaps
\* is its own staging table and a target.
LEMMA OthersUntouched ==
  ASSUME TypeInv, LoadedInv, NEW r \in Runs, Step(r) \/ Crash(r),
         NEW q \in Runs, q # r, Mode(q) = "replace", pc[q] \in Working
  PROVE  catalog'[prepared[q]] = catalog[prepared[q]]
<1>1. /\ prepared[q] \in AuxNames /\ prepared[q] \in Names /\ prepared[q] \notin Tables
      /\ TableExists(catalog, prepared[q])
  BY RunTypes, NamesAssumption DEF LoadedInv, StagingInv, CreatedBy
<1>2. Target(r) \in Tables /\ Target(r) # prepared[q] /\ catalog \in Catalog
  BY <1>1, RunTypes DEF TypeInv, TypeOK
<1>3. pc[r] \in Working => prepared[r] # prepared[q] /\ prepared[r] \in Names
  BY <1>2, RunTypes, StagingNamesDiffer
<1>4. CASE catalog' = catalog
  BY <1>4
<1>5. CASE CreateStep(r)
  <2>1. CreatedName(r) # prepared[q] /\ CreatedName(r) \in Names
    BY <1>1, <1>5, RunTypes DEF CreateStep
  <2> QED BY <1>1, <1>2, <1>5, <2>1 DEF CreateStep, CreateTable, Catalog
<1>6. CASE InsertStep(r)
  BY <1>1, <1>2, <1>3, <1>6 DEF InsertStep, InsertRows, Catalog, Working
<1>7. CASE LockStep(r)
  BY <1>1, <1>2, <1>3, <1>7 DEF LockStep, SetBulkLoadTableLock, Catalog, Working
<1>8. CASE DropStep(r)
  BY <1>1, <1>2, <1>3, <1>8 DEF DropStep, DropTable, Catalog, Working
<1>9. CASE SwapStepOf(r)
  <2>1. \A n \in Names \ {Target(r), prepared[r]} : SwappedCatalog(r)[n] = catalog[n]
    BY <1>9, SwapStep DEF SwapStepOf
  <2> QED BY <1>1, <1>2, <1>3, <1>9, <2>1 DEF SwapStepOf, Working
<1> QED BY <1>4, <1>5, <1>6, <1>7, <1>8, <1>9, CatalogStep

\* A step of run r changes a target that only replace runs use just when r swaps the
\* table under its staging name into it.
LEMMA TargetStep ==
  ASSUME TypeInv, NEW r \in Runs, Step(r) \/ Crash(r),
         NEW t \in Tables, Only("replace", t), catalog'[t] # catalog[t]
  PROVE  /\ SwapStepOf(r) /\ Target(r) = t
         /\ catalog'[t] = catalog[prepared[r]]
<1>1. /\ Target(r) \in Tables /\ t \in Names /\ t \notin AuxNames /\ catalog \in Catalog
      /\ Target(r) = t => Mode(r) = "replace"
  BY RunTypes, NamesAssumption DEF TypeInv, TypeOK, Only, Names
<1>2. pc[r] \in Working => prepared[r] # t /\ prepared[r] \in Names
  BY <1>1, RunTypes
<1>3. CreatedName(r) # t /\ CreatedName(r) \in Names
  BY <1>1, RunTypes DEF CreatedName
<1>4. ~CreateStep(r)
  BY <1>1, <1>3 DEF CreateStep, CreateTable, Catalog
<1>5. ~InsertStep(r)
  BY <1>1, <1>2 DEF InsertStep, InsertRows, Catalog, Working
<1>6. ~LockStep(r)
  BY <1>1, <1>2 DEF LockStep, SetBulkLoadTableLock, Catalog, Working
<1>7. ~DropStep(r)
  BY <1>1, <1>2 DEF DropStep, DropTable, Catalog, Working
<1>8. SwapStepOf(r)
  BY <1>4, <1>5, <1>6, <1>7, CatalogStep
<1>9. Target(r) = t /\ catalog'[t] = catalog[prepared[r]]
  <2>1. /\ \A n \in Names \ {Target(r), prepared[r]} : SwappedCatalog(r)[n] = catalog[n]
        /\ SwappedCatalog(r)[Target(r)] = catalog[prepared[r]]
    BY <1>8, SwapStep DEF SwapStepOf
  <2> QED BY <1>1, <1>2, <1>8, <2>1 DEF SwapStepOf, Working
<1> QED BY <1>8, <1>9

\* A table of a replace run gets a final name only by that run's own swap.
LEMMA PublishedStep ==
  ASSUME TypeInv, LoadedInv, NEW r \in Runs, Step(r) \/ Crash(r),
         NEW t \in Tables, NEW q \in Runs, Mode(q) = "replace",
         catalog'[t] # NoTable, catalog'[t].owner = q
  PROVE  CreatedBy(q, t) \/ (q = r /\ SwapStepOf(r))
<1> USE DEF CreatedBy, TableExists
<1>1. t \in Names /\ t \notin AuxNames /\ catalog \in Catalog /\ Target(r) \in Tables
  BY RunTypes, NamesAssumption DEF TypeInv, TypeOK, Names
<1>2. pc[r] \in Working => prepared[r] \in Names
  BY RunTypes
<1>3. CASE catalog' = catalog
  BY <1>3
<1>4. CASE CreateStep(r)
  <2>1. CASE CreatedName(r) = t
    <3>1. Mode(r) # "replace"
      BY <1>1, <2>1, RunTypes
    <3>2. catalog'[t].owner = r
      BY <1>1, <1>4, <2>1 DEF CreateStep, CreateTable, NewTable, Catalog
    <3> QED BY <3>1, <3>2
  <2>2. CASE CreatedName(r) # t
    BY <1>1, <1>4, <2>2 DEF CreateStep, CreateTable, Catalog
  <2> QED BY <2>1, <2>2
<1>5. CASE InsertStep(r)
  <2>1. PICK j \in Nat : catalog' = InsertRows(catalog, prepared[r], r, j)
    BY <1>5 DEF InsertStep
  <2>2. prepared[r] \in Names /\ catalog[prepared[r]] # NoTable
    BY <1>2, <1>5 DEF InsertStep, Working
  <2>3. InsertRows(catalog, prepared[r], r, j)[prepared[r]].owner = catalog[prepared[r]].owner
    BY SMTT(30), <1>1, <2>2, InsertEffects
  <2>4. t # prepared[r] => catalog'[t] = catalog[t]
    BY <1>1, <2>1 DEF InsertRows, Catalog
  <2> QED BY <2>1, <2>2, <2>3, <2>4
<1>6. CASE LockStep(r)
  <2>1. Mode(r) = "replace" /\ pc[r] \in Working
    BY <1>6 DEF LockStep, TypeInv, PreparedInv, ReplaceLabels, Working
  <2>2. t # prepared[r]
    BY <1>1, <2>1, RunTypes
  <2> QED BY <1>1, <1>6, <2>2 DEF LockStep, SetBulkLoadTableLock, Catalog
<1>7. CASE DropStep(r)
  BY <1>1, <1>7 DEF DropStep, DropTable, Catalog
<1>8. CASE SwapStepOf(r)
  <2>1. /\ Mode(r) = "replace" /\ prepared[r] \in AuxNames
        /\ SwappedCatalog(r)[Target(r)] = catalog[prepared[r]]
        /\ \A n \in Names \ {Target(r), prepared[r]} : SwappedCatalog(r)[n] = catalog[n]
    BY <1>8, SwapStep DEF SwapStepOf
  <2>2. catalog[prepared[r]].owner = r
    BY <1>8, <2>1 DEF SwapStepOf, LoadedInv, StagingInv, Working
  <2> QED BY <1>1, <1>8, <2>1, <2>2 DEF SwapStepOf
<1> QED BY <1>3, <1>4, <1>5, <1>6, <1>7, <1>8, CatalogStep

\* A working replace run keeps its own staging table in order, action by action.
LEMMA OwnStaging ==
  ASSUME TypeInv, LoadedInv, ~SwapInDoubt', NEW r \in Runs, Step(r) \/ Crash(r),
         Mode(r) = "replace", pc'[r] \in Working
  PROVE  StagingInv(r)'
<1> USE DEF StagingInv, CreatedBy, TableExists, Working, Publishing
<1>0. /\ pc[r] \in Working => StagingInv(r) /\ prepared[r] \in Names
      /\ pc \in [Runs -> Labels] /\ job \in [Runs -> Jobs] /\ catalog \in Catalog
      /\ prepared \in [Runs -> Names \cup {NoName}] /\ job[r] \in Jobs
  BY RunTypes DEF LoadedInv, TypeInv, TypeOK
<1> USE <1>0
<1>1. CASE \/ Connect(r) \/ ProbeTargetAppend(r) \/ ProbeTargetCreate(r)
           \/ ProbeTargetReplace(r) \/ ProbeStaging(r)
  BY <1>1 DEF Connect, ProbeTargetAppend, ProbeTargetCreate, ProbeTargetReplace,
              ProbeStaging, Continue, Goto, Abort, Query
<1>2. CASE CreateTarget(r)
  <2>1. /\ pc'[r] = "enable_lock" /\ prepared'[r] = CreatedName(r)
        /\ catalog' = CreateTable(catalog, CreatedName(r), r) /\ job' = job
    BY <1>2 DEF CreateTarget, Statement, Continue, Goto, Abort
  <2>2. CreatedName(r) \in Names /\ NewTable(r) \in Table
    BY RunTypes DEF NewTable, Table, NoRows
  <2>3. catalog'[prepared'[r]] = NewTable(r) /\ NewTable(r) # NoTable
    BY <2>1, <2>2, ServerAssumption DEF CreateTable, Catalog
  <2>4. /\ NewTable(r).owner = r /\ NewTable(r).count = 0 /\ NewTable(r).from[r] = 0
        /\ ~NewTable(r).bulkLock
    BY ONLY r \in Runs DEF NewTable, NoRows
  <2> QED BY <2>1, <2>3, <2>4
<1>3. CASE EnableBulkLoadTableLock(r)
  <2>1. prepared' = prepared /\ pc[r] \in Working /\ pc'[r] \in {"count_before", "cleanup"}
    BY <1>3 DEF EnableBulkLoadTableLock, Statement, Continue, Goto, FailPrepared
  <2>2. CASE /\ catalog' = SetBulkLoadTableLock(catalog, prepared[r], TRUE)
             /\ pc'[r] = "cleanup" \/ job'[r].lockOn
    <3>1. LET tbl == SetBulkLoadTableLock(catalog, prepared[r], TRUE)[prepared[r]]
              old == catalog[prepared[r]]
          IN  /\ tbl # NoTable /\ tbl.owner = old.owner /\ tbl.count = old.count
              /\ tbl.from = old.from
      BY <2>1, LockEffects
    <3> QED BY <2>1, <2>2, <3>1
  <2>3. CASE catalog' = catalog
    BY <1>3, <2>1, <2>3 DEF EnableBulkLoadTableLock
  <2>4. \/ catalog' = catalog
        \/ /\ catalog' = SetBulkLoadTableLock(catalog, prepared[r], TRUE)
           /\ \/ pc' = [pc EXCEPT ![r] = "cleanup"]
              \/ job' = [job EXCEPT ![r].lockOn = TRUE]
    BY <1>3 DEF EnableBulkLoadTableLock, Statement, FailPrepared, Goto
  <2>5. /\ [pc EXCEPT ![r] = "cleanup"][r] = "cleanup"
        /\ [job EXCEPT ![r].lockOn = TRUE][r].lockOn
    BY DEF Jobs
  <2> QED BY <2>2, <2>3, <2>4, <2>5
<1>4. CASE CountBeforeAppend(r)
  BY <1>4 DEF CountBeforeAppend, Continue, Goto
<1>5. CASE InitializeWriter(r)
  BY <1>5 DEF InitializeWriter, Query, Continue, Goto, FailPrepared
<1>6. ASSUME NEW k \in BatchSizes, NEW j \in StoredRows(k), WriteBatch(r, k, j)
      PROVE  StagingInv(r)'
  <2>1. /\ prepared' = prepared /\ pc[r] = "write" /\ pc'[r] \in {"write", "cleanup"}
        /\ job'[r].lockOn = job[r].lockOn /\ j \in Nat
    BY SMTT(30), <1>6, SinkAssumption DEF WriteBatch, Statement, FailPrepared, Goto, Jobs, StoredRows
  <2>2. CASE catalog' = InsertRows(catalog, prepared[r], r, j)
    <3>1. LET tbl == InsertRows(catalog, prepared[r], r, j)[prepared[r]]
              old == catalog[prepared[r]]
          IN  /\ tbl # NoTable /\ tbl.owner = old.owner /\ tbl.count = old.count + j
              /\ tbl.from[r] = old.from[r] + j /\ tbl.bulkLock = old.bulkLock
      <4>1. /\ catalog \in Catalog /\ prepared[r] \in Names /\ j \in Nat
            /\ TableExists(catalog, prepared[r])
        BY <2>1 DEF TableExists
      <4> QED BY ONLY <4>1, r \in Runs, InsertEffects
    <3> QED BY <2>1, <2>2, <3>1
  <2>3. CASE catalog' = catalog
    BY <2>1, <2>3
  <2> QED BY <1>6, <2>2, <2>3 DEF WriteBatch, Statement
<1>7. CASE PollError(r) \/ \E k \in BatchSizes : RejectBatchSchema(r, k)
  BY <1>7 DEF PollError, RejectBatchSchema, FailPrepared, Goto
<1>8. CASE FinishWriter(r)
  BY <1>8 DEF FinishWriter, Query, Continue, FailPrepared, Goto, Jobs
<1>9. CASE ValidateWrittenTarget(r)
  <2>1. /\ catalog' = catalog /\ prepared' = prepared /\ pc[r] = "validate"
        /\ job'[r].eof = job[r].eof /\ job'[r].inRows = job[r].inRows
    BY SMTT(30), <1>9 DEF ValidateWrittenTarget, Validated, ValidationError, CountUnavailable, Jobs
  <2>2. \/ pc'[r] = "cleanup"
        \/ CountMatches(r) /\ pc'[r] = IF job[r].lockOn THEN "disable_lock" ELSE "probe_backup"
    BY <1>9 DEF ValidateWrittenTarget, Validated, ValidationError, CountUnavailable, Goto
  <2> QED BY <2>1, <2>2 DEF CountMatches
<1>10. CASE DisableBulkLoadTableLock(r)
  <2>1. /\ prepared' = prepared /\ job' = job /\ pc[r] = "disable_lock"
        /\ pc'[r] \in {"probe_backup", "cleanup"}
    BY <1>10 DEF DisableBulkLoadTableLock, Statement, Continue, FailPrepared, Goto
  <2>2. CASE catalog' = SetBulkLoadTableLock(catalog, prepared[r], FALSE)
    <3>1. LET tbl == SetBulkLoadTableLock(catalog, prepared[r], FALSE)[prepared[r]]
              old == catalog[prepared[r]]
          IN  /\ tbl # NoTable /\ tbl.owner = old.owner /\ tbl.count = old.count
              /\ tbl.from = old.from /\ ~tbl.bulkLock
      BY <2>1, LockEffects
    <3> QED BY <2>1, <2>2, <3>1
  <2>3. CASE catalog' = catalog /\ pc'[r] = "cleanup"
    BY <2>1, <2>3
  <2> QED BY <1>10, <2>2, <2>3
          DEF DisableBulkLoadTableLock, Statement, Continue, FailPrepared, Goto
<1>11. CASE ProbeBackup(r)
  BY SMTT(30), <1>11 DEF ProbeBackup, NextAttempt, Continue, FailPrepared, Goto, Jobs
<1>12. CASE BeginSwap(r)
  BY <1>12 DEF BeginSwap, Continue, FailPrepared, Goto
<1>13. CASE CommitSwap(r)
  <2>1. pc'[r] = "succeeded" \/ catalog' = catalog
    BY <1>13, LostSwapFlagged DEF LostSwap
  <2> QED BY <1>13, <2>1 DEF CommitSwap, Statement, Continue, FailPrepared, Goto
<1>14. CASE CleanupPreparedTarget(r)
  BY <1>14 DEF CleanupPreparedTarget, Statement, SetCleanup, Goto
<1>15. CASE Crash(r)
  BY <1>15 DEF Crash, Continue, Goto
<1> QED BY <1>1, <1>2, <1>3, <1>4, <1>5, <1>6, <1>7, <1>8, <1>9, <1>10, <1>11, <1>12,
           <1>13, <1>14, <1>15 DEF Step

\* partial_write_possible is set when a run fails, and never reset.
LEMMA FlagStep ==
  ASSUME TypeInv, FlagInv, NEW r \in Runs, Step(r) \/ Crash(r)
  PROVE  /\ FlagInv'
         /\ \A q \in Runs : result[q].partial => result'[q].partial
<1>1. /\ \A q \in Runs \ {r} : pc'[q] = pc[q] /\ result'[q] = result[q]
      /\ pc[r] \notin Terminal
      /\ pc \in [Runs -> Labels] /\ result \in [Runs -> Results]
  BY RunFrame DEF TypeInv, TypeOK
<1> SUFFICES /\ pc'[r] \notin {"cleanup", "failed", "crashed"} => ~result'[r].partial
             /\ result[r].partial => result'[r].partial
  BY <1>1 DEF FlagInv
<1>2. /\ pc[r] # "cleanup" => ~result[r].partial
      /\ result[r] \in Results
  BY <1>1 DEF FlagInv, Terminal
<1> USE <1>1, <1>2 DEF Continue, Goto, Abort, FailPrepared, Statement, Query
<1>3. CASE Connect(r) \/ ProbeTargetCreate(r) \/ ProbeTargetReplace(r)
  BY <1>3 DEF Connect, ProbeTargetCreate, ProbeTargetReplace
<1>4. CASE ProbeTargetAppend(r) \/ ProbeStaging(r)
  BY <1>4 DEF ProbeTargetAppend, ProbeStaging
<1>5. CASE CreateTarget(r)
  BY <1>5 DEF CreateTarget
<1>6. CASE EnableBulkLoadTableLock(r)
  BY <1>6 DEF EnableBulkLoadTableLock
<1>7. CASE CountBeforeAppend(r)
  BY <1>7 DEF CountBeforeAppend, Results
<1>8. CASE InitializeWriter(r)
  BY <1>8 DEF InitializeWriter
<1>9. CASE \E k \in BatchSizes : \E j \in StoredRows(k) : WriteBatch(r, k, j)
  BY <1>9 DEF WriteBatch
<1>10. CASE PollError(r) \/ FinishWriter(r) \/ \E k \in BatchSizes : RejectBatchSchema(r, k)
  BY <1>10 DEF PollError, FinishWriter, RejectBatchSchema
<1>11. CASE ValidateWrittenTarget(r)
  BY SMTT(30), <1>11 DEF ValidateWrittenTarget, Validated, ValidationError, CountUnavailable, Results
<1>12. CASE DisableBulkLoadTableLock(r)
  BY <1>12 DEF DisableBulkLoadTableLock
<1>13. CASE ProbeBackup(r) \/ BeginSwap(r)
  BY <1>13 DEF ProbeBackup, BeginSwap
<1>14. CASE CommitSwap(r)
  BY <1>14 DEF CommitSwap
<1>15. CASE CleanupPreparedTarget(r)
  BY SMTT(30), <1>15 DEF CleanupPreparedTarget, SetCleanup, Results
<1>16. CASE Crash(r)
  BY <1>16 DEF Crash
<1> QED BY <1>3, <1>4, <1>5, <1>6, <1>7, <1>8, <1>9, <1>10, <1>11, <1>12, <1>13, <1>14,
           <1>15, <1>16 DEF Step

\* The initial state satisfies the inductive invariant.
LEMMA SinkInit == Init => SinkInv
<1> SUFFICES ASSUME Init PROVE SinkInv
  OBVIOUS
<1>1. TypeInv
  BY TypeInit
<1>2. LoadedInv
  BY DEF Init, LoadedInv, Working
<1>3. \A n \in Names : TableExists(catalog, n) =>
        catalog[n].owner = Pre /\ catalog[n].from = NoRows
  BY SMTT(30) DEF Init, ExistingTable, TableExists
<1>4. PublishedInv
  BY <1>3, ServerAssumption DEF PublishedInv, CreatedBy, Names
<1>5. ReplaceAtomic
  BY <1>3 DEF ReplaceAtomic, Names
<1>6. FlagInv
  BY DEF Init, FlagInv
<1> QED BY <1>1, <1>2, <1>4, <1>5, <1>6 DEF SinkInv

\* Every step of a run preserves the inductive invariant.
LEMMA SinkStep ==
  ASSUME SinkInv, NEW r \in Runs, Step(r) \/ Crash(r)
  PROVE  SinkInv'
<1>a. TypeInv' /\ FlagInv'
  BY TypeStep, FlagStep DEF Next, SinkInv
<1> SUFFICES ASSUME ~SwapInDoubt'
             PROVE  LoadedInv' /\ PublishedInv' /\ ReplaceAtomic'
  BY <1>a DEF SinkInv
<1>1. ~SwapInDoubt
  <2>1. plan' = plan /\ \A q \in Runs : result[q].partial => result'[q].partial
    BY RunFrame, FlagStep DEF SinkInv
  <2> QED BY <2>1 DEF SwapInDoubt, Mode
<1>0. TypeInv /\ LoadedInv /\ PublishedInv /\ ReplaceAtomic
  BY <1>1 DEF SinkInv
<1>2. /\ plan' = plan /\ pc[r] \notin Terminal
      /\ \A q \in Runs \ {r} : /\ pc'[q] = pc[q] /\ prepared'[q] = prepared[q]
                               /\ job'[q] = job[q] /\ result'[q] = result[q]
  BY <1>0, RunFrame
<1>3. LoadedInv'
  <2> SUFFICES ASSUME NEW q \in Runs, (Mode(q) = "replace" /\ pc[q] \in Working)'
               PROVE  StagingInv(q)'
    BY DEF LoadedInv
  <2>1. Mode(q) = "replace" /\ pc'[q] \in Working
    BY <1>2 DEF Mode, Working
  <2>2. CASE q = r
    BY <1>0, <2>1, <2>2, OwnStaging
  <2>3. CASE q # r
    <3>1. StagingInv(q) /\ catalog'[prepared[q]] = catalog[prepared[q]]
      BY <1>0, <1>2, <2>1, <2>3, OthersUntouched DEF LoadedInv
    <3> QED BY <1>2, <2>3, <3>1 DEF StagingInv, CreatedBy, TableExists, Publishing
  <2> QED BY <2>2, <2>3
<1>4. PublishedInv'
  <2> SUFFICES ASSUME NEW q \in Runs, NEW t \in Tables,
                      (Mode(q) = "replace" /\ CreatedBy(q, t))'
               PROVE  (pc[q] \in {"succeeded", "crashed"})'
    BY DEF PublishedInv
  <2>1. Mode(q) = "replace" /\ catalog'[t] # NoTable /\ catalog'[t].owner = q
    BY <1>2 DEF Mode, CreatedBy, TableExists
  <2>2. CreatedBy(q, t) \/ (q = r /\ SwapStepOf(r))
    BY <1>0, <2>1, PublishedStep
  <2>3. CASE CreatedBy(q, t)
    BY <1>0, <1>2, <2>1, <2>3 DEF PublishedInv, Terminal
  <2>4. CASE q = r /\ SwapStepOf(r)
    BY <2>4 DEF SwapStepOf, LostSwap
  <2> QED BY <2>2, <2>3, <2>4
<1>5. ReplaceAtomic'
  <2> SUFFICES ASSUME NEW t \in Tables, (Only("replace", t) /\ TableExists(catalog, t))'
               PROVE  LET tbl == catalog'[t] IN
                      \/ tbl.owner = Pre /\ tbl.from = NoRows
                      \/ \E q \in Runs : /\ tbl.owner = q /\ Target(q) = t
                                         /\ job'[q].eof
                                         /\ tbl.count = job'[q].inRows
                                         /\ tbl.from[q] = tbl.count
                                         /\ ~tbl.bulkLock
    BY <1>2 DEF ReplaceAtomic, Target
  <2>1. Only("replace", t) /\ catalog'[t] # NoTable
    BY <1>2 DEF Only, Target, Mode, TableExists
  <2>2. CASE catalog'[t] = catalog[t]
    <3>1. \A q \in Runs : catalog[t].owner = q => job'[q] = job[q]
      <4> SUFFICES ASSUME NEW q \in Runs, catalog[t].owner = q PROVE job'[q] = job[q]
        OBVIOUS
      <4>1. CreatedBy(q, t)
        BY <2>1, <2>2 DEF CreatedBy, TableExists
      <4>2. Mode(q) = "replace"
        BY <1>0, <1>1, <2>1, <2>2, ServerAssumption DEF ReplaceAtomic, Only, TableExists
      <4>3. q # r
        BY <1>0, <1>2, <4>1, <4>2 DEF PublishedInv, Terminal
      <4> QED BY <1>2, <4>3
    <3> QED BY <1>0, <1>1, <2>1, <2>2, <3>1 DEF ReplaceAtomic, TableExists
  <2>3. CASE catalog'[t] # catalog[t]
    <3>1. SwapStepOf(r) /\ Target(r) = t /\ catalog'[t] = catalog[prepared[r]]
      BY <1>0, <2>1, <2>3, TargetStep
    <3>2. job' = job
      BY <3>1 DEF SwapStepOf
    <3>3. StagingInv(r)
      BY <1>0, <3>1, SwapStep DEF LoadedInv, SwapStepOf, Working
    <3> QED BY <3>1, <3>2, <3>3 DEF StagingInv, CreatedBy, SwapStepOf, Publishing
  <2> QED BY <2>2, <2>3
<1> QED BY <1>3, <1>4, <1>5

\* The inductive invariant of the sink.
THEOREM SinkInvariant == Spec => []SinkInv
<1>1. Init => SinkInv
  BY SinkInit
<1>2. SinkInv /\ [Next]_vars => SinkInv'
  <2> SUFFICES ASSUME SinkInv, [Next]_vars PROVE SinkInv'
    OBVIOUS
  <2>1. CASE UNCHANGED vars
    <3>1. TypeInv'
      BY <2>1 DEF vars, SinkInv, TypeInv, TypeOK, PreparedInv, Mode, Target
    <3>2. LoadedInv => LoadedInv'
      BY <2>1 DEF vars, LoadedInv, StagingInv, Mode, CreatedBy, TableExists
    <3>3. PublishedInv => PublishedInv'
      BY <2>1 DEF vars, PublishedInv, Mode, CreatedBy, TableExists
    <3>4. ReplaceAtomic => ReplaceAtomic'
      BY <2>1 DEF vars, ReplaceAtomic, Only, Mode, Target, TableExists, SwapInDoubt
    <3>5. FlagInv' /\ (SwapInDoubt' <=> SwapInDoubt)
      BY <2>1 DEF vars, SinkInv, FlagInv, SwapInDoubt, Mode
    <3> QED BY <3>1, <3>2, <3>3, <3>4, <3>5 DEF SinkInv
  <2>2. CASE Next
    <3>1. ASSUME NEW r \in Runs, Step(r) \/ Crash(r) PROVE SinkInv'
      BY <3>1, SinkStep
    <3> QED BY <2>1, <2>2, <3>1 DEF Next, Terminated
  <2> QED BY <2>1, <2>2
<1> QED BY <1>1, <1>2, PTL DEF Spec

\* The staging table of a working replace run stays bound to its prepared name and
\* holds only the run's own rows, for any mix of load modes sharing the server.
THEOREM StagingIsPrivate == Spec => []StagingPrivate
<1>1. SinkInv => StagingPrivate
  BY DEF SinkInv, LoadedInv, StagingInv, StagingPrivate
<1> QED BY <1>1, SinkInvariant, PTL

\* A target that only replace runs use holds its old rows or one run's whole
\* stream, at every moment, whatever rows the server loses and whoever crashes.
THEOREM ReplaceIsAtomic == Spec => []ReplaceAtomic
<1>1. SinkInv => ReplaceAtomic
  BY DEF SinkInv, ReplaceAtomic
<1> QED BY <1>1, SinkInvariant, PTL

\* A replace run that reports a failure has not published its table.
THEOREM FailureMeansUnpublished == Spec => []FailedReplaceUnpublished
<1>1. SinkInv => FailedReplaceUnpublished
  BY DEF SinkInv, PublishedInv, FailedReplaceUnpublished
<1> QED BY <1>1, SinkInvariant, PTL

\* No step makes the name of a replaced target disappear.
THEOREM ReplacedTargetRemains == Spec => ReplacedTargetStays
<1>1. SinkInv /\ [Next]_vars =>
        [\A t \in Tables : (Only("replace", t) /\ TableExists(catalog, t))
                              => TableExists(catalog', t)]_vars
  <2> SUFFICES ASSUME SinkInv, Next, NEW t \in Tables, Only("replace", t),
                      TableExists(catalog, t)
               PROVE  TableExists(catalog', t)
    OBVIOUS
  <2>1. CASE catalog'[t] = catalog[t]
    BY <2>1 DEF TableExists
  <2>2. CASE catalog'[t] # catalog[t]
    <3>1. PICK r \in Runs : Step(r) \/ Crash(r)
      BY <2>2 DEF Next, Terminated, vars
    <3>2. SwapStepOf(r) /\ catalog'[t] = catalog[prepared[r]]
      BY <2>2, <3>1, TargetStep DEF SinkInv
    <3>3. TableExists(catalog, prepared[r])
      BY <3>2, SwapStep DEF SwapStepOf, SinkInv
    <3> QED BY <3>2, <3>3 DEF TableExists
  <2> QED BY <2>1, <2>2
<1> QED BY <1>1, SinkInvariant, PTL DEF Spec, ReplacedTargetStays
-----------------------------------------------------------------------------
(* What a step does to one name. *)

\* All the ways the table under a name changes in a step of run r.
LEMMA TableStep ==
  ASSUME TypeInv, NEW r \in Runs, Step(r) \/ Crash(r), NEW n \in Names
  PROVE  \/ catalog'[n] = catalog[n]
         \/ /\ CreateStep(r) /\ n = CreatedName(r) /\ catalog[n] = NoTable
            /\ catalog'[n] = NewTable(r) /\ catalog'[n] # NoTable
         \/ /\ InsertStep(r) /\ n = prepared[r] /\ catalog[n] # NoTable
            /\ catalog'[n] # NoTable /\ catalog'[n].owner = catalog[n].owner
            /\ \E j \in Nat : catalog'[n].from = [catalog[n].from EXCEPT ![r] = @ + j]
         \/ /\ LockStep(r) /\ n = prepared[r] /\ catalog[n] # NoTable
            /\ catalog'[n] # NoTable /\ catalog'[n].owner = catalog[n].owner
            /\ catalog'[n].from = catalog[n].from
         \/ DropStep(r) /\ n = prepared[r] /\ catalog'[n] = NoTable
         \/ /\ SwapStepOf(r) /\ n = Target(r) /\ catalog'[n] # NoTable
            /\ catalog'[n] = catalog[prepared[r]]
         \/ SwapStepOf(r) /\ n = prepared[r] /\ catalog'[n] = NoTable
<1>1. catalog \in Catalog /\ (pc[r] \in Working => prepared[r] \in Names)
  BY RunTypes DEF TypeInv, TypeOK
<1>2. CASE CreateStep(r)
  <2>1. CreatedName(r) \in Names /\ NewTable(r) \in Table
    BY RunTypes DEF NewTable, Table, NoRows
  <2>2. \/ catalog'[n] = catalog[n]
        \/ n = CreatedName(r) /\ catalog'[n] = NewTable(r)
    BY <1>1, <1>2, <2>1 DEF CreateStep, CreateTable, Catalog
  <2> QED BY <1>2, <2>1, <2>2, ServerAssumption DEF CreateStep, TableExists
<1>3. CASE InsertStep(r)
  <2>1. PICK j \in Nat : catalog' = InsertRows(catalog, prepared[r], r, j)
    BY <1>3 DEF InsertStep
  <2>2. prepared[r] \in Names /\ TableExists(catalog, prepared[r])
    BY <1>1, <1>3 DEF InsertStep, Working
  <2>3. CASE n # prepared[r]
    BY <1>1, <2>1, <2>3 DEF InsertRows, Catalog
  <2>4. CASE n = prepared[r]
    <3>1. LET tbl == InsertRows(catalog, n, r, j)[n]
          IN  tbl # NoTable /\ tbl.owner = catalog[n].owner
      BY <1>1, <2>2, <2>4, InsertEffects
    <3>2. InsertRows(catalog, n, r, j)[n].from = [catalog[n].from EXCEPT ![r] = @ + j]
      BY SMTT(30), <1>1, <2>2, <2>4, InsertedFrom
    <3> QED BY <1>3, <2>1, <2>2, <2>4, <3>1, <3>2 DEF TableExists
  <2> QED BY <2>3, <2>4
<1>4. CASE LockStep(r)
  <2>1. PICK b \in BOOLEAN : catalog' = SetBulkLoadTableLock(catalog, prepared[r], b)
    BY <1>4 DEF LockStep
  <2>2. prepared[r] \in Names /\ TableExists(catalog, prepared[r])
    BY <1>1, <1>4 DEF LockStep, Working
  <2>3. CASE n # prepared[r]
    BY <1>1, <2>1, <2>3 DEF SetBulkLoadTableLock, Catalog
  <2>4. CASE n = prepared[r]
    <3>1. LET tbl == SetBulkLoadTableLock(catalog, n, b)[n]
          IN  /\ tbl # NoTable /\ tbl.owner = catalog[n].owner /\ tbl.from = catalog[n].from
      BY SMTT(30), <1>1, <2>2, <2>4, LockEffects
    <3> QED BY <1>4, <2>1, <2>2, <2>4, <3>1 DEF TableExists
  <2> QED BY <2>3, <2>4
<1>5. CASE DropStep(r)
  BY <1>1, <1>5 DEF DropStep, DropTable, Catalog
<1>6. CASE SwapStepOf(r)
  <2>1. /\ SwappedCatalog(r)[Target(r)] = catalog[prepared[r]]
        /\ catalog[prepared[r]] # NoTable
        /\ SwappedCatalog(r)[prepared[r]] = NoTable
        /\ \A m \in Names \ {Target(r), prepared[r]} : SwappedCatalog(r)[m] = catalog[m]
    BY <1>6, SwapStep DEF SwapStepOf, TableExists
  <2> QED BY <1>6, <2>1 DEF SwapStepOf
<1> QED BY <1>2, <1>3, <1>4, <1>5, <1>6, CatalogStep

\* A staging table leaves its name only in a step of the run that created it, for any
\* mix of load modes, as long as no swap is in doubt.
THEOREM StagingDroppedByOwner == Spec => StagingDropsByOwner
<1>1. SinkInv /\ [Next]_vars =>
        [\A q \in Runs : \A n \in AuxNames :
           (CreatedBy(q, n) /\ ~CreatedBy(q, n)' /\ ~SwapInDoubt) => pc[q] # pc'[q]]_vars
  <2> SUFFICES ASSUME SinkInv, Next, NEW q \in Runs, NEW n \in AuxNames,
                      CreatedBy(q, n), ~CreatedBy(q, n)', ~SwapInDoubt
               PROVE  pc[q] # pc'[q]
    OBVIOUS
  <2>1. catalog[n] # NoTable /\ catalog[n].owner = q /\ catalog' # catalog
        /\ ~(catalog'[n] # NoTable /\ catalog'[n].owner = q)
    BY DEF CreatedBy, TableExists
  <2>2. PICK r \in Runs : Step(r) \/ Crash(r)
    BY <2>1 DEF Next, Terminated, vars
  <2>3. TypeInv /\ LoadedInv /\ n \in Names /\ n \notin Tables
    BY NamesAssumption DEF SinkInv, Names
  <2>4. Target(r) \in Tables
    BY <2>3, RunTypes
  <2>5. /\ n = prepared[r]
        /\ DropStep(r) \/ SwapStepOf(r)
    BY SMTT(30), <2>1, <2>2, <2>3, <2>4, TableStep
  <2>6. pc[r] \in Working /\ pc'[r] # pc[r]
    BY <2>5 DEF DropStep, SwapStepOf, LostSwap, Working
  <2>7. Mode(r) = "replace"
    BY <2>3, <2>4, <2>5, <2>6, RunTypes
  <2>8. catalog[n].owner = r
    BY <2>3, <2>5, <2>6, <2>7 DEF LoadedInv, StagingInv, CreatedBy
  <2> QED BY <2>1, <2>6, <2>8
<1> QED BY <1>1, SinkInvariant, PTL DEF Spec, StagingDropsByOwner
-----------------------------------------------------------------------------
(* Replace runs implement atomic publication. *)

ReplaceOnly == \A p \in Plans : p.mode = "replace"

\* Every run replaces, and a table under the name a run prepared was created by some
\* run: what a swap publishes is the output of a run, even when a swap is in doubt.
OwnedInv ==
  \A r \in Runs :
    /\ Mode(r) = "replace"
    /\ (prepared[r] \in AuxNames /\ TableExists(catalog, prepared[r]))
         => catalog[prepared[r]].owner \in Runs

\* A run prepares a table by creating it, except for append, which takes its target.
LEMMA PreparedStep ==
  ASSUME TypeInv, NEW r \in Runs, Step(r) \/ Crash(r)
  PROVE  \/ prepared' = prepared
         \/ prepared'[r] = Target(r)
         \/ CreateStep(r) /\ prepared'[r] = CreatedName(r)
<1> USE DEF TypeInv, TypeOK
<1>1. CASE ProbeTargetAppend(r)
  BY <1>1 DEF ProbeTargetAppend
<1>2. CASE CreateTarget(r)
  BY <1>2 DEF CreateTarget, Statement, CreateAllowed, CreateStep
<1>3. CASE EnableBulkLoadTableLock(r) \/ CommitSwap(r) \/ Crash(r)
  BY <1>3 DEF EnableBulkLoadTableLock, CommitSwap, Crash
<1>4. CASE \E k \in BatchSizes : \E j \in StoredRows(k) : WriteBatch(r, k, j)
  BY <1>4 DEF WriteBatch
<1>5. CASE \/ Connect(r) \/ ProbeTargetCreate(r) \/ ProbeTargetReplace(r)
           \/ ProbeStaging(r) \/ CountBeforeAppend(r) \/ InitializeWriter(r)
           \/ PollError(r) \/ FinishWriter(r) \/ ValidateWrittenTarget(r)
           \/ ProbeBackup(r) \/ BeginSwap(r) \/ DisableBulkLoadTableLock(r)
           \/ CleanupPreparedTarget(r) \/ \E k \in BatchSizes : RejectBatchSchema(r, k)
  BY <1>5 DEF Connect, ProbeTargetCreate, ProbeTargetReplace, ProbeStaging,
              CountBeforeAppend, InitializeWriter, PollError, FinishWriter,
              ValidateWrittenTarget, ProbeBackup, BeginSwap, RejectBatchSchema,
              DisableBulkLoadTableLock, CleanupPreparedTarget
<1> QED BY <1>1, <1>2, <1>3, <1>4, <1>5 DEF Step

\* What runs publish is the output of some run.
LEMMA OwnedInvariant ==
  ASSUME ReplaceOnly
  PROVE  Spec => []OwnedInv
<1>1. Init => OwnedInv
  <2> SUFFICES ASSUME Init, NEW r \in Runs
               PROVE  Mode(r) = "replace" /\ prepared[r] \notin AuxNames
    BY DEF OwnedInv
  <2>1. plan[r] \in Plans /\ prepared[r] = NoName
    BY DEF Init
  <2> QED BY <2>1, SinkAssumption DEF Mode, ReplaceOnly, Names
<1>2. TypeInv /\ OwnedInv /\ [Next]_vars => OwnedInv'
  <2> SUFFICES ASSUME TypeInv, OwnedInv, [Next]_vars PROVE OwnedInv'
    OBVIOUS
  <2>1. CASE UNCHANGED vars
    BY <2>1 DEF vars, OwnedInv, Mode, TableExists
  <2>2. ASSUME NEW r \in Runs, Step(r) \/ Crash(r) PROVE OwnedInv'
    <3>1. /\ plan' = plan /\ \A q \in Runs \ {r} : prepared'[q] = prepared[q]
          /\ Target(r) \in Tables
      BY <2>2, RunFrame, RunTypes
    <3> SUFFICES ASSUME NEW q \in Runs, prepared'[q] \in AuxNames,
                        catalog'[prepared'[q]] # NoTable
                 PROVE  catalog'[prepared'[q]].owner \in Runs
      BY <3>1 DEF OwnedInv, Mode, TableExists
    <3>2. PICK n \in AuxNames : n = prepared'[q]
      OBVIOUS
    <3>3. n \in Names /\ n \notin Tables
      BY NamesAssumption DEF Names
    <3>4. NewTable(r).owner = r
      BY DEF NewTable
    <3>5. \/ prepared'[q] = prepared[q]
          \/ catalog[n] = NoTable
      BY <2>2, <3>1, <3>2, <3>3, PreparedStep DEF CreateStep, TableExists
    <3>6. catalog[n] # NoTable => catalog[n].owner \in Runs
      BY <3>2, <3>5 DEF OwnedInv, TableExists
    <3>7. \/ catalog'[n] = catalog[n]
          \/ catalog'[n] = NewTable(r)
          \/ catalog[n] # NoTable /\ catalog'[n].owner = catalog[n].owner
      BY <2>2, <3>1, <3>2, <3>3, TableStep
    <3> QED BY <3>2, <3>4, <3>6, <3>7
  <2> QED BY <2>1, <2>2 DEF Next, Terminated
<1>3. TypeInv /\ [Next]_vars => TypeInv'
  BY TypeStep
<1>4. Init => TypeInv
  BY TypeInit
<1> QED BY <1>1, <1>2, <1>3, <1>4, PTL DEF Spec

\* How a replace run comes to a verdict: success is the acknowledged commit of its
\* swap, and a failure keeps the flag it was reported with.
LEMMA VerdictStep ==
  ASSUME TypeInv, NEW r \in Runs, Step(r) \/ Crash(r), Mode(r) = "replace"
  PROVE  /\ pc'[r] = "succeeded" => SwapStepOf(r)
         /\ pc[r] = "cleanup" =>
              pc'[r] \in {"failed", "crashed"} /\ result'[r].partial = result[r].partial
<1> USE DEF TypeInv, TypeOK, Continue, Goto, Abort, FailPrepared, Statement, Query
<1>1. CASE \/ Connect(r) \/ ProbeTargetAppend(r) \/ ProbeTargetCreate(r)
           \/ ProbeTargetReplace(r) \/ ProbeStaging(r)
  BY <1>1 DEF Connect, ProbeTargetAppend, ProbeTargetCreate, ProbeTargetReplace, ProbeStaging
<1>2. CASE CreateTarget(r)
  BY <1>2 DEF CreateTarget
<1>3. CASE EnableBulkLoadTableLock(r)
  BY <1>3 DEF EnableBulkLoadTableLock
<1>4. CASE CountBeforeAppend(r) \/ InitializeWriter(r)
  BY <1>4 DEF CountBeforeAppend, InitializeWriter
<1>5. CASE \E k \in BatchSizes : \E j \in StoredRows(k) : WriteBatch(r, k, j)
  BY <1>5 DEF WriteBatch
<1>6. CASE PollError(r) \/ FinishWriter(r) \/ \E k \in BatchSizes : RejectBatchSchema(r, k)
  BY <1>6 DEF PollError, FinishWriter, RejectBatchSchema
<1>7. CASE ValidateWrittenTarget(r)
  BY <1>7 DEF ValidateWrittenTarget, Validated, ValidationError, CountUnavailable
<1>8. CASE DisableBulkLoadTableLock(r)
  BY <1>8 DEF DisableBulkLoadTableLock
<1>9. CASE ProbeBackup(r) \/ BeginSwap(r)
  BY <1>9 DEF ProbeBackup, BeginSwap
<1>10. CASE CommitSwap(r)
  <2>1. pc'[r] = "succeeded" => SwapChecks(r) /\ catalog' = SwappedCatalog(r)
    BY <1>10 DEF CommitSwap
  <2> QED BY <1>10, <2>1 DEF CommitSwap, SwapStepOf
<1>11. CASE CleanupPreparedTarget(r)
  <2>1. PICK status : SetCleanup(r, status)
    BY <1>11 DEF CleanupPreparedTarget
  <2> QED BY <1>11, <2>1 DEF CleanupPreparedTarget, SetCleanup, Results
<1>12. CASE Crash(r)
  BY <1>12 DEF Crash
<1> QED BY <1>1, <1>2, <1>3, <1>4, <1>5, <1>6, <1>7, <1>8, <1>9, <1>10, <1>11, <1>12 DEF Step

\* Before a run ends, its caller has no verdict or was told of a doubt; once told, the
\* verdict is final.
LEMMA VerdictChange ==
  ASSUME SinkInv, NEW r \in Runs, Step(r) \/ Crash(r), Mode(r) = "replace"
  PROVE  /\ \/ Verdict(r)' = Verdict(r)
            \/ /\ Verdict(r) = "pending"
               /\ Verdict(r)' \in {"ok", "unchanged", "unknown", "crashed"}
         /\ Verdict(r)' = "ok" => SwapStepOf(r)
         /\ SwapStepOf(r) => /\ Verdict(r) = "pending"
                             /\ Verdict(r)' \in {"ok", "unknown", "crashed"}
         /\ \A q \in Runs \ {r} : Verdict(q)' = Verdict(q)
<1>1. /\ \A q \in Runs \ {r} : pc'[q] = pc[q] /\ result'[q] = result[q]
      /\ pc[r] \notin Terminal
  BY RunFrame DEF SinkInv
<1>2. /\ pc'[r] = "succeeded" => SwapStepOf(r)
      /\ pc[r] = "cleanup" =>
           pc'[r] \in {"failed", "crashed"} /\ result'[r].partial = result[r].partial
      /\ pc[r] # "cleanup" => ~result[r].partial
  BY <1>1, VerdictStep DEF SinkInv, FlagInv, Terminal
<1>3. SwapStepOf(r) => \/ pc'[r] = "succeeded"
                       \/ pc'[r] = "crashed" /\ ~result'[r].partial
                       \/ pc'[r] = "cleanup" /\ result'[r].partial
  BY <1>2 DEF SwapStepOf, LostSwap
<1>4. SwapStepOf(r) => pc[r] = "swap_commit"
  BY DEF SwapStepOf
<1>5. \A q \in Runs \ {r} : Verdict(q)' = Verdict(q)
  BY <1>1 DEF Verdict
<1>6. CASE result[r].partial
  BY <1>1, <1>2, <1>4, <1>5, <1>6 DEF Verdict, Terminal
<1>7. CASE ~result[r].partial
  BY <1>1, <1>2, <1>3, <1>4, <1>5, <1>7 DEF Verdict, Terminal
<1> QED BY <1>6, <1>7

\* What the swap of run r does to the holders of the targets.
LEMMA HolderSwap ==
  ASSUME TypeInv, NEW r \in Runs, SwapStepOf(r), NEW t \in Tables
  PROVE  Holder(t)' = IF t = Target(r) THEN catalog[prepared[r]].owner ELSE Holder(t)
<1>1. /\ catalog'[Target(r)] = catalog[prepared[r]] /\ catalog[prepared[r]] # NoTable
      /\ \A n \in Names \ {Target(r), prepared[r]} : catalog'[n] = catalog[n]
      /\ prepared[r] \in AuxNames
  BY SwapStep DEF SwapStepOf, TableExists
<1>2. t \in Names /\ t # prepared[r]
  BY <1>1, NamesAssumption DEF Names
<1> QED BY <1>1, <1>2 DEF Holder, TableExists

\* Every step of a run is a publication, a declined publication, or invisible.
LEMMA PublicationStep ==
  ASSUME SinkInv, OwnedInv, NEW r \in Runs, Step(r) \/ Crash(r)
  PROVE  Publication!Next \/ UNCHANGED Publication!pubVars
<1>1. /\ plan' = plan /\ \A q \in Runs : Mode(q) = "replace" /\ Target(q)' = Target(q)
      /\ Target(r) \in Tables
  BY RunFrame, RunTypes DEF SinkInv, OwnedInv, Target
<1>2. [q \in Runs |-> Target(q)]' = [q \in Runs |-> Target(q)]
  BY <1>1 DEF Target
<1> DEFINE H == [t \in Tables |-> Holder(t)]
           V == [q \in Runs |-> Verdict(q)]
<1>3. V' = [V EXCEPT ![r] = Verdict(r)']
  <2>1. \A q \in Runs : Verdict(q)' = IF q = r THEN Verdict(r)' ELSE Verdict(q)
    BY <1>1, VerdictChange
  <2> QED BY <2>1
<1>4. CASE SwapStepOf(r)
  <2>1. PICK s \in Runs : s = catalog[prepared[r]].owner
    BY <1>4, SwapStep DEF SinkInv, OwnedInv, SwapStepOf
  <2>2. H' = [H EXCEPT ![Target(r)] = s]
    BY <1>1, <1>4, <2>1, HolderSwap DEF SinkInv
  <2>3. s = r \/ \E q \in Runs : V[q] = "unknown"
    <3>1. CASE ~SwapInDoubt
      BY <1>1, <1>4, <2>1, <3>1 DEF SinkInv, LoadedInv, StagingInv, CreatedBy, SwapStepOf, Working
    <3>2. CASE SwapInDoubt
      <4>1. PICK q \in Runs : result[q].partial
        BY <3>2 DEF SwapInDoubt
      <4>2. pc[q] # "succeeded"
        BY <4>1 DEF SinkInv, FlagInv
      <4> QED BY <4>1, <4>2 DEF Verdict
    <3> QED BY <3>1, <3>2
  <2>4. V[r] = "pending" /\ Verdict(r)' \in {"ok", "unknown", "crashed"}
    BY <1>1, <1>4, VerdictChange
  <2>5. Publication!Publish(r)
    BY <1>1, <1>2, <1>3, <2>2, <2>3, <2>4 DEF Publication!Publish, Publication!Doubt
  <2> QED BY <2>5 DEF Publication!Next
<1>5. CASE ~SwapStepOf(r)
  <2>1. H' = H
    <3>1. \A t \in Tables : catalog'[t] = catalog[t]
      BY <1>1, <1>5, TargetStep DEF SinkInv, Only
    <3> QED BY <3>1 DEF Holder, TableExists
  <2>2. CASE Verdict(r)' = Verdict(r)
    BY <1>2, <1>3, <2>1, <2>2 DEF Publication!pubVars
  <2>3. CASE Verdict(r)' # Verdict(r)
    <3>1. V[r] = "pending" /\ Verdict(r)' \in {"unchanged", "unknown", "crashed"}
      BY <1>1, <1>5, <2>3, VerdictChange
    <3>2. Publication!Decline(r)
      BY <1>2, <1>3, <2>1, <3>1 DEF Publication!Decline
    <3> QED BY <3>2 DEF Publication!Next
  <2> QED BY <2>2, <2>3
<1> QED BY <1>4, <1>5

\* Replace runs, any number of them on any targets, implement atomic publication with
\* an honest verdict, also when the acknowledgement of a swap is lost or a run crashes.
THEOREM ReplaceImplementsPublication ==
  ASSUME ReplaceOnly
  PROVE  Spec => ImplementsPublication
<1>1. Init => Publication!Init
  <2> SUFFICES ASSUME Init PROVE Publication!Init
    OBVIOUS
  <2>1. TypeInv
    BY TypeInit
  <2>2. [r \in Runs |-> Target(r)] \in [Runs -> Tables]
    BY <2>1, RunTypes
  <2>3. \A t \in Tables : Holder(t) \in {Pre, NoTable}
    BY SMTT(30) DEF Init, Holder, TableExists, ExistingTable, Names
  <2>4. \A r \in Runs : Verdict(r) = "pending"
    BY DEF Init, Verdict
  <2> QED BY <2>2, <2>3, <2>4 DEF Publication!Init
<1>2. SinkInv /\ OwnedInv /\ [Next]_vars => [Publication!Next]_(Publication!pubVars)
  <2> SUFFICES ASSUME SinkInv, OwnedInv, [Next]_vars
               PROVE  Publication!Next \/ UNCHANGED Publication!pubVars
    OBVIOUS
  <2>1. CASE UNCHANGED vars
    BY <2>1 DEF vars, Publication!pubVars, Target, Holder, Verdict, TableExists
  <2>2. CASE Next
    BY <2>1, <2>2, PublicationStep DEF Next, Terminated
  <2> QED BY <2>1, <2>2
<1> QED BY <1>1, <1>2, SinkInvariant, OwnedInvariant, PTL
        DEF Spec, ImplementsPublication, Publication!Spec
-----------------------------------------------------------------------------
(* Tables left behind. *)

\* Every statement that was applied is acknowledged.
ServerReliable == "lost" \notin Outcomes /\ "lost" \notin SwapOutcomes

\* Where the tables a run created are: under the name it prepared while it works,
\* under its target when it succeeded, and anywhere only when it crashed or reported
\* that cleanup failed.
LeftoverInv ==
  \A r \in Runs : \A n \in Names : CreatedBy(r, n) =>
    /\ Mode(r) # "append"
    /\ \/ pc[r] \in Working /\ n = prepared[r]
       \/ pc[r] = "succeeded" /\ n = Target(r)
       \/ pc[r] = "failed" /\ result[r].cleanup = "failed"
       \/ pc[r] = "crashed"

\* How a run moves between preparing, working and returning.
LEMMA RunMoves ==
  ASSUME TypeInv, ServerReliable, NEW r \in Runs, Step(r) \/ Crash(r)
  PROVE  \/ pc'[r] = "crashed"
         \/ pc[r] \notin Working /\ catalog' = catalog
         \/ /\ CreateStep(r) /\ Mode(r) # "append"
            /\ pc'[r] \in Working /\ prepared'[r] = CreatedName(r)
         \/ pc[r] \in Working /\ pc'[r] \in Working /\ prepared'[r] = prepared[r]
         \/ /\ pc[r] \in Working /\ pc'[r] = "succeeded"
            /\ SwapStepOf(r) \/ (catalog' = catalog /\ Mode(r) # "replace")
         \/ /\ pc[r] = "cleanup" /\ pc'[r] = "failed"
            /\ Mode(r) = "append" \/ DropStep(r) \/ result'[r].cleanup = "failed"
<1> USE DEF TypeInv, TypeOK, Continue, Goto, Abort, FailPrepared, Statement, Query, Working
<1>1. CASE Connect(r) \/ ProbeTargetCreate(r) \/ ProbeTargetReplace(r)
  BY <1>1 DEF Connect, ProbeTargetCreate, ProbeTargetReplace
<1>2. CASE ProbeTargetAppend(r) \/ ProbeStaging(r)
  BY <1>2 DEF ProbeTargetAppend, ProbeStaging
<1>3. CASE CreateTarget(r)
  <2>1. Mode(r) # "append" /\ pc[r] = "create"
    BY <1>3 DEF CreateTarget, PreparedInv
  <2>2. \/ catalog' = catalog
        \/ /\ CreateStep(r) /\ prepared' = [prepared EXCEPT ![r] = CreatedName(r)]
           /\ pc'[r] \in {"enable_lock", "count_before"}
    BY <1>3, SinkAssumption DEF CreateTarget, CreateAllowed, CreateStep, ServerReliable
  <2> QED BY <2>1, <2>2
<1>4. CASE EnableBulkLoadTableLock(r)
  BY <1>4 DEF EnableBulkLoadTableLock
<1>5. CASE CountBeforeAppend(r) \/ InitializeWriter(r)
  BY <1>5 DEF CountBeforeAppend, InitializeWriter
<1>6. CASE \E k \in BatchSizes : \E j \in StoredRows(k) : WriteBatch(r, k, j)
  BY <1>6 DEF WriteBatch
<1>7. CASE PollError(r) \/ FinishWriter(r) \/ \E k \in BatchSizes : RejectBatchSchema(r, k)
  BY <1>7 DEF PollError, FinishWriter, RejectBatchSchema
<1>8. CASE ValidateWrittenTarget(r)
  BY <1>8 DEF ValidateWrittenTarget, Validated, ValidationError, CountUnavailable
<1>9. CASE DisableBulkLoadTableLock(r)
  BY <1>9 DEF DisableBulkLoadTableLock
<1>10. CASE ProbeBackup(r) \/ BeginSwap(r)
  BY <1>10 DEF ProbeBackup, BeginSwap
<1>11. CASE CommitSwap(r)
  <2>1. pc'[r] = "succeeded" => SwapChecks(r) /\ catalog' = SwappedCatalog(r)
    BY <1>11 DEF CommitSwap
  <2> QED BY <1>11, <2>1 DEF CommitSwap, SwapStepOf
<1>12. CASE CleanupPreparedTarget(r)
  <2>1. pc'[r] = "failed" /\ pc[r] = "cleanup"
    BY <1>12 DEF CleanupPreparedTarget, SetCleanup
  <2>2. \/ Mode(r) = "append"
        \/ catalog' = DropTable(catalog, prepared[r]) /\ Mode(r) # "append"
        \/ result' = [result EXCEPT ![r].cleanup = "failed"]
    BY <1>12 DEF CleanupPreparedTarget, SetCleanup, DroppedName
  <2>3. [result EXCEPT ![r].cleanup = "failed"][r].cleanup = "failed"
    BY DEF Results
  <2> QED BY <2>1, <2>2, <2>3 DEF DropStep
<1>13. CASE Crash(r)
  BY <1>13 DEF Crash
<1> QED BY <1>1, <1>2, <1>3, <1>4, <1>5, <1>6, <1>7, <1>8, <1>9, <1>10, <1>11, <1>12,
           <1>13 DEF Step

\* A table gets a new owner only by being created, and a new name only by a swap.
LEMMA OwnerStep ==
  ASSUME TypeInv, LoadedInv, NEW r \in Runs, Step(r) \/ Crash(r), NEW n \in Names,
         NEW q \in Runs, CreatedBy(q, n)'
  PROVE  \/ CreatedBy(q, n)
         \/ q = r /\ CreateStep(r) /\ n = CreatedName(r)
         \/ q = r /\ SwapStepOf(r) /\ n = Target(r)
<1>1. catalog'[n] # NoTable /\ catalog'[n].owner = q
  BY DEF CreatedBy, TableExists
<1>2. NewTable(r).owner = r
  BY DEF NewTable
<1>3. SwapStepOf(r) => catalog[prepared[r]].owner = r
  BY SwapStep DEF SwapStepOf, LoadedInv, StagingInv, CreatedBy, Working
<1> QED BY <1>1, <1>2, <1>3, TableStep DEF CreatedBy, TableExists

\* Every step keeps account of the tables left behind.
LEMMA LeftoverStep ==
  ASSUME SinkInv, LeftoverInv, ServerReliable, NEW r \in Runs, Step(r) \/ Crash(r)
  PROVE  LeftoverInv'
<1>1. TypeInv /\ LoadedInv /\ ~SwapInDoubt'
  BY DEF SinkInv, ServerReliable, SwapInDoubt
<1>2. /\ plan' = plan /\ pc[r] \notin Terminal
      /\ \A q \in Runs \ {r} : /\ pc'[q] = pc[q] /\ prepared'[q] = prepared[q]
                               /\ result'[q] = result[q]
  BY <1>1, RunFrame
<1> SUFFICES ASSUME NEW q \in Runs, NEW n \in Names, CreatedBy(q, n)'
             PROVE  /\ Mode(q) # "append"
                    /\ \/ pc'[q] \in Working /\ n = prepared'[q]
                       \/ pc'[q] = "succeeded" /\ n = Target(q)
                       \/ pc'[q] = "failed" /\ result'[q].cleanup = "failed"
                       \/ pc'[q] = "crashed"
  BY <1>2 DEF LeftoverInv, Mode, Target, Working
<1>3. \/ CreatedBy(q, n)
      \/ q = r /\ CreateStep(r) /\ n = CreatedName(r)
      \/ q = r /\ SwapStepOf(r) /\ n = Target(r)
  BY <1>1, OwnerStep
<1>4. CASE q # r
  BY <1>2, <1>3, <1>4 DEF LeftoverInv
<1>5. CASE q = r
  <2>1. CreatedBy(r, n) => Mode(r) # "append" /\ pc[r] \in Working /\ n = prepared[r]
    BY <1>2 DEF LeftoverInv, Terminal
  <2>2. Mode(r) # "append"
    <3>1. SwapStepOf(r) => Mode(r) = "replace"
      BY <1>1, SwapStep DEF SwapStepOf
    <3>2. CreateStep(r) => Mode(r) # "append"
      BY <1>1 DEF CreateStep, TypeInv, PreparedInv
    <3> QED BY <1>3, <1>5, <2>1, <3>1, <3>2
  <2>3. catalog'[n] # NoTable
    BY DEF CreatedBy, TableExists
  <2>4. CreateStep(r) => pc[r] \notin Working /\ catalog' # catalog
    <3>1. CreateStep(r) => pc[r] = "create"
      BY DEF CreateStep
    <3>2. CreateStep(r) => catalog'[CreatedName(r)] # catalog[CreatedName(r)]
      <4>1. CreatedName(r) \in Names /\ NewTable(r) \in Table /\ catalog \in Catalog
        BY <1>1, RunTypes DEF NewTable, Table, NoRows, TypeInv, TypeOK
      <4> QED BY <4>1, ServerAssumption DEF CreateStep, CreateTable, TableExists, Catalog
    <3> QED BY <3>1, <3>2 DEF Working
  <2>5. SwapStepOf(r) => /\ pc[r] \in Working /\ pc'[r] \in {"succeeded", "crashed"}
                         /\ catalog'[prepared[r]] = NoTable
    BY <1>1, SwapStep DEF SwapStepOf, LostSwap, Working
  <2>6. CASE pc'[r] = "crashed"
    BY <1>5, <2>2, <2>6
  <2>7. CASE pc[r] \notin Working /\ catalog' = catalog
    BY <1>3, <1>5, <2>1, <2>4, <2>5, <2>7
  <2>8. CASE /\ CreateStep(r) /\ pc'[r] \in Working /\ prepared'[r] = CreatedName(r)
    BY <1>3, <1>5, <2>1, <2>2, <2>4, <2>5, <2>8
  <2>9. CASE pc[r] \in Working /\ pc'[r] \in Working /\ prepared'[r] = prepared[r]
    BY <1>3, <1>5, <2>1, <2>2, <2>4, <2>5, <2>9 DEF Working
  <2>10. CASE /\ pc[r] \in Working /\ pc'[r] = "succeeded"
              /\ SwapStepOf(r) \/ (catalog' = catalog /\ Mode(r) # "replace")
    <3>1. pc[r] \in Working /\ Mode(r) # "replace" => prepared[r] = Target(r)
      BY <1>1, RunTypes
    <3> QED BY <1>3, <1>5, <2>1, <2>2, <2>3, <2>4, <2>5, <2>10, <3>1
  <2>11. CASE /\ pc[r] = "cleanup" /\ pc'[r] = "failed"
              /\ Mode(r) = "append" \/ DropStep(r) \/ result'[r].cleanup = "failed"
    <3>1. DropStep(r) => catalog'[prepared[r]] = NoTable
      <4>1. catalog \in Catalog /\ prepared[r] \in Names
        BY <1>1, <2>11, RunTypes DEF TypeInv, TypeOK, Working
      <4> QED BY <4>1 DEF DropStep, DropTable, Catalog
    <3>2. pc[r] \in Working
      BY <2>11 DEF Working
    <3> QED BY <1>3, <1>5, <2>1, <2>2, <2>3, <2>4, <2>5, <2>11, <3>1, <3>2
  <2> QED BY <1>1, <2>6, <2>7, <2>8, <2>9, <2>10, <2>11, RunMoves
<1> QED BY <1>4, <1>5

\* With a server that acknowledges what it applies, no run that returned leaves a table
\* behind unless it says so: any number of runs, of any load modes.
THEOREM NothingLeftBehind ==
  ASSUME ServerReliable
  PROVE  Spec => []NoLeftovers
<1>1. Init => LeftoverInv
  BY SMTT(30), ServerAssumption DEF Init, LeftoverInv, CreatedBy, TableExists, ExistingTable
<1>2. SinkInv /\ LeftoverInv /\ [Next]_vars => LeftoverInv'
  <2> SUFFICES ASSUME SinkInv, LeftoverInv, [Next]_vars PROVE LeftoverInv'
    OBVIOUS
  <2>1. CASE UNCHANGED vars
    BY <2>1 DEF vars, LeftoverInv, CreatedBy, TableExists, Mode, Target
  <2> QED BY <2>1, LeftoverStep DEF Next, Terminated
<1>3. SinkInv /\ LeftoverInv => NoLeftovers
  <2> SUFFICES ASSUME SinkInv, LeftoverInv, NEW r \in Runs
               PROVE  /\ pc[r] = "succeeded" => \A n \in AuxNames : ~CreatedBy(r, n)
                      /\ (pc[r] = "failed" /\ result[r].cleanup # "failed")
                           => \A n \in Names : ~CreatedBy(r, n)
    BY DEF NoLeftovers
  <2>1. Target(r) \notin AuxNames /\ AuxNames \subseteq Names
    BY RunTypes, NamesAssumption DEF SinkInv, Names
  <2> QED BY <2>1 DEF LeftoverInv, Working
<1> QED BY <1>1, <1>2, <1>3, SinkInvariant, PTL DEF Spec
-----------------------------------------------------------------------------
(* What a create-and-load run delivers. *)

\* From CREATE TABLE on, the target of a create-and-load run is the table the run
\* created, provided that only create-and-load runs use the name.
CreateInv ==
  \A r \in Runs : (Mode(r) = "create" /\ Only("create", Target(r))) =>
    /\ pc[r] \in Working \cup {"succeeded"} => CreatedBy(r, Target(r))
    /\ (pc[r] = "succeeded" /\ result[r].validation = "passed")
         => catalog[Target(r)].count = job[r].inRows

\* How a create-and-load run gets to work and how it succeeds.
LEMMA CreateMoves ==
  ASSUME TypeInv, NEW r \in Runs, Step(r) \/ Crash(r), Mode(r) = "create",
         pc'[r] \in Working \cup {"succeeded"}
  PROVE  /\ CreateStep(r) \/ pc[r] \in Working
         /\ pc'[r] = "succeeded" =>
              /\ catalog' = catalog /\ job'[r].inRows = job[r].inRows /\ pc[r] = "validate"
              /\ result'[r].validation = "passed" => CountMatches(r)
<1> USE DEF TypeInv, TypeOK, Continue, Goto, Abort, FailPrepared, Statement, Query, Working
<1>1. CASE \/ Connect(r) \/ ProbeTargetCreate(r) \/ ProbeTargetReplace(r)
           \/ ProbeTargetAppend(r) \/ ProbeStaging(r)
  BY <1>1 DEF Connect, ProbeTargetCreate, ProbeTargetReplace, ProbeTargetAppend, ProbeStaging
<1>2. CASE CreateTarget(r)
  BY <1>2 DEF CreateTarget, CreateAllowed, CreateStep
<1>3. CASE EnableBulkLoadTableLock(r)
  BY <1>3 DEF EnableBulkLoadTableLock
<1>4. CASE CountBeforeAppend(r) \/ InitializeWriter(r)
  BY <1>4 DEF CountBeforeAppend, InitializeWriter
<1>5. CASE \E k \in BatchSizes : \E j \in StoredRows(k) : WriteBatch(r, k, j)
  BY <1>5 DEF WriteBatch
<1>6. CASE PollError(r) \/ FinishWriter(r) \/ \E k \in BatchSizes : RejectBatchSchema(r, k)
  BY <1>6 DEF PollError, FinishWriter, RejectBatchSchema
<1>7. CASE ValidateWrittenTarget(r)
  <2>1. pc[r] = "validate" /\ catalog' = catalog
    BY <1>7 DEF ValidateWrittenTarget
  <2>2. CASE pc'[r] # "succeeded"
    BY <2>1, <2>2
  <2>3. CASE pc'[r] = "succeeded"
    <3>1. \/ Validated(r, "passed") /\ CountMatches(r)
          \/ \E status \in {"disabled", "unavailable"} : Validated(r, status)
      BY <1>7, <2>3 DEF ValidateWrittenTarget, ValidationError, CountUnavailable
    <3>2. job'[r].inRows = job[r].inRows
      BY SMTT(30), <3>1 DEF Validated, Jobs
    <3>3. result'[r].validation = "passed" => CountMatches(r)
      BY SMTT(30), <3>1 DEF Validated, Results
    <3> QED BY <2>1, <3>2, <3>3
  <2> QED BY <2>2, <2>3
<1>8. CASE DisableBulkLoadTableLock(r)
  BY <1>8 DEF DisableBulkLoadTableLock
<1>9. CASE ProbeBackup(r) \/ BeginSwap(r)
  BY <1>9 DEF ProbeBackup, BeginSwap
<1>10. CASE CommitSwap(r)
  BY <1>10 DEF CommitSwap, PreparedInv, ReplaceLabels
<1>11. CASE CleanupPreparedTarget(r)
  BY <1>11 DEF CleanupPreparedTarget, SetCleanup
<1>12. CASE Crash(r)
  BY <1>12 DEF Crash
<1> QED BY <1>1, <1>2, <1>3, <1>4, <1>5, <1>6, <1>7, <1>8, <1>9, <1>10, <1>11, <1>12 DEF Step

\* Every step keeps what create-and-load runs delivered.
LEMMA CreateInvStep ==
  ASSUME TypeInv, CreateInv, NEW r \in Runs, Step(r) \/ Crash(r)
  PROVE  CreateInv'
<1>1. /\ plan' = plan /\ pc[r] \notin Terminal
      /\ \A q \in Runs \ {r} : /\ pc'[q] = pc[q] /\ job'[q] = job[q]
                               /\ result'[q] = result[q]
  BY RunFrame
<1> SUFFICES ASSUME NEW q \in Runs, Mode(q) = "create", Only("create", Target(q))
             PROVE  /\ pc'[q] \in Working \cup {"succeeded"} =>
                         catalog'[Target(q)] # NoTable /\ catalog'[Target(q)].owner = q
                    /\ (pc'[q] = "succeeded" /\ result'[q].validation = "passed")
                         => catalog'[Target(q)].count = job'[q].inRows
  BY <1>1 DEF CreateInv, Only, Mode, Target, CreatedBy, TableExists, Working
<1>2. PICK t \in Tables : t = Target(q)
  BY RunTypes
<1>3. t \in Names /\ t \notin AuxNames /\ Target(r) \in Tables
  BY RunTypes, NamesAssumption DEF Names
<1>4. ASSUME NEW s \in Runs, pc[s] \in Working, prepared[s] = t
      PROVE  catalog[t] # NoTable /\ catalog[t].owner = s
  <2>1. Mode(s) # "replace"
    BY <1>3, <1>4, RunTypes
  <2>2. Target(s) = t
    BY <1>4, <2>1, RunTypes
  <2>3. Mode(s) = "create" /\ Only("create", Target(s))
    BY <1>2, <2>2 DEF Only
  <2> QED BY <1>4, <2>2, <2>3 DEF CreateInv, CreatedBy, TableExists
<1>5. SwapStepOf(r) => t # Target(r) /\ t # prepared[r]
  <2>1. SwapStepOf(r) => Mode(r) = "replace" /\ prepared[r] \in AuxNames
    BY SwapStep DEF SwapStepOf
  <2> QED BY <1>2, <1>3, <2>1 DEF Only
<1>6. CASE q # r
  <2>1. CASE pc[q] \in Working \cup {"succeeded"}
    <3>1. catalog[t] # NoTable /\ catalog[t].owner = q
      BY <1>2, <2>1 DEF CreateInv, CreatedBy, TableExists
    <3>2. pc[r] \in Working => t # prepared[r]
      BY <1>4, <1>6, <3>1
    <3>3. InsertStep(r) \/ LockStep(r) \/ DropStep(r) => pc[r] \in Working
      BY DEF InsertStep, LockStep, DropStep, Working
    <3>4. catalog'[t] = catalog[t]
      BY <1>3, <1>5, <3>1, <3>2, <3>3, TableStep
    <3> QED BY <1>1, <1>2, <1>6, <3>1, <3>4 DEF CreateInv
  <2>2. CASE pc[q] \notin Working \cup {"succeeded"}
    BY <1>1, <1>6, <2>2
  <2> QED BY <2>1, <2>2
<1>7. CASE q = r
  <2> SUFFICES ASSUME pc'[r] \in Working \cup {"succeeded"}
               PROVE  /\ catalog'[t] # NoTable /\ catalog'[t].owner = r
                      /\ (pc'[r] = "succeeded" /\ result'[r].validation = "passed")
                           => catalog'[t].count = job'[r].inRows
    BY <1>2, <1>7
  <2>1. /\ CreateStep(r) \/ pc[r] \in Working
        /\ pc'[r] = "succeeded" =>
             /\ catalog' = catalog /\ job'[r].inRows = job[r].inRows /\ pc[r] = "validate"
             /\ result'[r].validation = "passed" => CountMatches(r)
    BY <1>7, CreateMoves
  <2>2. NewTable(r).owner = r
    BY DEF NewTable
  <2>3. CreatedName(r) = t
    BY <1>2, <1>7 DEF CreatedName
  <2>4. CASE CreateStep(r)
    <3>1. pc[r] = "create" /\ NewTable(r) \in Table /\ catalog \in Catalog
      BY <2>4 DEF CreateStep, NewTable, Table, NoRows, TypeInv, TypeOK
    <3>2. catalog'[t] = NewTable(r)
      BY <1>3, <2>3, <2>4, <3>1 DEF CreateStep, CreateTable, Catalog
    <3> QED BY <2>1, <2>2, <3>1, <3>2, ServerAssumption
  <2>5. CASE pc[r] \in Working
    <3>1. catalog[t] # NoTable /\ catalog[t].owner = r /\ prepared[r] = t
      BY <1>2, <1>7, <2>5, RunTypes DEF CreateInv, CreatedBy, TableExists
    <3>2. ~DropStep(r)
      BY DEF DropStep, Working
    <3>3. catalog'[t] # NoTable /\ catalog'[t].owner = r
      BY <1>3, <1>5, <2>2, <3>1, <3>2, TableStep
    <3> QED BY <1>7, <2>1, <3>1, <3>3 DEF CountMatches
  <2> QED BY <2>1, <2>4, <2>5
<1> QED BY <1>6, <1>7

\* A create-and-load run that succeeds with a passed validation has delivered exactly
\* the rows of its stream, for any number of runs racing for the name and whatever
\* acknowledgements are lost.
THEOREM CreateDelivers == Spec => []CreateDelivered
<1>1. Init => CreateInv
  BY DEF Init, CreateInv, Working
<1>2. TypeInv /\ CreateInv /\ [Next]_vars => CreateInv'
  <2> SUFFICES ASSUME TypeInv, CreateInv, [Next]_vars PROVE CreateInv'
    OBVIOUS
  <2>1. CASE UNCHANGED vars
    BY <2>1 DEF vars, CreateInv, CreatedBy, TableExists, Mode, Target, Only
  <2> QED BY <2>1, CreateInvStep DEF Next, Terminated
<1>3. CreateInv => CreateDelivered
  BY DEF CreateInv, CreateDelivered
<1>4. Init => TypeInv
  BY TypeInit
<1>5. TypeInv /\ [Next]_vars => TypeInv'
  BY TypeStep
<1> QED BY <1>1, <1>2, <1>3, <1>4, <1>5, PTL DEF Spec
-----------------------------------------------------------------------------
(* What an append run may say about its target. *)

BeforeWriting == {"connect", "probe_target", "count_before", "init_writer"}

\* The first batch of run r may have been stored without an acknowledgement.
FirstBatchInDoubt(r) ==
  /\ "lost" \in Outcomes /\ pc[r] \in {"cleanup", "failed", "crashed"}
  /\ result[r].phase = "write_batch"

\* A run without an accepted batch has no row in any table, those of a first batch in
\* doubt excepted, and an append run that failed before validation without the flag has
\* no accepted batch.
AppendInv ==
  /\ \A r \in Runs : job[r].batches = 0 =>
       \A n \in Names : TableExists(catalog, n) =>
         \/ catalog[n].from[r] = 0
         \/ FirstBatchInDoubt(r) /\ catalog[n].from[r] <= job[r].inRows
  /\ \A r \in Runs : Mode(r) = "append" =>
       /\ pc[r] \in BeforeWriting => job[r].batches = 0
       /\ (/\ pc[r] \in {"cleanup", "failed"}
           /\ result[r].phase # "validation" /\ ~result[r].partial) => job[r].batches = 0

\* A batch that is stored is counted, or it is the one that leaves the run in doubt.
LostBatch(r) ==
  /\ FirstBatchInDoubt(r)'
  /\ \E k \in Nat : /\ job'[r].inRows = job[r].inRows + k
                    /\ \E j \in 0 .. k : catalog' = InsertRows(catalog, prepared[r], r, j)

\* The batch counter follows the rows a run stores; it is never reset.
LEMMA BatchStep ==
  ASSUME TypeInv, NEW r \in Runs, Step(r) \/ Crash(r)
  PROVE  /\ job'[r].batches \in {job[r].batches, job[r].batches + 1}
         /\ (pc[r] = "write" /\ catalog' # catalog) =>
              job'[r].batches = job[r].batches + 1 \/ LostBatch(r)
<1> USE DEF TypeInv, TypeOK
<1>0. job \in [Runs -> Jobs] /\ job[r] \in Jobs /\ job[r].batches \in Nat
  BY SMTT(30), SinkAssumption DEF Jobs
<1> USE <1>0
<1>1. CASE \/ Connect(r) \/ ProbeTargetAppend(r) \/ ProbeTargetCreate(r)
           \/ ProbeTargetReplace(r) \/ CreateTarget(r) \/ InitializeWriter(r)
           \/ DisableBulkLoadTableLock(r) \/ BeginSwap(r) \/ CommitSwap(r)
           \/ CleanupPreparedTarget(r) \/ Crash(r)
  BY <1>1 DEF Connect, ProbeTargetAppend, ProbeTargetCreate, ProbeTargetReplace,
              CreateTarget, InitializeWriter, DisableBulkLoadTableLock, BeginSwap,
              CommitSwap, CleanupPreparedTarget, Crash
<1>2. CASE ProbeStaging(r) \/ ProbeBackup(r)
  BY <1>2 DEF ProbeStaging, ProbeBackup, NextAttempt, Jobs
<1>3. CASE EnableBulkLoadTableLock(r)
  <2>1. pc[r] # "write"
    BY <1>3 DEF EnableBulkLoadTableLock
  <2>2. job' = [job EXCEPT ![r].lockOn = TRUE] \/ job' = job
    BY <1>3 DEF EnableBulkLoadTableLock, Statement
  <2>3. job'[r].batches = job[r].batches
    BY <2>2 DEF Jobs
  <2> QED BY <2>1, <2>3
<1>4. CASE CountBeforeAppend(r)
  BY SMTT(30), <1>4 DEF CountBeforeAppend, Jobs
<1>5. ASSUME NEW k \in BatchSizes, NEW j \in StoredRows(k), WriteBatch(r, k, j)
      PROVE  /\ job'[r].batches \in {job[r].batches, job[r].batches + 1}
             /\ catalog' # catalog => job'[r].batches = job[r].batches + 1 \/ LostBatch(r)
  <2>1. \/ /\ catalog' = catalog \/ (catalog' = InsertRows(catalog, prepared[r], r, j) /\ "lost" \in Outcomes)
           /\ job' = [job EXCEPT ![r].inRows = @ + k]
           /\ pc' = [pc EXCEPT ![r] = "cleanup"]
           /\ result' = [result EXCEPT ![r].phase = "write_batch", ![r].partial = PartialWritePossible(r)]
        \/ job' = [job EXCEPT ![r].inRows = @ + k, ![r].rows = @ + k, ![r].batches = @ + 1]
    BY <1>5, SinkAssumption DEF WriteBatch, Statement, FailPrepared, Goto
  <2>2. k \in Nat /\ j \in 0 .. k
    BY SMTT(30), SinkAssumption DEF StoredRows
  <2>3. CASE job' = [job EXCEPT ![r].inRows = @ + k, ![r].rows = @ + k, ![r].batches = @ + 1]
    BY SMTT(30), <2>3 DEF Jobs
  <2>4. CASE /\ catalog' = catalog \/ (catalog' = InsertRows(catalog, prepared[r], r, j) /\ "lost" \in Outcomes)
             /\ job' = [job EXCEPT ![r].inRows = @ + k]
             /\ pc' = [pc EXCEPT ![r] = "cleanup"]
             /\ result' = [result EXCEPT ![r].phase = "write_batch", ![r].partial = PartialWritePossible(r)]
    <3>1. job'[r].batches = job[r].batches /\ job'[r].inRows = job[r].inRows + k
      BY <2>4 DEF Jobs
    <3>2. pc'[r] = "cleanup" /\ result'[r].phase = "write_batch"
      BY <2>4 DEF Results
    <3> QED BY <2>2, <2>4, <3>1, <3>2 DEF LostBatch, FirstBatchInDoubt
  <2> QED BY <2>1, <2>3, <2>4
<1>6. CASE \E k \in BatchSizes : RejectBatchSchema(r, k)
  BY <1>6 DEF RejectBatchSchema, Jobs
<1>7. CASE PollError(r) \/ FinishWriter(r)
  BY <1>7 DEF PollError, FinishWriter, Query, Jobs
<1>8. CASE ValidateWrittenTarget(r)
  BY SMTT(30), <1>8 DEF ValidateWrittenTarget, Validated, ValidationError, CountUnavailable, Jobs
<1> QED BY <1>1, <1>2, <1>3, <1>4, <1>5, <1>6, <1>7, <1>8 DEF Step

\* A run whose first batch is in doubt only cleans up, or stops.
LEMMA DoubtStays ==
  ASSUME TypeInv, NEW r \in Runs, Step(r) \/ Crash(r), FirstBatchInDoubt(r)
  PROVE  FirstBatchInDoubt(r)' /\ job'[r] = job[r]
<1>1. pc[r] = "cleanup" /\ "lost" \in Outcomes /\ result[r].phase = "write_batch"
  BY RunFrame DEF FirstBatchInDoubt, Terminal
<1>2. CleanupPreparedTarget(r) \/ Crash(r)
  BY <1>1 DEF Step, Connect, ProbeTargetAppend, ProbeTargetCreate, ProbeTargetReplace,
              ProbeStaging, CreateTarget, EnableBulkLoadTableLock, CountBeforeAppend,
              InitializeWriter, WriteBatch, RejectBatchSchema, PollError, FinishWriter,
              ValidateWrittenTarget, DisableBulkLoadTableLock, ProbeBackup, BeginSwap,
              CommitSwap
<1>3. job' = job
  BY <1>2 DEF CleanupPreparedTarget, Crash
<1>4. pc'[r] \in {"failed", "crashed"}
  BY <1>2 DEF CleanupPreparedTarget, Crash, Statement, SetCleanup, Continue, Goto, TypeInv, TypeOK
<1>5. result'[r].phase = result[r].phase
  <2>1. result' = result \/ \E c \in CleanupStatuses : result' = [result EXCEPT ![r].cleanup = c]
    BY <1>2 DEF CleanupPreparedTarget, Crash, Statement, SetCleanup, Continue, CleanupStatuses
  <2> QED BY <2>1 DEF TypeInv, TypeOK, Results
<1> QED BY <1>1, <1>3, <1>4, <1>5 DEF FirstBatchInDoubt

\* How an append run gets from label to label, and what it says when it fails.
LEMMA AppendMoves ==
  ASSUME TypeInv, NEW r \in Runs, Step(r) \/ Crash(r), Mode(r) = "append"
  PROVE  /\ pc'[r] \in BeforeWriting => pc[r] \in BeforeWriting /\ job'[r].batches = job[r].batches
         /\ (/\ pc'[r] \in {"cleanup", "failed"}
             /\ result'[r].phase # "validation" /\ ~result'[r].partial) =>
              /\ job'[r].batches = job[r].batches
              /\ \/ pc[r] \in BeforeWriting
                 \/ ~PartialWritePossible(r)
                 \/ pc[r] = "cleanup" /\ result[r].phase # "validation" /\ ~result[r].partial
<1> USE DEF TypeInv, TypeOK, Continue, Goto, Abort, FailPrepared, Query, BeforeWriting
<1>0. pc[r] \notin ReplaceLabels \cup {"create"}
  BY DEF PreparedInv, ReplaceLabels
<1>1. CASE \/ Connect(r) \/ ProbeTargetAppend(r) \/ ProbeTargetCreate(r)
           \/ ProbeTargetReplace(r) \/ InitializeWriter(r)
  BY <1>1 DEF Connect, ProbeTargetAppend, ProbeTargetCreate, ProbeTargetReplace,
              InitializeWriter
<1>2. CASE \/ ProbeStaging(r) \/ CreateTarget(r) \/ EnableBulkLoadTableLock(r)
           \/ DisableBulkLoadTableLock(r) \/ ProbeBackup(r) \/ BeginSwap(r) \/ CommitSwap(r)
  BY <1>0, <1>2 DEF ProbeStaging, CreateTarget, EnableBulkLoadTableLock, ReplaceLabels,
              DisableBulkLoadTableLock, ProbeBackup, BeginSwap, CommitSwap
<1>3. CASE CountBeforeAppend(r)
  BY SMTT(30), <1>3 DEF CountBeforeAppend, Jobs, Results
<1>4. ASSUME NEW k \in BatchSizes, NEW j \in StoredRows(k), WriteBatch(r, k, j),
             pc'[r] # "write"
      PROVE  /\ job'[r].batches = job[r].batches /\ pc'[r] = "cleanup"
             /\ result'[r].partial = PartialWritePossible(r)
  <2>1. /\ FailPrepared(r, "write_batch", PartialWritePossible(r))
        /\ job' = [job EXCEPT ![r].inRows = @ + k]
    BY <1>4 DEF WriteBatch, Statement
  <2> QED BY <2>1 DEF Jobs, Results
<1>5. ASSUME NEW k \in BatchSizes, RejectBatchSchema(r, k)
      PROVE  /\ job'[r].batches = job[r].batches /\ pc'[r] = "cleanup"
             /\ result'[r].partial = PartialWritePossible(r)
  BY <1>5 DEF RejectBatchSchema, Jobs, Results
<1>6. CASE PollError(r)
  BY <1>6 DEF PollError, Results
<1>7. CASE FinishWriter(r)
  BY SMTT(30), <1>7 DEF FinishWriter, Results, Jobs
<1>8. CASE ValidateWrittenTarget(r)
  BY SMTT(30), <1>8 DEF ValidateWrittenTarget, Validated, ValidationError, CountUnavailable, Results
<1>9. CASE CleanupPreparedTarget(r)
  BY SMTT(30), <1>9 DEF CleanupPreparedTarget, SetCleanup, Results
<1>10. CASE Crash(r)
  BY <1>10 DEF Crash
<1>11. (\E k \in BatchSizes : \E j \in StoredRows(k) : WriteBatch(r, k, j)) => pc[r] = "write"
  BY DEF WriteBatch
<1> QED BY <1>1, <1>2, <1>3, <1>4, <1>5, <1>6, <1>7, <1>8, <1>9, <1>10, <1>11 DEF Step

\* Every step keeps the account of rows and flags.
LEMMA AppendInvStep ==
  ASSUME TypeInv, AppendInv, NEW r \in Runs, Step(r) \/ Crash(r)
  PROVE  AppendInv'
<1>1. /\ plan' = plan
      /\ \A q \in Runs \ {r} : /\ pc'[q] = pc[q] /\ job'[q] = job[q]
                               /\ result'[q] = result[q]
  BY RunFrame
<1>2. /\ job[r].batches \in Nat /\ job[r].rows \in Nat /\ job[r].inRows \in Nat
      /\ catalog \in Catalog
      /\ pc[r] \in Working => prepared[r] \in Names
  BY SMTT(30), RunTypes, SinkAssumption DEF TypeInv, TypeOK, Jobs
<1>3. \A q \in Runs : job'[q].batches = 0 => job[q].batches = 0
  BY SMTT(30), <1>1, <1>2, BatchStep
<1>4. ASSUME NEW q \in Runs, job'[q].batches = 0, NEW n \in Names, catalog'[n] # NoTable
      PROVE  \/ catalog'[n].from[q] = 0
             \/ FirstBatchInDoubt(q)' /\ catalog'[n].from[q] <= job'[q].inRows
  <2>1. \A m \in Names : catalog[m] # NoTable =>
          \/ catalog[m].from[q] = 0
          \/ FirstBatchInDoubt(q) /\ catalog[m].from[q] <= job[q].inRows
    BY <1>3, <1>4 DEF AppendInv, TableExists
  <2>2. FirstBatchInDoubt(q) => FirstBatchInDoubt(q)' /\ job'[q] = job[q]
    <3>1. CASE q # r
      BY <1>1, <3>1 DEF FirstBatchInDoubt
    <3>2. CASE q = r
      BY <3>2, DoubtStays
    <3> QED BY <3>1, <3>2
  <2>3. ASSUME NEW m \in Names, catalog[m] # NoTable, catalog'[n].from[q] = catalog[m].from[q]
        PROVE  \/ catalog'[n].from[q] = 0
               \/ FirstBatchInDoubt(q)' /\ catalog'[n].from[q] <= job'[q].inRows
    BY <2>1, <2>2, <2>3
  <2>4. CASE catalog'[n] = catalog[n]
    BY <1>4, <2>3, <2>4
  <2>5. CASE catalog'[n] = NewTable(r)
    BY SMTT(30), <2>5 DEF NewTable, NoRows
  <2>6. CASE /\ InsertStep(r) /\ n = prepared[r] /\ catalog[n] # NoTable /\ catalog'[n] # catalog[n]
             /\ \E j \in Nat : catalog'[n].from = [catalog[n].from EXCEPT ![r] = @ + j]
    <3>1. pc[r] = "write" /\ catalog' # catalog
      BY <2>6 DEF InsertStep
    <3>2. catalog[n] \in Table
      BY <1>2, <2>6 DEF Catalog
    <3>3. CASE q # r
      <4>1. catalog'[n].from[q] = catalog[n].from[q]
        BY <2>6, <3>2, <3>3 DEF Table
      <4> QED BY <2>3, <2>6, <4>1
    <3>4. CASE q = r
      <4>1. LostBatch(r)
        BY SMTT(30), <1>2, <1>4, <3>1, <3>4, BatchStep
      <4>2. PICK k \in Nat : /\ job'[r].inRows = job[r].inRows + k
                             /\ \E j \in 0 .. k : catalog' = InsertRows(catalog, prepared[r], r, j)
        BY <4>1 DEF LostBatch
      <4>3. PICK j \in 0 .. k : catalog' = InsertRows(catalog, n, r, j)
        BY <2>6, <4>2
      <4>4. catalog'[n].from[r] = catalog[n].from[r] + j
        <5>1. j \in Nat /\ TableExists(catalog, n)
          BY SMTT(30), <2>6 DEF TableExists
        <5>2. InsertRows(catalog, n, r, j)[n].from[r] = catalog[n].from[r] + j
          BY <1>2, <5>1, InsertEffects
        <5> QED BY <4>3, <5>2
      <4>5. catalog[n].from[r] = 0
        BY <2>6, <2>1, <3>1, <3>4 DEF FirstBatchInDoubt
      <4>6. catalog'[n].from[r] <= job'[r].inRows
        BY SMTT(30), <1>2, <4>2, <4>4, <4>5
      <4> QED BY <3>4, <4>1, <4>6 DEF LostBatch
    <3> QED BY <3>3, <3>4
  <2>7. CASE catalog[n] # NoTable /\ catalog'[n].from = catalog[n].from
    BY <2>3, <2>7
  <2>8. CASE SwapStepOf(r) /\ catalog'[n] = catalog[prepared[r]]
    <3>1. prepared[r] \in Names
      BY <1>2, <2>8 DEF SwapStepOf, Working
    <3>2. catalog[prepared[r]] # NoTable
      BY <1>4, <2>8
    <3> QED BY <2>3, <2>8, <3>1, <3>2
  <2> QED BY <1>4, <2>4, <2>5, <2>6, <2>7, <2>8, TableStep
<1>5. ASSUME NEW q \in Runs, Mode(q) = "append"
      PROVE  /\ pc'[q] \in BeforeWriting => job'[q].batches = 0
             /\ (/\ pc'[q] \in {"cleanup", "failed"}
                 /\ result'[q].phase # "validation" /\ ~result'[q].partial)
                  => job'[q].batches = 0
  <2>1. CASE q # r
    BY <1>1, <1>5, <2>1 DEF AppendInv
  <2>2. CASE q = r
    <3>1. ~PartialWritePossible(r) => job[r].batches = 0
      BY SMTT(30), <1>2, <1>5, <2>2 DEF PartialWritePossible
    <3> QED BY <1>5, <2>2, <3>1, AppendMoves DEF AppendInv
  <2> QED BY <2>1, <2>2
<1> QED BY <1>1, <1>4, <1>5 DEF AppendInv, TableExists, Mode

\* An append run that fails before validation and reports no possible partial write has
\* added no row, or only rows of a first batch whose acknowledgement was lost: for any
\* number of runs and batches and whatever acknowledgements are lost.
THEOREM AppendFlagHolds == Spec => []AppendFlagBeforeValidation
<1>1. Init => AppendInv
  <2> SUFFICES ASSUME Init PROVE AppendInv
    OBVIOUS
  <2>1. \A n \in Names : TableExists(catalog, n) => catalog[n].from = NoRows
    BY SMTT(30) DEF Init, ExistingTable, TableExists
  <2>2. \A r \in Runs : job[r].batches = 0
    BY DEF Init
  <2> QED BY <2>1, <2>2 DEF AppendInv, NoRows
<1>2. TypeInv /\ AppendInv /\ [Next]_vars => AppendInv'
  <2> SUFFICES ASSUME TypeInv, AppendInv, [Next]_vars PROVE AppendInv'
    OBVIOUS
  <2>1. CASE UNCHANGED vars
    BY <2>1 DEF vars, AppendInv, FirstBatchInDoubt, TableExists, Mode
  <2> QED BY <2>1, AppendInvStep DEF Next, Terminated
<1>3. AppendInv => AppendFlagBeforeValidation
  BY DEF AppendInv, AppendFlagBeforeValidation, FirstBatchInDoubt
<1>4. Init => TypeInv
  BY TypeInit
<1>5. TypeInv /\ [Next]_vars => TypeInv'
  BY TypeStep
<1> QED BY <1>1, <1>2, <1>3, <1>4, <1>5, PTL DEF Spec
=============================================================================
