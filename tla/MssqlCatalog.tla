---------------------------- MODULE MssqlCatalog ----------------------------
(***************************************************************************)
(* The SQL Server catalog as the sink of Delta Funnel sees it: a table is  *)
(* reached only by its name, one statement at a time.  The operators of    *)
(* this module are the effects of the statements the code sends            *)
(* (src/crates/delta-funnel/src/sql_server/execution/lifecycle.rs and the  *)
(* arrow_sql_server client calls of sink.rs, connection.rs and write.rs).  *)
(*                                                                         *)
(* A table records, beside its row count, which run created it and how     *)
(* many of its rows each run wrote.  The program never reads these two     *)
(* fields: they are what the properties talk about.                        *)
(***************************************************************************)
EXTENDS Naturals

CONSTANTS
  Runs,         \* executions of the one-output sink that share the server
  Tables,       \* final target tables
  Bases,        \* truncated base names of auxiliary tables
  AuxBase,      \* the base name of each auxiliary name of a final table
  MaxAttempts,  \* auxiliary names tried per kind (0..100_u8 in the code)
  Pre,          \* creator of every table that was there before the runs
  NoTable       \* a name that no table has

Attempts == 0 .. (MaxAttempts - 1)

\* Names of staging and backup tables: a final name, cut to leave room for the
\* suffix, then the suffix with its attempt.  Two long final names can be cut to the
\* same base, so AuxBase need not be injective.
Kinds == {"replace", "backup"}

AuxNames == Bases \X Kinds \X Attempts

Names == Tables \cup AuxNames

StagingName(t, a) == <<AuxBase[<<t, "replace", a>>], "replace", a>>

BackupName(t, a) == <<AuxBase[<<t, "backup", a>>], "backup", a>>

Table == [owner    : Runs \cup {Pre},
          count    : Nat,
          from     : [Runs -> Nat],
          bulkLock : BOOLEAN]

ASSUME NamesAssumption ==
  /\ AuxBase \in [Tables \X Kinds \X Attempts -> Bases]
  /\ Tables \cap AuxNames = {}
  /\ MaxAttempts \in Nat \ {0}

ASSUME ServerAssumption ==
  /\ Pre \notin Runs
  /\ NoTable \notin Table

Catalog == [Names -> Table \cup {NoTable}]

NoRows == [r \in Runs |-> 0]

NewTable(r) ==
  [owner |-> r, count |-> 0, from |-> NoRows, bulkLock |-> FALSE]

ExistingTable(n) ==
  [owner |-> Pre, count |-> n, from |-> NoRows, bulkLock |-> FALSE]

-----------------------------------------------------------------------------
(* The statements. *)

TableExists(c, n) == c[n] # NoTable

CreateTable(c, n, r) == [c EXCEPT ![n] = NewTable(r)]

DropTable(c, n) == [c EXCEPT ![n] = NoTable]

InsertRows(c, n, r, k) ==
  [c EXCEPT ![n].count = @ + k, ![n].from[r] = @ + k]

SetBulkLoadTableLock(c, n, enabled) ==
  [c EXCEPT ![n].bulkLock = enabled]

Rename(c, old, new) == [c EXCEPT ![new] = c[old], ![old] = NoTable]

\* The checks of the swap transaction, made after its lock is held.
SwapAllowed(c, staging, backup) ==
  /\ TableExists(c, staging)
  /\ ~TableExists(c, backup)

\* What the swap transaction commits: the old target leaves under the backup
\* name and is dropped, the staging table takes the final name.
SwapTables(c, final, staging, backup) ==
  IF TableExists(c, final)
    THEN DropTable(Rename(Rename(c, final, backup), staging, final), backup)
    ELSE Rename(c, staging, final)
=============================================================================
