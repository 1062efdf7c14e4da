----------------------------- MODULE MssqlSink ------------------------------
(***************************************************************************)
(* The one-output SQL Server sink: connect, prepare the target, write the  *)
(* batch stream, validate the target row count, swap a replace staging     *)
(* table into place, clean up after a failure.  Every run executes         *)
(* run_mssql_output_connection_request of sql_server/execution/sink.rs;    *)
(* several runs, of any load modes, share one server.                      *)
(*                                                                         *)
(* One action is one round trip to the server (or the local work between   *)
(* two of them), so runs interleave exactly where the code awaits.  A      *)
(* statement is applied and acknowledged ("ok"), refused ("error") or      *)
(* applied with its acknowledgement lost ("lost"); a run may also stop     *)
(* for good at any point (process crash or dropped future).                *)
(***************************************************************************)
EXTENDS MssqlCatalog

CONSTANTS
  Plans,         \* the planned outputs a run may execute
  BatchSizes,    \* row counts of one record batch
  MaxBatches,    \* bound on the batches of one stream
  MayLoseRows,   \* whether the server may store fewer rows than it accepted
  InitialNames,  \* sets of names in use before the runs
  InitialRows,   \* row counts of the tables that have them
  Outcomes,      \* outcomes of a statement
  SwapOutcomes,  \* outcomes of the swap transaction
  NoName,        \* no table prepared yet
  NoRun          \* nobody holds a swap lock

VARIABLES
  plan,      \* plan[r]: load mode, target table and validation mode of run r
  catalog,   \* the tables of the server, by name
  swapLock,  \* swapLock[t]: the run holding the application lock of table t
  pc,        \* where run r is
  prepared,  \* the name in the MssqlPreparedTarget of run r
  job,       \* local variables of run r
  result     \* what run r reports

vars == <<plan, catalog, swapLock, pc, prepared, job, result>>

LoadModes == {"append", "create", "replace"}

TargetValidationModes == {"disabled", "if_possible", "require"}

OutputPlans == [mode : LoadModes, target : Tables, validation : TargetValidationModes]

ASSUME SinkAssumption ==
  /\ Plans \subseteq OutputPlans
  /\ BatchSizes \subseteq Nat
  /\ InitialNames \subseteq SUBSET Names
  /\ InitialRows \subseteq Nat
  /\ MaxBatches \in Nat
  /\ MayLoseRows \in BOOLEAN
  /\ {"ok", "error"} \subseteq Outcomes
  /\ Outcomes \subseteq {"ok", "error", "lost"}
  /\ {"ok", "error"} \subseteq SwapOutcomes
  /\ SwapOutcomes \subseteq {"ok", "error", "lost"}
  /\ NoName \notin Names
  /\ NoRun \notin Runs

Terminal == {"succeeded", "failed", "crashed"}

Labels == {"connect", "probe_target", "probe_staging", "create", "enable_lock",
           "count_before", "init_writer", "write", "validate", "disable_lock",
           "probe_backup", "swap_begin", "swap_commit", "cleanup"} \cup Terminal

Phases == {"none", "connect", "prepare_target_lifecycle", "initialize_writer",
           "poll_batch_stream", "validate_batch_schema", "write_batch",
           "finalize", "validation", "swap_target"}

CleanupStatuses == {"not_applicable", "not_attempted", "succeeded", "failed"}

ValidationStatuses == {"skipped", "disabled", "passed", "failed", "unavailable",
                       "required_but_failed"}

Jobs == [attempt  : Attempts,      \* auxiliary name being probed
         lockOn   : BOOLEAN,       \* bulk_load_table_lock_enabled
         before   : {"not_required", "exact", "unavailable"},
         rowsBefore : Nat,         \* target rows before an append
         inRows   : Nat,           \* rows polled from the stream
         rows     : Nat,           \* rows the writer accepted
         batches  : 0 .. MaxBatches,  \* batches the writer accepted
         eof      : BOOLEAN]       \* the stream ended

Results == [phase : Phases, partial : BOOLEAN, cleanup : CleanupStatuses,
            validation : ValidationStatuses]

Mode(r) == plan[r].mode
Target(r) == plan[r].target
Validation(r) == plan[r].validation

CleanupBeforeTargetCreation(m) ==
  IF m = "append" THEN "not_applicable" ELSE "not_attempted"

Init ==
  /\ plan \in [Runs -> Plans]
  /\ \E used \in InitialNames, k \in InitialRows :
       catalog = [n \in Names |-> IF n \in used THEN ExistingTable(k) ELSE NoTable]
  /\ swapLock = [t \in Tables |-> NoRun]
  /\ pc = [r \in Runs |-> "connect"]
  /\ prepared = [r \in Runs |-> NoName]
  /\ job = [r \in Runs |-> [attempt |-> 0, lockOn |-> FALSE, before |-> "not_required",
                            rowsBefore |-> 0, inRows |-> 0, rows |-> 0, batches |-> 0,
                            eof |-> FALSE]]
  /\ result = [r \in Runs |-> [phase |-> "none", partial |-> FALSE,
                               cleanup |-> CleanupBeforeTargetCreation(plan[r].mode),
                               validation |-> "skipped"]]
-----------------------------------------------------------------------------
(* How a run moves on. *)

Goto(r, label) == pc' = [pc EXCEPT ![r] = label]

Continue(r, label) == Goto(r, label) /\ UNCHANGED result

\* An error before a target is prepared: the code returns without cleanup.
Abort(r, phase) ==
  /\ Goto(r, "failed")
  /\ result' = [result EXCEPT ![r].phase = phase]

FailWithoutCleanup(r, phase, partial) ==
  /\ Goto(r, "failed")
  /\ result' = [result EXCEPT ![r].phase = phase, ![r].partial = partial]

\* An error once a target is prepared goes through cleanup.
FailPrepared(r, phase, partial) ==
  /\ Goto(r, "cleanup")
  /\ result' = [result EXCEPT ![r].phase = phase, ![r].partial = partial]

\* A statement sent to the server: what it does to the catalog when the server
\* applies it, and how the run goes on after success and after an error.
Statement(outcomes, possible, effect, onOk, onError) ==
  \E o \in outcomes :
    /\ o # "error" => possible
    /\ catalog' = IF o = "error" THEN catalog ELSE effect
    /\ IF o = "ok" THEN onOk ELSE onError

\* A query changes nothing; it fails, or succeeds if it is possible at all.
Query(possible, onOk, onError) ==
  /\ \/ possible /\ onOk
     \/ onError
  /\ UNCHANGED catalog
-----------------------------------------------------------------------------
(* Connection and target preparation. *)

Connect(r) ==
  /\ pc[r] = "connect"
  /\ Query(TRUE, Continue(r, "probe_target"), Abort(r, "connect"))
  /\ UNCHANGED <<plan, swapLock, prepared, job>>

\* Append needs its target and create-and-load refuses an existing one; replace
\* probes the target but uses only that the probe worked.
ProbeTargetAppend(r) ==
  /\ pc[r] = "probe_target"
  /\ Mode(r) = "append"
  /\ \/ /\ TableExists(catalog, Target(r))
        /\ prepared' = [prepared EXCEPT ![r] = Target(r)]
        /\ Continue(r, "count_before")
     \/ /\ Abort(r, "prepare_target_lifecycle")
        /\ UNCHANGED prepared
  /\ UNCHANGED <<plan, catalog, swapLock, job>>

ProbeTargetCreate(r) ==
  /\ pc[r] = "probe_target"
  /\ Mode(r) = "create"
  /\ Query(~TableExists(catalog, Target(r)),
           Continue(r, "create"),
           Abort(r, "prepare_target_lifecycle"))
  /\ UNCHANGED <<plan, swapLock, prepared, job>>

ProbeTargetReplace(r) ==
  /\ pc[r] = "probe_target"
  /\ Mode(r) = "replace"
  /\ Query(TRUE, Continue(r, "probe_staging"), Abort(r, "prepare_target_lifecycle"))
  /\ UNCHANGED <<plan, swapLock, prepared, job>>

\* The loop over auxiliary names: take the first free one, give up after the last.
MoreAttempts(r) == job[r].attempt + 1 < MaxAttempts

NextAttempt(r) == [job EXCEPT ![r].attempt = @ + 1]

ProbeStaging(r) ==
  LET taken == TableExists(catalog, StagingName(Target(r), job[r].attempt)) IN
  /\ pc[r] = "probe_staging"
  /\ \/ /\ ~taken
        /\ Continue(r, "create")
        /\ UNCHANGED job
     \/ /\ taken /\ MoreAttempts(r)
        /\ job' = NextAttempt(r)
        /\ UNCHANGED <<pc, result>>
     \/ /\ taken /\ ~MoreAttempts(r)
        /\ Abort(r, "prepare_target_lifecycle")
        /\ UNCHANGED job
     \/ /\ Abort(r, "prepare_target_lifecycle")   \* the probe itself failed
        /\ UNCHANGED job
  /\ UNCHANGED <<plan, catalog, swapLock, prepared>>

CreatedName(r) ==
  IF Mode(r) = "replace" THEN StagingName(Target(r), job[r].attempt) ELSE Target(r)

\* CREATE TABLE is refused when the name was taken since the probe.
CreateAlways(r) == TRUE

CreateAllowed(r) == ~TableExists(catalog, CreatedName(r))

CreateTarget(r) ==
  /\ pc[r] = "create"
  /\ Statement(Outcomes,
       CreateAllowed(r),
       CreateTable(catalog, CreatedName(r), r),
       /\ Continue(r, IF Mode(r) = "replace" THEN "enable_lock" ELSE "count_before")
       /\ prepared' = [prepared EXCEPT ![r] = CreatedName(r)],
       /\ Abort(r, "prepare_target_lifecycle")
       /\ UNCHANGED prepared)
  /\ UNCHANGED <<plan, swapLock, job>>

EnableBulkLoadTableLock(r) ==
  /\ pc[r] = "enable_lock"
  /\ \/ /\ Statement(Outcomes,
             TableExists(catalog, prepared[r]),
             SetBulkLoadTableLock(catalog, prepared[r], TRUE),
             /\ Continue(r, "count_before")
             /\ job' = [job EXCEPT ![r].lockOn = TRUE],
             /\ FailPrepared(r, "prepare_target_lifecycle", FALSE)
             /\ UNCHANGED job)
     \/ /\ Continue(r, "count_before")    \* permission denied is not an error
        /\ UNCHANGED <<catalog, job>>
  /\ UNCHANGED <<plan, swapLock, prepared>>

\* Only a validated append needs the row count of its target before writing.
CountBeforeAppend(r) ==
  /\ pc[r] = "count_before"
  /\ IF Validation(r) = "disabled" \/ Mode(r) # "append"
       THEN Continue(r, "init_writer") /\ UNCHANGED job
       ELSE \/ /\ TableExists(catalog, prepared[r])
               /\ Continue(r, "init_writer")
               /\ job' = [job EXCEPT ![r].before = "exact",
                                     ![r].rowsBefore = catalog[prepared[r]].count]
            \/ /\ Validation(r) = "if_possible"
               /\ Continue(r, "init_writer")
               /\ job' = [job EXCEPT ![r].before = "unavailable"]
            \/ /\ Validation(r) = "require"
               /\ Goto(r, "cleanup")
               /\ result' = [result EXCEPT ![r].phase = "validation",
                                           ![r].validation = "required_but_failed"]
               /\ UNCHANGED job
  /\ UNCHANGED <<plan, catalog, swapLock, prepared>>
-----------------------------------------------------------------------------
(* Writing the stream. *)

InitializeWriter(r) ==
  /\ pc[r] = "init_writer"
  /\ Query(TableExists(catalog, prepared[r]),
           Continue(r, "write"),
           FailPrepared(r, "initialize_writer", FALSE))
  /\ UNCHANGED <<plan, swapLock, prepared, job>>

PartialAfterSecondBatch(r) == Mode(r) = "append" /\ job[r].batches > 1

PartialWritePossible(r) ==
  Mode(r) = "append" /\ (job[r].rows > 0 \/ job[r].batches > 0)

\* Rows the server stores of a batch of k rows it was sent.
StoredRows(k) == IF MayLoseRows THEN 0 .. k ELSE {k}

\* One turn of the write loop: poll a batch of k rows, then hand it to the
\* writer, and j of them are stored.  Its rows are input rows even when the writer
\* refuses the batch.
WriteBatch(r, k, j) ==
  /\ pc[r] = "write"
  /\ job[r].batches < MaxBatches
  /\ Statement(Outcomes,
       TableExists(catalog, prepared[r]),
       InsertRows(catalog, prepared[r], r, j),
       /\ UNCHANGED <<pc, result>>
       /\ job' = [job EXCEPT ![r].inRows = @ + k, ![r].rows = @ + k, ![r].batches = @ + 1],
       /\ FailPrepared(r, "write_batch", PartialWritePossible(r))
       /\ job' = [job EXCEPT ![r].inRows = @ + k])
  /\ UNCHANGED <<plan, swapLock, prepared>>

\* A polled batch that does not match the planned schema never reaches the writer.
RejectBatchSchema(r, k) ==
  /\ pc[r] = "write"
  /\ FailPrepared(r, "validate_batch_schema", PartialWritePossible(r))
  /\ job' = [job EXCEPT ![r].inRows = @ + k]
  /\ UNCHANGED <<plan, catalog, swapLock, prepared>>

PollError(r) ==
  /\ pc[r] = "write"
  /\ FailPrepared(r, "poll_batch_stream", PartialWritePossible(r))
  /\ UNCHANGED <<plan, catalog, swapLock, prepared, job>>

\* The stream ends and the writer is finished.
FinishWriter(r) ==
  /\ pc[r] = "write"
  /\ job' = [job EXCEPT ![r].eof = TRUE]
  /\ Query(TRUE,
           Continue(r, "validate"),
           FailPrepared(r, "finalize", PartialWritePossible(r)))
  /\ UNCHANGED <<plan, swapLock, prepared>>
-----------------------------------------------------------------------------
(* Validation of the written target. *)

\* A successful report; replace goes on to the swap.
Validated(r, status) ==
  /\ result' = [result EXCEPT ![r].validation = status]
  /\ Goto(r, IF Mode(r) # "replace" THEN "succeeded"
             ELSE IF job[r].lockOn THEN "disable_lock" ELSE "probe_backup")
  /\ job' = [job EXCEPT ![r].attempt = 0]

\* The report of the finished write loop says that no partial write is possible.
ValidationError(r, status) ==
  /\ result' = [result EXCEPT ![r].phase = "validation", ![r].validation = status]
  /\ Goto(r, "cleanup")
  /\ UNCHANGED job

CountAtMost(r) == catalog[prepared[r]].count <= job[r].rowsBefore + job[r].inRows

\* The rows counted are exactly the rows of the stream (for append: the growth is).
CountMatches(r) ==
  LET rows == catalog[prepared[r]].count IN
  IF Mode(r) = "append"
    THEN rows >= job[r].rowsBefore /\ rows - job[r].rowsBefore = job[r].inRows
    ELSE rows = job[r].inRows

\* Without a count, validation is unavailable; require and replace fail on that.
CountUnavailable(r) ==
  IF Validation(r) = "require" THEN ValidationError(r, "required_but_failed")
  ELSE IF Mode(r) = "replace" THEN ValidationError(r, "unavailable")
  ELSE Validated(r, "unavailable")

ValidateWrittenTarget(r) ==
  /\ pc[r] = "validate"
  /\ IF Validation(r) = "disabled"
       THEN IF Mode(r) = "replace" THEN ValidationError(r, "disabled")
                                   ELSE Validated(r, "disabled")
       ELSE IF Mode(r) = "append" /\ job[r].before # "exact" THEN CountUnavailable(r)
       ELSE \/ /\ TableExists(catalog, prepared[r])
               /\ IF CountMatches(r) THEN Validated(r, "passed")
                                     ELSE ValidationError(r, "failed")
            \/ CountUnavailable(r)
  /\ UNCHANGED <<plan, catalog, swapLock, prepared>>
-----------------------------------------------------------------------------
(* Publishing a validated replace staging table. *)

DisableBulkLoadTableLock(r) ==
  /\ pc[r] = "disable_lock"
  /\ Statement(Outcomes,
       TableExists(catalog, prepared[r]),
       SetBulkLoadTableLock(catalog, prepared[r], FALSE),
       Continue(r, "probe_backup"),
       FailPrepared(r, "swap_target", TRUE))
  /\ UNCHANGED <<plan, swapLock, prepared, job>>

ProbeBackup(r) ==
  LET taken == TableExists(catalog, BackupName(Target(r), job[r].attempt)) IN
  /\ pc[r] = "probe_backup"
  /\ \/ /\ ~taken
        /\ Continue(r, "swap_begin")
        /\ UNCHANGED job
     \/ /\ taken /\ MoreAttempts(r)
        /\ job' = NextAttempt(r)
        /\ UNCHANGED <<pc, result>>
     \/ /\ taken /\ ~MoreAttempts(r)
        /\ FailPrepared(r, "swap_target", FALSE)
        /\ UNCHANGED job
     \/ /\ FailPrepared(r, "swap_target", FALSE)   \* the probe itself failed
        /\ UNCHANGED job
  /\ UNCHANGED <<plan, catalog, swapLock, prepared>>

\* sp_getapplock with timeout 0: the transaction throws when the lock is held.
BeginSwap(r) ==
  /\ pc[r] = "swap_begin"
  /\ \/ /\ swapLock[Target(r)] = NoRun
        /\ swapLock' = [swapLock EXCEPT ![Target(r)] = r]
        /\ Continue(r, "swap_commit")
     \/ /\ FailPrepared(r, "swap_target", TRUE)
        /\ UNCHANGED swapLock
  /\ UNCHANGED <<plan, catalog, prepared, job>>

SwappedCatalog(r) ==
  SwapTables(catalog, Target(r), prepared[r], BackupName(Target(r), job[r].attempt))

SwapChecks(r) ==
  SwapAllowed(catalog, prepared[r], BackupName(Target(r), job[r].attempt))

\* The lock belongs to the transaction: commit, rollback and disconnect free it.
ReleaseSwapLock(r) ==
  swapLock' = [t \in Tables |-> IF swapLock[t] = r THEN NoRun ELSE swapLock[t]]

CommitSwapUnflagged(r) ==
  /\ pc[r] = "swap_commit"
  /\ Statement(SwapOutcomes,
       SwapChecks(r),
       SwappedCatalog(r),
       Continue(r, "succeeded"),
       FailPrepared(r, "swap_target", FALSE))
  /\ ReleaseSwapLock(r)
  /\ UNCHANGED <<plan, prepared, job>>

CommitSwap(r) ==
  /\ pc[r] = "swap_commit"
  /\ Statement(SwapOutcomes,
       SwapChecks(r),
       SwappedCatalog(r),
       Continue(r, "succeeded"),
       FailPrepared(r, "swap_target", TRUE))
  /\ ReleaseSwapLock(r)
  /\ UNCHANGED <<plan, prepared, job>>
-----------------------------------------------------------------------------
(* Failure. *)

SetCleanupRetrying(r, status) ==
  IF status = "failed" THEN UNCHANGED <<pc, result>>
  ELSE Goto(r, "failed") /\ result' = [result EXCEPT ![r].cleanup = status]

SetCleanup(r, status) ==
  /\ Goto(r, "failed")
  /\ result' = [result EXCEPT ![r].cleanup = status]

DroppedFinal(r) == Target(r)

DroppedName(r) == prepared[r]

\* Only a table this run created is dropped, by its name.
CleanupPreparedTarget(r) ==
  /\ pc[r] = "cleanup"
  /\ IF Mode(r) = "append"
       THEN SetCleanup(r, "not_applicable") /\ UNCHANGED catalog
       ELSE Statement(Outcomes,
              TableExists(catalog, DroppedName(r)),
              DropTable(catalog, DroppedName(r)),
              SetCleanup(r, "succeeded"),
              SetCleanup(r, "failed"))
  /\ UNCHANGED <<plan, swapLock, prepared, job>>

\* The process stops or the future is dropped: nothing is cleaned up.  A swap
\* the server already received may still commit.
Crash(r) ==
  /\ pc[r] \notin Terminal
  /\ Continue(r, "crashed")
  /\ \/ UNCHANGED catalog
     \/ /\ pc[r] = "swap_commit" /\ SwapChecks(r)
        /\ catalog' = SwappedCatalog(r)
  /\ ReleaseSwapLock(r)
  /\ UNCHANGED <<plan, prepared, job>>
-----------------------------------------------------------------------------
Step(r) ==
  \/ Connect(r)
  \/ ProbeTargetAppend(r) \/ ProbeTargetCreate(r) \/ ProbeTargetReplace(r)
  \/ ProbeStaging(r) \/ CreateTarget(r) \/ EnableBulkLoadTableLock(r)
  \/ CountBeforeAppend(r) \/ InitializeWriter(r)
  \/ \E k \in BatchSizes : \E j \in StoredRows(k) : WriteBatch(r, k, j)
  \/ \E k \in BatchSizes : RejectBatchSchema(r, k)
  \/ PollError(r) \/ FinishWriter(r)
  \/ ValidateWrittenTarget(r)
  \/ DisableBulkLoadTableLock(r) \/ ProbeBackup(r) \/ BeginSwap(r) \/ CommitSwap(r)
  \/ CleanupPreparedTarget(r)

\* Every run has returned or stopped.
Terminated == (\A r \in Runs : pc[r] \in Terminal) /\ UNCHANGED vars

Next == (\E r \in Runs : Step(r) \/ Crash(r)) \/ Terminated

Spec == Init /\ [][Next]_vars

\* A run that has not crashed is driven by its executor until it returns, and
\* every call it awaits returns.
FairSpec == Spec /\ \A r \in Runs : WF_vars(Step(r))
-----------------------------------------------------------------------------
(* Properties. *)

\* Every variable stays in its type: the labels, phases and statuses are those
\* of the code, and the catalog maps names to tables.
TypeOK ==
  /\ plan \in [Runs -> OutputPlans]
  /\ catalog \in Catalog
  /\ swapLock \in [Tables -> Runs \cup {NoRun}]
  /\ pc \in [Runs -> Labels]
  /\ prepared \in [Runs -> Names \cup {NoName}]
  /\ job \in [Runs -> Jobs]
  /\ result \in [Runs -> Results]

Only(m, t) == \A r \in Runs : Target(r) = t => Mode(r) = m

CreatedBy(r, n) == TableExists(catalog, n) /\ catalog[n].owner = r

\* The swap of some replace run may have been committed without the run knowing, and
\* its report says so.  The cleanup of such a run drops whatever has its staging name.
SwapInDoubt ==
  "lost" \in SwapOutcomes /\ \E r \in Runs : Mode(r) = "replace" /\ result[r].partial

\* From CREATE TABLE until it returns, the name a replace run prepared is bound to
\* the table that run created, and all rows in it are its own: neither another
\* run's cleanup, swap or CREATE after the same probe touches it, unless a swap is
\* in doubt.
Working == {"enable_lock", "count_before", "init_writer", "write", "validate",
            "disable_lock", "probe_backup", "swap_begin", "swap_commit", "cleanup"}

StagingPrivate ==
  \A r \in Runs : (Mode(r) = "replace" /\ pc[r] \in Working /\ ~SwapInDoubt) =>
    /\ CreatedBy(r, prepared[r])
    /\ catalog[prepared[r]].count = catalog[prepared[r]].from[r]

\* A staging table leaves its name only in a step of the run that created it (its
\* cleanup or its swap): no run drops or moves the private table of another, unless
\* a swap is in doubt.
StagingDropsByOwner ==
  [][\A q \in Runs : \A n \in AuxNames :
       (CreatedBy(q, n) /\ ~CreatedBy(q, n)' /\ ~SwapInDoubt) => pc[q] # pc'[q]]_vars

\* A target that only replace runs use holds at every moment either its old rows,
\* untouched, or the whole output of one run: every row of a stream that ended,
\* nothing else, and no bulk-load table lock left behind, unless a swap is in doubt.
ReplaceAtomic ==
  \A t \in Tables : (Only("replace", t) /\ TableExists(catalog, t) /\ ~SwapInDoubt) =>
    LET tbl == catalog[t] IN
    \/ tbl.owner = Pre /\ tbl.from = NoRows
    \/ \E r \in Runs : /\ tbl.owner = r /\ Target(r) = t
                       /\ job[r].eof
                       /\ tbl.count = job[r].inRows /\ tbl.from[r] = tbl.count
                       /\ ~tbl.bulkLock

\* Replacing a target never makes its name disappear, not even between the two
\* renames of the swap or when a run dies in it.
ReplacedTargetStays ==
  [][\A t \in Tables : (Only("replace", t) /\ TableExists(catalog, t))
                          => TableExists(catalog', t)]_vars

\* A replace run that reports a failure without partial_write_possible has not
\* published its table: as long as no report leaves a swap in doubt, a failure means
\* an unchanged target, also when the acknowledgement of a swap can be lost.
FailedReplaceUnpublished ==
  \A r \in Runs : (Mode(r) = "replace" /\ pc[r] = "failed" /\ ~SwapInDoubt)
                    => \A t \in Tables : ~CreatedBy(r, t)

\* Once a run has returned, a table it created is left behind only if it was
\* published (success), or the report says that cleanup failed.
NoLeftovers ==
  \A r \in Runs :
    /\ pc[r] = "succeeded" => \A n \in AuxNames : ~CreatedBy(r, n)
    /\ (pc[r] = "failed" /\ result[r].cleanup # "failed")
         => \A n \in Names : ~CreatedBy(r, n)

\* A create-and-load run that succeeds with a passed validation leaves its table
\* with exactly the rows of its stream, whatever other create-and-load runs race
\* for the same name and clean up.
CreateDelivered ==
  \A r \in Runs : (/\ Mode(r) = "create" /\ Only("create", Target(r))
                   /\ pc[r] = "succeeded" /\ result[r].validation = "passed") =>
    /\ CreatedBy(r, Target(r))
    /\ catalog[Target(r)].count = job[r].inRows

\* An append run that fails before validation and reports that no partial write is
\* possible has added no row to any table, with one exception: its first batch was
\* applied and the acknowledgement lost.  The code cannot tell that from a refused
\* batch, so the flag may hide the rows of that one batch and never more: a row of an
\* acknowledged batch is always flagged.
AppendFlagBeforeValidation ==
  \A r \in Runs : (/\ Mode(r) = "append" /\ pc[r] = "failed"
                   /\ result[r].phase # "validation" /\ ~result[r].partial) =>
    \A n \in Names : TableExists(catalog, n) =>
      \/ catalog[n].from[r] = 0
      \/ /\ "lost" \in Outcomes
         /\ result[r].phase = "write_batch" /\ job[r].batches = 0
         /\ catalog[n].from[r] <= job[r].inRows

\* Whatever the failure, partial_write_possible = false claims that the append
\* target is unchanged by the run.
PartialFlagHonest ==
  \A r \in Runs : (Mode(r) = "append" /\ pc[r] = "failed" /\ ~result[r].partial)
    => \A n \in Names : TableExists(catalog, n) => catalog[n].from[r] = 0

\* Every run returns (or crashes): probing loops end and nobody waits for a lock.
RunsReturn == \A r \in Runs : <>(pc[r] \in Terminal)

\* The verdict a caller of run r has: a replace failure that says
\* partial_write_possible leaves the caller in doubt, any other failure says that
\* the target is unchanged.
Verdict(r) ==
  IF pc[r] = "succeeded" THEN "ok"
  ELSE IF result[r].partial THEN "unknown"
  ELSE IF pc[r] = "crashed" THEN "crashed"
  ELSE IF pc[r] = "failed" THEN "unchanged"
  ELSE "pending"

Holder(t) == IF TableExists(catalog, t) THEN catalog[t].owner ELSE NoTable

Publication == INSTANCE TargetPublication WITH
  target <- [r \in Runs |-> Target(r)],
  holder <- [t \in Tables |-> Holder(t)],
  verdict <- [r \in Runs |-> Verdict(r)]

\* Replace runs implement atomic publication with an honest verdict, even when the
\* acknowledgement of the swap transaction is lost: until a caller is told that it is
\* unknown whether the target changed, a run publishes its own output and nothing else.
ImplementsPublication == Publication!Spec
=============================================================================
