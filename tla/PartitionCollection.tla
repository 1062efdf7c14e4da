------------------------ MODULE PartitionCollection -------------------------
(***************************************************************************)
(* Collecting the partitions of one cache materialisation: one Tokio task  *)
(* per partition stream, a parent that joins them, and the coordinator     *)
(* that finalises the execution once every stream is terminal.  Models     *)
(* collect_cache_partitions of write_all/cache_alias.rs with the           *)
(* PartitionExecutionCoordinator of session/query_handoff.rs.              *)
(*                                                                         *)
(* A task step is one poll; abort_all only marks the tasks, each of them   *)
(* stops at its next poll, and may still produce items or end before it.   *)
(* The lock of the coordinator is released before the finalisation, so the *)
(* two are separate steps.                                                 *)
(***************************************************************************)
EXTENDS Integers, Sequences

CONSTANTS
  N,            \* number of partitions
  MaxBatches,   \* bound on the batches of one partition
  MayPanic,     \* whether polling a stream may panic
  MayShutdown,  \* whether the runtime may cancel tasks by itself
  MayDrop       \* whether the caller may drop the collecting future

ASSUME CollectionAssumption ==
  /\ N \in Nat
  /\ MaxBatches \in Nat
  /\ MayPanic \in BOOLEAN /\ MayShutdown \in BOOLEAN /\ MayDrop \in BOOLEAN

Partitions == 1 .. N

VARIABLES
  stream,     \* stream[p]: "none", "open", or the terminal outcome recorded for it
  task,       \* task[p]: "none", "running", "finalizing", "done" or "joined"
  output,     \* output[p]: what task p returns
  batches,    \* batches[p]: batches collected from partition p
  aborted,    \* abort_all was called, or the JoinSet dropped
  remaining,  \* coordinator: streams that are not terminal yet
  outcome,    \* coordinator: strongest outcome so far
  profile,    \* terminal outcomes finalised, in order
  parent,     \* where the parent is
  collected,  \* partition results in join order
  read,       \* items the streams delivered, as the shared counters tell
  signal,     \* the watch channel has an unseen change
  reported    \* the counter value of the last progress event

vars == <<stream, task, output, batches, aborted, remaining, outcome, profile,
          parent, collected, read, signal, reported>>

coordinator == <<remaining, outcome, profile>>

Outcomes == {"success", "cancelled", "error"}

Init ==
  /\ stream = [p \in Partitions |-> "none"]
  /\ task = [p \in Partitions |-> "none"]
  /\ output = [p \in Partitions |-> "none"]
  /\ batches = [p \in Partitions |-> 0]
  /\ aborted = FALSE
  /\ remaining = N
  /\ outcome = "success"
  /\ profile = <<>>
  /\ parent = "starting"
  /\ collected = <<>>
  /\ read = 0 /\ signal = FALSE /\ reported = 0
-----------------------------------------------------------------------------
(* The coordinator. *)

LastOutcome(current, next) == next

Strongest(current, next) ==
  IF current = "error" \/ next = "error" THEN "error"
  ELSE IF current = "cancelled" \/ next = "cancelled" THEN "cancelled"
  ELSE "success"

\* Only the stream that makes all of them terminal finalises the execution.
LastStreamFinalizes(left) == left = 0

\* The stream of task p becomes terminal and the task returns result.  A stream
\* gives up its coordinator when it records, so it records once.
RecordTerminal(p, how, result) ==
  /\ task[p] = "running" /\ stream[p] = "open"
  /\ stream' = [stream EXCEPT ![p] = how]
  /\ output' = [output EXCEPT ![p] = result]
  /\ outcome' = Strongest(outcome, how)
  /\ remaining' = remaining - 1
  /\ task' = [task EXCEPT ![p] = IF LastStreamFinalizes(remaining - 1)
                                 THEN "finalizing" ELSE "done"]
  /\ UNCHANGED <<batches, aborted, profile, parent, collected, reported>>

\* finalize_tracked_query_execution: the terminal profile is emitted.
Finalize(p) ==
  /\ task[p] = "finalizing"
  /\ task' = [task EXCEPT ![p] = "done"]
  /\ profile' = Append(profile, outcome)
  /\ UNCHANGED <<stream, output, batches, aborted, remaining, outcome, parent,
                 collected, read, signal, reported>>
-----------------------------------------------------------------------------
(* Starting the execution. *)

\* execute_stream_partitioned failed: no stream exists, finalise at once.
StartFails ==
  /\ parent = "starting"
  /\ profile' = Append(profile, "error")
  /\ parent' = "failed"
  /\ UNCHANGED <<stream, task, output, batches, aborted, remaining, outcome,
                 collected, read, signal, reported>>

\* One task per stream; without a stream there is nothing to wait for.
StartStreams ==
  /\ parent = "starting"
  /\ stream' = [p \in Partitions |-> "open"]
  /\ task' = [p \in Partitions |-> "running"]
  /\ profile' = IF N = 0 THEN Append(profile, "success") ELSE profile
  /\ parent' = IF N = 0 THEN "ok" ELSE "joining"
  /\ UNCHANGED <<output, batches, aborted, remaining, outcome, collected, read,
                 signal, reported>>
-----------------------------------------------------------------------------
(* The partition tasks. *)

NextBatch(p) ==
  /\ task[p] = "running" /\ batches[p] < MaxBatches
  /\ batches' = [batches EXCEPT ![p] = @ + 1]
  /\ read' = read + 1
  /\ signal' = TRUE
  /\ UNCHANGED <<stream, task, output, aborted, coordinator, parent, collected,
                 reported>>

\* The counters may move with the end of a stream, which signals nothing.
EndStream(p) ==
  /\ RecordTerminal(p, "success", "batches")
  /\ read' \in {read, read + 1}
  /\ UNCHANGED signal

\* The error item passes the inspect adapter, so it also signals progress.
FailStream(p) ==
  /\ RecordTerminal(p, "error", "error")
  /\ signal' = TRUE
  /\ UNCHANGED read

\* Unwinding drops the stream, which records a cancelled execution.
Panic(p) ==
  /\ MayPanic
  /\ RecordTerminal(p, "cancelled", "panic")
  /\ UNCHANGED <<read, signal>>

\* An aborted task drops its stream at the next poll.
StopTask(p) ==
  /\ aborted \/ MayShutdown
  /\ RecordTerminal(p, "cancelled", "cancelled")
  /\ UNCHANGED <<read, signal>>

TaskStep(p) ==
  NextBatch(p) \/ EndStream(p) \/ FailStream(p) \/ Panic(p) \/ StopTask(p) \/ Finalize(p)
-----------------------------------------------------------------------------
(* The parent. *)

KeepReported == UNCHANGED reported

EmitProgress == reported' = read

Sample ==
  /\ parent = "joining" /\ signal
  /\ EmitProgress
  /\ signal' = FALSE
  /\ UNCHANGED <<stream, task, output, batches, aborted, coordinator, parent,
                 collected, read>>

Joined(p) == task' = [task EXCEPT ![p] = "joined"]

\* Whether the JoinSet is empty once p is joined.
LastToJoin(p) == \A q \in Partitions \ {p} : task[q] = "joined"

JoinBatches(p) ==
  /\ parent = "joining" /\ task[p] = "done" /\ output[p] = "batches"
  /\ Joined(p)
  /\ EmitProgress
  /\ collected' = Append(collected, <<p, batches[p]>>)
  /\ parent' = IF LastToJoin(p) THEN "ok" ELSE "joining"
  /\ UNCHANGED <<stream, output, batches, aborted, coordinator, read, signal>>

ReturnAtOnce(p) == "failed"

\* The task just joined still counts as outstanding.
WaitForAll(p) == IF \A q \in Partitions : task[q] = "joined" THEN "failed" ELSE "draining"

\* After a failure the parent leaves once every other task is joined.
DrainFirst(p) == IF LastToJoin(p) THEN "failed" ELSE "draining"

JoinFailure(p) ==
  /\ parent = "joining" /\ task[p] = "done" /\ output[p] \in {"error", "cancelled"}
  /\ Joined(p)
  /\ EmitProgress
  /\ aborted' = TRUE
  /\ parent' = DrainFirst(p)
  /\ UNCHANGED <<stream, output, batches, coordinator, collected, read, signal>>

Drain(p) ==
  /\ parent = "draining" /\ task[p] = "done" /\ output[p] # "panic"
  /\ Joined(p)
  /\ parent' = DrainFirst(p)
  /\ UNCHANGED <<stream, output, batches, aborted, coordinator, collected, read,
                 signal, reported>>

\* resume_unwind: the JoinSet is dropped on the way, which aborts its tasks.
JoinPanic(p) ==
  /\ parent \in {"joining", "draining"} /\ task[p] = "done" /\ output[p] = "panic"
  /\ Joined(p)
  /\ parent' = "unwound"
  /\ aborted' = TRUE
  /\ UNCHANGED <<stream, output, batches, coordinator, collected, read, signal,
                 reported>>

DropParent ==
  /\ MayDrop /\ parent \in {"joining", "draining"}
  /\ parent' = "dropped"
  /\ aborted' = TRUE
  /\ UNCHANGED <<stream, task, output, batches, coordinator, collected, read,
                 signal, reported>>

ParentStep ==
  \/ StartFails \/ StartStreams \/ Sample
  \/ \E p \in Partitions : JoinBatches(p) \/ JoinFailure(p) \/ Drain(p) \/ JoinPanic(p)

UnsortedPartitions == collected

\* f lists the entries by partition index, equal ones in the order they had.
Sorts(f) ==
  LET n == Len(collected) IN
  /\ \A j \in 1 .. n : \E i \in 1 .. n : f[i] = j
  /\ \A i, j \in 1 .. n : i < j =>
       \/ collected[f[i]][1] < collected[f[j]][1]
       \/ collected[f[i]][1] = collected[f[j]][1] /\ f[i] < f[j]

\* partitions.sort_by_key(partition_index)
CollectedPartitions ==
  LET n == Len(collected)
      order == CHOOSE f \in [1 .. n -> 1 .. n] : Sorts(f)
  IN  [i \in 1 .. n |-> collected[order[i]]]
-----------------------------------------------------------------------------
Next == ParentStep \/ DropParent \/ \E p \in Partitions : TaskStep(p)

Spec == Init /\ [][Next]_vars

\* Tokio keeps polling a runnable task; a stream delivers boundedly many items.
FairSpec ==
  /\ Spec
  /\ \A p \in Partitions : WF_vars(TaskStep(p))
  /\ WF_vars(ParentStep)
-----------------------------------------------------------------------------
TypeOK ==
  /\ stream \in [Partitions -> {"none", "open"} \cup Outcomes]
  /\ task \in [Partitions -> {"none", "running", "finalizing", "done", "joined"}]
  /\ output \in [Partitions -> {"none", "batches", "error", "panic", "cancelled"}]
  /\ batches \in [Partitions -> 0 .. MaxBatches]
  /\ aborted \in BOOLEAN
  /\ remaining \in 0 .. N
  /\ outcome \in Outcomes
  /\ profile \in Seq(Outcomes)
  /\ parent \in {"starting", "joining", "draining", "ok", "failed", "unwound", "dropped"}
  /\ collected \in Seq(Partitions \X (0 .. MaxBatches))
  /\ read \in Nat /\ signal \in BOOLEAN /\ reported \in Nat

\* "Cancels sibling collectors and waits until every owned stream is dropped":
\* when the collection returns, with or without an error, no stream is open and
\* the execution was finalised exactly once, so the profile read next is there.
ReturnedMeansFinalized ==
  parent \in {"ok", "failed"} =>
    /\ Len(profile) = 1
    /\ \A p \in Partitions : stream[p] # "open"

\* The terminal outcome is the strongest of all streams, not of those that
\* stopped first: success only if every stream ended, error if any failed,
\* however the error races with the cancellation of the siblings.
OutcomeFaithful ==
  \A i \in DOMAIN profile :
    /\ parent = "ok" => profile[i] = "success"
    /\ parent = "failed" => profile[i] # "success"
    /\ stream # [p \in Partitions |-> "none"] =>
         /\ profile[i] = "success" <=> \A p \in Partitions : stream[p] = "success"
         /\ profile[i] = "error" <=> \E p \in Partitions : stream[p] = "error"

\* A successful collection returns every partition once, in partition order,
\* with all batches of its stream, whatever order the tasks finished in.
PartitionOrderRestored ==
  parent = "ok" => CollectedPartitions = [p \in Partitions |-> <<p, batches[p]>>]

\* The last progress event of a successful collection tells the final count,
\* although the parent may miss watch notifications.
ProgressComplete == parent = "ok" => reported = read

\* The execution is finalised in every case, even when the parent unwinds or is
\* dropped while tasks still run, and the parent does not wait forever.
Finalizes ==
  /\ <>(Len(profile) = 1)
  /\ <>(parent \notin {"starting", "joining", "draining"})
=============================================================================
