--------------------- MODULE PartitionCollectionProofs ----------------------
(***************************************************************************)
(* For any number of partitions: the execution is finalised exactly once,  *)
(* before the collection returns, with the strongest outcome of all its    *)
(* streams, the last progress event is complete, and the partitions are    *)
(* returned in their order whatever order their tasks finished in.         *)
(***************************************************************************)
EXTENDS PartitionCollection, FiniteSetTheorems, TLAPS

\* Most steps need no arithmetic; a step that does names the SMT solver.
USE ZenonT(60)

Open == {p \in Partitions : stream[p] = "open"}

Finalizing == {p \in Partitions : task[p] = "finalizing"}

\* How a task and its stream go together.
TaskInv ==
  \A p \in Partitions :
    /\ task[p] = "none" <=> stream[p] = "none"
    /\ task[p] = "running" <=> stream[p] = "open"
    /\ output[p] = "batches" <=> stream[p] = "success"
    /\ output[p] = "error" => stream[p] = "error"
    /\ output[p] = "cancelled" => stream[p] = "cancelled"

\* The coordinator counts the open streams and knows the strongest outcome.
CountInv ==
  /\ remaining = Cardinality(Open)
  /\ outcome = "error" <=> \E p \in Partitions : stream[p] = "error"
  /\ outcome = "success" <=> \A p \in Partitions : stream[p] \in {"open", "success"}
  /\ Finalizing # {} => remaining = 0
  /\ \A p, q \in Finalizing : p = q

\* Finalised exactly when the last stream is terminal and its task is past it.
ProfileInv ==
  /\ remaining # 0 \/ Finalizing # {} => profile = <<>>
  /\ remaining = 0 /\ Finalizing = {} => profile = <<outcome>>

\* What the parent has joined so far.
ParentInv ==
  /\ parent \in {"joining", "ok"} =>
       \A p \in Partitions : task[p] = "joined" => output[p] = "batches"
  /\ parent \in {"draining", "failed"} =>
       \E p \in Partitions : stream[p] \in {"error", "cancelled"}
  /\ parent \in {"ok", "failed"} => \A p \in Partitions : task[p] = "joined"
  /\ parent = "ok" => reported = read

NotStarted ==
  /\ \A p \in Partitions : stream[p] = "none"
  /\ profile = IF parent = "starting" THEN <<>> ELSE <<"error">>
  /\ parent \in {"starting", "failed"}
  /\ parent = "starting" => remaining = N /\ outcome = "success" /\ reported = read

Started ==
  /\ \A p \in Partitions : stream[p] # "none"
  /\ parent # "starting"
  /\ CountInv
  /\ ProfileInv
  /\ ParentInv

CollectionInv == TypeOK /\ TaskInv /\ (NotStarted \/ Started)
-----------------------------------------------------------------------------
\* The open streams are finitely many.
LEMMA OpenFinite == IsFiniteSet(Open) /\ Cardinality(Open) \in Nat
<1>1. IsFiniteSet(Partitions)
  BY SMTT(30), CollectionAssumption, FS_Interval DEF Partitions
<1>2. IsFiniteSet(Open)
  BY <1>1, FS_Subset DEF Open
<1> QED BY <1>2, FS_CardinalityType

\* The types hold initially and every step keeps them.
LEMMA TypeInit == ASSUME Init PROVE TypeOK
<1> USE CollectionAssumption
<1>1. profile \in Seq(Outcomes) /\ collected \in Seq(Partitions \X (0 .. MaxBatches))
  BY SMTT(30) DEF Init
<1>2. batches \in [Partitions -> 0 .. MaxBatches] /\ remaining \in 0 .. N
  BY SMTT(30) DEF Init
<1> QED BY <1>1, <1>2 DEF Init, TypeOK, Outcomes

LEMMA TypeStep ==
  ASSUME CollectionInv, [Next]_vars
  PROVE  TypeOK'
<1> USE CollectionAssumption
<1>1. TypeOK
  BY DEF CollectionInv
<1>2. CASE UNCHANGED vars
  BY <1>1, <1>2 DEF TypeOK, vars
<1>3. ASSUME NEW p \in Partitions, NEW how \in Outcomes,
             NEW result \in {"batches", "error", "panic", "cancelled"},
             NEW s \in BOOLEAN, signal' = s, NEW n \in Nat, read' = n, RecordTerminal(p, how, result)
      PROVE  TypeOK'
  <2>1. outcome' \in Outcomes
    BY <1>1, <1>3 DEF RecordTerminal, Strongest, TypeOK, Outcomes
  <2>2. remaining' \in 0 .. N
    <3>1. p \in Open /\ stream[p] # "none"
      BY <1>3 DEF RecordTerminal, Open
    <3>2. remaining = Cardinality(Open)
      BY <3>1 DEF CollectionInv, NotStarted, Started, CountInv
    <3>3. remaining # 0
      BY <3>1, <3>2, OpenFinite, FS_EmptySet
    <3> QED BY SMTT(30), <3>3, <1>1, <1>3 DEF RecordTerminal, TypeOK
  <2>3. stream' \in [Partitions -> {"none", "open"} \cup Outcomes]
    BY <1>1, <1>3 DEF RecordTerminal, TypeOK
  <2>4. task' \in [Partitions -> {"none", "running", "finalizing", "done", "joined"}]
    BY <1>1, <1>3 DEF RecordTerminal, TypeOK
  <2>5. output' \in [Partitions -> {"none", "batches", "error", "panic", "cancelled"}]
    BY <1>1, <1>3 DEF RecordTerminal, TypeOK
  <2> QED BY <1>1, <1>3, <2>1, <2>2, <2>3, <2>4, <2>5 DEF RecordTerminal, TypeOK
<1>4. ASSUME NEW p \in Partitions, TaskStep(p)
      PROVE  TypeOK'
  <2>1. CASE NextBatch(p)
    <3>1. batches' \in [Partitions -> 0 .. MaxBatches]
      BY SMTT(30), <1>1, <2>1 DEF NextBatch, TypeOK
    <3> QED BY SMTT(30), <1>1, <2>1, <3>1 DEF NextBatch, TypeOK, coordinator
  <2>2. CASE EndStream(p)
    BY SMTT(30), <1>1, <1>3, <2>2 DEF EndStream, TypeOK, Outcomes
  <2>3. CASE FailStream(p)
    BY <1>1, <1>3, <2>3 DEF FailStream, TypeOK, Outcomes
  <2>4. CASE Panic(p)
    BY <1>1, <1>3, <2>4 DEF Panic, TypeOK, Outcomes
  <2>5. CASE StopTask(p)
    BY <1>1, <1>3, <2>5 DEF StopTask, TypeOK, Outcomes
  <2>6. CASE Finalize(p)
    BY SMTT(30), <1>1, <2>6 DEF Finalize, TypeOK
  <2> QED BY <1>4, <2>1, <2>2, <2>3, <2>4, <2>5, <2>6 DEF TaskStep
<1>5. CASE StartFails
  BY SMTT(30), <1>1, <1>5 DEF StartFails, TypeOK, Outcomes
<1>6. CASE StartStreams
  <2>1. profile' \in Seq(Outcomes)
    BY SMTT(30), <1>1, <1>6 DEF StartStreams, TypeOK, Outcomes
  <2> QED BY <1>1, <1>6, <2>1 DEF StartStreams, TypeOK
<1>7. CASE Sample
  BY <1>1, <1>7 DEF Sample, EmitProgress, TypeOK, coordinator
<1>8. ASSUME NEW p \in Partitions, JoinBatches(p)
      PROVE  TypeOK'
  <2>1. collected' \in Seq(Partitions \X (0 .. MaxBatches))
    BY SMTT(30), <1>1, <1>8 DEF JoinBatches, TypeOK
  <2> QED BY <1>1, <1>8, <2>1 DEF JoinBatches, Joined, EmitProgress, TypeOK, coordinator
<1>9. ASSUME NEW p \in Partitions, JoinFailure(p) \/ Drain(p) \/ JoinPanic(p)
      PROVE  TypeOK'
  BY <1>1, <1>9 DEF JoinFailure, Drain, JoinPanic, DrainFirst, Joined, EmitProgress,
                    TypeOK, coordinator
<1>10. CASE DropParent
  BY <1>1, <1>10 DEF DropParent, TypeOK, coordinator
<1> QED BY <1>2, <1>4, <1>5, <1>6, <1>7, <1>8, <1>9, <1>10 DEF Next, ParentStep
-----------------------------------------------------------------------------
\* The start of an execution without a failure.
LEMMA StartStep ==
  ASSUME CollectionInv, StartStreams
  PROVE  TaskInv' /\ Started'
<1> USE CollectionAssumption
<1>1. TypeOK /\ TaskInv /\ NotStarted
  BY DEF CollectionInv, StartStreams, Started
<1>2. TaskInv'
  BY <1>1 DEF TaskInv, NotStarted, StartStreams, TypeOK
<1>3. Open' = Partitions
  BY DEF Open, StartStreams
<1>a. Cardinality(Partitions) = N
  BY SMTT(30), FS_Interval DEF Partitions
<1>4. Finalizing' = {}
  BY DEF Finalizing, StartStreams
<1>5. remaining' = N /\ outcome' = "success"
  BY <1>1 DEF NotStarted, StartStreams
<1>6. CountInv'
  BY <1>3, <1>a, <1>4, <1>5 DEF CountInv, StartStreams
<1>7. ProfileInv'
  BY SMTT(30), <1>1, <1>4, <1>5 DEF ProfileInv, NotStarted, StartStreams
<1>8. reported' = read'
  BY <1>1 DEF NotStarted, StartStreams
<1>9. ParentInv'
  BY SMTT(30), <1>1, <1>8 DEF ParentInv, StartStreams, Partitions
<1> QED BY <1>2, <1>6, <1>7, <1>9 DEF Started, StartStreams

\* A stream that becomes terminal is counted once and its outcome merged; the
\* task of the last one is the only one that finalises.
LEMMA RecordStep ==
  ASSUME CollectionInv, NEW p \in Partitions, NEW how \in Outcomes,
         NEW result \in {"batches", "error", "panic", "cancelled"},
         result = "batches" <=> how = "success",
         result = "error" => how = "error",
         result = "cancelled" => how = "cancelled",
         RecordTerminal(p, how, result)
  PROVE  TaskInv' /\ Started'
<1> DEFINE mark == IF remaining - 1 = 0 THEN "finalizing" ELSE "done"
<1>1. TypeOK /\ TaskInv /\ task[p] = "running" /\ stream[p] = "open"
  BY DEF CollectionInv, RecordTerminal
<1>2. Started
  BY <1>1 DEF CollectionInv, NotStarted
<1>3. /\ stream' = [stream EXCEPT ![p] = how]
      /\ output' = [output EXCEPT ![p] = result]
      /\ task' = [task EXCEPT ![p] = mark]
      /\ remaining' = remaining - 1 /\ outcome' = Strongest(outcome, how)
      /\ UNCHANGED <<profile, parent, reported>>
  BY DEF RecordTerminal, LastStreamFinalizes
<1>4. \A q \in Partitions :
         /\ stream'[q] = IF q = p THEN how ELSE stream[q]
         /\ output'[q] = IF q = p THEN result ELSE output[q]
         /\ task'[q] = IF q = p THEN mark ELSE task[q]
  BY <1>1, <1>3 DEF TypeOK
<1> HIDE DEF mark
<1>5. mark \in {"finalizing", "done"} /\ (mark = "finalizing" <=> remaining = 1)
  BY SMTT(30), <1>1 DEF mark, TypeOK
<1>6. TaskInv'
  BY <1>1, <1>4, <1>5 DEF TaskInv, Outcomes
<1>7. remaining # 0 /\ remaining' = Cardinality(Open')
  <2>1. p \in Open /\ Open' = Open \ {p}
    BY <1>1, <1>4 DEF Open, Outcomes
  <2>2. remaining = Cardinality(Open)
    BY <1>2 DEF Started, CountInv
  <2>3. Cardinality(Open \ {p}) = Cardinality(Open) - 1
    BY <2>1, OpenFinite, FS_RemoveElement
  <2>4. Cardinality(Open) # 0
    BY <2>1, OpenFinite, FS_EmptySet
  <2> QED BY <1>3, <2>1, <2>2, <2>3, <2>4
<1>8. Finalizing = {} /\ Finalizing' = IF remaining = 1 THEN {p} ELSE {}
  <2>1. Finalizing = {}
    BY <1>2, <1>7 DEF Started, CountInv
  <2> QED BY <2>1, <1>4, <1>5 DEF Finalizing
<1>9. CountInv'
  <2>1. outcome' = "error" <=> \E q \in Partitions : stream'[q] = "error"
    <3>1. outcome' = "error" <=> outcome = "error" \/ how = "error"
      BY <1>1, <1>3 DEF Strongest, TypeOK
    <3>2. outcome = "error" <=> \E q \in Partitions : stream[q] = "error"
      BY <1>2 DEF Started, CountInv
    <3> QED BY <3>1, <3>2, <1>1, <1>4
  <2>2. outcome' = "success" <=> \A q \in Partitions : stream'[q] \in {"open", "success"}
    <3>1. outcome' = "success" <=> outcome = "success" /\ how = "success"
      BY <1>1, <1>3 DEF Strongest, TypeOK, Outcomes
    <3>2. outcome = "success" <=> \A q \in Partitions : stream[q] \in {"open", "success"}
      BY <1>2 DEF Started, CountInv
    <3> QED BY <3>1, <3>2, <1>1, <1>4 DEF Outcomes
  <2>3. Finalizing' # {} => remaining' = 0
    BY SMTT(30), <1>3, <1>8
  <2>4. \A q, r \in Finalizing' : q = r
    BY <1>8
  <2> QED BY <1>7, <2>1, <2>2, <2>3, <2>4 DEF CountInv
<1>10. ProfileInv'
  <2>1. profile' = <<>>
    BY <1>2, <1>3, <1>7 DEF Started, ProfileInv
  <2>2. remaining' = 0 => Finalizing' # {}
    BY SMTT(30), <1>1, <1>3, <1>8 DEF TypeOK
  <2> QED BY <2>1, <2>2 DEF ProfileInv
<1>11. ParentInv'
  <2>1. parent \notin {"ok", "failed"}
    BY <1>1, <1>2 DEF Started, ParentInv
  <2>2. parent \in {"draining", "failed"} =>
          \E q \in Partitions : stream[q] \in {"error", "cancelled"}
    BY <1>2 DEF Started, ParentInv
  <2>3. parent \in {"draining", "failed"} =>
          \E q \in Partitions : stream'[q] \in {"error", "cancelled"}
    BY <2>2, <1>1, <1>4
  <2>4. \A q \in Partitions : task'[q] = "joined" => task[q] = "joined" /\ output'[q] = output[q]
    BY <1>4, <1>5
  <2> QED BY <1>2, <1>3, <2>1, <2>3, <2>4 DEF Started, ParentInv
<1>12. \A q \in Partitions : stream'[q] # "none"
  BY <1>2, <1>4 DEF Started, Outcomes
<1> QED BY <1>2, <1>3, <1>6, <1>9, <1>10, <1>11, <1>12 DEF Started

\* Every step keeps the invariant.
LEMMA CollectionStep ==
  ASSUME CollectionInv, [Next]_vars
  PROVE  CollectionInv'
<1> USE CollectionAssumption
<1>1. TypeOK' /\ TypeOK /\ TaskInv /\ (NotStarted \/ Started)
  BY TypeStep DEF CollectionInv
<1> SUFFICES TaskInv' /\ (NotStarted' \/ Started')
  BY <1>1 DEF CollectionInv
<1>2. CASE UNCHANGED vars
  <2>1. TaskInv' /\ (NotStarted => NotStarted')
    BY <1>1, <1>2 DEF vars, TaskInv, NotStarted
  <2>2. CountInv => CountInv'
    BY <1>2 DEF vars, CountInv, Open, Finalizing
  <2>3. ProfileInv => ProfileInv'
    BY <1>2 DEF vars, ProfileInv, Finalizing
  <2>4. ParentInv => ParentInv'
    BY <1>2 DEF vars, ParentInv
  <2> QED BY <1>1, <1>2, <2>1, <2>2, <2>3, <2>4 DEF vars, Started
<1>3. CASE StartFails
  <2>1. NotStarted
    BY <1>1, <1>3 DEF StartFails, Started
  <2>2. NotStarted'
    BY SMTT(30), <2>1, <1>3 DEF StartFails, NotStarted
  <2> QED BY <1>1, <1>3, <2>2 DEF StartFails, TaskInv
<1>4. CASE StartStreams
  BY <1>4, StartStep
<1>5. ASSUME NEW p \in Partitions, EndStream(p) \/ FailStream(p) \/ Panic(p) \/ StopTask(p)
      PROVE  TaskInv' /\ Started'
  <2>1. CASE EndStream(p)
    BY <2>1, RecordStep DEF EndStream, Outcomes
  <2>2. CASE FailStream(p)
    BY <2>2, RecordStep DEF FailStream, Outcomes
  <2>3. CASE Panic(p)
    BY <2>3, RecordStep DEF Panic, Outcomes
  <2>4. CASE StopTask(p)
    BY <2>4, RecordStep DEF StopTask, Outcomes
  <2> QED BY <1>5, <2>1, <2>2, <2>3, <2>4
<1>6. ASSUME NEW p \in Partitions, NextBatch(p)
      PROVE  TaskInv' /\ Started'
  <2>1. Started /\ parent # "ok"
    BY <1>1, <1>6 DEF NextBatch, NotStarted, Started, ParentInv, TaskInv
  <2>2. UNCHANGED <<stream, task, output, remaining, outcome, profile, parent>>
    BY <1>6 DEF NextBatch, coordinator
  <2>3. TaskInv' /\ CountInv'
    BY SMTT(30), <1>1, <2>1, <2>2 DEF TaskInv, Started, CountInv, Open, Finalizing
  <2>4. ProfileInv' /\ ParentInv'
    BY <2>1, <2>2 DEF Started, ProfileInv, ParentInv, Finalizing
  <2> QED BY <2>1, <2>2, <2>3, <2>4 DEF Started
<1>7. ASSUME NEW p \in Partitions, Finalize(p)
      PROVE  TaskInv' /\ Started'
  <2>1. p \in Finalizing /\ Started
    BY <1>1, <1>7 DEF Finalize, Finalizing, NotStarted, TaskInv
  <2>2. /\ UNCHANGED <<stream, output, remaining, outcome, parent, read, reported>>
        /\ \A q \in Partitions : task'[q] = IF q = p THEN "done" ELSE task[q]
        /\ profile' = Append(profile, outcome)
    BY <1>1, <1>7 DEF Finalize, TypeOK
  <2>3. TaskInv'
    BY <1>1, <2>1, <2>2 DEF TaskInv, Finalizing
  <2>4. Finalizing' = {} /\ remaining = 0 /\ profile = <<>>
    BY <2>1, <2>2 DEF Started, CountInv, ProfileInv, Finalizing
  <2>5. CountInv'
    BY <2>1, <2>2, <2>4 DEF Started, CountInv, Open
  <2>6. ProfileInv'
    BY SMTT(30), <2>2, <2>4 DEF ProfileInv
  <2>7. ParentInv'
    BY <2>1, <2>2 DEF Started, ParentInv, Finalizing
  <2> QED BY <2>1, <2>2, <2>3, <2>5, <2>6, <2>7 DEF Started
<1>8. CASE Sample \/ DropParent
  <2>1. Started /\ parent \in {"joining", "draining"}
    BY <1>1, <1>8 DEF Sample, DropParent, NotStarted
  <2>2. /\ UNCHANGED <<stream, task, output, remaining, outcome, profile, read>>
        /\ parent' \in {parent, "dropped"}
    BY <1>8 DEF Sample, DropParent, coordinator
  <2>3. TaskInv' /\ CountInv'
    BY SMTT(30), <1>1, <2>1, <2>2 DEF TaskInv, Started, CountInv, Open, Finalizing
  <2>4. ProfileInv' /\ ParentInv'
    BY <2>1, <2>2 DEF Started, ProfileInv, ParentInv, Finalizing
  <2> QED BY <2>1, <2>2, <2>3, <2>4 DEF Started
<1>9. ASSUME NEW p \in Partitions, JoinBatches(p) \/ JoinFailure(p) \/ Drain(p) \/ JoinPanic(p)
      PROVE  TaskInv' /\ Started'
  <2>1. Started /\ task[p] = "done"
    BY <1>1, <1>9 DEF JoinBatches, JoinFailure, Drain, JoinPanic, NotStarted, TaskInv
  <2>2. /\ UNCHANGED <<stream, output, remaining, outcome, profile, read>>
        /\ \A q \in Partitions : task'[q] = IF q = p THEN "joined" ELSE task[q]
    BY <1>1, <1>9 DEF JoinBatches, JoinFailure, Drain, JoinPanic, Joined, coordinator, TypeOK
  <2>3. TaskInv'
    BY <1>1, <2>1, <2>2 DEF TaskInv
  <2>4. Finalizing' = Finalizing /\ Open' = Open
    BY <2>1, <2>2 DEF Finalizing, Open
  <2>5. CountInv' /\ ProfileInv'
    BY <2>1, <2>2, <2>4 DEF Started, CountInv, ProfileInv
  <2>6. LastToJoin(p) => \A q \in Partitions : task'[q] = "joined"
    BY <2>2 DEF LastToJoin
  <2>7. ParentInv' /\ parent' # "starting"
    <3>1. CASE JoinBatches(p)
      BY <2>1, <2>2, <2>6, <3>1 DEF JoinBatches, EmitProgress, Started, ParentInv
    <3>2. CASE JoinFailure(p)
      BY <1>1, <2>1, <2>2, <2>6, <3>2 DEF JoinFailure, DrainFirst, TaskInv, ParentInv
    <3>3. CASE Drain(p)
      BY <2>1, <2>2, <2>6, <3>3 DEF Drain, DrainFirst, Started, ParentInv
    <3>4. CASE JoinPanic(p)
      BY <3>4 DEF JoinPanic, ParentInv
    <3> QED BY <1>9, <3>1, <3>2, <3>3, <3>4
  <2> QED BY <2>1, <2>2, <2>3, <2>5, <2>7 DEF Started
<1> QED BY <1>2, <1>3, <1>4, <1>5, <1>6, <1>7, <1>8, <1>9 DEF Next, ParentStep, TaskStep

\* The inductive invariant of the collection.
THEOREM CollectionInvariant == Spec => []CollectionInv
<1>1. Init => CollectionInv
  <2> SUFFICES ASSUME Init PROVE CollectionInv
    OBVIOUS
  <2>1. TypeOK
    BY TypeInit
  <2> QED BY <2>1 DEF Init, CollectionInv, TaskInv, NotStarted
<1>2. CollectionInv /\ [Next]_vars => CollectionInv'
  BY CollectionStep
<1> QED BY <1>1, <1>2, PTL DEF Spec

\* abort_and_drain and join_next leave nothing behind: for every number of
\* partitions, a collection that returned was finalised exactly once.
THEOREM FinalizedOnReturn == Spec => []ReturnedMeansFinalized
<1>1. CollectionInv => ReturnedMeansFinalized
  <2> SUFFICES ASSUME CollectionInv, parent \in {"ok", "failed"}
               PROVE  Len(profile) = 1 /\ \A p \in Partitions : stream[p] # "open"
    BY DEF ReturnedMeansFinalized
  <2>1. CASE NotStarted
    BY <2>1 DEF NotStarted
  <2>2. CASE Started
    <3>1. \A p \in Partitions : task[p] = "joined" /\ stream[p] # "open"
      BY <2>2 DEF Started, ParentInv, CollectionInv, TaskInv
    <3>2. Open = {} /\ Finalizing = {}
      BY <3>1 DEF Open, Finalizing
    <3>3. remaining = 0
      BY <2>2, <3>2, FS_EmptySet DEF Started, CountInv
    <3> QED BY <2>2, <3>1, <3>2, <3>3 DEF Started, ProfileInv
  <2> QED BY <2>1, <2>2 DEF CollectionInv
<1> QED BY <1>1, CollectionInvariant, PTL

\* strongest_provider_scan_outcome is merged under one lock: whatever the order
\* of the streams, the finalised outcome is the strongest of all of them.
THEOREM StrongestOutcome == Spec => []OutcomeFaithful
<1>1. CollectionInv => OutcomeFaithful
  <2> SUFFICES ASSUME CollectionInv, NEW i \in DOMAIN profile
               PROVE
                 /\ parent = "ok" => profile[i] = "success"
                 /\ parent = "failed" => profile[i] # "success"
                 /\ stream # [p \in Partitions |-> "none"] =>
                      /\ profile[i] = "success" <=> \A p \in Partitions : stream[p] = "success"
                      /\ profile[i] = "error" <=> \E p \in Partitions : stream[p] = "error"
    BY DEF OutcomeFaithful
  <2>1. CASE NotStarted
    <3>1. stream = [p \in Partitions |-> "none"]
      BY <2>1 DEF NotStarted, CollectionInv, TypeOK
    <3> QED BY SMTT(30), <2>1, <3>1 DEF NotStarted
  <2>2. CASE Started
    <3>1. profile # <<>>
      BY SMTT(30)
    <3>2. remaining = 0 /\ profile[i] = outcome
      BY SMTT(30), <2>2, <3>1 DEF Started, ProfileInv
    <3>3. Open = {}
      BY <2>2, <3>2, OpenFinite, FS_EmptySet DEF Started, CountInv
    <3>4. /\ outcome = "success" <=> \A p \in Partitions : stream[p] = "success"
          /\ outcome = "error" <=> \E p \in Partitions : stream[p] = "error"
      BY <2>2, <3>3 DEF Started, CountInv, Open
    <3>5. parent = "ok" => \A p \in Partitions : stream[p] = "success"
      BY <2>2 DEF Started, ParentInv, CollectionInv, TaskInv
    <3>6. parent = "failed" => \E p \in Partitions : stream[p] # "success"
      BY <2>2 DEF Started, ParentInv
    <3> QED BY <3>2, <3>4, <3>5, <3>6
  <2> QED BY <2>1, <2>2 DEF CollectionInv
<1> QED BY <1>1, CollectionInvariant, PTL

\* join_cache_partition_tasks samples the counters at every join, so the last
\* event of a successful collection is complete.
THEOREM LastProgressComplete == Spec => []ProgressComplete
<1>1. CollectionInv => ProgressComplete
  BY DEF CollectionInv, NotStarted, Started, ParentInv, ProgressComplete
<1> QED BY <1>1, CollectionInvariant, PTL
-----------------------------------------------------------------------------
(* The order of the partitions. *)

\* Every entry is of a joined partition with all its batches, no two are of the
\* same one, and none is missing as long as no join failed.
OrderInv ==
  /\ \A i \in DOMAIN collected :
       task[collected[i][1]] = "joined" /\ collected[i][2] = batches[collected[i][1]]
  /\ \A i, j \in DOMAIN collected : collected[i][1] = collected[j][1] => i = j
  /\ parent \in {"joining", "ok"} =>
       \A p \in Partitions : task[p] = "joined" => \E i \in DOMAIN collected : collected[i][1] = p

\* The entries are pairs, and where they are.
LEMMA Entries ==
  ASSUME TypeOK
  PROVE  /\ Len(collected) \in Nat /\ DOMAIN collected = 1 .. Len(collected)
         /\ \A i \in DOMAIN collected :
              /\ collected[i][1] \in Partitions
              /\ collected[i] = <<collected[i][1], collected[i][2]>>
<1>1. collected \in Seq(Partitions \X (0 .. MaxBatches))
  BY DEF TypeOK
<1> QED BY SMTT(30), <1>1

\* Steps that collect nothing and join nobody.
LEMMA OrderQuiet ==
  ASSUME OrderInv, TypeOK, UNCHANGED collected,
         \A p \in Partitions : task[p] = "joined" => task'[p] = "joined" /\ batches'[p] = batches[p],
         parent' \in {"joining", "ok"} =>
           /\ parent \in {"joining", "ok"}
           /\ \A p \in Partitions : task'[p] = "joined" => task[p] = "joined"
  PROVE  OrderInv'
BY Entries DEF OrderInv

\* The only step that collects: the entry of the partition just joined is new.
LEMMA OrderJoin ==
  ASSUME OrderInv, TypeOK, NEW p \in Partitions, JoinBatches(p)
  PROVE  OrderInv'
<1> DEFINE n == Len(collected)
           e == <<p, batches[p]>>
<1>1. /\ parent = "joining" /\ task[p] = "done" /\ UNCHANGED batches
      /\ collected' = Append(collected, e)
      /\ \A q \in Partitions : task'[q] = IF q = p THEN "joined" ELSE task[q]
  BY DEF JoinBatches, Joined, TypeOK
<1>2. /\ n \in Nat /\ DOMAIN collected = 1 .. n /\ DOMAIN collected' = 1 .. n + 1
      /\ \A i \in 1 .. n : collected'[i] = collected[i]
      /\ collected'[n + 1] = e
  <2>1. collected \in Seq(Partitions \X (0 .. MaxBatches)) /\ e \in Partitions \X (0 .. MaxBatches)
    BY DEF TypeOK
  <2> QED BY SMTT(30), <1>1, <2>1
<1>3. e[1] = p /\ e[2] = batches[p]
  OBVIOUS
<1> HIDE DEF n, e
<1>4. \A i \in 1 .. n : collected[i][1] \in Partitions /\ collected[i][1] # p
  BY <1>1, <1>2, Entries DEF OrderInv
<1>5. \A i \in 1 .. n + 1 : i \in 1 .. n \/ i = n + 1
  BY SMTT(30), <1>2
<1>6. \A i \in DOMAIN collected' :
        task'[collected'[i][1]] = "joined" /\ collected'[i][2] = batches'[collected'[i][1]]
  BY SMTT(30), <1>1, <1>2, <1>3, <1>4, <1>5 DEF OrderInv
<1>7. \A i, j \in DOMAIN collected' : collected'[i][1] = collected'[j][1] => i = j
  BY SMTT(30), <1>2, <1>3, <1>4, <1>5 DEF OrderInv
<1>8. \A q \in Partitions : task'[q] = "joined" => \E i \in DOMAIN collected' : collected'[i][1] = q
  <2> SUFFICES ASSUME NEW q \in Partitions, task'[q] = "joined"
               PROVE  \E i \in DOMAIN collected' : collected'[i][1] = q
    OBVIOUS
  <2>1. CASE q = p
    <3>1. n + 1 \in DOMAIN collected'
      BY SMTT(30), <1>2
    <3> QED BY <1>2, <1>3, <2>1, <3>1
  <2>2. CASE q # p
    <3>1. PICK i \in DOMAIN collected : collected[i][1] = q
      BY <1>1, <2>2 DEF OrderInv
    <3>2. i \in DOMAIN collected' /\ collected'[i] = collected[i]
      BY SMTT(30), <1>2, <3>1
    <3> QED BY <3>1, <3>2
  <2> QED BY <2>1, <2>2
<1> QED BY <1>6, <1>7, <1>8 DEF OrderInv

LEMMA OrderStep ==
  ASSUME OrderInv, CollectionInv, [Next]_vars
  PROVE  OrderInv'
<1>1. TypeOK /\ TaskInv
  BY DEF CollectionInv
<1>2. CASE UNCHANGED vars
  BY <1>1, <1>2, OrderQuiet DEF vars
<1>3. ASSUME NEW p \in Partitions, TaskStep(p) PROVE OrderInv'
  <2>1. /\ UNCHANGED <<collected, parent>> /\ task[p] # "joined"
        /\ \A q \in Partitions \ {p} : task'[q] = task[q] /\ batches'[q] = batches[q]
    BY <1>1, <1>3 DEF TaskStep, NextBatch, EndStream, FailStream, Panic, StopTask, Finalize,
                      RecordTerminal, TypeOK
  <2>2. task'[p] # "joined"
    BY <1>1, <1>3 DEF TaskStep, NextBatch, EndStream, FailStream, Panic, StopTask, Finalize,
                      RecordTerminal, TypeOK
  <2> QED BY <1>1, <2>1, <2>2, OrderQuiet
<1>4. CASE StartFails \/ Sample \/ DropParent
  BY <1>1, <1>4, OrderQuiet DEF StartFails, Sample, DropParent
<1>5. CASE StartStreams
  <2>1. \A p \in Partitions : task[p] = "none"
    BY <1>1, <1>5 DEF CollectionInv, NotStarted, Started, TaskInv, StartStreams
  <2>2. collected = <<>>
    <3>1. DOMAIN collected = {}
      <4>1. \A i \in DOMAIN collected : collected[i][1] \in Partitions
        BY <1>1, Entries
      <4>2. \A i \in DOMAIN collected : task[collected[i][1]] = "joined"
        BY DEF OrderInv
      <4> QED BY ONLY <2>1, <4>1, <4>2
    <3>2. Len(collected) = 0
      BY SMTT(30), <1>1, <3>1, Entries
    <3> QED BY SMTT(30), <1>1, <3>2 DEF TypeOK
  <2>3. DOMAIN collected' = {} /\ \A p \in Partitions : task'[p] # "joined"
    BY SMTT(30), <1>5, <2>2 DEF StartStreams
  <2> QED BY <2>3 DEF OrderInv
<1>6. ASSUME NEW p \in Partitions, JoinBatches(p) PROVE OrderInv'
  BY <1>1, <1>6, OrderJoin
<1>7. ASSUME NEW p \in Partitions, JoinFailure(p) \/ Drain(p) \/ JoinPanic(p) PROVE OrderInv'
  <2>1. /\ UNCHANGED <<collected, batches>> /\ parent' \notin {"joining", "ok"}
        /\ \A q \in Partitions : task'[q] = IF q = p THEN "joined" ELSE task[q]
    BY <1>1, <1>7 DEF JoinFailure, Drain, JoinPanic, DrainFirst, Joined, TypeOK
  <2> QED BY <1>1, <2>1, OrderQuiet
<1> QED BY <1>2, <1>3, <1>4, <1>5, <1>6, <1>7 DEF Next, ParentStep

\* The inductive invariant of the entries.
THEOREM OrderInvariant == Spec => []OrderInv
<1>1. Init => OrderInv
  <2> SUFFICES ASSUME Init PROVE OrderInv
    OBVIOUS
  <2>1. DOMAIN collected = {} /\ parent = "starting"
    BY SMTT(30) DEF Init
  <2> QED BY <2>1 DEF OrderInv
<1>2. OrderInv /\ CollectionInv /\ [Next]_vars => OrderInv'
  BY OrderStep
<1> QED BY <1>1, <1>2, CollectionInvariant, PTL DEF Spec

\* An increasing function of 1 .. n into itself: each initial segment, and each
\* final one, has room enough only if it changes nothing.
LEMMA IncreasingIsIdentity ==
  ASSUME NEW n \in Nat, NEW h \in [1 .. n -> 1 .. n],
         \A i, j \in 1 .. n : i < j => h[i] < h[j]
  PROVE  \A i \in 1 .. n : h[i] = i
<1> SUFFICES ASSUME NEW i \in 1 .. n PROVE h[i] = i
  OBVIOUS
<1>0. \A k \in 1 .. n : h[k] \in 1 .. n
  OBVIOUS
<1>1. \A j, k \in 1 .. n : h[j] = h[k] => j = k
  <2> SUFFICES ASSUME NEW j \in 1 .. n, NEW k \in 1 .. n, h[j] = h[k], j # k PROVE FALSE
    OBVIOUS
  <2>1. j < k \/ k < j
    BY SMTT(30)
  <2> QED BY SMTT(30), <1>0, <2>1
<1>m. ASSUME NEW j \in 1 .. n, NEW k \in 1 .. n, j <= k
      PROVE  h[j] \in 1 .. h[k] /\ h[k] \in h[j] .. n
  <2>1. h[j] \in 1 .. n /\ h[k] \in 1 .. n
    BY <1>0
  <2>2. j = k \/ h[j] < h[k]
    BY SMTT(30), <1>m
  <2>0. h[j] \in Int /\ h[k] \in Int
    BY ONLY <2>1, n \in Nat
  <2>3. h[j] <= h[k]
    <3>1. CASE j = k
      BY ONLY <2>0, <3>1
    <3>2. CASE h[j] < h[k]
      BY ONLY <2>0, <3>2
    <3> QED BY ONLY <2>2, <3>1, <3>2
  <2> QED BY ONLY <2>1, <2>3, n \in Nat
<1>2. i <= h[i]
  <2> DEFINE f == [k \in 1 .. i |-> h[k]]
  <2>0. \A k \in 1 .. i : k \in 1 .. n /\ k <= i
    BY SMTT(30)
  <2>1. \A k \in 1 .. i : k \in 1 .. n /\ h[k] \in 1 .. h[i]
    BY ONLY <1>m, <2>0, i \in 1 .. n
  <2>2. f \in Injection(1 .. i, 1 .. h[i])
    BY <1>1, <2>1 DEF Injection, IsInjective
  <2> HIDE DEF f
  <2>3. /\ IsFiniteSet(1 .. h[i]) /\ Cardinality(1 .. h[i]) = h[i]
        /\ Cardinality(1 .. i) = i
    BY SMTT(30), <1>0, FS_Interval
  <2>4. Cardinality(1 .. i) <= Cardinality(1 .. h[i])
    BY <2>2, <2>3, FS_Injection
  <2> QED BY <2>3, <2>4
<1>3. h[i] <= i
  <2> DEFINE f == [k \in i .. n |-> h[k]]
  <2>0. \A k \in i .. n : k \in 1 .. n /\ i <= k
    BY SMTT(30)
  <2>1. \A k \in i .. n : k \in 1 .. n /\ h[k] \in h[i] .. n
    BY ONLY <1>m, <2>0, i \in 1 .. n
  <2>2. f \in Injection(i .. n, h[i] .. n)
    BY <1>1, <2>1 DEF Injection, IsInjective
  <2> HIDE DEF f
  <2>3. /\ IsFiniteSet(h[i] .. n) /\ Cardinality(h[i] .. n) = n - h[i] + 1
        /\ Cardinality(i .. n) = n - i + 1
    BY SMTT(30), <1>0, FS_Interval
  <2>4. Cardinality(i .. n) <= Cardinality(h[i] .. n)
    BY <2>2, <2>3, FS_Injection
  <2> QED BY SMTT(30), <1>0, <2>3, <2>4
<1> QED BY SMTT(30), <1>0, <1>2, <1>3

\* There are as many entries as partitions once every partition has its entry.
LEMMA AllCollected ==
  ASSUME TypeOK, OrderInv, \A p \in Partitions : \E i \in DOMAIN collected : collected[i][1] = p
  PROVE  Len(collected) = N
<1> DEFINE n == Len(collected)
           key == [i \in 1 .. n |-> collected[i][1]]
<1>1. n \in Nat /\ DOMAIN collected = 1 .. n /\ \A i \in 1 .. n : collected[i][1] \in Partitions
  BY Entries
<1>2. key \in Injection(1 .. n, Partitions)
  BY <1>1 DEF OrderInv, Injection, IsInjective
<1>3. key \in Surjection(1 .. n, Partitions)
  BY <1>1 DEF Surjection
<1> HIDE DEF key
<1>4. /\ IsFiniteSet(Partitions) /\ Cardinality(Partitions) = N
      /\ Cardinality(1 .. n) = n
  <2>1. \A m \in Nat : IsFiniteSet(1 .. m) /\ Cardinality(1 .. m) = m
    BY SMTT(30), FS_Interval
  <2> QED BY <1>1, <2>1, CollectionAssumption DEF Partitions
<1>5. Cardinality(1 .. n) = Cardinality(Partitions)
  BY <1>2, <1>3, <1>4, FS_Injection
<1> QED BY <1>4, <1>5

\* join_next yields the tasks in the order they finish; for every number of
\* partitions, the sort restores the order of the partitions and loses none.
THEOREM OrderIsRestored == Spec => []PartitionOrderRestored
<1>1. CollectionInv /\ OrderInv => PartitionOrderRestored
  <2> SUFFICES ASSUME CollectionInv, OrderInv, parent = "ok"
               PROVE  CollectedPartitions = [p \in Partitions |-> <<p, batches[p]>>]
    BY DEF PartitionOrderRestored
  <2> DEFINE key(i) == collected[i][1]
  <2>1. TypeOK /\ \A p \in Partitions : task[p] = "joined"
    BY DEF CollectionInv, NotStarted, Started, ParentInv
  <2>2. \A p \in Partitions : \E i \in DOMAIN collected : key(i) = p
    BY <2>1 DEF OrderInv
  <2>3. /\ Len(collected) = N /\ N \in Nat /\ DOMAIN collected = 1 .. N /\ Partitions = 1 .. N
        /\ \A i \in 1 .. N : key(i) \in 1 .. N /\ collected[i] = <<key(i), batches[key(i)]>>
        /\ \A i, j \in 1 .. N : key(i) = key(j) => i = j
        /\ \A p \in 1 .. N : \E i \in 1 .. N : key(i) = p
    <3>1. Len(collected) = N
      BY <2>1, <2>2, AllCollected
    <3>2. N \in Nat /\ DOMAIN collected = 1 .. N /\ Partitions = 1 .. N
      BY <2>1, <3>1, Entries DEF Partitions
    <3>3. \A i \in 1 .. N : key(i) \in 1 .. N /\ collected[i] = <<key(i), collected[i][2]>>
      BY <2>1, <3>2, Entries
    <3>4. \A i \in 1 .. N : collected[i][2] = batches[key(i)]
      BY <3>2 DEF OrderInv
    <3>5. \A i, j \in 1 .. N : key(i) = key(j) => i = j
      BY <3>2 DEF OrderInv
    <3> HIDE DEF key
    <3> QED BY <2>2, <3>1, <3>2, <3>3, <3>4, <3>5
  <2> HIDE DEF key
  <2>4. \E f \in [1 .. N -> 1 .. N] : Sorts(f)
    <3> DEFINE g == [p \in 1 .. N |-> CHOOSE i \in 1 .. N : key(i) = p]
    <3>1. \A p \in 1 .. N : g[p] \in 1 .. N /\ key(g[p]) = p
      BY <2>3
    <3>2. g \in [1 .. N -> 1 .. N]
      BY <3>1
    <3> HIDE DEF g
    <3>3. ASSUME NEW j \in 1 .. N PROVE \E i \in 1 .. N : g[i] = j
      <4>1. key(j) \in 1 .. N
        BY <2>3
      <4>2. g[key(j)] \in 1 .. N /\ key(g[key(j)]) = key(j)
        BY <3>1, <4>1
      <4>3. g[key(j)] = j
        BY <2>3, <4>2
      <4> QED BY <4>1, <4>3
    <3>4. \A i, j \in 1 .. N : i < j => key(g[i]) < key(g[j])
      BY <3>1
    <3>5. Sorts(g)
      BY <2>3, <3>3, <3>4 DEF Sorts, key
    <3> QED BY <3>2, <3>5
  <2> DEFINE order == CHOOSE f \in [1 .. N -> 1 .. N] : Sorts(f)
  <2>5. order \in [1 .. N -> 1 .. N] /\ Sorts(order)
    BY <2>4
  <2>6. CollectedPartitions = [i \in 1 .. N |-> collected[order[i]]]
    BY SMTT(30), <2>3 DEF CollectedPartitions
  <2> HIDE DEF order
  <2> DEFINE h == [i \in 1 .. N |-> key(order[i])]
  <2>7. \A i \in 1 .. N : order[i] \in 1 .. N /\ key(order[i]) \in 1 .. N
    BY <2>3, <2>5
  <2>8. \A i, j \in 1 .. N : i < j => key(order[i]) < key(order[j])
    <3>1. \A i, j \in 1 .. N : i < j =>
            key(order[i]) < key(order[j]) \/ (key(order[i]) = key(order[j]) /\ order[i] < order[j])
      BY <2>3, <2>5 DEF Sorts, key
    <3> SUFFICES ASSUME NEW i \in 1 .. N, NEW j \in 1 .. N, i < j, ~(key(order[i]) < key(order[j]))
                 PROVE  FALSE
      OBVIOUS
    <3>2. key(order[i]) = key(order[j]) /\ order[i] < order[j]
      BY <3>1
    <3>3. order[i] \in 1 .. N /\ order[j] \in 1 .. N
      BY <2>7
    <3>4. order[i] = order[j]
      BY <2>3, <3>2, <3>3
    <3> QED BY SMTT(30), <3>2, <3>3, <3>4
  <2>9. \A i \in 1 .. N : key(order[i]) = i
    <3>1. h \in [1 .. N -> 1 .. N] /\ \A i, j \in 1 .. N : i < j => h[i] < h[j]
      BY <2>7, <2>8
    <3>2. \A i \in 1 .. N : h[i] = key(order[i])
      OBVIOUS
    <3> HIDE DEF h
    <3>3. N \in Nat
      BY CollectionAssumption
    <3>4. \A i \in 1 .. N : h[i] = i
      BY <3>1, <3>3, IncreasingIsIdentity
    <3> QED BY <3>2, <3>4
  <2>10. \A i \in 1 .. N : collected[order[i]] = <<i, batches[i]>>
    BY <2>3, <2>7, <2>9
  <2> QED BY <2>3, <2>6, <2>10
<1> QED BY <1>1, CollectionInvariant, OrderInvariant, PTL
=============================================================================
