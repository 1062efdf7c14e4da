-------------------------- MODULE OperatorActivity ---------------------------
(***************************************************************************)
(* Activity spans of the operators of one profiled query: threads execute  *)
(* and poll the instrumented streams, each span is a slice on a worker     *)
(* lane, and the spans of the operation are limited by one budget.  Models *)
(* operator_activity.rs, operator_activity/task_tracing.rs and the budget  *)
(* of profiling.rs.  A lock, an atomic operation and a report are one step *)
(* each; what a thread does to its own stack happens with the next of them.*)
(***************************************************************************)
EXTENDS Integers, Sequences, FiniteSets

CONSTANTS
  Workers,      \* threads that poll Tokio tasks
  Main,         \* the thread that blocks on the operation
  Streams,      \* the streams of the instrumented plan
  FirstStreams, \* those of partition 0
  ScanStreams,  \* those of Delta scans
  Tasks,        \* tasks that DataFusion may spawn
  MaxSpans,     \* max_operator_activity_spans
  MaxDepth      \* bound on nested calls of one thread

Threads == Workers \cup {Main}

NoLane == -1
CoordinatorLane == 0

ASSUME ActivityAssumption ==
  /\ Main \notin Workers /\ IsFiniteSet(Workers)
  /\ FirstStreams \subseteq Streams /\ ScanStreams \subseteq Streams
  /\ MaxSpans \in Nat /\ MaxDepth \in Nat

VARIABLES
  lanes,      \* worker_lanes: lanes[i] has id i
  calls,      \* calls[t]: the calls thread t is in, outermost first
  pc, entry,  \* the call that thread t is entering or has just left
  remaining, reported,  \* the budget
  tasks,      \* tasks[k]: not spawned, or whether its polls carry a context
  waiting,    \* scan streams with an open output wait
  recorded,   \* spans and waits recorded against the budget
  refused,    \* whether a reservation was refused
  announced   \* truncation events

vars == <<lanes, calls, pc, entry, remaining, reported, tasks, waiting, recorded, refused,
          announced>>

Activities == {"execute", "poll", "wait", "task"}

\* A call without a lane records no span.  parent: a span of the query is open on
\* this thread; result: what a poll returned.
Call == [activity : Activities, id : Streams \cup Tasks \cup {Main},
         lane : {NoLane} \cup Nat, owns : BOOLEAN, parent : BOOLEAN,
         result : {"none", "pending", "ready", "panic"}]

LaneState == [kind : {"runtime", "external"}, active : BOOLEAN]

Kind(t) == IF t \in Workers THEN "runtime" ELSE "external"

\* ACTIVE_OPERATOR_ACTIVITY_SPANS of thread t.
ActiveSpans(t) == {i \in DOMAIN calls[t] : calls[t][i].lane # NoLane}

NoCall == [activity |-> "task", id |-> Main, lane |-> NoLane, owns |-> FALSE,
           parent |-> FALSE, result |-> "none"]

Init ==
  /\ lanes = <<>> /\ remaining = MaxSpans /\ reported = FALSE
  /\ calls = [t \in Threads |-> <<>>]
  /\ pc = [t \in Threads |-> "running"]
  /\ entry = [t \in Threads |-> NoCall]
  /\ tasks = [k \in Tasks |-> "none"]
  /\ waiting = {} /\ recorded = 0 /\ refused = FALSE /\ announced = 0
-----------------------------------------------------------------------------
(* Lanes. *)

\* Every call gets a lane of its own.
AcquireNewLane(kind, lane) ==
  /\ lane = Len(lanes) + 1
  /\ lanes' = Append(lanes, [kind |-> kind, active |-> TRUE])

\* The first inactive lane of the kind, or a new one.
AcquireWorkerLane(kind, lane) ==
  LET free == {l \in DOMAIN lanes : lanes[l].kind = kind /\ ~lanes[l].active}
  IN  \/ /\ lane \in free /\ \A l \in free : lane <= l
         /\ lanes' = [lanes EXCEPT ![lane].active = TRUE]
      \/ /\ free = {} /\ lane = Len(lanes) + 1
         /\ lanes' = Append(lanes, [kind |-> kind, active |-> TRUE])

ReleaseWorkerLane(lane) == lanes' = [lanes EXCEPT ![lane].active = FALSE]

\* The lane of the innermost span, the coordinator's, or one that the call owns.
ExecutionContext(t, coordinator, lane, owns) ==
  \/ /\ \E i \in ActiveSpans(t) : lane = calls[t][i].lane /\ \A j \in ActiveSpans(t) : j <= i
     /\ owns = FALSE /\ UNCHANGED lanes
  \/ /\ ActiveSpans(t) = {} /\ coordinator /\ t = Main
     /\ lane = CoordinatorLane /\ owns = FALSE /\ UNCHANGED lanes
  \/ /\ ActiveSpans(t) = {} /\ ~(coordinator /\ t = Main)
     /\ owns = TRUE /\ AcquireWorkerLane(Kind(t), lane)
-----------------------------------------------------------------------------
(* start_span *)

\* A thread can call a stream in the operation itself or in the poll of a task.
InCode(t) == pc[t] = "running" /\ (t = Main \/ calls[t] # <<>>)

Polled(s) == \E t \in Threads : \E i \in DOMAIN calls[t] :
               calls[t][i].activity = "poll" /\ calls[t][i].id = s

Entering(s) == \E t \in Threads : pc[t] # "running" /\ entry[t].activity \in {"poll", "wait"} /\ entry[t].id = s

StartSpan(t, s, a) ==
  /\ InCode(t) /\ Len(calls[t]) < MaxDepth
  /\ a \in {"execute", "poll"} /\ (a = "poll" => ~Polled(s) /\ ~Entering(s))
  /\ \E lane \in 0 .. Len(lanes) + 1, owns \in BOOLEAN :
       /\ ExecutionContext(t, s \in FirstStreams, lane, owns)
       /\ entry' = [entry EXCEPT ![t] =
            [activity |-> a, id |-> s, lane |-> lane, owns |-> owns,
             parent |-> ActiveSpans(t) # {}, result |-> "none"]]
  /\ pc' = [pc EXCEPT ![t] = "reserve"]
  /\ UNCHANGED <<calls, remaining, reported, tasks, waiting, recorded, refused, announced>>

\* fetch_update with checked_sub.
Reserve(t) ==
  /\ pc[t] = "reserve"
  /\ \/ /\ remaining > 0
        /\ remaining' = remaining - 1
        /\ pc' = [pc EXCEPT ![t] = "granted"]
        /\ UNCHANGED refused
     \/ /\ remaining = 0
        /\ refused' = TRUE
        /\ pc' = [pc EXCEPT ![t] = "refused"]
        /\ UNCHANGED remaining
  /\ UNCHANGED <<lanes, calls, entry, reported, tasks, waiting, recorded, announced>>

\* A load; the flag is stored with the announcement.
LoadReported(t) ==
  /\ pc[t] = "refused"
  /\ pc' = [pc EXCEPT ![t] = IF reported THEN "capped" ELSE "announce"]
  /\ reported' = (reported \/ announced > 0)
  /\ UNCHANGED <<lanes, calls, entry, remaining, tasks, waiting, recorded, refused, announced>>

\* truncation_reported.swap(true): should_report for the first one.
SwapReported(t) ==
  /\ pc[t] = "refused"
  /\ pc' = [pc EXCEPT ![t] = IF reported THEN "capped" ELSE "announce"]
  /\ reported' = TRUE
  /\ UNCHANGED <<lanes, calls, entry, remaining, tasks, waiting, recorded, refused, announced>>

ReportTruncation(t) ==
  /\ pc[t] = "announce"
  /\ announced' = announced + 1
  /\ pc' = [pc EXCEPT ![t] = "capped"]
  /\ UNCHANGED <<lanes, calls, entry, remaining, reported, tasks, waiting, recorded, refused>>

\* Nothing is recorded without detail.
RecordsGrantedOnly(t) == pc[t] = "granted"

\* Without detail only a span that no other one of the thread encloses is recorded.
RecordsProcessSpan(t) == pc[t] = "granted" \/ ~entry[t].parent

RecordSpan(t) ==
  /\ pc[t] \in {"granted", "capped"} /\ entry[t].activity # "wait"
  /\ RecordsProcessSpan(t)
  /\ calls' = [calls EXCEPT ![t] = Append(@, entry[t])]
  /\ recorded' = IF pc[t] = "granted" THEN recorded + 1 ELSE recorded
  /\ pc' = [pc EXCEPT ![t] = "running"]
  /\ entry' = [entry EXCEPT ![t] = NoCall]
  /\ UNCHANGED <<lanes, remaining, reported, tasks, waiting, refused, announced>>

\* start_span returns None and the call goes on without a span.
OmitSpan(t) ==
  /\ pc[t] = "capped" /\ entry[t].activity # "wait"
  /\ ~RecordsProcessSpan(t)
  /\ IF entry[t].owns THEN ReleaseWorkerLane(entry[t].lane) ELSE UNCHANGED lanes
  /\ calls' = [calls EXCEPT ![t] = Append(@, [entry[t] EXCEPT !.lane = NoLane, !.owns = FALSE])]
  /\ pc' = [pc EXCEPT ![t] = "running"]
  /\ entry' = [entry EXCEPT ![t] = NoCall]
  /\ UNCHANGED <<remaining, reported, tasks, waiting, recorded, refused, announced>>
-----------------------------------------------------------------------------
(* The end of a call. *)

\* The wait of a scan stream: from the first pending poll to the next ready one.
StartsWait(c) ==
  c.activity = "poll" /\ c.id \in ScanStreams \ waiting /\ c.result = "pending"

EndsWait(c) == c.activity = "poll" /\ c.result = "ready"

AfterSpan(t, c) ==
  /\ entry' = [entry EXCEPT ![t] =
       IF StartsWait(c) THEN [NoCall EXCEPT !.activity = "wait", !.id = c.id] ELSE NoCall]
  /\ pc' = [pc EXCEPT ![t] = IF StartsWait(c) THEN "reserve" ELSE "running"]
  /\ waiting' = IF EndsWait(c) THEN waiting \ {c.id} ELSE waiting

\* The lane is given back while the slice on it is still open.
ReleaseThenClose(t, r) ==
  LET c == [calls[t][Len(calls[t])] EXCEPT !.result = r]
      rest == SubSeq(calls[t], 1, Len(calls[t]) - 1) IN
  /\ pc[t] = "running" /\ calls[t] # <<>> /\ (c.activity = "poll" \/ r = "ready")
  /\ IF c.owns
     THEN /\ ReleaseWorkerLane(c.lane)
          /\ calls' = [calls EXCEPT ![t][Len(calls[t])].owns = FALSE]
          /\ UNCHANGED <<pc, entry, waiting>>
     ELSE /\ calls' = [calls EXCEPT ![t] = rest]
          /\ AfterSpan(t, c) /\ UNCHANGED lanes
  /\ UNCHANGED <<remaining, reported, tasks, recorded, refused, announced>>

\* Drop of the recorder or of the task scope: the span leaves the stack and its
\* slice is closed; a lane that the call owns is given back after that.
CloseSpan(t, r) ==
  LET c == [calls[t][Len(calls[t])] EXCEPT !.result = r]
      rest == SubSeq(calls[t], 1, Len(calls[t]) - 1) IN
  /\ pc[t] = "running" /\ calls[t] # <<>> /\ (c.activity = "poll" \/ r = "ready")
  /\ calls' = [calls EXCEPT ![t] = rest]
  /\ IF c.owns
     THEN /\ entry' = [entry EXCEPT ![t] = c]
          /\ pc' = [pc EXCEPT ![t] = "release"]
          /\ UNCHANGED waiting
     ELSE AfterSpan(t, c)
  /\ UNCHANGED <<lanes, remaining, reported, tasks, recorded, refused, announced>>

ReleaseLane(t) ==
  /\ pc[t] = "release"
  /\ ReleaseWorkerLane(entry[t].lane)
  /\ AfterSpan(t, entry[t])
  /\ UNCHANGED <<calls, remaining, reported, tasks, recorded, refused, announced>>

\* start_delta_scan_output_wait.
RecordWait(t) ==
  /\ pc[t] \in {"granted", "capped"} /\ entry[t].activity = "wait"
  /\ IF pc[t] = "granted"
     THEN waiting' = waiting \cup {entry[t].id} /\ recorded' = recorded + 1
     ELSE UNCHANGED <<waiting, recorded>>
  /\ pc' = [pc EXCEPT ![t] = "running"]
  /\ entry' = [entry EXCEPT ![t] = NoCall]
  /\ UNCHANGED <<lanes, calls, remaining, reported, tasks, refused, announced>>

\* A stream that is dropped ends its wait.
DropStream(s) ==
  /\ s \in waiting /\ ~Polled(s) /\ ~Entering(s)
  /\ waiting' = waiting \ {s}
  /\ UNCHANGED <<lanes, calls, pc, entry, remaining, reported, tasks, recorded, refused, announced>>
-----------------------------------------------------------------------------
(* Tasks. *)

\* The tracer hands the context of the innermost span to the task.
SpawnTask(t, k) ==
  /\ InCode(t) /\ tasks[k] = "none"
  /\ tasks' = [tasks EXCEPT ![k] = IF ActiveSpans(t) # {} THEN "traced" ELSE "plain"]
  /\ UNCHANGED <<lanes, calls, pc, entry, remaining, reported, waiting, recorded, refused, announced>>

PollTask(t, k) ==
  /\ t \in Workers /\ pc[t] = "running" /\ calls[t] = <<>>
  /\ tasks[k] # "none"
  /\ \A u \in Workers : calls[u] # <<>> => calls[u][1].id # k
  /\ \E lane \in {NoLane} \cup (0 .. Len(lanes) + 1), owns \in BOOLEAN :
       /\ IF tasks[k] = "traced" THEN ExecutionContext(t, FALSE, lane, owns)
          ELSE lane = NoLane /\ owns = FALSE /\ UNCHANGED lanes
       /\ calls' = [calls EXCEPT ![t] = <<[activity |-> "task", id |-> k, lane |-> lane,
                                           owns |-> owns, parent |-> FALSE, result |-> "none"]>>]
  /\ UNCHANGED <<pc, entry, remaining, reported, tasks, waiting, recorded, refused, announced>>

\* Between two polls a task may be done.
EndTask(k) ==
  /\ tasks[k] # "none"
  /\ \A u \in Workers : calls[u] # <<>> => calls[u][1].id # k
  /\ tasks' = [tasks EXCEPT ![k] = "none"]
  /\ UNCHANGED <<lanes, calls, pc, entry, remaining, reported, waiting, recorded, refused, announced>>

Step(t) ==
  \/ \E s \in Streams, a \in {"execute", "poll"} : StartSpan(t, s, a)
  \/ Reserve(t) \/ SwapReported(t) \/ ReportTruncation(t)
  \/ RecordSpan(t) \/ OmitSpan(t) \/ RecordWait(t)
  \/ \E r \in {"pending", "ready", "panic"} : CloseSpan(t, r)
  \/ ReleaseLane(t)
  \/ \E k \in Tasks : SpawnTask(t, k) \/ PollTask(t, k)

Next ==
  \/ \E t \in Threads : Step(t)
  \/ \E s \in Streams : DropStream(s)
  \/ \E k \in Tasks : EndTask(k)

Spec == Init /\ [][Next]_vars
-----------------------------------------------------------------------------
TypeOK ==
  /\ lanes \in Seq(LaneState)
  /\ calls \in [Threads -> Seq(Call)]
  /\ pc \in [Threads -> {"running", "reserve", "granted", "refused", "announce", "capped", "release"}]
  /\ entry \in [Threads -> Call]
  /\ remaining \in 0 .. MaxSpans /\ reported \in BOOLEAN
  /\ tasks \in [Tasks -> {"none", "traced", "plain"}]
  /\ waiting \subseteq ScanStreams /\ recorded \in Nat
  /\ refused \in BOOLEAN /\ announced \in Nat

\* The lanes on which thread t has open slices or task scopes.
LanesOf(t) == {calls[t][i].lane : i \in ActiveSpans(t)}

\* "preventing overlapping slices on one lane": the spans that are open on one lane
\* belong to calls of one thread, which are nested, whichever lanes are reused.
LaneExclusive ==
  \A t, u \in Threads : LanesOf(t) \cap LanesOf(u) # {} => t = u

\* Lanes are "bounded active executor slots": never more than there are threads of
\* the kind, and all of them are inactive when no thread is in a call.
LanesBounded ==
  /\ Cardinality({i \in DOMAIN lanes : lanes[i].kind = "runtime"}) <= Cardinality(Workers)
  /\ Cardinality({i \in DOMAIN lanes : lanes[i].kind = "external"}) <= 1
  /\ (\A t \in Threads : calls[t] = <<>> /\ pc[t] = "running") =>
       \A i \in DOMAIN lanes : ~lanes[i].active

\* "Once detailed spans are capped, keep only the outermost activity ... so sampled
\* stacks retain query and worker identity": a thread in a call of a stream always
\* has a span of the query, and a call without a span is inside of one.
IdentityKept ==
  \A t \in Threads : \A i \in DOMAIN calls[t] :
    calls[t][i].activity # "task" => \E j \in ActiveSpans(t) : j <= i

\* The budget pays for no more spans and waits than it has (an outermost span without one
\* is still recorded, for its identity) and is truncated only when it is used up;
\* truncation is announced once, by the time all are back.
TruncationAnnouncedOnce ==
  /\ recorded <= MaxSpans /\ (refused => remaining = 0)
  /\ announced <= 1
  /\ (refused /\ \A t \in Threads : pc[t] \in {"running", "release"}) => announced = 1
=============================================================================
