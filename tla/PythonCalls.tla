---------------------------- MODULE PythonCalls ------------------------------
(***************************************************************************)
(* Calls of Python threads on one Session: the GIL, the borrow of the      *)
(* session, the log events of runtime workers and the profiled calls.      *)
(* Models session.rs, table.rs, profiler.rs and the GIL side of logging.rs *)
(* of delta-funnel-python, with TraceboxCapture for the profile.           *)
(***************************************************************************)
EXTENDS TraceboxCapture

Threads == Calls
NoThread == NoCall

VARIABLES
  gil,        \* who is attached to the interpreter
  pc, kind,   \* the call that each thread is in
  excl,       \* the thread with PyRefMut<PySession>
  shared,     \* the threads with PyRef<PySession>
  caching,    \* the threads whose write_all has caches in the place of aliases
  worker,     \* a runtime worker for the thread: idle, or with a log event
  operation,  \* the result of the operation
  result      \* what the last call of the thread returned

pythonVars == <<gil, pc, kind, excl, shared, caching, worker, operation, result>>
vars == <<gil, pc, kind, excl, shared, caching, worker, operation, result, captureVars>>

\* mutate: delta_lake, table_from_sql and alias; plan: the dry runs and __repr__;
\* execute: preview, write_to_mssql and write_all; profile: those with a ranked profile.
Kinds == {"mutate", "plan", "execute", "profile"}

Caller(t) == <<t, "caller">>
Worker(t) == <<t, "worker">>
Nobody == <<NoThread, "nobody">>

Init ==
  /\ CaptureInit
  /\ gil = Nobody /\ excl = NoThread /\ shared = {} /\ caching = {}
  /\ pc = [t \in Threads |-> "idle"]
  /\ kind = [t \in Threads |-> "plan"]
  /\ worker = [t \in Threads |-> "idle"]
  /\ operation = [t \in Threads |-> "none"]
  /\ result = [t \in Threads |-> "none"]
-----------------------------------------------------------------------------
Jump(t, p) == pc' = [pc EXCEPT ![t] = p]
HasGil(t) == gil = Caller(t)
TakesGil(t) == gil = Nobody /\ gil' = Caller(t)
DropsGil(t) == gil' = Nobody

\* The interpreter runs Python code of the thread, which makes a call.
Begin(t, k) ==
  /\ pc[t] = "idle" /\ TakesGil(t) /\ Jump(t, "begin")
  /\ kind' = [kind EXCEPT ![t] = k]
  /\ UNCHANGED <<excl, shared, caching, worker, operation, result, captureVars>>

Return(t, r) ==
  /\ Jump(t, "returned")
  /\ result' = [result EXCEPT ![t] = r]

\* The Python code that made the call goes on.
Continue(t) ==
  /\ pc[t] = "returned" /\ DropsGil(t) /\ Jump(t, "idle") /\ Collect(t)
  /\ kind' = [kind EXCEPT ![t] = "plan"]
  /\ operation' = [operation EXCEPT ![t] = "none"]
  /\ result' = [result EXCEPT ![t] = "none"]
  /\ UNCHANGED <<excl, shared, caching, worker>>

BorrowsMut(t) == excl = NoThread /\ shared = {}

\* borrow_session_mut
Mutate(t) ==
  /\ pc[t] = "begin" /\ HasGil(t) /\ kind[t] = "mutate"
  /\ \/ /\ BorrowsMut(t) /\ excl' = t /\ Jump(t, "python") /\ UNCHANGED result
     \/ ~BorrowsMut(t) /\ Return(t, "concurrent_mutation") /\ UNCHANGED excl
  /\ UNCHANGED <<gil, kind, shared, caching, worker, operation, captureVars>>

\* start_ranked_profile: an invalid path or subscriber, or start without the GIL.
StartProfile(t) ==
  /\ pc[t] = "begin" /\ HasGil(t) /\ kind[t] = "profile"
  /\ \/ Jump(t, "starting") /\ DropsGil(t) /\ Reserve(t) /\ UNCHANGED result
     \/ Return(t, "profile_error") /\ UNCHANGED <<gil, captureVars>>
  /\ UNCHANGED <<kind, excl, shared, caching, worker, operation>>

Started(t) ==
  /\ pc[t] = "starting" /\ TakesGil(t)
  /\ \/ phase[t] = "capturing" /\ Jump(t, "borrow")
     \/ phase[t] = "idle" /\ Jump(t, "startFailed")
  /\ UNCHANGED <<kind, excl, shared, caching, worker, operation, result, captureVars>>

ReturnStartFailure(t) ==
  /\ pc[t] = "startFailed" /\ Return(t, "profile_error")
  /\ UNCHANGED <<gil, kind, excl, shared, caching, worker, operation, captureVars>>

\* Where a call borrows the session: a profiled one inside of the capture scope.
Borrowing(t) == \/ pc[t] = "begin" /\ kind[t] \in {"plan", "execute"}
                \/ pc[t] = "borrow"

\* The borrow ends before py.detach.
RunReleased(t) ==
  /\ Borrowing(t) /\ HasGil(t) /\ excl = NoThread
  /\ \/ kind[t] = "plan" /\ Jump(t, "python") /\ shared' = shared \cup {t} /\ UNCHANGED gil
     \/ kind[t] # "plan" /\ Jump(t, "executing") /\ DropsGil(t) /\ UNCHANGED shared
  /\ UNCHANGED <<kind, excl, caching, worker, operation, result, captureVars>>

\* Operations without py.detach.
RunAttached(t) ==
  /\ Borrowing(t) /\ HasGil(t) /\ excl = NoThread
  /\ shared' = shared \cup {t} /\ Jump(t, "python")
  /\ UNCHANGED <<gil, kind, excl, caching, worker, operation, result, captureVars>>

\* session.borrow: planning keeps the GIL, py.detach runs an operation without it; the
\* borrow lasts until the operation has returned.
Run(t) ==
  /\ Borrowing(t) /\ HasGil(t) /\ excl = NoThread
  /\ shared' = shared \cup {t}
  /\ \/ kind[t] = "plan" /\ Jump(t, "python") /\ UNCHANGED gil
     \/ kind[t] # "plan" /\ Jump(t, "executing") /\ DropsGil(t)
  /\ UNCHANGED <<kind, excl, caching, worker, operation, result, captureVars>>

\* session.borrow panics while a mutation has the session; the capture is dropped.
RunPanics(t) ==
  /\ Borrowing(t) /\ HasGil(t) /\ excl # NoThread
  /\ \/ kind[t] # "profile" /\ Return(t, "panic") /\ UNCHANGED captureVars
     \/ kind[t] = "profile" /\ Jump(t, "unwinding") /\ Unwind(t) /\ UNCHANGED result
  /\ UNCHANGED <<gil, kind, excl, shared, caching, worker, operation>>

\* write_all puts its caches in the place of aliases, in the catalog of the session that
\* it has only borrowed to read.
ReplaceAliases(t) ==
  /\ pc[t] = "executing" /\ t \notin caching
  /\ caching' = caching \cup {t}
  /\ UNCHANGED <<gil, pc, kind, excl, shared, worker, operation, result, captureVars>>

\* An event of a runtime worker in the operation, mutation or plan of the thread, with or
\* without the GIL: PythonLoggingLayer::on_event attaches to log it.
WorkerEvent(t) ==
  /\ pc[t] \in {"executing", "python", "yielded"} /\ operation[t] = "none" /\ worker[t] = "idle"
  /\ worker' = [worker EXCEPT ![t] = "attaching"]
  /\ UNCHANGED <<gil, pc, kind, excl, shared, caching, operation, result, captureVars>>

WorkerAttach(t) ==
  /\ worker[t] = "attaching" /\ gil = Nobody /\ gil' = Worker(t)
  /\ worker' = [worker EXCEPT ![t] = "logging"]
  /\ UNCHANGED <<pc, kind, excl, shared, caching, operation, result, captureVars>>

WorkerLog(t) ==
  /\ worker[t] = "logging" /\ gil' = Nobody
  /\ worker' = [worker EXCEPT ![t] = "idle"]
  /\ UNCHANGED <<pc, kind, excl, shared, caching, operation, result, captureVars>>

\* The operation ends when its workers are done, with its aliases restored.
Execute(t) ==
  /\ pc[t] = "executing" /\ worker[t] = "idle"
  /\ \E r \in {"ok", "error"} : operation' = [operation EXCEPT ![t] = r]
  /\ Jump(t, "executed") /\ caching' = caching \ {t}
  /\ UNCHANGED <<gil, kind, excl, shared, worker, result, captureVars>>

Attach(t) ==
  /\ pc[t] = "executed" /\ TakesGil(t) /\ Jump(t, "python")
  /\ UNCHANGED <<kind, excl, shared, caching, worker, operation, result, captureVars>>

\* A mutation or a plan, which the thread makes with the GIL.
Work(t) ==
  /\ pc[t] = "python" /\ HasGil(t) /\ operation[t] = "none"
  /\ \E r \in {"ok", "error"} : operation' = [operation EXCEPT ![t] = r]
  /\ UNCHANGED <<gil, pc, kind, excl, shared, caching, worker, result, captureVars>>

\* block_on parks the thread, which keeps the GIL, until a worker that needs the GIL for
\* its event is done: neither goes on.
Park(t) ==
  /\ pc[t] = "python" /\ HasGil(t) /\ operation[t] = "none" /\ worker[t] = "attaching"
  /\ Jump(t, "parked")
  /\ UNCHANGED <<gil, kind, excl, shared, caching, worker, operation, result, captureVars>>

\* The progress display and log handlers are Python code: other threads get the GIL
\* while the session is borrowed.
Yield(t) ==
  /\ pc[t] = "python" /\ HasGil(t) /\ DropsGil(t) /\ Jump(t, "yielded")
  /\ UNCHANGED <<kind, excl, shared, caching, worker, operation, result, captureVars>>

Resume(t) ==
  /\ pc[t] = "yielded" /\ TakesGil(t) /\ Jump(t, "python")
  /\ UNCHANGED <<kind, excl, shared, caching, worker, operation, result, captureVars>>

Unborrow(t) ==
  /\ excl' = IF excl = t THEN NoThread ELSE excl
  /\ shared' = shared \ {t}

\* The end of the borrow, after PythonProgress::finish, which may have an interruption
\* to raise in place of a report.
Leave(t) ==
  /\ pc[t] = "python" /\ HasGil(t) /\ operation[t] # "none" /\ kind[t] # "profile"
  /\ Unborrow(t)
  /\ \/ Return(t, operation[t])
     \/ Return(t, "interrupted")
  /\ UNCHANGED <<gil, kind, caching, worker, operation, captureVars>>

LeaveProfile(t) ==
  /\ pc[t] = "python" /\ HasGil(t) /\ operation[t] # "none" /\ kind[t] = "profile"
  /\ Unborrow(t)
  /\ \E r \in {operation[t], "interrupted"} : result' = [result EXCEPT ![t] = r]
  /\ DropsGil(t) /\ Jump(t, "finishing") /\ Finish(t)
  /\ UNCHANGED <<kind, caching, worker, operation>>

\* The result of finish replaces that of the operation.
ProfileResult(t) == IF failed[t] THEN "profile_error" ELSE "ok"

\* The operation's error comes first; a profile error after it carries its status.
CombinedResult(t) ==
  IF result[t] # "ok" THEN result[t]
  ELSE IF failed[t] THEN "completed_profile_error" ELSE "ok"

FinishProfile(t) ==
  /\ pc[t] = "finishing" /\ phase[t] = "idle" /\ TakesGil(t) /\ Jump(t, "finished")
  /\ UNCHANGED <<kind, excl, shared, caching, worker, operation, result, captureVars>>

ReturnProfiled(t) ==
  /\ pc[t] = "finished" /\ Return(t, CombinedResult(t))
  /\ UNCHANGED <<gil, kind, excl, shared, caching, worker, operation, captureVars>>

ReturnUnwound(t) ==
  /\ pc[t] = "unwinding" /\ phase[t] = "idle" /\ Return(t, "panic")
  /\ UNCHANGED <<gil, kind, excl, shared, caching, worker, operation, captureVars>>

Capture(t) == pc[t] \in {"starting", "finishing", "unwinding"} /\ CaptureStep(t) /\ UNCHANGED pythonVars

Child(t) == (ChildReady(t) \/ ChildExit(t)) /\ UNCHANGED pythonVars

\* Steps of a thread that is not waiting for the GIL.
Step(t) ==
  \/ Mutate(t) \/ StartProfile(t) \/ ReturnStartFailure(t) \/ Run(t) \/ RunPanics(t) \/ Execute(t)
  \/ Work(t) \/ Leave(t) \/ LeaveProfile(t) \/ ReturnProfiled(t) \/ ReturnUnwound(t) \/ Capture(t)
  \/ Continue(t)

Reattach(t) == Started(t) \/ Attach(t) \/ Resume(t) \/ FinishProfile(t)

Next ==
  \E t \in Threads :
    \/ \E k \in Kinds : Begin(t, k)
    \/ Step(t) \/ Reattach(t) \/ Yield(t) \/ Park(t) \/ ReplaceAliases(t)
    \/ WorkerEvent(t) \/ WorkerAttach(t) \/ WorkerLog(t)
    \/ Child(t)

\* The interpreter makes its holder give the GIL up to those who wait for it, Python
\* code of a call ends, and so do operations; nobody has to make a call.
Fairness ==
  \A t \in Threads : /\ SF_vars(Step(t)) /\ SF_vars(Reattach(t))
                     /\ SF_vars(WorkerAttach(t) \/ WorkerLog(t))

Spec == Init /\ [][Next]_vars /\ Fairness
-----------------------------------------------------------------------------
Places == {"idle", "begin", "starting", "startFailed", "borrow", "executing", "executed", "python",
           "yielded", "parked", "finishing", "finished", "unwinding", "returned"}

Results == {"none", "ok", "error", "interrupted", "panic", "concurrent_mutation", "profile_error",
            "completed_profile_error"}

TypeOK ==
  /\ CaptureTypeOK
  /\ gil \in {Nobody} \cup {Caller(t) : t \in Threads} \cup {Worker(t) : t \in Threads}
  /\ pc \in [Threads -> Places]
  /\ kind \in [Threads -> Kinds]
  /\ excl \in Threads \cup {NoThread} /\ shared \subseteq Threads /\ caching \subseteq Threads
  /\ worker \in [Threads -> {"idle", "attaching", "logging"}]
  /\ operation \in [Threads -> {"none", "ok", "error"}]
  /\ result \in [Threads -> Results]

\* A call that registers or derives tables works on the catalog only while no write_all
\* has caches in the place of aliases: no table that outlives the write is planned on a
\* temporary cache. A call returns with its aliases restored and its borrow ended.
MutationSeesOriginals ==
  \A t \in Threads :
    /\ kind[t] = "mutate" /\ pc[t] \in {"python", "yielded", "parked"} => caching = {}
    /\ pc[t] = "returned" => t \notin caching \cup shared /\ excl # t

\* "return a structured DeltaFunnelError instead of PanicException when concurrent
\* Python code attempts unsupported Session catalog mutation": only reading calls that
\* meet a mutation panic, and a refused mutation registered nothing.
MutationNeverPanics ==
  \A t \in Threads : pc[t] = "returned" =>
    /\ result[t] = "panic" => kind[t] # "mutate"
    /\ result[t] \in {"panic", "concurrent_mutation"} => operation[t] = "none"

\* A profiled call runs its operation only inside of its own capture; it returns a
\* report only when operation and profile succeeded, a profile error says whether the
\* operation was completed, and an operation's error is never hidden by the profile's.
ProfiledResult ==
  \A t \in Threads : kind[t] = "profile" =>
    /\ pc[t] \in {"executing", "executed", "python", "yielded"} => phase[t] = "capturing" /\ holder = t
    /\ pc[t] = "returned" =>
         /\ result[t] = "ok" => operation[t] = "ok" /\ "html" \in outputs[t]
         /\ result[t] = "completed_profile_error" => operation[t] = "ok" /\ "html" \notin outputs[t]
         /\ result[t] = "profile_error" => operation[t] = "none"
         /\ operation[t] = "error" => result[t] \in {"error", "interrupted"}

\* Every call returns, or some thread is parked with the GIL that a runtime worker needs:
\* a mutation or a plan, whose block_on keeps the GIL, and never an operation, which py.detach
\* runs. Calls of other threads stand still with it, and nothing else stops one.
ThreadsReturn ==
  \A t \in Threads : pc[t] # "idle" ~>
    (pc[t] = "returned" \/ \E u \in Threads : pc[u] = "parked" /\ kind[u] \in {"mutate", "plan"})
=============================================================================
