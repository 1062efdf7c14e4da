--------------------------- MODULE WriteAllCache ----------------------------
(***************************************************************************)
(* write_all calls on one session: each replaces its selected aliases by   *)
(* caches in the shared catalog, writes its outputs one after the other    *)
(* and restores the aliases.  Models execute_write_all_with_writer of      *)
(* write_all/request.rs, the cached route of write_all/workflow.rs, the    *)
(* alias replacements of write_all/cache_alias.rs and the output loop of   *)
(* sql_server/execution/workflow.rs.                                       *)
(*                                                                         *)
(* write_all takes &self, so calls may overlap; each access to the catalog *)
(* is one step.  The catalog is DataFusion's: register_table refuses a     *)
(* name that is taken, deregister_table of a missing name succeeds.        *)
(***************************************************************************)
EXTENDS Integers, Sequences

CONSTANTS
  Calls,      \* write_all calls
  Aliases,    \* registered derived aliases
  Requests,   \* Requests[c]: the aliases call c caches, in dependency order, and
              \* for each output the aliases its query reads from the catalog
  Overlap,    \* whether a call may start while another one runs
  MaxFaults,  \* bound on catalog operations that fail by themselves
  MayCancel   \* whether a caller may drop a call at an await

Original == "original"
NoProvider == "none"
NoAlias == "no alias"
Overlapped == [a \in {} |-> NoProvider]  \* no snapshot: calls overlap

\* The provider under an alias: the registered view, or the cache of a call.
Providers == {Original} \cup Calls

Cached(c) == Requests[c].aliases
Outputs(c) == Requests[c].outputs

ASSUME WriteAllAssumption ==
  /\ \A c \in Calls :
       /\ Requests[c] \in [aliases : Seq(Aliases), outputs : Seq(SUBSET Aliases)]
       /\ \A i, j \in DOMAIN Cached(c) : Cached(c)[i] = Cached(c)[j] => i = j
  /\ Original \notin Calls /\ NoProvider \notin Calls
  /\ NoAlias \notin Aliases
  /\ Overlap \in BOOLEAN /\ MayCancel \in BOOLEAN
  /\ MaxFaults \in Nat

VARIABLES
  catalog,   \* catalog[a]: the provider registered under alias a, or none
  faults,    \* catalog failures so far
  pc,        \* pc[c]: where call c is
  next,      \* next[c]: position in Cached(c) of the alias being replaced
  taken,     \* taken[c]: the provider deregistered by an installation under way
  replaced,  \* replaced[c]: active replacements, with the providers they own
  reports,   \* reports[c]: alias reports, in selection order
  outputs,   \* outputs[c]: status of each output, and the providers it read
  cause,     \* cause[c]: the primary error, or "none"
  broken,    \* broken[c]: the alias of the first restore error
  result,    \* result[c]: what the call returned
  events,    \* events[c]: progress events
  before     \* before[c]: the catalog when call c started, while it runs alone

vars == <<catalog, faults, pc, next, taken, replaced, reports, outputs, cause,
          broken, result, events, before>>

Pending == [status |-> "pending", source |-> "none", primary |-> NoAlias,
            workflow |-> FALSE]

Init ==
  /\ catalog = [a \in Aliases |-> Original]
  /\ faults = 0
  /\ pc = [c \in Calls |-> "idle"]
  /\ next = [c \in Calls |-> 1]
  /\ taken = [c \in Calls |-> NoProvider]
  /\ replaced = [c \in Calls |-> <<>>]
  /\ reports = [c \in Calls |-> <<>>]
  /\ outputs = [c \in Calls |-> <<>>]
  /\ cause = [c \in Calls |-> "none"]
  /\ broken = [c \in Calls |-> NoAlias]
  /\ result = [c \in Calls |-> Pending]
  /\ events = [c \in Calls |-> <<>>]
  /\ before = [c \in Calls |-> catalog]

Active(c) == pc[c] \notin {"idle", "done", "cancelled"}

\* The alias a call is replacing, or restoring: the last one replaced.
CurrentAlias(c) ==
  IF pc[c] \in {"restore", "restore_register"}
  THEN replaced[c][Len(replaced[c])].alias
  ELSE Cached(c)[next[c]]
-----------------------------------------------------------------------------
(* Progress and the result. *)

\* An empty request has no progress lifecycle.
Emit(c, event) ==
  events' = IF Outputs(c) = <<>> THEN events
            ELSE [events EXCEPT ![c] = Append(@, event)]

AllSucceeded(c) == \A k \in DOMAIN outputs[c] : outputs[c][k].status = "succeeded"

TerminalEvent(c, res) ==
  CASE res.status = "ok" /\ AllSucceeded(c) -> "completed"
    [] res.status = "ok" /\ ~AllSucceeded(c) -> "completed_with_failures"
    [] res.status # "ok" -> "failed"

Failure(source, primary, workflow) ==
  [status |-> "failed", source |-> source, primary |-> primary, workflow |-> workflow]

Conclude(c, res) ==
  /\ pc' = [pc EXCEPT ![c] = "done"]
  /\ result' = [result EXCEPT ![c] = res]
  /\ Emit(c, TerminalEvent(c, res))

Goto(c, label) == pc' = [pc EXCEPT ![c] = label]

AlwaysAnnounceRestore(c) ==
  /\ Goto(c, "restore")
  /\ Emit(c, "restoring_cache")

\* Entering the restoration; it is announced when there is something to restore.
BeginRestore(c) ==
  /\ Goto(c, "restore")
  /\ IF replaced[c] = <<>> THEN UNCHANGED events ELSE Emit(c, "restoring_cache")

Fail(c, source) == cause' = [cause EXCEPT ![c] = source]

Report(c, a, status, phase) ==
  reports' = [reports EXCEPT ![c] = <<[alias |-> a, status |-> status, phase |-> phase]>> \o @]

Fault == faults < MaxFaults /\ faults' = faults + 1
-----------------------------------------------------------------------------
(* Validation, planning and the route. *)

\* Options or output names are refused before the call is announced.
Reject(c) ==
  /\ pc[c] = "idle"
  /\ Goto(c, "done")
  /\ result' = [result EXCEPT ![c] = Failure("request", NoAlias, FALSE)]
  /\ UNCHANGED <<catalog, faults, next, taken, replaced, reports, outputs, cause,
                 broken, events, before>>

Start(c) ==
  /\ pc[c] = "idle"
  /\ Overlap \/ \A d \in Calls : ~Active(d)
  /\ Goto(c, "plan")
  /\ Emit(c, "started")
  /\ before' = [d \in Calls |->
       IF d # c /\ ~Active(d) THEN before[d]
       ELSE IF \E e \in Calls \ {c} : Active(e) THEN Overlapped ELSE catalog]
  /\ UNCHANGED <<catalog, faults, next, taken, replaced, reports, outputs, cause,
                 broken, result>>

\* A route that forgets the caches.
PlanUncached(c) ==
  /\ pc[c] = "plan"
  /\ Goto(c, "build")
  /\ UNCHANGED <<catalog, faults, next, taken, replaced, reports, outputs, cause,
                 broken, result, events, before>>

Plan(c) ==
  /\ pc[c] = "plan"
  /\ Goto(c, IF Cached(c) = <<>> THEN "build" ELSE "lookup")
  /\ UNCHANGED <<catalog, faults, next, taken, replaced, reports, outputs, cause,
                 broken, result, events, before>>

PlanFails(c) ==
  /\ pc[c] = "plan"
  /\ Conclude(c, Failure("plan", NoAlias, FALSE))
  /\ UNCHANGED <<catalog, faults, next, taken, replaced, reports, outputs, cause,
                 broken, before>>
-----------------------------------------------------------------------------
(* Replacing the aliases, one after the other. *)

\* The alias or its lineage is unknown, or a custom cache factory is set.
LookupFails(c) ==
  /\ pc[c] = "lookup"
  /\ Fail(c, "lookup")
  /\ BeginRestore(c)
  /\ UNCHANGED <<catalog, faults, next, taken, replaced, reports, outputs, broken,
                 result, before>>

Attempt(c) ==
  /\ pc[c] = "lookup"
  /\ Emit(c, "materializing_cache")
  /\ Goto(c, "materialize")
  /\ UNCHANGED <<catalog, faults, next, taken, replaced, reports, outputs, cause,
                 broken, result, before>>

\* The alias stays registered while its cache is built.
Materialize(c) ==
  /\ pc[c] = "materialize" /\ catalog[CurrentAlias(c)] # NoProvider
  /\ Goto(c, "deregister")
  /\ UNCHANGED <<catalog, faults, next, taken, replaced, reports, outputs, cause,
                 broken, result, events, before>>

MaterializeFails(c) ==
  /\ pc[c] = "materialize"
  /\ Fail(c, "materialize")
  /\ Report(c, CurrentAlias(c), "failed", "materialize")
  /\ BeginRestore(c)
  /\ UNCHANGED <<catalog, faults, next, taken, replaced, outputs, broken, result,
                 before>>

Deregister(c) ==
  /\ pc[c] = "deregister" /\ catalog[CurrentAlias(c)] # NoProvider
  /\ taken' = [taken EXCEPT ![c] = catalog[CurrentAlias(c)]]
  /\ catalog' = [catalog EXCEPT ![CurrentAlias(c)] = NoProvider]
  /\ Goto(c, "register")
  /\ UNCHANGED <<faults, next, replaced, reports, outputs, cause, broken, result,
                 events, before>>

\* The alias is missing, or the catalog fails.
DeregisterFails(c) ==
  /\ pc[c] = "deregister"
  /\ \/ catalog[CurrentAlias(c)] = NoProvider /\ UNCHANGED faults
     \/ Fault
  /\ Fail(c, "install")
  /\ Report(c, CurrentAlias(c), "failed", "install")
  /\ BeginRestore(c)
  /\ UNCHANGED <<catalog, next, taken, replaced, outputs, broken, result, before>>

Register(c) ==
  /\ pc[c] = "register" /\ catalog[CurrentAlias(c)] = NoProvider
  /\ catalog' = [catalog EXCEPT ![CurrentAlias(c)] = c]
  /\ replaced' = [replaced EXCEPT ![c] =
       Append(@, [alias |-> CurrentAlias(c), original |-> taken[c]])]
  /\ next' = [next EXCEPT ![c] = @ + 1]
  /\ Goto(c, IF next[c] = Len(Cached(c)) THEN "build" ELSE "lookup")
  /\ UNCHANGED <<faults, taken, reports, outputs, cause, broken, result, events, before>>

RegisterFails(c) ==
  /\ pc[c] = "register"
  /\ \/ catalog[CurrentAlias(c)] # NoProvider /\ UNCHANGED faults
     \/ Fault
  /\ Goto(c, "reinstate")
  /\ UNCHANGED <<catalog, next, taken, replaced, reports, outputs, cause, broken,
                 result, events, before>>

\* A retry until the name is free.
ReinstateWaits(c) ==
  /\ pc[c] = "reinstate"
  /\ catalog[CurrentAlias(c)] = NoProvider
  /\ catalog' = [catalog EXCEPT ![CurrentAlias(c)] = taken[c]]
  /\ Fail(c, "install")
  /\ Report(c, CurrentAlias(c), "failed", "install")
  /\ BeginRestore(c)
  /\ UNCHANGED <<faults, next, taken, replaced, outputs, broken, result, before>>

\* The original is put back, if the name is still free; the error stays the same.
Reinstate(c) ==
  /\ pc[c] = "reinstate"
  /\ \/ /\ catalog[CurrentAlias(c)] = NoProvider /\ UNCHANGED faults
        /\ catalog' = [catalog EXCEPT ![CurrentAlias(c)] = taken[c]]
     \/ catalog[CurrentAlias(c)] # NoProvider /\ UNCHANGED <<catalog, faults>>
     \/ Fault /\ UNCHANGED catalog
  /\ Fail(c, "install")
  /\ Report(c, CurrentAlias(c), "failed", "install")
  /\ BeginRestore(c)
  /\ UNCHANGED <<next, taken, replaced, outputs, broken, result, before>>
-----------------------------------------------------------------------------
(* Building the jobs and writing the outputs. *)

BuildJobs(c) ==
  /\ pc[c] = "build"
  /\ Goto(c, "write")
  /\ UNCHANGED <<catalog, faults, next, taken, replaced, reports, outputs, cause,
                 broken, result, events, before>>

\* A job cannot be built, or the workflow refuses its options before any output.
WorkflowFails(c) ==
  /\ \/ pc[c] = "build"
     \/ pc[c] = "write" /\ outputs[c] = <<>>
  /\ Fail(c, "workflow")
  /\ BeginRestore(c)
  /\ UNCHANGED <<catalog, faults, next, taken, replaced, reports, outputs, broken,
                 result, before>>

MoreOutputs(c) == pc[c] = "write" /\ Len(outputs[c]) < Len(Outputs(c))

SomeFailed(c) == \E k \in DOMAIN outputs[c] : outputs[c][k].status = "failed"

\* The query of the output resolves its aliases in the catalog, then it is written.
WriteOutput(c) ==
  /\ MoreOutputs(c) /\ ~SomeFailed(c)
  /\ LET reads == Outputs(c)[Len(outputs[c]) + 1]
     IN  \E status \in {"succeeded", "failed"} :
           /\ status = "succeeded" => \A a \in reads : catalog[a] # NoProvider
           /\ outputs' = [outputs EXCEPT ![c] = Append(@,
                [status |-> status, read |-> [a \in reads |-> catalog[a]]])]
  /\ Emit(c, "output")
  /\ UNCHANGED <<catalog, faults, pc, next, taken, replaced, reports, cause, broken,
                 result, before>>

SkipOutput(c) ==
  /\ MoreOutputs(c) /\ SomeFailed(c)
  /\ outputs' = [outputs EXCEPT ![c] = Append(@, [status |-> "skipped", read |-> <<>>])]
  /\ UNCHANGED <<catalog, faults, pc, next, taken, replaced, reports, cause, broken,
                 result, events, before>>

EndOutputs(c) ==
  /\ pc[c] = "write" /\ Len(outputs[c]) = Len(Outputs(c))
  /\ BeginRestore(c)
  /\ UNCHANGED <<catalog, faults, next, taken, replaced, reports, outputs, cause,
                 broken, result, before>>
-----------------------------------------------------------------------------
(* Restoring the aliases in reverse order, past any error. *)

MoreToRestore(c) == pc[c] = "restore" /\ replaced[c] # <<>>

SwallowRestoreError(c, status) ==
  /\ Report(c, CurrentAlias(c), status, "restore")
  /\ replaced' = [replaced EXCEPT ![c] = SubSeq(@, 1, Len(@) - 1)]
  /\ Goto(c, "restore")
  /\ UNCHANGED broken

\* The replacement is consumed; the first error is the one that is kept.
Restored(c, status) ==
  /\ Report(c, CurrentAlias(c), status, "restore")
  /\ replaced' = [replaced EXCEPT ![c] = SubSeq(@, 1, Len(@) - 1)]
  /\ broken' = IF status = "failed" /\ broken[c] = NoAlias
               THEN [broken EXCEPT ![c] = CurrentAlias(c)] ELSE broken
  /\ Goto(c, "restore")

\* Whatever is registered under the alias is taken out, even nothing.
RestoreDeregister(c) ==
  /\ MoreToRestore(c)
  /\ catalog' = [catalog EXCEPT ![CurrentAlias(c)] = NoProvider]
  /\ Goto(c, "restore_register")
  /\ UNCHANGED <<faults, next, taken, replaced, reports, outputs, cause, broken,
                 result, events, before>>

RestoreDeregisterFails(c) ==
  /\ MoreToRestore(c) /\ Fault
  /\ Restored(c, "failed")
  /\ UNCHANGED <<catalog, next, taken, outputs, cause, result, events, before>>

\* The cache is taken out and nothing put back.
RestoreForgets(c) ==
  /\ pc[c] = "restore_register"
  /\ Restored(c, "restored")
  /\ UNCHANGED <<catalog, faults, next, taken, outputs, cause, result, events, before>>

\* The cache is registered again in place of the original provider.
RestoreCached(c) ==
  /\ pc[c] = "restore_register" /\ catalog[CurrentAlias(c)] = NoProvider
  /\ catalog' = [catalog EXCEPT ![CurrentAlias(c)] = c]
  /\ Restored(c, "restored")
  /\ UNCHANGED <<faults, next, taken, outputs, cause, result, events, before>>

RestoreRegister(c) ==
  /\ pc[c] = "restore_register" /\ catalog[CurrentAlias(c)] = NoProvider
  /\ catalog' = [catalog EXCEPT ![CurrentAlias(c)] =
                   replaced[c][Len(replaced[c])].original]
  /\ Restored(c, "restored")
  /\ UNCHANGED <<faults, next, taken, outputs, cause, result, events, before>>

RestoreRegisterFails(c) ==
  /\ pc[c] = "restore_register"
  /\ \/ catalog[CurrentAlias(c)] # NoProvider /\ UNCHANGED faults
     \/ Fault
  /\ Restored(c, "failed")
  /\ UNCHANGED <<catalog, next, taken, outputs, cause, result, events, before>>

\* The alias whose replacement failed, if that is the primary error.
FailedAlias(c) ==
  IF cause[c] \in {"materialize", "install"} THEN Cached(c)[next[c]] ELSE NoAlias

\* The outputs ran, and all aliases are back.
EndRestore(c) ==
  /\ pc[c] = "restore" /\ replaced[c] = <<>>
  /\ cause[c] = "none" /\ broken[c] = NoAlias
  /\ Goto(c, "sources")
  /\ Emit(c, "reporting_sources")
  /\ UNCHANGED <<catalog, faults, next, taken, replaced, reports, outputs, cause,
                 broken, result, before>>

EndRestoreLosesWorkflow(c) ==
  /\ pc[c] = "restore" /\ replaced[c] = <<>>
  /\ \/ /\ cause[c] # "none"
        /\ Conclude(c, Failure(cause[c], FailedAlias(c), FALSE))
     \/ /\ cause[c] = "none" /\ broken[c] # NoAlias
        /\ Conclude(c, Failure("restore", broken[c], FALSE))
  /\ UNCHANGED <<catalog, faults, next, taken, replaced, reports, outputs, cause,
                 broken, before>>

\* The primary error wins; a restore error after the outputs carries their report.
EndRestoreFailed(c) ==
  /\ pc[c] = "restore" /\ replaced[c] = <<>>
  /\ \/ /\ cause[c] # "none"
        /\ Conclude(c, Failure(cause[c], FailedAlias(c), FALSE))
     \/ /\ cause[c] = "none" /\ broken[c] # NoAlias
        /\ Conclude(c, Failure("restore", broken[c], TRUE))
  /\ UNCHANGED <<catalog, faults, next, taken, replaced, reports, outputs, cause,
                 broken, before>>

ReportSources(c) ==
  /\ pc[c] = "sources"
  /\ \/ Conclude(c, [Pending EXCEPT !.status = "ok", !.workflow = TRUE])
     \/ Conclude(c, Failure("sources", NoAlias, FALSE))
  /\ UNCHANGED <<catalog, faults, next, taken, replaced, reports, outputs, cause,
                 broken, before>>

\* The future is dropped at an await; dropping a replacement restores nothing.
Cancel(c) ==
  /\ MayCancel /\ pc[c] \in {"materialize", "write"}
  /\ Goto(c, "cancelled")
  /\ UNCHANGED <<catalog, faults, next, taken, replaced, reports, outputs, cause,
                 broken, result, events, before>>
-----------------------------------------------------------------------------
Step(c) ==
  \/ Start(c) \/ Plan(c) \/ PlanFails(c)
  \/ LookupFails(c) \/ Attempt(c) \/ Materialize(c) \/ MaterializeFails(c)
  \/ Deregister(c) \/ DeregisterFails(c) \/ Register(c) \/ RegisterFails(c)
  \/ Reinstate(c)
  \/ BuildJobs(c) \/ WorkflowFails(c) \/ WriteOutput(c) \/ SkipOutput(c) \/ EndOutputs(c)
  \/ RestoreDeregister(c) \/ RestoreDeregisterFails(c)
  \/ RestoreRegister(c) \/ RestoreRegisterFails(c)
  \/ EndRestore(c) \/ EndRestoreFailed(c) \/ ReportSources(c)

Next == \E c \in Calls : Step(c) \/ Reject(c) \/ Cancel(c)

Spec == Init /\ [][Next]_vars

\* The runtime keeps polling a call that can go on.
FairSpec == Spec /\ \A c \in Calls : WF_vars(Step(c))
-----------------------------------------------------------------------------
Labels == {"idle", "plan", "lookup", "materialize", "deregister", "register",
           "reinstate", "build", "write", "restore", "restore_register", "sources",
           "done", "cancelled"}

TypeOK ==
  /\ catalog \in [Aliases -> Providers \cup {NoProvider}]
  /\ faults \in 0 .. MaxFaults
  /\ pc \in [Calls -> Labels]
  /\ next \in [Calls -> Nat]
  /\ taken \in [Calls -> Providers \cup {NoProvider}]
  /\ replaced \in [Calls -> Seq([alias : Aliases, original : Providers])]
  /\ broken \in [Calls -> Aliases \cup {NoAlias}]

\* Between the calls an alias is never missing: only a call between its deregister
\* and its register leaves a hole, whatever other calls do to the same alias
\* meanwhile, unless the catalog itself failed.
AliasPresent ==
  faults = 0 =>
    \A a \in Aliases : catalog[a] = NoProvider =>
      \E c \in Calls : /\ pc[c] \in {"register", "reinstate", "restore_register"}
                       /\ CurrentAlias(c) = a

\* No other call ran while call c did, up to now.
Alone(c) == before[c] # Overlapped

AliasesOf(c) == {Cached(c)[i] : i \in DOMAIN Cached(c)}

ReportOf(c, a) == {reports[c][i] : i \in {j \in DOMAIN reports[c] : reports[c][j].alias = a}}

\* "Restores the original provider": when a call that ran alone returns, every
\* alias is what it was before, except one with a failed report after a catalog
\* failure; an error in one restoration does not keep the others from being done.
RestoredOnReturn ==
  [][\A c \in Calls :
       (Active(c) /\ pc'[c] = "done" /\ Alone(c)) =>
         \A a \in Aliases :
           catalog'[a] = before[c][a] \/ \E r \in ReportOf(c, a) : r.status = "failed"]_vars

\* An alias left in another state is visible: the call returns an error that names
\* an alias, and the reports are those of the attempted aliases, once each, in
\* selection order; a call that returns ok has restored every selected alias.
FailureVisible ==
  \A c \in Calls : pc[c] = "done" =>
    /\ \A i \in DOMAIN reports[c] : reports[c][i].alias = Cached(c)[i]
    /\ \A i \in DOMAIN reports[c] : reports[c][i].status = "failed" =>
         /\ result[c].status = "failed"
         /\ result[c].primary = NoAlias => cause[c] \in {"lookup", "workflow"}
    /\ result[c].status = "ok" =>
         /\ Len(reports[c]) = Len(Cached(c))
         /\ \A i \in DOMAIN reports[c] : reports[c][i].status = "restored"

\* Outputs that were written are not lost: once an output was attempted the call
\* returns the report of all its outputs, also when a restoration fails, unless
\* the source reports cannot be made.
OutcomesReturned ==
  \A c \in Calls : (pc[c] = "done" /\ outputs[c] # <<>>) =>
    /\ Len(outputs[c]) = Len(Outputs(c))
    /\ result[c].workflow \/ result[c].source = "sources"

\* An output that reads a selected alias reads the cache of its own call, if no
\* other call ran meanwhile.
CacheUsed ==
  \A c \in Calls : Alone(c) => \A k \in DOMAIN outputs[c] :
    \A a \in DOMAIN outputs[c][k].read \cap AliasesOf(c) : outputs[c][k].read[a] = c

Terminals == {"completed", "completed_with_failures", "failed"}

\* One lifecycle per call: "started" first, one terminal event, which is the last
\* and agrees with the result; the restoration is announced once, if anything was
\* replaced, and after the last output.
ProgressLifecycle ==
  \A c \in Calls : LET log == events[c] IN
    /\ \A i \in DOMAIN log : log[i] = "started" <=> i = 1
    /\ \A i \in DOMAIN log : log[i] \in Terminals => i = Len(log) /\ pc[c] = "done"
    /\ (pc[c] = "done" /\ log # <<>>) =>
         /\ log[Len(log)] \in Terminals
         /\ log[Len(log)] = "failed" <=> result[c].status = "failed"
         /\ log[Len(log)] = "completed" => \A k \in DOMAIN outputs[c] :
                                             outputs[c][k].status = "succeeded"
         /\ LET announced == {i \in DOMAIN log : log[i] = "restoring_cache"} IN
            IF \E i \in DOMAIN reports[c] : reports[c][i].phase = "restore"
            THEN \E i \in DOMAIN log : announced = {i} ELSE announced = {}
    /\ \A i, j \in DOMAIN log : log[i] = "restoring_cache" /\ log[j] = "output" => j < i

\* materialized_and_restored means that the original provider is registered again.
RestoredMeansOriginal ==
  (faults = 0 /\ \A c \in Calls : ~Active(c)) =>
    \A c \in Calls : \A i \in DOMAIN reports[c] :
      reports[c][i].status = "restored" => catalog[reports[c][i].alias] = Original

\* A call that started returns, unless its caller drops it: there is no lock on the
\* catalog to wait for.
CallsReturn == \A c \in Calls : pc[c] = "plan" ~> pc[c] \in {"done", "cancelled"}
=============================================================================
