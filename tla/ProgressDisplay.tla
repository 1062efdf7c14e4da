--------------------------- MODULE ProgressDisplay ---------------------------
(***************************************************************************)
(* The progress of one Python call: the events that an operation emits, in *)
(* the order of its source, the adapter that merges and throttles them and *)
(* the Rich display, whose calls may raise.  Models progress.rs of         *)
(* delta-funnel-python and the emitters of the core.  The callback is      *)
(* synchronous: the operation waits for it, in the steps between the calls *)
(* of Rich.  A counter that is absent is 0; rows stand for batches too.    *)
(***************************************************************************)
EXTENDS Naturals, FiniteSetsExt

CONSTANTS
  OutputCount,  \* outputs of write_all and its dry run
  MaxAliases,   \* cache aliases that write_all materializes
  MaxFiles, MaxRows

ASSUME ProgressAssumption == {OutputCount, MaxAliases, MaxFiles, MaxRows} \subseteq Nat \ {0}

VARIABLES
  op, phase, output,  \* the operation and the phase that it announced last
  aliases,            \* cache aliases that it has begun to materialize
  result,             \* running, failures while an output failed, at the end ok, failures or error
  job, sent, before,  \* the work at hand, its counters so far and those of the work before
  render, enabled, interruption, final, visible, waiting, recent,  \* ProgressState
  stage, event, previous,  \* the callback: its next call, its event and previous_visible
  rich, shown, raised,     \* the display, what it shows, interruptions raised by it
  delivered, status        \* the interruption that finish raised and its status

emitterVars == <<op, phase, output, aliases, result, job, sent, before>>
stateVars == <<render, enabled, interruption, final, visible, waiting, recent>>
callVars == <<stage, event, previous>>
richVars == <<rich, shown, raised>>
vars == <<emitterVars, stateVars, callVars, richVars, delivered, status>>

Operations == {"register", "preview", "write", "dryRun", "writeAll", "dryRunAll"}
Terminal == {"completed", "completedWithFailures", "failed"}

NoCounters == [handled |-> 0, total |-> 0, rows |-> 0]
NoEvent == [kind |-> "none", phase |-> "none", output |-> 0, job |-> 0, counters |-> NoCounters]
Nothing == [phase |-> "none", output |-> 0, job |-> 0, counters |-> NoCounters]
Blank == [kind |-> "none", view |-> Nothing]

Init ==
  /\ op = "none" /\ phase = "returned" /\ output = 0 /\ aliases = 0 /\ result = "ok"
  /\ job = 0 /\ sent = NoCounters /\ before = NoCounters
  /\ render = "done" /\ enabled = FALSE /\ interruption = 0 /\ final = "none"
  /\ visible = Nothing /\ waiting = FALSE /\ recent = FALSE
  /\ stage = "idle" /\ event = NoEvent /\ previous = Nothing
  /\ rich = "none" /\ shown = Blank /\ raised = 0
  /\ delivered = 0 /\ status = "completed"
-----------------------------------------------------------------------------
(* render_event up to the release of the mutex. *)

\* starts_new_unnamed_metric_scope
StartsNewUnnamedMetricScope(current, next) ==
  \/ next = "MaterializingCache"
  \/ current # next /\ ~(current = "CollectingPreview" /\ next = "FormattingPreview")

\* Only the output tells scopes apart.
OutputChanges(e) == e.phase # "none" /\ visible.output # e.output

ScopeChanges(e) ==
  /\ e.phase # "none"
  /\ \/ visible.output # e.output
     \/ /\ e.kind = "phaseChanged" /\ e.output = 0
        /\ StartsNewUnnamedMetricScope(visible.phase, e.phase)

\* incorporate_metrics
IncorporateMetrics(c, e) ==
  LET total == IF c.total = 0 THEN e.total ELSE c.total
  IN [handled |-> Max({c.handled, Min({e.handled, total})}),
      total |-> total,
      rows |-> Max({c.rows, e.rows})]

Cleared(e) == IF ScopeChanges(e) THEN NoCounters ELSE visible.counters

Incorporate(e) ==
  LET c == IncorporateMetrics(Cleared(e), e.counters)
  IN IF e.phase = "none" THEN [visible EXCEPT !.counters = c]
     ELSE [phase |-> e.phase, output |-> e.output, job |-> e.job, counters |-> c]

Waits(e) == waiting \/ Incorporate(e).counters # Cleared(e)

\* Terminal events are throttled as well.
RendersWhenDue(e) == e.kind \in {"started", "phaseChanged"} \/ (Waits(e) /\ ~recent)

\* should_render
Renders(e) == e.kind # "progress" \/ (Waits(e) /\ ~recent)

\* The flag is cleared before the interval is looked at.
NeverWaits(e) == FALSE

StillWaits(e) == Waits(e) /\ ~Renders(e)

\* The counters are dropped without a last look.
NoPreviousVisible(e) == FALSE

HasPreviousVisible(e) == ScopeChanges(e) /\ waiting

FinalEvent(e) == IF e.kind \in Terminal THEN e.kind ELSE final

\* An event is merged; it is over when it is throttled, else Rich is called.
Emit(e) ==
  /\ stage = "idle"
  /\ visible' = Incorporate(e)
  /\ waiting' = StillWaits(e)
  /\ recent' = (recent \/ (Waits(e) /\ Renders(e)))
  /\ IF Renders(e) \/ HasPreviousVisible(e)
     THEN /\ event' = e /\ final' = FinalEvent(e)
          /\ previous' = IF HasPreviousVisible(e) THEN visible ELSE Nothing
          /\ stage' = IF HasPreviousVisible(e) THEN "flush" ELSE "call"
     ELSE UNCHANGED <<callVars, final>>
  /\ UNCHANGED <<render, enabled, interruption, richVars, delivered, status>>
-----------------------------------------------------------------------------
(* The calls of Rich. *)

\* The last interruption is kept.
LastInterruption(saved, new) == new

\* python_value_or_save_interruption: the first one is kept.
SavedInterruption(saved, new) == IF saved = 0 THEN new ELSE saved

\* A call that raises an Exception or cannot attach, or raises a BaseException.
Raises ==
  \/ UNCHANGED <<interruption, raised>>
  \/ raised' = raised + 1 /\ interruption' = SavedInterruption(interruption, raised + 1)

UpdateRich(kind, view) ==
  /\ enabled' \in BOOLEAN
  /\ \/ enabled' /\ shown' = [kind |-> kind, view |-> view] /\ UNCHANGED <<interruption, raised>>
     \/ ~enabled' /\ Raises /\ UNCHANGED shown

\* flush_previous_metrics
Flush ==
  /\ stage = "flush" /\ stage' = "call" /\ previous' = Nothing
  /\ IF render = "active" /\ enabled THEN UpdateRich("progress", previous)
     ELSE UNCHANGED <<enabled, interruption, shown, raised>>
  /\ UNCHANGED <<emitterVars, render, final, visible, waiting, recent, event, rich, delivered, status>>

\* create_renderer and start_renderer: a display that is hidden, cannot be made or does
\* not start; in the last case it is kept for finish.
Create ==
  /\ stage = "call" /\ event.kind = "started" /\ render = "pending"
  /\ \/ /\ render' = "done" /\ Raises /\ UNCHANGED <<enabled, rich>>
     \/ /\ render' = "active" /\ rich' = "made"
        /\ \/ enabled' = TRUE /\ UNCHANGED <<interruption, raised>>
           \/ enabled' = FALSE /\ Raises
  /\ stage' = "idle" /\ event' = NoEvent
  /\ UNCHANGED <<emitterVars, final, visible, waiting, recent, previous, shown, delivered, status>>

Update ==
  /\ stage = "call" /\ event.kind # "started"
  /\ IF render = "active" /\ enabled THEN UpdateRich(event.kind, visible)
     ELSE UNCHANGED <<enabled, interruption, shown, raised>>
  /\ stage' = "idle" /\ event' = NoEvent
  /\ UNCHANGED <<emitterVars, render, final, visible, waiting, recent, previous, rich, delivered, status>>

\* METRIC_RENDER_INTERVAL has passed.
Pass ==
  /\ stage = "idle" /\ recent /\ recent' = FALSE
  /\ UNCHANGED <<emitterVars, render, enabled, interruption, final, visible, waiting, callVars,
                 richVars, delivered, status>>
-----------------------------------------------------------------------------
(* The operations: the phases that they announce, in order. *)

\* The phases of one output, in the sink.
OutputFollows ==
  {<<"SettingUpStream", "Connecting">>, <<"Connecting", "PreparingTarget">>,
   <<"PreparingTarget", "Writing">>, <<"PreparingTarget", "CleaningUp">>,
   <<"Writing", "Validating">>, <<"Writing", "CleaningUp">>,
   <<"Validating", "SwappingTarget">>, <<"Validating", "CleaningUp">>,
   <<"SwappingTarget", "CleaningUp">>}

OutputEnds == {"Writing", "Validating", "SwappingTarget"}
OutputFails == {"SettingUpStream", "Connecting", "PreparingTarget", "Writing", "Validating", "CleaningUp"}

RegisterFollows ==
  {<<"Started", "LoadingDeltaMetadata">>, <<"LoadingDeltaMetadata", "ValidatingDeltaProtocol">>,
   <<"ValidatingDeltaProtocol", "PreparingDeltaProvider">>,
   <<"PreparingDeltaProvider", "RegisteringDeltaSource">>}

PreviewFollows ==
  {<<"Started", "PreparingPreview">>, <<"PreparingPreview", "CollectingPreview">>,
   <<"CollectingPreview", "FormattingPreview">>}

Follows ==
  [register |-> RegisterFollows,
   preview |-> PreviewFollows,
   dryRun |-> {<<"Started", "PlanningOutput">>},
   write |-> {<<"Started", "PlanningOutput">>, <<"PlanningOutput", "SettingUpStream">>} \cup OutputFollows,
   dryRunAll |-> {},
   writeAll |-> OutputFollows]

\* The phases that begin other work than the one before them.
BeginsJob(p) ==
  \/ p \in {"LoadingDeltaMetadata", "PreparingPreview", "PlanningOutput", "MaterializingCache",
            "RestoringCache", "ReportingSources"}
  \/ p = "SettingUpStream" /\ op = "writeAll"

\* ProgressEvent::phase_changed
Announce(p, o) ==
  /\ phase' = p /\ output' = o
  /\ IF BeginsJob(p) THEN job' = job + 1 /\ sent' = NoCounters /\ before' = sent
     ELSE UNCHANGED <<job, sent, before>>
  /\ Emit([kind |-> "phaseChanged", phase |-> p, output |-> o, job |-> job', counters |-> NoCounters])

\* PythonProgress::new: every call has an adapter of its own.
Call(o) ==
  /\ phase = "returned" /\ phase' = "none" /\ op' = o /\ result' = "running"
  /\ output' = 0 /\ aliases' = 0 /\ job' = 0 /\ sent' = NoCounters /\ before' = NoCounters
  /\ render' = "pending" /\ UNCHANGED <<enabled, interruption, final, visible, waiting, recent, callVars>>
  /\ rich' = "none" /\ shown' = Blank /\ raised' = 0
  /\ delivered' = 0 /\ status' = "none"

\* A request that is refused, or has no outputs, emits nothing.
Silent ==
  /\ phase = "none" /\ phase' = "ended"
  /\ \/ op # "preview" /\ result' = "error"
     \/ op \in {"writeAll", "dryRunAll"} /\ result' = "ok"
  /\ UNCHANGED <<op, output, aliases, job, sent, before, stateVars, callVars, richVars, delivered, status>>

Start ==
  /\ phase = "none" /\ phase' = "Started"
  /\ Emit([NoEvent EXCEPT !.kind = "started"])
  /\ UNCHANGED <<op, output, aliases, result, job, sent, before>>

Advance ==
  /\ op \in Operations
  /\ \E p \in {f[2] : f \in {g \in Follows[op] : g[1] = phase}} :
       Announce(p, IF op \in {"register", "preview"} THEN 0 ELSE Max({1, output}))
  /\ UNCHANGED <<op, aliases, result>>

\* plan_write_outputs, plan_dry_run_outputs
PlanOutput ==
  /\ op \in {"writeAll", "dryRunAll"}
  /\ phase = "Started" \/ (phase = "PlanningOutput" /\ output < OutputCount)
  /\ Announce("PlanningOutput", output + 1)
  /\ UNCHANGED <<op, aliases, result>>

OutputsPlanned == op = "writeAll" /\ phase = "PlanningOutput" /\ output = OutputCount

MaterializeAlias ==
  /\ OutputsPlanned \/ phase = "MaterializingCache"
  /\ aliases < MaxAliases /\ aliases' = aliases + 1
  /\ Announce("MaterializingCache", 0)
  /\ UNCHANGED <<op, result>>

\* Outputs are written in order, until one fails.
StartOutput ==
  /\ op = "writeAll"
  /\ \/ (OutputsPlanned \/ phase = "MaterializingCache") /\ Announce("SettingUpStream", 1)
     \/ phase \in OutputEnds /\ output < OutputCount /\ Announce("SettingUpStream", output + 1)
  /\ UNCHANGED <<op, aliases, result>>

\* The outputs are over, or the aliases that were replaced are restored after a failure.
LeaveOutputs ==
  /\ op = "writeAll"
  /\ \/ phase \in OutputEnds /\ output = OutputCount /\ UNCHANGED result
     \/ phase \in OutputFails /\ result' = "failures"
     \/ phase = "MaterializingCache" /\ result' = "error"
  /\ Announce(IF aliases > 0 THEN "RestoringCache" ELSE "ReportingSources", 0)
  /\ UNCHANGED <<op, aliases>>

ReportSources ==
  /\ \/ phase = "RestoringCache" /\ result # "error"
     \/ op = "dryRunAll" /\ phase = "PlanningOutput" /\ output = OutputCount
  /\ Announce("ReportingSources", 0)
  /\ UNCHANGED <<op, aliases, result>>

\* DeltaFileProgress: files that were read or pruned, at most as many as were planned.
FileProgress(handled, total) == [handled |-> Min({handled, total}), total |-> total, rows |-> 0]

\* DeltaFileProgressSampler::emit_if_changed; an empty plan has no file progress.
SampleFiles ==
  /\ phase \in {"CollectingPreview", "MaterializingCache", "Writing"}
  /\ \E total \in IF sent.total = 0 THEN 0..MaxFiles ELSE {sent.total}, read \in sent.handled..MaxFiles :
       LET c == FileProgress(read, total)
       IN /\ total # 0 /\ <<c.handled, c.total>> # <<sent.handled, sent.total>>
          /\ sent' = [c EXCEPT !.rows = sent.rows]
          /\ Emit([kind |-> "progress", phase |-> phase, output |-> output, job |-> job, counters |-> c])
  /\ UNCHANGED <<op, phase, output, aliases, result, job, before>>

\* write_prepared_batches, after a batch
WriteBatch ==
  /\ phase = "Writing" /\ sent.rows < MaxRows
  /\ sent' = [sent EXCEPT !.rows = @ + 1]
  /\ Emit([kind |-> "progress", phase |-> phase, output |-> output, job |-> job,
           counters |-> [NoCounters EXCEPT !.rows = sent'.rows]])
  /\ UNCHANGED <<op, phase, output, aliases, result, job, before>>

Succeeds ==
  /\ result = "running"
  /\ \/ op = "register" /\ phase = "RegisteringDeltaSource"
     \/ op = "preview" /\ phase = "FormattingPreview"
     \/ op = "dryRun" /\ phase = "PlanningOutput"
     \/ op = "write" /\ phase \in OutputEnds
     \/ op \in {"writeAll", "dryRunAll"} /\ phase = "ReportingSources"

Fails ==
  \/ op \in {"register", "preview"} /\ phase \notin {"none", "Started", "ended", "returned"}
  \/ phase \in {"PlanningOutput", "RestoringCache", "ReportingSources"}
  \/ phase = "MaterializingCache" /\ aliases = 1
  \/ op = "write" /\ phase \in OutputFails

Outcome(r) ==
  CASE r = "ok" -> "completed" [] r = "failures" -> "completedWithFailures" [] OTHER -> "failed"

\* The terminal event.
End ==
  /\ \/ Succeeds /\ result' = "ok"
     \/ phase = "ReportingSources" /\ result = "failures" /\ result' = "failures"
     \/ Fails /\ result' = "error"
  /\ phase' = "ended"
  /\ Emit([NoEvent EXCEPT !.kind = Outcome(result')])
  /\ UNCHANGED <<op, output, aliases, job, sent, before>>

\* action_status
ActionStatus == IF final # "none" THEN final ELSE IF result = "error" THEN "failed" ELSE "completed"

\* PythonProgress::finish, after the operation has returned.
Finish ==
  /\ phase = "ended" /\ stage = "idle" /\ phase' = "returned"
  /\ \/ /\ render = "active" /\ rich' = "stopped"
        /\ \/ delivered' = interruption /\ UNCHANGED raised
           \/ raised' = raised + 1 /\ delivered' = SavedInterruption(interruption, raised + 1)
     \/ render # "active" /\ delivered' = interruption /\ UNCHANGED <<rich, raised>>
  /\ status' = ActionStatus
  /\ render' = "done" /\ enabled' = FALSE /\ interruption' = 0 /\ final' = "none"
  /\ visible' = Nothing /\ waiting' = FALSE /\ recent' = FALSE
  /\ UNCHANGED <<op, output, aliases, result, job, sent, before, callVars, shown>>

Operate ==
  \/ Silent \/ Start \/ Advance \/ PlanOutput \/ MaterializeAlias \/ StartOutput
  \/ LeaveOutputs \/ ReportSources \/ SampleFiles \/ WriteBatch \/ End

Render == Flush \/ Create \/ Update

Next == (\E o \in Operations : Call(o)) \/ Operate \/ Render \/ Pass \/ Finish

Spec == Init /\ [][Next]_vars
-----------------------------------------------------------------------------
Counters == [handled : 0..MaxFiles, total : 0..MaxFiles, rows : 0..MaxRows]

TypeOK ==
  /\ op \in Operations \cup {"none"} /\ output \in 0..OutputCount /\ aliases \in 0..MaxAliases
  /\ result \in {"running", "ok", "failures", "error"} /\ sent \in Counters /\ before \in Counters
  /\ render \in {"pending", "active", "done"} /\ enabled \in BOOLEAN /\ interruption \in 0..raised
  /\ final \in Terminal \cup {"none"} /\ visible.counters \in Counters
  /\ waiting \in BOOLEAN /\ recent \in BOOLEAN /\ stage \in {"idle", "flush", "call"}
  /\ rich \in {"none", "made", "stopped"} /\ raised \in 0..2
  /\ delivered \in 0..2 /\ status \in Terminal \cup {"none"}

\* Counters that the adapter has merged are those of the work at hand, none of them left
\* from other work and none lost: another cache alias with the same phase, another output,
\* the restoration and the source report begin with empty counters, and a write keeps its
\* counters from Writing to Validating (scope_changes, incorporate, clear_metrics).
CountersAreOwn == phase \notin {"none", "returned"} => visible.counters = sent

\* A display that can be updated is never behind by a phase or an output, and has the last
\* counters unless the throttle knows that newer ones wait (should_render returned false):
\* metrics_waiting_to_render is not lost when events of several kinds interleave.
ShownIsCurrent ==
  (stage = "idle" /\ render = "active" /\ enabled) =>
     /\ [shown.view EXCEPT !.counters = NoCounters] = [visible EXCEPT !.counters = NoCounters]
     /\ waiting \/ shown.view = visible

\* A display leaves the counters of some work only when it has shown the last of them:
\* counters that the throttle held back are flushed before they are cleared
\* (flush_previous_metrics).
LastCountersShown ==
  [][shown'.view.job \notin {0, shown.view.job} => shown.view.counters = before]_vars

\* At the end of the operation a display that can be updated shows its outcome with the
\* last counters that were sent, whatever the throttle did to them before.
OutcomeShown ==
  (phase = "ended" /\ stage = "idle" /\ render = "active" /\ enabled) =>
     /\ shown.kind = Outcome(result)
     /\ shown.view.counters = sent

\* finish raises the first interruption that Rich raised during the call, and nothing when
\* Rich raised none or only ordinary exceptions; its status is how the operation ended,
\* also when it was refused before it started.
InterruptionDelivered ==
  phase = "returned" =>
     /\ delivered = (IF raised = 0 THEN 0 ELSE 1)
     /\ status = Outcome(result)

\* A display that was made is stopped, by finish only, after the operation has returned,
\* also when it could not be started or updated; a request that is refused makes none.
DisplayStopped ==
  /\ phase = "returned" => rich # "made"
  /\ rich = "stopped" => phase = "returned"
  /\ rich # "none" => phase # "none" /\ (job = 0 => phase = "Started")
=============================================================================
