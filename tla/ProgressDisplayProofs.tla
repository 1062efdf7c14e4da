------------------------ MODULE ProgressDisplayProofs ------------------------
(***************************************************************************)
(* Proofs for any number of outputs, aliases, files and rows: the counters *)
(* of the adapter are those of the work at hand; the display is never      *)
(* behind by more than counters that wait, shows the last counters of some *)
(* work before it leaves them and the outcome at the end; it is stopped    *)
(* once, and the first interruption is raised with the true outcome.       *)
(***************************************************************************)
EXTENDS ProgressDisplay, TLAPS

\* Most steps need no arithmetic; a step that does names the SMT solver.
USE ZenonT(60)

Idle == {"none", "Started", "ended", "returned"}

\* Announced before anything is counted.
Uncounted ==
  {"LoadingDeltaMetadata", "ValidatingDeltaProtocol", "PreparingDeltaProvider", "RegisteringDeltaSource",
   "PreparingPreview", "PlanningOutput", "SettingUpStream", "Connecting", "PreparingTarget",
   "RestoringCache", "ReportingSources"}
Counted ==
  {"CollectingPreview", "FormattingPreview", "MaterializingCache", "Writing", "Validating",
   "SwappingTarget", "CleaningUp"}
Work == Uncounted \cup Counted

\* The phases of an output and the phases without one.
Named ==
  {"PlanningOutput", "SettingUpStream", "Connecting", "PreparingTarget", "Writing", "Validating",
   "SwappingTarget", "CleaningUp"}

\* The first interruption is kept, and the final event is the outcome.
DeliveryInv ==
  /\ raised \in Nat
  /\ phase # "returned" => interruption = IF raised = 0 THEN 0 ELSE 1
  /\ phase = "returned" => interruption = 0
  /\ phase # "ended" => final = "none"
  /\ phase = "ended" => \/ final = Outcome(result)
                        \/ final = "none" /\ result \in {"ok", "error"}
  /\ InterruptionDelivered

\* A display exists while the adapter is active, from the start of the operation on.
DisplayInv ==
  /\ job \in Nat
  /\ phase \in Idle \cup Work
  /\ stage \in {"idle", "flush", "call"}
  /\ phase \in {"none", "returned"} => stage = "idle"
  /\ stage # "idle" /\ event.kind = "started" => phase = "Started"
  /\ rich \in {"none", "made", "stopped"}
  /\ rich = "made" <=> render = "active"
  /\ rich = "stopped" => phase = "returned"
  /\ phase = "none" => render = "pending" /\ job = 0
  /\ phase = "returned" => render = "done"
  /\ job = 0 => phase \in Idle /\ (phase \in {"ended", "returned"} => rich = "none")

Naturally == [handled : Nat, total : Nat, rows : Nat]

Views == [phase : Work \cup {"none"}, output : Nat, job : Nat, counters : Naturally]

\* What the adapter shows is the announced phase and the counters of its work.
OwnInv ==
  /\ output \in Nat
  /\ sent \in Naturally /\ sent.handled <= sent.total
  /\ visible \in Views
  /\ phase \in {"none", "Started"} => output = 0 /\ visible = Nothing /\ sent = NoCounters
  /\ phase = "returned" => visible = Nothing
  /\ phase # "returned" => visible.counters = sent
  /\ phase \in Work => visible.phase = phase /\ visible.output = output
  /\ phase \in Uncounted => sent = NoCounters
  /\ phase \in Named => output >= 1
  /\ phase \in Work \ Named => output = 0

\* Rich is called for an event.
Updatable == render = "active" /\ enabled

\* What the display shows and what the callback is about to show: counters of the work
\* before are on the display, or on their way to it, when other work begins.
ShownInv ==
  /\ shown.view \in Views /\ waiting \in BOOLEAN
  /\ phase \in Work => visible.job = job
  /\ waiting => phase \in Counted
  /\ render = "pending" => shown = Blank
  /\ ShownIsCurrent
  /\ stage = "flush" /\ Updatable =>
       previous \in Views /\ previous.job = shown.view.job /\ previous.counters = before
  /\ stage = "call" /\ Updatable => visible.job = shown.view.job \/ shown.view.counters = before
  /\ phase = "ended" /\ stage # "idle" => event.kind = Outcome(result)
  /\ phase = "ended" /\ stage = "idle" /\ Updatable => shown.kind = Outcome(result)

Inv == DeliveryInv /\ DisplayInv /\ OwnInv /\ ShownInv
-----------------------------------------------------------------------------
LEMMA MaxOfTwo == ASSUME NEW a \in Nat, NEW b \in Nat, a <= b PROVE Max({a, b}) = b /\ Max({b, a}) = b
<1>1. \A y \in {a, b} : b >= y
  BY SMTT(30)
<1>2. \A x \in {a, b} : (\A y \in {a, b} : x >= y) => x = b
  BY SMTT(30)
<1>3. Max({a, b}) = b
  BY <1>1, <1>2 DEF Max
<1>4. {b, a} = {a, b}
  OBVIOUS
<1> QED
  BY <1>3, <1>4

LEMMA MinOfTwo == ASSUME NEW a \in Nat, NEW b \in Nat, a <= b PROVE Min({a, b}) = a /\ Min({b, a}) = a
<1>1. \A y \in {a, b} : a =< y
  BY SMTT(30)
<1>2. \A x \in {a, b} : (\A y \in {a, b} : x =< y) => x = a
  BY SMTT(30)
<1>3. Min({a, b}) = a
  BY <1>1, <1>2 DEF Min
<1>4. {b, a} = {a, b}
  OBVIOUS
<1> QED
  BY <1>3, <1>4

\* An event without counters changes none.
LEMMA IncorporateNothing == ASSUME NEW c \in Naturally PROVE IncorporateMetrics(c, NoCounters) = c
<1>1. Min({0, c.total}) = 0
  BY SMTT(30), MinOfTwo DEF Naturally
<1>2. Max({c.handled, 0}) = c.handled /\ Max({c.rows, 0}) = c.rows
  BY SMTT(30), MaxOfTwo DEF Naturally
<1>3. c = [handled |-> c.handled, total |-> c.total, rows |-> c.rows]
  BY DEF Naturally
<1> QED
  BY <1>1, <1>2, <1>3 DEF IncorporateMetrics, NoCounters, Naturally

\* What Emit does to the state besides the counters.
LEMMA EmitStep ==
  ASSUME NEW e, Emit(e)
  PROVE /\ stage = "idle" /\ stage' \in {"idle", "flush", "call"}
        /\ stage' # "idle" => event' = e
        /\ e.kind \notin Terminal => final' = final
        /\ e.kind # "progress" => final' = FinalEvent(e)
        /\ visible' = Incorporate(e)
        /\ UNCHANGED <<render, interruption, rich, raised, delivered, status>>
BY DEF Emit, FinalEvent, Renders, callVars, richVars

\* What Announce does to the state besides the counters.
LEMMA AnnounceStep ==
  ASSUME NEW p, NEW o, Announce(p, o), job \in Nat
  PROVE /\ phase' = p /\ output' = o
        /\ stage = "idle" /\ stage' \in {"idle", "flush", "call"}
        /\ stage' # "idle" => event'.kind = "phaseChanged"
        /\ final' = final
        /\ job' \in Nat /\ (BeginsJob(p) => job' # 0) /\ (job # 0 => job' # 0)
        /\ UNCHANGED <<render, interruption, rich, raised, delivered, status>>
<1> DEFINE e == [kind |-> "phaseChanged", phase |-> p, output |-> o, job |-> job', counters |-> NoCounters]
<1>1. Emit(e)
  BY DEF Announce
<1>2. e.kind = "phaseChanged" /\ e.kind \notin Terminal
  BY DEF Terminal
<1> HIDE DEF e
<1>3. /\ stage = "idle" /\ stage' \in {"idle", "flush", "call"}
      /\ stage' # "idle" => event'.kind = "phaseChanged"
      /\ final' = final
      /\ UNCHANGED <<render, interruption, rich, raised, delivered, status>>
  BY <1>1, <1>2, EmitStep
<1>4. job' \in Nat /\ (BeginsJob(p) => job' # 0) /\ (job # 0 => job' # 0)
  BY SMTT(30) DEF Announce
<1> QED
  BY <1>3, <1>4 DEF Announce

\* The phases that Advance can announce.
LEMMA AdvancePhases ==
  ASSUME op \in Operations, NEW p \in {f[2] : f \in {g \in Follows[op] : g[1] = phase}}
  PROVE /\ p \in Work /\ phase \in Work \cup {"Started"}
        /\ phase = "Started" => BeginsJob(p)
<1>1. PICK g \in Follows[op] : g[1] = phase /\ g[2] = p
  OBVIOUS
<1>2. g \in RegisterFollows \cup PreviewFollows \cup OutputFollows
           \cup {<<"Started", "PlanningOutput">>, <<"PlanningOutput", "SettingUpStream">>}
  BY SMTT(30), <1>1 DEF Follows, Operations
<1>3. CASE g \in RegisterFollows
  BY SMTT(30), <1>1, <1>3 DEF RegisterFollows, BeginsJob, Work, Uncounted, Counted
<1>4. CASE g \in PreviewFollows
  BY SMTT(30), <1>1, <1>4 DEF PreviewFollows, BeginsJob, Work, Uncounted, Counted
<1>5. CASE g \in OutputFollows
  BY SMTT(30), <1>1, <1>5 DEF OutputFollows, BeginsJob, Work, Uncounted, Counted
<1>6. CASE g \in {<<"Started", "PlanningOutput">>, <<"PlanningOutput", "SettingUpStream">>}
  BY SMTT(30), <1>1, <1>6 DEF BeginsJob, Work, Uncounted, Counted
<1> QED
  BY <1>2, <1>3, <1>4, <1>5, <1>6
-----------------------------------------------------------------------------
\* Announcing a phase disturbs neither the display nor a saved interruption.
LEMMA AnnounceKeeps ==
  ASSUME DeliveryInv, DisplayInv, NEW p \in Work, NEW o, Announce(p, o),
         phase \in Work \cup {"Started"}, phase = "Started" => BeginsJob(p)
  PROVE DeliveryInv' /\ DisplayInv'
<1>1. p \notin Idle
  BY DEF Idle, Work, Uncounted, Counted
<1>2. job \in Nat
  BY DEF DisplayInv
<1>3. /\ phase' = p
      /\ stage = "idle" /\ stage' \in {"idle", "flush", "call"}
      /\ stage' # "idle" => event'.kind = "phaseChanged"
      /\ final' = final
      /\ job' \in Nat /\ (BeginsJob(p) => job' # 0) /\ (job # 0 => job' # 0)
      /\ UNCHANGED <<render, interruption, rich, raised, delivered, status>>
  BY <1>2, AnnounceStep
<1>4. phase \notin {"none", "ended", "returned"}
  BY DEF Work, Uncounted, Counted
<1>5. DeliveryInv'
  BY <1>1, <1>3, <1>4 DEF DeliveryInv, InterruptionDelivered, Idle
<1>6. job' # 0
  BY <1>3, <1>4 DEF DisplayInv, Idle
<1>7. DisplayInv'
  BY <1>1, <1>3, <1>4, <1>6 DEF DisplayInv, Idle
<1> QED
  BY <1>5, <1>7

\* Counters are kept when the work goes on and cleared when other work begins.
Continues(p, o) ==
  \/ phase \in Uncounted \cup {"Started"}
  \/ BeginsJob(p) /\ o # output
  \/ BeginsJob(p) /\ o = 0 /\ (p = "MaterializingCache" \/ (phase # p /\ p # "FormattingPreview"))
  \/ ~BeginsJob(p) /\ o = output /\ o # 0
  \/ ~BeginsJob(p) /\ o = output /\ phase = "CollectingPreview" /\ p = "FormattingPreview"

LEMMA AnnounceOwn ==
  ASSUME OwnInv, job \in Nat, NEW p \in Work, NEW o \in Nat, Announce(p, o),
         phase \in Work \cup {"Started"}, Continues(p, o),
         p \in Named => o >= 1, p \notin Named => o = 0,
         p \in Uncounted => BeginsJob(p) \/ phase \in Uncounted \cup {"Started"}
  PROVE OwnInv'
<1> DEFINE e == [kind |-> "phaseChanged", phase |-> p, output |-> o, job |-> job', counters |-> NoCounters]
<1>1. p \notin Idle /\ p # "none" /\ phase \notin {"none", "ended", "returned"}
  BY DEF Idle, Work, Uncounted, Counted
<1>2. visible' = Incorporate(e) /\ phase' = p /\ output' = o /\ job' \in Nat
  BY AnnounceStep, EmitStep DEF Announce
<1>3. sent' = IF BeginsJob(p) THEN NoCounters ELSE sent
  BY DEF Announce
<1>4. NoCounters \in Naturally /\ NoCounters.handled <= NoCounters.total
  BY SMTT(30) DEF NoCounters, Naturally
<1>5. visible.counters = sent /\ sent \in Naturally
  BY <1>1 DEF OwnInv
<1>6. Cleared(e) = sent'
  <2>1. CASE phase \in Uncounted \cup {"Started"}
    <3>1. sent = NoCounters
      BY <2>1 DEF OwnInv
    <3> QED
      BY <3>1, <1>3, <1>5 DEF Cleared
  <2>2. CASE phase \notin Uncounted \cup {"Started"}
    <3>1. visible.phase = phase /\ visible.output = output
      BY <2>2 DEF OwnInv
    <3>2. CASE BeginsJob(p)
      <4>1. o # output \/ (o = 0 /\ (p = "MaterializingCache" \/ (phase # p /\ p # "FormattingPreview")))
        BY <2>2, <3>2 DEF Continues
      <4>2. ScopeChanges(e)
        BY <1>1, <3>1, <4>1 DEF ScopeChanges, StartsNewUnnamedMetricScope
      <4> QED
        BY <1>3, <3>2, <4>2 DEF Cleared
    <3>3. CASE ~BeginsJob(p)
      <4>1. o = output /\ (o # 0 \/ (phase = "CollectingPreview" /\ p = "FormattingPreview"))
        BY <2>2, <3>3 DEF Continues
      <4>2. ~ScopeChanges(e)
        BY <3>1, <4>1 DEF ScopeChanges, StartsNewUnnamedMetricScope
      <4> QED
        BY <1>3, <1>5, <3>3, <4>2 DEF Cleared
    <3> QED
      BY <3>2, <3>3
  <2> QED
    BY <2>1, <2>2
<1>7. sent' \in Naturally /\ sent'.handled <= sent'.total
  BY <1>3, <1>4 DEF OwnInv
<1>8. IncorporateMetrics(Cleared(e), e.counters) = sent'
  BY <1>6, <1>7, IncorporateNothing
<1>9. visible' = [phase |-> p, output |-> o, job |-> job', counters |-> sent']
  BY <1>1, <1>2, <1>8 DEF Incorporate
<1>10. p \in Uncounted => sent' = NoCounters
  BY <1>3 DEF OwnInv
<1> HIDE DEF e
<1> QED
  BY SMTT(30), <1>1, <1>2, <1>7, <1>9, <1>10 DEF OwnInv, Idle, Views

\* What an event that is no progress event does to the callback: Rich is called, and it
\* is called for the counters of the work before if they still wait.
LEMMA EmitRenders ==
  ASSUME NEW e, Emit(e), e.kind # "progress"
  PROVE /\ waiting' = FALSE /\ event' = e
        /\ HasPreviousVisible(e) => stage' = "flush" /\ previous' = visible
        /\ ~HasPreviousVisible(e) => stage' = "call"
        /\ UNCHANGED <<render, enabled, shown>>
BY DEF Emit, StillWaits, Renders, richVars

\* Between two events the display shows the work at hand.
LEMMA ShownJob ==
  ASSUME OwnInv, ShownInv, stage = "idle", Updatable PROVE visible.job = shown.view.job
<1>1. [shown.view EXCEPT !.counters = NoCounters] = [visible EXCEPT !.counters = NoCounters]
  BY DEF ShownInv, ShownIsCurrent, Updatable
<1>2. [shown.view EXCEPT !.counters = NoCounters].job = shown.view.job
  BY DEF ShownInv, Views
<1>3. [visible EXCEPT !.counters = NoCounters].job = visible.job
  BY DEF OwnInv, Views
<1> QED
  BY <1>1, <1>2, <1>3

\* Counters that wait when other work begins are flushed; else they were shown.
LEMMA AnnounceShown ==
  ASSUME OwnInv, OwnInv', ShownInv, job \in Nat, NEW p \in Work, NEW o \in Nat, Announce(p, o),
         phase \in Work \cup {"Started"}, Continues(p, o), phase = "Started" => BeginsJob(p)
  PROVE ShownInv'
<1> DEFINE e == [kind |-> "phaseChanged", phase |-> p, output |-> o, job |-> job', counters |-> NoCounters]
<1>1. /\ p \notin Idle /\ p # "none" /\ p # "ended"
      /\ phase \notin {"none", "ended", "returned"}
  BY DEF Idle, Work, Uncounted, Counted
<1>2. e.kind = "phaseChanged" /\ e.phase = p /\ e.output = o /\ e.job = job' /\ Emit(e)
  BY DEF Announce
<1>3. phase' = p /\ visible' = Incorporate(e) /\ stage = "idle"
  BY <1>2, EmitStep DEF Announce
<1>4. visible'.job = job'
  BY <1>1, <1>2, <1>3 DEF Incorporate
<1>5. waiting => ScopeChanges(e) = BeginsJob(p)
  <2> SUFFICES ASSUME waiting PROVE ScopeChanges(e) = BeginsJob(p)
    OBVIOUS
  <2>1. phase \in Counted /\ phase \notin Uncounted \cup {"Started"} /\ phase \in Work
    BY DEF ShownInv, Counted, Uncounted, Work
  <2>2. visible.phase = phase /\ visible.output = output
    BY <2>1 DEF OwnInv
  <2>3. CASE BeginsJob(p)
    <3>1. o # output \/ (o = 0 /\ (p = "MaterializingCache" \/ (phase # p /\ p # "FormattingPreview")))
      BY <2>1, <2>3 DEF Continues
    <3>2. ScopeChanges(e)
      BY <1>1, <2>2, <3>1 DEF ScopeChanges, StartsNewUnnamedMetricScope
    <3> QED
      BY <2>3, <3>2 DEF ScopeChanges, BeginsJob
  <2>4. CASE ~BeginsJob(p)
    <3>1. o = output /\ (o # 0 \/ (phase = "CollectingPreview" /\ p = "FormattingPreview"))
      BY <2>1, <2>4 DEF Continues
    <3>2. ~ScopeChanges(e)
      BY <2>2, <3>1 DEF ScopeChanges, StartsNewUnnamedMetricScope
    <3> QED
      BY <2>4, <3>2 DEF ScopeChanges, BeginsJob
  <2> QED
    BY <2>3, <2>4
<1> HIDE DEF e
<1>6. /\ waiting' = FALSE /\ event' = e
      /\ HasPreviousVisible(e) => stage' = "flush" /\ previous' = visible
      /\ ~HasPreviousVisible(e) => stage' = "call"
      /\ UNCHANGED <<render, enabled, shown>>
  BY <1>2, EmitRenders
<1>7. BeginsJob(p) => before' = sent
  BY DEF Announce
<1>8. ~BeginsJob(p) => job' = job
  BY DEF Announce
<1>9. visible.counters = sent /\ visible \in Views
  BY <1>1 DEF OwnInv
<1>10. ASSUME Updatable
       PROVE /\ stage' = "flush" =>
                  previous' \in Views /\ previous'.job = shown.view.job /\ previous'.counters = before'
             /\ stage' = "call" => job' = shown.view.job \/ shown.view.counters = before'
  <2>1. shown.view.job = visible.job /\ (waiting \/ shown.view = visible)
    BY <1>3, <1>10, ShownJob DEF ShownInv, ShownIsCurrent, Updatable
  <2>2. CASE HasPreviousVisible(e)
    BY <1>5, <1>6, <1>7, <1>9, <2>1, <2>2 DEF HasPreviousVisible
  <2>3. CASE ~HasPreviousVisible(e)
    <3>1. CASE BeginsJob(p)
      BY <1>5, <1>6, <1>7, <1>9, <2>1, <2>3, <3>1 DEF HasPreviousVisible
    <3>2. CASE ~BeginsJob(p)
      BY <1>6, <1>8, <2>1, <2>3, <3>2 DEF ShownInv
    <3> QED
      BY <3>1, <3>2
  <2> QED
    BY <2>2, <2>3
<1>11. stage' # "idle" /\ (Updatable' <=> Updatable)
  BY <1>6 DEF Updatable
<1> QED
  BY <1>1, <1>3, <1>4, <1>6, <1>10, <1>11 DEF ShownInv, ShownIsCurrent, Blank

\* What Advance announces continues the work.
LEMMA AdvanceContinues ==
  ASSUME OwnInv, op \in Operations, NEW p \in {f[2] : f \in {g \in Follows[op] : g[1] = phase}},
         NEW o, o = IF op \in {"register", "preview"} THEN 0 ELSE Max({1, output})
  PROVE /\ o \in Nat /\ Continues(p, o)
        /\ p \in Named => o >= 1
        /\ p \notin Named => o = 0
        /\ p \in Uncounted => phase \in Uncounted \cup {"Started"}
<1>1. PICK g \in Follows[op] : g[1] = phase /\ g[2] = p
  OBVIOUS
<1>2. output \in Nat
  BY DEF OwnInv
<1>3. output = 0 => Max({1, output}) = 1
  BY SMTT(30), MaxOfTwo
<1>4. output >= 1 => Max({1, output}) = output
  BY <1>2, MaxOfTwo
<1>5. CASE op = "register"
  BY SMTT(30), <1>1, <1>5 DEF Follows, RegisterFollows, Uncounted, Named, Continues
<1>6. CASE op = "preview"
  <2>1. o = 0 /\ g \in PreviewFollows
    BY <1>1, <1>6 DEF Follows
  <2>2. CASE phase = "CollectingPreview"
    <3>1. p = "FormattingPreview"
      BY SMTT(30), <1>1, <2>1, <2>2 DEF PreviewFollows
    <3>2. ~BeginsJob(p) /\ output = 0
      BY <2>2, <3>1 DEF BeginsJob, OwnInv, Work, Counted, Named
    <3> QED
      BY SMTT(30), <2>1, <2>2, <3>1, <3>2 DEF Continues, Named, Uncounted
  <2>3. CASE phase # "CollectingPreview"
    BY SMTT(30), <1>1, <2>1, <2>3 DEF PreviewFollows, Uncounted, Named, Continues
  <2> QED
    BY <2>2, <2>3
<1>7. CASE op \in {"dryRun", "write", "writeAll", "dryRunAll"}
  <2>1. g \in OutputFollows \cup {<<"Started", "PlanningOutput">>, <<"PlanningOutput", "SettingUpStream">>}
    BY SMTT(30), <1>1, <1>7 DEF Follows
  <2>2. o = Max({1, output})
    BY <1>7
  <2>3. o \in Nat /\ o >= 1
    BY SMTT(30), <1>2, <1>3, <1>4, <2>2
  <2>4. p \in Named
    BY SMTT(30), <1>1, <2>1 DEF OutputFollows, Named
  <2>5. CASE phase \in Uncounted \cup {"Started"}
    BY <2>3, <2>4, <2>5 DEF Continues
  <2>6. CASE phase \notin Uncounted \cup {"Started"}
    <3>1. phase \in {"Writing", "Validating", "SwappingTarget"} /\ p \in {"Validating", "SwappingTarget", "CleaningUp"}
      BY SMTT(30), <1>1, <2>1, <2>6 DEF OutputFollows, Uncounted
    <3>2. output >= 1
      BY <3>1 DEF OwnInv, Named
    <3>3. o = output /\ ~BeginsJob(p) /\ p \notin Uncounted
      BY <1>4, <2>2, <3>1, <3>2 DEF BeginsJob, Uncounted
    <3> QED
      BY SMTT(30), <2>3, <2>4, <3>3 DEF Continues
  <2> QED
    BY <2>5, <2>6
<1> QED
  BY <1>5, <1>6, <1>7 DEF Operations
-----------------------------------------------------------------------------
(* The actions that announce a phase. *)

LEMMA AdvanceInv == ASSUME Inv, Advance PROVE Inv'
<1> DEFINE o == IF op \in {"register", "preview"} THEN 0 ELSE Max({1, output})
<1>1. PICK p \in {f[2] : f \in {g \in Follows[op] : g[1] = phase}} : Announce(p, o)
  BY DEF Advance
<1>2. op \in Operations
  BY DEF Advance
<1>3. p \in Work /\ phase \in Work \cup {"Started"} /\ (phase = "Started" => BeginsJob(p))
  BY <1>2, AdvancePhases
<1>4. /\ o \in Nat /\ Continues(p, o)
      /\ p \in Named => o >= 1
      /\ p \notin Named => o = 0
      /\ p \in Uncounted => phase \in Uncounted \cup {"Started"}
  BY <1>2, AdvanceContinues DEF Inv
<1> HIDE DEF o
<1>5. DeliveryInv' /\ DisplayInv'
  BY <1>1, <1>3, AnnounceKeeps DEF Inv
<1>6. OwnInv' /\ ShownInv'
  BY <1>1, <1>3, <1>4, AnnounceOwn, AnnounceShown DEF Inv, DisplayInv
<1> QED
  BY <1>5, <1>6 DEF Inv

LEMMA PlanOutputInv == ASSUME Inv, PlanOutput PROVE Inv'
<1> DEFINE p == "PlanningOutput"
           o == output + 1
<1>1. Announce(p, o) /\ phase \in {"Started", "PlanningOutput"}
  BY DEF PlanOutput
<1>2. p \in Work /\ BeginsJob(p) /\ phase \in Work \cup {"Started"} /\ phase \in Uncounted \cup {"Started"}
  BY <1>1 DEF Work, Uncounted, BeginsJob
<1>3. o \in Nat /\ o >= 1 /\ p \in Named /\ Continues(p, o)
  BY SMTT(30), <1>2 DEF Inv, OwnInv, Named, Continues
<1> HIDE DEF p, o
<1>4. DeliveryInv' /\ DisplayInv'
  BY <1>1, <1>2, AnnounceKeeps DEF Inv
<1>5. OwnInv' /\ ShownInv'
  BY <1>1, <1>2, <1>3, AnnounceOwn, AnnounceShown DEF Inv, DisplayInv
<1> QED
  BY <1>4, <1>5 DEF Inv

LEMMA MaterializeAliasInv == ASSUME Inv, MaterializeAlias PROVE Inv'
<1> DEFINE p == "MaterializingCache"
<1>1. Announce(p, 0) /\ phase \in {"PlanningOutput", "MaterializingCache"}
  BY DEF MaterializeAlias, OutputsPlanned
<1>2. p \in Work /\ BeginsJob(p) /\ phase \in Work \cup {"Started"} /\ phase # "Started"
  BY <1>1 DEF Work, Uncounted, Counted, BeginsJob
<1>3. p \notin Named /\ p \notin Uncounted /\ Continues(p, 0)
  BY <1>2 DEF Named, Uncounted, Continues
<1> HIDE DEF p
<1>4. DeliveryInv' /\ DisplayInv'
  BY <1>1, <1>2, AnnounceKeeps DEF Inv
<1>5. OwnInv' /\ ShownInv'
  BY <1>1, <1>2, <1>3, AnnounceOwn, AnnounceShown DEF Inv, DisplayInv
<1> QED
  BY <1>4, <1>5 DEF Inv

LEMMA StartOutputInv == ASSUME Inv, StartOutput PROVE Inv'
<1> DEFINE p == "SettingUpStream"
<1>1. PICK o \in {1, output + 1} :
        /\ Announce(p, o)
        /\ \/ o = 1 /\ phase \in {"PlanningOutput", "MaterializingCache"}
           \/ o = output + 1 /\ phase \in OutputEnds
  BY DEF StartOutput, OutputsPlanned
<1>2. p \in Work /\ BeginsJob(p) /\ phase \in Work \cup {"Started"} /\ phase # "Started" /\ p \in Named
  BY <1>1 DEF Work, Uncounted, Counted, BeginsJob, OutputEnds, StartOutput, Named
<1>3. output \in Nat /\ (phase = "MaterializingCache" => output = 0)
  BY DEF Inv, OwnInv, Work, Counted, Named
<1>4. o \in Nat /\ o >= 1
  BY SMTT(30), <1>1, <1>3
<1>5. Continues(p, o)
  BY SMTT(30), <1>1, <1>2, <1>3 DEF Continues, Uncounted
<1> HIDE DEF p
<1>6. DeliveryInv' /\ DisplayInv'
  BY <1>1, <1>2, AnnounceKeeps DEF Inv
<1>7. OwnInv' /\ ShownInv'
  BY <1>1, <1>2, <1>4, <1>5, AnnounceOwn, AnnounceShown DEF Inv, DisplayInv
<1> QED
  BY <1>6, <1>7 DEF Inv

LEMMA LeaveOutputsInv == ASSUME Inv, LeaveOutputs PROVE Inv'
<1>1. PICK p \in {"RestoringCache", "ReportingSources"} : Announce(p, 0)
  BY DEF LeaveOutputs
<1>2. phase \in OutputEnds \cup OutputFails \cup {"MaterializingCache"}
  BY DEF LeaveOutputs
<1>3. p \in Work /\ BeginsJob(p) /\ phase \in Work \cup {"Started"} /\ phase # "Started"
  BY <1>1, <1>2 DEF Work, Uncounted, Counted, BeginsJob, OutputEnds, OutputFails
<1>4. p \notin Named /\ phase # p /\ p # "FormattingPreview"
  BY <1>1, <1>2 DEF Named, OutputEnds, OutputFails
<1>5. Continues(p, 0)
  BY <1>3, <1>4 DEF Continues
<1>6. DeliveryInv' /\ DisplayInv'
  BY <1>1, <1>3, AnnounceKeeps DEF Inv
<1>7. OwnInv' /\ ShownInv'
  BY <1>1, <1>3, <1>4, <1>5, AnnounceOwn, AnnounceShown DEF Inv, DisplayInv
<1> QED
  BY <1>6, <1>7 DEF Inv

LEMMA ReportSourcesInv == ASSUME Inv, ReportSources PROVE Inv'
<1> DEFINE p == "ReportingSources"
<1>1. Announce(p, 0) /\ phase \in {"RestoringCache", "PlanningOutput"}
  BY DEF ReportSources
<1>2. p \in Work /\ BeginsJob(p) /\ phase \in Work \cup {"Started"} /\ phase # "Started"
  BY <1>1 DEF Work, Uncounted, BeginsJob
<1>3. p \notin Named /\ phase \in Uncounted /\ Continues(p, 0)
  BY <1>1 DEF Named, Uncounted, Continues
<1> HIDE DEF p
<1>4. DeliveryInv' /\ DisplayInv'
  BY <1>1, <1>2, AnnounceKeeps DEF Inv
<1>5. OwnInv' /\ ShownInv'
  BY <1>1, <1>2, <1>3, AnnounceOwn, AnnounceShown DEF Inv, DisplayInv
<1> QED
  BY <1>4, <1>5 DEF Inv
-----------------------------------------------------------------------------
(* The other events. *)

\* Events with counters keep the display and a saved interruption.
LEMMA ProgressKeeps ==
  ASSUME DeliveryInv, DisplayInv, NEW e, Emit(e), e.kind = "progress", phase \in Work,
         UNCHANGED <<phase, result, job>>
  PROVE DeliveryInv' /\ DisplayInv'
<1>1. e.kind \notin Terminal
  BY DEF Terminal
<1>2. /\ stage = "idle" /\ stage' \in {"idle", "flush", "call"}
      /\ stage' # "idle" => event'.kind = "progress"
      /\ final' = final
      /\ UNCHANGED <<render, interruption, rich, raised, delivered, status>>
  BY <1>1, EmitStep
<1>3. phase \notin Idle
  BY DEF Idle, Work, Uncounted, Counted
<1>4. DeliveryInv'
  BY <1>2, <1>3 DEF DeliveryInv, InterruptionDelivered, Idle
<1>5. DisplayInv'
  BY <1>2, <1>3 DEF DisplayInv, Idle
<1> QED
  BY <1>4, <1>5

\* Counters of the work at hand are merged to what was sent.
LEMMA ProgressOwn ==
  ASSUME OwnInv, NEW c, phase \in Counted, job \in Nat,
         Emit([kind |-> "progress", phase |-> phase, output |-> output, job |-> job, counters |-> c]),
         sent' \in Naturally, sent'.handled <= sent'.total,
         IncorporateMetrics(sent, c) = sent',
         UNCHANGED <<phase, output>>
  PROVE OwnInv'
<1> DEFINE e == [kind |-> "progress", phase |-> phase, output |-> output, job |-> job, counters |-> c]
<1>1. phase \in Work /\ phase \notin Uncounted /\ phase \notin Idle
  BY DEF Work, Counted, Uncounted, Idle
<1>2. visible' = Incorporate(e)
  BY EmitStep
<1>3. visible.output = output /\ visible.counters = sent
  BY <1>1 DEF OwnInv, Idle
<1>4. Cleared(e) = sent
  BY <1>3 DEF Cleared, ScopeChanges
<1>5. visible' = [phase |-> phase, output |-> output, job |-> job, counters |-> sent']
  BY <1>1, <1>2, <1>4 DEF Incorporate, Idle
<1> HIDE DEF e
<1> QED
  BY <1>1, <1>5 DEF OwnInv, Idle, Views

\* A progress event of the work at hand is shown, or its counters wait.
LEMMA ProgressShown ==
  ASSUME OwnInv, ShownInv, NEW c, phase \in Counted, job \in Nat,
         Emit([kind |-> "progress", phase |-> phase, output |-> output, job |-> job, counters |-> c]),
         sent' \in Naturally, IncorporateMetrics(sent, c) = sent',
         UNCHANGED <<phase, output, result, job, before>>
  PROVE ShownInv'
<1> DEFINE e == [kind |-> "progress", phase |-> phase, output |-> output, job |-> job, counters |-> c]
<1>1. phase \in Work /\ phase \notin Idle /\ phase # "none"
  BY DEF Work, Counted, Uncounted, Idle
<1>2. /\ visible.phase = phase /\ visible.output = output /\ visible.job = job
      /\ visible.counters = sent /\ visible \in Views
  BY <1>1 DEF OwnInv, ShownInv, Idle
<1>3. Cleared(e) = sent /\ ~ScopeChanges(e)
  BY <1>2 DEF Cleared, ScopeChanges
<1>4. Incorporate(e) = [phase |-> phase, output |-> output, job |-> job, counters |-> sent']
  BY <1>1, <1>3 DEF Incorporate
<1>5. visible = [phase |-> phase, output |-> output, job |-> job, counters |-> sent]
  BY <1>2 DEF Views
<1>6. Waits(e) = (waiting \/ sent' # sent)
  BY SMTT(30), <1>3, <1>4 DEF Waits
<1>7. /\ stage = "idle" /\ visible' = Incorporate(e) /\ waiting' = (Waits(e) /\ ~Renders(e))
      /\ UNCHANGED <<render, enabled, shown>>
      /\ IF Renders(e) THEN stage' = "call" ELSE stage' = "idle"
  BY <1>3 DEF Emit, StillWaits, HasPreviousVisible, callVars, richVars
<1>8. ~Renders(e) => (waiting' <=> waiting \/ sent' # sent)
  BY <1>6, <1>7
<1> HIDE DEF e
<1>9. visible' = [phase |-> phase, output |-> output, job |-> job, counters |-> sent']
  BY <1>4, <1>7
<1>10. ASSUME Updatable
       PROVE /\ stage' = "call" => job = shown.view.job
             /\ stage' = "idle" =>
                  /\ [shown.view EXCEPT !.counters = NoCounters] = [visible' EXCEPT !.counters = NoCounters]
                  /\ waiting' \/ shown.view = visible'
  <2>1. /\ [shown.view EXCEPT !.counters = NoCounters] = [visible EXCEPT !.counters = NoCounters]
        /\ waiting \/ shown.view = visible
    BY <1>7, <1>10 DEF ShownInv, ShownIsCurrent, Updatable
  <2>3. visible.job = shown.view.job
    BY <1>7, <1>10, ShownJob
  <2>4. [visible EXCEPT !.counters = NoCounters] = [visible' EXCEPT !.counters = NoCounters]
    BY SMTT(30), <1>5, <1>9
  <2>5. stage' = "idle" => waiting' \/ shown.view = visible'
    BY <1>5, <1>7, <1>8, <1>9, <2>1
  <2> QED
    BY <1>2, <2>1, <2>3, <2>4, <2>5
<1>11. (Updatable' <=> Updatable) /\ stage' # "flush" /\ visible'.job = job /\ waiting' \in BOOLEAN
  BY SMTT(30), <1>7, <1>9 DEF Updatable
<1> QED
  BY <1>1, <1>7, <1>10, <1>11 DEF ShownInv, ShownIsCurrent, Updatable, Idle

LEMMA SampleFilesInv == ASSUME Inv, SampleFiles PROVE Inv'
<1>1. PICK total \in IF sent.total = 0 THEN 0..MaxFiles ELSE {sent.total}, read \in sent.handled..MaxFiles :
        /\ total # 0
        /\ sent' = [FileProgress(read, total) EXCEPT !.rows = sent.rows]
        /\ Emit([kind |-> "progress", phase |-> phase, output |-> output, job |-> job,
                 counters |-> FileProgress(read, total)])
  BY DEF SampleFiles
<1>2. phase \in Counted /\ phase \in Work /\ UNCHANGED <<phase, output, result, job, before>>
  BY DEF SampleFiles, Counted, Work
<1>3. sent \in Naturally /\ sent.handled <= sent.total
  BY DEF Inv, OwnInv
<1>4. MaxFiles \in Nat
  BY ProgressAssumption
<1>5. total \in Nat /\ read \in Nat /\ sent.handled <= read /\ sent.handled <= total
  BY SMTT(30), <1>1, <1>3, <1>4 DEF Naturally
<1>6. PICK h \in Nat : h = Min({read, total}) /\ h <= total /\ sent.handled <= h
  BY SMTT(30), <1>3, <1>5, MinOfTwo DEF Naturally
<1>7. FileProgress(read, total) = [handled |-> h, total |-> total, rows |-> 0]
  BY <1>6 DEF FileProgress
<1>8. sent' = [handled |-> h, total |-> total, rows |-> sent.rows]
  BY SMTT(30), <1>1, <1>7
<1>9. IncorporateMetrics(sent, FileProgress(read, total)) = sent'
  <2>1. (IF sent.total = 0 THEN total ELSE sent.total) = total
    BY <1>1
  <2>2. Min({h, total}) = h
    BY <1>5, <1>6, MinOfTwo
  <2>3. Max({sent.handled, h}) = h
    BY <1>3, <1>6, MaxOfTwo DEF Naturally
  <2>4. Max({sent.rows, 0}) = sent.rows
    BY SMTT(30), <1>3, MaxOfTwo DEF Naturally
  <2> QED
    BY SMTT(30), <1>7, <1>8, <2>1, <2>2, <2>3, <2>4 DEF IncorporateMetrics
<1>10. sent' \in Naturally /\ sent'.handled <= sent'.total
  BY <1>3, <1>5, <1>6, <1>8 DEF Naturally
<1>11. OwnInv' /\ ShownInv'
  BY <1>1, <1>2, <1>9, <1>10, ProgressOwn, ProgressShown DEF Inv, DisplayInv
<1>12. DeliveryInv' /\ DisplayInv'
  BY <1>1, <1>2, ProgressKeeps DEF Inv
<1> QED
  BY <1>11, <1>12 DEF Inv

LEMMA WriteBatchInv == ASSUME Inv, WriteBatch PROVE Inv'
<1> DEFINE c == [NoCounters EXCEPT !.rows = sent'.rows]
<1>1. Emit([kind |-> "progress", phase |-> phase, output |-> output, job |-> job, counters |-> c])
  BY DEF WriteBatch
<1>2. phase \in Counted /\ phase \in Work /\ UNCHANGED <<phase, output, result, job, before>>
  BY DEF WriteBatch, Counted, Work
<1>3. sent \in Naturally /\ sent.handled <= sent.total
  BY DEF Inv, OwnInv
<1>4. sent' = [handled |-> sent.handled, total |-> sent.total, rows |-> sent.rows + 1]
  BY <1>3 DEF WriteBatch, Naturally
<1>5. c = [handled |-> 0, total |-> 0, rows |-> sent.rows + 1]
  BY SMTT(30), <1>4 DEF NoCounters
<1>6. IncorporateMetrics(sent, c) = sent'
  <2>1. (IF sent.total = 0 THEN 0 ELSE sent.total) = sent.total
    OBVIOUS
  <2>2. Min({0, sent.total}) = 0
    BY SMTT(30), <1>3, MinOfTwo DEF Naturally
  <2>3. Max({sent.handled, 0}) = sent.handled
    BY SMTT(30), <1>3, MaxOfTwo DEF Naturally
  <2>4. Max({sent.rows, sent.rows + 1}) = sent.rows + 1
    BY SMTT(30), <1>3, MaxOfTwo DEF Naturally
  <2> QED
    BY <1>4, <1>5, <2>1, <2>2, <2>3, <2>4 DEF IncorporateMetrics
<1>7. sent' \in Naturally /\ sent'.handled <= sent'.total
  BY SMTT(30), <1>3, <1>4 DEF Naturally
<1> HIDE DEF c
<1>8. OwnInv' /\ ShownInv'
  BY <1>1, <1>2, <1>6, <1>7, ProgressOwn, ProgressShown DEF Inv, DisplayInv
<1>9. DeliveryInv' /\ DisplayInv'
  BY <1>1, <1>2, ProgressKeeps DEF Inv
<1> QED
  BY <1>8, <1>9 DEF Inv

\* Started and terminal events carry neither a phase nor counters.
LEMMA PlainEvent ==
  ASSUME OwnInv, phase # "returned", NEW k, Emit([NoEvent EXCEPT !.kind = k])
  PROVE visible' = visible
<1> DEFINE e == [NoEvent EXCEPT !.kind = k]
<1>1. e.phase = "none" /\ e.counters = NoCounters
  BY DEF NoEvent
<1>2. visible' = Incorporate(e)
  BY EmitStep
<1> HIDE DEF e
<1>3. Cleared(e) = visible.counters /\ visible.counters \in Naturally
  BY <1>1 DEF Cleared, ScopeChanges, OwnInv, Views
<1>4. visible' = [visible EXCEPT !.counters = visible.counters]
  BY <1>1, <1>2, <1>3, IncorporateNothing DEF Incorporate
<1> QED
  BY <1>4 DEF OwnInv, Views

LEMMA PlainRenders ==
  ASSUME NEW k, k # "progress", Emit([NoEvent EXCEPT !.kind = k])
  PROVE /\ stage = "idle" /\ stage' = "call" /\ waiting' = FALSE /\ event'.kind = k
        /\ UNCHANGED <<render, enabled, shown>>
<1> DEFINE e == [NoEvent EXCEPT !.kind = k]
<1>1. e.phase = "none" /\ e.kind = k /\ Emit(e)
  BY DEF NoEvent
<1> HIDE DEF e
<1>2. ~HasPreviousVisible(e) /\ stage = "idle"
  BY <1>1 DEF HasPreviousVisible, ScopeChanges, Emit
<1> QED
  BY <1>1, <1>2, EmitRenders

LEMMA StartInv == ASSUME Inv, Start PROVE Inv'
<1> DEFINE e == [NoEvent EXCEPT !.kind = "started"]
<1>1. Emit(e) /\ phase = "none" /\ phase' = "Started" /\ UNCHANGED <<output, result, job, sent>>
  BY DEF Start
<1>2. e.kind = "started" /\ e.kind \notin Terminal
  BY DEF NoEvent, Terminal
<1>3. visible' = visible
  BY <1>1, PlainEvent DEF Inv
<1> HIDE DEF e
<1>4. /\ stage' \in {"idle", "flush", "call"} /\ final' = final
      /\ UNCHANGED <<render, interruption, rich, raised, delivered, status>>
  BY <1>1, <1>2, EmitStep
<1>5. DeliveryInv'
  BY <1>1, <1>4 DEF Inv, DeliveryInv, InterruptionDelivered
<1>6. DisplayInv'
  BY <1>1, <1>4 DEF Inv, DisplayInv, Idle
<1>7. OwnInv'
  BY <1>1, <1>3 DEF Inv, OwnInv, Work, Uncounted, Counted, Named
<1>8. stage' = "call" /\ waiting' = FALSE /\ UNCHANGED <<render, enabled, shown>>
  BY <1>1, PlainRenders DEF e
<1>9. ShownInv'
  BY <1>1, <1>8 DEF Inv, DisplayInv, ShownInv, ShownIsCurrent, Updatable, Work, Uncounted, Counted, Blank
<1> QED
  BY <1>5, <1>6, <1>7, <1>9 DEF Inv

LEMMA EndInv == ASSUME Inv, End PROVE Inv'
<1> DEFINE e == [NoEvent EXCEPT !.kind = Outcome(result')]
<1>1. Emit(e) /\ phase' = "ended" /\ UNCHANGED <<output, job, sent>>
  BY DEF End
<1>2. phase \in Work
  <2>1. CASE Succeeds
    BY <2>1 DEF Succeeds, Work, Uncounted, Counted, OutputEnds
  <2>2. CASE phase = "ReportingSources"
    BY <2>2 DEF Work, Uncounted
  <2>3. CASE Fails
    BY <2>3 DEF Fails, Inv, DisplayInv, Idle, Work, Uncounted, Counted, OutputFails
  <2> QED
    BY <2>1, <2>2, <2>3 DEF End
<1>3. phase \notin Idle
  BY <1>2 DEF Idle, Work, Uncounted, Counted
<1>4. e.kind = Outcome(result') /\ Outcome(result') \in Terminal /\ Outcome(result') \notin {"progress", "started"}
  BY DEF NoEvent, Outcome, Terminal
<1>5. visible' = visible
  BY <1>1, <1>3, PlainEvent DEF Inv, Idle
<1> HIDE DEF e
<1>6. /\ stage' \in {"idle", "flush", "call"} /\ final' = Outcome(result')
      /\ stage' # "idle" => event'.kind # "started"
      /\ UNCHANGED <<render, interruption, rich, raised, delivered, status>>
  BY <1>1, <1>4, EmitStep DEF FinalEvent
<1>7. DeliveryInv'
  BY <1>1, <1>3, <1>6 DEF Inv, DeliveryInv, InterruptionDelivered, Idle
<1>8. DisplayInv'
  BY <1>1, <1>3, <1>6 DEF Inv, DisplayInv, Idle
<1>9. OwnInv'
  BY <1>1, <1>3, <1>5 DEF Inv, OwnInv, Work, Uncounted, Counted, Named, Idle
<1>10. /\ stage = "idle" /\ stage' = "call" /\ waiting' = FALSE /\ event'.kind = Outcome(result')
       /\ UNCHANGED <<render, enabled, shown>>
  BY <1>1, <1>4, PlainRenders DEF e
<1>11. Updatable => visible.job = shown.view.job
  BY <1>10, ShownJob DEF Inv
<1>12. ShownInv'
  BY <1>1, <1>5, <1>10, <1>11
     DEF Inv, ShownInv, ShownIsCurrent, Updatable, Work, Uncounted, Counted, Blank
<1> QED
  BY <1>7, <1>8, <1>9, <1>12 DEF Inv
-----------------------------------------------------------------------------
(* The call, the calls of Rich and the return. *)

LEMMA CallInv == ASSUME Inv, NEW o, Call(o) PROVE Inv'
<1>1. DeliveryInv'
  BY DEF Inv, Call, DeliveryInv, InterruptionDelivered
<1>2. DisplayInv'
  BY DEF Inv, Call, DisplayInv, Idle, callVars
<1>3. OwnInv'
  <2>1. /\ phase' = "none" /\ output' = 0 /\ sent' = NoCounters /\ visible' = visible
        /\ phase = "returned"
    BY DEF Call
  <2>2. visible = Nothing
    BY <2>1 DEF Inv, OwnInv
  <2>3. NoCounters \in Naturally /\ NoCounters.handled <= NoCounters.total /\ Nothing.counters = NoCounters
    BY SMTT(30) DEF NoCounters, Naturally, Nothing
  <2>4. "none" \notin Work /\ "none" \notin Named
    BY DEF Work, Uncounted, Counted, Named
  <2> QED
    BY <2>1, <2>2, <2>3, <2>4 DEF Inv, OwnInv, Work
<1>4. ShownInv'
  <2>1. /\ phase = "returned" /\ phase' = "none" /\ render' = "pending" /\ shown' = Blank
        /\ waiting' = waiting
    BY DEF Call
  <2>2. Nothing \in Views
    BY DEF Nothing, NoCounters, Naturally, Views
  <2>3. shown'.view = Nothing
    BY <2>1 DEF Blank
  <2>4. stage' = "idle"
    BY <2>1 DEF Call, callVars, Inv, DisplayInv
  <2> QED
    BY <2>1, <2>2, <2>3, <2>4
       DEF Inv, ShownInv, ShownIsCurrent, Updatable, Work, Uncounted, Counted
<1> QED
  BY <1>1, <1>2, <1>3, <1>4 DEF Inv

LEMMA SilentInv == ASSUME Inv, Silent PROVE Inv'
<1>1. /\ phase = "none" /\ phase' = "ended" /\ result' \in {"ok", "error"}
      /\ UNCHANGED <<output, job, sent, stateVars, callVars, richVars, delivered, status>>
  BY DEF Silent
<1>2. DeliveryInv'
  BY <1>1 DEF Inv, DeliveryInv, InterruptionDelivered, stateVars, richVars
<1>3. DisplayInv'
  BY <1>1 DEF Inv, DisplayInv, Idle, stateVars, callVars, richVars
<1>4. OwnInv'
  BY <1>1 DEF Inv, OwnInv, Work, Uncounted, Counted, Named, stateVars
<1>5. /\ render = "pending" /\ stage = "idle"
      /\ UNCHANGED <<render, enabled, shown, visible, waiting, stage>>
  BY <1>1 DEF Inv, DisplayInv, stateVars, callVars, richVars
<1>6. ShownInv'
  BY <1>1, <1>5 DEF Inv, ShownInv, ShownIsCurrent, Updatable, Work, Uncounted, Counted
<1> QED
  BY <1>2, <1>3, <1>4, <1>6 DEF Inv

\* Steps that leave the operation and its counters alone.
LEMMA OwnUnchanged ==
  ASSUME OwnInv, UNCHANGED <<phase, output, sent, visible>> PROVE OwnInv'
BY DEF OwnInv

\* A call of Rich that raises keeps the first interruption.
LEMMA RaisesFirst ==
  ASSUME raised \in Nat, interruption = IF raised = 0 THEN 0 ELSE 1, Raises
  PROVE raised' \in Nat /\ interruption' = IF raised' = 0 THEN 0 ELSE 1
BY SMTT(30) DEF Raises, SavedInterruption

LEMMA UpdateRichFirst ==
  ASSUME raised \in Nat, interruption = IF raised = 0 THEN 0 ELSE 1, NEW k, NEW v, UpdateRich(k, v)
  PROVE raised' \in Nat /\ interruption' = IF raised' = 0 THEN 0 ELSE 1
<1>1. UNCHANGED <<interruption, raised>> \/ Raises
  BY DEF UpdateRich
<1> QED
  BY <1>1, RaisesFirst

\* What Flush and Update have in common.
LEMMA CallOfRich ==
  ASSUME DeliveryInv, DisplayInv, stage # "idle",
         UNCHANGED <<phase, result, final, delivered, status>>,
         raised \in Nat /\ interruption = (IF raised = 0 THEN 0 ELSE 1)
           => raised' \in Nat /\ interruption' = (IF raised' = 0 THEN 0 ELSE 1)
  PROVE DeliveryInv'
<1>1. phase # "returned"
  BY DEF DisplayInv
<1> QED
  BY <1>1 DEF DeliveryInv, InterruptionDelivered

LEMMA FlushInv == ASSUME Inv, Flush PROVE Inv'
<1>1. /\ stage = "flush" /\ stage' = "call"
      /\ UNCHANGED <<phase, output, result, job, sent, render, final, visible, event, rich, delivered, status>>
  BY DEF Flush, emitterVars
<1>2. UpdateRich("progress", previous) \/ UNCHANGED <<interruption, raised>>
  BY DEF Flush
<1>3. DeliveryInv'
  BY <1>1, <1>2, UpdateRichFirst, CallOfRich DEF Inv
<1>4. DisplayInv'
  BY <1>1 DEF Inv, DisplayInv
<1>5. OwnInv'
  BY <1>1, OwnUnchanged DEF Inv
<1>6. UNCHANGED <<waiting, before>>
  BY DEF Flush, emitterVars
<1>7. \/ Updatable /\ enabled' /\ shown' = [kind |-> "progress", view |-> previous]
      \/ ~Updatable' /\ shown' = shown
  BY <1>1 DEF Flush, UpdateRich, Updatable
<1>8. ASSUME Updatable /\ enabled' /\ shown' = [kind |-> "progress", view |-> previous]
      PROVE ShownInv'
  <2>1. shown'.view = previous /\ previous \in Views /\ previous.counters = before /\ render # "pending"
    BY <1>1, <1>8 DEF Inv, ShownInv, Updatable
  <2> QED
    BY <1>1, <1>6, <2>1 DEF Inv, ShownInv, ShownIsCurrent
<1>9. ASSUME ~Updatable' /\ shown' = shown
      PROVE ShownInv'
  BY <1>1, <1>6, <1>9 DEF Inv, ShownInv, ShownIsCurrent
<1> QED
  BY <1>3, <1>4, <1>5, <1>7, <1>8, <1>9 DEF Inv

LEMMA CreateInv == ASSUME Inv, Create PROVE Inv'
<1>1. /\ stage = "call" /\ stage' = "idle" /\ event.kind = "started" /\ render = "pending"
      /\ \/ render' = "done" /\ rich' = rich
         \/ render' = "active" /\ rich' = "made"
      /\ UNCHANGED <<phase, output, result, job, sent, final, visible, delivered, status>>
  BY DEF Create, emitterVars
<1>2. Raises \/ UNCHANGED <<interruption, raised>>
  BY DEF Create
<1>3. DeliveryInv'
  BY <1>1, <1>2, RaisesFirst, CallOfRich DEF Inv
<1>4. phase = "Started"
  BY <1>1 DEF Inv, DisplayInv
<1>5. DisplayInv'
  BY <1>1, <1>4 DEF Inv, DisplayInv, Idle
<1>6. OwnInv'
  BY <1>1, OwnUnchanged DEF Inv
<1>7. UNCHANGED <<waiting, shown>> /\ shown = Blank /\ visible = Nothing /\ shown.view = Nothing
  BY SMTT(30), <1>1, <1>4 DEF Create, Inv, ShownInv, OwnInv, Blank
<1>8. ShownInv'
  BY <1>1, <1>4, <1>7 DEF Inv, ShownInv, ShownIsCurrent, Updatable, Work, Uncounted, Counted
<1> QED
  BY <1>3, <1>5, <1>6, <1>8 DEF Inv

LEMMA UpdateInv == ASSUME Inv, Update PROVE Inv'
<1>1. /\ stage = "call" /\ stage' = "idle"
      /\ UNCHANGED <<phase, output, result, job, sent, render, final, visible, rich, delivered, status>>
  BY DEF Update, emitterVars
<1>2. UpdateRich(event.kind, visible) \/ UNCHANGED <<interruption, raised>>
  BY DEF Update
<1>3. DeliveryInv'
  BY <1>1, <1>2, UpdateRichFirst, CallOfRich DEF Inv
<1>4. DisplayInv'
  BY <1>1 DEF Inv, DisplayInv
<1>5. OwnInv'
  BY <1>1, OwnUnchanged DEF Inv
<1>6. waiting' = waiting
  BY DEF Update
<1>7. \/ Updatable /\ enabled' /\ shown' = [kind |-> event.kind, view |-> visible]
      \/ ~Updatable' /\ shown' = shown
  BY <1>1 DEF Update, UpdateRich, Updatable
<1>8. ASSUME Updatable /\ enabled' /\ shown' = [kind |-> event.kind, view |-> visible]
      PROVE ShownInv'
  <2>1. /\ shown'.view = visible /\ shown'.kind = event.kind /\ visible \in Views /\ render # "pending"
        /\ phase = "ended" => event.kind = Outcome(result)
    BY <1>1, <1>8 DEF Inv, ShownInv, OwnInv, Updatable
  <2> QED
    BY <1>1, <1>6, <2>1 DEF Inv, ShownInv, ShownIsCurrent
<1>9. ASSUME ~Updatable' /\ shown' = shown
      PROVE ShownInv'
  BY <1>1, <1>6, <1>9 DEF Inv, ShownInv, ShownIsCurrent, Updatable
<1> QED
  BY <1>3, <1>4, <1>5, <1>7, <1>8, <1>9 DEF Inv

LEMMA FinishInv == ASSUME Inv, Finish PROVE Inv'
<1>1. /\ phase = "ended" /\ stage = "idle" /\ phase' = "returned" /\ render' = "done"
      /\ interruption' = 0 /\ final' = "none" /\ visible' = Nothing
      /\ UNCHANGED <<output, result, job, sent, stage, event>>
  BY DEF Finish, callVars
<1>2. raised \in Nat /\ interruption = IF raised = 0 THEN 0 ELSE 1
  BY <1>1 DEF Inv, DeliveryInv
<1>3. raised' \in Nat /\ delivered' = IF raised' = 0 THEN 0 ELSE 1
  BY SMTT(30), <1>2 DEF Finish, SavedInterruption
<1>4. status' = Outcome(result)
  BY <1>1 DEF Inv, DeliveryInv, Finish, ActionStatus, Outcome
<1>5. DeliveryInv'
  BY <1>1, <1>3, <1>4 DEF DeliveryInv, InterruptionDelivered
<1>6. \/ render = "active" /\ rich' = "stopped"
      \/ render # "active" /\ rich' = rich
  BY DEF Finish
<1>7. DisplayInv'
  BY <1>1, <1>6 DEF Inv, DisplayInv, Idle
<1>8. Nothing \in Views
  BY DEF Nothing, NoCounters, Naturally, Views
<1>9. OwnInv'
  BY <1>1, <1>8 DEF Inv, OwnInv, Work, Uncounted, Counted, Named
<1>10. waiting' = FALSE /\ UNCHANGED shown
  BY DEF Finish
<1>11. ShownInv'
  BY <1>1, <1>10 DEF Inv, ShownInv, ShownIsCurrent, Updatable, Work, Uncounted, Counted
<1> QED
  BY <1>5, <1>7, <1>9, <1>11 DEF Inv

\* Time and stuttering steps.
LEMMA QuietInv ==
  ASSUME Inv, UNCHANGED <<emitterVars, render, enabled, interruption, final, visible, waiting, callVars,
                          richVars, delivered, status>>
  PROVE Inv'
<1>1. DeliveryInv'
  BY DEF Inv, DeliveryInv, InterruptionDelivered, emitterVars, richVars
<1>2. DisplayInv'
  BY DEF Inv, DisplayInv, emitterVars, callVars, richVars
<1>3. OwnInv'
  BY OwnUnchanged DEF Inv, emitterVars
<1>4. UNCHANGED <<phase, job, result, before, render, enabled, visible, waiting, shown, stage, event, previous>>
  BY DEF emitterVars, callVars, richVars
<1>5. ShownInv'
  BY SMTT(30), <1>4 DEF Inv, ShownInv, ShownIsCurrent, Updatable
<1> QED
  BY <1>1, <1>2, <1>3, <1>5 DEF Inv

LEMMA InitInv == Init => Inv
<1> SUFFICES ASSUME Init PROVE Inv
  OBVIOUS
<1>1. DeliveryInv
  BY DEF Init, DeliveryInv, InterruptionDelivered, Outcome
<1>2. DisplayInv
  BY DEF Init, DisplayInv, Idle
<1>3. Nothing \in Views
  BY DEF Nothing, NoCounters, Naturally, Views
<1>4. NoCounters \in Naturally /\ NoCounters.handled <= NoCounters.total
  BY SMTT(30) DEF NoCounters, Naturally
<1>5. OwnInv
  BY <1>3, <1>4 DEF Init, OwnInv, Work, Uncounted, Counted, Named
<1>6. ShownInv
  BY <1>3 DEF Init, ShownInv, ShownIsCurrent, Updatable, Work, Uncounted, Counted, Blank
<1> QED
  BY <1>1, <1>2, <1>5, <1>6 DEF Inv

\* The inductive invariant: what the adapter keeps while the operation and Rich interleave.
THEOREM ProgressInvariant == Spec => []Inv
<1>1. Inv /\ [Next]_vars => Inv'
  <2> SUFFICES ASSUME Inv, [Next]_vars PROVE Inv'
    OBVIOUS
  <2>1. CASE \E o \in Operations : Call(o)
    BY <2>1, CallInv
  <2>2. CASE Operate
    BY <2>2, SilentInv, StartInv, AdvanceInv, PlanOutputInv, MaterializeAliasInv, StartOutputInv,
       LeaveOutputsInv, ReportSourcesInv, SampleFilesInv, WriteBatchInv, EndInv DEF Operate
  <2>3. CASE Render
    BY <2>3, FlushInv, CreateInv, UpdateInv DEF Render
  <2>4. CASE Pass
    BY <2>4, QuietInv DEF Pass
  <2>5. CASE Finish
    BY <2>5, FinishInv
  <2>6. CASE UNCHANGED vars
    BY <2>6, QuietInv DEF vars, stateVars
  <2> QED
    BY <2>1, <2>2, <2>3, <2>4, <2>5, <2>6 DEF Next
<1> QED
  BY <1>1, InitInv, PTL DEF Spec

\* CountersAreOwn: scope_changes clears counters exactly when other work begins, for any
\* number of outputs and aliases.
THEOREM ProgressCountersAreOwn == Spec => []CountersAreOwn
<1>1. Inv => CountersAreOwn
  BY DEF Inv, OwnInv, CountersAreOwn
<1> QED
  BY <1>1, ProgressInvariant, PTL

\* ShownIsCurrent: metrics_waiting_to_render is not lost when events of several kinds
\* interleave with the throttle and with calls of Rich that fail.
THEOREM ProgressShownIsCurrent == Spec => []ShownIsCurrent
<1>1. Inv => ShownIsCurrent
  BY DEF Inv, ShownInv
<1> QED
  BY <1>1, ProgressInvariant, PTL

\* OutcomeShown: the terminal event is rendered, with counters that waited before it.
THEOREM ProgressOutcomeShown == Spec => []OutcomeShown
<1>1. Inv => OutcomeShown
  <2> SUFFICES ASSUME Inv, phase = "ended", stage = "idle", render = "active", enabled
      PROVE shown.kind = Outcome(result) /\ shown.view.counters = sent
    BY DEF OutcomeShown
  <2>1. ~waiting
    BY DEF Inv, ShownInv, Counted
  <2>2. shown.view = visible
    BY <2>1 DEF Inv, ShownInv, ShownIsCurrent
  <2> QED
    BY <2>2 DEF Inv, ShownInv, OwnInv, Updatable
<1> QED
  BY <1>1, ProgressInvariant, PTL

\* A step of the operation emits an event or refuses the request.
LEMMA OperateEmits ==
  ASSUME Inv, Operate PROVE phase # "returned" /\ phase' # "returned" /\ (Silent \/ \E e : Emit(e))
<1>1. CASE Silent \/ Start
  BY <1>1 DEF Silent, Start
<1>2. CASE Advance
  <2>1. op \in Operations
    BY <1>2 DEF Advance
  <2>2. PICK p \in {f[2] : f \in {g \in Follows[op] : g[1] = phase}}, o \in {0, Max({1, output})} : Announce(p, o)
    BY <1>2 DEF Advance
  <2>3. p \in Work /\ phase \in Work \cup {"Started"}
    BY <2>1, AdvancePhases
  <2> QED
    BY <2>2, <2>3 DEF Announce, Work, Uncounted, Counted
<1>3. CASE PlanOutput \/ MaterializeAlias \/ StartOutput
  BY <1>3 DEF PlanOutput, MaterializeAlias, StartOutput, OutputsPlanned, OutputEnds, Announce
<1>4. CASE LeaveOutputs \/ ReportSources
  BY <1>4 DEF LeaveOutputs, ReportSources, OutputEnds, OutputFails, Announce
<1>5. CASE SampleFiles \/ WriteBatch
  BY <1>5 DEF SampleFiles, WriteBatch
<1>6. CASE End
  BY <1>6 DEF End, Succeeds, Fails, OutputEnds, OutputFails
<1> QED
  BY <1>1, <1>2, <1>3, <1>4, <1>5, <1>6 DEF Operate

\* Only a call of Rich, or another call of Python, changes what is shown.
LEMMA ShownChanges ==
  ASSUME Inv, Next PROVE shown' = shown \/ shown' = Blank \/ Flush \/ Update
<1>1. CASE \E o \in Operations : Call(o)
  BY <1>1 DEF Call
<1>2. CASE Operate
  BY <1>2, OperateEmits DEF Silent, Emit, richVars
<1>3. CASE Create
  BY <1>3 DEF Create
<1>4. CASE Pass \/ Finish
  BY <1>4 DEF Pass, Finish, richVars
<1> QED
  BY <1>1, <1>2, <1>3, <1>4 DEF Next, Render

\* LastCountersShown: flush_previous_metrics shows counters that waited before other work is
\* shown, and other work is shown only by the event that began it.
THEOREM ProgressLastCountersShown == Spec => LastCountersShown
<1>1. Inv /\ [Next]_vars => [shown'.view.job \notin {0, shown.view.job} => shown.view.counters = before]_vars
  <2> SUFFICES ASSUME Inv, Next, shown'.view.job \notin {0, shown.view.job} PROVE shown.view.counters = before
    OBVIOUS
  <2>1. shown' # shown /\ shown' # Blank
    BY SMTT(30) DEF Blank, Nothing
  <2>2. CASE Flush
    <3>1. stage = "flush" /\ Updatable /\ shown' = [kind |-> "progress", view |-> previous]
      BY <2>1, <2>2 DEF Flush, UpdateRich, Updatable
    <3>2. shown'.view.job = shown.view.job
      BY <3>1 DEF Inv, ShownInv
    <3> QED
      BY <3>2
  <2>3. CASE Update
    <3>1. stage = "call" /\ Updatable /\ shown' = [kind |-> event.kind, view |-> visible]
      BY <2>1, <2>3 DEF Update, UpdateRich, Updatable
    <3> QED
      BY <3>1 DEF Inv, ShownInv
  <2> QED
    BY <2>1, <2>2, <2>3, ShownChanges
<1> QED
  BY <1>1, ProgressInvariant, PTL DEF Spec, LastCountersShown

\* InterruptionDelivered: finish raises the first interruption with the true outcome.
THEOREM ProgressInterruptionDelivered == Spec => []InterruptionDelivered
<1>1. Inv => InterruptionDelivered
  BY DEF Inv, DeliveryInv
<1> QED
  BY <1>1, ProgressInvariant, PTL

\* DisplayStopped: every display that was made is stopped by finish, and only then.
THEOREM ProgressDisplayStopped == Spec => []DisplayStopped
<1>1. Inv => DisplayStopped
  BY DEF Inv, DisplayInv, DisplayStopped, Idle
<1> QED
  BY <1>1, ProgressInvariant, PTL
-----------------------------------------------------------------------------
(* Types. *)

EmitterType ==
  /\ op \in Operations \cup {"none"} /\ output \in 0..OutputCount /\ aliases \in 0..MaxAliases
  /\ result \in {"running", "ok", "failures", "error"} /\ sent \in Counters /\ before \in Counters

AdapterType ==
  /\ render \in {"pending", "active", "done"} /\ enabled \in BOOLEAN
  /\ waiting \in BOOLEAN /\ recent \in BOOLEAN
  /\ final \in Terminal \cup {"none"} /\ status \in Terminal \cup {"none"}

\* Rich is not called again after it raised, except to stop the display.
RaisedInv ==
  /\ enabled => render = "active"
  /\ raised \in 0..2 /\ (phase # "returned" => raised <= 1)
  /\ phase # "returned" /\ (enabled \/ render = "pending") => raised = 0
  /\ delivered \in 0..2

TypeInv == EmitterType /\ AdapterType /\ RaisedInv

LEMMA AnnounceType ==
  ASSUME EmitterType, NEW p, NEW o \in 0..OutputCount, Announce(p, o),
         op' = op, result' \in {"running", "ok", "failures", "error"}, aliases' \in 0..MaxAliases
  PROVE EmitterType'
<1>1. NoCounters \in Counters
  BY SMTT(30), ProgressAssumption DEF NoCounters, Counters
<1>2. output' = o /\ sent' \in Counters /\ before' \in Counters
  BY <1>1 DEF Announce, EmitterType
<1> QED
  BY <1>2 DEF EmitterType

LEMMA OperateEmitter == ASSUME Inv, EmitterType, Operate PROVE EmitterType'
<1>1. OutputCount \in Nat \ {0} /\ MaxAliases \in Nat \ {0} /\ MaxFiles \in Nat \ {0} /\ MaxRows \in Nat \ {0}
  BY ProgressAssumption
<1>2. output \in Nat /\ output <= OutputCount
  BY SMTT(30), <1>1 DEF EmitterType
<1>3. CASE Silent \/ Start \/ End
  BY <1>3 DEF Silent, Start, End, EmitterType
<1>4. CASE Advance
  <2>1. Max({1, output}) \in 0..OutputCount
    <3>1. CASE output = 0
      BY SMTT(30), <1>1, <3>1, MaxOfTwo
    <3>2. CASE output >= 1
      BY SMTT(30), <1>1, <1>2, <3>2, MaxOfTwo
    <3> QED
      BY SMTT(30), <1>2, <3>1, <3>2
  <2>2. (IF op \in {"register", "preview"} THEN 0 ELSE Max({1, output})) \in 0..OutputCount
    BY SMTT(30), <1>1, <2>1
  <2> QED
    BY <1>4, <2>2, AnnounceType DEF Advance, EmitterType
<1>5. CASE PlanOutput
  <2>1. output + 1 \in 0..OutputCount
    BY SMTT(30), <1>1, <1>2, <1>5 DEF PlanOutput, Inv, OwnInv
  <2> QED
    BY <1>5, <2>1, AnnounceType DEF PlanOutput, EmitterType
<1>6. CASE MaterializeAlias
  <2>1. aliases' \in 0..MaxAliases /\ 0 \in 0..OutputCount
    BY SMTT(30), <1>1, <1>6 DEF MaterializeAlias, EmitterType
  <2> QED
    BY <1>6, <2>1, AnnounceType DEF MaterializeAlias, EmitterType
<1>7. CASE StartOutput
  <2>1. PICK o \in 0..OutputCount : Announce("SettingUpStream", o)
    BY SMTT(30), <1>1, <1>2, <1>7 DEF StartOutput
  <2> QED
    BY <1>7, <2>1, AnnounceType DEF StartOutput, EmitterType
<1>8. CASE LeaveOutputs
  <2>1. PICK p \in {"RestoringCache", "ReportingSources"} : Announce(p, 0)
    BY <1>8 DEF LeaveOutputs
  <2>2. 0 \in 0..OutputCount
    BY SMTT(30), <1>1
  <2>3. op' = op /\ aliases' = aliases /\ (result' = result \/ result' \in {"failures", "error"})
    BY <1>8 DEF LeaveOutputs
  <2> QED
    BY <2>1, <2>2, <2>3, AnnounceType DEF EmitterType
<1>9. CASE ReportSources
  <2>1. 0 \in 0..OutputCount
    BY SMTT(30), <1>1
  <2> QED
    BY <1>9, <2>1, AnnounceType DEF ReportSources, EmitterType
<1>10. CASE SampleFiles
  <2>1. PICK total \in IF sent.total = 0 THEN 0..MaxFiles ELSE {sent.total}, read \in sent.handled..MaxFiles :
          sent' = [FileProgress(read, total) EXCEPT !.rows = sent.rows]
    BY <1>10 DEF SampleFiles
  <2>2. sent.handled \in 0..MaxFiles /\ sent.total \in 0..MaxFiles /\ sent.rows \in 0..MaxRows
    BY DEF EmitterType, Counters
  <2>3. total \in 0..MaxFiles /\ read \in 0..MaxFiles
    BY SMTT(30), <1>1, <2>1, <2>2
  <2>4. Min({read, total}) \in 0..MaxFiles
    <3>1. CASE read <= total
      BY SMTT(30), <2>3, <3>1, MinOfTwo
    <3>2. CASE total <= read
      BY SMTT(30), <2>3, <3>2, MinOfTwo
    <3> QED
      BY SMTT(30), <2>3, <3>1, <3>2
  <2>5. sent' \in Counters
    BY <2>1, <2>2, <2>3, <2>4 DEF FileProgress, Counters
  <2> QED
    BY <1>10, <2>5 DEF SampleFiles, EmitterType
<1>11. CASE WriteBatch
  <2>1. sent' \in Counters
    BY SMTT(30), <1>1, <1>11 DEF WriteBatch, EmitterType, Counters
  <2> QED
    BY <1>11, <2>1 DEF WriteBatch, EmitterType
<1> QED
  BY <1>3, <1>4, <1>5, <1>6, <1>7, <1>8, <1>9, <1>10, <1>11 DEF Operate

\* What the callback does to the adapter up to the release of the mutex.
LEMMA EmitAdapter ==
  ASSUME AdapterType, NEW e, Emit(e)
  PROVE AdapterType' /\ UNCHANGED <<render, enabled, raised, delivered>>
<1>1. final' \in Terminal \cup {"none"}
  BY DEF Emit, FinalEvent, AdapterType
<1>2. waiting' \in BOOLEAN /\ recent' \in BOOLEAN
  BY DEF Emit, StillWaits
<1>3. UNCHANGED <<render, enabled, raised, delivered, status>>
  BY DEF Emit, richVars
<1> QED
  BY <1>1, <1>2, <1>3 DEF AdapterType

LEMMA OperateAdapter ==
  ASSUME Inv, AdapterType, RaisedInv, Operate PROVE AdapterType' /\ RaisedInv'
<1>1. phase # "returned" /\ phase' # "returned" /\ (Silent \/ \E e : Emit(e))
  BY OperateEmits
<1>2. AdapterType' /\ UNCHANGED <<render, enabled, raised, delivered>>
  <2>1. CASE Silent
    BY <2>1 DEF Silent, stateVars, richVars, AdapterType
  <2> QED
    BY <1>1, <2>1, EmitAdapter
<1> QED
  BY <1>1, <1>2 DEF RaisedInv

\* A call of Rich is made only while it has not raised.
LEMMA RenderType ==
  ASSUME Inv, TypeInv, Render PROVE TypeInv'
<1>1. stage # "idle" /\ phase # "returned" /\ UNCHANGED <<emitterVars, waiting, recent, final, delivered, status>>
  BY DEF Render, Flush, Create, Update, Inv, DisplayInv
<1>2. EmitterType'
  BY <1>1 DEF TypeInv, EmitterType, emitterVars
<1>3. phase' = phase
  BY <1>1 DEF emitterVars
<1>4. CASE Create
  <2>1. raised = 0 /\ raised' \in {0, 1} /\ ~enabled
    BY SMTT(30), <1>1, <1>4 DEF Create, Raises, TypeInv, RaisedInv
  <2>2. \/ render' = "done" /\ enabled' = enabled
        \/ render' = "active" /\ enabled' = TRUE /\ raised' = raised
        \/ render' = "active" /\ enabled' = FALSE
    BY <1>4 DEF Create
  <2>3. AdapterType'
    BY <1>1, <2>2 DEF TypeInv, AdapterType
  <2>4. RaisedInv'
    BY SMTT(30), <1>1, <1>3, <2>1, <2>2 DEF TypeInv, RaisedInv
  <2> QED
    BY <1>2, <2>3, <2>4 DEF TypeInv
<1>5. CASE Flush \/ Update
  <2>1. /\ render' = render
        /\ \/ UNCHANGED <<enabled, raised>>
           \/ enabled /\ enabled' = TRUE /\ raised' = raised
           \/ enabled /\ enabled' = FALSE /\ raised' \in {raised, raised + 1}
    BY <1>5 DEF Flush, Update, UpdateRich, Raises
  <2>2. AdapterType'
    BY <1>1, <2>1 DEF TypeInv, AdapterType
  <2>3. RaisedInv'
    BY SMTT(30), <1>1, <1>3, <2>1 DEF TypeInv, RaisedInv
  <2> QED
    BY <1>2, <2>2, <2>3 DEF TypeInv
<1> QED
  BY <1>4, <1>5 DEF Render

LEMMA ReturnType ==
  ASSUME Inv, TypeInv, Finish PROVE TypeInv'
<1>1. /\ phase = "ended" /\ phase' = "returned" /\ render' = "done" /\ enabled' = FALSE /\ final' = "none"
      /\ waiting' = FALSE /\ recent' = FALSE /\ status' = ActionStatus
      /\ UNCHANGED <<op, output, aliases, result, sent, before>>
  BY DEF Finish
<1>2. raised \in {0, 1} /\ interruption = raised
  BY SMTT(30), <1>1 DEF TypeInv, RaisedInv, Inv, DeliveryInv
<1>3. raised' \in 0..2 /\ delivered' \in 0..2
  BY SMTT(30), <1>2 DEF Finish, SavedInterruption
<1>4. status' \in Terminal
  BY <1>1 DEF ActionStatus, Terminal, TypeInv, AdapterType
<1> QED
  BY <1>1, <1>3, <1>4 DEF TypeInv, EmitterType, AdapterType, RaisedInv

LEMMA CallType ==
  ASSUME Inv, TypeInv, NEW o \in Operations, Call(o) PROVE TypeInv'
<1>1. /\ phase = "returned" /\ phase' = "none" /\ op' = o /\ result' = "running" /\ output' = 0
      /\ aliases' = 0 /\ sent' = NoCounters /\ before' = NoCounters
      /\ render' = "pending" /\ raised' = 0 /\ delivered' = 0 /\ status' = "none"
      /\ UNCHANGED <<enabled, final, waiting, recent>>
  BY DEF Call
<1>2. ~enabled
  BY <1>1 DEF Inv, DisplayInv, TypeInv, RaisedInv
<1>3. NoCounters \in Counters
  BY SMTT(30), ProgressAssumption DEF NoCounters, Counters
<1>4. EmitterType'
  BY SMTT(30), <1>1, <1>3, ProgressAssumption DEF EmitterType
<1> QED
  BY SMTT(30), <1>1, <1>2, <1>4 DEF TypeInv, AdapterType, RaisedInv

\* Types, for any number of outputs, aliases, files and rows; Rich raises at most once
\* during the operation and once when its display is stopped.
THEOREM ProgressTypeCorrect == Spec => []TypeOK
<1>1. Init => TypeInv
  <2>1. NoCounters \in Counters
    BY SMTT(30), ProgressAssumption DEF NoCounters, Counters
  <2>2. Init => EmitterType
    BY SMTT(30), <2>1, ProgressAssumption DEF Init, EmitterType
  <2>3. Init => AdapterType
    BY DEF Init, AdapterType, Terminal
  <2>4. Init => RaisedInv
    BY SMTT(30) DEF Init, RaisedInv
  <2> QED
    BY <2>2, <2>3, <2>4 DEF TypeInv
<1>2. Inv /\ TypeInv /\ [Next]_vars => TypeInv'
  <2> SUFFICES ASSUME Inv, TypeInv, [Next]_vars PROVE TypeInv'
    OBVIOUS
  <2>1. CASE \E o \in Operations : Call(o)
    BY <2>1, CallType
  <2>2. CASE Operate
    BY <2>2, OperateEmitter, OperateAdapter DEF TypeInv
  <2>3. CASE Render
    BY <2>3, RenderType
  <2>4. CASE Pass
    BY <2>4 DEF Pass, emitterVars, richVars, TypeInv, EmitterType, AdapterType, RaisedInv
  <2>5. CASE Finish
    BY <2>5, ReturnType
  <2>6. CASE UNCHANGED vars
    BY <2>6 DEF vars, emitterVars, stateVars, richVars, TypeInv, EmitterType, AdapterType, RaisedInv
  <2> QED
    BY <2>1, <2>2, <2>3, <2>4, <2>5, <2>6 DEF Next
<1>3. Inv /\ TypeInv => TypeOK
  <2> SUFFICES ASSUME Inv, TypeInv PROVE TypeOK
    OBVIOUS
  <2>1. visible.counters \in Counters
    <3>1. NoCounters \in Counters /\ Nothing.counters = NoCounters
      BY SMTT(30), ProgressAssumption DEF NoCounters, Counters, Nothing
    <3> QED
      BY <3>1 DEF Inv, OwnInv, TypeInv, EmitterType
  <2>2. interruption \in 0..raised
    BY SMTT(30) DEF Inv, DeliveryInv, TypeInv, RaisedInv
  <2> QED
    BY <2>1, <2>2 DEF Inv, DisplayInv, TypeInv, EmitterType, AdapterType, RaisedInv, TypeOK
<1> QED
  BY <1>1, <1>2, <1>3, ProgressInvariant, PTL DEF Spec
=============================================================================
