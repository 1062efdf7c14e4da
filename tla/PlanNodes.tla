----------------------------- MODULE PlanNodes ------------------------------
(***************************************************************************)
(* How the activity spans of a query number the operators of its physical  *)
(* plan: the recursion of instrument_query_execution_node                  *)
(* (operator_activity.rs), one step per call, early return and return.  A  *)
(* reader joins the spans with the terminal profile by these numbers.      *)
(***************************************************************************)
EXTENDS Integers, Sequences

CONSTANTS
  MaxNodes,    \* bound on the operators of a plan
  MaxChildren  \* bound on the children of an operator

ASSUME PlanAssumption == MaxNodes \in Nat \ {0} /\ MaxChildren \in Nat

VARIABLES
  plan,          \* plan[n]: the children of operator n
  frames,        \* calls in progress, the innermost last
  instrumented,  \* operators in the map of the instrumented ones
  numbered,      \* the operators in the order of their ids
  failed,        \* whether the instrumentation returned an error
  below          \* auxiliary, below[k]: what the profile would still look at
                 \* after the children of frames[k]

planVars == <<plan, frames, instrumented, numbered, failed, below>>

\* What frame f has yet to look at, the next child last.
Remaining(f) ==
  [j \in 1 .. Len(plan[f.node]) + 1 - f.next |->
     [node |-> plan[f.node][Len(plan[f.node]) + 1 - j], parent |-> f.id]]

\* The stack of the profile at this point of the recursion.
Pending ==
  IF numbered = <<>> THEN <<[node |-> 1, parent |-> 0]>>
  ELSE IF frames = <<>> THEN <<>>
  ELSE below[Len(below)] \o Remaining(frames[Len(frames)])

Profile == INSTANCE PlanProfile WITH stack <- Pending, operators <- numbered

PlanInit ==
  /\ plan \in Profile!Plans
  /\ frames = <<>> /\ below = <<>>
  /\ instrumented = {}
  /\ numbered = <<>>
  /\ failed = FALSE

\* A shared operator is instrumented again under every parent.
NeverKnown(n) == FALSE

Known(n) == n \in instrumented

Called(n, parent) ==
  /\ numbered' = Append(numbered, [node |-> n, parent |-> parent])
  /\ UNCHANGED <<plan, instrumented, failed>>

NewFrame(n) == [node |-> n, id |-> Len(numbered) + 1, next |-> 1]

\* instrument_query_execution_plan calls with the root and no parent.
InstrumentPlan ==
  /\ numbered = <<>>
  /\ Called(1, Profile!Root)
  /\ frames' = <<NewFrame(1)>>
  /\ below' = << <<>> >>

Top == frames[Len(frames)]

Child == plan[Top.node][Top.next]

Running == frames # <<>> /\ ~failed

HasChild == Top.next <= Len(plan[Top.node])

Advanced == [frames EXCEPT ![Len(frames)].next = @ + 1]

\* A child that is in the map is returned from there.
InstrumentKnown ==
  /\ Running /\ HasChild /\ Known(Child)
  /\ frames' = Advanced
  /\ UNCHANGED <<plan, instrumented, numbered, failed, below>>

InstrumentNode ==
  /\ Running /\ HasChild /\ ~Known(Child)
  /\ Called(Child, Top.id)
  /\ frames' = Append(Advanced, NewFrame(Child))
  /\ below' = Append(below, below[Len(below)] \o Remaining([Top EXCEPT !.next = @ + 1]))

\* All children are done: the operator is put into the map.
InstrumentReturns ==
  /\ Running /\ ~HasChild
  /\ instrumented' = instrumented \cup {Top.node}
  /\ frames' = Profile!WithoutTop(frames)
  /\ below' = Profile!WithoutTop(below)
  /\ UNCHANGED <<plan, numbered, failed>>

\* with_new_children refuses the instrumented children: every call returns the error.
InstrumentFails ==
  /\ Running /\ ~HasChild
  /\ failed' = TRUE
  /\ UNCHANGED <<plan, frames, instrumented, numbered, below>>

PlanNext ==
  InstrumentPlan \/ InstrumentKnown \/ InstrumentNode \/ InstrumentReturns \/ InstrumentFails

PlanSpec == PlanInit /\ [][PlanNext]_planVars
-----------------------------------------------------------------------------
\* The spans number the operators as the terminal profile does and give each the
\* same parent, also where operators are shared: what the recursion hands out, one
\* id after the other, is what the loop of the profile collects.
NumberedAsProfiled == Profile!Spec
=============================================================================
