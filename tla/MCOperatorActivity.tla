------------------------- MODULE MCOperatorActivity --------------------------
EXTENDS OperatorActivity, PlanNodes, TLC

ThreadSymmetry == Permutations(Workers) \cup Permutations(Tasks)

\* The ids do not depend on the execution, which is followed for one of the plans.
Executed == [n \in 1 .. MaxNodes |-> IF n < MaxNodes THEN <<n + 1>> ELSE <<>>]

MCInit == Init /\ PlanInit

MCNext ==
  \/ PlanNext /\ UNCHANGED vars
  \/ plan = Executed /\ 1 \in instrumented /\ Next /\ UNCHANGED planVars

MCSpec == MCInit /\ [][MCNext]_<<vars, planVars>>
=============================================================================
