---------------------------- MODULE PlanProfile -----------------------------
(***************************************************************************)
(* How the terminal profile of a query numbers the operators of its        *)
(* physical plan: the loop of collect_query_execution_profile              *)
(* (execution_profile.rs).  A plan is a graph without cycles: an operator  *)
(* may be the child of several, or twice of one.                           *)
(***************************************************************************)
EXTENDS Integers, Sequences

CONSTANTS
  MaxNodes,    \* bound on the operators of a plan
  MaxChildren  \* bound on the children of an operator

\* Operators are numbered so that children come later; 1 is the root.
Nodes == 1 .. MaxNodes

Plans ==
  {p \in [Nodes -> UNION {[1 .. k -> Nodes] : k \in 0 .. MaxChildren}] :
     \A n \in Nodes : \A i \in DOMAIN p[n] : p[n][i] > n}

VARIABLES
  plan,      \* plan[n]: the children of operator n
  stack,     \* operators still to be looked at, the next one last
  operators  \* the operators of the profile, in the order of their ids

\* An id is the position in the list of operators, less one; Root: no parent.
Root == 0

Collected == {operators[k].node : k \in DOMAIN operators}

WithoutTop(s) == SubSeq(s, 1, Len(s) - 1)

\* The first child is popped first.
ChildrenReversed(n, id) ==
  [j \in 1 .. Len(plan[n]) |-> [node |-> plan[n][Len(plan[n]) + 1 - j], parent |-> id]]

Init ==
  /\ plan \in Plans
  /\ stack = <<[node |-> 1, parent |-> Root]>>
  /\ operators = <<>>

\* The operator was met before.
Skip ==
  /\ stack # <<>> /\ stack[Len(stack)].node \in Collected
  /\ stack' = WithoutTop(stack)
  /\ UNCHANGED <<plan, operators>>

Collect ==
  /\ stack # <<>> /\ stack[Len(stack)].node \notin Collected
  /\ operators' = Append(operators, stack[Len(stack)])
  /\ stack' = WithoutTop(stack) \o ChildrenReversed(stack[Len(stack)].node, Len(operators'))
  /\ UNCHANGED plan

Next == Skip \/ Collect

vars == <<plan, stack, operators>>

Spec == Init /\ [][Next]_vars
=============================================================================
