-------------------------- MODULE MCWriteAllCache ---------------------------
(***************************************************************************)
(* Two calls of one session on two aliases, b derived from a.              *)
(***************************************************************************)
EXTENDS WriteAllCache, TLC

CONSTANTS c1, c2, a, b

\* The first call caches both aliases, the second caches b and has one output.
TwoRequests ==
  (c1 :> [aliases |-> <<a, b>>, outputs |-> <<{a}, {b}, {}>>]) @@
  (c2 :> [aliases |-> <<b>>, outputs |-> <<{a, b}>>])

\* Two calls that cache the same alias.
SameAlias ==
  [c \in {c1, c2} |-> [aliases |-> <<a>>, outputs |-> <<{a}, {a}>>]]
=============================================================================
