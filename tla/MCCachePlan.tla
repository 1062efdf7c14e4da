---------------------------- MODULE MCCachePlan -----------------------------
EXTENDS CachePlan, TLC

\* Up to two relations, or none, every lossy form of a reference once, a lost lineage.
AllStatements ==
  LET Reads(R) == [relations |-> R, ctes |-> {}, qualified |-> {}, complete |-> TRUE]
  IN  {Reads(R) : R \in {S \in SUBSET Names : Cardinality(S) <= 2}}
      \cup {[Reads({n}) EXCEPT !.ctes = {n}] : n \in Names}
      \cup {[Reads({}) EXCEPT !.qualified = {n}] : n \in Names}
      \cup {[Reads({n}) EXCEPT !.complete = FALSE] : n \in Names}

NameSymmetry == Permutations(Names)
=============================================================================
