----------------------------- MODULE CachePlan ------------------------------
(***************************************************************************)
(* Which registered aliases write_all caches for a list of outputs, in the *)
(* automatic and in the explicit mode, and what an output then executes.   *)
(* Models write_all/cache_plan.rs, the replanning of write_all/            *)
(* cached_stream.rs and the source usage of source_report.rs.              *)
(***************************************************************************)
EXTENDS SessionRegistry, Functions

CONSTANT MaxOutputs  \* bound on the outputs of a request

ASSUME MaxOutputsAssumption == MaxOutputs \in Nat

\* The order of the outputs of a request does not matter for its plan; two outputs
\* of one table are asked for in requests of two.
Requests ==
  {<<t, t>> : t \in Tables} \cup
  UNION {{r \in [1 .. n -> Tables] : \A i \in 2 .. n : r[i - 1] < r[i]} : n \in 0 .. MaxOutputs}
-----------------------------------------------------------------------------
(* Candidates. *)

\* CacheOutputUsesRegisteredDerived of a table and a candidate.
Uses(t, c) == t = c \/ (tables[t].kind = "derived" /\ c \in TransitiveDerived(t))

OutputIndexes(req, c) == {i \in DOMAIN req : Uses(req[i], c)}

SharedCandidates(req) ==
  {c \in Registered : tables[c].complete /\ Cardinality(OutputIndexes(req, c)) >= 2}
-----------------------------------------------------------------------------
(* The automatic mode. *)

DeeperThan(c, d) == c # d /\ Uses(c, d)

\* Every shared alias, also the upstream ones.
WholeSet(shared) == shared

Frontier(shared) == {c \in shared : ~\E d \in shared : DeeperThan(d, c)}

Covered(shared, frontier) ==
  {c \in shared \ frontier : \E s \in frontier : DeeperThan(s, c)}

Ambiguous(shared, frontier) ==
  \/ frontier = {}
  \/ Cardinality(frontier) + Cardinality(Covered(shared, frontier)) # Cardinality(shared)

\* The aliases to cache; none for fewer than two outputs or an ambiguous frontier.
PlanAuto(req) ==
  LET shared == SharedCandidates(req)
      frontier == Frontier(shared)
  IN  IF Len(req) < 2 \/ Ambiguous(shared, frontier) THEN {} ELSE frontier
-----------------------------------------------------------------------------
(* The explicit mode. *)

\* An unselected direct dependency of t hides a selected alias.
HidesSelected(t, selected) ==
  \E d \in DirectDerived(t) \ selected : TransitiveDerived(d) \cap selected # {}

\* The statements of the caches themselves are not checked.
OutputsReplayClosed(req, selected) ==
  \A i \in DOMAIN req : (tables[req[i]].kind = "derived" /\ req[i] \notin selected) =>
                           ~HidesSelected(req[i], selected)

ReplayClosed(req, selected) ==
  /\ \A c \in selected : ~HidesSelected(c, selected)
  /\ \A i \in DOMAIN req : (tables[req[i]].kind = "derived" /\ req[i] \notin selected) =>
                             ~HidesSelected(req[i], selected)

ExplicitAccepted(req, shared, requested) ==
  /\ requested # {} /\ requested \subseteq shared
  /\ ReplayClosed(req, requested)

\* Selected aliases are materialized in the order of their registration.
CachedBefore(c, selected) ==
  {d \in selected : \E i, j \in DOMAIN derived : i < j /\ derived[i] = d /\ derived[j] = c}
-----------------------------------------------------------------------------
(* Execution with the selected aliases cached. *)

\* Outputs keep the plan they were defined with.
NeverReplan(t, selected) == FALSE

\* An output that is no selected alias itself and depends on one is planned again.
RequiresReplan(t, selected) ==
  /\ t \notin selected /\ tables[t].kind = "derived"
  /\ TransitiveDerived(t) \cap selected # {}

\* The tables whose own plan runs when the view of t runs.
BoundReads(t) == Reached({t}, [d \in Tables |-> tables[d].reads], Len(tables))

\* A replanned statement finds the caches under the names it reads itself; a view
\* it reads stays bound to the providers of the time it was planned.
Executed(t, selected) ==
  IF t \in selected THEN {}
  ELSE IF RequiresReplan(t, selected)
       THEN {t} \cup UNION {BoundReads(d) : d \in tables[t].reads \ selected}
       ELSE BoundReads(t)

\* Materializing a selected alias plans its statement again, too.
Materialized(c, selected) ==
  {c} \cup UNION {BoundReads(d) : d \in tables[c].reads \ selected}

\* Lineage names every session table that is read, here and upstream.
FaithfulLineage(t) == \A d \in BoundReads(t) : tables[d].complete /\ tables[d].deps = tables[d].reads

\* As above, but some lineage may not have been captured.
CapturedNamesAll(t) ==
  \A d \in BoundReads(t) : tables[d].complete => tables[d].deps = tables[d].reads

FaithfulTables == {t \in Tables : FaithfulLineage(t)}
-----------------------------------------------------------------------------
(* Source usage in the reports. *)

UsedBy(req, s) == {i \in DOMAIN req : UsageKnown(req[i]) /\ s \in SourceDependencies(req[i])}

UsageStatus(req, s) ==
  IF UsedBy(req, s) # {} THEN "used"
  ELSE IF \A i \in DOMAIN req : UsageKnown(req[i]) THEN "not_used" ELSE "unknown"
-----------------------------------------------------------------------------
\* The frontier of shared aliases is never ambiguous: no alias on it is upstream of
\* another one, and every shared alias is on it or upstream of an alias on it.
FrontierCovers ==
  \A req \in Requests :
    LET shared == SharedCandidates(req)
        frontier == Frontier(shared)
    IN  /\ shared # {} => ~Ambiguous(shared, frontier)
        /\ \A c, d \in frontier : ~DeeperThan(c, d)
        /\ \A c \in shared : \E s \in frontier : Uses(s, c)

\* In the explicit mode a selected alias runs once, for its cache: no output and no
\* other cache that counts on it runs its plan again, through any view.  An alias is
\* materialized while only the caches before it in the order of registration are there.
ExplicitRunsOnce ==
  LET faithful == FaithfulTables IN
  \A req \in Requests : LET shared == SharedCandidates(req) IN \A sel \in SUBSET shared :
    ExplicitAccepted(req, shared, sel) =>
      /\ \A t \in Range(req) \cap faithful : Executed(t, sel) \cap sel = {}
      /\ \A c \in sel \cap faithful : Materialized(c, CachedBefore(c, sel)) \cap sel = {c}

\* Where lineage is faithful the usage of the sources is what the plans read.  And a
\* lineage that could not be captured, of the output or of a view at any depth below
\* it, never turns a source that is read into one that is "not used": only a
\* statement whose captured lineage leaves a table out can do that.
UsageExact ==
  LET faithful == FaithfulTables
      namesAll == {t \in Tables : CapturedNamesAll(t)}
      readers == [s \in sources |-> {t \in Tables : s \in BoundReads(t)}]
  IN  \A req \in Requests : \A s \in sources : LET status == UsageStatus(req, s) IN
        /\ Range(req) \subseteq faithful =>
             status = IF Range(req) \cap readers[s] # {} THEN "used" ELSE "not_used"
        /\ status = "not_used" => Range(req) \cap readers[s] \cap namesAll = {}

\* "Source usage is known and the source was not used by selected outputs."
NotUsedMeansUnread ==
  \A req \in Requests : \A s \in sources : UsageStatus(req, s) = "not_used" =>
    \A i \in DOMAIN req : s \notin BoundReads(req[i])

\* In the automatic mode an output runs no selected alias again either, unless a
\* registered alias that was not selected lies between the two; selected aliases do
\* not read one another.
AutoRunsOnceUnlessHidden ==
  LET faithful == FaithfulTables IN
  \A req \in Requests : LET sel == PlanAuto(req) IN sel # {} =>
    /\ \A t \in Range(req) \cap faithful :
         ~HidesSelected(t, sel) => Executed(t, sel) \cap sel = {}
    /\ \A c \in sel \cap faithful : BoundReads(c) \cap sel = {c}
=============================================================================
