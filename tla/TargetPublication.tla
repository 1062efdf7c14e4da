------------------------- MODULE TargetPublication --------------------------
(***************************************************************************)
(* What the replace load mode promises, without saying how: each run       *)
(* either publishes its whole output under the target name in one atomic   *)
(* step or leaves the target alone, and its verdict tells the caller which *)
(* of the two happened, or that it does not know.                          *)
(***************************************************************************)
CONSTANTS
  Runs,     \* replace runs
  Tables,   \* their targets
  Pre,      \* holder of a target that existed before the runs
  NoTable   \* holder of a target that does not exist

VARIABLES
  target,   \* the table each run replaces
  holder,   \* whose output each target holds
  verdict   \* what each run told its caller

pubVars == <<target, holder, verdict>>

Verdicts == {"pending", "ok", "unchanged", "unknown", "crashed"}

Init ==
  /\ target \in [Runs -> Tables]
  /\ holder \in [Tables -> {Pre, NoTable}]
  /\ verdict = [r \in Runs |-> "pending"]

\* Some caller was told that nobody knows what its run did.
Doubt == \E r \in Runs : verdict[r] = "unknown"

\* The output appears under the target name; a run whose output appeared can say
\* "ok" or not know, and never that the target is unchanged.  After a doubt it may
\* be the output of another run.
Publish(r) ==
  /\ verdict[r] = "pending"
  /\ \E s \in Runs : (s = r \/ Doubt) /\ holder' = [holder EXCEPT ![target[r]] = s]
  /\ \E v \in {"ok", "unknown", "crashed"} : verdict' = [verdict EXCEPT ![r] = v]
  /\ UNCHANGED target

\* A run ends without touching its target, and cannot claim success.
Decline(r) ==
  /\ verdict[r] = "pending"
  /\ \E v \in {"unchanged", "unknown", "crashed"} : verdict' = [verdict EXCEPT ![r] = v]
  /\ UNCHANGED <<target, holder>>

Next == \E r \in Runs : Publish(r) \/ Decline(r)

Spec == Init /\ [][Next]_pubVars
=============================================================================
