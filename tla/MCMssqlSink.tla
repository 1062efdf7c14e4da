---------------------------- MODULE MCMssqlSink -----------------------------
(* Small instances of MssqlSink for TLC. *)
EXTENDS MssqlSink, TLC

CONSTANTS r1, r2, r3, t1, t2, b1

\* Both targets are cut to the same base name.
MCAuxBase == [n \in Tables \X Kinds \X Attempts |-> b1]

\* No table at all; a target; a target whose first auxiliary names were left
\* behind by an earlier run; all names of one kind left behind.
MCInitialNames ==
  {{}, {t1}, {t1, StagingName(t1, 0), BackupName(t1, 0)},
   {t1} \cup {StagingName(t1, a) : a \in Attempts},
   {t1} \cup {BackupName(t1, a) : a \in Attempts}}

SwapInitialNames == {{}, {t1, StagingName(t1, 0), BackupName(t1, 0)}}

FewInitialNames == {{}, {t1}}

ReplacePlans == {[mode |-> "replace", target |-> t, validation |-> "if_possible"] :
                    t \in Tables}

ReplaceAndAppendPlans ==
  ReplacePlans \cup {[mode |-> "append", target |-> t1, validation |-> "if_possible"]}

MixedPlans == {[mode |-> m, target |-> t1, validation |-> v] :
                    m \in LoadModes, v \in TargetValidationModes}

AppendPlans == {[mode |-> "append", target |-> t1, validation |-> v] :
                    v \in TargetValidationModes}

Symmetry == Permutations(Runs)
=============================================================================
