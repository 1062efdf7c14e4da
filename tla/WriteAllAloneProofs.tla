------------------------ MODULE WriteAllAloneProofs -------------------------
(***************************************************************************)
(* A write_all call that runs alone on its session, for any aliases and    *)
(* cache plan: what it writes is read from the caches it installed, and    *)
(* when it returns every alias is what it was before, or its report says   *)
(* that the alias failed.                                                  *)
(***************************************************************************)
EXTENDS WriteAllCacheProofs

\* Most steps need no arithmetic; a step that does names the SMT solver.
USE ZenonT(60)


\* A call that runs alone: every alias is what it was before, or the call holds its
\* old provider, or it has reported that the alias failed.
HeldInv(c) ==
  Active(c) /\ Alone(c) =>
    /\ \A d \in Calls \ {c} : ~Active(d)
    /\ before[c] \in [Aliases -> Providers \cup {NoProvider}]
    /\ \A i \in DOMAIN replaced[c] : replaced[c][i].original = before[c][replaced[c][i].alias]
    /\ pc[c] \in {"register", "reinstate"} => taken[c] = before[c][CurrentAlias(c)]
    /\ \A a \in Aliases :
         \/ catalog[a] = before[c][a]
         \/ \E i \in DOMAIN replaced[c] : replaced[c][i].alias = a
         \/ pc[c] \in {"register", "reinstate"} /\ CurrentAlias(c) = a
         \/ \E r \in ReportOf(c, a) : r.status = "failed"
    /\ pc[c] \in Early =>
         \A i \in DOMAIN replaced[c] : catalog[replaced[c][i].alias] = c

\* What CacheUsed says of one call.
ReadInv(c) ==
  Alone(c) => \A k \in DOMAIN outputs[c] :
    \A a \in DOMAIN outputs[c][k].read \cap AliasesOf(c) : outputs[c][k].read[a] = c

AloneInv == \A c \in Calls : HeldInv(c) /\ ReadInv(c)

LEMMA ElementAt ==
  ASSUME NEW S, NEW s \in Seq(S), NEW i \in DOMAIN s
  PROVE  s[i] \in S
BY SMTT(30)

\* A report is added to those of its alias, and the others stay.
LEMMA ReportAdded ==
  ASSUME RecordType, NEW c \in Calls, NEW a \in Aliases, NEW s \in {"failed", "restored"},
         NEW p \in {"materialize", "install", "restore"}, Report(c, a, s, p)
  PROVE  /\ \A b : ReportOf(c, b) \subseteq ReportOf(c, b)'
         /\ \E r \in ReportOf(c, a)' : r.status = s
<1> DEFINE r == [alias |-> a, status |-> s, phase |-> p]
<1>1. r \in ReportType /\ reports[c] \in Seq(ReportType) /\ reports'[c] = <<r>> \o reports[c]
  BY DEF ReportType, RecordType, Report
<1>2. /\ DOMAIN reports'[c] = 1 .. Len(reports[c]) + 1 /\ DOMAIN reports[c] = 1 .. Len(reports[c])
      /\ Len(reports[c]) \in Nat /\ reports'[c][1] = r
      /\ \A i \in 1 .. Len(reports[c]) : reports'[c][i + 1] = reports[c][i]
  BY SMTT(30), <1>1, ConsAt
<1>3. \A i \in DOMAIN reports[c] : i + 1 \in DOMAIN reports'[c] /\ reports'[c][i + 1] = reports[c][i]
  BY SMTT(30), <1>2
<1>4. \A b : ReportOf(c, b) \subseteq ReportOf(c, b)'
  <2> SUFFICES ASSUME NEW b, NEW i \in DOMAIN reports[c], reports[c][i].alias = b
               PROVE  reports[c][i] \in ReportOf(c, b)'
    BY DEF ReportOf
  <2> QED BY <1>3 DEF ReportOf
<1>5. 1 \in DOMAIN reports'[c] /\ r.alias = a /\ r.status = s
  BY SMTT(30), <1>2
<1>6. r \in ReportOf(c, a)'
  BY <1>2, <1>5 DEF ReportOf
<1> QED BY <1>4, <1>5, <1>6

\* A step of c that leaves the catalog and the replacements alone, and opens or closes
\* no window.
LEMMA HeldQuiet ==
  ASSUME NEW c \in Calls, HeldInv(c), Active(c), UNCHANGED <<catalog, taken, next, replaced, before>>,
         \A d \in Calls \ {c} : pc'[d] = pc[d],
         \A a : ReportOf(c, a) \subseteq ReportOf(c, a)',
         pc'[c] \in {"register", "reinstate"} <=> pc[c] \in {"register", "reinstate"},
         pc'[c] \in Early => pc[c] \in Early
  PROVE  HeldInv(c)'
<1> SUFFICES ASSUME Alone(c)'
             PROVE  HeldInv(c)'
  BY DEF HeldInv
<1>1. Alone(c)
  BY DEF Alone
<1>2. \A d \in Calls \ {c} : ~Active(d)'
  BY <1>1 DEF HeldInv, Active
<1>3. pc[c] \in {"register", "reinstate"} => CurrentAlias(c)' = CurrentAlias(c)
  BY DEF CurrentAlias, Cached
<1>4. ASSUME NEW a \in Aliases
      PROVE  \/ catalog'[a] = before'[c][a]
             \/ \E i \in DOMAIN replaced'[c] : replaced'[c][i].alias = a
             \/ pc'[c] \in {"register", "reinstate"} /\ CurrentAlias(c)' = a
             \/ \E r \in ReportOf(c, a)' : r.status = "failed"
  <2>1. \/ catalog[a] = before[c][a]
        \/ \E i \in DOMAIN replaced[c] : replaced[c][i].alias = a
        \/ pc[c] \in {"register", "reinstate"} /\ CurrentAlias(c) = a
        \/ \E r \in ReportOf(c, a) : r.status = "failed"
    BY <1>1 DEF HeldInv
  <2> QED BY <1>3, <2>1
<1>5. /\ before'[c] \in [Aliases -> Providers \cup {NoProvider}]
      /\ \A i \in DOMAIN replaced'[c] : replaced'[c][i].original = before'[c][replaced'[c][i].alias]
      /\ pc'[c] \in {"register", "reinstate"} => taken'[c] = before'[c][CurrentAlias(c)']
      /\ pc'[c] \in Early => \A i \in DOMAIN replaced'[c] : catalog'[replaced'[c][i].alias] = c
  BY <1>1, <1>3 DEF HeldInv
<1> QED BY <1>2, <1>4, <1>5 DEF HeldInv

\* The aliases a call has replaced are not the one it is replacing.
LEMMA CurrentNotReplaced ==
  ASSUME WriteAllInv, RecordType, NEW c \in Calls, ReplacedInv(c), pc[c] \in Replacing
  PROVE  \A i \in DOMAIN replaced[c] : replaced[c][i].alias # CurrentAlias(c)
<1>1. /\ Len(Cached(c)) \in Nat /\ DOMAIN replaced[c] = 1 .. Len(replaced[c])
      /\ Len(replaced[c]) \in Nat /\ next[c] \in 1 .. Len(Cached(c))
      /\ Len(replaced[c]) = next[c] - 1
  BY Lengths DEF WriteAllInv, PositionInv, ReplacedInv, Early
<1>2. Cached(c) \in Seq(Aliases) /\ \A i, j \in DOMAIN Cached(c) : Cached(c)[i] = Cached(c)[j] => i = j
  BY WriteAllAssumption DEF Cached
<1>3. CurrentAlias(c) = Cached(c)[next[c]]
  BY DEF CurrentAlias, Replacing
<1>4. ASSUME NEW i \in DOMAIN replaced[c]
      PROVE  replaced[c][i].alias # CurrentAlias(c)
  <2>1. i \in DOMAIN Cached(c) /\ next[c] \in DOMAIN Cached(c) /\ i # next[c]
    BY SMTT(30), <1>1, <1>2
  <2>2. replaced[c][i].alias = Cached(c)[i]
    BY DEF ReplacedInv
  <2> QED BY <1>2, <1>3, <2>1, <2>2
<1> QED BY <1>4

\* A call that runs alone goes on holding what it took out.
LEMMA HeldOwnStep ==
  ASSUME WriteAllInv, RecordInv, NEW c \in Calls, HeldInv(c), Active(c), Alone(c),
         Step(c) \/ Cancel(c)
  PROVE  HeldInv(c)'
<1>t. TypeOK /\ PositionInv /\ RecordType /\ ReplacedInv(c) /\ ReportsInv(c)
  BY DEF WriteAllInv, RecordInv
<1>p. /\ pc \in [Calls -> Labels] /\ catalog \in [Aliases -> Providers \cup {NoProvider}]
      /\ taken \in [Calls -> Providers \cup {NoProvider}] /\ next \in [Calls -> Nat]
      /\ replaced \in [Calls -> Seq([alias : Aliases, original : Providers])]
  BY <1>t DEF TypeOK
<1>h. /\ \A d \in Calls \ {c} : ~Active(d)
      /\ before[c] \in [Aliases -> Providers \cup {NoProvider}]
      /\ \A i \in DOMAIN replaced[c] : replaced[c][i].original = before[c][replaced[c][i].alias]
      /\ pc[c] \in {"register", "reinstate"} => taken[c] = before[c][CurrentAlias(c)]
      /\ \A a \in Aliases :
           \/ catalog[a] = before[c][a]
           \/ \E i \in DOMAIN replaced[c] : replaced[c][i].alias = a
           \/ pc[c] \in {"register", "reinstate"} /\ CurrentAlias(c) = a
           \/ \E r \in ReportOf(c, a) : r.status = "failed"
      /\ pc[c] \in Early => \A i \in DOMAIN replaced[c] : catalog[replaced[c][i].alias] = c
  BY DEF HeldInv
<1>a. (pc[c] \in Replacing \/ MoreToRestore(c) \/ pc[c] = "restore_register") =>
        CurrentAlias(c) \in Aliases
  BY <1>t, CurrentAliasType DEF MoreToRestore, PositionInv
<1>o. reports' = reports => \A a : ReportOf(c, a) \subseteq ReportOf(c, a)'
  BY DEF ReportOf
<1>0. ~Start(c)
  BY DEF Start, Active
<1>1. CASE Plan(c) \/ PlanFails(c) \/ LookupFails(c) \/ Attempt(c) \/ Materialize(c)
           \/ BuildJobs(c) \/ WorkflowFails(c) \/ WriteOutput(c) \/ SkipOutput(c) \/ EndOutputs(c)
           \/ EndRestore(c) \/ EndRestoreFailed(c) \/ ReportSources(c) \/ Cancel(c) \/ RegisterFails(c)
  <2>1. UNCHANGED <<catalog, taken, next, replaced, before, reports>>
    BY <1>1 DEF Plan, PlanFails, LookupFails, Attempt, Materialize, BuildJobs, WorkflowFails,
      WriteOutput, SkipOutput, EndOutputs, EndRestore, EndRestoreFailed, ReportSources, Cancel,
      RegisterFails
  <2>2. CASE WriteOutput(c) \/ SkipOutput(c)
    <3>1. pc' = pc
      BY <2>2 DEF WriteOutput, SkipOutput
    <3> QED BY <1>o, <2>1, <3>1, HeldQuiet
  <2>3. CASE PlanFails(c) \/ EndRestoreFailed(c) \/ ReportSources(c) \/ Cancel(c)
    <3>1. pc'[c] \in {"done", "cancelled"}
      BY <1>p, <2>3 DEF PlanFails, EndRestoreFailed, ReportSources, Conclude, Cancel, Goto
    <3> QED BY <3>1 DEF HeldInv, Active
  <2>4. CASE Plan(c) \/ LookupFails(c) \/ Attempt(c) \/ Materialize(c) \/ BuildJobs(c)
             \/ WorkflowFails(c) \/ EndOutputs(c) \/ EndRestore(c) \/ RegisterFails(c)
    <3>1. /\ \A d \in Calls \ {c} : pc'[d] = pc[d]
          /\ pc'[c] \in {"register", "reinstate"} <=> pc[c] \in {"register", "reinstate"}
          /\ pc'[c] \in Early => pc[c] \in Early
      BY <1>p, <2>4 DEF Plan, LookupFails, Attempt, Materialize, BuildJobs, WorkflowFails,
         EndOutputs, EndRestore, RegisterFails, BeginRestore, Goto, Early, Replacing
    <3> QED BY <1>o, <2>1, <3>1, HeldQuiet
  <2> QED BY <1>1, <2>2, <2>3, <2>4
<1>2. CASE MaterializeFails(c) \/ DeregisterFails(c)
  <2>1. /\ UNCHANGED <<catalog, taken, next, replaced, before>> /\ pc' = [pc EXCEPT ![c] = "restore"]
        /\ pc[c] \in {"materialize", "deregister"}
        /\ \E p \in {"materialize", "install"} : Report(c, CurrentAlias(c), "failed", p)
    BY <1>2 DEF MaterializeFails, DeregisterFails, BeginRestore, Goto
  <2>2. CurrentAlias(c) \in Aliases
    BY <1>a, <2>1 DEF Replacing
  <2>3. \A a : ReportOf(c, a) \subseteq ReportOf(c, a)'
    BY <1>t, <2>1, <2>2, ReportAdded
  <2>4. /\ \A d \in Calls \ {c} : pc'[d] = pc[d]
        /\ pc'[c] = "restore"
    BY <1>p, <2>1
  <2> QED BY <2>1, <2>3, <2>4, HeldQuiet DEF Early, Replacing
<1>3. CASE Deregister(c)
  <2> DEFINE a == CurrentAlias(c)
  <2>1. /\ pc[c] = "deregister" /\ UNCHANGED <<next, replaced, before, reports>>
        /\ taken' = [taken EXCEPT ![c] = catalog[a]]
        /\ catalog' = [catalog EXCEPT ![a] = NoProvider]
        /\ pc' = [pc EXCEPT ![c] = "register"]
    BY <1>3 DEF Deregister, Goto
  <2>2. a \in Aliases /\ pc[c] \in Early
    BY <1>a, <2>1 DEF Early, Replacing
  <2>3. \A i \in DOMAIN replaced[c] : replaced[c][i].alias # a
    BY <1>t, <2>1, CurrentNotReplaced DEF Replacing
  <2>4. \A b \in Aliases : ReportOf(c, b) = {}
    <3>1. reports[c] = <<>>
      BY <1>t, <2>2 DEF ReportsInv
    <3> QED BY SMTT(30), <3>1 DEF ReportOf
  <2>5. catalog[a] = before[c][a]
    BY <1>h, <2>1, <2>2, <2>3, <2>4
  <2>6. /\ pc'[c] = "register" /\ \A d \in Calls \ {c} : pc'[d] = pc[d]
        /\ taken'[c] = before[c][a] /\ CurrentAlias(c)' = a
    BY <1>p, <2>1, <2>5 DEF CurrentAlias
  <2>7. catalog'[a] = NoProvider /\ \A b \in Aliases : b # a => catalog'[b] = catalog[b]
    BY <1>p, <2>1, <2>2
  <2>8. \A d \in Calls \ {c} : ~Active(d)'
    BY <1>h, <2>6 DEF Active
  <2>9. ASSUME NEW b \in Aliases
        PROVE  \/ catalog'[b] = before'[c][b]
               \/ \E i \in DOMAIN replaced'[c] : replaced'[c][i].alias = b
               \/ pc'[c] \in {"register", "reinstate"} /\ CurrentAlias(c)' = b
    BY <1>h, <2>1, <2>4, <2>6, <2>7
  <2>10. \A i \in DOMAIN replaced'[c] : catalog'[replaced'[c][i].alias] = c
    <3>1. ASSUME NEW i \in DOMAIN replaced[c] PROVE catalog'[replaced[c][i].alias] = c
      <4>0. replaced[c] \in Seq([alias : Aliases, original : Providers])
        BY <1>p
      <4>1. replaced[c][i] \in [alias : Aliases, original : Providers]
        BY <4>0, ElementAt
      <4>2. replaced[c][i].alias \in Aliases
        BY <4>1
      <4> QED BY <1>h, <2>2, <2>3, <2>7, <4>2
    <3> QED BY <2>1, <3>1
  <2> QED BY <1>h, <2>1, <2>6, <2>8, <2>9, <2>10 DEF HeldInv
<1>4. CASE Register(c)
  <2> DEFINE a == CurrentAlias(c)
             r == [alias |-> a, original |-> taken[c]]
             n == Len(replaced[c])
  <2>1. /\ pc[c] = "register" /\ UNCHANGED <<taken, before, reports>>
        /\ catalog' = [catalog EXCEPT ![a] = c]
        /\ replaced' = [replaced EXCEPT ![c] = Append(replaced[c], r)]
        /\ pc' = [pc EXCEPT ![c] = IF next[c] = Len(Cached(c)) THEN "build" ELSE "lookup"]
    BY <1>4 DEF Register, Goto
  <2>2. a \in Aliases /\ pc[c] \in Early /\ taken[c] = before[c][a]
    BY <1>a, <1>h, <2>1 DEF Early, Replacing
  <2>3. \A i \in DOMAIN replaced[c] : replaced[c][i].alias # a
    BY <1>t, <2>1, CurrentNotReplaced DEF Replacing
  <2>4. /\ DOMAIN replaced[c] = 1 .. n /\ DOMAIN replaced'[c] = 1 .. n + 1 /\ n \in Nat
        /\ \A i \in 1 .. n : replaced'[c][i] = replaced[c][i]
        /\ replaced'[c][n + 1] = r
    <3>1. replaced[c] \in Seq([alias : Aliases, original : Providers]) /\ replaced'[c] = Append(replaced[c], r)
      BY <1>p, <2>1
    <3> QED BY SMTT(30), <3>1, AppendAt
  <2>5. /\ \A d \in Calls \ {c} : pc'[d] = pc[d]
        /\ pc'[c] \in {"build", "lookup"}
    BY <1>p, <2>1
  <2>6. \A d \in Calls \ {c} : ~Active(d)'
    BY <1>h, <2>5 DEF Active
  <2>7. catalog'[a] = c /\ \A b \in Aliases : b # a => catalog'[b] = catalog[b]
    BY <1>p, <2>1, <2>2
  <2>8. \A i \in 1 .. n + 1 : i \in 1 .. n \/ i = n + 1
    BY SMTT(30), <2>4
  <2>9. ASSUME NEW i \in 1 .. n + 1
        PROVE  /\ replaced'[c][i].original = before'[c][replaced'[c][i].alias]
               /\ catalog'[replaced'[c][i].alias] = c
    <3>1. CASE i \in 1 .. n
      <4>0. replaced[c] \in Seq([alias : Aliases, original : Providers])
        BY <1>p
      <4>1. replaced[c][i] \in [alias : Aliases, original : Providers]
        BY <2>4, <3>1, <4>0, ElementAt
      <4>2. replaced[c][i].alias \in Aliases /\ replaced[c][i].alias # a
        BY <2>3, <2>4, <3>1, <4>1
      <4> QED BY SMTT(30), <1>h, <2>1, <2>2, <2>4, <2>7, <3>1, <4>2
    <3>2. CASE i = n + 1
      BY SMTT(30), <2>1, <2>2, <2>4, <2>7, <3>2
    <3> QED BY <2>8, <3>1, <3>2
  <2>10. ASSUME NEW b \in Aliases
         PROVE  \/ catalog'[b] = before'[c][b]
                \/ \E i \in DOMAIN replaced'[c] : replaced'[c][i].alias = b
                \/ \E q \in ReportOf(c, b)' : q.status = "failed"
    <3>1. CASE b = a
      <4>1. n + 1 \in DOMAIN replaced'[c] /\ replaced'[c][n + 1].alias = a
        BY SMTT(30), <2>4
      <4> QED BY <3>1, <4>1
    <3>2. CASE b # a
      <4>1. \A i \in DOMAIN replaced[c] : i \in DOMAIN replaced'[c] /\ replaced'[c][i] = replaced[c][i]
        BY SMTT(30), <2>4
      <4> QED BY SMTT(30), <1>h, <1>o, <2>1, <2>7, <3>2, <4>1
    <3> QED BY <3>1, <3>2
  <2> QED BY <1>h, <2>1, <2>4, <2>5, <2>6, <2>9, <2>10 DEF HeldInv
<1>5. CASE Reinstate(c)
  <2>0. PICK a \in Aliases : a = CurrentAlias(c)
    BY <1>a, <1>5 DEF Reinstate, Replacing
  <2>1. /\ pc[c] = "reinstate" /\ UNCHANGED <<next, taken, replaced, before>>
        /\ catalog' = [catalog EXCEPT ![a] = taken[c]] \/ catalog' = catalog
        /\ Report(c, a, "failed", "install")
        /\ pc' = [pc EXCEPT ![c] = "restore"]
    BY <1>5, <2>0 DEF Reinstate, BeginRestore, Goto
  <2>3. /\ \A b : ReportOf(c, b) \subseteq ReportOf(c, b)'
        /\ \E r \in ReportOf(c, a)' : r.status = "failed"
    BY <1>t, <2>1, ReportAdded
  <2>4. /\ \A d \in Calls \ {c} : pc'[d] = pc[d]
        /\ pc'[c] = "restore" /\ pc'[c] \notin Early
        /\ \A b \in Aliases : b # a => catalog'[b] = catalog[b]
    BY <1>p, <2>1 DEF Early, Replacing
  <2>5. \A d \in Calls \ {c} : ~Active(d)'
    BY <1>h, <2>4 DEF Active
  <2>6. ASSUME NEW b \in Aliases
        PROVE  \/ catalog'[b] = before'[c][b]
               \/ \E i \in DOMAIN replaced'[c] : replaced'[c][i].alias = b
               \/ \E r \in ReportOf(c, b)' : r.status = "failed"
    <3>1. CASE b = a
      BY <2>3, <3>1
    <3>2. CASE b # a
      BY <1>h, <2>0, <2>1, <2>3, <2>4, <3>2
    <3> QED BY <3>1, <3>2
  <2> QED BY <1>h, <2>1, <2>4, <2>5, <2>6 DEF HeldInv
<1>6. CASE RestoreDeregister(c)
  <2> DEFINE a == CurrentAlias(c)
             n == Len(replaced[c])
  <2>1. /\ pc[c] = "restore" /\ replaced[c] # <<>> /\ UNCHANGED <<next, taken, replaced, before, reports>>
        /\ catalog' = [catalog EXCEPT ![a] = NoProvider]
        /\ pc' = [pc EXCEPT ![c] = "restore_register"]
    BY <1>6 DEF RestoreDeregister, MoreToRestore, Goto
  <2>2. a \in Aliases
    BY <1>a, <2>1 DEF MoreToRestore
  <2>3. n \in DOMAIN replaced[c] /\ replaced[c][n].alias = a
    <3>1. replaced[c] \in Seq([alias : Aliases, original : Providers])
      BY <1>p
    <3>2. n \in DOMAIN replaced[c]
      BY SMTT(30), <2>1, <3>1
    <3> QED BY <2>1, <3>2 DEF CurrentAlias
  <2>4. /\ \A d \in Calls \ {c} : pc'[d] = pc[d]
        /\ pc'[c] = "restore_register" /\ pc'[c] \notin Early
        /\ \A b \in Aliases : b # a => catalog'[b] = catalog[b]
    BY <1>p, <2>1, <2>2 DEF Early, Replacing
  <2>5. \A d \in Calls \ {c} : ~Active(d)'
    BY <1>h, <2>4 DEF Active
  <2>6. ASSUME NEW b \in Aliases
        PROVE  \/ catalog'[b] = before'[c][b]
               \/ \E i \in DOMAIN replaced'[c] : replaced'[c][i].alias = b
               \/ \E r \in ReportOf(c, b)' : r.status = "failed"
    <3>1. CASE b = a
      BY <2>1, <2>3, <3>1
    <3>2. CASE b # a
      BY <1>h, <1>o, <2>1, <2>4, <3>2
    <3> QED BY <3>1, <3>2
  <2> QED BY <1>h, <2>1, <2>4, <2>5, <2>6 DEF HeldInv
<1>7. CASE RestoreRegister(c) \/ RestoreDeregisterFails(c) \/ RestoreRegisterFails(c)
  <2> DEFINE n == Len(replaced[c])
  <2>1. /\ pc[c] \in {"restore", "restore_register"} /\ replaced[c] # <<>> /\ UNCHANGED <<next, taken, before>>
        /\ replaced' = [replaced EXCEPT ![c] = SubSeq(replaced[c], 1, n - 1)]
        /\ pc' = [pc EXCEPT ![c] = "restore"]
    BY <1>7, <1>t DEF RestoreRegister, RestoreDeregisterFails, RestoreRegisterFails, MoreToRestore,
       Restored, Goto, PositionInv
  <2>2. PICK a \in Aliases : a = CurrentAlias(c)
    BY <1>a, <2>1 DEF MoreToRestore
  <2>3. /\ DOMAIN replaced[c] = 1 .. n /\ n \in Nat \ {0} /\ DOMAIN replaced'[c] = 1 .. n - 1
        /\ \A i \in 1 .. n - 1 : replaced'[c][i] = replaced[c][i]
    <3>1. replaced[c] \in Seq([alias : Aliases, original : Providers]) /\ replaced'[c] = SubSeq(replaced[c], 1, n - 1)
      BY <1>p, <2>1
    <3> QED BY <2>1, <3>1, FrontAt
  <2>4. n \in DOMAIN replaced[c] /\ replaced[c][n].alias = a
    BY SMTT(30), <2>1, <2>2, <2>3 DEF CurrentAlias
  <2>5. /\ \A d \in Calls \ {c} : pc'[d] = pc[d]
        /\ pc'[c] = "restore" /\ pc'[c] \notin Early
    BY <1>p, <2>1 DEF Early, Replacing
  <2>6. \A d \in Calls \ {c} : ~Active(d)'
    BY <1>h, <2>5 DEF Active
  <2>7. /\ \A b : ReportOf(c, b) \subseteq ReportOf(c, b)'
        /\ \A b \in Aliases : b # a => catalog'[b] = catalog[b]
        /\ catalog'[a] = before[c][a] \/ \E r \in ReportOf(c, a)' : r.status = "failed"
    <3>1. CASE RestoreRegister(c)
      <4>1. Report(c, a, "restored", "restore") /\ catalog' = [catalog EXCEPT ![a] = replaced[c][n].original]
        BY <2>2, <3>1 DEF RestoreRegister, Restored
      <4>2. replaced[c][n].original = before[c][a]
        BY <1>h, <2>4
      <4>3. \A b : ReportOf(c, b) \subseteq ReportOf(c, b)'
        BY <1>t, <2>2, <4>1, ReportAdded
      <4> QED BY <1>p, <2>2, <4>1, <4>2, <4>3
    <3>2. CASE RestoreDeregisterFails(c) \/ RestoreRegisterFails(c)
      <4>1. Report(c, a, "failed", "restore") /\ catalog' = catalog
        BY <2>2, <3>2 DEF RestoreDeregisterFails, RestoreRegisterFails, Restored
      <4>2. /\ \A b : ReportOf(c, b) \subseteq ReportOf(c, b)'
            /\ \E r \in ReportOf(c, a)' : r.status = "failed"
        BY <1>t, <2>2, <4>1, ReportAdded
      <4> QED BY <4>1, <4>2
    <3> QED BY <1>7, <3>1, <3>2
  <2>8. ASSUME NEW b \in Aliases
        PROVE  \/ catalog'[b] = before'[c][b]
               \/ \E i \in DOMAIN replaced'[c] : replaced'[c][i].alias = b
               \/ \E r \in ReportOf(c, b)' : r.status = "failed"
    <3>1. CASE b = a
      BY <2>1, <2>7, <3>1
    <3>2. CASE b # a
      <4>1. \A i \in DOMAIN replaced[c] : replaced[c][i].alias = b =>
               i \in DOMAIN replaced'[c] /\ replaced'[c][i] = replaced[c][i]
        <5>1. \A i \in 1 .. n : i # n => i \in 1 .. n - 1
          BY SMTT(30), <2>3
        <5> QED BY <2>3, <2>4, <3>2, <5>1
      <4> QED BY <1>h, <2>1, <2>2, <2>7, <3>2, <4>1
    <3> QED BY <3>1, <3>2
  <2>9. \A i \in DOMAIN replaced'[c] : replaced'[c][i].original = before'[c][replaced'[c][i].alias]
    <3>1. \A i \in 1 .. n - 1 : i \in 1 .. n
      BY SMTT(30), <2>3
    <3> QED BY <1>h, <2>1, <2>3, <3>1
  <2> QED BY <1>h, <2>1, <2>5, <2>6, <2>8, <2>9 DEF HeldInv
<1> QED BY <1>0, <1>1, <1>2, <1>3, <1>4, <1>5, <1>6, <1>7 DEF Step

\* Another call that steps while c runs alone is rejected, or it starts and c is not
\* alone any more.
LEMMA HeldOtherStep ==
  ASSUME WriteAllInv, RecordType, NEW c \in Calls, NEW d \in Calls \ {c}, HeldInv(c),
         Step(d) \/ Reject(d) \/ Cancel(d), LocalFrame(d)
  PROVE  HeldInv(c)'
<1> SUFFICES ASSUME Active(c)', Alone(c)'
             PROVE  HeldInv(c)'
  BY DEF HeldInv
<1>f. /\ pc'[c] = pc[c] /\ next'[c] = next[c] /\ taken'[c] = taken[c]
      /\ replaced'[c] = replaced[c] /\ reports'[c] = reports[c]
  BY DEF LocalFrame
<1>1. Active(c)
  BY <1>f DEF Active
<1>2. ~Start(d)
  <2> SUFFICES ASSUME Start(d) PROVE FALSE
    OBVIOUS
  <2>1. before'[c] = Overlapped
    BY <1>1 DEF Start
  <2> QED BY <2>1 DEF Alone
<1>3. CASE Reject(d)
  <2>1. UNCHANGED <<catalog, taken, next, replaced, before, reports>> /\ pc' = [pc EXCEPT ![d] = "done"]
    BY <1>3 DEF Reject, Goto
  <2>2. Alone(c)
    BY <2>1 DEF Alone
  <2>3. \A e \in Calls \ {c} : ~Active(e)'
    BY <1>1, <2>1, <2>2 DEF HeldInv, Active, WriteAllInv, TypeOK
  <2>4. CurrentAlias(c)' = CurrentAlias(c) /\ \A a : ReportOf(c, a)' = ReportOf(c, a)
    BY <1>f, <2>1 DEF CurrentAlias, Cached, ReportOf
  <2>5. ASSUME NEW a \in Aliases
        PROVE  \/ catalog'[a] = before'[c][a]
               \/ \E i \in DOMAIN replaced'[c] : replaced'[c][i].alias = a
               \/ pc'[c] \in {"register", "reinstate"} /\ CurrentAlias(c)' = a
               \/ \E r \in ReportOf(c, a)' : r.status = "failed"
    <3>1. \/ catalog[a] = before[c][a]
          \/ \E i \in DOMAIN replaced[c] : replaced[c][i].alias = a
          \/ pc[c] \in {"register", "reinstate"} /\ CurrentAlias(c) = a
          \/ \E r \in ReportOf(c, a) : r.status = "failed"
      BY <1>1, <2>2 DEF HeldInv
    <3> QED BY <1>f, <2>1, <2>4, <3>1
  <2>6. /\ before'[c] \in [Aliases -> Providers \cup {NoProvider}]
        /\ \A i \in DOMAIN replaced'[c] : replaced'[c][i].original = before'[c][replaced'[c][i].alias]
        /\ pc'[c] \in {"register", "reinstate"} => taken'[c] = before'[c][CurrentAlias(c)']
        /\ pc'[c] \in Early => \A i \in DOMAIN replaced'[c] : catalog'[replaced'[c][i].alias] = c
    BY <1>1, <1>f, <2>1, <2>2, <2>4 DEF HeldInv
  <2> QED BY <2>3, <2>5, <2>6 DEF HeldInv
<1>4. CASE (Step(d) /\ ~Start(d)) \/ Cancel(d)
  <2>1. before' = before /\ Active(d)
    <3>1. CASE Plan(d) \/ PlanFails(d) \/ LookupFails(d) \/ Attempt(d) \/ Materialize(d)
               \/ MaterializeFails(d) \/ Deregister(d) \/ DeregisterFails(d) \/ Register(d)
               \/ RegisterFails(d) \/ Reinstate(d) \/ Cancel(d)
      BY <3>1 DEF Plan, PlanFails, LookupFails, Attempt, Materialize, MaterializeFails, Deregister,
         DeregisterFails, Register, RegisterFails, Reinstate, Cancel, Active
    <3>2. CASE BuildJobs(d) \/ WorkflowFails(d) \/ WriteOutput(d) \/ SkipOutput(d) \/ EndOutputs(d)
               \/ RestoreDeregister(d) \/ RestoreDeregisterFails(d)
               \/ RestoreRegister(d) \/ RestoreRegisterFails(d)
               \/ EndRestore(d) \/ EndRestoreFailed(d) \/ ReportSources(d)
      BY <3>2 DEF BuildJobs, WorkflowFails, WriteOutput, SkipOutput, EndOutputs, RestoreDeregister,
         RestoreDeregisterFails, RestoreRegister, RestoreRegisterFails, EndRestore,
         EndRestoreFailed, ReportSources, Active, MoreOutputs, MoreToRestore
    <3> QED BY <1>4, <3>1, <3>2 DEF Step
  <2> QED BY <1>1, <2>1 DEF HeldInv, Alone
<1> QED BY <1>2, <1>3, <1>4

\* A call starts alone when no other one is active; nothing is replaced yet.
LEMMA HeldStart ==
  ASSUME WriteAllInv, RecordInv, NEW c \in Calls, Start(c)
  PROVE  HeldInv(c)'
<1> SUFFICES ASSUME Alone(c)'
             PROVE  HeldInv(c)'
  BY DEF HeldInv
<1>1. /\ pc[c] = "idle" /\ pc' = [pc EXCEPT ![c] = "plan"] /\ UNCHANGED <<catalog, replaced>>
      /\ pc \in [Calls -> Labels] /\ catalog \in [Aliases -> Providers \cup {NoProvider}]
  BY DEF Start, Goto, WriteAllInv, TypeOK
<1>2. before'[c] = IF \E e \in Calls \ {c} : Active(e) THEN Overlapped ELSE catalog
  BY DEF Start
<1>3. before'[c] = catalog /\ \A e \in Calls \ {c} : ~Active(e)
  BY <1>2 DEF Alone
<1>4. pc'[c] = "plan" /\ \A e \in Calls \ {c} : ~Active(e)'
  BY <1>1, <1>3 DEF Active
<1>5. DOMAIN replaced'[c] = {}
  <2>1. RecordType /\ ReplacedInv(c) /\ TypeOK /\ PositionInv
    BY DEF RecordInv, WriteAllInv
  <2>2. next[c] = 1 /\ Len(replaced[c]) = next[c] - 1
    BY <1>1, <2>1 DEF ReplacedInv, PositionInv, Early
  <2>3. DOMAIN replaced[c] = 1 .. Len(replaced[c])
    BY <2>1, Lengths
  <2> QED BY SMTT(30), <1>1, <2>2, <2>3
<1> QED BY <1>1, <1>3, <1>4, <1>5 DEF HeldInv

\* A call that is alone after the step of another one was alone before it.
LEMMA AloneBefore ==
  ASSUME NEW c \in Calls, NEW d \in Calls, Step(d) \/ Reject(d) \/ Cancel(d), ~Start(c), Alone(c)'
  PROVE  Alone(c)
<1>1. CASE Start(d)
  <2>1. d # c
    BY <1>1
  <2>2. ~Active(c) => before'[c] = before[c]
    BY <1>1, <2>1 DEF Start
  <2>3. Active(c) => before'[c] = Overlapped
    BY <1>1, <2>1 DEF Start
  <2> QED BY <2>2, <2>3 DEF Alone
<1>2. CASE Plan(d) \/ PlanFails(d) \/ LookupFails(d) \/ Attempt(d) \/ Materialize(d)
           \/ MaterializeFails(d) \/ Deregister(d) \/ DeregisterFails(d) \/ Register(d)
           \/ RegisterFails(d) \/ Reinstate(d) \/ Cancel(d) \/ Reject(d)
  <2>1. before' = before
    BY <1>2 DEF Plan, PlanFails, LookupFails, Attempt, Materialize, MaterializeFails, Deregister,
       DeregisterFails, Register, RegisterFails, Reinstate, Cancel, Reject
  <2> QED BY <2>1 DEF Alone
<1>3. CASE BuildJobs(d) \/ WorkflowFails(d) \/ WriteOutput(d) \/ SkipOutput(d) \/ EndOutputs(d)
           \/ RestoreDeregister(d) \/ RestoreDeregisterFails(d)
           \/ RestoreRegister(d) \/ RestoreRegisterFails(d)
           \/ EndRestore(d) \/ EndRestoreFailed(d) \/ ReportSources(d)
  <2>1. before' = before
    BY <1>3 DEF BuildJobs, WorkflowFails, WriteOutput, SkipOutput, EndOutputs, RestoreDeregister,
       RestoreDeregisterFails, RestoreRegister, RestoreRegisterFails, EndRestore,
       EndRestoreFailed, ReportSources
  <2> QED BY <2>1 DEF Alone
<1> QED BY <1>1, <1>2, <1>3 DEF Step

\* While a call that runs alone writes, every selected alias is its own cache.
LEMMA WrittenFromCache ==
  ASSUME WriteAllInv, RecordInv, NEW c \in Calls, HeldInv(c), Alone(c), pc[c] = "write"
  PROVE  \A a \in AliasesOf(c) : catalog[a] = c
<1> SUFFICES ASSUME NEW i \in DOMAIN Cached(c)
             PROVE  catalog[Cached(c)[i]] = c
  BY DEF AliasesOf
<1>1. RecordType /\ ReplacedInv(c) /\ TypeOK
  BY DEF RecordInv, WriteAllInv
<1>2. Len(replaced[c]) = Len(Cached(c)) /\ DOMAIN replaced[c] = 1 .. Len(replaced[c])
  BY <1>1, Lengths DEF ReplacedInv
<1>3. Cached(c) \in Seq(Aliases)
  BY WriteAllAssumption DEF Cached
<1>4. i \in DOMAIN replaced[c]
  BY SMTT(30), <1>2, <1>3
<1>5. replaced[c][i].alias = Cached(c)[i]
  BY <1>1, <1>4 DEF ReplacedInv
<1>6. Active(c) /\ pc[c] \in Early
  BY DEF Active, Early
<1> QED BY <1>4, <1>5, <1>6 DEF HeldInv

\* An output of a call that runs alone reads the caches of the call.
LEMMA ReadStep ==
  ASSUME WriteAllInv, RecordInv, NEW c \in Calls, HeldInv(c), ReadInv(c),
         Step(c) \/ Reject(c) \/ Cancel(c)
  PROVE  ReadInv(c)'
<1> SUFFICES ASSUME Alone(c)'
             PROVE  ReadInv(c)'
  BY DEF ReadInv
<1>k. AliasesOf(c)' = AliasesOf(c)
  BY DEF AliasesOf, Cached
<1>t. outputs \in [Calls -> Seq(OutputType)] /\ RecordType /\ ReportsInv(c) /\ OutputsInv(c)
  BY DEF RecordInv, RecordType
<1>1. CASE Start(c)
  <2>1. outputs' = outputs /\ outputs[c] = <<>>
    BY <1>1, <1>t DEF Start, OutputsInv, Early
  <2> QED BY SMTT(30), <2>1 DEF ReadInv
<1>2. CASE ~Start(c)
  <2>0. Alone(c)
    BY <1>2, AloneBefore
  <2>1. ASSUME NEW o, outputs'[c] = Append(outputs[c], o),
               \A a \in DOMAIN o.read \cap AliasesOf(c) : o.read[a] = c
        PROVE  ReadInv(c)'
    <3>1. outputs[c] \in Seq(OutputType)
      BY <1>t
    <3> DEFINE n == Len(outputs[c])
    <3>2. /\ n \in Nat /\ DOMAIN outputs[c] = 1 .. n /\ DOMAIN outputs'[c] = 1 .. n + 1
          /\ \A i \in 1 .. n : outputs'[c][i] = outputs[c][i]
          /\ outputs'[c][n + 1] = o
      BY SMTT(30), <2>1, <3>1, AppendAt
    <3>3. \A i \in 1 .. n + 1 : i \in 1 .. n \/ i = n + 1
      BY SMTT(30), <3>2
    <3> QED BY SMTT(30), <1>k, <2>0, <2>1, <3>2, <3>3 DEF ReadInv
  <2>2. CASE WriteOutput(c)
    <3> DEFINE reads == Outputs(c)[Len(outputs[c]) + 1]
    <3>1. pc[c] = "write" /\ \E status \in {"succeeded", "failed"} :
             outputs' = [outputs EXCEPT ![c] = Append(outputs[c],
                           [status |-> status, read |-> [a \in reads |-> catalog[a]]])]
      BY <2>2 DEF WriteOutput, MoreOutputs
    <3>2. PICK status \in {"succeeded", "failed"} :
             outputs' = [outputs EXCEPT ![c] = Append(outputs[c],
                           [status |-> status, read |-> [a \in reads |-> catalog[a]]])]
      BY <3>1
    <3> DEFINE o == [status |-> status, read |-> [a \in reads |-> catalog[a]]]
    <3>3. outputs'[c] = Append(outputs[c], o)
      BY <1>t, <3>2
    <3>4. \A a \in AliasesOf(c) : catalog[a] = c
      BY <2>0, <3>1, WrittenFromCache
    <3>5. \A a \in DOMAIN o.read \cap AliasesOf(c) : o.read[a] = c
      BY <3>4
    <3> HIDE DEF o
    <3> QED BY <2>1, <3>3, <3>5
  <2>3. CASE SkipOutput(c)
    <3> DEFINE o == [status |-> "skipped", read |-> <<>>]
    <3>1. outputs'[c] = Append(outputs[c], o)
      BY <1>t, <2>3 DEF SkipOutput
    <3>2. \A a \in DOMAIN o.read \cap AliasesOf(c) : o.read[a] = c
      BY SMTT(30)
    <3> HIDE DEF o
    <3> QED BY <2>1, <3>1, <3>2
  <2>4. CASE ~WriteOutput(c) /\ ~SkipOutput(c)
    <3>1. outputs' = outputs
      <4>1. CASE Plan(c) \/ PlanFails(c) \/ LookupFails(c) \/ Attempt(c) \/ Materialize(c)
               \/ MaterializeFails(c) \/ Deregister(c) \/ DeregisterFails(c) \/ Register(c)
               \/ RegisterFails(c) \/ Reinstate(c) \/ Cancel(c) \/ Reject(c)
        BY <4>1 DEF Plan, PlanFails, LookupFails, Attempt, Materialize, MaterializeFails, Deregister,
           DeregisterFails, Register, RegisterFails, Reinstate, Cancel, Reject
      <4>2. CASE BuildJobs(c) \/ WorkflowFails(c) \/ EndOutputs(c)
               \/ RestoreDeregister(c) \/ RestoreDeregisterFails(c)
               \/ RestoreRegister(c) \/ RestoreRegisterFails(c)
               \/ EndRestore(c) \/ EndRestoreFailed(c) \/ ReportSources(c)
        BY <4>2 DEF BuildJobs, WorkflowFails, EndOutputs, RestoreDeregister, RestoreDeregisterFails,
           RestoreRegister, RestoreRegisterFails, EndRestore, EndRestoreFailed, ReportSources
      <4> QED BY <1>2, <2>4, <4>1, <4>2 DEF Step
    <3> QED BY <1>k, <2>0, <3>1 DEF ReadInv
  <2> QED BY <2>2, <2>3, <2>4
<1> QED BY <1>1, <1>2

LEMMA AloneStep ==
  ASSUME WriteAllInv, RecordInv, AloneInv, NEW d \in Calls, Step(d) \/ Reject(d) \/ Cancel(d)
  PROVE  AloneInv'
<1>1. RecordType /\ LocalFrame(d)
  BY StepView DEF RecordInv
<1>2. ASSUME NEW c \in Calls PROVE HeldInv(c)' /\ ReadInv(c)'
  <2>0. HeldInv(c) /\ ReadInv(c)
    BY DEF AloneInv
  <2>1. CASE c = d
    <3>1. ReadInv(c)'
      BY <2>0, <2>1, ReadStep
    <3>2. CASE Start(c)
      BY <3>1, <3>2, HeldStart
    <3>3. CASE ~Start(c) /\ Active(c)
      <4>1. Step(c) \/ Cancel(c)
        BY <2>1, <3>3 DEF Reject, Active
      <4>2. CASE Alone(c)
        BY <2>0, <3>1, <3>3, <4>1, <4>2, HeldOwnStep
      <4>3. CASE ~Alone(c)
        <5>1. ~Alone(c)'
          BY <2>1, <3>3, <4>3, AloneBefore
        <5> QED BY <3>1, <5>1 DEF HeldInv
      <4> QED BY <4>2, <4>3
    <3>4. CASE ~Start(c) /\ ~Active(c)
      <4>1. pc[c] \in {"idle", "done", "cancelled"}
        BY <3>4 DEF Active
      <4>2. pc[c] = "idle" /\ pc'[c] = "done"
        <5>1. View(c)
          BY <2>1, StepView DEF RecordInv
        <5>2. ~StartView(c)
          <6>1. CASE Reject(c)
            <7>1. pc'[c] = "done"
              BY <6>1 DEF Reject, Goto, WriteAllInv, TypeOK
            <7> QED BY <7>1 DEF StartView
          <6>2. CASE Step(c) \/ Cancel(c)
            BY <3>4, <4>1, <6>2 DEF Step, Plan, PlanFails, LookupFails, Attempt, Materialize,
               MaterializeFails, Deregister, DeregisterFails, Register, RegisterFails, Reinstate,
               Cancel, BuildJobs, WorkflowFails, WriteOutput, SkipOutput, EndOutputs,
               RestoreDeregister, RestoreDeregisterFails, RestoreRegister, RestoreRegisterFails,
               EndRestore, EndRestoreFailed, ReportSources, MoreOutputs, MoreToRestore
          <6> QED BY <2>1, <6>1, <6>2
        <5> QED BY <4>1, <5>1, <5>2 DEF View, RejectView, StartView, MoveView, AttemptView,
              PlanFailsView, BeginView, RegisterView, OutputView, RestoredView, EndRestoreView,
              EndRestoreFailedView, SourcesView, Returns, Restoring
      <4> QED BY <3>1, <4>2 DEF HeldInv, Active
    <3> QED BY <3>2, <3>3, <3>4
  <2>2. CASE c # d
    <3>1. HeldInv(c)'
      BY <1>1, <2>0, <2>2, HeldOtherStep
    <3>2. ReadInv(c)'
      <4>1. outputs'[c] = outputs[c] /\ AliasesOf(c)' = AliasesOf(c)
        BY <1>1, <2>2 DEF LocalFrame, AliasesOf, Cached
      <4>2. Alone(c)' => Alone(c)
        <5>1. ~Start(c) \/ Start(c)
          OBVIOUS
        <5>2. ASSUME Start(c) PROVE FALSE
          <6>1. pc'[c] = "plan" /\ pc[c] = "idle"
            BY <5>2 DEF Start, Goto, WriteAllInv, TypeOK
          <6> QED BY <1>1, <2>2, <6>1 DEF LocalFrame
        <5> QED BY <5>2, AloneBefore
      <4> QED BY <2>0, <4>1, <4>2 DEF ReadInv
    <3> QED BY <3>1, <3>2
  <2> QED BY <2>1, <2>2
<1> QED BY <1>2 DEF AloneInv

\* A call that runs alone holds every provider it took out, until it is back.
THEOREM AloneInvariant == Spec => []AloneInv
<1>1. Init => AloneInv
  <2> SUFFICES ASSUME Init, NEW c \in Calls PROVE HeldInv(c) /\ ReadInv(c)
    BY DEF AloneInv
  <2>1. ~Active(c) /\ outputs[c] = <<>>
    BY DEF Init, Active
  <2> QED BY SMTT(30), <2>1 DEF HeldInv, ReadInv
<1>2. WriteAllInv /\ RecordInv /\ AloneInv /\ [Next]_vars => AloneInv'
  <2> SUFFICES ASSUME WriteAllInv, RecordInv, AloneInv, [Next]_vars PROVE AloneInv'
    OBVIOUS
  <2>1. CASE Next
    BY <2>1, AloneStep DEF Next
  <2>2. CASE UNCHANGED vars
    <3> SUFFICES ASSUME NEW c \in Calls PROVE HeldInv(c)' /\ ReadInv(c)'
      BY DEF AloneInv
    <3>0. HeldInv(c) /\ ReadInv(c)
      BY DEF AloneInv
    <3>1. UNCHANGED <<catalog, pc, next, taken, replaced, reports, outputs, before>>
      BY <2>2 DEF vars
    <3>2. CASE Active(c)
      BY <3>0, <3>1, <3>2, HeldQuiet DEF ReportOf, ReadInv, Alone, AliasesOf, Cached
    <3>3. CASE ~Active(c)
      BY <3>0, <3>1, <3>3 DEF HeldInv, Active, ReadInv, Alone, AliasesOf, Cached
    <3> QED BY <3>2, <3>3
  <2> QED BY <2>1, <2>2
<1> QED BY <1>1, <1>2, WriteAllInvariant, RecordInvariant, PTL DEF Spec

\* An output of a call that runs alone reads the cache of every selected alias, for any
\* requests: it never falls back to the view the cache stands for.
THEOREM CachesRead == Spec => []CacheUsed
<1>1. AloneInv => CacheUsed
  BY DEF AloneInv, ReadInv, CacheUsed
<1> QED BY <1>1, AloneInvariant, PTL

\* When a call that ran alone returns, by any path, every alias has the provider it had
\* before the call, or the call has reported its failure.
THEOREM AliasesRestored == Spec => RestoredOnReturn
<1>1. WriteAllInv /\ RecordInv /\ AloneInv /\ [Next]_vars =>
        [\A c \in Calls :
           (Active(c) /\ pc'[c] = "done" /\ Alone(c)) =>
             \A a \in Aliases :
               catalog'[a] = before[c][a] \/ \E r \in ReportOf(c, a) : r.status = "failed"]_vars
  <2> SUFFICES ASSUME WriteAllInv, RecordInv, AloneInv, NEW d \in Calls,
                      Step(d) \/ Reject(d) \/ Cancel(d), NEW c \in Calls,
                      Active(c), pc'[c] = "done", Alone(c), NEW a \in Aliases
               PROVE  catalog'[a] = before[c][a] \/ \E r \in ReportOf(c, a) : r.status = "failed"
    BY DEF Next
  <2>0. HeldInv(c) /\ RecordType /\ ReplacedInv(c) /\ ReportsInv(c) /\ pc[c] # "done"
    BY DEF AloneInv, RecordInv, Active
  <2>1. LocalFrame(d) /\ View(d)
    BY StepView DEF RecordInv
  <2>2. d = c
    BY <2>0, <2>1 DEF LocalFrame
  <2>3. PlanFails(c) \/ EndRestoreFailed(c) \/ ReportSources(c)
    <3>1. pc \in [Calls -> Labels] /\ pc[c] \notin {"idle", "done"}
      BY DEF WriteAllInv, TypeOK, Active
    <3> QED BY <2>2, <3>1 DEF Step, Reject, Start, Plan, LookupFails, Attempt, Materialize,
               MaterializeFails, Deregister, DeregisterFails, Register, RegisterFails, Reinstate,
               Cancel, BuildJobs, WorkflowFails, WriteOutput, SkipOutput, EndOutputs,
               RestoreDeregister, RestoreDeregisterFails, RestoreRegister, RestoreRegisterFails,
               EndRestore, Goto, BeginRestore, Restored
  <2>4. catalog' = catalog /\ pc[c] \in {"plan", "restore", "sources"}
    BY <2>3 DEF PlanFails, EndRestoreFailed, ReportSources
  <2>5. DOMAIN replaced[c] = {}
    <3>1. pc[c] = "restore" => replaced[c] = <<>>
      BY <2>3 DEF PlanFails, EndRestoreFailed, ReportSources
    <3>2. pc[c] = "sources" => replaced[c] = <<>>
      BY <2>0 DEF ReportsInv
    <3>3. pc[c] = "plan" => Len(replaced[c]) = 0
      BY SMTT(30), <2>0 DEF ReplacedInv, Early, WriteAllInv, PositionInv
    <3>4. DOMAIN replaced[c] = 1 .. Len(replaced[c])
      BY <2>0, Lengths DEF WriteAllInv
    <3> QED BY SMTT(30), <2>4, <3>1, <3>2, <3>3, <3>4
  <2> QED BY <2>0, <2>4, <2>5 DEF HeldInv
<1> QED BY <1>1, WriteAllInvariant, RecordInvariant, AloneInvariant, PTL DEF Spec, RestoredOnReturn
=============================================================================
