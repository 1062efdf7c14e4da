------------------------ MODULE WriteAllCacheProofs -------------------------
(***************************************************************************)
(* For any calls, aliases and cache plans, however write_all calls overlap *)
(* on one session: an alias is missing only while some call is between     *)
(* taking a provider out and putting one in; and what a call returns and   *)
(* announces agrees with what it did: no failure is hidden behind a        *)
(* success, no output outcome is dropped, and the progress events tell one *)
(* lifecycle.                                                              *)
(***************************************************************************)
EXTENDS WriteAllCache, TLAPS

\* Most steps need no arithmetic; a step that does names the SMT solver.
USE ZenonT(60)

Replacing == {"lookup", "materialize", "deregister", "register", "reinstate"}

\* Call c is between its deregister and its register of alias a.
Window(c, a) ==
  pc[c] \in {"register", "reinstate", "restore_register"} /\ CurrentAlias(c) = a

\* Positions are in range, and what a call will put in is a provider.
PositionInv ==
  \A c \in Calls :
    /\ pc[c] \in {"idle", "plan"} => next[c] = 1
    /\ pc[c] \in Replacing => next[c] \in 1 .. Len(Cached(c))
    /\ pc[c] \in {"register", "reinstate"} => taken[c] \in Providers
    /\ pc[c] = "restore_register" => replaced[c] # <<>>

WriteAllInv == TypeOK /\ PositionInv /\ AliasPresent

\* What a step of call c leaves alone.
Frame(c) ==
  \A d \in Calls \ {c} :
    pc'[d] = pc[d] /\ next'[d] = next[d] /\ replaced'[d] = replaced[d] /\ taken'[d] = taken[d]
-----------------------------------------------------------------------------
\* Sequences: the last element of a nonempty one, and the sequence without it.
LEMMA LastElement ==
  ASSUME NEW S, NEW s \in Seq(S), s # <<>>
  PROVE  s[Len(s)] \in S /\ SubSeq(s, 1, Len(s) - 1) \in Seq(S)
BY SMTT(30)

\* Appending an element of the set.
LEMMA AppendElement ==
  ASSUME NEW S, NEW s \in Seq(S), NEW e \in S
  PROVE  Append(s, e) \in Seq(S)
BY SMTT(30)

\* The current alias of a call is an alias.
LEMMA CurrentAliasType ==
  ASSUME TypeOK, PositionInv, NEW c \in Calls,
         pc[c] \in Replacing \/ (replaced[c] # <<>> /\ pc[c] \in {"restore", "restore_register"})
  PROVE  CurrentAlias(c) \in Aliases
<1>1. CASE pc[c] \in Replacing
  <2>1. Cached(c) \in Seq(Aliases) /\ next[c] \in 1 .. Len(Cached(c))
    BY <1>1, WriteAllAssumption DEF PositionInv, Cached
  <2>2. CurrentAlias(c) = Cached(c)[next[c]]
    BY <1>1 DEF CurrentAlias, Replacing
  <2> QED BY SMTT(30), <2>1, <2>2
<1>2. CASE replaced[c] # <<>> /\ pc[c] \in {"restore", "restore_register"}
  <2>1. replaced[c] \in Seq([alias : Aliases, original : Providers])
    BY DEF TypeOK
  <2>2. replaced[c][Len(replaced[c])] \in [alias : Aliases, original : Providers]
    BY <1>2, <2>1, LastElement
  <2> QED BY <1>2, <2>2 DEF CurrentAlias
<1> QED BY <1>1, <1>2

\* A step of c keeps the aliases present if every hole it makes is its own window
\* and it does not leave a window with the hole open.
LEMMA HoleStep ==
  ASSUME NEW c \in Calls, AliasPresent, Frame(c), faults' = 0 => faults = 0,
         faults' = 0 => \A a \in Aliases : catalog'[a] = NoProvider =>
           \/ Window(c, a)'
           \/ catalog[a] = NoProvider /\ ~Window(c, a)
  PROVE  AliasPresent'
<1> SUFFICES ASSUME faults' = 0, NEW a \in Aliases, catalog'[a] = NoProvider
             PROVE  \E d \in Calls : Window(d, a)'
  BY DEF AliasPresent, Window
<1>1. CASE Window(c, a)'
  BY <1>1
<1>2. CASE catalog[a] = NoProvider /\ ~Window(c, a)
  <2>1. PICK d \in Calls : Window(d, a)
    BY <1>2 DEF AliasPresent, Window
  <2>2. d # c
    BY <1>2, <2>1
  <2>3. CurrentAlias(d)' = CurrentAlias(d) /\ pc'[d] = pc[d]
    BY <2>2 DEF Frame, CurrentAlias
  <2> QED BY <2>1, <2>3 DEF Window
<1> QED BY <1>1, <1>2

\* Positions of the other calls stay in range.
LEMMA PositionStep ==
  ASSUME NEW c \in Calls, PositionInv, Frame(c),
         pc'[c] \in {"idle", "plan"} => next'[c] = 1,
         pc'[c] \in Replacing => next'[c] \in 1 .. Len(Cached(c)),
         pc'[c] \in {"register", "reinstate"} => taken'[c] \in Providers,
         pc'[c] = "restore_register" => replaced'[c] # <<>>
  PROVE  PositionInv'
BY DEF PositionInv, Frame, Cached

Quiet(c) ==
  /\ UNCHANGED <<catalog, next, taken, replaced, broken>>
  /\ faults' \in 0 .. MaxFaults /\ (faults' = 0 => faults = 0)
  /\ \E l \in Labels : pc' = [pc EXCEPT ![c] = l]

\* A step that only moves c, outside its windows.
LEMMA QuietStep ==
  ASSUME WriteAllInv, NEW c \in Calls, Quiet(c),
         pc'[c] \notin {"register", "reinstate", "restore_register"},
         pc'[c] \in {"idle", "plan"} => next[c] = 1,
         pc'[c] \in Replacing => next[c] \in 1 .. Len(Cached(c)),
         faults' = 0 => pc[c] \notin {"register", "reinstate", "restore_register"}
                        \/ catalog[CurrentAlias(c)] # NoProvider
  PROVE  WriteAllInv'
<1>1. TypeOK /\ PositionInv /\ AliasPresent
  BY DEF WriteAllInv
<1>2. Frame(c)
  BY <1>1 DEF Quiet, Frame, TypeOK
<1>3. TypeOK'
  BY <1>1 DEF Quiet, TypeOK
<1>4. PositionInv'
  BY <1>1, <1>2, PositionStep DEF Quiet
<1>5. \A a \in Aliases : faults' = 0 /\ catalog'[a] = NoProvider =>
         catalog[a] = NoProvider /\ ~Window(c, a)
  BY DEF Quiet, Window
<1>6. AliasPresent'
  BY <1>1, <1>2, <1>5, HoleStep DEF Quiet
<1> QED BY <1>3, <1>4, <1>6 DEF WriteAllInv

\* Restoring one alias consumes its replacement.
LEMMA RestoredStep ==
  ASSUME WriteAllInv, NEW c \in Calls, NEW status, replaced[c] # <<>>,
         pc[c] \in {"restore", "restore_register"}, Restored(c, status),
         UNCHANGED <<next, taken>>, faults' \in 0 .. MaxFaults, faults' = 0 => faults = 0,
         catalog' \in [Aliases -> Providers \cup {NoProvider}],
         faults' = 0 => /\ pc[c] = "restore_register"
                        /\ catalog'[CurrentAlias(c)] # NoProvider
                        /\ \A a \in Aliases \ {CurrentAlias(c)} : catalog'[a] = catalog[a]
  PROVE  WriteAllInv'
<1>1. TypeOK /\ PositionInv /\ AliasPresent
  BY DEF WriteAllInv
<1>2. CurrentAlias(c) \in Aliases
  BY <1>1, CurrentAliasType
<1>3. pc' = [pc EXCEPT ![c] = "restore"]
  BY DEF Restored, Goto
<1>4. replaced' = [replaced EXCEPT ![c] = SubSeq(replaced[c], 1, Len(replaced[c]) - 1)]
  BY DEF Restored
<1>5. replaced' \in [Calls -> Seq([alias : Aliases, original : Providers])]
  <2>1. SubSeq(replaced[c], 1, Len(replaced[c]) - 1) \in Seq([alias : Aliases, original : Providers])
    BY <1>1, LastElement DEF TypeOK
  <2> QED BY <1>1, <1>4, <2>1 DEF TypeOK
<1>6. broken' \in [Calls -> Aliases \cup {NoAlias}]
  BY <1>1, <1>2 DEF Restored, TypeOK
<1>7. TypeOK'
  BY <1>1, <1>3, <1>5, <1>6 DEF TypeOK, Labels
<1>8. Frame(c)
  BY <1>1, <1>3, <1>4 DEF Frame, TypeOK
<1>9. pc'[c] = "restore"
  BY <1>1, <1>3 DEF TypeOK
<1>10. PositionInv'
  BY <1>1, <1>8, <1>9, PositionStep DEF Replacing
<1>11. \A a \in Aliases : faults' = 0 /\ catalog'[a] = NoProvider =>
          catalog[a] = NoProvider /\ ~Window(c, a)
  BY DEF Window
<1>12. AliasPresent'
  BY <1>1, <1>8, <1>11, HoleStep
<1> QED BY <1>7, <1>10, <1>12 DEF WriteAllInv

\* Every step of a call keeps the invariant.
LEMMA CallStep ==
  ASSUME WriteAllInv, NEW c \in Calls, Step(c) \/ Reject(c) \/ Cancel(c)
  PROVE  WriteAllInv'
<1>t. TypeOK /\ PositionInv /\ AliasPresent
  BY DEF WriteAllInv
<1>p. /\ pc \in [Calls -> Labels] /\ faults \in 0 .. MaxFaults
      /\ replaced \in [Calls -> Seq([alias : Aliases, original : Providers])]
      /\ MaxFaults \in Nat
  BY <1>t, WriteAllAssumption DEF TypeOK
<1>q. /\ pc[c] \in {"idle", "plan"} => next[c] = 1
      /\ pc[c] \in Replacing => next[c] \in 1 .. Len(Cached(c))
      /\ pc[c] \in {"register", "reinstate"} => taken[c] \in Providers
      /\ pc[c] = "restore_register" => replaced[c] # <<>>
  BY <1>t DEF PositionInv
<1>1. CASE Reject(c) \/ PlanFails(c) \/ EndRestoreFailed(c) \/ ReportSources(c)
  <2>1. Quiet(c) /\ pc'[c] = "done"
    BY <1>1, <1>p DEF Quiet, Labels, Reject, PlanFails, EndRestoreFailed, ReportSources, Conclude, Goto
  <2>2. pc[c] \notin {"register", "reinstate", "restore_register"}
    BY <1>1 DEF Reject, PlanFails, EndRestoreFailed, ReportSources
  <2> QED BY <2>1, <2>2, QuietStep DEF Replacing
<1>2. CASE Start(c)
  <2>1. Quiet(c) /\ pc'[c] = "plan" /\ pc[c] = "idle"
    BY <1>2, <1>p DEF Quiet, Labels, Start, Goto
  <2> QED BY <1>q, <2>1, QuietStep DEF Replacing
<1>3. CASE Plan(c)
  <2>1. Quiet(c) /\ pc[c] = "plan" /\ pc'[c] = IF Cached(c) = <<>> THEN "build" ELSE "lookup"
    BY <1>3, <1>p DEF Quiet, Labels, Plan, Goto
  <2>2. Cached(c) \in Seq(Aliases)
    BY WriteAllAssumption DEF Cached
  <2>3. Cached(c) # <<>> => next[c] \in 1 .. Len(Cached(c))
    BY SMTT(30), <1>q, <2>1, <2>2
  <2> QED BY <2>1, <2>3, QuietStep DEF Replacing
<1>4. CASE Attempt(c) \/ Materialize(c)
  <2>1. Quiet(c) /\ pc'[c] \in {"materialize", "deregister"} /\ pc[c] \in {"lookup", "materialize"}
    BY <1>4, <1>p DEF Quiet, Labels, Attempt, Materialize, Goto
  <2> QED BY <1>q, <2>1, QuietStep DEF Replacing
<1>5. CASE BuildJobs(c) \/ Cancel(c)
  <2>1. Quiet(c) /\ pc'[c] \in {"write", "cancelled"} /\ pc[c] \in {"build", "materialize", "write"}
    BY <1>5, <1>p DEF Quiet, Labels, BuildJobs, Cancel, Goto
  <2> QED BY <2>1, QuietStep DEF Replacing
<1>6. CASE LookupFails(c) \/ MaterializeFails(c) \/ WorkflowFails(c) \/ EndOutputs(c)
  <2>1. Quiet(c) /\ pc'[c] = "restore"
    BY <1>6, <1>p DEF Quiet, Labels, LookupFails, MaterializeFails, WorkflowFails, EndOutputs,
       BeginRestore, Goto
  <2>2. pc[c] \notin {"register", "reinstate", "restore_register"}
    BY <1>6 DEF LookupFails, MaterializeFails, WorkflowFails, EndOutputs
  <2> QED BY <2>1, <2>2, QuietStep DEF Replacing
<1>7. CASE WriteOutput(c) \/ SkipOutput(c)
  <2>1. UNCHANGED <<catalog, faults, pc, next, taken, replaced, broken>>
    BY <1>7 DEF WriteOutput, SkipOutput
  <2>2. Quiet(c) /\ pc'[c] = "write" /\ pc[c] = "write"
    BY <1>7, <1>p, <2>1 DEF Quiet, WriteOutput, SkipOutput, MoreOutputs
  <2> QED BY <2>2, QuietStep DEF Replacing
<1>8. CASE EndRestore(c)
  <2>1. Quiet(c) /\ pc'[c] = "sources" /\ pc[c] = "restore"
    BY <1>8, <1>p DEF Quiet, Labels, EndRestore, Goto
  <2> QED BY <2>1, QuietStep DEF Replacing
<1>9. CASE DeregisterFails(c)
  <2>1. Quiet(c) /\ pc'[c] = "restore" /\ pc[c] = "deregister"
    BY SMTT(30), <1>9, <1>p DEF Quiet, Labels, DeregisterFails, BeginRestore, Goto, Fault
  <2> QED BY <2>1, QuietStep DEF Replacing
<1>a. (pc[c] \in Replacing \/ MoreToRestore(c) \/ pc[c] = "restore_register") =>
        CurrentAlias(c) \in Aliases
  <2>1. ASSUME MoreToRestore(c) PROVE replaced[c] # <<>> /\ pc[c] = "restore"
    BY <2>1 DEF MoreToRestore
  <2> QED BY <1>t, <1>q, <2>1, CurrentAliasType
<1>10. CASE Deregister(c)
  <2> DEFINE a == CurrentAlias(c)
  <2>1. /\ pc[c] = "deregister" /\ catalog[a] # NoProvider /\ UNCHANGED <<faults, next, replaced, broken>>
        /\ taken' = [taken EXCEPT ![c] = catalog[a]]
        /\ catalog' = [catalog EXCEPT ![a] = NoProvider]
        /\ pc' = [pc EXCEPT ![c] = "register"]
    BY <1>10 DEF Deregister, Goto
  <2>2. a \in Aliases
    BY <1>a, <2>1 DEF Replacing
  <2>3. pc'[c] = "register" /\ Frame(c)
    BY <1>t, <2>1 DEF Frame, TypeOK
  <2>4. taken'[c] = catalog[a] /\ catalog[a] \in Providers
    BY <1>t, <2>1, <2>2 DEF TypeOK
  <2>5. TypeOK'
    BY <1>t, <2>1, <2>2, <2>4 DEF TypeOK, Labels
  <2>6. PositionInv'
    BY <1>t, <1>q, <2>1, <2>3, <2>4, PositionStep DEF Replacing
  <2>7. CurrentAlias(c)' = a
    BY <2>1, <2>3 DEF CurrentAlias
  <2>8. \A b \in Aliases : catalog'[b] = NoProvider =>
           Window(c, b)' \/ (catalog[b] = NoProvider /\ ~Window(c, b))
    BY <1>t, <2>1, <2>2, <2>3, <2>7 DEF Window, TypeOK
  <2>9. AliasPresent'
    BY <1>t, <2>1, <2>3, <2>8, HoleStep
  <2> QED BY <2>5, <2>6, <2>9 DEF WriteAllInv
<1>11. CASE Register(c)
  <2> DEFINE a == CurrentAlias(c)
             r == [alias |-> a, original |-> taken[c]]
  <2>1. /\ pc[c] = "register" /\ UNCHANGED <<faults, taken, broken>>
        /\ catalog' = [catalog EXCEPT ![a] = c]
        /\ replaced' = [replaced EXCEPT ![c] = Append(replaced[c], r)]
        /\ next' = [next EXCEPT ![c] = next[c] + 1]
        /\ pc' = [pc EXCEPT ![c] = IF next[c] = Len(Cached(c)) THEN "build" ELSE "lookup"]
    BY <1>11 DEF Register, Goto
  <2>2. a \in Aliases /\ taken[c] \in Providers
    BY <1>a, <1>q, <2>1 DEF Replacing
  <2>3. Frame(c)
    BY <1>t, <2>1 DEF Frame, TypeOK
  <2>4. r \in [alias : Aliases, original : Providers]
    BY <2>2
  <2>5. Append(replaced[c], r) \in Seq([alias : Aliases, original : Providers])
    BY <1>p, <2>4, AppendElement
  <2>6. TypeOK'
    <3>1. replaced' \in [Calls -> Seq([alias : Aliases, original : Providers])]
      BY <1>p, <2>1, <2>5
    <3>2. catalog' \in [Aliases -> Providers \cup {NoProvider}]
      BY <1>t, <2>1 DEF TypeOK, Providers
    <3>3. next' \in [Calls -> Nat] /\ pc' \in [Calls -> Labels]
      BY SMTT(30), <1>t, <2>1 DEF TypeOK, Labels
    <3> QED BY <1>t, <2>1, <3>1, <3>2, <3>3 DEF TypeOK
  <2>7. pc'[c] = (IF next[c] = Len(Cached(c)) THEN "build" ELSE "lookup") /\ next'[c] = next[c] + 1
    BY <1>t, <2>1 DEF TypeOK
  <2>8. pc'[c] = "lookup" => next'[c] \in 1 .. Len(Cached(c))
    <3>1. Cached(c) \in Seq(Aliases)
      BY WriteAllAssumption DEF Cached
    <3>2. Len(Cached(c)) \in Nat /\ next[c] \in 1 .. Len(Cached(c))
      BY SMTT(30), <1>q, <2>1, <3>1 DEF Replacing
    <3> QED BY SMTT(30), <2>7, <3>2
  <2>9. PositionInv'
    BY <1>t, <2>3, <2>7, <2>8, PositionStep DEF Replacing
  <2>10. catalog'[a] # NoProvider /\ \A b \in Aliases \ {a} : catalog'[b] = catalog[b]
    BY <1>t, <2>1, <2>2, WriteAllAssumption DEF TypeOK
  <2>11. \A b \in Aliases : catalog'[b] = NoProvider =>
            Window(c, b)' \/ (catalog[b] = NoProvider /\ ~Window(c, b))
    BY <2>10 DEF Window
  <2>12. AliasPresent'
    BY <1>t, <2>1, <2>3, <2>11, HoleStep
  <2> QED BY <2>6, <2>9, <2>12 DEF WriteAllInv
<1>12. CASE RegisterFails(c)
  <2>1. /\ pc[c] = "register" /\ UNCHANGED <<catalog, next, taken, replaced, broken>>
        /\ pc' = [pc EXCEPT ![c] = "reinstate"]
        /\ faults' \in 0 .. MaxFaults /\ (faults' = 0 => faults = 0)
    BY SMTT(30), <1>12, <1>p DEF RegisterFails, Goto, Fault
  <2>2. Frame(c) /\ pc'[c] = "reinstate" /\ TypeOK'
    BY <1>t, <2>1 DEF Frame, TypeOK, Labels
  <2>3. PositionInv'
    BY <1>t, <1>q, <2>1, <2>2, PositionStep DEF Replacing
  <2>4. CurrentAlias(c)' = CurrentAlias(c)
    BY <2>1, <2>2 DEF CurrentAlias
  <2>5. \A b \in Aliases : catalog'[b] = NoProvider =>
            Window(c, b)' \/ (catalog[b] = NoProvider /\ ~Window(c, b))
    <3>1. \A b : Window(c, b) => Window(c, b)'
      BY <2>2, <2>4 DEF Window
    <3> QED BY <2>1, <3>1
  <2>6. AliasPresent'
    BY <1>t, <2>1, <2>2, <2>5, HoleStep
  <2> QED BY <2>2, <2>3, <2>6 DEF WriteAllInv
<1>13. CASE Reinstate(c)
  <2> DEFINE a == CurrentAlias(c)
  <2>1. /\ pc[c] = "reinstate" /\ UNCHANGED <<next, taken, replaced, broken>>
        /\ pc' = [pc EXCEPT ![c] = "restore"]
        /\ faults' \in 0 .. MaxFaults /\ (faults' = 0 => faults = 0)
        /\ \/ catalog[a] = NoProvider /\ catalog' = [catalog EXCEPT ![a] = taken[c]]
           \/ catalog[a] # NoProvider /\ UNCHANGED catalog
           \/ faults' # 0 /\ UNCHANGED catalog
    BY SMTT(30), <1>13, <1>p DEF Reinstate, BeginRestore, Goto, Fault
  <2>2. a \in Aliases /\ taken[c] \in Providers
    BY <1>a, <1>q, <2>1 DEF Replacing
  <2>3. Frame(c) /\ pc'[c] = "restore" /\ TypeOK'
    BY <1>t, <2>1, <2>2 DEF Frame, TypeOK, Labels
  <2>4. PositionInv'
    BY <1>t, <2>3, PositionStep DEF Replacing
  <2>5. faults' = 0 =>
          catalog'[a] # NoProvider /\ \A b \in Aliases \ {a} : catalog'[b] = catalog[b]
    BY <1>t, <2>1, <2>2, WriteAllAssumption DEF TypeOK, Providers, Original, NoProvider
  <2>6. faults' = 0 => \A b \in Aliases : catalog'[b] = NoProvider =>
            Window(c, b)' \/ (catalog[b] = NoProvider /\ ~Window(c, b))
    BY <2>5 DEF Window
  <2>7. AliasPresent'
    BY <1>t, <2>1, <2>3, <2>6, HoleStep
  <2> QED BY <2>3, <2>4, <2>7 DEF WriteAllInv
<1>14. CASE RestoreDeregister(c)
  <2> DEFINE a == CurrentAlias(c)
  <2>1. /\ pc[c] = "restore" /\ replaced[c] # <<>>
        /\ UNCHANGED <<faults, next, taken, replaced, broken>>
        /\ catalog' = [catalog EXCEPT ![a] = NoProvider]
        /\ pc' = [pc EXCEPT ![c] = "restore_register"]
    BY <1>14 DEF RestoreDeregister, MoreToRestore, Goto
  <2>2. a \in Aliases
    BY <1>a, <2>1 DEF MoreToRestore
  <2>3. Frame(c) /\ pc'[c] = "restore_register" /\ TypeOK'
    BY <1>t, <2>1, <2>2 DEF Frame, TypeOK, Labels
  <2>4. PositionInv'
    BY <1>t, <2>1, <2>3, PositionStep DEF Replacing
  <2>5. CurrentAlias(c)' = a
    BY <2>1, <2>3 DEF CurrentAlias
  <2>6. \A b \in Aliases : catalog'[b] = NoProvider =>
            Window(c, b)' \/ (catalog[b] = NoProvider /\ ~Window(c, b))
    BY <1>t, <2>1, <2>2, <2>3, <2>5 DEF Window, TypeOK
  <2>7. AliasPresent'
    BY <1>t, <2>1, <2>3, <2>6, HoleStep
  <2> QED BY <2>3, <2>4, <2>7 DEF WriteAllInv
<1>15. CASE RestoreRegister(c)
  <2> DEFINE a == CurrentAlias(c)
             original == replaced[c][Len(replaced[c])].original
  <2>1. /\ pc[c] = "restore_register" /\ UNCHANGED <<faults, next, taken>>
        /\ catalog' = [catalog EXCEPT ![a] = original]
        /\ Restored(c, "restored")
    BY <1>15 DEF RestoreRegister
  <2>2. a \in Aliases /\ replaced[c] # <<>>
    BY <1>a, <1>q, <2>1
  <2>3. replaced[c][Len(replaced[c])] \in [alias : Aliases, original : Providers]
    BY <1>p, <2>2, LastElement
  <2>4. original \in Providers /\ original # NoProvider
    BY <2>3, WriteAllAssumption DEF Providers, Original, NoProvider
  <2>5. /\ catalog' \in [Aliases -> Providers \cup {NoProvider}] /\ catalog'[a] # NoProvider
        /\ \A b \in Aliases \ {a} : catalog'[b] = catalog[b]
    BY <1>t, <2>1, <2>2, <2>4 DEF TypeOK
  <2> QED BY <1>p, <2>1, <2>2, <2>5, RestoredStep
<1>16. CASE RestoreRegisterFails(c)
  <2>1. /\ pc[c] = "restore_register" /\ UNCHANGED <<catalog, next, taken>>
        /\ Restored(c, "failed") /\ replaced[c] # <<>>
        /\ faults' \in 0 .. MaxFaults /\ (faults' = 0 => faults = 0)
        /\ faults' = 0 => catalog[CurrentAlias(c)] # NoProvider
    BY SMTT(30), <1>16, <1>p, <1>q DEF RestoreRegisterFails, Fault
  <2>2. catalog' \in [Aliases -> Providers \cup {NoProvider}]
    BY <1>t, <2>1 DEF TypeOK
  <2> QED BY <2>1, <2>2, RestoredStep
<1>17. CASE RestoreDeregisterFails(c)
  <2>1. /\ pc[c] = "restore" /\ UNCHANGED <<catalog, next, taken>>
        /\ Restored(c, "failed") /\ replaced[c] # <<>>
        /\ faults' \in 0 .. MaxFaults /\ faults' # 0
    BY SMTT(30), <1>17, <1>p DEF RestoreDeregisterFails, MoreToRestore, Fault
  <2>2. catalog' \in [Aliases -> Providers \cup {NoProvider}]
    BY <1>t, <2>1 DEF TypeOK
  <2> QED BY <2>1, <2>2, RestoredStep
<1> QED
  BY <1>1, <1>2, <1>3, <1>4, <1>5, <1>6, <1>7, <1>8, <1>9, <1>10, <1>11, <1>12, <1>13, <1>14,
     <1>15, <1>16, <1>17 DEF Step

\* The catalog starts with every alias registered.
LEMMA WriteAllInit == Init => WriteAllInv
<1> SUFFICES ASSUME Init PROVE WriteAllInv
  OBVIOUS
<1>1. \A S : <<>> \in Seq(S)
  BY SMTT(30)
<1>2. TypeOK
  BY SMTT(30), <1>1, WriteAllAssumption DEF Init, TypeOK, Labels, Providers
<1>3. PositionInv
  BY DEF Init, PositionInv, Replacing
<1>4. AliasPresent
  BY DEF Init, AliasPresent, Original, NoProvider
<1> QED BY <1>2, <1>3, <1>4 DEF WriteAllInv

\* The inductive invariant of write_all calls on one session.
THEOREM WriteAllInvariant == Spec => []WriteAllInv
<1>1. WriteAllInv /\ [Next]_vars => WriteAllInv'
  <2> SUFFICES ASSUME WriteAllInv, [Next]_vars PROVE WriteAllInv'
    OBVIOUS
  <2>1. CASE Next
    BY <2>1, CallStep DEF Next
  <2>2. CASE UNCHANGED vars
    <3>1. UNCHANGED <<catalog, faults, pc, next, taken, replaced, broken>>
      BY <2>2 DEF vars
    <3>2. TypeOK'
      BY <3>1 DEF WriteAllInv, TypeOK
    <3>3. PositionInv'
      BY <3>1 DEF WriteAllInv, PositionInv
    <3>4. AliasPresent'
      BY <3>1 DEF WriteAllInv, AliasPresent, CurrentAlias
    <3> QED BY <3>2, <3>3, <3>4 DEF WriteAllInv
  <2> QED BY <2>1, <2>2
<1> QED BY <1>1, WriteAllInit, PTL DEF Spec

\* For any number of overlapping write_all calls over any aliases: without a failure
\* of the catalog itself, an alias is missing only while a call is between its
\* deregister and its register; no interleaving of replacements and restorations,
\* and no dropped call, leaves the session without one of its aliases.
THEOREM AliasNeverLost == Spec => []AliasPresent
<1>1. WriteAllInv => AliasPresent
  BY DEF WriteAllInv
<1> QED BY <1>1, WriteAllInvariant, PTL
-----------------------------------------------------------------------------
(* What a call records: reports, outputs, the result and the progress events. *)

Restoring == {"restore", "restore_register"}

Early == {"idle", "plan", "build", "write"} \cup Replacing

Causes == {"none", "lookup", "materialize", "install", "workflow"}

ReportType == [alias : Aliases, status : {"failed", "restored"},
               phase : {"materialize", "install", "restore"}]

ReadType == UNION {[A -> Providers \cup {NoProvider}] : A \in SUBSET Aliases}

OutputType == [status : {"succeeded", "failed", "skipped"}, read : ReadType \cup {<<>>}]

ResultType == [status : {"pending", "ok", "failed"},
               source : Causes \cup {"request", "plan", "restore", "sources"},
               primary : Aliases \cup {NoAlias}, workflow : BOOLEAN]

EventNames == {"started", "materializing_cache", "output", "restoring_cache",
               "reporting_sources"} \cup Terminals

RecordType ==
  /\ reports \in [Calls -> Seq(ReportType)]
  /\ outputs \in [Calls -> Seq(OutputType)]
  /\ cause \in [Calls -> Causes]
  /\ result \in [Calls -> ResultType]
  /\ events \in [Calls -> Seq(EventNames)]

\* The aliases a call tried to replace: the one that failed is among them.
Attempted(c) == IF cause[c] \in {"materialize", "install"} THEN next[c] ELSE next[c] - 1

SomeReportFailed(c) == \E i \in DOMAIN reports[c] : reports[c][i].status = "failed"

\* The replaced aliases are the first ones of the selection.  Once the restoration
\* began, those still replaced and those reported are the attempted ones.
ReplacedInv(c) ==
  /\ Len(replaced[c]) <= Len(Cached(c))
  /\ \A i \in DOMAIN replaced[c] : replaced[c][i].alias = Cached(c)[i]
  /\ pc[c] \in Early => Len(replaced[c]) = next[c] - 1
  /\ pc[c] \in {"build", "write"} => Len(replaced[c]) = Len(Cached(c))

ReportsInv(c) ==
  /\ pc[c] \in Early =>
       reports[c] = <<>> /\ cause[c] = "none" /\ broken[c] = NoAlias
  /\ pc[c] \in Restoring \cup {"sources"} =>
       /\ Len(replaced[c]) + Len(reports[c]) = Attempted(c)
       /\ Attempted(c) <= Len(Cached(c))
       /\ \A i \in DOMAIN reports[c] : reports[c][i].alias = Cached(c)[Len(replaced[c]) + i]
       /\ cause[c] \in {"materialize", "install"} => next[c] \in 1 .. Len(Cached(c))
       /\ cause[c] = "none" => Attempted(c) = Len(Cached(c))
       /\ SomeReportFailed(c) => cause[c] \in {"materialize", "install"} \/ broken[c] # NoAlias
  /\ pc[c] = "sources" => replaced[c] = <<>> /\ cause[c] = "none" /\ broken[c] = NoAlias

\* What FailureVisible says of one call.
VisibleInv(c) ==
  pc[c] = "done" =>
    /\ \A i \in DOMAIN reports[c] : reports[c][i].alias = Cached(c)[i]
    /\ SomeReportFailed(c) =>
         /\ result[c].status = "failed"
         /\ result[c].primary = NoAlias => cause[c] \in {"lookup", "workflow"}
    /\ result[c].status = "ok" =>
         /\ Len(reports[c]) = Len(Cached(c))
         /\ ~SomeReportFailed(c)

\* No output is attempted before the aliases are replaced, and all of them are before
\* they are restored, unless the call has failed without any.
OutputsInv(c) ==
  /\ pc[c] \in Early \ {"write"} => outputs[c] = <<>>
  /\ pc[c] = "write" => Len(outputs[c]) <= Len(Outputs(c))
  /\ pc[c] \in Restoring /\ cause[c] # "none" => outputs[c] = <<>>
  /\ pc[c] \in Restoring /\ cause[c] = "none" => Len(outputs[c]) = Len(Outputs(c))
  /\ pc[c] = "sources" => Len(outputs[c]) = Len(Outputs(c))
  /\ pc[c] = "done" /\ outputs[c] # <<>> =>
       /\ Len(outputs[c]) = Len(Outputs(c))
       /\ result[c].workflow \/ result[c].source = "sources"

Announcements(c) == {i \in DOMAIN events[c] : events[c][i] = "restoring_cache"}

\* Something was replaced and is, or has been, restored.
Restores(c) ==
  replaced[c] # <<>> \/ \E i \in DOMAIN reports[c] : reports[c][i].phase = "restore"

\* The shape of the log: "started" first, terminal events last, outputs before the
\* restoration.
Shape(c) ==
  /\ \A i \in DOMAIN events[c] : events[c][i] = "started" <=> i = 1
  /\ \A i \in DOMAIN events[c] : events[c][i] \in Terminals => i = Len(events[c]) /\ pc[c] = "done"
  /\ \A i, j \in DOMAIN events[c] :
       events[c][i] = "restoring_cache" /\ events[c][j] = "output" => j < i

\* The restoration is announced once, when there is one.
AnnouncedInv(c) ==
  /\ pc[c] \in Early => Announcements(c) = {}
  /\ pc[c] \in Restoring \cup {"sources", "done"} /\ events[c] # <<>> =>
       IF Restores(c) THEN \E k : Announcements(c) = {k} ELSE Announcements(c) = {}

\* The log of a call that returned ends as the call did.
EndInv(c) ==
  pc[c] = "done" =>
    /\ replaced[c] = <<>>
    /\ events[c] # <<>> =>
         /\ events[c][Len(events[c])] \in Terminals
         /\ events[c][Len(events[c])] = "failed" <=> result[c].status = "failed"
         /\ events[c][Len(events[c])] = "completed" => AllSucceeded(c)

EventsInv(c) ==
  /\ Outputs(c) = <<>> => events[c] = <<>>
  /\ pc[c] = "idle" => events[c] = <<>>
  /\ Outputs(c) # <<>> /\ pc[c] \notin {"idle", "done"} => events[c] # <<>>
  /\ Shape(c) /\ AnnouncedInv(c) /\ EndInv(c)

RecordInv ==
  /\ RecordType
  /\ \A c \in Calls : /\ ReplacedInv(c) /\ ReportsInv(c) /\ VisibleInv(c)
                      /\ OutputsInv(c) /\ EventsInv(c)
-----------------------------------------------------------------------------
(* The steps of a call, as the call sees its own variables. *)

\* What a step of call c leaves alone: the variables of the other calls.
LocalFrame(c) ==
  \A d \in Calls \ {c} :
    /\ pc'[d] = pc[d] /\ next'[d] = next[d] /\ taken'[d] = taken[d] /\ replaced'[d] = replaced[d]
    /\ reports'[d] = reports[d] /\ outputs'[d] = outputs[d] /\ cause'[d] = cause[d]
    /\ broken'[d] = broken[d] /\ result'[d] = result[d] /\ events'[d] = events[d]

Keeps(c) ==
  /\ next'[c] = next[c] /\ replaced'[c] = replaced[c] /\ reports'[c] = reports[c]
  /\ cause'[c] = cause[c] /\ broken'[c] = broken[c]

Silent(c) == events'[c] = events[c]

Logged(c, event) ==
  events'[c] = IF Outputs(c) = <<>> THEN events[c] ELSE Append(events[c], event)

Returns(c, res) == result'[c] = res /\ pc'[c] = "done"

RejectView(c) ==
  /\ pc[c] = "idle" /\ Returns(c, Failure("request", NoAlias, FALSE))
  /\ Keeps(c) /\ Silent(c) /\ outputs'[c] = outputs[c]

StartView(c) ==
  /\ pc[c] = "idle" /\ pc'[c] = "plan"
  /\ Keeps(c) /\ Logged(c, "started") /\ outputs'[c] = outputs[c] /\ result'[c] = result[c]

MoveView(c) ==
  /\ \/ pc[c] = "plan" /\ pc'[c] = "build" /\ Cached(c) = <<>>
     \/ pc[c] = "plan" /\ pc'[c] = "lookup" /\ Cached(c) # <<>>
     \/ pc[c] = "materialize" /\ pc'[c] = "deregister"
     \/ pc[c] = "deregister" /\ pc'[c] = "register"
     \/ pc[c] = "register" /\ pc'[c] = "reinstate"
     \/ pc[c] = "build" /\ pc'[c] = "write"
     \/ pc[c] = "restore" /\ pc'[c] = "restore_register" /\ replaced[c] # <<>>
     \/ pc[c] \in {"materialize", "write"} /\ pc'[c] = "cancelled"
  /\ Keeps(c) /\ Silent(c) /\ outputs'[c] = outputs[c] /\ result'[c] = result[c]

AttemptView(c) ==
  /\ pc[c] = "lookup" /\ pc'[c] = "materialize"
  /\ Keeps(c) /\ Logged(c, "materializing_cache")
  /\ outputs'[c] = outputs[c] /\ result'[c] = result[c]

PlanFailsView(c) ==
  /\ pc[c] = "plan" /\ Returns(c, Failure("plan", NoAlias, FALSE))
  /\ Keeps(c) /\ Logged(c, "failed") /\ outputs'[c] = outputs[c]

\* The restoration begins, after a failure or after the outputs.
BeginView(c) ==
  /\ pc'[c] = "restore"
  /\ next'[c] = next[c] /\ replaced'[c] = replaced[c] /\ broken'[c] = broken[c]
  /\ outputs'[c] = outputs[c] /\ result'[c] = result[c]
  /\ IF replaced[c] = <<>> THEN Silent(c) ELSE Logged(c, "restoring_cache")
  /\ \/ /\ pc[c] = "lookup" /\ cause'[c] = "lookup" /\ reports'[c] = reports[c]
     \/ /\ pc[c] \in {"build", "write"} /\ cause'[c] = "workflow" /\ reports'[c] = reports[c]
        /\ pc[c] = "write" => outputs[c] = <<>>
     \/ /\ pc[c] = "write" /\ cause'[c] = cause[c] /\ reports'[c] = reports[c]
        /\ Len(outputs[c]) = Len(Outputs(c))
     \/ /\ pc[c] \in {"materialize", "deregister", "reinstate"}
        /\ cause'[c] \in {"materialize", "install"}
        /\ \E phase \in {"materialize", "install"} : reports'[c] =
             <<[alias |-> Cached(c)[next[c]], status |-> "failed", phase |-> phase]>> \o reports[c]

RegisterView(c) ==
  /\ pc[c] = "register"
  /\ pc'[c] = IF next[c] = Len(Cached(c)) THEN "build" ELSE "lookup"
  /\ next'[c] = next[c] + 1
  /\ replaced'[c] = Append(replaced[c], [alias |-> Cached(c)[next[c]], original |-> taken[c]])
  /\ reports'[c] = reports[c] /\ cause'[c] = cause[c] /\ broken'[c] = broken[c]
  /\ Silent(c) /\ outputs'[c] = outputs[c] /\ result'[c] = result[c]

OutputView(c) ==
  /\ pc[c] = "write" /\ pc'[c] = "write" /\ Len(outputs[c]) < Len(Outputs(c))
  /\ \E o \in OutputType : outputs'[c] = Append(outputs[c], o)
  /\ Keeps(c) /\ result'[c] = result[c] /\ (Silent(c) \/ Logged(c, "output"))

RestoredView(c) ==
  /\ pc[c] \in Restoring /\ pc'[c] = "restore" /\ replaced[c] # <<>>
  /\ \E status \in {"failed", "restored"} :
       /\ reports'[c] = <<[alias |-> replaced[c][Len(replaced[c])].alias, status |-> status,
                           phase |-> "restore"]>> \o reports[c]
       /\ status = "failed" => broken'[c] # NoAlias
       /\ broken[c] # NoAlias => broken'[c] # NoAlias
  /\ replaced'[c] = SubSeq(replaced[c], 1, Len(replaced[c]) - 1)
  /\ next'[c] = next[c] /\ cause'[c] = cause[c]
  /\ Silent(c) /\ outputs'[c] = outputs[c] /\ result'[c] = result[c]

EndRestoreView(c) ==
  /\ pc[c] = "restore" /\ pc'[c] = "sources" /\ replaced[c] = <<>>
  /\ cause[c] = "none" /\ broken[c] = NoAlias
  /\ Keeps(c) /\ Logged(c, "reporting_sources")
  /\ outputs'[c] = outputs[c] /\ result'[c] = result[c]

EndRestoreFailedView(c) ==
  /\ pc[c] = "restore" /\ replaced[c] = <<>>
  /\ \/ cause[c] # "none" /\ Returns(c, Failure(cause[c], FailedAlias(c), FALSE))
     \/ /\ cause[c] = "none" /\ broken[c] # NoAlias
        /\ Returns(c, Failure("restore", broken[c], TRUE))
  /\ Keeps(c) /\ Logged(c, "failed") /\ outputs'[c] = outputs[c]

SourcesView(c) ==
  /\ pc[c] = "sources" /\ Keeps(c) /\ outputs'[c] = outputs[c]
  /\ \/ /\ Returns(c, [Pending EXCEPT !.status = "ok", !.workflow = TRUE])
        /\ Logged(c, IF AllSucceeded(c) THEN "completed" ELSE "completed_with_failures")
     \/ Returns(c, Failure("sources", NoAlias, FALSE)) /\ Logged(c, "failed")

View(c) ==
  \/ RejectView(c) \/ StartView(c) \/ MoveView(c) \/ AttemptView(c) \/ PlanFailsView(c)
  \/ BeginView(c) \/ RegisterView(c) \/ OutputView(c) \/ RestoredView(c)
  \/ EndRestoreView(c) \/ EndRestoreFailedView(c) \/ SourcesView(c)

\* Every step of a call is one of the views and keeps the types.
LEMMA StepView ==
  ASSUME WriteAllInv, RecordType, NEW c \in Calls, ReportsInv(c),
         Step(c) \/ Reject(c) \/ Cancel(c)
  PROVE  RecordType' /\ LocalFrame(c) /\ View(c)
<1>t. /\ pc \in [Calls -> Labels] /\ next \in [Calls -> Nat]
      /\ taken \in [Calls -> Providers \cup {NoProvider}]
      /\ replaced \in [Calls -> Seq([alias : Aliases, original : Providers])]
      /\ broken \in [Calls -> Aliases \cup {NoAlias}]
      /\ catalog \in [Aliases -> Providers \cup {NoProvider}]
  BY DEF WriteAllInv, TypeOK
<1>r. /\ reports \in [Calls -> Seq(ReportType)] /\ outputs \in [Calls -> Seq(OutputType)]
      /\ cause \in [Calls -> Causes] /\ result \in [Calls -> ResultType]
      /\ events \in [Calls -> Seq(EventNames)]
  BY DEF RecordType
<1>e. \A e \in EventNames : Emit(c, e) =>
        /\ events' \in [Calls -> Seq(EventNames)] /\ Logged(c, e)
        /\ \A d \in Calls \ {c} : events'[d] = events[d]
  <2> SUFFICES ASSUME NEW e \in EventNames, Emit(c, e)
               PROVE  /\ events' \in [Calls -> Seq(EventNames)] /\ Logged(c, e)
                      /\ \A d \in Calls \ {c} : events'[d] = events[d]
    OBVIOUS
  <2>1. Append(events[c], e) \in Seq(EventNames)
    BY <1>r, AppendElement
  <2> QED BY <1>r, <2>1 DEF Emit, Logged
<1>c. \A a \in Aliases : \A s \in {"failed", "restored"} : \A p \in {"materialize", "install", "restore"} :
        Report(c, a, s, p) =>
          /\ reports' \in [Calls -> Seq(ReportType)]
          /\ reports'[c] = <<[alias |-> a, status |-> s, phase |-> p]>> \o reports[c]
          /\ \A d \in Calls \ {c} : reports'[d] = reports[d]
  <2> SUFFICES ASSUME NEW a \in Aliases, NEW s \in {"failed", "restored"},
                      NEW p \in {"materialize", "install", "restore"}, Report(c, a, s, p)
               PROVE  /\ reports' \in [Calls -> Seq(ReportType)]
                      /\ reports'[c] = <<[alias |-> a, status |-> s, phase |-> p]>> \o reports[c]
                      /\ \A d \in Calls \ {c} : reports'[d] = reports[d]
    OBVIOUS
  <2> DEFINE r == [alias |-> a, status |-> s, phase |-> p]
  <2>1. r \in ReportType
    BY DEF ReportType
  <2>2. <<r>> \o reports[c] \in Seq(ReportType)
    BY SMTT(30), <1>r, <2>1
  <2> QED BY <1>r, <2>2 DEF Report
<1>b. BeginRestore(c) =>
        /\ pc'[c] = "restore" /\ events' \in [Calls -> Seq(EventNames)]
        /\ IF replaced[c] = <<>> THEN Silent(c) ELSE Logged(c, "restoring_cache")
        /\ \A d \in Calls \ {c} : pc'[d] = pc[d] /\ events'[d] = events[d]
  BY <1>t, <1>r, <1>e DEF BeginRestore, Goto, Silent, EventNames
<1>a. /\ pc[c] \in Replacing => CurrentAlias(c) = Cached(c)[next[c]] /\ CurrentAlias(c) \in Aliases
      /\ pc[c] \in Restoring /\ replaced[c] # <<>> =>
           CurrentAlias(c) = replaced[c][Len(replaced[c])].alias /\ CurrentAlias(c) \in Aliases
  BY CurrentAliasType DEF WriteAllInv, CurrentAlias, Replacing, Restoring
<1>w. pc[c] = "restore_register" => replaced[c] # <<>>
  BY DEF WriteAllInv, PositionInv
<1>1. CASE Reject(c)
  <2>1. Failure("request", NoAlias, FALSE) \in ResultType
    BY DEF Failure, ResultType
  <2>2. RejectView(c) /\ LocalFrame(c) /\ RecordType'
    BY <1>1, <1>t, <1>r, <2>1 DEF Reject, Goto, RejectView, Returns, Keeps, Silent, LocalFrame, RecordType
  <2> QED BY <2>2 DEF View
<1>2. CASE Start(c)
  <2>1. events' \in [Calls -> Seq(EventNames)] /\ Logged(c, "started")
        /\ \A d \in Calls \ {c} : events'[d] = events[d]
    BY <1>2, <1>e DEF Start, EventNames
  <2>2. StartView(c) /\ LocalFrame(c) /\ RecordType'
    BY <1>2, <1>t, <1>r, <2>1 DEF Start, Goto, StartView, Keeps, LocalFrame, RecordType
  <2> QED BY <2>2 DEF View
<1>3. CASE Plan(c) \/ Materialize(c) \/ Deregister(c) \/ RegisterFails(c) \/ BuildJobs(c)
           \/ RestoreDeregister(c) \/ Cancel(c)
  <2>1. UNCHANGED <<next, replaced, reports, outputs, cause, broken, result, events>>
    BY <1>3 DEF Plan, Materialize, Deregister, RegisterFails, BuildJobs, RestoreDeregister, Cancel
  <2>2. /\ \A d \in Calls \ {c} : pc'[d] = pc[d] /\ taken'[d] = taken[d]
        /\ \/ pc[c] = "plan" /\ pc'[c] = "build" /\ Cached(c) = <<>>
           \/ pc[c] = "plan" /\ pc'[c] = "lookup" /\ Cached(c) # <<>>
           \/ pc[c] = "materialize" /\ pc'[c] = "deregister"
           \/ pc[c] = "deregister" /\ pc'[c] = "register"
           \/ pc[c] = "register" /\ pc'[c] = "reinstate"
           \/ pc[c] = "build" /\ pc'[c] = "write"
           \/ pc[c] = "restore" /\ pc'[c] = "restore_register" /\ replaced[c] # <<>>
           \/ pc[c] \in {"materialize", "write"} /\ pc'[c] = "cancelled"
    BY <1>3, <1>t DEF Plan, Materialize, Deregister, RegisterFails, BuildJobs, RestoreDeregister,
                      MoreToRestore, Cancel, Goto
  <2>3. MoveView(c) /\ LocalFrame(c) /\ RecordType'
    BY <1>r, <2>1, <2>2 DEF MoveView, Keeps, Silent, LocalFrame, RecordType
  <2> QED BY <2>3 DEF View
<1>4. CASE Attempt(c)
  <2>1. events' \in [Calls -> Seq(EventNames)] /\ Logged(c, "materializing_cache")
        /\ \A d \in Calls \ {c} : events'[d] = events[d]
    BY <1>4, <1>e DEF Attempt, EventNames
  <2>2. AttemptView(c) /\ LocalFrame(c) /\ RecordType'
    BY <1>4, <1>t, <1>r, <2>1 DEF Attempt, Goto, AttemptView, Keeps, LocalFrame, RecordType
  <2> QED BY <2>2 DEF View
<1>5. CASE PlanFails(c)
  <2> DEFINE res == Failure("plan", NoAlias, FALSE)
  <2>1. res \in ResultType /\ TerminalEvent(c, res) = "failed"
    BY DEF Failure, ResultType, TerminalEvent
  <2>2. events' \in [Calls -> Seq(EventNames)] /\ Logged(c, "failed")
        /\ \A d \in Calls \ {c} : events'[d] = events[d]
    BY <1>5, <1>e, <2>1 DEF PlanFails, Conclude, EventNames, Terminals
  <2>3. PlanFailsView(c) /\ LocalFrame(c) /\ RecordType'
    BY <1>5, <1>t, <1>r, <2>1, <2>2
       DEF PlanFails, Conclude, PlanFailsView, Returns, Keeps, LocalFrame, RecordType
  <2> QED BY <2>3 DEF View
<1>6. CASE LookupFails(c) \/ WorkflowFails(c) \/ EndOutputs(c)
  <2>1. /\ UNCHANGED <<next, taken, replaced, reports, outputs, broken, result>> /\ BeginRestore(c)
        /\ \/ pc[c] = "lookup" /\ Fail(c, "lookup")
           \/ /\ pc[c] \in {"build", "write"} /\ Fail(c, "workflow")
              /\ pc[c] = "write" => outputs[c] = <<>>
           \/ pc[c] = "write" /\ UNCHANGED cause /\ Len(outputs[c]) = Len(Outputs(c))
    BY <1>6 DEF LookupFails, WorkflowFails, EndOutputs
  <2>2. /\ cause' \in [Calls -> Causes] /\ \A d \in Calls \ {c} : cause'[d] = cause[d]
        /\ \/ pc[c] = "lookup" /\ cause'[c] = "lookup"
           \/ /\ pc[c] \in {"build", "write"} /\ cause'[c] = "workflow"
              /\ pc[c] = "write" => outputs[c] = <<>>
           \/ pc[c] = "write" /\ cause'[c] = cause[c] /\ Len(outputs[c]) = Len(Outputs(c))
    BY <1>r, <2>1 DEF Fail, Causes
  <2>3. BeginView(c)
    BY <1>b, <2>1, <2>2 DEF BeginView
  <2>4. LocalFrame(c) /\ RecordType'
    BY <1>b, <1>r, <2>1, <2>2 DEF LocalFrame, RecordType
  <2> QED BY <2>3, <2>4 DEF View
<1>7. CASE MaterializeFails(c) \/ DeregisterFails(c) \/ Reinstate(c)
  <2>1. /\ UNCHANGED <<next, taken, replaced, outputs, broken, result>> /\ BeginRestore(c)
        /\ pc[c] \in {"materialize", "deregister", "reinstate"}
        /\ \E phase \in {"materialize", "install"} :
             Fail(c, phase) /\ Report(c, CurrentAlias(c), "failed", phase)
    BY <1>7 DEF MaterializeFails, DeregisterFails, Reinstate
  <2>2. PICK phase \in {"materialize", "install"} :
             Fail(c, phase) /\ Report(c, CurrentAlias(c), "failed", phase)
    BY <2>1
  <2>3. CurrentAlias(c) = Cached(c)[next[c]] /\ CurrentAlias(c) \in Aliases
    BY <1>a, <2>1 DEF Replacing
  <2>4. /\ reports' \in [Calls -> Seq(ReportType)] /\ \A d \in Calls \ {c} : reports'[d] = reports[d]
        /\ reports'[c] =
             <<[alias |-> Cached(c)[next[c]], status |-> "failed", phase |-> phase]>> \o reports[c]
    BY <1>c, <2>2, <2>3
  <2>5. /\ cause' \in [Calls -> Causes] /\ \A d \in Calls \ {c} : cause'[d] = cause[d]
        /\ cause'[c] \in {"materialize", "install"}
    BY <1>r, <2>2 DEF Fail, Causes
  <2>6. BeginView(c)
    BY <1>b, <2>1, <2>4, <2>5 DEF BeginView
  <2>7. LocalFrame(c) /\ RecordType'
    BY <1>b, <1>r, <2>1, <2>4, <2>5 DEF LocalFrame, RecordType
  <2> QED BY <2>6, <2>7 DEF View
<1>8. CASE Register(c)
  <2>1. /\ pc[c] = "register" /\ UNCHANGED <<taken, reports, outputs, cause, broken, result, events>>
        /\ replaced' = [replaced EXCEPT ![c] =
             Append(replaced[c], [alias |-> CurrentAlias(c), original |-> taken[c]])]
        /\ next' = [next EXCEPT ![c] = next[c] + 1]
        /\ pc' = [pc EXCEPT ![c] = IF next[c] = Len(Cached(c)) THEN "build" ELSE "lookup"]
    BY <1>8 DEF Register, Goto
  <2>2. CurrentAlias(c) = Cached(c)[next[c]]
    BY <1>a, <2>1 DEF Replacing
  <2>3. RegisterView(c)
    BY <1>t, <1>r, <2>1, <2>2 DEF RegisterView, Silent
  <2>4. LocalFrame(c) /\ RecordType'
    BY <1>t, <1>r, <2>1 DEF LocalFrame, RecordType
  <2> QED BY <2>3, <2>4 DEF View
<1>9. CASE WriteOutput(c) \/ SkipOutput(c)
  <2>1. /\ pc[c] = "write" /\ Len(outputs[c]) < Len(Outputs(c))
        /\ UNCHANGED <<pc, next, taken, replaced, reports, cause, broken, result>>
    BY <1>9 DEF WriteOutput, SkipOutput, MoreOutputs
  <2>2. \E o \in OutputType : outputs' = [outputs EXCEPT ![c] = Append(outputs[c], o)]
    <3>1. CASE SkipOutput(c)
      <4>1. [status |-> "skipped", read |-> <<>>] \in OutputType
        BY DEF OutputType
      <4> QED BY <3>1, <4>1 DEF SkipOutput
    <3>2. CASE WriteOutput(c)
      <4> DEFINE reads == Outputs(c)[Len(outputs[c]) + 1]
      <4>1. PICK status \in {"succeeded", "failed"} :
              outputs' = [outputs EXCEPT ![c] = Append(outputs[c],
                [status |-> status, read |-> [a \in reads |-> catalog[a]]])]
        BY <3>2 DEF WriteOutput
      <4>2. reads \in SUBSET Aliases
        <5>1. Outputs(c) \in Seq(SUBSET Aliases) /\ outputs[c] \in Seq(OutputType)
          BY <1>r, WriteAllAssumption DEF Outputs
        <5>2. Len(outputs[c]) + 1 \in 1 .. Len(Outputs(c))
          BY SMTT(30), <2>1, <5>1
        <5> QED BY SMTT(30), <5>1, <5>2
      <4>3. [a \in reads |-> catalog[a]] \in [reads -> Providers \cup {NoProvider}]
        BY <1>t, <4>2
      <4>4. [a \in reads |-> catalog[a]] \in ReadType
        BY <4>2, <4>3 DEF ReadType
      <4>5. [status |-> status, read |-> [a \in reads |-> catalog[a]]] \in OutputType
        BY <4>4 DEF OutputType
      <4> QED BY <4>1, <4>5
    <3> QED BY <1>9, <3>1, <3>2
  <2>3. PICK o \in OutputType : outputs' = [outputs EXCEPT ![c] = Append(outputs[c], o)]
    BY <2>2
  <2>4. /\ outputs' \in [Calls -> Seq(OutputType)] /\ outputs'[c] = Append(outputs[c], o)
        /\ \A d \in Calls \ {c} : outputs'[d] = outputs[d]
    <3>1. Append(outputs[c], o) \in Seq(OutputType)
      BY <1>r, AppendElement
    <3> QED BY <1>r, <2>3, <3>1
  <2>5. /\ events' \in [Calls -> Seq(EventNames)] /\ (Silent(c) \/ Logged(c, "output"))
        /\ \A d \in Calls \ {c} : events'[d] = events[d]
    BY <1>9, <1>r, <1>e DEF WriteOutput, SkipOutput, EventNames, Silent
  <2>6. OutputView(c)
    BY <2>1, <2>4, <2>5 DEF OutputView, Keeps
  <2>7. LocalFrame(c) /\ RecordType'
    BY <1>r, <2>1, <2>4, <2>5 DEF LocalFrame, RecordType
  <2> QED BY <2>6, <2>7 DEF View
<1>10. CASE RestoreDeregisterFails(c) \/ RestoreRegister(c) \/ RestoreRegisterFails(c)
  <2>1. /\ pc[c] \in Restoring /\ replaced[c] # <<>>
        /\ \E status \in {"failed", "restored"} : Restored(c, status)
        /\ UNCHANGED <<next, taken, outputs, cause, result, events>>
    BY <1>10, <1>w DEF RestoreDeregisterFails, RestoreRegister, RestoreRegisterFails, MoreToRestore,
                       Restoring
  <2>2. PICK status \in {"failed", "restored"} : Restored(c, status)
    BY <2>1
  <2>3. CurrentAlias(c) = replaced[c][Len(replaced[c])].alias /\ CurrentAlias(c) \in Aliases
    BY <1>a, <2>1
  <2>4. /\ reports' \in [Calls -> Seq(ReportType)] /\ \A d \in Calls \ {c} : reports'[d] = reports[d]
        /\ reports'[c] = <<[alias |-> replaced[c][Len(replaced[c])].alias, status |-> status,
                            phase |-> "restore"]>> \o reports[c]
    <3>1. Report(c, CurrentAlias(c), status, "restore")
      BY <2>2 DEF Restored
    <3> QED BY <1>c, <2>3, <3>1
  <2>5. /\ \A d \in Calls \ {c} : pc'[d] = pc[d] /\ replaced'[d] = replaced[d] /\ broken'[d] = broken[d]
        /\ pc'[c] = "restore" /\ replaced'[c] = SubSeq(replaced[c], 1, Len(replaced[c]) - 1)
        /\ status = "failed" => broken'[c] # NoAlias
        /\ broken[c] # NoAlias => broken'[c] # NoAlias
    BY <1>t, <2>2, <2>3, WriteAllAssumption DEF Restored, Goto
  <2>6. RestoredView(c)
    BY <2>1, <2>4, <2>5 DEF RestoredView, Silent
  <2>7. LocalFrame(c) /\ RecordType'
    BY <1>r, <2>1, <2>4, <2>5 DEF LocalFrame, RecordType
  <2> QED BY <2>6, <2>7 DEF View
<1>11. CASE EndRestore(c)
  <2>1. events' \in [Calls -> Seq(EventNames)] /\ Logged(c, "reporting_sources")
        /\ \A d \in Calls \ {c} : events'[d] = events[d]
    BY <1>11, <1>e DEF EndRestore, EventNames
  <2>2. EndRestoreView(c) /\ LocalFrame(c) /\ RecordType'
    BY <1>11, <1>t, <1>r, <2>1 DEF EndRestore, Goto, EndRestoreView, Keeps, LocalFrame, RecordType
  <2> QED BY <2>2 DEF View
<1>12. CASE EndRestoreFailed(c)
  <2>1. PICK res : /\ Conclude(c, res) /\ res.status = "failed"
                   /\ \/ cause[c] # "none" /\ res = Failure(cause[c], FailedAlias(c), FALSE)
                      \/ /\ cause[c] = "none" /\ broken[c] # NoAlias
                         /\ res = Failure("restore", broken[c], TRUE)
    BY <1>12 DEF EndRestoreFailed, Failure
  <2>2. /\ pc[c] = "restore" /\ replaced[c] = <<>>
        /\ UNCHANGED <<next, taken, replaced, reports, outputs, cause, broken>>
    BY <1>12 DEF EndRestoreFailed
  <2>3. res \in ResultType
    <3>1. FailedAlias(c) \in Aliases \cup {NoAlias}
      <4>1. cause[c] \in {"materialize", "install"} => next[c] \in 1 .. Len(Cached(c))
        BY <2>2 DEF ReportsInv, Restoring
      <4>2. Cached(c) \in Seq(Aliases)
        BY WriteAllAssumption DEF Cached
      <4> QED BY SMTT(30), <4>1, <4>2 DEF FailedAlias
    <3>2. \A s \in Causes \cup {"restore"} : \A a \in Aliases \cup {NoAlias} : \A w \in BOOLEAN :
            Failure(s, a, w) \in ResultType
      BY DEF Failure, ResultType
    <3>3. cause[c] \in Causes /\ broken[c] \in Aliases \cup {NoAlias}
      BY <1>t, <1>r
    <3>4. CASE res = Failure(cause[c], FailedAlias(c), FALSE)
      BY <3>1, <3>2, <3>3, <3>4
    <3>5. CASE res = Failure("restore", broken[c], TRUE)
      BY <3>2, <3>3, <3>5
    <3> QED BY <2>1, <3>4, <3>5
  <2>4. /\ events' \in [Calls -> Seq(EventNames)] /\ Logged(c, "failed")
        /\ \A d \in Calls \ {c} : events'[d] = events[d]
    BY <1>e, <2>1 DEF Conclude, TerminalEvent, EventNames, Terminals
  <2>5. Returns(c, res) /\ result' \in [Calls -> ResultType]
        /\ \A d \in Calls \ {c} : pc'[d] = pc[d] /\ result'[d] = result[d]
    BY <1>t, <1>r, <2>1, <2>3 DEF Conclude, Returns
  <2>6. EndRestoreFailedView(c) /\ LocalFrame(c) /\ RecordType'
    BY <1>r, <2>1, <2>2, <2>4, <2>5 DEF EndRestoreFailedView, Keeps, LocalFrame, RecordType
  <2> QED BY <2>6 DEF View
<1>13. CASE ReportSources(c)
  <2> DEFINE ok == [Pending EXCEPT !.status = "ok", !.workflow = TRUE]
             failed == Failure("sources", NoAlias, FALSE)
  <2>1. ok \in ResultType /\ failed \in ResultType
    BY DEF Pending, Failure, ResultType, Causes
  <2>2. /\ TerminalEvent(c, ok) = IF AllSucceeded(c) THEN "completed" ELSE "completed_with_failures"
        /\ TerminalEvent(c, failed) = "failed"
    BY DEF TerminalEvent, Pending, Failure
  <2>3. PICK res \in {ok, failed} : Conclude(c, res)
    BY <1>13 DEF ReportSources
  <2>4. /\ events' \in [Calls -> Seq(EventNames)] /\ Logged(c, TerminalEvent(c, res))
        /\ \A d \in Calls \ {c} : events'[d] = events[d]
    <3>1. TerminalEvent(c, res) \in EventNames
      BY <2>2 DEF EventNames, Terminals
    <3> QED BY <1>e, <2>3, <3>1 DEF Conclude
  <2>5. Returns(c, res) /\ result' \in [Calls -> ResultType]
        /\ \A d \in Calls \ {c} : pc'[d] = pc[d] /\ result'[d] = result[d]
    BY <1>t, <1>r, <2>1, <2>3 DEF Conclude, Returns
  <2>6. pc[c] = "sources" /\ UNCHANGED <<next, taken, replaced, reports, outputs, cause, broken>>
    BY <1>13 DEF ReportSources
  <2>7. SourcesView(c)
    BY <2>2, <2>4, <2>5, <2>6 DEF SourcesView, Keeps
  <2>8. LocalFrame(c) /\ RecordType'
    BY <1>r, <2>4, <2>5, <2>6 DEF LocalFrame, RecordType
  <2> QED BY <2>7, <2>8 DEF View
<1> QED
  BY <1>1, <1>2, <1>3, <1>4, <1>5, <1>6, <1>7, <1>8, <1>9, <1>10, <1>11, <1>12, <1>13 DEF Step

\* Sequences: what Append, a new head and the removal of the last element do.
LEMMA AppendAt ==
  ASSUME NEW S, NEW s \in Seq(S), NEW e
  PROVE  /\ Len(Append(s, e)) = Len(s) + 1 /\ Append(s, e) # <<>>
         /\ DOMAIN Append(s, e) = 1 .. Len(s) + 1 /\ DOMAIN s = 1 .. Len(s) /\ Len(s) \in Nat
         /\ \A i \in 1 .. Len(s) : Append(s, e)[i] = s[i]
         /\ Append(s, e)[Len(s) + 1] = e
BY SMTT(30)

LEMMA ConsAt ==
  ASSUME NEW S, NEW s \in Seq(S), NEW e \in S
  PROVE  /\ Len(<<e>> \o s) = Len(s) + 1
         /\ DOMAIN (<<e>> \o s) = 1 .. Len(s) + 1 /\ DOMAIN s = 1 .. Len(s) /\ Len(s) \in Nat
         /\ (<<e>> \o s)[1] = e
         /\ \A i \in 1 .. Len(s) : (<<e>> \o s)[i + 1] = s[i]
BY SMTT(30)

LEMMA FrontAt ==
  ASSUME NEW S, NEW s \in Seq(S), s # <<>>
  PROVE  /\ Len(SubSeq(s, 1, Len(s) - 1)) = Len(s) - 1 /\ Len(s) \in Nat \ {0}
         /\ DOMAIN SubSeq(s, 1, Len(s) - 1) = 1 .. Len(s) - 1 /\ DOMAIN s = 1 .. Len(s)
         /\ \A i \in 1 .. Len(s) - 1 : SubSeq(s, 1, Len(s) - 1)[i] = s[i]
<1>1. Len(s) \in Nat \ {0} /\ DOMAIN s = 1 .. Len(s)
  BY SMTT(30)
<1>2. 1 \in 1 .. Len(s) + 1 /\ Len(s) - 1 \in 0 .. Len(s)
  BY SMTT(30), <1>1
<1> QED BY SMTT(30), <1>1, <1>2

\* The lengths of the sequences of a call.
LEMMA Lengths ==
  ASSUME TypeOK, RecordType, NEW c \in Calls
  PROVE  /\ Len(Cached(c)) \in Nat /\ Len(Outputs(c)) \in Nat /\ next[c] \in Nat
         /\ Len(replaced[c]) \in Nat /\ DOMAIN replaced[c] = 1 .. Len(replaced[c])
         /\ Len(reports[c]) \in Nat /\ DOMAIN reports[c] = 1 .. Len(reports[c])
         /\ Len(outputs[c]) \in Nat /\ DOMAIN outputs[c] = 1 .. Len(outputs[c])
         /\ Len(events[c]) \in Nat /\ DOMAIN events[c] = 1 .. Len(events[c])
         /\ (replaced[c] = <<>> <=> Len(replaced[c]) = 0)
         /\ (outputs[c] = <<>> <=> Len(outputs[c]) = 0)
         /\ (events[c] = <<>> <=> Len(events[c]) = 0)
         /\ (reports[c] = <<>> <=> Len(reports[c]) = 0)
         /\ (Cached(c) = <<>> <=> Len(Cached(c)) = 0)
<1>1. Cached(c) \in Seq(Aliases) /\ Outputs(c) \in Seq(SUBSET Aliases)
  BY WriteAllAssumption DEF Cached, Outputs
<1>2. /\ replaced[c] \in Seq([alias : Aliases, original : Providers]) /\ next[c] \in Nat
      /\ reports[c] \in Seq(ReportType) /\ outputs[c] \in Seq(OutputType)
      /\ events[c] \in Seq(EventNames)
  BY DEF TypeOK, RecordType
<1> QED BY SMTT(30), <1>1, <1>2

\* The replaced aliases stay the first ones of the selection.
LEMMA ReplacedStep ==
  ASSUME WriteAllInv, RecordType, NEW c \in Calls, View(c), ReplacedInv(c)
  PROVE  ReplacedInv(c)'
<1>l. /\ Len(Cached(c)) \in Nat /\ next[c] \in Nat /\ Len(replaced[c]) \in Nat
      /\ DOMAIN replaced[c] = 1 .. Len(replaced[c]) /\ (Cached(c) = <<>> => Len(Cached(c)) = 0)
  BY Lengths DEF WriteAllInv
<1>t. replaced[c] \in Seq([alias : Aliases, original : Providers])
  BY DEF WriteAllInv, TypeOK
<1>q. /\ pc[c] = "plan" => next[c] = 1
      /\ pc[c] = "register" => next[c] \in 1 .. Len(Cached(c))
  BY DEF WriteAllInv, PositionInv, Replacing
<1>k. Cached(c)' = Cached(c)
  BY DEF Cached
<1>1. CASE RejectView(c) \/ StartView(c) \/ AttemptView(c) \/ PlanFailsView(c) \/ OutputView(c)
           \/ EndRestoreView(c) \/ EndRestoreFailedView(c) \/ SourcesView(c)
  <2>1. /\ replaced'[c] = replaced[c] /\ next'[c] = next[c]
        /\ pc'[c] \in Early => pc[c] \in Early
        /\ pc'[c] \in {"build", "write"} => pc[c] \in {"build", "write"}
    BY <1>1 DEF RejectView, StartView, AttemptView, PlanFailsView, OutputView, EndRestoreView,
                EndRestoreFailedView, SourcesView, Keeps, Returns, Early, Replacing
  <2> QED BY <1>k, <2>1 DEF ReplacedInv
<1>2. CASE MoveView(c)
  <2>1. /\ replaced'[c] = replaced[c] /\ next'[c] = next[c]
        /\ pc'[c] \in Early => pc[c] \in Early
        /\ pc'[c] \in {"build", "write"} => pc[c] = "build" \/ (pc[c] = "plan" /\ Cached(c) = <<>>)
    BY <1>2 DEF MoveView, Keeps, Early, Replacing
  <2>2. pc[c] = "plan" => Len(replaced[c]) = 0
    BY SMTT(30), <1>l, <1>q DEF ReplacedInv, Early
  <2> QED BY <1>k, <1>l, <2>1, <2>2 DEF ReplacedInv
<1>3. CASE BeginView(c)
  <2>1. replaced'[c] = replaced[c] /\ next'[c] = next[c] /\ pc'[c] = "restore"
    BY <1>3 DEF BeginView
  <2> QED BY <1>k, <2>1 DEF ReplacedInv, Early, Replacing
<1>4. CASE RegisterView(c)
  <2> DEFINE r == [alias |-> Cached(c)[next[c]], original |-> taken[c]]
  <2>1. /\ pc[c] = "register" /\ next'[c] = next[c] + 1 /\ replaced'[c] = Append(replaced[c], r)
        /\ pc'[c] = IF next[c] = Len(Cached(c)) THEN "build" ELSE "lookup"
    BY <1>4 DEF RegisterView
  <2>2. Len(replaced[c]) = next[c] - 1 /\ next[c] \in 1 .. Len(Cached(c))
    BY <1>q, <2>1 DEF ReplacedInv, Early, Replacing
  <2>3. /\ Len(replaced'[c]) = Len(replaced[c]) + 1 /\ DOMAIN replaced'[c] = 1 .. Len(replaced[c]) + 1
        /\ \A i \in 1 .. Len(replaced[c]) : replaced'[c][i] = replaced[c][i]
        /\ replaced'[c][Len(replaced[c]) + 1] = r
    BY SMTT(30), <1>t, <2>1, AppendAt
  <2>4. \A i \in DOMAIN replaced'[c] : replaced'[c][i].alias = Cached(c)[i]
    <3>1. r.alias = Cached(c)[Len(replaced[c]) + 1]
      BY SMTT(30), <1>l, <2>2
    <3>2. \A i \in 1 .. Len(replaced[c]) : replaced'[c][i].alias = Cached(c)[i]
      BY <1>l, <2>3 DEF ReplacedInv
    <3>3. \A i \in DOMAIN replaced'[c] : i \in 1 .. Len(replaced[c]) \/ i = Len(replaced[c]) + 1
      BY ONLY <1>l, <2>3
    <3>4. replaced'[c][Len(replaced[c]) + 1].alias = Cached(c)[Len(replaced[c]) + 1]
      BY ONLY <2>3, <3>1
    <3> QED BY ONLY <3>2, <3>3, <3>4
  <2>5. /\ Len(replaced'[c]) <= Len(Cached(c)) /\ Len(replaced'[c]) = next'[c] - 1
        /\ pc'[c] = "build" => Len(replaced'[c]) = Len(Cached(c))
        /\ pc'[c] # "write"
    <3>1. Len(replaced'[c]) = Len(replaced[c]) + 1 /\ next'[c] = next[c] + 1
      BY <2>1, <2>3
    <3>2. pc'[c] # "write" /\ (pc'[c] = "build" => next[c] = Len(Cached(c)))
      BY <2>1
    <3> QED BY SMTT(30), <1>l, <2>2, <3>1, <3>2
  <2> QED BY <1>k, <2>4, <2>5 DEF ReplacedInv
<1>5. CASE RestoredView(c)
  <2>1. /\ replaced[c] # <<>> /\ replaced'[c] = SubSeq(replaced[c], 1, Len(replaced[c]) - 1)
        /\ pc'[c] = "restore"
    BY <1>5 DEF RestoredView
  <2>2. /\ Len(replaced'[c]) = Len(replaced[c]) - 1 /\ DOMAIN replaced'[c] = 1 .. Len(replaced[c]) - 1
        /\ \A i \in 1 .. Len(replaced[c]) - 1 : replaced'[c][i] = replaced[c][i]
    BY <1>t, <2>1, FrontAt
  <2>3. Len(replaced'[c]) <= Len(Cached(c)) /\ DOMAIN replaced'[c] \subseteq DOMAIN replaced[c]
    BY SMTT(30), <1>l, <2>2 DEF ReplacedInv
  <2>4. \A i \in DOMAIN replaced'[c] : replaced'[c][i].alias = Cached(c)[i]
    BY <2>2, <2>3 DEF ReplacedInv
  <2> QED BY <1>k, <2>1, <2>3, <2>4 DEF ReplacedInv, Early, Replacing
<1> QED BY <1>1, <1>2, <1>3, <1>4, <1>5 DEF View

\* The reports are those of the attempted aliases that are not replaced any more.
LEMMA ReportsStep ==
  ASSUME WriteAllInv, RecordType, NEW c \in Calls, View(c), ReplacedInv(c), ReportsInv(c)
  PROVE  ReportsInv(c)'
<1>l. /\ Len(Cached(c)) \in Nat /\ next[c] \in Nat /\ Len(replaced[c]) \in Nat
      /\ Len(reports[c]) \in Nat /\ DOMAIN reports[c] = 1 .. Len(reports[c])
      /\ (replaced[c] = <<>> <=> Len(replaced[c]) = 0)
      /\ (reports[c] = <<>> <=> Len(reports[c]) = 0)
  BY Lengths DEF WriteAllInv
<1>t. replaced[c] \in Seq([alias : Aliases, original : Providers]) /\ reports[c] \in Seq(ReportType)
  BY DEF WriteAllInv, TypeOK, RecordType
<1>q. pc[c] \in Replacing => next[c] \in 1 .. Len(Cached(c))
  BY DEF WriteAllInv, PositionInv
<1>k. Cached(c)' = Cached(c)
  BY DEF Cached
<1>1. CASE RejectView(c) \/ StartView(c) \/ AttemptView(c) \/ PlanFailsView(c) \/ OutputView(c)
           \/ EndRestoreFailedView(c) \/ SourcesView(c) \/ MoveView(c)
  <2>1. /\ Keeps(c) /\ pc'[c] # "sources"
        /\ pc'[c] \in Early => pc[c] \in Early
        /\ pc'[c] \in Restoring => pc[c] \in Restoring
    BY <1>1 DEF RejectView, StartView, AttemptView, PlanFailsView, OutputView, EndRestoreFailedView,
                SourcesView, MoveView, Returns, Early, Replacing, Restoring
  <2> QED BY <1>k, <2>1 DEF ReportsInv, Keeps, Attempted, SomeReportFailed
<1>2. CASE EndRestoreView(c)
  <2>1. /\ Keeps(c) /\ pc'[c] = "sources" /\ pc[c] = "restore"
        /\ replaced[c] = <<>> /\ cause[c] = "none" /\ broken[c] = NoAlias
    BY <1>2 DEF EndRestoreView
  <2> QED BY <1>k, <2>1 DEF ReportsInv, Keeps, Attempted, SomeReportFailed, Early, Replacing, Restoring
<1>3. CASE RegisterView(c)
  <2>1. /\ pc[c] = "register" /\ pc'[c] \in {"build", "lookup"}
        /\ reports'[c] = reports[c] /\ cause'[c] = cause[c] /\ broken'[c] = broken[c]
    BY <1>3 DEF RegisterView
  <2> QED BY <2>1 DEF ReportsInv, Early, Replacing, Restoring
<1>4. CASE BeginView(c)
  <2>0. /\ pc'[c] = "restore" /\ next'[c] = next[c] /\ replaced'[c] = replaced[c]
        /\ broken'[c] = broken[c]
    BY <1>4 DEF BeginView
  <2>1. /\ pc[c] \in {"lookup", "materialize", "deregister", "reinstate", "build", "write"}
        /\ reports[c] = <<>> /\ cause[c] = "none" /\ Len(replaced[c]) = next[c] - 1
        /\ Len(replaced[c]) <= Len(Cached(c))
        /\ pc[c] \in {"build", "write"} => Len(replaced[c]) = Len(Cached(c))
    BY <1>4 DEF BeginView, ReportsInv, ReplacedInv, Early, Replacing
  <2>2. CASE /\ reports'[c] = reports[c]
             /\ \/ pc[c] = "lookup" /\ cause'[c] = "lookup"
                \/ pc[c] \in {"build", "write"} /\ cause'[c] = "workflow"
                \/ pc[c] = "write" /\ cause'[c] = cause[c]
    <3>1. Attempted(c)' = next[c] - 1 /\ (cause'[c] = "none" => pc[c] = "write")
      BY <2>0, <2>1, <2>2 DEF Attempted
    <3>2. Len(reports'[c]) = 0 /\ DOMAIN reports'[c] = {}
      BY SMTT(30), <1>l, <2>1, <2>2
    <3>3. cause'[c] \notin {"materialize", "install"}
      BY <2>1, <2>2
    <3> QED BY SMTT(30), <1>k, <1>l, <2>0, <2>1, <3>1, <3>2, <3>3
            DEF ReportsInv, SomeReportFailed, Early, Replacing, Restoring
  <2>3. CASE /\ pc[c] \in {"materialize", "deregister", "reinstate"}
             /\ cause'[c] \in {"materialize", "install"}
             /\ \E phase \in {"materialize", "install"} : reports'[c] =
                  <<[alias |-> Cached(c)[next[c]], status |-> "failed", phase |-> phase]>> \o reports[c]
    <3>1. PICK phase \in {"materialize", "install"} : reports'[c] =
                  <<[alias |-> Cached(c)[next[c]], status |-> "failed", phase |-> phase]>> \o reports[c]
      BY <2>3
    <3> DEFINE r == [alias |-> Cached(c)[next[c]], status |-> "failed", phase |-> phase]
    <3>2. next[c] \in 1 .. Len(Cached(c))
      BY <1>q, <2>3 DEF Replacing
    <3>3. r \in ReportType
      <4>1. Cached(c) \in Seq(Aliases)
        BY WriteAllAssumption DEF Cached
      <4>2. Cached(c)[next[c]] \in Aliases
        BY SMTT(30), <3>2, <4>1
      <4> QED BY <4>2 DEF ReportType
    <3>4. Len(reports'[c]) = 1 /\ DOMAIN reports'[c] = 1 .. 1 /\ reports'[c][1] = r
      BY SMTT(30), <1>t, <1>l, <2>1, <3>1, <3>3, ConsAt
    <3>5. Attempted(c)' = next[c]
      BY <2>0, <2>3 DEF Attempted
    <3>6. \A i \in DOMAIN reports'[c] : reports'[c][i].alias = Cached(c)[Len(replaced[c]) + i]
      BY SMTT(30), <1>l, <2>1, <3>4
    <3>7. cause'[c] # "none"
      BY <2>3
    <3> QED BY SMTT(30), <1>k, <1>l, <2>0, <2>1, <2>3, <3>2, <3>4, <3>5, <3>6, <3>7
            DEF ReportsInv, Early, Replacing, Restoring
  <2> QED BY <1>4, <2>2, <2>3 DEF BeginView
<1>5. CASE RestoredView(c)
  <2>0. /\ pc[c] \in Restoring /\ pc'[c] = "restore" /\ replaced[c] # <<>>
        /\ replaced'[c] = SubSeq(replaced[c], 1, Len(replaced[c]) - 1)
        /\ next'[c] = next[c] /\ cause'[c] = cause[c]
    BY <1>5 DEF RestoredView
  <2>1. PICK status \in {"failed", "restored"} :
       /\ reports'[c] = <<[alias |-> replaced[c][Len(replaced[c])].alias, status |-> status,
                           phase |-> "restore"]>> \o reports[c]
       /\ status = "failed" => broken'[c] # NoAlias
       /\ broken[c] # NoAlias => broken'[c] # NoAlias
    BY <1>5 DEF RestoredView
  <2> DEFINE r == [alias |-> replaced[c][Len(replaced[c])].alias, status |-> status,
                   phase |-> "restore"]
  <2>2. replaced[c][Len(replaced[c])] \in [alias : Aliases, original : Providers]
    BY <1>t, <2>0, LastElement
  <2>3. r \in ReportType
    BY <2>2 DEF ReportType
  <2>4. /\ Len(reports'[c]) = Len(reports[c]) + 1 /\ DOMAIN reports'[c] = 1 .. Len(reports[c]) + 1
        /\ reports'[c][1] = r /\ \A i \in 1 .. Len(reports[c]) : reports'[c][i + 1] = reports[c][i]
    BY SMTT(30), <1>t, <2>1, <2>3, ConsAt
  <2>5. Len(replaced'[c]) = Len(replaced[c]) - 1 /\ Len(replaced[c]) \in Nat \ {0}
    BY <1>t, <2>0, FrontAt
  <2>6. /\ Len(replaced[c]) + Len(reports[c]) = Attempted(c) /\ Attempted(c) <= Len(Cached(c))
        /\ \A i \in DOMAIN reports[c] : reports[c][i].alias = Cached(c)[Len(replaced[c]) + i]
        /\ cause[c] \in {"materialize", "install"} => next[c] \in 1 .. Len(Cached(c))
        /\ cause[c] = "none" => Attempted(c) = Len(Cached(c))
        /\ SomeReportFailed(c) => cause[c] \in {"materialize", "install"} \/ broken[c] # NoAlias
    BY <2>0 DEF ReportsInv
  <2>7. Attempted(c)' = Attempted(c)
    BY <2>0 DEF Attempted
  <2>8. r.alias = Cached(c)[Len(replaced[c])]
    <3>1. Len(replaced[c]) \in DOMAIN replaced[c]
      BY SMTT(30), <1>t, <2>5
    <3> QED BY <3>1 DEF ReplacedInv
  <2>9. \A i \in DOMAIN reports'[c] : reports'[c][i].alias = Cached(c)[Len(replaced'[c]) + i]
    <3> SUFFICES ASSUME NEW i \in 1 .. Len(reports[c]) + 1
                 PROVE  reports'[c][i].alias = Cached(c)[Len(replaced'[c]) + i]
      BY <2>4
    <3>1. CASE i = 1
      BY SMTT(30), <2>4, <2>5, <2>8, <3>1
    <3>2. CASE i # 1
      <4>1. i - 1 \in 1 .. Len(reports[c]) /\ (i - 1) + 1 = i
        BY SMTT(30), <1>l, <3>2
      <4>2. reports'[c][i] = reports[c][i - 1]
        BY <2>4, <4>1
      <4>3. Len(replaced'[c]) + i = Len(replaced[c]) + (i - 1)
        BY SMTT(30), <1>l, <2>5
      <4> QED BY <1>l, <2>6, <4>1, <4>2, <4>3
    <3> QED BY <3>1, <3>2
  <2>10. SomeReportFailed(c)' => cause[c] \in {"materialize", "install"} \/ broken'[c] # NoAlias
    <3> SUFFICES ASSUME NEW i \in 1 .. Len(reports[c]) + 1, reports'[c][i].status = "failed"
                 PROVE  cause[c] \in {"materialize", "install"} \/ broken'[c] # NoAlias
      BY <2>4 DEF SomeReportFailed
    <3>1. CASE i = 1
      BY SMTT(30), <2>1, <2>4, <3>1
    <3>2. CASE i # 1
      <4>1. i - 1 \in 1 .. Len(reports[c]) /\ (i - 1) + 1 = i
        BY SMTT(30), <1>l, <3>2
      <4>2. SomeReportFailed(c)
        BY <1>l, <2>4, <4>1 DEF SomeReportFailed
      <4> QED BY <2>1, <2>6, <4>2
    <3> QED BY <3>1, <3>2
  <2>11. Len(replaced'[c]) + Len(reports'[c]) = Attempted(c)
    <3>1. (Len(replaced[c]) - 1) + (Len(reports[c]) + 1) = Len(replaced[c]) + Len(reports[c])
      <4>1. \A m, n \in Nat : (m - 1) + (n + 1) = m + n
        BY SMTT(30)
      <4> QED BY <1>l, <4>1
    <3>2. /\ Len(replaced'[c]) = Len(replaced[c]) - 1 /\ Len(reports'[c]) = Len(reports[c]) + 1
          /\ Len(replaced[c]) + Len(reports[c]) = Attempted(c)
      BY <2>4, <2>5, <2>6
    <3> QED BY <3>1, <3>2
  <2>12. pc'[c] \notin Early /\ pc'[c] # "sources"
    BY <2>0 DEF Early, Replacing
  <2> QED BY <1>k, <2>0, <2>6, <2>7, <2>9, <2>10, <2>11, <2>12 DEF ReportsInv
<1> QED BY <1>1, <1>2, <1>3, <1>4, <1>5 DEF View

\* A call that returns tells of every alias that failed.
LEMMA VisibleStep ==
  ASSUME WriteAllInv, RecordType, NEW c \in Calls, View(c), ReportsInv(c)
  PROVE  VisibleInv(c)'
<1>l. /\ Len(Cached(c)) \in Nat /\ next[c] \in Nat /\ Len(reports[c]) \in Nat
      /\ DOMAIN reports[c] = 1 .. Len(reports[c]) /\ (reports[c] = <<>> => Len(reports[c]) = 0)
      /\ (replaced[c] = <<>> => Len(replaced[c]) = 0)
  BY Lengths DEF WriteAllInv
<1>k. Cached(c)' = Cached(c)
  BY DEF Cached
<1>s. reports'[c] = reports[c] => SomeReportFailed(c)' = SomeReportFailed(c)
  BY DEF SomeReportFailed
<1>1. CASE RejectView(c) \/ PlanFailsView(c)
  <2>1. reports'[c] = reports[c] /\ result'[c].status = "failed" /\ pc[c] \in Early
    BY SMTT(30), <1>1 DEF RejectView, PlanFailsView, Keeps, Returns, Failure, Early
  <2>2. DOMAIN reports'[c] = {}
    BY SMTT(30), <1>l, <2>1 DEF ReportsInv
  <2> QED BY <2>1, <2>2 DEF VisibleInv, SomeReportFailed
<1>2. CASE EndRestoreFailedView(c)
  <2>0. pc[c] = "restore" /\ replaced[c] = <<>> /\ Keeps(c)
    BY <1>2 DEF EndRestoreFailedView
  <2>1. \A i \in DOMAIN reports[c] : reports[c][i].alias = Cached(c)[i]
    BY SMTT(30), <1>l, <2>0 DEF ReportsInv, Restoring
  <2>2. result'[c].status = "failed"
    BY SMTT(30), <1>2 DEF EndRestoreFailedView, Returns, Failure
  <2>3. result'[c].primary = NoAlias => cause[c] \in {"lookup", "workflow"}
    <3>1. CASE cause[c] # "none" /\ Returns(c, Failure(cause[c], FailedAlias(c), FALSE))
      <4>1. cause[c] \in Causes /\ result'[c].primary = FailedAlias(c)
        BY SMTT(30), <3>1 DEF RecordType, Returns, Failure
      <4>2. ASSUME cause[c] \in {"materialize", "install"} PROVE FailedAlias(c) # NoAlias
        <5>1. next[c] \in 1 .. Len(Cached(c)) /\ Cached(c) \in Seq(Aliases)
          BY <2>0, <4>2, WriteAllAssumption DEF ReportsInv, Restoring, Cached
        <5>2. Cached(c)[next[c]] \in Aliases
          BY SMTT(30), <5>1
        <5> QED BY <4>2, <5>2, WriteAllAssumption DEF FailedAlias
      <4> QED BY <3>1, <4>1, <4>2 DEF Causes
    <3>2. CASE broken[c] # NoAlias /\ Returns(c, Failure("restore", broken[c], TRUE))
      BY SMTT(30), <3>2 DEF Returns, Failure
    <3> QED BY <1>2, <3>1, <3>2 DEF EndRestoreFailedView
  <2>4. reports'[c] = reports[c] /\ cause'[c] = cause[c]
    BY <2>0 DEF Keeps
  <2> QED BY <1>k, <2>1, <2>2, <2>3, <2>4 DEF VisibleInv
<1>3. CASE SourcesView(c)
  <2>0. pc[c] = "sources" /\ reports'[c] = reports[c]
    BY <1>3 DEF SourcesView, Keeps
  <2>1. /\ \A i \in DOMAIN reports[c] : reports[c][i].alias = Cached(c)[i]
        /\ ~SomeReportFailed(c) /\ Len(reports[c]) = Len(Cached(c))
    <3>1. /\ Len(replaced[c]) + Len(reports[c]) = Attempted(c) /\ cause[c] = "none"
          /\ broken[c] = NoAlias /\ Len(replaced[c]) = 0 /\ Attempted(c) = Len(Cached(c))
          /\ \A i \in DOMAIN reports[c] : reports[c][i].alias = Cached(c)[Len(replaced[c]) + i]
          /\ SomeReportFailed(c) => cause[c] \in {"materialize", "install"} \/ broken[c] # NoAlias
      BY <1>l, <2>0 DEF ReportsInv
    <3>2. Len(reports[c]) = Len(Cached(c)) /\ ~SomeReportFailed(c)
      BY SMTT(30), <1>l, <3>1
    <3>3. \A i \in DOMAIN reports[c] : Len(replaced[c]) + i = i
      BY SMTT(30), <1>l, <3>1
    <3> QED BY <3>1, <3>2, <3>3
  <2> QED BY <1>k, <1>s, <2>0, <2>1 DEF VisibleInv
<1>4. CASE StartView(c) \/ MoveView(c) \/ AttemptView(c) \/ BeginView(c) \/ RegisterView(c)
           \/ OutputView(c) \/ RestoredView(c) \/ EndRestoreView(c)
  <2>1. pc'[c] # "done"
    BY <1>4 DEF StartView, MoveView, AttemptView, BeginView, RegisterView, OutputView, RestoredView,
                EndRestoreView
  <2> QED BY <2>1 DEF VisibleInv
<1> QED BY <1>1, <1>2, <1>3, <1>4 DEF View

\* The outputs of a call are all attempted or none is, and the report of them returned.
LEMMA OutputsStep ==
  ASSUME WriteAllInv, RecordType, NEW c \in Calls, View(c), ReportsInv(c), OutputsInv(c)
  PROVE  OutputsInv(c)'
<1>l. /\ Len(Outputs(c)) \in Nat /\ Len(outputs[c]) \in Nat
      /\ (outputs[c] = <<>> <=> Len(outputs[c]) = 0)
  BY Lengths DEF WriteAllInv
<1>k. Outputs(c)' = Outputs(c)
  BY DEF Outputs
<1>1. CASE RejectView(c) \/ PlanFailsView(c)
  <2>1. outputs'[c] = outputs[c] /\ pc'[c] = "done" /\ pc[c] \in Early \ {"write"}
    BY <1>1 DEF RejectView, PlanFailsView, Returns, Early
  <2>2. outputs'[c] = <<>>
    BY <2>1 DEF OutputsInv
  <2> QED BY <2>1, <2>2 DEF OutputsInv, Early, Replacing, Restoring
<1>2. CASE StartView(c) \/ AttemptView(c) \/ MoveView(c) \/ RegisterView(c) \/ RestoredView(c)
  <2>1. /\ outputs'[c] = outputs[c] /\ cause'[c] = cause[c] /\ pc'[c] \notin {"sources", "done"}
        /\ pc'[c] \in Early => pc[c] \in Early \ {"write"}
        /\ pc'[c] \in Restoring => pc[c] \in Restoring
    BY <1>2 DEF StartView, AttemptView, MoveView, RegisterView, RestoredView, Keeps, Early,
                Replacing, Restoring
  <2>2. pc'[c] \in Early => outputs'[c] = <<>>
    BY <2>1 DEF OutputsInv
  <2>3. pc'[c] = "write" => Len(outputs'[c]) <= Len(Outputs(c))
    BY SMTT(30), <1>l, <2>1, <2>2 DEF Early
  <2> QED BY <1>k, <2>1, <2>2, <2>3 DEF OutputsInv
<1>3. CASE BeginView(c)
  <2>1. pc'[c] = "restore" /\ outputs'[c] = outputs[c] /\ pc[c] \in Early
    BY <1>3 DEF BeginView, Early, Replacing
  <2>2. cause[c] = "none"
    BY <2>1 DEF ReportsInv
  <2>3. CASE pc[c] = "write" /\ cause'[c] = cause[c] /\ Len(outputs[c]) = Len(Outputs(c))
    BY <1>k, <2>1, <2>2, <2>3 DEF OutputsInv, Early, Replacing
  <2>4. CASE cause'[c] # "none" /\ (pc[c] = "write" => outputs[c] = <<>>)
    <3>1. outputs[c] = <<>>
      BY <2>1, <2>4 DEF OutputsInv
    <3> QED BY <2>1, <2>4, <3>1 DEF OutputsInv, Early, Replacing
  <2> QED BY <1>3, <2>3, <2>4 DEF BeginView
<1>4. CASE OutputView(c)
  <2>1. /\ pc'[c] = "write" /\ Len(outputs[c]) < Len(Outputs(c))
        /\ \E o \in OutputType : outputs'[c] = Append(outputs[c], o)
    BY <1>4 DEF OutputView
  <2>2. outputs[c] \in Seq(OutputType)
    BY DEF RecordType
  <2>3. Len(outputs'[c]) = Len(outputs[c]) + 1
    BY <2>1, <2>2, AppendAt
  <2>4. Len(outputs'[c]) <= Len(Outputs(c))
    BY SMTT(30), <1>l, <2>1, <2>3
  <2> QED BY <1>k, <2>1, <2>4 DEF OutputsInv, Early, Replacing, Restoring
<1>5. CASE EndRestoreView(c)
  <2>1. pc'[c] = "sources" /\ outputs'[c] = outputs[c] /\ pc[c] = "restore" /\ cause[c] = "none"
    BY <1>5 DEF EndRestoreView
  <2>2. Len(outputs'[c]) = Len(Outputs(c))
    BY <2>1 DEF OutputsInv, Restoring
  <2> QED BY <1>k, <2>1, <2>2 DEF OutputsInv, Early, Replacing, Restoring
<1>6. CASE EndRestoreFailedView(c)
  <2>1. pc'[c] = "done" /\ outputs'[c] = outputs[c] /\ pc[c] = "restore"
    BY <1>6 DEF EndRestoreFailedView, Returns
  <2>2. CASE cause[c] # "none"
    <3>1. outputs'[c] = <<>>
      BY <2>1, <2>2 DEF OutputsInv, Restoring
    <3> QED BY <2>1, <3>1 DEF OutputsInv, Early, Replacing, Restoring
  <2>3. CASE cause[c] = "none"
    <3>1. Len(outputs'[c]) = Len(Outputs(c))
      BY <2>1, <2>3 DEF OutputsInv, Restoring
    <3>2. result'[c] = Failure("restore", broken[c], TRUE)
      BY <1>6, <2>3 DEF EndRestoreFailedView, Returns
    <3>3. result'[c].workflow
      BY SMTT(30), <3>2 DEF Failure
    <3> QED BY <1>k, <2>1, <3>1, <3>3 DEF OutputsInv, Early, Replacing, Restoring
  <2> QED BY <2>2, <2>3
<1>7. CASE SourcesView(c)
  <2>1. pc'[c] = "done" /\ outputs'[c] = outputs[c] /\ pc[c] = "sources"
    BY <1>7 DEF SourcesView, Returns
  <2>2. Len(outputs'[c]) = Len(Outputs(c))
    BY <2>1 DEF OutputsInv
  <2>3. CASE result'[c] = [Pending EXCEPT !.status = "ok", !.workflow = TRUE]
    <3>1. result'[c].workflow
      BY <2>3 DEF Pending
    <3> QED BY <1>k, <2>1, <2>2, <3>1 DEF OutputsInv, Early, Replacing, Restoring
  <2>4. CASE result'[c] = Failure("sources", NoAlias, FALSE)
    <3>1. result'[c].source = "sources"
      BY SMTT(30), <2>4 DEF Failure
    <3> QED BY <1>k, <2>1, <2>2, <3>1 DEF OutputsInv, Early, Replacing, Restoring
  <2> QED BY <1>7, <2>3, <2>4 DEF SourcesView, Returns
<1> QED BY <1>1, <1>2, <1>3, <1>4, <1>5, <1>6, <1>7 DEF View

\* What logging one more event does to the log of a call.
LEMMA LoggedAt ==
  ASSUME RecordType, NEW c \in Calls, NEW e, Logged(c, e), Outputs(c) # <<>>
  PROVE  /\ Len(events[c]) \in Nat /\ DOMAIN events[c] = 1 .. Len(events[c])
         /\ Len(events'[c]) = Len(events[c]) + 1 /\ events'[c] # <<>>
         /\ DOMAIN events'[c] = 1 .. Len(events[c]) + 1
         /\ events'[c][Len(events[c]) + 1] = e
         /\ \A i \in 1 .. Len(events[c]) : events'[c][i] = events[c][i]
         /\ e # "restoring_cache" => Announcements(c)' = Announcements(c)
         /\ e = "restoring_cache" /\ Announcements(c) = {} =>
              Announcements(c)' = {Len(events[c]) + 1}
<1>1. events[c] \in Seq(EventNames) /\ events'[c] = Append(events[c], e)
  BY DEF RecordType, Logged
<1>2. /\ Len(events[c]) \in Nat /\ DOMAIN events[c] = 1 .. Len(events[c])
      /\ Len(events'[c]) = Len(events[c]) + 1 /\ events'[c] # <<>>
      /\ DOMAIN events'[c] = 1 .. Len(events[c]) + 1
      /\ events'[c][Len(events[c]) + 1] = e
      /\ \A i \in 1 .. Len(events[c]) : events'[c][i] = events[c][i]
  BY SMTT(30), <1>1, AppendAt
<1> DEFINE n == Len(events[c])
<1>3. \A i : i \in 1 .. n + 1 <=> i \in 1 .. n \/ i = n + 1
  BY SMTT(30), <1>2
<1>4. n + 1 \notin 1 .. n
  BY SMTT(30), <1>2
<1>5. ASSUME e # "restoring_cache" PROVE Announcements(c)' = Announcements(c)
  BY <1>2, <1>3, <1>5 DEF Announcements
<1>6. ASSUME e = "restoring_cache", Announcements(c) = {} PROVE Announcements(c)' = {n + 1}
  BY <1>2, <1>3, <1>6 DEF Announcements
<1> QED BY <1>2, <1>5, <1>6

\* An event that is logged in its turn keeps the shape.
LEMMA ShapeLogged ==
  ASSUME RecordType, NEW c \in Calls, NEW e, Logged(c, e), Outputs(c) # <<>>, Shape(c),
         pc[c] # "done", e = "started" <=> events[c] = <<>>,
         e \in Terminals => pc'[c] = "done",
         e = "output" => Announcements(c) = {}
  PROVE  Shape(c)'
<1> DEFINE n == Len(events[c])
<1>1. /\ n \in Nat /\ DOMAIN events[c] = 1 .. n /\ Len(events'[c]) = n + 1
      /\ DOMAIN events'[c] = 1 .. n + 1 /\ events'[c][n + 1] = e
      /\ \A i \in 1 .. n : events'[c][i] = events[c][i]
  BY LoggedAt
<1>2. \A i \in 1 .. n + 1 : i \in 1 .. n \/ i = n + 1
  BY SMTT(30), <1>1
<1>3. \A i \in DOMAIN events'[c] : events'[c][i] = "started" <=> i = 1
  <2>1. events[c] = <<>> <=> n = 0
    BY SMTT(30) DEF RecordType
  <2>2. e = "started" <=> n + 1 = 1
    BY SMTT(30), <1>1, <2>1
  <2>3. \A i \in 1 .. n : events[c][i] = "started" <=> i = 1
    BY <1>1 DEF Shape
  <2> QED BY <1>1, <1>2, <2>2, <2>3
<1>4. \A i \in DOMAIN events'[c] : events'[c][i] \in Terminals => i = n + 1 /\ pc'[c] = "done"
  <2>1. \A i \in 1 .. n : events[c][i] \notin Terminals
    BY <1>1 DEF Shape
  <2> QED BY <1>1, <1>2, <2>1
<1>5. ASSUME NEW i \in 1 .. n + 1, NEW j \in 1 .. n + 1,
             events'[c][i] = "restoring_cache", events'[c][j] = "output"
      PROVE  j < i
  <2>1. CASE i \in 1 .. n /\ j \in 1 .. n
    BY <1>1, <1>5, <2>1 DEF Shape
  <2>2. CASE i = n + 1 /\ j \in 1 .. n
    BY SMTT(30), <1>1, <2>2
  <2>3. CASE j = n + 1
    <3>1. e = "output" /\ Announcements(c) = {} /\ e # "restoring_cache"
      BY <1>1, <1>5, <2>3
    <3>2. i \in 1 .. n
      BY <1>1, <1>2, <1>5, <3>1
    <3>3. i \in Announcements(c)
      BY <1>1, <1>5, <3>2 DEF Announcements
    <3> QED BY <3>1, <3>3
  <2> QED BY <1>2, <2>1, <2>2, <2>3
<1> QED BY <1>1, <1>3, <1>4, <1>5 DEF Shape

\* The log stays well formed, and ends as the call does.
LEMMA EventsStep ==
  ASSUME WriteAllInv, RecordType, NEW c \in Calls, View(c), ReplacedInv(c), ReportsInv(c),
         EventsInv(c)
  PROVE  EventsInv(c)'
<1>l. /\ Len(replaced[c]) \in Nat /\ (replaced[c] = <<>> <=> Len(replaced[c]) = 0)
      /\ Len(events[c]) \in Nat /\ DOMAIN events[c] = 1 .. Len(events[c])
      /\ (events[c] = <<>> <=> Len(events[c]) = 0)
      /\ DOMAIN reports[c] = 1 .. Len(reports[c]) /\ (reports[c] = <<>> => DOMAIN reports[c] = {})
  BY SMTT(30), Lengths DEF WriteAllInv
<1>k. Outputs(c)' = Outputs(c)
  BY DEF Outputs
<1>i. /\ Outputs(c) = <<>> => events[c] = <<>>
      /\ pc[c] = "idle" => events[c] = <<>>
      /\ Outputs(c) # <<>> /\ pc[c] \notin {"idle", "done"} => events[c] # <<>>
      /\ Shape(c) /\ AnnouncedInv(c) /\ EndInv(c)
  BY DEF EventsInv
<1>0. pc'[c] # "idle" /\ pc[c] # "done" /\ (pc'[c] = "done" => replaced'[c] = <<>>)
  <2>1. pc[c] \in {"idle", "plan"} => replaced[c] = <<>>
    <3>1. pc[c] \in {"idle", "plan"} => next[c] = 1 /\ Len(replaced[c]) = next[c] - 1
      BY DEF WriteAllInv, PositionInv, ReplacedInv, Early
    <3> QED BY SMTT(30), <1>l, <3>1
  <2>2. pc[c] = "sources" => replaced[c] = <<>>
    BY DEF ReportsInv
  <2>3. CASE RejectView(c) \/ PlanFailsView(c) \/ EndRestoreFailedView(c) \/ SourcesView(c)
    BY <2>1, <2>2, <2>3 DEF RejectView, PlanFailsView, EndRestoreFailedView, SourcesView, Keeps, Returns
  <2>4. CASE StartView(c) \/ MoveView(c) \/ AttemptView(c) \/ BeginView(c) \/ RegisterView(c)
             \/ OutputView(c) \/ RestoredView(c) \/ EndRestoreView(c)
    BY <2>4 DEF StartView, MoveView, AttemptView, BeginView, RegisterView, OutputView, RestoredView,
                EndRestoreView, Restoring
  <2> QED BY <2>3, <2>4 DEF View
<1>s. Silent(c) =>
        /\ Announcements(c)' = Announcements(c)
        /\ (pc'[c] = "done" /\ events[c] # <<>>) \/ Shape(c)'
  BY <1>0, <1>i DEF Silent, Announcements, Shape
<1>w. events'[c] = <<>> /\ (Outputs(c) = <<>> \/ pc'[c] = "done") => EventsInv(c)'
  <2>1. DOMAIN <<>> = {}
    BY SMTT(30)
  <2> SUFFICES ASSUME events'[c] = <<>>, Outputs(c) = <<>> \/ pc'[c] = "done"
               PROVE  EventsInv(c)'
    OBVIOUS
  <2>2. DOMAIN events'[c] = {}
    BY <2>1
  <2>3. Shape(c)'
    BY <2>2 DEF Shape
  <2>4. AnnouncedInv(c)'
    BY <2>2 DEF AnnouncedInv, Announcements
  <2>5. EndInv(c)'
    BY <1>0 DEF EndInv
  <2> QED BY <1>0, <1>k, <2>3, <2>4, <2>5 DEF EventsInv
<1>1. CASE Outputs(c) = <<>>
  <2>1. Silent(c) \/ \E e : Logged(c, e)
    <3>1. CASE RejectView(c) \/ MoveView(c) \/ RegisterView(c) \/ RestoredView(c) \/ BeginView(c)
               \/ OutputView(c)
      BY <3>1 DEF RejectView, MoveView, RegisterView, RestoredView, BeginView, OutputView
    <3>2. CASE StartView(c) \/ AttemptView(c) \/ PlanFailsView(c)
               \/ EndRestoreView(c) \/ EndRestoreFailedView(c) \/ SourcesView(c)
      BY <3>2 DEF StartView, AttemptView, PlanFailsView, EndRestoreView, EndRestoreFailedView,
                  SourcesView
    <3> QED BY <3>1, <3>2 DEF View
  <2>2. events'[c] = <<>>
    BY <1>1, <1>i, <2>1 DEF Silent, Logged
  <2> QED BY <1>1, <1>w, <2>2
<1>2. CASE Outputs(c) # <<>>
  <2>r. replaced'[c] = replaced[c] /\ reports'[c] = reports[c] => Restores(c)' = Restores(c)
    BY DEF Restores
  <2>1. CASE RejectView(c)
    BY <1>i, <1>w, <2>1 DEF RejectView, Silent, Returns
  <2>2. CASE Silent(c) /\ (MoveView(c) \/ RegisterView(c) \/ OutputView(c))
    <3>1. /\ pc'[c] \in Early => pc[c] \in Early
          /\ pc'[c] \in Restoring =>
               pc[c] \in Restoring /\ replaced'[c] = replaced[c] /\ reports'[c] = reports[c]
          /\ pc'[c] \notin {"sources", "done"} /\ pc[c] \notin {"idle", "done"}
      BY <2>2 DEF MoveView, RegisterView, OutputView, Keeps, Early, Replacing, Restoring
    <3>2. events'[c] = events[c] /\ Announcements(c)' = Announcements(c) /\ Shape(c)'
      BY <1>s, <2>2, <3>1 DEF Silent
    <3>3. AnnouncedInv(c)'
      BY <1>i, <2>r, <3>1, <3>2 DEF AnnouncedInv
    <3>4. EndInv(c)'
      BY <3>1 DEF EndInv
    <3> QED BY <1>0, <1>2, <1>i, <1>k, <3>1, <3>2, <3>3, <3>4 DEF EventsInv
  <2>3. CASE RestoredView(c)
    <3>1. /\ Silent(c) /\ pc[c] \in Restoring /\ pc'[c] = "restore" /\ replaced[c] # <<>>
          /\ \E status \in {"failed", "restored"} :
               reports'[c] = <<[alias |-> replaced[c][Len(replaced[c])].alias, status |-> status,
                                phase |-> "restore"]>> \o reports[c]
      BY <2>3 DEF RestoredView
    <3>2. Restores(c) /\ Restores(c)'
      <4>1. PICK status \in {"failed", "restored"} :
               reports'[c] = <<[alias |-> replaced[c][Len(replaced[c])].alias, status |-> status,
                                phase |-> "restore"]>> \o reports[c]
        BY <3>1
      <4> DEFINE r == [alias |-> replaced[c][Len(replaced[c])].alias, status |-> status,
                       phase |-> "restore"]
      <4>2. replaced[c] \in Seq([alias : Aliases, original : Providers])
        BY DEF WriteAllInv, TypeOK
      <4>3. replaced[c][Len(replaced[c])] \in [alias : Aliases, original : Providers]
        BY <3>1, <4>2, LastElement
      <4>4. r \in ReportType /\ reports[c] \in Seq(ReportType)
        BY <4>3 DEF ReportType, RecordType
      <4>5. 1 \in DOMAIN reports'[c] /\ reports'[c][1] = r
        <5>1. /\ DOMAIN reports'[c] = 1 .. Len(reports[c]) + 1 /\ Len(reports[c]) \in Nat
              /\ reports'[c][1] = r
          BY SMTT(30), <4>1, <4>4, ConsAt
        <5> QED BY SMTT(30), <5>1
      <4> QED BY SMTT(30), <3>1, <4>5 DEF Restores
    <3>3. events'[c] = events[c] /\ Announcements(c)' = Announcements(c) /\ Shape(c)'
      BY <1>s, <3>1 DEF Silent
    <3>4. AnnouncedInv(c)'
      BY <1>i, <3>1, <3>2, <3>3 DEF AnnouncedInv, Early, Replacing
    <3>5. EndInv(c)'
      BY <3>1 DEF EndInv
    <3> QED BY <1>0, <1>2, <1>i, <1>k, <3>1, <3>3, <3>4, <3>5 DEF EventsInv, Restoring
  <2>4. CASE BeginView(c)
    <3>0. pc'[c] = "restore" /\ replaced'[c] = replaced[c] /\ pc[c] \in Early /\ pc[c] # "idle"
      BY <2>4 DEF BeginView, Early, Replacing
    <3>1. Announcements(c) = {} /\ reports[c] = <<>> /\ events[c] # <<>>
      BY <1>0, <1>2, <1>i, <3>0 DEF AnnouncedInv, ReportsInv
    <3>2. Restores(c)' <=> replaced[c] # <<>>
      <4>1. CASE reports'[c] = reports[c]
        BY <1>l, <3>0, <3>1, <4>1 DEF Restores
      <4>2. CASE /\ pc[c] \in {"materialize", "deregister", "reinstate"}
                 /\ \E phase \in {"materialize", "install"} : reports'[c] =
                  <<[alias |-> Cached(c)[next[c]], status |-> "failed", phase |-> phase]>> \o reports[c]
        <5>1. PICK phase \in {"materialize", "install"} : reports'[c] =
                  <<[alias |-> Cached(c)[next[c]], status |-> "failed", phase |-> phase]>> \o reports[c]
          BY <4>2
        <5> DEFINE r == [alias |-> Cached(c)[next[c]], status |-> "failed", phase |-> phase]
        <5>2. reports'[c] = <<r>>
          BY SMTT(30), <3>1, <5>1
        <5>3. DOMAIN reports'[c] = {1} /\ reports'[c][1].phase # "restore"
          BY SMTT(30), <5>2
        <5> QED BY <3>0, <5>3 DEF Restores
      <4> QED BY <2>4, <4>1, <4>2 DEF BeginView
    <3>3. CASE replaced[c] = <<>>
      <4>1. Silent(c)
        BY <2>4, <3>3 DEF BeginView
      <4>2. events'[c] = events[c] /\ Announcements(c)' = {} /\ Shape(c)'
        BY <1>s, <3>0, <3>1, <4>1 DEF Silent
      <4>3. AnnouncedInv(c)'
        BY <3>0, <3>2, <3>3, <4>2 DEF AnnouncedInv
      <4>4. EndInv(c)'
        BY <3>0 DEF EndInv
      <4> QED BY <1>0, <1>2, <1>k, <3>0, <3>1, <4>2, <4>3, <4>4 DEF EventsInv
    <3>4. CASE replaced[c] # <<>>
      <4>1. Logged(c, "restoring_cache")
        BY <2>4, <3>4 DEF BeginView
      <4>2. events'[c] # <<>> /\ Announcements(c)' = {Len(events[c]) + 1}
        BY <1>2, <3>1, <4>1, LoggedAt
      <4>3. Shape(c)'
        BY <1>0, <1>2, <1>i, <3>1, <4>1, ShapeLogged DEF Terminals
      <4>4. AnnouncedInv(c)'
        BY <3>0, <3>2, <3>4, <4>2 DEF AnnouncedInv, Early, Replacing
      <4>5. EndInv(c)'
        BY <3>0 DEF EndInv
      <4> QED BY <1>0, <1>2, <1>k, <3>0, <4>2, <4>3, <4>4, <4>5 DEF EventsInv
    <3> QED BY <3>3, <3>4
  <2>5. CASE StartView(c)
    <3>1. /\ pc[c] = "idle" /\ pc'[c] = "plan" /\ Logged(c, "started") /\ events[c] = <<>>
      BY <1>i, <2>5 DEF StartView
    <3>2. events'[c] # <<>> /\ Announcements(c)' = Announcements(c)
      BY SMTT(30), <1>2, <3>1, LoggedAt
    <3>3. Shape(c)'
      BY <1>2, <1>i, <3>1, ShapeLogged DEF Terminals
    <3>4. AnnouncedInv(c)'
      BY <1>i, <3>1, <3>2 DEF AnnouncedInv, Early, Replacing, Restoring
    <3>5. EndInv(c)'
      BY <3>1 DEF EndInv
    <3> QED BY <1>0, <1>2, <1>k, <3>1, <3>2, <3>3, <3>4, <3>5 DEF EventsInv
  <2>6. CASE AttemptView(c) \/ EndRestoreView(c) \/ (OutputView(c) /\ Logged(c, "output"))
    <3>1. PICK e \in {"materializing_cache", "reporting_sources", "output"} :
             Logged(c, e) /\ (e = "output" => pc[c] = "write")
      BY <2>6 DEF AttemptView, EndRestoreView, OutputView
    <3>2. /\ pc[c] \notin {"idle", "done"} /\ pc'[c] \notin {"idle", "done"}
          /\ pc'[c] \in Early => pc[c] \in Early
          /\ pc'[c] \in Restoring \cup {"sources"} => pc[c] \in Restoring
          /\ replaced'[c] = replaced[c] /\ reports'[c] = reports[c]
      BY <2>6 DEF AttemptView, EndRestoreView, OutputView, Keeps, Early, Replacing, Restoring
    <3>3. events[c] # <<>> /\ events'[c] # <<>> /\ Announcements(c)' = Announcements(c)
      BY <1>2, <1>i, <3>1, <3>2, LoggedAt
    <3>4. e = "output" => Announcements(c) = {}
      BY <1>i, <3>1 DEF AnnouncedInv, Early
    <3>5. Shape(c)'
      BY <1>2, <1>i, <3>1, <3>2, <3>3, <3>4, ShapeLogged DEF Terminals
    <3>6. AnnouncedInv(c)'
      BY <1>i, <2>r, <3>2, <3>3 DEF AnnouncedInv
    <3>7. EndInv(c)'
      BY <3>2 DEF EndInv
    <3> QED BY <1>0, <1>2, <1>k, <3>3, <3>5, <3>6, <3>7 DEF EventsInv
  <2>7. CASE PlanFailsView(c) \/ EndRestoreFailedView(c) \/ SourcesView(c)
    <3>0. /\ pc[c] \in {"plan", "restore", "sources"} /\ pc'[c] = "done"
          /\ replaced'[c] = replaced[c] /\ reports'[c] = reports[c] /\ outputs'[c] = outputs[c]
      BY <2>7 DEF PlanFailsView, EndRestoreFailedView, SourcesView, Keeps, Returns
    <3>1. PICK e \in Terminals : /\ Logged(c, e)
                                 /\ e = "failed" <=> result'[c].status = "failed"
                                 /\ e = "completed" => AllSucceeded(c)
      <4>1. CASE PlanFailsView(c) \/ EndRestoreFailedView(c)
        BY SMTT(30), <4>1 DEF PlanFailsView, EndRestoreFailedView, Returns, Failure, Terminals
      <4>2. CASE SourcesView(c)
        <5>1. CASE result'[c] = [Pending EXCEPT !.status = "ok", !.workflow = TRUE]
                   /\ Logged(c, IF AllSucceeded(c) THEN "completed" ELSE "completed_with_failures")
          <6>1. result'[c].status = "ok"
            BY <5>1 DEF Pending
          <6>2. CASE AllSucceeded(c)
            BY <5>1, <6>1, <6>2 DEF Terminals
          <6>3. CASE ~AllSucceeded(c)
            BY <5>1, <6>1, <6>3 DEF Terminals
          <6> QED BY <6>2, <6>3
        <5>2. CASE Returns(c, Failure("sources", NoAlias, FALSE)) /\ Logged(c, "failed")
          BY SMTT(30), <5>2 DEF Returns, Failure, Terminals
        <5> QED BY <4>2, <5>1, <5>2 DEF SourcesView, Returns
      <4> QED BY <2>7, <4>1, <4>2
    <3>2. /\ events[c] # <<>> /\ events'[c] # <<>> /\ Announcements(c)' = Announcements(c)
          /\ events'[c][Len(events'[c])] = e
      <4>1. e # "restoring_cache"
        BY DEF Terminals
      <4> QED BY <1>2, <1>i, <3>0, <3>1, <4>1, LoggedAt
    <3>3. Shape(c)'
      BY <1>2, <1>i, <3>0, <3>1, <3>2, ShapeLogged DEF Terminals
    <3>4. AnnouncedInv(c)'
      <4>1. CASE pc[c] = "plan"
        <5>1. replaced[c] = <<>> /\ DOMAIN reports[c] = {} /\ Announcements(c) = {}
          BY <1>0, <1>i, <1>l, <3>0, <4>1 DEF ReportsInv, AnnouncedInv, Early
        <5> QED BY <3>0, <3>2, <5>1 DEF AnnouncedInv, Restores, Early, Replacing
      <4>2. CASE pc[c] \in {"restore", "sources"}
        BY <1>i, <2>r, <3>0, <3>2, <4>2 DEF AnnouncedInv, Restoring, Early, Replacing
      <4> QED BY <3>0, <4>1, <4>2
    <3>5. EndInv(c)'
      <4>1. AllSucceeded(c)' = AllSucceeded(c)
        BY <3>0 DEF AllSucceeded
      <4> QED BY <1>0, <3>0, <3>1, <3>2, <4>1 DEF EndInv
    <3> QED BY <1>0, <1>2, <1>k, <3>2, <3>3, <3>4, <3>5 DEF EventsInv
  <2> QED
    <3>1. MoveView(c) \/ RegisterView(c) => Silent(c)
      BY DEF MoveView, RegisterView
    <3>2. OutputView(c) => Silent(c) \/ Logged(c, "output")
      BY DEF OutputView
    <3> QED BY <2>1, <2>2, <2>3, <2>4, <2>5, <2>6, <2>7, <3>1, <3>2 DEF View
<1> QED BY <1>1, <1>2

\* What a call records is its own: a step that leaves its variables alone keeps it.
SameCall(d) ==
  /\ pc'[d] = pc[d] /\ next'[d] = next[d] /\ replaced'[d] = replaced[d]
  /\ reports'[d] = reports[d] /\ outputs'[d] = outputs[d] /\ cause'[d] = cause[d]
  /\ broken'[d] = broken[d] /\ result'[d] = result[d] /\ events'[d] = events[d]

LEMMA OtherRecords ==
  ASSUME NEW d \in Calls, SameCall(d),
         ReplacedInv(d), ReportsInv(d), VisibleInv(d), OutputsInv(d), EventsInv(d)
  PROVE  /\ ReplacedInv(d)' /\ ReportsInv(d)' /\ VisibleInv(d)'
         /\ OutputsInv(d)' /\ EventsInv(d)'
<1>f. /\ pc'[d] = pc[d] /\ next'[d] = next[d] /\ replaced'[d] = replaced[d]
      /\ reports'[d] = reports[d] /\ outputs'[d] = outputs[d] /\ cause'[d] = cause[d]
      /\ broken'[d] = broken[d] /\ result'[d] = result[d] /\ events'[d] = events[d]
      /\ Cached(d)' = Cached(d) /\ Outputs(d)' = Outputs(d)
  BY DEF SameCall, Cached, Outputs
<1>1. ReplacedInv(d)'
  BY <1>f DEF ReplacedInv
<1>2. ReportsInv(d)'
  BY <1>f DEF ReportsInv, Attempted, SomeReportFailed
<1>3. VisibleInv(d)'
  BY <1>f DEF VisibleInv, SomeReportFailed
<1>4. OutputsInv(d)'
  BY <1>f DEF OutputsInv
<1>5. EventsInv(d)'
  <2>1. Shape(d)'
    BY <1>f DEF EventsInv, Shape
  <2>2. Announcements(d)' = Announcements(d) /\ Restores(d)' = Restores(d)
    BY <1>f DEF Announcements, Restores
  <2>3. AnnouncedInv(d)'
    BY <1>f, <2>2 DEF EventsInv, AnnouncedInv
  <2>4. EndInv(d)'
    BY <1>f DEF EventsInv, EndInv, AllSucceeded
  <2> QED BY <1>f, <2>1, <2>3, <2>4 DEF EventsInv
<1> QED BY <1>1, <1>2, <1>3, <1>4, <1>5

LEMMA RecordStep ==
  ASSUME WriteAllInv, RecordInv, NEW c \in Calls, Step(c) \/ Reject(c) \/ Cancel(c)
  PROVE  RecordInv'
<1>1. RecordType /\ \A d \in Calls : /\ ReplacedInv(d) /\ ReportsInv(d) /\ VisibleInv(d)
                                     /\ OutputsInv(d) /\ EventsInv(d)
  BY DEF RecordInv
<1>2. RecordType' /\ LocalFrame(c) /\ View(c)
  BY <1>1, StepView
<1>3. /\ ReplacedInv(c)' /\ ReportsInv(c)' /\ VisibleInv(c)' /\ OutputsInv(c)' /\ EventsInv(c)'
  BY <1>1, <1>2, ReplacedStep, ReportsStep, VisibleStep, OutputsStep, EventsStep
<1>4. ASSUME NEW d \in Calls \ {c}
      PROVE  /\ ReplacedInv(d)' /\ ReportsInv(d)' /\ VisibleInv(d)'
             /\ OutputsInv(d)' /\ EventsInv(d)'
  <2>1. SameCall(d)
    BY <1>2 DEF LocalFrame, SameCall
  <2> QED BY <1>1, <2>1, OtherRecords
<1> QED BY <1>2, <1>3, <1>4 DEF RecordInv

LEMMA RecordInit == Init => RecordInv
<1> SUFFICES ASSUME Init PROVE RecordInv
  OBVIOUS
<1>1. \A S : <<>> \in Seq(S)
  BY SMTT(30)
<1>2. RecordType
  <2>1. Pending \in ResultType
    BY DEF Pending, ResultType, Causes
  <2> QED BY <1>1, <2>1 DEF Init, RecordType, Causes
<1>3. ASSUME NEW c \in Calls
      PROVE  /\ ReplacedInv(c) /\ ReportsInv(c) /\ VisibleInv(c)
             /\ OutputsInv(c) /\ EventsInv(c)
  <2>1. /\ pc[c] = "idle" /\ next[c] = 1 /\ replaced[c] = <<>> /\ reports[c] = <<>>
        /\ outputs[c] = <<>> /\ cause[c] = "none" /\ broken[c] = NoAlias /\ events[c] = <<>>
    BY DEF Init
  <2>2. Len(<<>>) = 0 /\ DOMAIN <<>> = {} /\ Len(Cached(c)) \in Nat
    BY SMTT(30), WriteAllAssumption DEF Cached
  <2>3. ReplacedInv(c)
    BY SMTT(30), <2>1, <2>2 DEF ReplacedInv
  <2>4. ReportsInv(c) /\ VisibleInv(c) /\ OutputsInv(c)
    BY <2>1 DEF ReportsInv, VisibleInv, OutputsInv, Restoring
  <2>5. EventsInv(c)
    BY <2>1, <2>2 DEF EventsInv, Shape, AnnouncedInv, EndInv, Announcements
  <2> QED BY <2>3, <2>4, <2>5
<1> QED BY <1>2, <1>3 DEF RecordInv

\* What every call has recorded is consistent with where it is.
THEOREM RecordInvariant == Spec => []RecordInv
<1>1. WriteAllInv /\ RecordInv /\ [Next]_vars => RecordInv'
  <2> SUFFICES ASSUME WriteAllInv, RecordInv, [Next]_vars PROVE RecordInv'
    OBVIOUS
  <2>1. CASE Next
    BY <2>1, RecordStep DEF Next
  <2>2. CASE UNCHANGED vars
    <3>1. RecordType'
      BY <2>2 DEF vars, RecordInv, RecordType
    <3>2. ASSUME NEW c \in Calls
          PROVE  /\ ReplacedInv(c)' /\ ReportsInv(c)' /\ VisibleInv(c)'
                 /\ OutputsInv(c)' /\ EventsInv(c)'
      <4>1. SameCall(c)
        BY <2>2 DEF vars, SameCall
      <4> QED BY <4>1, OtherRecords DEF RecordInv
    <3> QED BY <3>1, <3>2 DEF RecordInv
  <2> QED BY <2>1, <2>2
<1> QED BY <1>1, RecordInit, WriteAllInvariant, PTL DEF Spec

\* For any calls and plans, however they overlap: a call that returns has reported the
\* attempted aliases, once each and in selection order; a failed one makes the call
\* fail and is not hidden by a later error; ok means every selected alias was restored.
THEOREM FailuresReported == Spec => []FailureVisible
<1>1. RecordInv => FailureVisible
  <2> SUFFICES ASSUME RecordInv, NEW c \in Calls, pc[c] = "done"
               PROVE  /\ \A i \in DOMAIN reports[c] : reports[c][i].alias = Cached(c)[i]
                      /\ \A i \in DOMAIN reports[c] : reports[c][i].status = "failed" =>
                           /\ result[c].status = "failed"
                           /\ result[c].primary = NoAlias => cause[c] \in {"lookup", "workflow"}
                      /\ result[c].status = "ok" =>
                           /\ Len(reports[c]) = Len(Cached(c))
                           /\ \A i \in DOMAIN reports[c] : reports[c][i].status = "restored"
    BY DEF FailureVisible
  <2>1. VisibleInv(c) /\ reports[c] \in Seq(ReportType)
    BY DEF RecordInv, RecordType
  <2>2. \A i \in DOMAIN reports[c] : reports[c][i] \in ReportType
    BY SMTT(30), <2>1
  <2>3. \A i \in DOMAIN reports[c] : reports[c][i].status \in {"failed", "restored"}
    BY <2>2 DEF ReportType
  <2> QED BY <2>1, <2>3 DEF VisibleInv, SomeReportFailed
<1> QED BY <1>1, RecordInvariant, PTL

\* A call that attempted an output returns the report of all its outputs, whatever
\* happens to the aliases afterwards, unless the source reports cannot be made.
THEOREM OutcomesKept == Spec => []OutcomesReturned
<1>1. RecordInv => OutcomesReturned
  BY DEF RecordInv, OutputsInv, OutcomesReturned
<1> QED BY <1>1, RecordInvariant, PTL

\* The progress log of every call is one lifecycle: "started" first, one terminal event,
\* last and in agreement with the result, and one announcement of the restoration,
\* after the outputs, exactly when something was replaced.
THEOREM LifecycleLogged == Spec => []ProgressLifecycle
<1>1. RecordInv => ProgressLifecycle
  <2> SUFFICES ASSUME RecordInv, NEW c \in Calls
               PROVE  /\ Shape(c)
                      /\ (pc[c] = "done" /\ events[c] # <<>>) =>
                           /\ events[c][Len(events[c])] \in Terminals
                           /\ events[c][Len(events[c])] = "failed" <=> result[c].status = "failed"
                           /\ events[c][Len(events[c])] = "completed" => AllSucceeded(c)
                           /\ IF \E i \in DOMAIN reports[c] : reports[c][i].phase = "restore"
                              THEN \E i \in DOMAIN events[c] : Announcements(c) = {i}
                              ELSE Announcements(c) = {}
    BY DEF ProgressLifecycle, Shape, AllSucceeded, Announcements
  <2>1. Shape(c) /\ AnnouncedInv(c) /\ EndInv(c)
    BY DEF RecordInv, EventsInv
  <2>2. ASSUME pc[c] = "done", events[c] # <<>>
        PROVE  IF \E i \in DOMAIN reports[c] : reports[c][i].phase = "restore"
               THEN \E i \in DOMAIN events[c] : Announcements(c) = {i}
               ELSE Announcements(c) = {}
    <3>1. Restores(c) <=> \E i \in DOMAIN reports[c] : reports[c][i].phase = "restore"
      BY <2>1, <2>2 DEF EndInv, Restores
    <3>2. IF Restores(c) THEN \E k : Announcements(c) = {k} ELSE Announcements(c) = {}
      BY <2>1, <2>2 DEF AnnouncedInv
    <3>3. \A k : Announcements(c) = {k} => k \in DOMAIN events[c]
      BY DEF Announcements
    <3> QED BY <3>1, <3>2, <3>3
  <2> QED BY <2>1, <2>2 DEF EndInv
<1> QED BY <1>1, RecordInvariant, PTL
=============================================================================
