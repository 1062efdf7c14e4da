----------------------- MODULE OperatorActivityProofs ------------------------
(***************************************************************************)
(* Proofs about OperatorActivity for any threads, streams, tasks and       *)
(* budget: slices of different threads are on different lanes, there are   *)
(* no more lanes than threads, a call of a stream is inside of a span, and *)
(* the budget of the spans is respected and its truncation announced once. *)
(* And about PlanNodes for any plan: the spans number the operators as the *)
(* terminal profile does.                                                  *)
(***************************************************************************)
EXTENDS OperatorActivity, PlanNodes, TLAPS

\* Most steps need no arithmetic; a step that does names the SMT solver.
USE ZenonT(60)

\* The indices and elements of a sequence.
LEMMA SeqFacts ==
  ASSUME NEW S, NEW q \in Seq(S)
  PROVE  DOMAIN q = 1 .. Len(q) /\ Len(q) \in Nat /\ \A i \in DOMAIN q : q[i] \in S
  BY SMTT(30)

\* A sequence without its last element.
LEMMA WithoutLast ==
  ASSUME NEW S, NEW q \in Seq(S), q # <<>>
  PROVE  /\ Len(q) \in DOMAIN q
         /\ SubSeq(q, 1, Len(q) - 1) \in Seq(S)
         /\ DOMAIN SubSeq(q, 1, Len(q) - 1) = 1 .. Len(q) - 1
         /\ Len(SubSeq(q, 1, Len(q) - 1)) = Len(q) - 1
         /\ \A i \in 1 .. Len(q) - 1 : SubSeq(q, 1, Len(q) - 1)[i] = q[i]
<1> DEFINE n == Len(q)
           r == SubSeq(q, 1, n - 1)
<1>1. n \in Nat \ {0} /\ \A i \in 1 .. n - 1 : q[i] \in S
  BY SMTT(30)
<1>2. n - 1 \in Int /\ 1 \in Int
  BY SMTT(30), <1>1
<1>3. /\ r \in Seq(S)
      /\ Len(r) = IF 1 <= n - 1 THEN n - 1 - 1 + 1 ELSE 0
      /\ \A i \in 1 .. n - 1 - 1 + 1 : r[i] = q[1 + i - 1]
  BY SMTT(30), <1>1, <1>2
<1>4. n \in DOMAIN q
  BY SMTT(30), <1>1, SeqFacts
<1> HIDE DEF n, r
<1>5. Len(r) = n - 1
  BY SMTT(30), <1>1, <1>3
<1>6. DOMAIN r = 1 .. n - 1
  BY <1>3, <1>5, SeqFacts
<1>7. \A i \in 1 .. n - 1 : r[i] = q[i]
  BY SMTT(30), <1>1, <1>3
<1>8. /\ n \in DOMAIN q /\ r \in Seq(S) /\ DOMAIN r = 1 .. n - 1 /\ Len(r) = n - 1
      /\ \A i \in 1 .. n - 1 : r[i] = q[i]
  BY <1>3, <1>4, <1>5, <1>6, <1>7
<1> QED BY <1>8 DEF n, r

\* A sequence with one more element.
LEMMA WithLast ==
  ASSUME NEW S, NEW q \in Seq(S), NEW e \in S
  PROVE  /\ Append(q, e) \in Seq(S)
         /\ DOMAIN Append(q, e) = 1 .. Len(q) + 1
         /\ Append(q, e)[Len(q) + 1] = e
         /\ \A i \in 1 .. Len(q) : Append(q, e)[i] = q[i]
  BY SMTT(30), SeqFacts
-----------------------------------------------------------------------------
(* Numbers of the operators of a plan *)

\* A call of instrument_query_execution_node.
Frames == [node : Profile!Nodes, id : Nat, next : Nat \ {0}]

Entries == [node : Profile!Nodes, parent : Nat]

\* The types, and a call looks no further than one past the last child.
PlanType ==
  /\ plan \in Profile!Plans /\ frames \in Seq(Frames) /\ below \in Seq(Seq(Entries))
  /\ Len(below) = Len(frames)
  /\ instrumented \subseteq Profile!Nodes /\ numbered \in Seq(Entries)
  /\ numbered = <<>> => frames = <<>> /\ instrumented = {}
  /\ \A k \in DOMAIN frames : frames[k].next <= Len(plan[frames[k].node]) + 1

\* Below a call are the children its callers have yet to look at.
BelowInv ==
  /\ frames # <<>> => below[1] = <<>>
  /\ \A k \in DOMAIN frames : k + 1 \in DOMAIN frames =>
       below[k + 1] = below[k] \o Remaining(frames[k])

\* The calls go down the plan, and the collected operators are the ones in the map and
\* the ones whose call is in progress.
WalkInv ==
  /\ \A j, k \in DOMAIN frames : j < k => frames[j].node < frames[k].node
  /\ \A m : m \in Profile!Collected <=>
              m \in instrumented \/ \E k \in DOMAIN frames : frames[k].node = m

PlanInv == PlanType /\ BelowInv /\ WalkInv

\* The children of an operator are operators after it.
LEMMA PlanFacts ==
  ASSUME plan \in Profile!Plans, NEW n \in Profile!Nodes
  PROVE  /\ plan[n] \in Seq(Profile!Nodes) /\ Len(plan[n]) \in Nat
         /\ \A i \in 1 .. Len(plan[n]) : plan[n][i] \in Profile!Nodes /\ plan[n][i] > n
<1>1. PICK k \in 0 .. MaxChildren : plan[n] \in [1 .. k -> Profile!Nodes]
  <2>1. plan[n] \in UNION {[1 .. k -> Profile!Nodes] : k \in 0 .. MaxChildren}
    BY DEF Profile!Plans
  <2> QED BY SMTT(30), <2>1
<1>2. k \in Nat
  BY SMTT(30), PlanAssumption
<1>3. plan[n] \in Seq(Profile!Nodes) /\ Len(plan[n]) = k
  BY SMTT(30), <1>1, <1>2
<1>4. \A i \in 1 .. k : plan[n][i] \in Profile!Nodes /\ plan[n][i] > n
  BY <1>1 DEF Profile!Plans
<1> QED BY <1>2, <1>3, <1>4

\* What a call has yet to look at.
LEMMA RemainingFacts ==
  ASSUME plan \in Profile!Plans, NEW f \in Frames, f.next <= Len(plan[f.node]) + 1
  PROVE  /\ Remaining(f) \in Seq(Entries)
         /\ Len(Remaining(f)) = Len(plan[f.node]) + 1 - f.next
         /\ Len(Remaining(f)) \in Nat
         /\ \A j \in 1 .. Len(Remaining(f)) :
              Remaining(f)[j] = [node |-> plan[f.node][Len(plan[f.node]) + 1 - j], parent |-> f.id]
<1> DEFINE c == plan[f.node]
           r == Len(c) + 1 - f.next
           e(j) == [node |-> c[Len(c) + 1 - j], parent |-> f.id]
<1>1. f.node \in Profile!Nodes /\ f.id \in Nat /\ f.next \in Nat \ {0}
  BY DEF Frames
<1>2. Len(c) \in Nat /\ \A i \in 1 .. Len(c) : c[i] \in Profile!Nodes
  BY <1>1, PlanFacts
<1>3. r \in Nat /\ \A j \in 1 .. r : Len(c) + 1 - j \in 1 .. Len(c)
  <2>1. Len(c) \in Nat /\ f.next \in Nat \ {0} /\ f.next <= Len(c) + 1
    BY <1>1, <1>2
  <2> HIDE DEF c
  <2> QED BY SMTT(30), <2>1
<1>4. \A j \in 1 .. r : e(j) \in Entries
  BY <1>1, <1>2, <1>3 DEF Entries
<1>5. Remaining(f) = [j \in 1 .. r |-> e(j)]
  BY DEF Remaining
<1> HIDE DEF r, e
<1>6. [j \in 1 .. r |-> e(j)] \in Seq(Entries) /\ Len([j \in 1 .. r |-> e(j)]) = r
  BY SMTT(30), <1>3, <1>4
<1>7. \A j \in 1 .. r : Remaining(f)[j] = e(j)
  BY <1>5
<1> QED BY <1>3, <1>5, <1>6, <1>7 DEF r, e

\* The top of a stack that ends in a nonempty sequence.
LEMMA TopOfJoined ==
  ASSUME NEW S, NEW b \in Seq(S), NEW q \in Seq(S), q # <<>>
  PROVE  /\ b \o q \in Seq(S) /\ b \o q # <<>>
         /\ (b \o q)[Len(b \o q)] = q[Len(q)]
         /\ SubSeq(b \o q, 1, Len(b \o q) - 1) = b \o SubSeq(q, 1, Len(q) - 1)
<1> DEFINE s == SubSeq(b \o q, 1, Len(b \o q) - 1)
           t == b \o SubSeq(q, 1, Len(q) - 1)
<1>1. Len(b) \in Nat /\ Len(q) \in Nat \ {0} /\ b \o q \in Seq(S) /\ Len(b \o q) = Len(b) + Len(q)
  BY SMTT(30)
<1>2. b \o q # <<>> /\ (b \o q)[Len(b \o q)] = q[Len(q)]
  BY SMTT(30), <1>1
<1>3. s \in Seq(S) /\ Len(s) = Len(b) + Len(q) - 1
      /\ \A i \in 1 .. Len(b) + Len(q) - 1 : s[i] = (b \o q)[i]
  BY SMTT(30), <1>1, <1>2, WithoutLast
<1>4. SubSeq(q, 1, Len(q) - 1) \in Seq(S) /\ Len(SubSeq(q, 1, Len(q) - 1)) = Len(q) - 1
      /\ \A i \in 1 .. Len(q) - 1 : SubSeq(q, 1, Len(q) - 1)[i] = q[i]
  BY SMTT(30), <1>1, WithoutLast
<1>5. t \in Seq(S) /\ Len(t) = Len(b) + Len(q) - 1
      /\ \A i \in 1 .. Len(b) + Len(q) - 1 : t[i] = (b \o q)[i]
  BY SMTT(30), <1>1, <1>4
<1>6. s = t
  <2> HIDE DEF s, t
  <2> QED BY SMTT(30), <1>1, <1>3, <1>5
<1> QED BY <1>1, <1>2, <1>6

\* A call goes on to its next child.
LEMMA AdvanceFacts ==
  ASSUME plan \in Profile!Plans, NEW f \in Frames, f.next <= Len(plan[f.node]),
         NEW g, g = [f EXCEPT !.next = @ + 1]
  PROVE  /\ g \in Frames /\ g.node = f.node /\ g.id = f.id
         /\ g.next <= Len(plan[g.node]) + 1
         /\ Remaining(f) # <<>>
         /\ Remaining(f)[Len(Remaining(f))] = [node |-> plan[f.node][f.next], parent |-> f.id]
         /\ SubSeq(Remaining(f), 1, Len(Remaining(f)) - 1) = Remaining(g)
         /\ plan[f.node][f.next] \in Profile!Nodes /\ plan[f.node][f.next] > f.node
<1>1. f.node \in Profile!Nodes /\ f.id \in Nat /\ f.next \in Nat \ {0}
  BY DEF Frames
<1>2. Len(plan[f.node]) \in Nat
      /\ \A i \in 1 .. Len(plan[f.node]) : /\ plan[f.node][i] \in Profile!Nodes
                                           /\ plan[f.node][i] > f.node
  BY <1>1, PlanFacts
<1>3. g = [node |-> f.node, id |-> f.id, next |-> f.next + 1]
  BY DEF Frames
<1>4. g.node = f.node /\ g.id = f.id /\ g.next = f.next + 1
  BY <1>3
<1>5. f.next + 1 \in Nat \ {0} /\ f.next + 1 <= Len(plan[f.node]) + 1 /\ f.next <= Len(plan[f.node]) + 1
      /\ f.next \in 1 .. Len(plan[f.node])
  BY SMTT(30), <1>1, <1>2
<1>6. g \in Frames /\ g.next <= Len(plan[g.node]) + 1
  BY <1>1, <1>3, <1>4, <1>5 DEF Frames
<1> DEFINE p == Remaining(f)
           q == Remaining(g)
           n == Len(plan[f.node])
           e(j) == [node |-> plan[f.node][n + 1 - j], parent |-> f.id]
<1>7. p \in Seq(Entries) /\ Len(p) = n + 1 - f.next /\ \A j \in 1 .. Len(p) : p[j] = e(j)
  BY <1>5, RemainingFacts
<1>8. q \in Seq(Entries) /\ Len(q) = n + 1 - (f.next + 1) /\ \A j \in 1 .. Len(q) : q[j] = e(j)
  BY <1>4, <1>6, RemainingFacts
<1>9. e(n + 1 - f.next) = [node |-> plan[f.node][f.next], parent |-> f.id]
  <2>1. n + 1 - (n + 1 - f.next) = f.next
    BY SMTT(30), <1>1, <1>2
  <2> QED BY <2>1
<1> HIDE DEF p, q, e
<1>10. p # <<>> /\ Len(p) \in 1 .. Len(p) /\ Len(q) = Len(p) - 1 /\ Len(q) \in Nat
  <2>1. n \in Nat /\ f.next \in 1 .. n /\ Len(p) = n + 1 - f.next /\ Len(q) = n + 1 - (f.next + 1)
    BY <1>2, <1>5, <1>7, <1>8
  <2> HIDE DEF n
  <2>2. Len(p) \in Nat \ {0} /\ Len(p) \in 1 .. Len(p) /\ Len(q) = Len(p) - 1 /\ Len(q) \in Nat
    BY SMTT(30), <2>1
  <2>3. p # <<>>
    BY SMTT(30), <2>2
  <2> QED BY <2>2, <2>3
<1>11. p[Len(p)] = e(n + 1 - f.next)
  BY <1>7, <1>10
<1>12. SubSeq(p, 1, Len(p) - 1) = q
  <2>1. SubSeq(p, 1, Len(p) - 1) \in Seq(Entries)
        /\ DOMAIN SubSeq(p, 1, Len(p) - 1) = 1 .. Len(p) - 1
        /\ \A i \in 1 .. Len(p) - 1 : SubSeq(p, 1, Len(p) - 1)[i] = p[i]
    BY <1>7, <1>10, WithoutLast
  <2>2. \A i \in 1 .. Len(q) : i \in 1 .. Len(p) - 1 /\ i \in 1 .. Len(p)
    BY SMTT(30), <1>10
  <2>3. DOMAIN SubSeq(p, 1, Len(p) - 1) = DOMAIN q
        /\ \A i \in DOMAIN q : SubSeq(p, 1, Len(p) - 1)[i] = q[i]
    BY <1>7, <1>8, <1>10, <2>1, <2>2, SeqFacts
  <2> QED BY SMTT(30), <1>8, <2>1, <2>3
<1> QED BY <1>2, <1>4, <1>5, <1>6, <1>9, <1>10, <1>11, <1>12 DEF p, q

\* The innermost call.
LEMMA TopFacts ==
  ASSUME PlanType, Running
  PROVE  /\ Len(frames) \in DOMAIN frames /\ Len(frames) \in Nat \ {0}
         /\ DOMAIN frames = 1 .. Len(frames) /\ DOMAIN below = DOMAIN frames
         /\ Top \in Frames /\ Top.next <= Len(plan[Top.node]) + 1
         /\ \A k \in DOMAIN frames : frames[k] \in Frames /\ below[k] \in Seq(Entries)
         /\ numbered # <<>>
         /\ Pending = below[Len(frames)] \o Remaining(Top)
<1>1. frames \in Seq(Frames) /\ frames # <<>> /\ below \in Seq(Seq(Entries)) /\ Len(below) = Len(frames)
  BY DEF PlanType, Running
<1>2. Len(frames) \in DOMAIN frames /\ DOMAIN frames = 1 .. Len(frames) /\ DOMAIN below = DOMAIN frames
  BY <1>1, WithoutLast, SeqFacts
<1>3. Len(frames) \in Nat \ {0}
  BY SMTT(30), <1>1
<1>4. \A k \in DOMAIN frames : frames[k] \in Frames /\ below[k] \in Seq(Entries)
  BY <1>1, <1>2, SeqFacts
<1>5. numbered # <<>> /\ Top.next <= Len(plan[Top.node]) + 1
  BY <1>1, <1>2 DEF PlanType, Top
<1>6. Pending = below[Len(frames)] \o Remaining(Top)
  BY <1>1, <1>5 DEF Pending, Top
<1> QED BY <1>2, <1>3, <1>4, <1>5, <1>6 DEF Top

\* The stack of the profile when a call is in progress.
LEMMA PendingInCall ==
  ASSUME NEW f, NEW b, UNCHANGED plan, numbered' # <<>>, frames' # <<>>,
         frames'[Len(frames')] = f, below'[Len(below')] = b
  PROVE  Pending' = b \o Remaining(f)
  BY DEF Pending, Remaining

\* The innermost call has gone on to the child after the next one.
LEMMA AdvancedFacts ==
  ASSUME PlanType, Running, HasChild, NEW g, g = [Top EXCEPT !.next = @ + 1]
  PROVE  /\ Advanced \in Seq(Frames) /\ Len(Advanced) = Len(frames) /\ Advanced # <<>>
         /\ DOMAIN Advanced = DOMAIN frames
         /\ Advanced[Len(frames)] = g
         /\ \A k \in DOMAIN frames \ {Len(frames)} : Advanced[k] = frames[k]
         /\ \A k \in DOMAIN frames : Advanced[k].node = frames[k].node
         /\ \A k \in DOMAIN frames : Advanced[k].next <= Len(plan[Advanced[k].node]) + 1
<1> DEFINE n == Len(frames)
<1>1. frames \in Seq(Frames) /\ n \in DOMAIN frames /\ Top = frames[n] /\ Top \in Frames
      /\ n \in Nat \ {0} /\ DOMAIN frames = 1 .. n
  BY TopFacts DEF PlanType, Top
<1>2. g \in Frames /\ g.node = Top.node /\ g.next <= Len(plan[g.node]) + 1
  <2>1. Top \in Frames /\ plan \in Profile!Plans /\ Top.next <= Len(plan[Top.node])
    BY <1>1 DEF PlanType, HasChild
  <2> QED BY <2>1, AdvanceFacts
<1>3. Advanced = [frames EXCEPT ![n] = g]
  BY DEF Advanced, Top
<1>4. Advanced[n] = g /\ DOMAIN Advanced = DOMAIN frames
      /\ \A k \in DOMAIN frames \ {n} : Advanced[k] = frames[k]
  BY <1>1, <1>3
<1>5. [frames EXCEPT ![n] = g] \in Seq(Frames) /\ Len([frames EXCEPT ![n] = g]) = n
  BY SMTT(30), <1>1, <1>2
<1>6. Advanced # <<>>
  BY <1>1, <1>4, SMTT(30)
<1>7. \A k \in DOMAIN frames : Advanced[k].node = frames[k].node
  BY <1>1, <1>2, <1>4
<1>8. \A k \in DOMAIN frames : Advanced[k].next <= Len(plan[Advanced[k].node]) + 1
  BY <1>2, <1>4 DEF PlanType
<1> QED BY <1>3, <1>4, <1>5, <1>6, <1>7, <1>8

\* A call whose child is known takes it off the stack of the profile.
LEMMA KnownStep ==
  ASSUME PlanInv, InstrumentKnown
  PROVE  PlanInv' /\ Profile!Skip
<1> DEFINE n == Len(frames)
           g == [Top EXCEPT !.next = @ + 1]
           R == Remaining(Top)
<1>1. PlanType /\ Running /\ HasChild /\ Known(Child) /\ frames' = Advanced
      /\ UNCHANGED <<plan, instrumented, numbered, failed, below>>
  BY DEF PlanInv, InstrumentKnown
<1>2. /\ n \in DOMAIN frames /\ n \in Nat \ {0} /\ DOMAIN frames = 1 .. n /\ Top \in Frames
      /\ below[n] \in Seq(Entries) /\ Pending = below[n] \o R /\ numbered # <<>> /\ Len(below) = n
  BY <1>1, TopFacts DEF PlanType
<1>3. /\ frames' \in Seq(Frames) /\ Len(frames') = n /\ frames' # <<>>
      /\ DOMAIN frames' = DOMAIN frames /\ frames'[n] = g
      /\ \A k \in DOMAIN frames \ {n} : frames'[k] = frames[k]
      /\ \A k \in DOMAIN frames : frames'[k].node = frames[k].node
      /\ \A k \in DOMAIN frames : frames'[k].next <= Len(plan[frames'[k].node]) + 1
  BY <1>1, AdvancedFacts
<1>4. R # <<>> /\ R[Len(R)] = [node |-> Child, parent |-> Top.id]
      /\ SubSeq(R, 1, Len(R) - 1) = Remaining(g)
  BY <1>1, <1>2, AdvanceFacts DEF PlanType, HasChild, Child
<1>5. R \in Seq(Entries)
  BY <1>1, <1>2, TopFacts, RemainingFacts DEF PlanType
<1>6. Pending' = below[n] \o Remaining(g)
  <2> HIDE DEF g
  <2> QED BY <1>1, <1>2, <1>3, PendingInCall
<1>7. Profile!Skip
  <2>1. Pending # <<>> /\ Pending[Len(Pending)] = [node |-> Child, parent |-> Top.id]
        /\ Pending' = SubSeq(Pending, 1, Len(Pending) - 1)
    <3> DEFINE b == below[n]
    <3>1. b \in Seq(Entries) /\ R \in Seq(Entries) /\ R # <<>>
      BY <1>2, <1>4, <1>5
    <3> HIDE DEF g, R, b
    <3>2. /\ b \o R # <<>> /\ (b \o R)[Len(b \o R)] = R[Len(R)]
          /\ SubSeq(b \o R, 1, Len(b \o R) - 1) = b \o SubSeq(R, 1, Len(R) - 1)
      BY <3>1, TopOfJoined
    <3>3. Pending = b \o R /\ Pending' = b \o Remaining(g)
      BY <1>2, <1>6 DEF b
    <3> QED BY <1>4, <3>2, <3>3
  <2>2. Child \in Profile!Collected
    BY <1>1 DEF PlanInv, WalkInv, Known
  <2> QED BY SMTT(30), <1>1, <2>1, <2>2 DEF Profile!Skip, Profile!WithoutTop
<1>8. PlanType'
  BY SMTT(30), <1>1, <1>3 DEF PlanType
<1>9. BelowInv'
  <2>1. \A k \in DOMAIN frames : k + 1 \in DOMAIN frames => k # n
    BY SMTT(30), <1>2
  <2>2. \A f : Remaining(f)' = Remaining(f)
    BY <1>1 DEF Remaining
  <2> HIDE DEF g
  <2> QED BY SMTT(30), <1>1, <1>3, <2>1, <2>2 DEF PlanInv, BelowInv
<1>10. WalkInv'
  <2>1. Profile!Collected' = Profile!Collected
    BY <1>1 DEF Profile!Collected
  <2>2. \A j, k \in DOMAIN frames : j < k => frames'[j].node < frames'[k].node
    BY <1>3 DEF PlanInv, WalkInv
  <2>3. \A m : (\E k \in DOMAIN frames : frames'[k].node = m)
               <=> \E k \in DOMAIN frames : frames[k].node = m
    BY <1>3
  <2>4. instrumented' = instrumented /\ DOMAIN frames' = DOMAIN frames
    BY <1>1, <1>3
  <2> QED BY <2>1, <2>2, <2>3, <2>4 DEF PlanInv, WalkInv
<1> QED BY <1>7, <1>8, <1>9, <1>10 DEF PlanInv

\* An operator that is put on the list is collected.
LEMMA CollectedGrows ==
  ASSUME numbered \in Seq(Entries), NEW e \in Entries, numbered' = Append(numbered, e)
  PROVE  /\ numbered' \in Seq(Entries) /\ numbered' # <<>> /\ Len(numbered) \in Nat
         /\ Len(numbered') = Len(numbered) + 1
         /\ Profile!Collected' = Profile!Collected \cup {e.node}
<1> DEFINE q == numbered
           r == Append(q, e)
<1>1. Len(q) \in Nat /\ r \in Seq(Entries) /\ r # <<>> /\ Len(r) = Len(q) + 1
  BY SMTT(30)
<1>2. DOMAIN q = 1 .. Len(q) /\ DOMAIN r = 1 .. Len(q) + 1 /\ r[Len(q) + 1] = e
      /\ \A i \in 1 .. Len(q) : r[i] = q[i]
  BY SMTT(30), SeqFacts, WithLast
<1>3. \A i : i \in 1 .. Len(q) + 1 <=> i \in 1 .. Len(q) \/ i = Len(q) + 1
  BY SMTT(30), <1>1
<1> HIDE DEF q, r
<1>4. {r[k].node : k \in DOMAIN r} = {q[k].node : k \in DOMAIN q} \cup {e.node}
  BY <1>2, <1>3
<1>5. numbered' = r /\ Profile!Collected' = {r[k].node : k \in DOMAIN r}
      /\ Profile!Collected = {q[k].node : k \in DOMAIN q}
  BY DEF Profile!Collected, q, r
<1> QED BY <1>1, <1>4, <1>5 DEF q

\* The operators of the calls come before those of the calls they make.
LEMMA InnermostIsLast ==
  ASSUME PlanInv, Running
  PROVE  \A k \in DOMAIN frames : frames[k].node \in Nat /\ frames[k].node <= Top.node
<1>1. Len(frames) \in DOMAIN frames /\ Len(frames) \in Nat /\ DOMAIN frames = 1 .. Len(frames)
      /\ \A k \in DOMAIN frames : frames[k] \in Frames
  BY TopFacts DEF PlanInv
<1>2. \A k \in DOMAIN frames : frames[k].node \in Profile!Nodes
  BY <1>1 DEF Frames
<1>3. Profile!Nodes \subseteq Nat
  BY SMTT(30), PlanAssumption DEF Profile!Nodes
<1>4. \A k \in DOMAIN frames : frames[k].node \in Nat
  BY <1>2, <1>3
<1>5. \A k \in DOMAIN frames : k = Len(frames) \/ k < Len(frames)
  BY SMTT(30), <1>1
<1>6. \A k \in DOMAIN frames : frames[k].node = Top.node \/ frames[k].node < Top.node
  BY <1>1, <1>5 DEF PlanInv, WalkInv, Top
<1>7. Top.node \in Nat
  BY <1>1, <1>4 DEF Top
<1> QED BY SMTT(30), <1>4, <1>6, <1>7

\* A new call has all children of its operator before it.
LEMMA NewFrameFacts ==
  ASSUME plan \in Profile!Plans, Len(numbered) \in Nat, NEW m \in Profile!Nodes
  PROVE  /\ NewFrame(m) \in Frames /\ NewFrame(m).node = m
         /\ NewFrame(m).next <= Len(plan[NewFrame(m).node]) + 1
         /\ Remaining(NewFrame(m)) = Profile!ChildrenReversed(m, Len(numbered) + 1)
<1>1. NewFrame(m).node = m /\ NewFrame(m).id = Len(numbered) + 1 /\ NewFrame(m).next = 1
  BY DEF NewFrame
<1>2. Len(numbered) + 1 \in Nat /\ 1 \in Nat \ {0}
  BY SMTT(30)
<1>3. Len(plan[m]) \in Nat
  BY PlanFacts
<1>4. 1 <= Len(plan[m]) + 1 /\ Len(plan[m]) + 1 - 1 = Len(plan[m])
  BY SMTT(30), <1>3
<1>5. NewFrame(m) \in Frames
  BY <1>2 DEF Frames, NewFrame
<1>6. Remaining(NewFrame(m)) = Profile!ChildrenReversed(m, Len(numbered) + 1)
  BY <1>1, <1>4 DEF Remaining, Profile!ChildrenReversed
<1> QED BY <1>1, <1>4, <1>5, <1>6

\* A call for an operator that is not known collects it.
LEMMA NodeStep ==
  ASSUME PlanInv, InstrumentNode
  PROVE  PlanInv' /\ Profile!Collect
<1> DEFINE n == Len(frames)
           g == [Top EXCEPT !.next = @ + 1]
           R == Remaining(Top)
           b == below[n]
           A == Advanced
           h == NewFrame(Child)
           e == [node |-> Child, parent |-> Top.id]
           B == b \o Remaining(g)
<1>1. PlanType /\ Running /\ HasChild /\ ~Known(Child) /\ numbered' = Append(numbered, e)
      /\ frames' = Append(A, h) /\ below' = Append(below, below[Len(below)] \o Remaining(g))
      /\ UNCHANGED <<plan, instrumented, failed>>
  BY DEF PlanInv, InstrumentNode, Called
<1>2. /\ n \in DOMAIN frames /\ n \in Nat \ {0} /\ DOMAIN frames = 1 .. n /\ Top \in Frames
      /\ b \in Seq(Entries) /\ Pending = b \o R /\ numbered # <<>> /\ Len(below) = n
      /\ DOMAIN below = DOMAIN frames
  BY <1>1, TopFacts DEF PlanType
<1>3. /\ A \in Seq(Frames) /\ Len(A) = n /\ DOMAIN A = DOMAIN frames /\ A[n] = g
      /\ \A k \in DOMAIN frames \ {n} : A[k] = frames[k]
      /\ \A k \in DOMAIN frames : A[k].node = frames[k].node
      /\ \A k \in DOMAIN frames : A[k].next <= Len(plan[A[k].node]) + 1
  BY <1>1, AdvancedFacts
<1>4. /\ R # <<>> /\ R[Len(R)] = e /\ SubSeq(R, 1, Len(R) - 1) = Remaining(g)
      /\ Child \in Profile!Nodes /\ Child > Top.node
      /\ g \in Frames /\ g.next <= Len(plan[g.node]) + 1
  BY <1>1, <1>2, AdvanceFacts DEF PlanType, HasChild, Child
<1>5. R \in Seq(Entries) /\ Remaining(g) \in Seq(Entries)
  BY <1>1, <1>2, <1>4, TopFacts, RemainingFacts DEF PlanType
<1>6. e \in Entries
  BY <1>2, <1>4 DEF Frames, Entries
<1>7. /\ numbered' \in Seq(Entries) /\ numbered' # <<>> /\ Len(numbered) \in Nat
      /\ Len(numbered') = Len(numbered) + 1
      /\ Profile!Collected' = Profile!Collected \cup {Child}
  <2>1. e.node = Child
    OBVIOUS
  <2> HIDE DEF e
  <2> QED BY <1>1, <1>6, <2>1, CollectedGrows DEF PlanType
<1>8. /\ h \in Frames /\ h.node = Child /\ h.next <= Len(plan[h.node]) + 1
      /\ Remaining(h) = Profile!ChildrenReversed(Child, Len(numbered'))
  BY <1>1, <1>4, <1>7, NewFrameFacts DEF PlanType
<1>9. B \in Seq(Entries)
  BY SMTT(30), <1>2, <1>5
<1>10. \A k \in DOMAIN frames : frames[k].node \in Nat /\ frames[k].node <= Top.node
  BY <1>1, InnermostIsLast
<1> HIDE DEF g, R, b, A, h, e, B, n
<1>11. /\ frames' \in Seq(Frames) /\ Len(frames') = n + 1 /\ DOMAIN frames' = 1 .. n + 1
       /\ frames'[n + 1] = h /\ \A k \in 1 .. n : frames'[k] = A[k]
  BY SMTT(30), <1>1, <1>2, <1>3, <1>8, WithLast
<1>12. /\ below' \in Seq(Seq(Entries)) /\ Len(below') = n + 1
       /\ below'[n + 1] = B /\ \A k \in 1 .. n : below'[k] = below[k]
  <2>1. below \in Seq(Seq(Entries)) /\ below' = Append(below, B)
    BY <1>1, <1>2 DEF PlanType, B, b
  <2> QED BY SMTT(30), <1>2, <1>9, <2>1, WithLast
<1>13. \A k : k \in 1 .. n + 1 <=> k \in 1 .. n \/ k = n + 1
  BY SMTT(30), <1>2
<1>14. Child \notin Profile!Collected
  <2>1. Top.node \in Nat /\ Child \in Nat
    <3>1. Profile!Nodes \subseteq Nat
      BY SMTT(30), PlanAssumption DEF Profile!Nodes
    <3> QED BY <1>2, <1>4, <3>1 DEF Frames
  <2>2. \A k \in DOMAIN frames : frames[k].node # Child
    BY SMTT(30), <1>4, <1>10, <2>1
  <2>3. Child \notin instrumented
    BY <1>1 DEF Known
  <2>4. WalkInv
    BY DEF PlanInv
  <2> QED BY <2>2, <2>3, <2>4 DEF WalkInv
<1>15. Profile!Collect
  <2>1. /\ b \o R # <<>> /\ (b \o R)[Len(b \o R)] = R[Len(R)]
        /\ SubSeq(b \o R, 1, Len(b \o R) - 1) = b \o SubSeq(R, 1, Len(R) - 1)
    <3>1. b \in Seq(Entries) /\ R \in Seq(Entries) /\ R # <<>>
      BY <1>2, <1>4, <1>5
    <3> QED BY <3>1, TopOfJoined
  <2>2. frames' # <<>> /\ frames'[Len(frames')] = h /\ below'[Len(below')] = B
    BY SMTT(30), <1>2, <1>11, <1>12
  <2>3. Pending' = B \o Remaining(h)
    BY <1>1, <1>7, <2>2, PendingInCall
  <2>4. Pending # <<>> /\ Pending[Len(Pending)] = e /\ SubSeq(Pending, 1, Len(Pending) - 1) = B
    BY <1>2, <1>4, <2>1 DEF B
  <2>5. e.node = Child
    BY DEF e
  <2> QED BY <1>1, <1>8, <1>14, <2>3, <2>4, <2>5 DEF Profile!Collect, Profile!WithoutTop
<1>16. PlanType'
  <2>1. \A k \in DOMAIN frames' : frames'[k].next <= Len(plan[frames'[k].node]) + 1
    BY <1>2, <1>3, <1>8, <1>11, <1>13
  <2> QED BY <1>1, <1>7, <1>11, <1>12, <2>1 DEF PlanType
<1>17. BelowInv'
  <2>1. \A f : Remaining(f)' = Remaining(f)
    BY <1>1 DEF Remaining
  <2>2. below'[1] = <<>>
    BY SMTT(30), <1>1, <1>2, <1>12 DEF PlanInv, BelowInv, Running
  <2>3. ASSUME NEW k \in 1 .. n + 1, k + 1 \in 1 .. n + 1
        PROVE  below'[k + 1] = below'[k] \o Remaining(frames'[k])
    <3>1. k \in 1 .. n /\ (k = n \/ (k + 1 \in 1 .. n /\ k # n))
      BY SMTT(30), <1>2, <2>3
    <3>2. CASE k = n
      BY <1>2, <1>3, <1>11, <1>12, <3>1, <3>2 DEF B, b
    <3>3. CASE k + 1 \in 1 .. n /\ k # n
      BY <1>2, <1>3, <1>11, <1>12, <3>1, <3>3 DEF PlanInv, BelowInv
    <3> QED BY <3>1, <3>2, <3>3
  <2> QED BY <1>11, <2>1, <2>2, <2>3 DEF BelowInv
<1>18. WalkInv'
  <2>1. \A k \in 1 .. n : frames'[k].node = frames[k].node
    BY <1>2, <1>3, <1>11
  <2>2. \A j, k \in 1 .. n + 1 : j < k => frames'[j].node < frames'[k].node
    <3>1. SUFFICES ASSUME NEW j \in 1 .. n + 1, NEW k \in 1 .. n + 1, j < k
                   PROVE  frames'[j].node < frames'[k].node
      OBVIOUS
    <3>2. j \in 1 .. n
      BY SMTT(30), <1>2, <3>1
    <3>3. CASE k \in 1 .. n
      BY <1>2, <2>1, <3>1, <3>2, <3>3 DEF PlanInv, WalkInv
    <3>4. CASE k = n + 1
      <4>1. frames[j].node < Child
        <5>1. frames[j].node \in Nat /\ frames[j].node <= Top.node /\ Child > Top.node
          BY <1>2, <1>4, <1>10, <3>2
        <5>2. Top.node \in Int /\ Child \in Int
          <6>1. Profile!Nodes \subseteq Int
            BY SMTT(30) DEF Profile!Nodes
          <6> QED BY <1>2, <1>4, <6>1 DEF Frames
        <5> QED BY SMTT(30), <5>1, <5>2
      <4> QED BY <1>8, <1>11, <2>1, <3>2, <3>4, <4>1
    <3> QED BY <1>13, <3>3, <3>4
  <2>3. \A m : (\E k \in 1 .. n + 1 : frames'[k].node = m)
               <=> m = Child \/ \E k \in 1 .. n : frames[k].node = m
    BY <1>8, <1>11, <1>13, <2>1
  <2>4. \A m : m \in Profile!Collected <=>
               m \in instrumented \/ \E k \in 1 .. n : frames[k].node = m
    BY <1>2 DEF PlanInv, WalkInv
  <2>5. instrumented' = instrumented /\ DOMAIN frames' = 1 .. n + 1
        /\ \A m : m \in Profile!Collected' <=> m \in Profile!Collected \/ m = Child
    BY <1>1, <1>7, <1>11
  <2> QED BY <2>2, <2>3, <2>4, <2>5 DEF WalkInv
<1> QED BY <1>15, <1>16, <1>17, <1>18 DEF PlanInv

\* The first call collects the root of the plan.
LEMMA RootStep ==
  ASSUME PlanInv, InstrumentPlan
  PROVE  PlanInv' /\ Profile!Collect
<1> DEFINE h == NewFrame(1)
           e == [node |-> 1, parent |-> Profile!Root]
<1>1. PlanType /\ numbered = <<>> /\ numbered' = Append(numbered, e) /\ frames' = <<h>>
      /\ below' = << <<>> >> /\ UNCHANGED <<plan, instrumented, failed>>
  BY DEF PlanInv, InstrumentPlan, Called
<1>2. frames = <<>> /\ instrumented = {}
  BY <1>1 DEF PlanType
<1>3. 1 \in Profile!Nodes
  BY SMTT(30), PlanAssumption DEF Profile!Nodes
<1>4. e \in Entries /\ e.node = 1
  BY SMTT(30), <1>3 DEF Entries, Profile!Root
<1>5. Profile!Collected = {}
  <2>1. DOMAIN numbered = {}
    BY SMTT(30), <1>1
  <2> QED BY <2>1 DEF Profile!Collected
<1> HIDE DEF e
<1>6. /\ numbered' \in Seq(Entries) /\ numbered' # <<>> /\ Len(numbered) \in Nat
      /\ Len(numbered') = Len(numbered) + 1
      /\ Profile!Collected' = {1}
  BY <1>1, <1>4, <1>5, CollectedGrows DEF PlanType
<1>7. /\ h \in Frames /\ h.node = 1 /\ h.next <= Len(plan[h.node]) + 1
      /\ Remaining(h) = Profile!ChildrenReversed(1, Len(numbered'))
  BY <1>1, <1>3, <1>6, NewFrameFacts DEF PlanType
<1> HIDE DEF h
<1>8. /\ frames' \in Seq(Frames) /\ Len(frames') = 1 /\ DOMAIN frames' = {1} /\ frames'[1] = h
      /\ frames' # <<>>
  BY SMTT(30), <1>1, <1>7
<1>9. below' \in Seq(Seq(Entries)) /\ Len(below') = 1 /\ below'[1] = <<>>
  BY SMTT(30), <1>1
<1>10. Profile!Collect
  <2>1. Pending' = <<>> \o Remaining(h)
    BY <1>1, <1>6, <1>8, <1>9, PendingInCall
  <2>2. Pending = <<e>>
    BY <1>1 DEF Pending, e, Profile!Root
  <2>3. <<e>> # <<>> /\ <<e>>[Len(<<e>>)] = e /\ SubSeq(<<e>>, 1, Len(<<e>>) - 1) = <<>>
    BY SMTT(30)
  <2> QED BY <1>1, <1>4, <1>5, <1>7, <2>1, <2>2, <2>3 DEF Profile!Collect, Profile!WithoutTop
<1>11. PlanType'
  BY <1>1, <1>6, <1>7, <1>8, <1>9 DEF PlanType
<1>12. BelowInv'
  <2>1. 1 + 1 \notin {1}
    BY SMTT(30)
  <2> QED BY <1>8, <1>9, <2>1 DEF BelowInv
<1>13. WalkInv'
  <2>1. ~(1 < 1)
    BY SMTT(30)
  <2> QED BY <1>1, <1>2, <1>6, <1>7, <1>8, <2>1 DEF WalkInv
<1> QED BY <1>10, <1>11, <1>12, <1>13 DEF PlanInv

\* A call that returns leaves the stack of the profile as it is.
LEMMA ReturnStep ==
  ASSUME PlanInv, InstrumentReturns
  PROVE  PlanInv' /\ UNCHANGED Profile!vars
<1> DEFINE n == Len(frames)
<1>1. PlanType /\ Running /\ ~HasChild /\ instrumented' = instrumented \cup {Top.node}
      /\ frames' = SubSeq(frames, 1, Len(frames) - 1)
      /\ below' = SubSeq(below, 1, Len(below) - 1) /\ UNCHANGED <<plan, numbered, failed>>
  BY DEF PlanInv, InstrumentReturns, Profile!WithoutTop
<1>2. /\ n \in DOMAIN frames /\ n \in Nat \ {0} /\ DOMAIN frames = 1 .. n /\ Top \in Frames
      /\ below[n] \in Seq(Entries) /\ Pending = below[n] \o Remaining(Top)
      /\ numbered # <<>> /\ Len(below) = n /\ Top.next <= Len(plan[Top.node]) + 1
      /\ frames # <<>> /\ frames \in Seq(Frames) /\ below \in Seq(Seq(Entries))
  BY <1>1, TopFacts DEF PlanType, Running
<1>3. Top.node \in Profile!Nodes /\ Top.next \in Nat \ {0} /\ Len(plan[Top.node]) \in Nat
  BY <1>1, <1>2, PlanFacts DEF PlanType, Frames
<1>4. Remaining(Top) = <<>>
  <2>1. Top.next = Len(plan[Top.node]) + 1
    BY SMTT(30), <1>1, <1>2, <1>3 DEF HasChild
  <2>2. Remaining(Top) \in Seq(Entries)
        /\ Len(Remaining(Top)) = Len(plan[Top.node]) + 1 - Top.next
    BY <1>1, <1>2, RemainingFacts DEF PlanType
  <2>3. Len(Remaining(Top)) = 0
    BY SMTT(30), <1>3, <2>1, <2>2
  <2> QED BY SMTT(30), <2>2, <2>3
<1>5. Pending = below[n]
  <2>1. below[n] \o <<>> = below[n]
    BY SMTT(30), <1>2
  <2> QED BY <1>2, <1>4, <2>1
<1>6. /\ frames' \in Seq(Frames) /\ DOMAIN frames' = 1 .. n - 1 /\ Len(frames') = n - 1
      /\ \A k \in 1 .. n - 1 : frames'[k] = frames[k]
  BY <1>1, <1>2, WithoutLast
<1>7. /\ below' \in Seq(Seq(Entries)) /\ Len(below') = n - 1
      /\ \A k \in 1 .. n - 1 : below'[k] = below[k]
  <2>1. below # <<>>
    BY SMTT(30), <1>2
  <2> QED BY <1>1, <1>2, <2>1, WithoutLast
<1> HIDE DEF n
<1>8. n \in Nat \ {0} /\ \A k : k \in 1 .. n <=> k \in 1 .. n - 1 \/ k = n
  BY SMTT(30), <1>2
<1>9. \A f : Remaining(f)' = Remaining(f)
  BY <1>1 DEF Remaining
<1>10. Pending' = Pending
  <2>1. CASE n = 1
    <3>1. frames' = <<>>
      BY SMTT(30), <1>6, <2>1
    <3>2. Pending' = <<>>
      BY <1>1, <1>2, <3>1 DEF Pending
    <3> QED BY <1>2, <1>5, <2>1, <3>2 DEF PlanInv, BelowInv
  <2>2. CASE n # 1
    <3>1. n - 1 \in 1 .. n - 1 /\ n - 1 + 1 = n /\ frames' # <<>>
      BY SMTT(30), <1>6, <1>8, <2>2
    <3>2. Pending' = below[n - 1] \o Remaining(frames[n - 1])
      BY <1>1, <1>2, <1>6, <1>7, <3>1, PendingInCall
    <3>3. below[n] = below[n - 1] \o Remaining(frames[n - 1])
      BY <1>2, <1>8, <3>1 DEF PlanInv, BelowInv
    <3> QED BY <1>5, <3>2, <3>3
  <2> QED BY <2>1, <2>2
<1>11. PlanType'
  BY <1>1, <1>2, <1>3, <1>6, <1>7, <1>8 DEF PlanType
<1>12. BelowInv'
  <2>1. frames' # <<>> => 1 \in 1 .. n - 1
    BY SMTT(30), <1>6, <1>8
  <2> QED BY <1>2, <1>6, <1>7, <1>8, <1>9, <2>1 DEF PlanInv, BelowInv
<1>13. WalkInv'
  <2>1. Profile!Collected' = Profile!Collected
    BY <1>1 DEF Profile!Collected
  <2>2. \A m : (\E k \in 1 .. n : frames[k].node = m)
               <=> m = Top.node \/ \E k \in 1 .. n - 1 : frames'[k].node = m
    BY <1>2, <1>6, <1>8 DEF Top, n
  <2>3. \A j, k \in 1 .. n - 1 : j < k => frames'[j].node < frames'[k].node
    BY <1>2, <1>6, <1>8 DEF PlanInv, WalkInv
  <2>4. \A m : m \in instrumented' <=> m \in instrumented \/ m = Top.node
    BY <1>1
  <2> QED BY <1>2, <1>6, <2>1, <2>2, <2>3, <2>4 DEF PlanInv, WalkInv
<1>14. UNCHANGED Profile!vars
  BY <1>1, <1>10 DEF Profile!vars
<1> QED BY <1>11, <1>12, <1>13, <1>14 DEF PlanInv

\* An error ends the recursion and changes none of what it numbered.
LEMMA IdleStep ==
  ASSUME PlanInv, UNCHANGED <<plan, frames, instrumented, numbered, below>>
  PROVE  PlanInv' /\ UNCHANGED Profile!vars
<1>1. \A f : Remaining(f)' = Remaining(f)
  BY DEF Remaining
<1>2. Pending' = Pending
  BY <1>1 DEF Pending
<1>3. Profile!Collected' = Profile!Collected
  BY DEF Profile!Collected
<1> QED BY <1>1, <1>2, <1>3 DEF PlanInv, PlanType, BelowInv, WalkInv, Profile!vars

LEMMA PlanStarts ==
  ASSUME PlanInit
  PROVE  PlanInv /\ Profile!Init
<1>1. Len(<<>>) = 0 /\ DOMAIN <<>> = {} /\ <<>> \in Seq(Frames) /\ <<>> \in Seq(Entries)
      /\ <<>> \in Seq(Seq(Entries))
  BY SMTT(30)
<1>2. Profile!Collected = {}
  BY <1>1 DEF PlanInit, Profile!Collected
<1>3. Profile!Init
  BY DEF PlanInit, Profile!Init, Pending, Profile!Root
<1> QED BY <1>1, <1>2, <1>3 DEF PlanInit, PlanInv, PlanType, BelowInv, WalkInv

\* One step of the recursion is one step of the loop of the profile, or none.
LEMMA PlanStep ==
  ASSUME PlanInv, [PlanNext]_planVars
  PROVE  PlanInv' /\ [Profile!Next]_(Profile!vars)
<1>1. CASE InstrumentPlan
  BY <1>1, RootStep DEF Profile!Next
<1>2. CASE InstrumentKnown
  BY <1>2, KnownStep DEF Profile!Next
<1>3. CASE InstrumentNode
  BY <1>3, NodeStep DEF Profile!Next
<1>4. CASE InstrumentReturns
  BY <1>4, ReturnStep
<1>5. CASE InstrumentFails
  BY <1>5, IdleStep DEF InstrumentFails
<1>6. CASE UNCHANGED planVars
  BY <1>6, IdleStep DEF planVars
<1> QED BY <1>1, <1>2, <1>3, <1>4, <1>5, <1>6 DEF PlanNext

\* The calls in progress and the operators put into the map are, at every point of
\* the recursion, the operators that have an id; the calls lead from an operator to
\* one of its children.
THEOREM PlanInvariant == PlanSpec => []PlanInv
<1>1. PlanInit => PlanInv
  BY PlanStarts
<1>2. PlanInv /\ [PlanNext]_planVars => PlanInv'
  BY PlanStep
<1> QED BY <1>1, <1>2, PTL DEF PlanSpec

\* The recursion that numbers the spans implements the loop that numbers the profile,
\* whatever the plan: the same ids in the same order and the same parents.
THEOREM NumberedAsProfile == PlanSpec => NumberedAsProfiled
<1>1. PlanInit => PlanInv /\ Profile!Init
  BY PlanStarts
<1>2. PlanInv /\ [PlanNext]_planVars => [Profile!Next]_(Profile!vars)
  BY PlanStep
<1> QED BY <1>1, <1>2, PlanInvariant, PTL DEF PlanSpec, NumberedAsProfiled, Profile!Spec
-----------------------------------------------------------------------------
(* Lanes *)

LEMMA NoCallType == NoCall \in Call
  BY DEF NoCall, Call, Activities, NoLane

Active(l) == l \in DOMAIN lanes /\ lanes[l].active

\* A lane that is acquired was held by nobody, and the other active ones stay so.
LEMMA Acquired ==
  ASSUME TypeOK, NEW kind \in {"runtime", "external"}, NEW lane, AcquireWorkerLane(kind, lane)
  PROVE  /\ lanes' \in Seq(LaneState)
         /\ lane \in Nat \ {0} /\ ~Active(lane) /\ Active(lane)'
         /\ \A l : Active(l) => Active(l)'
<1> DEFINE free == {l \in DOMAIN lanes : lanes[l].kind = kind /\ ~lanes[l].active}
<1>1. lanes \in Seq(LaneState) /\ DOMAIN lanes = 1 .. Len(lanes) /\ Len(lanes) \in Nat
  BY SeqFacts DEF TypeOK
<1>2. ASSUME lane \in free, lanes' = [lanes EXCEPT ![lane].active = TRUE]
      PROVE  /\ lanes' \in Seq(LaneState)
             /\ lane \in Nat \ {0} /\ ~Active(lane) /\ Active(lane)'
             /\ \A l : Active(l) => Active(l)'
  <2>1. lane \in 1 .. Len(lanes) /\ lanes[lane] \in LaneState
    BY <1>1, <1>2, SeqFacts
  <2> DEFINE e == [lanes[lane] EXCEPT !.active = TRUE]
  <2>2. e \in LaneState /\ e.active
    BY <2>1 DEF LaneState
  <2>3. lanes' = [lanes EXCEPT ![lane] = e]
    BY <1>2
  <2> HIDE DEF e
  <2>4. /\ lanes' \in Seq(LaneState) /\ Len(lanes') = Len(lanes)
        /\ \A j \in 1 .. Len(lanes) : lanes'[j] = IF j = lane THEN e ELSE lanes[j]
    BY SMTT(30), <1>1, <2>1, <2>2, <2>3
  <2>5. DOMAIN lanes' = 1 .. Len(lanes)
    BY <2>4, SeqFacts
  <2> QED BY SMTT(30), <1>1, <1>2, <2>1, <2>2, <2>4, <2>5 DEF Active
<1>3. ASSUME lane = Len(lanes) + 1,
             lanes' = Append(lanes, [kind |-> kind, active |-> TRUE])
      PROVE  /\ lanes' \in Seq(LaneState)
             /\ lane \in Nat \ {0} /\ ~Active(lane) /\ Active(lane)'
             /\ \A l : Active(l) => Active(l)'
  <2> DEFINE e == [kind |-> kind, active |-> TRUE]
  <2>1. e \in LaneState /\ e.active
    BY DEF LaneState
  <2>2. lanes' = Append(lanes, e)
    BY <1>3
  <2> HIDE DEF e
  <2>3. /\ lanes' \in Seq(LaneState) /\ DOMAIN lanes' = 1 .. Len(lanes) + 1
        /\ lanes'[Len(lanes) + 1] = e /\ \A i \in 1 .. Len(lanes) : lanes'[i] = lanes[i]
    BY SMTT(30), <1>1, <2>1, <2>2, WithLast
  <2> QED BY SMTT(30), <1>1, <1>3, <2>1, <2>3 DEF Active
<1> QED BY <1>2, <1>3 DEF AcquireWorkerLane

\* A lane that is released: the other ones keep their state.
LEMMA Released ==
  ASSUME TypeOK, NEW lane, Active(lane), ReleaseWorkerLane(lane)
  PROVE  lanes' \in Seq(LaneState) /\ \A l : (Active(l) /\ l # lane) => Active(l)'
<1>1. lanes \in Seq(LaneState) /\ DOMAIN lanes = 1 .. Len(lanes)
  BY SeqFacts DEF TypeOK
<1>2. lane \in 1 .. Len(lanes) /\ lanes[lane] \in LaneState
  BY <1>1, SeqFacts DEF Active
<1> DEFINE e == [lanes[lane] EXCEPT !.active = FALSE]
<1>3. e \in LaneState
  BY <1>2 DEF LaneState
<1>4. lanes' = [lanes EXCEPT ![lane] = e]
  BY DEF ReleaseWorkerLane
<1> HIDE DEF e
<1>5. /\ lanes' \in Seq(LaneState) /\ Len(lanes') = Len(lanes)
      /\ \A j \in 1 .. Len(lanes) : lanes'[j] = IF j = lane THEN e ELSE lanes[j]
  BY SMTT(30), <1>1, <1>2, <1>3, <1>4
<1>6. DOMAIN lanes' = 1 .. Len(lanes)
  BY <1>5, SeqFacts
<1> QED BY <1>1, <1>5, <1>6 DEF Active
-----------------------------------------------------------------------------
(* The invariant. *)

HeldByCall(t, l) == \E i \in DOMAIN calls[t] : calls[t][i].owns /\ calls[t][i].lane = l

HeldByEntry(t, l) == pc[t] # "running" /\ entry[t].owns /\ entry[t].lane = l

Holds(t, l) == HeldByCall(t, l) \/ HeldByEntry(t, l)

\* A lane that a call owns is active and the call is the outermost with a lane.
OwnedInv(t) ==
  \A i \in DOMAIN calls[t] : calls[t][i].owns =>
    /\ Active(calls[t][i].lane) /\ calls[t][i].activity # "wait"
    /\ \A j \in DOMAIN calls[t] : j < i => calls[t][j].lane = NoLane

\* Every other lane of a call is inherited from the call that owns it.
InheritedInv(t) ==
  \A i \in DOMAIN calls[t] : calls[t][i].lane # NoLane =>
    \/ t = Main /\ calls[t][i].lane = CoordinatorLane
    \/ \E j \in DOMAIN calls[t] : j <= i /\ calls[t][j].owns /\ calls[t][j].lane = calls[t][i].lane

\* The same for the call that is entered, or has been left and gives its lane back.
EntryInv(t) ==
  pc[t] # "running" =>
    /\ entry[t].owns => Active(entry[t].lane) /\ ActiveSpans(t) = {}
    /\ (~entry[t].owns /\ entry[t].activity # "wait") =>
         \/ t = Main /\ entry[t].lane = CoordinatorLane
         \/ HeldByCall(t, entry[t].lane)
    /\ pc[t] = "release" => entry[t].owns
    /\ entry[t].activity = "wait" => ~entry[t].owns /\ entry[t].id \in ScanStreams

ThreadInv(t) == OwnedInv(t) /\ InheritedInv(t) /\ EntryInv(t)

LaneInv ==
  /\ TypeOK
  /\ \A t \in Threads : ThreadInv(t)
  /\ \A t, u \in Threads : \A l : (Holds(t, l) /\ Holds(u, l)) => t = u

\* A lane is active as long as somebody holds it.
LEMMA HeldIsActive ==
  ASSUME LaneInv
  PROVE  \A t \in Threads : \A l : Holds(t, l) => Active(l)
<1> SUFFICES ASSUME NEW t \in Threads, NEW l, Holds(t, l) PROVE Active(l)
  OBVIOUS
<1>1. OwnedInv(t) /\ EntryInv(t)
  BY DEF LaneInv, ThreadInv
<1>2. CASE HeldByCall(t, l)
  BY <1>1, <1>2 DEF OwnedInv, HeldByCall
<1>3. CASE HeldByEntry(t, l)
  BY <1>1, <1>3 DEF EntryInv, HeldByEntry
<1> QED BY <1>2, <1>3 DEF Holds

\* What is left to show for a step of thread t.
LEMMA StepOfThread ==
  ASSUME LaneInv, TypeOK', NEW t \in Threads,
         \A u \in Threads \ {t} : calls'[u] = calls[u] /\ pc'[u] = pc[u] /\ entry'[u] = entry[u],
         \A u \in Threads \ {t} : \A l : (Holds(u, l) /\ Active(l)) => Active(l)',
         ThreadInv(t)',
         \A l : Holds(t, l)' => Holds(t, l) \/ \A u \in Threads : ~Holds(u, l)
  PROVE  LaneInv'
<1>1. ASSUME NEW u \in Threads \ {t} PROVE ThreadInv(u)'
  <2>1. ThreadInv(u)
    BY DEF LaneInv
  <2>2. calls'[u] = calls[u] /\ pc'[u] = pc[u] /\ entry'[u] = entry[u]
    BY <1>1
  <2>3. \A l : (Holds(u, l) /\ Active(l)) => Active(l)'
    BY <1>1
  <2>4. OwnedInv(u)'
    BY SMTT(30), <2>1, <2>2, <2>3 DEF ThreadInv, OwnedInv, Holds, HeldByCall
  <2>5. InheritedInv(u)'
    BY SMTT(30), <2>1, <2>2 DEF ThreadInv, InheritedInv
  <2>6. EntryInv(u)'
    BY SMTT(30), <2>1, <2>2, <2>3 DEF ThreadInv, EntryInv, Holds, HeldByCall, HeldByEntry, ActiveSpans
  <2> QED BY <2>4, <2>5, <2>6 DEF ThreadInv
<1>2. \A u \in Threads \ {t} : \A l : Holds(u, l)' => Holds(u, l)
  BY DEF Holds, HeldByCall, HeldByEntry
<1>3. ASSUME NEW u \in Threads, NEW v \in Threads, NEW l, Holds(u, l)', Holds(v, l)'
      PROVE  u = v
  BY <1>2, <1>3 DEF LaneInv
<1> QED BY <1>1, <1>3 DEF LaneInv

\* A step that changes no call, no lane and no entry of a thread but its position
\* on the way in.
LEMMA StepOnTheWay ==
  ASSUME LaneInv, TypeOK', NEW t \in Threads, UNCHANGED <<calls, lanes, entry>>,
         pc[t] \notin {"running", "release"},
         \E p \in {"granted", "refused", "announce", "capped"} : pc' = [pc EXCEPT ![t] = p]
  PROVE  LaneInv'
<1>1. pc \in [Threads -> {"running", "reserve", "granted", "refused", "announce", "capped", "release"}]
  BY DEF LaneInv, TypeOK
<1>2. pc'[t] \notin {"running", "release"} /\ \A u \in Threads \ {t} : pc'[u] = pc[u]
  BY <1>1
<1>3. ThreadInv(t)
  BY DEF LaneInv
<1>4. ThreadInv(t)'
  BY <1>2, <1>3 DEF ThreadInv, OwnedInv, InheritedInv, EntryInv, Active, HeldByCall, ActiveSpans
<1>5. \A l : Holds(t, l)' => Holds(t, l)
  BY DEF Holds, HeldByCall, HeldByEntry
<1>6. \A l : Active(l) => Active(l)'
  BY DEF Active
<1> QED BY <1>2, <1>4, <1>5, <1>6, StepOfThread
-----------------------------------------------------------------------------
(* The actions. *)

LEMMA StartSpanStep ==
  ASSUME LaneInv, NEW t \in Threads, NEW s \in Streams, NEW a \in {"execute", "poll"},
         StartSpan(t, s, a)
  PROVE  LaneInv'
<1>1. PICK lane \in 0 .. Len(lanes) + 1, owns \in BOOLEAN :
        /\ ExecutionContext(t, s \in FirstStreams, lane, owns)
        /\ entry' = [entry EXCEPT ![t] =
            [activity |-> a, id |-> s, lane |-> lane, owns |-> owns,
             parent |-> ActiveSpans(t) # {}, result |-> "none"]]
  BY DEF StartSpan
<1> DEFINE e == [activity |-> a, id |-> s, lane |-> lane, owns |-> owns,
                 parent |-> ActiveSpans(t) # {}, result |-> "none"]
<1>2. TypeOK /\ ThreadInv(t) /\ lanes \in Seq(LaneState) /\ Len(lanes) \in Nat
  BY SeqFacts DEF LaneInv, TypeOK
<1>3. lane \in Nat
  BY SMTT(30), <1>2
<1>4. e \in Call /\ e.owns = owns /\ e.lane = lane /\ e.activity # "wait"
  BY <1>3 DEF Call, Activities
<1>a. entry' = [entry EXCEPT ![t] = e]
  BY <1>1
<1> HIDE DEF e
<1>5. /\ entry'[t] = e /\ pc'[t] = "reserve" /\ pc[t] = "running" /\ calls' = calls
      /\ \A u \in Threads \ {t} : pc'[u] = pc[u] /\ entry'[u] = entry[u]
      /\ entry' \in [Threads -> Call]
  BY <1>a, <1>2, <1>4 DEF StartSpan, InCode, TypeOK
<1>6. /\ lanes' \in Seq(LaneState)
      /\ \A l : Active(l) => Active(l)'
      /\ owns => ActiveSpans(t) = {} /\ ~Active(lane) /\ Active(lane)'
      /\ ~owns => \/ t = Main /\ lane = CoordinatorLane
                  \/ \E i \in ActiveSpans(t) : lane = calls[t][i].lane
  <2>1. Kind(t) \in {"runtime", "external"}
    BY DEF Kind
  <2>2. ASSUME UNCHANGED lanes PROVE lanes' \in Seq(LaneState) /\ \A l : Active(l) => Active(l)'
    BY <1>2, <2>2 DEF Active
  <2>3. ASSUME AcquireWorkerLane(Kind(t), lane)
        PROVE  /\ lanes' \in Seq(LaneState) /\ ~Active(lane) /\ Active(lane)'
               /\ \A l : Active(l) => Active(l)'
    BY <1>2, <2>1, <2>3, Acquired
  <2> QED BY <1>1, <2>2, <2>3 DEF ExecutionContext
<1>7. TypeOK'
  BY <1>2, <1>5, <1>6 DEF StartSpan, TypeOK
<1>8. OwnedInv(t)' /\ InheritedInv(t)'
  BY <1>2, <1>5, <1>6 DEF ThreadInv, OwnedInv, InheritedInv
<1>9. ~owns => \/ t = Main /\ lane = CoordinatorLane
              \/ HeldByCall(t, lane)
  BY <1>2, <1>6 DEF ThreadInv, InheritedInv, HeldByCall, ActiveSpans
<1>10. EntryInv(t)'
  BY <1>4, <1>5, <1>6, <1>9 DEF EntryInv, HeldByCall, ActiveSpans
<1>11. \A l : Holds(t, l)' => Holds(t, l) \/ \A u \in Threads : ~Holds(u, l)
  <2>1. \A u \in Threads : \A l : Holds(u, l) => Active(l)
    BY HeldIsActive
  <2>2. \A l : Holds(t, l)' => Holds(t, l) \/ (owns /\ l = lane)
    BY <1>4, <1>5 DEF Holds, HeldByCall, HeldByEntry
  <2> QED BY SMTT(30), <1>6, <2>1, <2>2
<1>12. ThreadInv(t)'
  BY <1>8, <1>10 DEF ThreadInv
<1> QED BY <1>5, <1>6, <1>7, <1>11, <1>12, StepOfThread

LEMMA RecordSpanStep ==
  ASSUME LaneInv, NEW t \in Threads, RecordSpan(t)
  PROVE  LaneInv'
<1>1. TypeOK /\ ThreadInv(t) /\ calls[t] \in Seq(Call) /\ entry[t] \in Call
  BY DEF LaneInv, TypeOK
<1> DEFINE n == Len(calls[t])
<1>2. /\ Append(calls[t], entry[t]) \in Seq(Call)
      /\ DOMAIN Append(calls[t], entry[t]) = 1 .. n + 1
      /\ Append(calls[t], entry[t])[n + 1] = entry[t]
      /\ \A i \in 1 .. n : Append(calls[t], entry[t])[i] = calls[t][i]
      /\ DOMAIN calls[t] = 1 .. n /\ n \in Nat
  BY SMTT(30), <1>1, WithLast, SeqFacts
<1>3. /\ calls'[t] = Append(calls[t], entry[t]) /\ pc'[t] = "running" /\ lanes' = lanes
      /\ \A u \in Threads \ {t} : calls'[u] = calls[u] /\ pc'[u] = pc[u] /\ entry'[u] = entry[u]
      /\ pc[t] # "running" /\ entry[t].activity # "wait"
  BY <1>1 DEF RecordSpan, TypeOK
<1>4. TypeOK'
  <2>1. calls' \in [Threads -> Seq(Call)]
    BY <1>1, <1>2 DEF RecordSpan, TypeOK
  <2>2. entry' \in [Threads -> Call]
    BY <1>1, NoCallType DEF RecordSpan, TypeOK
  <2> QED BY SMTT(30), <1>1, <2>1, <2>2 DEF RecordSpan, TypeOK
<1> HIDE DEF n
<1>5. \A l : Active(l) <=> Active(l)'
  BY <1>3 DEF Active
<1>6. EntryInv(t)
  BY <1>1 DEF ThreadInv
<1>7. OwnedInv(t)'
  <2>1. ASSUME NEW i \in 1 .. n + 1, calls'[t][i].owns
        PROVE  /\ Active(calls'[t][i].lane) /\ calls'[t][i].activity # "wait"
               /\ \A j \in 1 .. n + 1 : j < i => calls'[t][j].lane = NoLane
    <3>1. CASE i = n + 1
      <4>1. calls'[t][i] = entry[t] /\ Active(entry[t].lane) /\ ActiveSpans(t) = {}
        BY <1>2, <1>3, <1>6, <2>1, <3>1 DEF EntryInv
      <4> QED BY SMTT(30), <1>2, <1>3, <3>1, <4>1 DEF ActiveSpans
    <3>2. CASE i \in 1 .. n
      <4>1. calls'[t][i] = calls[t][i] /\ \A j \in 1 .. n + 1 : j < i => j \in 1 .. n /\ calls'[t][j] = calls[t][j]
        BY SMTT(30), <1>2, <1>3, <3>2
      <4> QED BY <1>1, <1>2, <2>1, <3>2, <4>1 DEF ThreadInv, OwnedInv
    <3> QED BY SMTT(30), <1>2, <3>1, <3>2
  <2>2. DOMAIN calls'[t] = 1 .. n + 1
    BY <1>2, <1>3
  <2> QED BY <1>5, <2>1, <2>2 DEF OwnedInv, Active
<1>8. InheritedInv(t)'
  <2>1. ASSUME NEW i \in 1 .. n + 1, calls'[t][i].lane # NoLane
        PROVE  \/ t = Main /\ calls'[t][i].lane = CoordinatorLane
               \/ \E j \in 1 .. n + 1 : j <= i /\ calls'[t][j].owns /\ calls'[t][j].lane = calls'[t][i].lane
    <3>1. CASE i = n + 1
      <4>1. calls'[t][i] = entry[t]
        BY <1>2, <1>3, <3>1
      <4>2. CASE entry[t].owns
        BY SMTT(30), <1>2, <3>1, <4>1, <4>2
      <4>3. CASE ~entry[t].owns
        BY SMTT(30), <1>2, <1>3, <1>6, <3>1, <4>1, <4>3 DEF EntryInv, HeldByCall
      <4> QED BY <4>2, <4>3
    <3>2. CASE i \in 1 .. n
      <4>1. calls'[t][i] = calls[t][i] /\ \A j \in 1 .. n : j \in 1 .. n + 1 /\ calls'[t][j] = calls[t][j]
        BY SMTT(30), <1>2, <1>3, <3>2
      <4> QED BY SMTT(30), <1>1, <1>2, <2>1, <3>2, <4>1 DEF ThreadInv, InheritedInv
    <3> QED BY SMTT(30), <1>2, <3>1, <3>2
  <2> QED BY <1>2, <1>3, <2>1 DEF InheritedInv
<1>9. EntryInv(t)'
  BY <1>3 DEF EntryInv
<1>10. \A l : Holds(t, l)' => Holds(t, l)
  <2>1. ASSUME NEW l, HeldByCall(t, l)' PROVE Holds(t, l)
    <3>1. PICK i \in 1 .. n + 1 : calls'[t][i].owns /\ calls'[t][i].lane = l
      BY <1>2, <1>3, <2>1 DEF HeldByCall
    <3> QED BY SMTT(30), <1>2, <1>3, <3>1 DEF Holds, HeldByCall, HeldByEntry
  <2> QED BY <1>3, <2>1 DEF Holds, HeldByEntry
<1>11. ThreadInv(t)'
  BY <1>7, <1>8, <1>9 DEF ThreadInv
<1> QED BY <1>3, <1>4, <1>5, <1>10, <1>11, StepOfThread

\* A lane that thread t gives back is not the lane of a call, of t or another one.
LEMMA NobodyElseHolds ==
  ASSUME LaneInv, NEW t \in Threads, pc[t] # "running", entry[t].owns
  PROVE  /\ Active(entry[t].lane)
         /\ \A i \in DOMAIN calls[t] : ~calls[t][i].owns
         /\ \A u \in Threads \ {t} : ~Holds(u, entry[t].lane)
<1>1. Active(entry[t].lane) /\ ActiveSpans(t) = {}
  BY DEF LaneInv, ThreadInv, EntryInv
<1>2. ~Active(NoLane)
  BY SMTT(30), SeqFacts DEF LaneInv, TypeOK, Active, NoLane
<1>3. \A i \in DOMAIN calls[t] : ~calls[t][i].owns
  BY SMTT(30), <1>1, <1>2 DEF LaneInv, ThreadInv, OwnedInv, ActiveSpans
<1>4. Holds(t, entry[t].lane)
  BY DEF Holds, HeldByEntry
<1> QED BY <1>1, <1>3, <1>4 DEF LaneInv

LEMMA OmitSpanStep ==
  ASSUME LaneInv, NEW t \in Threads, OmitSpan(t)
  PROVE  LaneInv'
<1> DEFINE n == Len(calls[t])
           e == [entry[t] EXCEPT !.lane = NoLane, !.owns = FALSE]
<1>1. TypeOK /\ ThreadInv(t) /\ calls[t] \in Seq(Call) /\ entry[t] \in Call
  BY DEF LaneInv, TypeOK
<1>2. e \in Call /\ ~e.owns /\ e.lane = NoLane
  BY <1>1 DEF Call
<1>3. calls' = [calls EXCEPT ![t] = Append(calls[t], e)]
  BY DEF OmitSpan
<1> HIDE DEF e
<1>4. /\ Append(calls[t], e) \in Seq(Call)
      /\ DOMAIN Append(calls[t], e) = 1 .. n + 1
      /\ Append(calls[t], e)[n + 1] = e
      /\ \A i \in 1 .. n : Append(calls[t], e)[i] = calls[t][i]
      /\ DOMAIN calls[t] = 1 .. n /\ n \in Nat
  BY SMTT(30), <1>1, <1>2, WithLast, SeqFacts
<1>5. /\ calls'[t] = Append(calls[t], e) /\ pc'[t] = "running" /\ pc[t] # "running"
      /\ \A u \in Threads \ {t} : calls'[u] = calls[u] /\ pc'[u] = pc[u] /\ entry'[u] = entry[u]
  BY <1>1, <1>3 DEF OmitSpan, TypeOK
<1> HIDE DEF n
<1>6. /\ lanes' \in Seq(LaneState)
      /\ \A u \in Threads \ {t} : \A l : (Holds(u, l) /\ Active(l)) => Active(l)'
      /\ \A i \in DOMAIN calls[t] : calls[t][i].owns => UNCHANGED lanes
  <2>1. ASSUME entry[t].owns
        PROVE  /\ lanes' \in Seq(LaneState)
               /\ \A u \in Threads \ {t} : \A l : (Holds(u, l) /\ Active(l)) => Active(l)'
               /\ \A i \in DOMAIN calls[t] : ~calls[t][i].owns
    BY <1>1, <1>5, <2>1, NobodyElseHolds, Released DEF OmitSpan
  <2>2. ASSUME ~entry[t].owns PROVE UNCHANGED lanes
    BY <2>2 DEF OmitSpan
  <2>3. ASSUME UNCHANGED lanes PROVE lanes' \in Seq(LaneState) /\ \A l : Active(l) => Active(l)'
    BY <1>1, <2>3 DEF TypeOK, Active
  <2> QED BY <2>1, <2>2, <2>3
<1>7. TypeOK'
  <2>1. calls' \in [Threads -> Seq(Call)]
    BY <1>1, <1>3, <1>4 DEF TypeOK
  <2>2. entry' \in [Threads -> Call]
    BY <1>1, NoCallType DEF OmitSpan, TypeOK
  <2> QED BY <1>1, <1>6, <2>1, <2>2 DEF OmitSpan, TypeOK
<1>8. \A i \in 1 .. n + 1 : (i \in 1 .. n /\ calls'[t][i] = calls[t][i])
                            \/ (~calls'[t][i].owns /\ calls'[t][i].lane = NoLane)
  <2>1. \A i \in 1 .. n + 1 : i \in 1 .. n \/ i = n + 1
    BY SMTT(30), <1>4
  <2>2. ~calls'[t][n + 1].owns /\ calls'[t][n + 1].lane = NoLane
    BY <1>2, <1>4, <1>5
  <2>3. \A i \in 1 .. n : calls'[t][i] = calls[t][i]
    BY <1>4, <1>5
  <2> QED BY <2>1, <2>2, <2>3
<1>9. DOMAIN calls'[t] = 1 .. n + 1 /\ DOMAIN calls[t] = 1 .. n
  BY <1>4, <1>5
<1>10. OwnedInv(t)'
  BY <1>1, <1>6, <1>8, <1>9 DEF ThreadInv, OwnedInv, Active
<1>11. InheritedInv(t)'
  <2>1. \A j \in 1 .. n : j \in 1 .. n + 1 /\ calls'[t][j] = calls[t][j]
    BY SMTT(30), <1>4, <1>5
  <2> QED BY SMTT(30), <1>1, <1>8, <1>9, <2>1 DEF ThreadInv, InheritedInv
<1>12. ThreadInv(t)'
  BY <1>5, <1>10, <1>11 DEF ThreadInv, EntryInv
<1>13. \A l : Holds(t, l)' => Holds(t, l)
  BY <1>5, <1>8, <1>9 DEF Holds, HeldByCall, HeldByEntry
<1> QED BY <1>5, <1>6, <1>7, <1>12, <1>13, StepOfThread

LEMMA RecordWaitStep ==
  ASSUME LaneInv, NEW t \in Threads, RecordWait(t)
  PROVE  LaneInv'
<1>1. TypeOK /\ ThreadInv(t)
  BY DEF LaneInv
<1>2. /\ pc'[t] = "running" /\ calls' = calls /\ lanes' = lanes
      /\ \A u \in Threads \ {t} : pc'[u] = pc[u] /\ entry'[u] = entry[u]
  BY <1>1 DEF RecordWait, TypeOK
<1>3. TypeOK'
  <2>1. waiting' \subseteq ScanStreams /\ recorded' \in Nat
    BY SMTT(30), <1>1 DEF RecordWait, TypeOK, ThreadInv, EntryInv
  <2>2. entry' \in [Threads -> Call]
    BY <1>1, NoCallType DEF RecordWait, TypeOK
  <2> QED BY <1>1, <2>1, <2>2 DEF RecordWait, TypeOK
<1>4. ThreadInv(t)'
  BY <1>1, <1>2 DEF ThreadInv, OwnedInv, InheritedInv, EntryInv, Active
<1>5. \A l : Holds(t, l)' => Holds(t, l)
  BY <1>2 DEF Holds, HeldByCall, HeldByEntry
<1>6. \A l : Active(l) => Active(l)'
  BY <1>2 DEF Active
<1> QED BY <1>2, <1>3, <1>4, <1>5, <1>6, StepOfThread

\* After a span: the thread is back in its code or begins to record a wait.
LEMMA AfterSpanFacts ==
  ASSUME TypeOK, NEW t \in Threads, NEW c \in Call, AfterSpan(t, c)
  PROVE  /\ entry' \in [Threads -> Call] /\ waiting' \subseteq ScanStreams
         /\ pc'[t] \in {"running", "reserve"}
         /\ pc'[t] = "reserve" =>
              ~entry'[t].owns /\ entry'[t].activity = "wait" /\ entry'[t].id \in ScanStreams
         /\ \A u \in Threads \ {t} : pc'[u] = pc[u] /\ entry'[u] = entry[u]
         /\ pc' \in [Threads -> {"running", "reserve", "granted", "refused", "announce", "capped", "release"}]
<1> DEFINE w == [NoCall EXCEPT !.activity = "wait", !.id = c.id]
<1>1. w \in Call /\ ~w.owns /\ w.activity = "wait" /\ w.id = c.id
  BY NoCallType DEF Call, Activities, NoCall
<1>2. StartsWait(c) => c.id \in ScanStreams
  BY DEF StartsWait
<1>3. entry' = [entry EXCEPT ![t] = IF StartsWait(c) THEN w ELSE NoCall]
  BY DEF AfterSpan
<1> HIDE DEF w
<1>4. entry' \in [Threads -> Call] /\ \A u \in Threads \ {t} : entry'[u] = entry[u]
  BY <1>1, <1>3, NoCallType DEF TypeOK
<1>5. /\ pc'[t] = (IF StartsWait(c) THEN "reserve" ELSE "running")
      /\ pc' \in [Threads -> {"running", "reserve", "granted", "refused", "announce", "capped", "release"}]
      /\ \A u \in Threads \ {t} : pc'[u] = pc[u]
  BY DEF AfterSpan, TypeOK
<1>6. waiting' \subseteq ScanStreams
  BY DEF AfterSpan, TypeOK
<1>7. entry'[t] = IF StartsWait(c) THEN w ELSE NoCall
  BY <1>3 DEF TypeOK
<1>8. pc'[t] \in {"running", "reserve"} /\ (pc'[t] = "reserve" => entry'[t] = w /\ c.id \in ScanStreams)
  BY <1>2, <1>5, <1>7
<1> QED BY <1>1, <1>4, <1>5, <1>6, <1>8

LEMMA CloseSpanStep ==
  ASSUME LaneInv, NEW t \in Threads, NEW r \in {"pending", "ready", "panic"}, CloseSpan(t, r)
  PROVE  LaneInv'
<1> DEFINE n == Len(calls[t])
           rest == SubSeq(calls[t], 1, n - 1)
           c == [calls[t][n] EXCEPT !.result = r]
<1>1. TypeOK /\ ThreadInv(t) /\ calls[t] \in Seq(Call) /\ calls[t] # <<>> /\ pc[t] = "running"
  BY DEF LaneInv, TypeOK, CloseSpan
<1>2. /\ n \in DOMAIN calls[t] /\ rest \in Seq(Call) /\ DOMAIN rest = 1 .. n - 1
      /\ \A i \in 1 .. n - 1 : rest[i] = calls[t][i]
      /\ DOMAIN calls[t] = 1 .. n /\ n \in Nat /\ calls[t][n] \in Call
  BY <1>1, WithoutLast, SeqFacts
<1>3. c \in Call /\ c.owns = calls[t][n].owns /\ c.lane = calls[t][n].lane /\ c.activity = calls[t][n].activity
  BY <1>2 DEF Call
<1>4. /\ calls' = [calls EXCEPT ![t] = rest] /\ lanes' = lanes
      /\ c.owns => /\ entry' = [entry EXCEPT ![t] = c]
                   /\ pc' = [pc EXCEPT ![t] = "release"] /\ waiting' = waiting
      /\ ~c.owns => AfterSpan(t, c)
      /\ c.activity = "poll" \/ r # "pending"
  BY DEF CloseSpan
<1> HIDE DEF rest, c, n
<1>5. /\ calls'[t] = rest /\ calls' \in [Threads -> Seq(Call)]
      /\ \A u \in Threads \ {t} : calls'[u] = calls[u]
  BY <1>1, <1>2, <1>4 DEF TypeOK
<1>6. /\ DOMAIN calls'[t] = 1 .. n - 1 /\ DOMAIN calls[t] = 1 .. n /\ n \in 1 .. n
      /\ \A i \in 1 .. n - 1 : i \in 1 .. n /\ i < n /\ calls'[t][i] = calls[t][i]
  BY SMTT(30), <1>2, <1>5
<1>7. OwnedInv(t)'
  <2>1. \A i \in 1 .. n - 1 : calls'[t][i].owns =>
          /\ Active(calls'[t][i].lane) /\ calls'[t][i].activity # "wait"
          /\ \A j \in 1 .. n - 1 : j < i => calls'[t][j].lane = NoLane
    BY <1>1, <1>6 DEF ThreadInv, OwnedInv
  <2> QED BY <1>4, <1>6, <2>1 DEF OwnedInv, Active
<1>8. InheritedInv(t)'
  <2>1. ASSUME NEW i \in 1 .. n - 1, calls'[t][i].lane # NoLane
        PROVE  \/ t = Main /\ calls'[t][i].lane = CoordinatorLane
               \/ \E j \in 1 .. n - 1 : j <= i /\ calls'[t][j].owns /\ calls'[t][j].lane = calls'[t][i].lane
    <3>1. \/ t = Main /\ calls[t][i].lane = CoordinatorLane
          \/ \E j \in 1 .. n : j <= i /\ calls[t][j].owns /\ calls[t][j].lane = calls[t][i].lane
      BY <1>1, <1>6, <2>1 DEF ThreadInv, InheritedInv
    <3>2. \A j \in 1 .. n : j <= i => j \in 1 .. n - 1
      BY SMTT(30), <1>2
    <3> QED BY <1>6, <3>1, <3>2
  <2> QED BY <1>6, <2>1 DEF InheritedInv
<1>9. \A l : Active(l) => Active(l)'
  BY <1>4 DEF Active
<1>10. ASSUME c.owns
       PROVE  /\ entry' \in [Threads -> Call] /\ waiting' \subseteq ScanStreams /\ EntryInv(t)'
              /\ pc' \in [Threads -> {"running", "reserve", "granted", "refused", "announce", "capped", "release"}]
              /\ \A u \in Threads \ {t} : pc'[u] = pc[u] /\ entry'[u] = entry[u]
              /\ \A l : Holds(t, l)' => Holds(t, l)
  <2>1. /\ entry'[t] = c /\ pc'[t] = "release" /\ entry' \in [Threads -> Call]
        /\ \A u \in Threads \ {t} : pc'[u] = pc[u] /\ entry'[u] = entry[u]
        /\ pc' \in [Threads -> {"running", "reserve", "granted", "refused", "announce", "capped", "release"}]
    BY <1>1, <1>3, <1>4, <1>10 DEF TypeOK
  <2>2. Active(c.lane) /\ \A j \in 1 .. n - 1 : calls[t][j].lane = NoLane
    BY <1>1, <1>3, <1>6, <1>10 DEF ThreadInv, OwnedInv
  <2>3. ActiveSpans(t)' = {}
    BY <1>6, <2>2 DEF ActiveSpans
  <2>4. c.activity # "wait"
    BY <1>1, <1>3, <1>6, <1>10 DEF ThreadInv, OwnedInv
  <2>5. EntryInv(t)'
    BY <1>9, <1>10, <2>1, <2>2, <2>3, <2>4 DEF EntryInv
  <2>6. \A l : Holds(t, l)' => Holds(t, l)
    BY <1>3, <1>6, <1>10, <2>1 DEF Holds, HeldByCall, HeldByEntry
  <2> QED BY <1>1, <1>4, <1>10, <2>1, <2>5, <2>6 DEF TypeOK
<1>11. ASSUME ~c.owns
       PROVE  /\ entry' \in [Threads -> Call] /\ waiting' \subseteq ScanStreams /\ EntryInv(t)'
              /\ pc' \in [Threads -> {"running", "reserve", "granted", "refused", "announce", "capped", "release"}]
              /\ \A u \in Threads \ {t} : pc'[u] = pc[u] /\ entry'[u] = entry[u]
              /\ \A l : Holds(t, l)' => Holds(t, l)
  <2>1. /\ entry' \in [Threads -> Call] /\ waiting' \subseteq ScanStreams
        /\ pc'[t] \in {"running", "reserve"}
        /\ pc'[t] = "reserve" =>
              ~entry'[t].owns /\ entry'[t].activity = "wait" /\ entry'[t].id \in ScanStreams
        /\ \A u \in Threads \ {t} : pc'[u] = pc[u] /\ entry'[u] = entry[u]
        /\ pc' \in [Threads -> {"running", "reserve", "granted", "refused", "announce", "capped", "release"}]
    BY <1>1, <1>3, <1>4, <1>11, AfterSpanFacts
  <2>2. EntryInv(t)'
    BY <2>1 DEF EntryInv
  <2>3. \A l : Holds(t, l)' => Holds(t, l)
    BY <1>6, <2>1 DEF Holds, HeldByCall, HeldByEntry
  <2> QED BY <2>1, <2>2, <2>3
<1>12. TypeOK'
  <2>1. UNCHANGED <<lanes, remaining, reported, tasks, recorded, refused, announced>>
    BY DEF CloseSpan
  <2> QED BY <1>1, <1>5, <1>10, <1>11, <2>1 DEF TypeOK
<1>13. ThreadInv(t)'
  BY <1>7, <1>8, <1>10, <1>11 DEF ThreadInv
<1> QED BY <1>5, <1>9, <1>10, <1>11, <1>12, <1>13, StepOfThread

LEMMA ReleaseLaneStep ==
  ASSUME LaneInv, NEW t \in Threads, ReleaseLane(t)
  PROVE  LaneInv'
<1>1. TypeOK /\ ThreadInv(t) /\ entry[t] \in Call /\ pc[t] = "release" /\ calls' = calls
  BY DEF LaneInv, TypeOK, ReleaseLane
<1>2. entry[t].owns
  BY <1>1 DEF ThreadInv, EntryInv
<1>3. /\ Active(entry[t].lane)
      /\ \A i \in DOMAIN calls[t] : ~calls[t][i].owns
      /\ \A u \in Threads \ {t} : ~Holds(u, entry[t].lane)
  BY <1>1, <1>2, NobodyElseHolds
<1>4. lanes' \in Seq(LaneState) /\ \A l : (Active(l) /\ l # entry[t].lane) => Active(l)'
  BY <1>1, <1>3, Released DEF ReleaseLane
<1>5. /\ entry' \in [Threads -> Call] /\ waiting' \subseteq ScanStreams
      /\ pc'[t] \in {"running", "reserve"}
      /\ pc'[t] = "reserve" =>
            ~entry'[t].owns /\ entry'[t].activity = "wait" /\ entry'[t].id \in ScanStreams
      /\ \A u \in Threads \ {t} : pc'[u] = pc[u] /\ entry'[u] = entry[u]
      /\ pc' \in [Threads -> {"running", "reserve", "granted", "refused", "announce", "capped", "release"}]
  BY <1>1, AfterSpanFacts DEF ReleaseLane
<1>6. TypeOK'
  BY <1>1, <1>4, <1>5 DEF ReleaseLane, TypeOK
<1>7. OwnedInv(t)' /\ InheritedInv(t)'
  BY <1>1, <1>3 DEF ThreadInv, OwnedInv, InheritedInv
<1>8. EntryInv(t)'
  BY <1>5 DEF EntryInv
<1>9. ThreadInv(t)'
  BY <1>7, <1>8 DEF ThreadInv
<1>10. \A l : Holds(t, l)' => Holds(t, l)
  BY <1>1, <1>5 DEF Holds, HeldByCall, HeldByEntry
<1> QED BY <1>1, <1>3, <1>4, <1>5, <1>6, <1>9, <1>10, StepOfThread

LEMMA PollTaskStep ==
  ASSUME LaneInv, NEW t \in Threads, NEW k \in Tasks, PollTask(t, k)
  PROVE  LaneInv'
<1>1. PICK lane \in {NoLane} \cup (0 .. Len(lanes) + 1), owns \in BOOLEAN :
        /\ IF tasks[k] = "traced" THEN ExecutionContext(t, FALSE, lane, owns)
           ELSE lane = NoLane /\ owns = FALSE /\ UNCHANGED lanes
        /\ calls' = [calls EXCEPT ![t] = <<[activity |-> "task", id |-> k, lane |-> lane,
                                            owns |-> owns, parent |-> FALSE, result |-> "none"]>>]
  BY DEF PollTask
<1> DEFINE e == [activity |-> "task", id |-> k, lane |-> lane,
                 owns |-> owns, parent |-> FALSE, result |-> "none"]
<1>2. /\ TypeOK /\ lanes \in Seq(LaneState) /\ Len(lanes) \in Nat
      /\ calls[t] = <<>> /\ pc[t] = "running" /\ pc' = pc /\ entry' = entry
  BY SeqFacts DEF LaneInv, TypeOK, PollTask
<1>3. e \in Call /\ e.owns = owns /\ e.lane = lane /\ e.activity # "wait"
  BY SMTT(30), <1>2 DEF Call, Activities
<1>4. calls' = [calls EXCEPT ![t] = <<e>>]
  BY <1>1
<1> HIDE DEF e
<1>5. <<e>> \in Seq(Call) /\ DOMAIN <<e>> = {1} /\ <<e>>[1] = e
  BY SMTT(30), <1>3
<1>6. /\ calls' \in [Threads -> Seq(Call)] /\ DOMAIN calls'[t] = {1} /\ calls'[t][1] = e
      /\ \A u \in Threads \ {t} : calls'[u] = calls[u]
  BY <1>2, <1>4, <1>5 DEF TypeOK
<1>7. /\ lanes' \in Seq(LaneState)
      /\ \A l : Active(l) => Active(l)'
      /\ owns => ~Active(lane) /\ Active(lane)'
      /\ ~owns => lane = NoLane
  <2>1. Kind(t) \in {"runtime", "external"}
    BY DEF Kind
  <2>2. ActiveSpans(t) = {}
    BY SMTT(30), <1>2 DEF ActiveSpans
  <2>3. ASSUME AcquireWorkerLane(Kind(t), lane)
        PROVE  /\ lanes' \in Seq(LaneState) /\ ~Active(lane) /\ Active(lane)'
               /\ \A l : Active(l) => Active(l)'
    BY <1>2, <2>1, <2>3, Acquired
  <2>4. CASE tasks[k] = "traced"
    <3>1. owns = TRUE /\ AcquireWorkerLane(Kind(t), lane)
      BY <1>1, <2>2, <2>4 DEF ExecutionContext
    <3> QED BY <2>3, <3>1
  <2>5. CASE tasks[k] # "traced"
    <3>1. lane = NoLane /\ owns = FALSE /\ UNCHANGED lanes
      BY <1>1, <2>5
    <3> QED BY <1>2, <3>1 DEF Active
  <2> QED BY <2>4, <2>5
<1>8. TypeOK'
  BY <1>2, <1>6, <1>7 DEF PollTask, TypeOK
<1>9. OwnedInv(t)' /\ InheritedInv(t)' /\ EntryInv(t)'
  BY SMTT(30), <1>2, <1>3, <1>6, <1>7 DEF OwnedInv, InheritedInv, EntryInv
<1>10. ThreadInv(t)'
  BY <1>9 DEF ThreadInv
<1>11. \A l : Holds(t, l)' => Holds(t, l) \/ \A u \in Threads : ~Holds(u, l)
  <2>1. \A u \in Threads : \A l : Holds(u, l) => Active(l)
    BY HeldIsActive
  <2>2. \A l : Holds(t, l)' => owns /\ l = lane
    BY <1>2, <1>3, <1>6 DEF Holds, HeldByCall, HeldByEntry
  <2> QED BY SMTT(30), <1>7, <2>1, <2>2
<1> QED BY <1>2, <1>6, <1>7, <1>8, <1>10, <1>11, StepOfThread

\* Steps that leave the calls and the lanes alone.
LEMMA QuietStep ==
  ASSUME LaneInv, TypeOK', UNCHANGED <<calls, lanes, pc, entry>>
  PROVE  LaneInv'
<1>1. ASSUME NEW t \in Threads PROVE ThreadInv(t)'
  <2>1. OwnedInv(t) /\ InheritedInv(t) /\ EntryInv(t)
    BY DEF LaneInv, ThreadInv
  <2>2. OwnedInv(t)'
    BY <2>1 DEF OwnedInv, Active
  <2>3. InheritedInv(t)'
    BY <2>1 DEF InheritedInv
  <2>4. EntryInv(t)'
    BY <2>1 DEF EntryInv, HeldByCall, Active, ActiveSpans
  <2> QED BY <2>2, <2>3, <2>4 DEF ThreadInv
<1>2. \A t \in Threads : \A l : Holds(t, l)' => Holds(t, l)
  BY DEF Holds, HeldByCall, HeldByEntry
<1>3. \A t, u \in Threads : \A l : (Holds(t, l) /\ Holds(u, l)) => t = u
  BY DEF LaneInv
<1>4. \A t, u \in Threads : \A l : (Holds(t, l)' /\ Holds(u, l)') => t = u
  BY <1>2, <1>3
<1> QED BY <1>1, <1>4 DEF LaneInv

LEMMA LaneInit == Init => LaneInv
<1> SUFFICES ASSUME Init PROVE LaneInv
  OBVIOUS
<1>1. \A t \in Threads : calls[t] = <<>> /\ pc[t] = "running" /\ entry[t] = NoCall
  BY DEF Init
<1>2. TypeOK
  <2>1. lanes \in Seq(LaneState)
    BY SMTT(30) DEF Init
  <2>2. calls \in [Threads -> Seq(Call)] /\ entry \in [Threads -> Call]
    BY SMTT(30), NoCallType DEF Init
  <2>3. /\ pc \in [Threads -> {"running", "reserve", "granted", "refused", "announce", "capped",
                              "release"}]
        /\ tasks \in [Tasks -> {"none", "traced", "plain"}]
    BY DEF Init
  <2>4. remaining \in 0 .. MaxSpans /\ recorded \in Nat /\ announced \in Nat
    BY SMTT(30), ActivityAssumption DEF Init
  <2>5. reported \in BOOLEAN /\ waiting \subseteq ScanStreams /\ refused \in BOOLEAN
    BY DEF Init
  <2> QED BY <2>1, <2>2, <2>3, <2>4, <2>5 DEF TypeOK
<1>3. \A t \in Threads : ThreadInv(t)
  BY SMTT(30), <1>1 DEF ThreadInv, OwnedInv, InheritedInv, EntryInv
<1>4. \A t \in Threads : \A l : ~Holds(t, l)
  BY SMTT(30), <1>1 DEF Holds, HeldByCall, HeldByEntry
<1> QED BY <1>2, <1>3, <1>4 DEF LaneInv

LEMMA LaneStep == LaneInv /\ [Next]_vars => LaneInv'
<1> SUFFICES ASSUME LaneInv, [Next]_vars PROVE LaneInv'
  OBVIOUS
<1>1. TypeOK
  BY DEF LaneInv
<1>2. ASSUME NEW t \in Threads, Step(t) PROVE LaneInv'
  <2>1. ASSUME NEW s \in Streams, NEW a \in {"execute", "poll"}, StartSpan(t, s, a) PROVE LaneInv'
    BY <2>1, StartSpanStep
  <2>2. ASSUME Reserve(t) PROVE LaneInv'
    <3>1. TypeOK'
      <4>1. remaining' \in 0 .. MaxSpans
        BY SMTT(30), <1>1, <2>2, ActivityAssumption DEF Reserve, TypeOK
      <4>3. refused' \in BOOLEAN
        BY <1>1, <2>2 DEF Reserve, TypeOK
      <4>2. pc' \in [Threads -> {"running", "reserve", "granted", "refused", "announce", "capped",
                                "release"}]
        BY <1>1, <2>2 DEF Reserve, TypeOK
      <4> QED BY <1>1, <2>2, <4>1, <4>2, <4>3 DEF Reserve, TypeOK
    <3>2. /\ UNCHANGED <<calls, lanes, entry>> /\ pc[t] \notin {"running", "release"}
          /\ \E p \in {"granted", "refused", "announce", "capped"} : pc' = [pc EXCEPT ![t] = p]
      BY <2>2 DEF Reserve
    <3> QED BY <3>1, <3>2, StepOnTheWay
  <2>3. ASSUME SwapReported(t) PROVE LaneInv'
    <3>1. TypeOK'
      BY <1>1, <2>3 DEF SwapReported, TypeOK
    <3>2. /\ UNCHANGED <<calls, lanes, entry>> /\ pc[t] \notin {"running", "release"}
          /\ \E p \in {"granted", "refused", "announce", "capped"} : pc' = [pc EXCEPT ![t] = p]
      BY <2>3 DEF SwapReported
    <3> QED BY <3>1, <3>2, StepOnTheWay
  <2>4. ASSUME ReportTruncation(t) PROVE LaneInv'
    <3>1. TypeOK'
      BY SMTT(30), <1>1, <2>4 DEF ReportTruncation, TypeOK
    <3>2. /\ UNCHANGED <<calls, lanes, entry>> /\ pc[t] \notin {"running", "release"}
          /\ \E p \in {"granted", "refused", "announce", "capped"} : pc' = [pc EXCEPT ![t] = p]
      BY <2>4 DEF ReportTruncation
    <3> QED BY <3>1, <3>2, StepOnTheWay
  <2>5. ASSUME NEW r \in {"pending", "ready", "panic"}, CloseSpan(t, r) PROVE LaneInv'
    BY <2>5, CloseSpanStep
  <2>6. ASSUME NEW k \in Tasks, SpawnTask(t, k) PROVE LaneInv'
    BY <1>1, <2>6, QuietStep DEF SpawnTask, TypeOK
  <2>7. ASSUME NEW k \in Tasks, PollTask(t, k) PROVE LaneInv'
    BY <2>7, PollTaskStep
  <2> QED BY <1>2, <2>1, <2>2, <2>3, <2>4, <2>5, <2>6, <2>7, RecordSpanStep, OmitSpanStep,
            RecordWaitStep, ReleaseLaneStep DEF Step
<1>3. ASSUME NEW s \in Streams, DropStream(s) PROVE LaneInv'
  BY <1>1, <1>3, QuietStep DEF DropStream, TypeOK
<1>4. ASSUME NEW k \in Tasks, EndTask(k) PROVE LaneInv'
  BY <1>1, <1>4, QuietStep DEF EndTask, TypeOK
<1>5. ASSUME UNCHANGED vars PROVE LaneInv'
  <2>1. TypeOK'
    BY <1>1, <1>5 DEF vars, TypeOK
  <2> QED BY <1>5, <2>1, QuietStep DEF vars
<1> QED BY <1>2, <1>3, <1>4, <1>5 DEF Next

\* The invariant: a lane is held by one thread, whose outermost span owns it, and
\* the inner spans of the thread are on that lane (execution_context).
THEOREM LaneInvariant == Spec => []LaneInv
<1> QED BY LaneInit, LaneStep, PTL DEF Spec

\* Slices of different threads never share a lane, for any number of threads, of
\* streams and any reuse of lanes (acquire_worker_lane, release_worker_lane).
THEOREM LanesAreExclusive == Spec => []LaneExclusive
<1>1. LaneInv => LaneExclusive
  <2> SUFFICES ASSUME LaneInv, NEW t \in Threads, NEW u \in Threads,
                      NEW l \in LanesOf(t) \cap LanesOf(u)
               PROVE  t = u
    BY DEF LaneExclusive
  <2>1. \A v \in Threads : l \in LanesOf(v) => (v = Main /\ l = CoordinatorLane) \/ HeldByCall(v, l)
    BY SMTT(30) DEF LaneInv, ThreadInv, InheritedInv, LanesOf, ActiveSpans, HeldByCall
  <2>2. \A v \in Threads : ~Holds(v, CoordinatorLane)
    <3>1. ~Active(CoordinatorLane)
      BY SMTT(30), SeqFacts DEF LaneInv, TypeOK, Active, CoordinatorLane
    <3> QED BY <3>1, HeldIsActive
  <2> QED BY <2>1, <2>2 DEF LaneInv, Holds
<1> QED BY <1>1, LaneInvariant, PTL
-----------------------------------------------------------------------------
(* Calls without a span. *)

\* A call of a stream has a span, or one before it has; what start_span saw of the spans
\* around the call still holds when the budget has answered.
SpanInv(t) ==
  /\ \A i \in DOMAIN calls[t] : calls[t][i].activity # "task" => \E j \in ActiveSpans(t) : j <= i
  /\ pc[t] \notin {"running", "release"} /\ entry[t].activity # "wait" =>
       /\ entry[t].lane # NoLane
       /\ entry[t].parent => ActiveSpans(t) # {}

LEMMA SpanKept ==
  ASSUME NEW t \in Threads, SpanInv(t), UNCHANGED <<calls[t], entry[t]>>,
         pc'[t] \in {"running", "release"} \/ pc[t] \notin {"running", "release"}
  PROVE SpanInv(t)'
BY DEF SpanInv, ActiveSpans

\* The call that is entered is appended, with its lane or inside of a span.
LEMMA SpanAppended ==
  ASSUME TypeOK, NEW t \in Threads, SpanInv(t), pc'[t] = "running", NEW e \in Call,
         calls'[t] = Append(calls[t], e), e.lane # NoLane \/ ActiveSpans(t) # {}
  PROVE SpanInv(t)'
<1> DEFINE n == Len(calls[t])
<1>1. /\ DOMAIN calls'[t] = 1 .. n + 1 /\ calls'[t][n + 1] = e
      /\ \A i \in 1 .. n : calls'[t][i] = calls[t][i]
      /\ DOMAIN calls[t] = 1 .. n /\ n \in Nat
  BY SMTT(30), WithLast, SeqFacts DEF TypeOK
<1> HIDE DEF n
<1>2. ActiveSpans(t) \subseteq ActiveSpans(t)' /\ ActiveSpans(t) \subseteq 1 .. n
  BY SMTT(30), <1>1 DEF ActiveSpans
<1>3. \E j \in ActiveSpans(t)' : j <= n + 1
  <2>1. CASE e.lane # NoLane
    BY SMTT(30), <1>1, <2>1 DEF ActiveSpans
  <2>2. CASE ActiveSpans(t) # {}
    BY SMTT(30), <1>1, <1>2, <2>2
  <2> QED BY <2>1, <2>2
<1>4. ASSUME NEW i \in 1 .. n + 1, calls'[t][i].activity # "task"
      PROVE \E j \in ActiveSpans(t)' : j <= i
  <2>1. CASE i = n + 1
    BY <1>3, <2>1
  <2>2. CASE i \in 1 .. n
    BY <1>1, <1>2, <1>4, <2>2 DEF SpanInv
  <2> QED BY SMTT(30), <1>1, <2>1, <2>2
<1> QED BY <1>1, <1>4 DEF SpanInv

LEMMA CloseSpanSpans ==
  ASSUME TypeOK, NEW t \in Threads, SpanInv(t), NEW r \in {"pending", "ready", "panic"}, CloseSpan(t, r)
  PROVE SpanInv(t)'
<1> DEFINE n == Len(calls[t])
           rest == SubSeq(calls[t], 1, n - 1)
           c == [calls[t][n] EXCEPT !.result = r]
<1>1. calls[t] \in Seq(Call) /\ calls[t] # <<>>
  BY DEF TypeOK, CloseSpan
<1>2. /\ n \in DOMAIN calls[t] /\ DOMAIN rest = 1 .. n - 1
      /\ \A i \in 1 .. n - 1 : rest[i] = calls[t][i]
      /\ DOMAIN calls[t] = 1 .. n /\ n \in Nat /\ calls[t][n] \in Call
  BY <1>1, WithoutLast, SeqFacts
<1>3. c \in Call
  BY <1>2 DEF Call
<1>4. /\ calls'[t] = rest
      /\ pc'[t] = "release" \/ AfterSpan(t, c)
  BY DEF CloseSpan, TypeOK
<1> HIDE DEF rest, c, n
<1>5. pc'[t] \notin {"running", "release"} => entry'[t].activity = "wait"
  BY <1>3, <1>4, AfterSpanFacts
<1>6. \A i \in 1 .. n - 1 : i \in 1 .. n /\ (i \in ActiveSpans(t) => i \in ActiveSpans(t)')
  BY SMTT(30), <1>2, <1>4 DEF ActiveSpans
<1>7. ASSUME NEW i \in 1 .. n - 1, calls'[t][i].activity # "task"
      PROVE \E j \in ActiveSpans(t)' : j <= i
  <2>1. PICK j \in ActiveSpans(t) : j <= i
    BY <1>2, <1>4, <1>6, <1>7 DEF SpanInv
  <2>2. j \in 1 .. n - 1
    BY SMTT(30), <1>2, <2>1 DEF ActiveSpans
  <2> QED BY <1>6, <2>1, <2>2
<1> QED BY <1>2, <1>4, <1>5, <1>7 DEF SpanInv

LEMMA StartSpanSpans ==
  ASSUME LaneInv, NEW t \in Threads, SpanInv(t), NEW s \in Streams, NEW a \in {"execute", "poll"}, StartSpan(t, s, a)
  PROVE SpanInv(t)'
<1>1. PICK lane \in 0 .. Len(lanes) + 1, owns \in BOOLEAN :
        /\ ExecutionContext(t, s \in FirstStreams, lane, owns)
        /\ entry' = [entry EXCEPT ![t] =
            [activity |-> a, id |-> s, lane |-> lane, owns |-> owns,
             parent |-> ActiveSpans(t) # {}, result |-> "none"]]
  BY DEF StartSpan
<1>2. /\ entry'[t].lane = lane /\ entry'[t].parent = (ActiveSpans(t) # {})
      /\ calls' = calls
  BY <1>1 DEF StartSpan, LaneInv, TypeOK
<1>3. lane # NoLane
  BY SMTT(30), SeqFacts DEF LaneInv, TypeOK, NoLane
<1> QED BY <1>2, <1>3 DEF SpanInv, ActiveSpans

LEMMA StepSpans ==
  ASSUME LaneInv, NEW t \in Threads, SpanInv(t), Step(t) PROVE SpanInv(t)'
<1>1. TypeOK /\ entry[t] \in Call
  BY DEF LaneInv, TypeOK
<1>2. CASE Reserve(t) \/ SwapReported(t) \/ ReportTruncation(t)
  BY <1>1, <1>2, SpanKept DEF Reserve, SwapReported, ReportTruncation, TypeOK
<1>3. CASE RecordSpan(t)
  <2>1. /\ pc[t] \in {"granted", "capped"} /\ entry[t].activity # "wait"
        /\ calls'[t] = Append(calls[t], entry[t]) /\ pc'[t] = "running"
    BY <1>1, <1>3 DEF RecordSpan, TypeOK
  <2> QED BY <1>1, <2>1, SpanAppended DEF SpanInv
<1>4. CASE OmitSpan(t)
  <2> DEFINE e == [entry[t] EXCEPT !.lane = NoLane, !.owns = FALSE]
  <2>1. e \in Call
    BY <1>1 DEF Call
  <2>2. /\ pc[t] = "capped" /\ entry[t].activity # "wait" /\ entry[t].parent
        /\ calls'[t] = Append(calls[t], e) /\ pc'[t] = "running"
    BY <1>1, <1>4 DEF OmitSpan, RecordsProcessSpan, TypeOK
  <2> HIDE DEF e
  <2>3. ActiveSpans(t) # {}
    BY <2>2 DEF SpanInv
  <2> QED BY <1>1, <2>1, <2>2, <2>3, SpanAppended
<1>5. CASE RecordWait(t)
  <2>1. calls' = calls /\ pc'[t] = "running"
    BY <1>1, <1>5 DEF RecordWait, TypeOK
  <2> QED BY <2>1 DEF SpanInv, ActiveSpans
<1>6. CASE ReleaseLane(t)
  <2>1. calls' = calls /\ (pc'[t] \notin {"running", "release"} => entry'[t].activity = "wait")
    BY <1>1, <1>6, AfterSpanFacts DEF ReleaseLane
  <2> QED BY <2>1 DEF SpanInv, ActiveSpans
<1>7. ASSUME NEW k \in Tasks, SpawnTask(t, k) PROVE SpanInv(t)'
  BY <1>7, SpanKept DEF SpawnTask
<1>8. ASSUME NEW k \in Tasks, PollTask(t, k) PROVE SpanInv(t)'
  <2>1. PICK lane, owns : calls' = [calls EXCEPT ![t] = <<[activity |-> "task", id |-> k, lane |-> lane,
                                            owns |-> owns, parent |-> FALSE, result |-> "none"]>>]
    BY <1>8 DEF PollTask
  <2>2. DOMAIN calls'[t] = {1} /\ calls'[t][1].activity = "task" /\ pc'[t] = "running"
    BY SMTT(30), <1>1, <1>8, <2>1 DEF PollTask, TypeOK
  <2> QED BY <2>2 DEF SpanInv
<1> QED BY <1>1, <1>2, <1>3, <1>4, <1>5, <1>6, <1>7, <1>8, StartSpanSpans, CloseSpanSpans DEF Step

\* A step of one thread is none of another one.
LEMMA OtherThread ==
  ASSUME LaneInv, NEW t \in Threads, NEW u \in Threads, t # u, Step(t)
  PROVE UNCHANGED <<calls[u], entry[u], pc[u]>>
<1>1. TypeOK /\ entry[t] \in Call
  BY DEF LaneInv, TypeOK
<1>2. ASSUME NEW r \in {"pending", "ready", "panic"}, CloseSpan(t, r) PROVE UNCHANGED <<calls[u], entry[u], pc[u]>>
  BY <1>1, <1>2 DEF CloseSpan, AfterSpan, TypeOK
<1>3. CASE ReleaseLane(t)
  BY <1>1, <1>3 DEF ReleaseLane, AfterSpan, TypeOK
<1>4. ASSUME NEW s \in Streams, NEW a \in {"execute", "poll"}, StartSpan(t, s, a)
      PROVE UNCHANGED <<calls[u], entry[u], pc[u]>>
  BY <1>1, <1>4 DEF StartSpan, TypeOK
<1>5. ASSUME NEW k \in Tasks, SpawnTask(t, k) \/ PollTask(t, k) PROVE UNCHANGED <<calls[u], entry[u], pc[u]>>
  BY <1>1, <1>5 DEF SpawnTask, PollTask, TypeOK
<1>6. CASE Reserve(t) \/ SwapReported(t) \/ ReportTruncation(t) \/ RecordSpan(t) \/ OmitSpan(t) \/ RecordWait(t)
  BY <1>1, <1>6 DEF Reserve, SwapReported, ReportTruncation, RecordSpan, OmitSpan, RecordWait, TypeOK
<1> QED BY <1>2, <1>3, <1>4, <1>5, <1>6 DEF Step

\* IdentityKept: start_span omits only spans inside of another one of the query, whenever
\* the budget is used up and by whom.
THEOREM IdentityIsKept == Spec => []IdentityKept
<1> DEFINE SpansInv == \A t \in Threads : SpanInv(t)
<1>1. Init => SpansInv
  BY SMTT(30) DEF Init, SpanInv
<1>2. LaneInv /\ SpansInv /\ [Next]_vars => SpansInv'
  <2> SUFFICES ASSUME LaneInv, SpansInv, [Next]_vars, NEW u \in Threads PROVE SpanInv(u)'
    OBVIOUS
  <2>1. SpanInv(u)
    OBVIOUS
  <2>2. ASSUME UNCHANGED <<calls[u], entry[u], pc[u]>> PROVE SpanInv(u)'
    BY <2>1, <2>2, SpanKept
  <2>3. ASSUME NEW t \in Threads, Step(t) PROVE SpanInv(u)'
    BY <2>1, <2>2, <2>3, StepSpans, OtherThread
  <2>4. ASSUME \/ \E s \in Streams : DropStream(s)
               \/ \E k \in Tasks : EndTask(k)
               \/ UNCHANGED vars
        PROVE UNCHANGED <<calls[u], entry[u], pc[u]>>
    BY <2>4 DEF DropStream, EndTask, vars
  <2> QED BY <2>2, <2>3, <2>4 DEF Next
<1>3. SpansInv => IdentityKept
  BY DEF SpanInv, IdentityKept
<1> HIDE DEF SpansInv
<1> QED BY <1>1, <1>2, <1>3, LaneInvariant, PTL DEF Spec
-----------------------------------------------------------------------------
(* The number of lanes. *)

OfKind(k) == {i \in DOMAIN lanes : lanes[i].kind = k}

\* The threads that use lanes of the kind.
Pool(k) == IF k = "runtime" THEN Workers ELSE {Main}

Sorts == {"runtime", "external"}

\* Every active lane is held by a thread of its kind.
UsedInv == \A l \in DOMAIN lanes : lanes[l].active => \E t \in Threads : Holds(t, l) /\ Kind(t) = lanes[l].kind

CountInv == \A k \in Sorts : Cardinality(OfKind(k)) <= Cardinality(Pool(k))

\* What a step does to the lanes: nothing, one is acquired, or one is given back.
Keeps == UNCHANGED lanes /\ \A u \in Threads : \A l : Holds(u, l) => Holds(u, l)'

Acquires(t, lane) ==
  /\ AcquireWorkerLane(Kind(t), lane) /\ Holds(t, lane)' /\ \A l : ~Holds(t, l)
  /\ \A u \in Threads : \A l : Holds(u, l) => Holds(u, l)'

Releases(lane) ==
  /\ Active(lane) /\ ReleaseWorkerLane(lane)
  /\ \A u \in Threads : \A l : l # lane /\ Holds(u, l) => Holds(u, l)'

LEMMA NoLaneInactive == ASSUME TypeOK PROVE ~Active(NoLane)
BY SMTT(30), SeqFacts DEF TypeOK, Active, NoLane

\* A thread holds at most one lane.
LEMMA HoldsOne ==
  ASSUME LaneInv, NEW t \in Threads, NEW l, NEW m, Holds(t, l), Holds(t, m)
  PROVE l = m
<1>1. TypeOK /\ OwnedInv(t) /\ EntryInv(t) /\ ~Active(NoLane)
  BY NoLaneInactive DEF LaneInv, ThreadInv
<1>2. ASSUME NEW i \in DOMAIN calls[t], calls[t][i].owns PROVE calls[t][i].lane # NoLane
  BY <1>1, <1>2 DEF OwnedInv
<1>3. HeldByEntry(t, l) => ~HeldByCall(t, m)
  BY <1>1, <1>2 DEF EntryInv, HeldByEntry, HeldByCall, ActiveSpans
<1>4. HeldByEntry(t, m) => ~HeldByCall(t, l)
  BY <1>1, <1>2 DEF EntryInv, HeldByEntry, HeldByCall, ActiveSpans
<1>5. CASE HeldByCall(t, l) /\ HeldByCall(t, m)
  <2>1. PICK i \in DOMAIN calls[t] : calls[t][i].owns /\ calls[t][i].lane = l
    BY <1>5 DEF HeldByCall
  <2>2. PICK j \in DOMAIN calls[t] : calls[t][j].owns /\ calls[t][j].lane = m
    BY <1>5 DEF HeldByCall
  <2>3. i \in Nat /\ j \in Nat
    BY SMTT(30), <1>1, SeqFacts DEF TypeOK
  <2>4. ~(i < j) /\ ~(j < i)
    BY <1>1, <1>2, <2>1, <2>2 DEF OwnedInv
  <2> QED BY SMTT(30), <2>1, <2>2, <2>3, <2>4
<1> QED BY <1>3, <1>4, <1>5 DEF Holds, HeldByEntry

\* A thread that has no span holds no lane while it is in its code.
LEMMA NoSpanNoLane ==
  ASSUME LaneInv, NEW t \in Threads, pc[t] = "running", ActiveSpans(t) = {}
  PROVE \A l : ~Holds(t, l)
<1>1. TypeOK /\ OwnedInv(t) /\ ~Active(NoLane)
  BY NoLaneInactive DEF LaneInv, ThreadInv
<1> QED BY SMTT(30), <1>1 DEF OwnedInv, ActiveSpans, Holds, HeldByCall, HeldByEntry

LEMMA StartSpanHolds ==
  ASSUME LaneInv, NEW t \in Threads, NEW s \in Streams, NEW a \in {"execute", "poll"}, StartSpan(t, s, a)
  PROVE Keeps \/ \E lane : Acquires(t, lane)
<1>1. PICK lane \in 0 .. Len(lanes) + 1, owns \in BOOLEAN :
        /\ ExecutionContext(t, s \in FirstStreams, lane, owns)
        /\ entry' = [entry EXCEPT ![t] =
            [activity |-> a, id |-> s, lane |-> lane, owns |-> owns,
             parent |-> ActiveSpans(t) # {}, result |-> "none"]]
  BY DEF StartSpan
<1>2. /\ entry'[t].owns = owns /\ entry'[t].lane = lane /\ pc'[t] = "reserve" /\ pc[t] = "running" /\ calls' = calls
      /\ \A u \in Threads \ {t} : pc'[u] = pc[u] /\ entry'[u] = entry[u]
  BY <1>1 DEF StartSpan, InCode, LaneInv, TypeOK
<1>3. \A u \in Threads : \A l : Holds(u, l) => Holds(u, l)'
  BY <1>2 DEF Holds, HeldByCall, HeldByEntry
<1>4. CASE owns
  <2>1. AcquireWorkerLane(Kind(t), lane) /\ ActiveSpans(t) = {}
    BY <1>1, <1>4 DEF ExecutionContext
  <2>2. Holds(t, lane)'
    BY <1>2, <1>4 DEF Holds, HeldByEntry
  <2> QED BY <1>2, <1>3, <2>1, <2>2, NoSpanNoLane DEF Acquires
<1>5. CASE ~owns
  BY <1>1, <1>3, <1>5 DEF ExecutionContext, Keeps
<1> QED BY <1>4, <1>5

LEMMA PollTaskHolds ==
  ASSUME LaneInv, NEW t \in Threads, NEW k \in Tasks, PollTask(t, k)
  PROVE Keeps \/ \E lane : Acquires(t, lane)
<1>1. PICK lane \in {NoLane} \cup (0 .. Len(lanes) + 1), owns \in BOOLEAN :
        /\ IF tasks[k] = "traced" THEN ExecutionContext(t, FALSE, lane, owns)
           ELSE lane = NoLane /\ owns = FALSE /\ UNCHANGED lanes
        /\ calls' = [calls EXCEPT ![t] = <<[activity |-> "task", id |-> k, lane |-> lane,
                                            owns |-> owns, parent |-> FALSE, result |-> "none"]>>]
  BY DEF PollTask
<1>2. /\ DOMAIN calls'[t] = {1} /\ calls'[t][1].owns = owns /\ calls'[t][1].lane = lane
      /\ calls[t] = <<>> /\ pc[t] = "running" /\ pc' = pc /\ entry' = entry
      /\ \A u \in Threads \ {t} : calls'[u] = calls[u]
  BY SMTT(30), <1>1 DEF PollTask, LaneInv, TypeOK
<1>3. ActiveSpans(t) = {}
  BY SMTT(30), <1>2 DEF ActiveSpans
<1>4. \A l : ~Holds(t, l)
  BY <1>2, <1>3, NoSpanNoLane
<1>5. \A u \in Threads : \A l : Holds(u, l) => Holds(u, l)'
  BY <1>2, <1>4 DEF Holds, HeldByCall, HeldByEntry
<1>6. CASE owns
  <2>1. AcquireWorkerLane(Kind(t), lane)
    BY <1>1, <1>6 DEF ExecutionContext
  <2>2. Holds(t, lane)'
    BY <1>2, <1>6 DEF Holds, HeldByCall
  <2> QED BY <1>4, <1>5, <2>1, <2>2 DEF Acquires
<1>7. CASE ~owns
  BY <1>1, <1>5, <1>7 DEF ExecutionContext, Keeps
<1> QED BY <1>6, <1>7

LEMMA RecordSpanHolds ==
  ASSUME LaneInv, NEW t \in Threads, RecordSpan(t)
  PROVE Keeps
<1>1. calls[t] \in Seq(Call) /\ entry[t] \in Call
  BY DEF LaneInv, TypeOK
<1>2. /\ DOMAIN Append(calls[t], entry[t]) = 1 .. Len(calls[t]) + 1
      /\ Append(calls[t], entry[t])[Len(calls[t]) + 1] = entry[t]
      /\ \A i \in 1 .. Len(calls[t]) : Append(calls[t], entry[t])[i] = calls[t][i]
      /\ DOMAIN calls[t] = 1 .. Len(calls[t]) /\ Len(calls[t]) \in Nat
  BY SMTT(30), <1>1, WithLast, SeqFacts
<1>3. /\ calls'[t] = Append(calls[t], entry[t]) /\ lanes' = lanes
      /\ \A u \in Threads \ {t} : calls'[u] = calls[u] /\ pc'[u] = pc[u] /\ entry'[u] = entry[u]
  BY DEF RecordSpan, LaneInv, TypeOK
<1>4. ASSUME NEW l, HeldByCall(t, l) PROVE HeldByCall(t, l)'
  <2>1. PICK i \in 1 .. Len(calls[t]) : calls[t][i].owns /\ calls[t][i].lane = l
    BY <1>2, <1>4 DEF HeldByCall
  <2> QED BY SMTT(30), <1>2, <1>3, <2>1 DEF HeldByCall
<1>5. ASSUME NEW l, HeldByEntry(t, l) PROVE HeldByCall(t, l)'
  <2>1. Len(calls[t]) + 1 \in DOMAIN calls'[t] /\ calls'[t][Len(calls[t]) + 1] = entry[t]
    BY SMTT(30), <1>2, <1>3
  <2> QED BY <1>5, <2>1 DEF HeldByEntry, HeldByCall
<1>6. ASSUME NEW u \in Threads \ {t}, NEW l, Holds(u, l) PROVE Holds(u, l)'
  BY <1>3, <1>6 DEF Holds, HeldByCall, HeldByEntry
<1> QED BY <1>3, <1>4, <1>5, <1>6 DEF Keeps, Holds

LEMMA OmitSpanHolds ==
  ASSUME LaneInv, NEW t \in Threads, OmitSpan(t)
  PROVE Keeps \/ \E lane : Releases(lane)
<1> DEFINE e == [entry[t] EXCEPT !.lane = NoLane, !.owns = FALSE]
<1>1. calls[t] \in Seq(Call) /\ e \in Call
  BY DEF LaneInv, TypeOK, Call
<1>2. calls'[t] = Append(calls[t], e)
  BY DEF OmitSpan, LaneInv, TypeOK
<1> HIDE DEF e
<1>3. /\ DOMAIN Append(calls[t], e) = 1 .. Len(calls[t]) + 1
      /\ \A i \in 1 .. Len(calls[t]) : Append(calls[t], e)[i] = calls[t][i]
      /\ DOMAIN calls[t] = 1 .. Len(calls[t]) /\ Len(calls[t]) \in Nat
  BY SMTT(30), <1>1, WithLast, SeqFacts
<1>4. \A u \in Threads \ {t} : calls'[u] = calls[u] /\ pc'[u] = pc[u] /\ entry'[u] = entry[u]
  BY DEF OmitSpan, LaneInv, TypeOK
<1>5. ASSUME NEW l, HeldByCall(t, l) PROVE HeldByCall(t, l)'
  <2>1. PICK i \in 1 .. Len(calls[t]) : calls[t][i].owns /\ calls[t][i].lane = l
    BY <1>3, <1>5 DEF HeldByCall
  <2> QED BY SMTT(30), <1>2, <1>3, <2>1 DEF HeldByCall
<1>6. ASSUME NEW u \in Threads \ {t}, NEW l, Holds(u, l) PROVE Holds(u, l)'
  BY <1>4, <1>6 DEF Holds, HeldByCall, HeldByEntry
<1>7. CASE entry[t].owns
  <2>1. Active(entry[t].lane) /\ ReleaseWorkerLane(entry[t].lane)
    BY <1>7, NobodyElseHolds DEF OmitSpan
  <2>2. \A l : l # entry[t].lane /\ Holds(t, l) => Holds(t, l)'
    BY <1>5 DEF Holds, HeldByEntry
  <2> QED BY <1>6, <2>1, <2>2 DEF Releases
<1>8. CASE ~entry[t].owns
  <2>1. UNCHANGED lanes
    BY <1>8 DEF OmitSpan
  <2>2. \A l : Holds(t, l) => Holds(t, l)'
    BY <1>5, <1>8 DEF Holds, HeldByEntry
  <2> QED BY <1>6, <2>1, <2>2 DEF Keeps
<1> QED BY <1>7, <1>8

LEMMA CloseSpanHolds ==
  ASSUME LaneInv, NEW t \in Threads, NEW r \in {"pending", "ready", "panic"}, CloseSpan(t, r)
  PROVE Keeps
<1> DEFINE n == Len(calls[t])
           rest == SubSeq(calls[t], 1, n - 1)
           c == [calls[t][n] EXCEPT !.result = r]
<1>1. calls[t] \in Seq(Call) /\ calls[t] # <<>> /\ pc[t] = "running" /\ TypeOK
  BY DEF LaneInv, TypeOK, CloseSpan
<1>2. /\ n \in DOMAIN calls[t] /\ DOMAIN rest = 1 .. n - 1
      /\ \A i \in 1 .. n - 1 : rest[i] = calls[t][i]
      /\ DOMAIN calls[t] = 1 .. n /\ n \in Nat /\ calls[t][n] \in Call
  BY <1>1, WithoutLast, SeqFacts
<1>3. c \in Call /\ c.owns = calls[t][n].owns /\ c.lane = calls[t][n].lane
  BY <1>2 DEF Call
<1>4. /\ calls' = [calls EXCEPT ![t] = rest] /\ lanes' = lanes
      /\ c.owns => entry' = [entry EXCEPT ![t] = c] /\ pc' = [pc EXCEPT ![t] = "release"]
      /\ ~c.owns => AfterSpan(t, c)
  BY DEF CloseSpan
<1> HIDE DEF rest, c, n
<1>5. calls'[t] = rest /\ \A u \in Threads \ {t} : calls'[u] = calls[u]
  BY <1>1, <1>4 DEF TypeOK
<1>6. c.owns => entry'[t] = c /\ pc'[t] = "release"
  BY <1>1, <1>4 DEF TypeOK
<1>7. \A u \in Threads \ {t} : pc'[u] = pc[u] /\ entry'[u] = entry[u]
  BY <1>1, <1>3, <1>4, AfterSpanFacts DEF TypeOK
<1>8. ASSUME NEW l, Holds(t, l) PROVE Holds(t, l)'
  <2>1. PICK i \in 1 .. n : calls[t][i].owns /\ calls[t][i].lane = l
    BY <1>1, <1>2, <1>8 DEF Holds, HeldByCall, HeldByEntry
  <2>2. CASE i = n
    BY <1>3, <1>6, <2>1, <2>2 DEF Holds, HeldByEntry
  <2>3. CASE i \in 1 .. n - 1
    BY <1>2, <1>5, <2>1, <2>3 DEF Holds, HeldByCall
  <2> QED BY SMTT(30), <1>2, <2>2, <2>3
<1>9. ASSUME NEW u \in Threads \ {t}, NEW l, Holds(u, l) PROVE Holds(u, l)'
  BY <1>5, <1>7, <1>9 DEF Holds, HeldByCall, HeldByEntry
<1> QED BY <1>4, <1>8, <1>9 DEF Keeps

LEMMA ReleaseLaneHolds ==
  ASSUME LaneInv, NEW t \in Threads, ReleaseLane(t)
  PROVE \E lane : Releases(lane)
<1>1. TypeOK /\ entry[t] \in Call /\ pc[t] = "release" /\ calls' = calls /\ EntryInv(t)
  BY DEF LaneInv, ThreadInv, TypeOK, ReleaseLane
<1>2. Active(entry[t].lane) /\ ReleaseWorkerLane(entry[t].lane)
  BY <1>1 DEF EntryInv, ReleaseLane
<1>3. \A u \in Threads \ {t} : pc'[u] = pc[u] /\ entry'[u] = entry[u]
  BY <1>1, AfterSpanFacts DEF ReleaseLane
<1>4. \A u \in Threads : \A l : l # entry[t].lane /\ Holds(u, l) => Holds(u, l)'
  BY <1>1, <1>3 DEF Holds, HeldByCall, HeldByEntry
<1> QED BY <1>2, <1>4 DEF Releases

\* Steps that leave what calls and entries hold.
LEMMA OthersHold ==
  ASSUME LaneInv, NEW t \in Threads,
         Reserve(t) \/ SwapReported(t) \/ ReportTruncation(t) \/ RecordWait(t)
  PROVE Keeps
<1>1. calls' = calls /\ lanes' = lanes /\ TypeOK /\ EntryInv(t)
  BY DEF Reserve, SwapReported, ReportTruncation, RecordWait, LaneInv, ThreadInv
<1>2. CASE RecordWait(t)
  <2>1. /\ pc[t] # "running" /\ ~entry[t].owns
        /\ \A u \in Threads \ {t} : pc'[u] = pc[u] /\ entry'[u] = entry[u]
    BY <1>1, <1>2 DEF RecordWait, EntryInv, TypeOK
  <2> QED BY <1>1, <2>1 DEF Keeps, Holds, HeldByCall, HeldByEntry
<1>3. CASE Reserve(t) \/ SwapReported(t) \/ ReportTruncation(t)
  <2>1. entry' = entry /\ pc'[t] # "running" /\ \A u \in Threads \ {t} : pc'[u] = pc[u]
    BY <1>1, <1>3 DEF Reserve, SwapReported, ReportTruncation, TypeOK
  <2> QED BY <1>1, <2>1 DEF Keeps, Holds, HeldByCall, HeldByEntry
<1> QED BY <1>2, <1>3

LEMMA StepHolds ==
  ASSUME LaneInv, [Next]_vars
  PROVE Keeps \/ (\E t \in Threads : \E lane : Acquires(t, lane)) \/ \E lane : Releases(lane)
<1>1. ASSUME UNCHANGED <<calls, lanes, pc, entry>> PROVE Keeps
  BY <1>1 DEF Keeps, Holds, HeldByCall, HeldByEntry
<1>2. ASSUME NEW t \in Threads, Step(t)
      PROVE Keeps \/ (\E lane : Acquires(t, lane)) \/ \E lane : Releases(lane)
  <2>1. ASSUME NEW k \in Tasks, SpawnTask(t, k) PROVE UNCHANGED <<calls, lanes, pc, entry>>
    BY <2>1 DEF SpawnTask
  <2> QED BY <1>1, <1>2, <2>1, StartSpanHolds, OthersHold, RecordSpanHolds, OmitSpanHolds, CloseSpanHolds,
             ReleaseLaneHolds, PollTaskHolds DEF Step
<1>3. ASSUME \/ \E s \in Streams : DropStream(s)
             \/ \E k \in Tasks : EndTask(k)
             \/ UNCHANGED vars
      PROVE UNCHANGED <<calls, lanes, pc, entry>>
  BY <1>3 DEF DropStream, EndTask, vars
<1> QED BY <1>1, <1>2, <1>3 DEF Next

LEMMA KindPool == ASSUME NEW t \in Threads PROVE Kind(t) \in Sorts /\ t \in Pool(Kind(t))
BY ActivityAssumption DEF Kind, Pool, Sorts, Threads

INSTANCE FiniteSetTheorems

LEMMA PoolFinite ==
  ASSUME NEW k \in Sorts PROVE IsFiniteSet(Pool(k)) /\ Cardinality(Pool(k)) \in Nat
<1>1. IsFiniteSet(Pool(k))
  BY ActivityAssumption, FS_Singleton DEF Pool
<1> QED BY <1>1, FS_CardinalityType

\* When all lanes of its kind are in use, a thread without one adds one more: the others
\* are held by other threads of the kind, one each.
LEMMA RoomForOne ==
  ASSUME LaneInv, UsedInv, NEW t \in Threads, \A l : ~Holds(t, l),
         \A l \in OfKind(Kind(t)) : lanes[l].active
  PROVE IsFiniteSet(OfKind(Kind(t))) /\ Cardinality(OfKind(Kind(t))) <= Cardinality(Pool(Kind(t))) - 1
<1> DEFINE S == OfKind(Kind(t))
           T == Pool(Kind(t)) \ {t}
           f == [l \in S |-> CHOOSE u \in T : Holds(u, l)]
<1>1. \A l \in S : \E u \in T : Holds(u, l)
  <2> SUFFICES ASSUME NEW l \in S PROVE \E u \in T : Holds(u, l)
    OBVIOUS
  <2>1. PICK u \in Threads : Holds(u, l) /\ Kind(u) = Kind(t)
    BY DEF UsedInv, OfKind
  <2>2. u # t /\ u \in Pool(Kind(t))
    BY <2>1, KindPool
  <2> QED BY <2>1, <2>2
<1>2. T \subseteq Threads
  BY DEF Pool, Threads
<1>3. \A l \in S : f[l] \in T /\ Holds(f[l], l)
  BY <1>1
<1>4. f \in [S -> T]
  BY <1>3
<1> HIDE DEF f
<1>5. \A l, m \in S : f[l] = f[m] => l = m
  BY <1>2, <1>3, HoldsOne
<1>6. f \in Injection(S, T)
  BY <1>4, <1>5 DEF Injection, IsInjective
<1>7. IsFiniteSet(Pool(Kind(t))) /\ Cardinality(Pool(Kind(t))) \in Nat /\ t \in Pool(Kind(t))
  BY KindPool, PoolFinite
<1>8. IsFiniteSet(T) /\ Cardinality(T) = Cardinality(Pool(Kind(t))) - 1
  BY <1>7, FS_RemoveElement
<1>9. IsFiniteSet(S) /\ Cardinality(S) <= Cardinality(T)
  BY <1>6, <1>8, FS_Injection
<1> QED BY <1>8, <1>9

LEMMA AcquireCounts ==
  ASSUME LaneInv, UsedInv, CountInv, NEW t \in Threads, NEW lane, Acquires(t, lane)
  PROVE UsedInv' /\ CountInv'
<1> DEFINE k == Kind(t)
           free == {l \in DOMAIN lanes : lanes[l].kind = k /\ ~lanes[l].active}
<1>1. lanes \in Seq(LaneState) /\ DOMAIN lanes = 1 .. Len(lanes) /\ Len(lanes) \in Nat /\ k \in Sorts
  BY SeqFacts, KindPool DEF LaneInv, TypeOK
<1>2. Holds(t, lane)' /\ \A u \in Threads : \A l : Holds(u, l) => Holds(u, l)'
  BY DEF Acquires
<1>3. CASE lane \in free /\ lanes' = [lanes EXCEPT ![lane].active = TRUE]
  <2>1. lane \in 1 .. Len(lanes) /\ lanes[lane] \in LaneState
    BY <1>1, <1>3, SeqFacts
  <2> DEFINE e == [lanes[lane] EXCEPT !.active = TRUE]
  <2>2. e \in LaneState /\ e.kind = k
    BY <1>3, <2>1 DEF LaneState
  <2>3. lanes' = [lanes EXCEPT ![lane] = e]
    BY <1>3
  <2> HIDE DEF e
  <2>4. DOMAIN lanes' = DOMAIN lanes /\ \A j \in DOMAIN lanes : lanes'[j] = IF j = lane THEN e ELSE lanes[j]
    BY <1>1, <2>1, <2>3
  <2>5. \A j \in Sorts : OfKind(j)' = OfKind(j)
    BY <1>3, <2>2, <2>4 DEF OfKind
  <2>6. UsedInv'
    BY <1>2, <2>2, <2>4 DEF UsedInv
  <2>7. CountInv'
    BY <2>5 DEF CountInv, Pool
  <2> QED BY <2>6, <2>7
<1>4. CASE free = {} /\ lane = Len(lanes) + 1 /\ lanes' = Append(lanes, [kind |-> k, active |-> TRUE])
  <2> DEFINE e == [kind |-> k, active |-> TRUE]
  <2>1. e \in LaneState /\ e.kind = k /\ lanes' = Append(lanes, e)
    BY <1>1, <1>4 DEF LaneState, Sorts
  <2> HIDE DEF e
  <2>2. /\ DOMAIN lanes' = 1 .. Len(lanes) + 1
        /\ lanes'[Len(lanes) + 1] = e /\ \A i \in 1 .. Len(lanes) : lanes'[i] = lanes[i]
    BY SMTT(30), <1>1, <2>1, WithLast
  <2>3. \A j \in DOMAIN lanes' : j = lane \/ (j \in DOMAIN lanes /\ lanes'[j] = lanes[j])
    BY SMTT(30), <1>1, <1>4, <2>2
  <2>4. UsedInv'
    BY <1>2, <1>4, <2>1, <2>2, <2>3 DEF UsedInv
  <2>5. lane \notin DOMAIN lanes /\ lane \in DOMAIN lanes' /\ DOMAIN lanes \subseteq DOMAIN lanes'
    BY SMTT(30), <1>1, <1>4, <2>2
  <2>6. \A j \in Sorts \ {k} : OfKind(j)' = OfKind(j)
    BY <1>1, <1>4, <2>1, <2>2, <2>3, <2>5 DEF OfKind
  <2>7. OfKind(k)' = OfKind(k) \cup {lane} /\ lane \notin OfKind(k)
    BY <1>1, <1>4, <2>1, <2>2, <2>3, <2>5 DEF OfKind
  <2>8. IsFiniteSet(OfKind(k)) /\ Cardinality(OfKind(k)) <= Cardinality(Pool(k)) - 1
    <3>1. \A l \in OfKind(k) : lanes[l].active
      BY <1>4 DEF OfKind
    <3>2. \A l : ~Holds(t, l)
      BY DEF Acquires
    <3> QED BY <3>1, <3>2, RoomForOne
  <2>9. Cardinality(OfKind(k)') = Cardinality(OfKind(k)) + 1 /\ Cardinality(OfKind(k)) \in Nat
    BY <2>7, <2>8, FS_AddElement, FS_CardinalityType
  <2>10. Cardinality(OfKind(k)') <= Cardinality(Pool(k))
    BY SMTT(30), <1>1, <2>8, <2>9, PoolFinite
  <2>11. CountInv'
    <3> SUFFICES ASSUME NEW j \in Sorts PROVE Cardinality(OfKind(j)') <= Cardinality(Pool(j))
      BY DEF CountInv, Pool
    <3> QED BY <2>6, <2>10 DEF CountInv
  <2> QED BY <2>4, <2>11
<1> QED BY <1>3, <1>4 DEF Acquires, AcquireWorkerLane

LEMMA ReleaseCounts ==
  ASSUME LaneInv, UsedInv, CountInv, NEW lane, Releases(lane)
  PROVE UsedInv' /\ CountInv'
<1>1. lanes \in Seq(LaneState) /\ DOMAIN lanes = 1 .. Len(lanes)
  BY SeqFacts DEF LaneInv, TypeOK
<1>2. lane \in DOMAIN lanes /\ lanes[lane] \in LaneState
  BY <1>1, SeqFacts DEF Releases, Active
<1> DEFINE e == [lanes[lane] EXCEPT !.active = FALSE]
<1>3. e.kind = lanes[lane].kind /\ ~e.active
  BY <1>2 DEF LaneState
<1>4. lanes' = [lanes EXCEPT ![lane] = e]
  BY DEF Releases, ReleaseWorkerLane
<1> HIDE DEF e
<1>5. DOMAIN lanes' = DOMAIN lanes /\ \A j \in DOMAIN lanes : lanes'[j] = IF j = lane THEN e ELSE lanes[j]
  BY <1>1, <1>2, <1>4
<1>6. \A j \in Sorts : OfKind(j)' = OfKind(j)
  BY <1>3, <1>5 DEF OfKind
<1>7. UsedInv'
  BY <1>3, <1>5 DEF UsedInv, Releases
<1> QED BY <1>6, <1>7 DEF CountInv, Pool

LEMMA CountStep == LaneInv /\ UsedInv /\ CountInv /\ [Next]_vars => UsedInv' /\ CountInv'
<1> SUFFICES ASSUME LaneInv, UsedInv, CountInv, [Next]_vars PROVE UsedInv' /\ CountInv'
  OBVIOUS
<1>1. CASE Keeps
  BY <1>1 DEF Keeps, UsedInv, CountInv, OfKind, Pool
<1> QED BY <1>1, StepHolds, AcquireCounts, ReleaseCounts

\* LanesBounded: acquire_worker_lane reuses a lane before it makes one, and every lane is
\* given back, so that no more are made than threads can use at once.
THEOREM LanesAreBounded == Spec => []LanesBounded
<1>1. Init => UsedInv /\ CountInv
  <2> SUFFICES ASSUME Init PROVE UsedInv /\ CountInv
    OBVIOUS
  <2>1. DOMAIN lanes = {}
    BY SMTT(30) DEF Init
  <2>2. \A k \in Sorts : OfKind(k) = {}
    BY <2>1 DEF OfKind
  <2>3. CountInv
    BY SMTT(30), <2>2, PoolFinite, FS_EmptySet DEF CountInv
  <2> QED BY <2>1, <2>3 DEF UsedInv
<1>2. LaneInv /\ UsedInv /\ CountInv => LanesBounded
  <2> SUFFICES ASSUME LaneInv, UsedInv, CountInv PROVE LanesBounded
    OBVIOUS
  <2>1. Cardinality({i \in DOMAIN lanes : lanes[i].kind = "runtime"}) <= Cardinality(Workers)
    BY DEF CountInv, OfKind, Pool, Sorts
  <2>2. Cardinality({i \in DOMAIN lanes : lanes[i].kind = "external"}) <= 1
    BY FS_Singleton DEF CountInv, OfKind, Pool, Sorts
  <2>3. (\A t \in Threads : calls[t] = <<>> /\ pc[t] = "running") => \A i \in DOMAIN lanes : ~lanes[i].active
    BY SMTT(30) DEF UsedInv, Holds, HeldByCall, HeldByEntry
  <2> QED BY <2>1, <2>2, <2>3 DEF LanesBounded
<1> QED BY <1>1, <1>2, CountStep, LaneInvariant, PTL DEF Spec
-----------------------------------------------------------------------------
(* The budget of the spans, under the interleavings of its two atomic operations. *)

\* Threads between a granted reservation and the span, or between the swap that
\* they won and the announcement.
Granted == {t \in Threads : pc[t] = "granted"}
Announcing == {t \in Threads : pc[t] = "announce"}

SpansInv ==
  /\ recorded + remaining + Cardinality(Granted) = MaxSpans
  /\ refused => remaining = 0

AnnounceInv ==
  /\ announced <= 1
  /\ \A t, u \in Announcing : t = u
  /\ Announcing # {} => reported /\ announced = 0
  /\ announced = 1 => reported
  /\ reported => announced = 1 \/ Announcing # {}
  /\ refused => reported \/ \E t \in Threads : pc[t] = "refused"

BudgetInv == SpansInv /\ AnnounceInv

LEMMA GrantedFinite == IsFiniteSet(Granted) /\ Cardinality(Granted) \in Nat
<1>1. IsFiniteSet(Threads)
  BY ActivityAssumption, FS_AddElement DEF Threads
<1>2. Granted \subseteq Threads
  BY DEF Granted
<1> QED BY <1>1, <1>2, FS_Subset, FS_CardinalityType

\* How a step of one thread changes the two sets.
LEMMA GrantedStep ==
  ASSUME TypeOK, NEW t \in Threads, NEW p, pc' = [pc EXCEPT ![t] = p]
  PROVE  /\ p = "granted" => Granted' = Granted \cup {t}
         /\ p # "granted" => Granted' = Granted \ {t}
         /\ p = "announce" => Announcing' = Announcing \cup {t}
         /\ p # "announce" => Announcing' = Announcing \ {t}
         /\ \A u \in Threads \ {t} : pc'[u] = pc[u]
         /\ pc'[t] = p
BY DEF TypeOK, Granted, Announcing

\* A step that neither reserves nor uses a reservation.
LEMMA PlainStep ==
  ASSUME TypeOK, BudgetInv, NEW t \in Threads,
         NEW p \in {"running", "reserve", "release", "capped"},
         pc[t] \notin {"granted", "refused", "announce"}, pc' = [pc EXCEPT ![t] = p],
         UNCHANGED <<remaining, reported, recorded, refused, announced>>
  PROVE  BudgetInv'
<1>1. Granted' = Granted /\ Announcing' = Announcing
  BY GrantedStep DEF Granted, Announcing
<1>2. (\E u \in Threads : pc[u] = "refused") => \E u \in Threads : pc'[u] = "refused"
  BY GrantedStep
<1>3. SpansInv'
  BY <1>1 DEF BudgetInv, SpansInv
<1>4. AnnounceInv'
  BY <1>1, <1>2 DEF BudgetInv, AnnounceInv
<1> QED BY <1>3, <1>4 DEF BudgetInv

\* A span or a wait recorded with the reservation that was granted for it.
LEMMA UseReservation ==
  ASSUME TypeOK, BudgetInv, NEW t \in Threads, pc[t] = "granted",
         pc' = [pc EXCEPT ![t] = "running"], recorded' = recorded + 1,
         UNCHANGED <<remaining, reported, refused, announced>>
  PROVE  BudgetInv'
<1>1. Granted' = Granted \ {t} /\ t \in Granted /\ Announcing' = Announcing
  BY GrantedStep DEF Granted, Announcing
<1>2. (\E u \in Threads : pc[u] = "refused") => \E u \in Threads : pc'[u] = "refused"
  BY GrantedStep
<1>3. Cardinality(Granted') = Cardinality(Granted) - 1
  BY <1>1, GrantedFinite, FS_RemoveElement
<1>4. SpansInv'
  <2>1. recorded' + remaining' + Cardinality(Granted') = MaxSpans
    BY SMTT(30), <1>3, GrantedFinite, ActivityAssumption DEF BudgetInv, SpansInv, TypeOK
  <2> QED BY <2>1 DEF BudgetInv, SpansInv
<1>5. AnnounceInv'
  BY <1>1, <1>2 DEF BudgetInv, AnnounceInv
<1> QED BY <1>4, <1>5 DEF BudgetInv

LEMMA ReserveBudget ==
  ASSUME TypeOK, BudgetInv, NEW t \in Threads, Reserve(t)
  PROVE  BudgetInv'
<1>1. CASE remaining > 0
  <2>1. /\ remaining' = remaining - 1 /\ pc' = [pc EXCEPT ![t] = "granted"]
        /\ UNCHANGED <<reported, recorded, refused, announced>> /\ pc[t] = "reserve"
    BY SMTT(30), <1>1 DEF Reserve, TypeOK
  <2>2. Granted' = Granted \cup {t} /\ t \notin Granted /\ Announcing' = Announcing
    BY <2>1, GrantedStep DEF Granted, Announcing
  <2>3. Cardinality(Granted') = Cardinality(Granted) + 1
    BY <2>2, GrantedFinite, FS_AddElement
  <2>4. SpansInv'
    <3>1. recorded' + remaining' + Cardinality(Granted') = MaxSpans
      BY SMTT(30), <2>1, <2>3, GrantedFinite, ActivityAssumption DEF BudgetInv, SpansInv, TypeOK
    <3>2. ~refused
      BY SMTT(30), <1>1 DEF BudgetInv, SpansInv, TypeOK
    <3> QED BY <2>1, <3>1, <3>2 DEF SpansInv
  <2>5. (\E u \in Threads : pc[u] = "refused") => \E u \in Threads : pc'[u] = "refused"
    BY <2>1, GrantedStep
  <2>6. AnnounceInv'
    BY <2>1, <2>2, <2>5 DEF BudgetInv, AnnounceInv
  <2> QED BY <2>4, <2>6 DEF BudgetInv
<1>2. CASE ~(remaining > 0)
  <2>1. /\ remaining = 0 /\ refused' = TRUE /\ pc' = [pc EXCEPT ![t] = "refused"]
        /\ UNCHANGED <<remaining, reported, recorded, announced>> /\ pc[t] = "reserve"
    BY <1>2 DEF Reserve, TypeOK
  <2>2. Granted' = Granted /\ Announcing' = Announcing /\ pc'[t] = "refused"
    BY <2>1, GrantedStep DEF Granted, Announcing
  <2>3. SpansInv'
    BY <2>1, <2>2 DEF BudgetInv, SpansInv
  <2>4. AnnounceInv'
    BY <2>1, <2>2 DEF BudgetInv, AnnounceInv
  <2> QED BY <2>3, <2>4 DEF BudgetInv
<1> QED BY <1>1, <1>2

\* The first thread whose reservation is refused announces, and no other one.
LEMMA SwapBudget ==
  ASSUME TypeOK, BudgetInv, NEW t \in Threads, SwapReported(t)
  PROVE  BudgetInv'
<1>1. /\ pc[t] = "refused" /\ reported' = TRUE
      /\ UNCHANGED <<remaining, recorded, refused, announced>>
  BY DEF SwapReported
<1>2. CASE reported
  <2>1. pc' = [pc EXCEPT ![t] = "capped"]
    BY <1>2 DEF SwapReported
  <2>2. Granted' = Granted /\ Announcing' = Announcing
    BY <1>1, <2>1, GrantedStep DEF Granted, Announcing
  <2>3. SpansInv'
    BY <1>1, <2>2 DEF BudgetInv, SpansInv
  <2>4. AnnounceInv'
    BY <1>1, <1>2, <2>2 DEF BudgetInv, AnnounceInv
  <2> QED BY <2>3, <2>4 DEF BudgetInv
<1>3. CASE ~reported
  <2>1. pc' = [pc EXCEPT ![t] = "announce"]
    BY <1>3 DEF SwapReported
  <2>2. Granted' = Granted /\ Announcing' = Announcing \cup {t}
    BY <1>1, <2>1, GrantedStep DEF Granted, Announcing
  <2>3. Announcing = {} /\ announced = 0
    BY SMTT(30), <1>3 DEF BudgetInv, AnnounceInv, TypeOK
  <2>4. SpansInv'
    BY <1>1, <2>2 DEF BudgetInv, SpansInv
  <2>5. AnnounceInv'
    BY <1>1, <2>2, <2>3 DEF BudgetInv, AnnounceInv
  <2> QED BY <2>4, <2>5 DEF BudgetInv
<1> QED BY <1>2, <1>3

LEMMA AnnounceBudget ==
  ASSUME TypeOK, BudgetInv, NEW t \in Threads, ReportTruncation(t)
  PROVE  BudgetInv'
<1>1. /\ pc[t] = "announce" /\ announced' = announced + 1 /\ pc' = [pc EXCEPT ![t] = "capped"]
      /\ UNCHANGED <<remaining, reported, recorded, refused>>
  BY DEF ReportTruncation
<1>2. Granted' = Granted /\ Announcing' = Announcing \ {t} /\ t \in Announcing
  BY <1>1, GrantedStep DEF Granted, Announcing
<1>3. Announcing' = {} /\ reported /\ announced = 0
  BY <1>2 DEF BudgetInv, AnnounceInv
<1>4. SpansInv'
  BY <1>1, <1>2 DEF BudgetInv, SpansInv
<1>5. AnnounceInv'
  BY SMTT(30), <1>1, <1>3 DEF AnnounceInv
<1> QED BY <1>4, <1>5 DEF BudgetInv

LEMMA QuietBudget ==
  ASSUME BudgetInv, UNCHANGED <<pc, remaining, reported, recorded, refused, announced>>
  PROVE  BudgetInv'
BY DEF BudgetInv, SpansInv, AnnounceInv, Granted, Announcing

LEMMA BudgetInit == Init => BudgetInv
<1> SUFFICES ASSUME Init PROVE BudgetInv
  OBVIOUS
<1>1. Granted = {} /\ Announcing = {}
  BY DEF Init, Granted, Announcing
<1>2. SpansInv
  BY SMTT(30), <1>1, FS_EmptySet, ActivityAssumption DEF Init, SpansInv
<1>3. AnnounceInv
  BY SMTT(30), <1>1 DEF Init, AnnounceInv
<1> QED BY <1>2, <1>3 DEF BudgetInv

LEMMA BudgetStep == TypeOK /\ BudgetInv /\ [Next]_vars => BudgetInv'
<1> SUFFICES ASSUME TypeOK, BudgetInv, [Next]_vars PROVE BudgetInv'
  OBVIOUS
<1>1. ASSUME NEW t \in Threads, Step(t) PROVE BudgetInv'
  <2>1. ASSUME NEW s \in Streams, NEW a \in {"execute", "poll"}, StartSpan(t, s, a) PROVE BudgetInv'
    BY <2>1, PlainStep DEF StartSpan, InCode
  <2>2. ASSUME RecordSpan(t) PROVE BudgetInv'
    <3>1. CASE pc[t] = "granted"
      BY <2>2, <3>1, UseReservation DEF RecordSpan
    <3>2. CASE pc[t] = "capped"
      BY <2>2, <3>2, PlainStep DEF RecordSpan
    <3> QED BY <2>2, <3>1, <3>2 DEF RecordSpan
  <2>3. ASSUME OmitSpan(t) PROVE BudgetInv'
    BY <2>3, PlainStep DEF OmitSpan
  <2>4. ASSUME RecordWait(t) PROVE BudgetInv'
    <3>1. CASE pc[t] = "granted"
      BY <2>4, <3>1, UseReservation DEF RecordWait
    <3>2. CASE pc[t] = "capped"
      BY <2>4, <3>2, PlainStep DEF RecordWait
    <3> QED BY <2>4, <3>1, <3>2 DEF RecordWait
  <2>5. ASSUME NEW r \in {"pending", "ready", "panic"}, CloseSpan(t, r) PROVE BudgetInv'
    <3>1. /\ pc[t] = "running" /\ UNCHANGED <<remaining, reported, recorded, refused, announced>>
          /\ \E p \in {"running", "reserve", "release", "capped"} : pc' = [pc EXCEPT ![t] = p]
      BY <2>5 DEF CloseSpan, AfterSpan
    <3> QED BY <3>1, PlainStep
  <2>6. ASSUME ReleaseLane(t) PROVE BudgetInv'
    <3>1. /\ pc[t] = "release" /\ UNCHANGED <<remaining, reported, recorded, refused, announced>>
          /\ \E p \in {"running", "reserve", "release", "capped"} : pc' = [pc EXCEPT ![t] = p]
      BY <2>6 DEF ReleaseLane, AfterSpan
    <3> QED BY <3>1, PlainStep
  <2>7. ASSUME NEW k \in Tasks, SpawnTask(t, k) \/ PollTask(t, k) PROVE BudgetInv'
    BY <2>7, QuietBudget DEF SpawnTask, PollTask
  <2> QED BY <1>1, <2>1, <2>2, <2>3, <2>4, <2>5, <2>6, <2>7, ReserveBudget, SwapBudget,
            AnnounceBudget DEF Step
<1>2. ASSUME NEW s \in Streams, DropStream(s) PROVE BudgetInv'
  BY <1>2, QuietBudget DEF DropStream
<1>3. ASSUME NEW k \in Tasks, EndTask(k) PROVE BudgetInv'
  BY <1>3, QuietBudget DEF EndTask
<1>4. ASSUME UNCHANGED vars PROVE BudgetInv'
  BY <1>4, QuietBudget DEF vars
<1> QED BY <1>1, <1>2, <1>3, <1>4 DEF Next

\* An operation of any number of threads records at most max_operator_activity_spans
\* spans and waits, refuses one only when all are used, and announces the truncation
\* exactly once (OperatorActivityBudget::reserve, report_truncation).
THEOREM TruncationIsAnnouncedOnce == Spec => []TruncationAnnouncedOnce
<1>1. TypeOK /\ BudgetInv => TruncationAnnouncedOnce
  <2> SUFFICES ASSUME TypeOK, BudgetInv PROVE TruncationAnnouncedOnce
    OBVIOUS
  <2>1. recorded <= MaxSpans
    BY SMTT(30), GrantedFinite, ActivityAssumption DEF BudgetInv, SpansInv, TypeOK
  <2>2. (\A t \in Threads : pc[t] \in {"running", "release"}) =>
          Announcing = {} /\ ~\E t \in Threads : pc[t] = "refused"
    BY DEF Announcing
  <2> QED BY <2>1, <2>2 DEF BudgetInv, SpansInv, AnnounceInv, TruncationAnnouncedOnce
<1>2. LaneInv => TypeOK
  BY DEF LaneInv
<1> QED BY <1>1, <1>2, LaneInvariant, BudgetInit, BudgetStep, PTL DEF Spec
=============================================================================
