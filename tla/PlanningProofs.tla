--------------------------- MODULE PlanningProofs ---------------------------
(***************************************************************************)
(* What the selector answers rests on what its verifier passed, for any    *)
(* plan, artifacts and closeouts, any number of rewritten files and slips. *)
(*                                                                         *)
(* The invariant (Verified) says, for each point of a selection, which of  *)
(* the verifier's checks hold of what it has read so far.  The files may   *)
(* change at any step: nothing in it speaks of them.  What the checks mean *)
(* together is proved of the checks alone (StagesOrdered, WholePackage,    *)
(* LeadsTo, WalkIsNeed, GraphRooted).  The other way round (Undisturbed):  *)
(* the checks that a sound plane passes are passed when nobody edits it.   *)
(***************************************************************************)
EXTENDS Planning, ListProofs, FiniteSetTheorems

LEMMA TasksFinite == IsFiniteSet(Tasks) /\ Cardinality(Tasks) \in Nat
<1>1. TaskOrder \in [DOMAIN TaskOrder -> Tasks] /\ DOMAIN TaskOrder = 1..Len(TaskOrder)
      /\ Len(TaskOrder) \in Nat
  BY PlanningAssumption DEF Tasks, Members
<1>2. TaskOrder \in Surjection(DOMAIN TaskOrder, Tasks)
  BY <1>1 DEF Surjection, Tasks, Members
<1>3. IsFiniteSet(DOMAIN TaskOrder)
  BY <1>1, FS_Interval
<1> QED BY <1>2, <1>3, FS_Surjection, FS_CardinalityType

-----------------------------------------------------------------------------
(* What the checks mean together.                                          *)

\* The stages a status claims are claimed in their order.
LEMMA StagesOrdered ==
  ASSUME NEW s, NEW tr, NEW f, StagesHold(s, tr, f),
         NEW i \in DOMAIN Stages, NEW j \in DOMAIN Stages,
         i < j, s.flag[Stages[j].flag], Stages[j].flag # "guard"
  PROVE  s.flag[Stages[i].flag]
<1> DEFINE claimed(k) == s.flag[Stages[k].flag]
<1>1. i \in 1..12 /\ j \in 1..12
  BY DEF Stages
<1>2. /\ Stages[1].flag = "approved" /\ Stages[2].flag = "truth_reset"
      /\ Stages[3].flag = "guard" /\ Stages[4].flag = "code_complete"
      /\ Stages[5].flag = "accepted" /\ Stages[6].flag = "full_q0"
      /\ Stages[7].flag = "admitted" /\ Stages[8].flag = "pilot"
      /\ Stages[9].flag = "scheduled" /\ Stages[10].flag = "cohort"
      /\ Stages[11].flag = "cutover" /\ Stages[12].flag = "retired"
  BY DEF Stages
<1>3. /\ claimed(2) => claimed(1)
      /\ claimed(4) => claimed(3) /\ claimed(2)
      /\ \A k \in 5..12 : claimed(k) => claimed(k - 1)
  <2>1. /\ claimed(2) => claimed(1)
        /\ claimed(4) => claimed(3) /\ claimed(2)
        /\ claimed(5) => claimed(4)
        /\ claimed(6) => claimed(5)
        /\ claimed(7) => claimed(6)
        /\ claimed(8) => claimed(7)
        /\ claimed(9) => claimed(8)
        /\ claimed(10) => claimed(9)
        /\ claimed(11) => claimed(10)
        /\ claimed(12) => claimed(11)
    BY <1>2 DEF StagesHold
  <2> HIDE DEF claimed
  <2>2. \A k \in 5..12 : k = 5 \/ k = 6 \/ k = 7 \/ k = 8 \/ k = 9 \/ k = 10 \/ k = 11 \/ k = 12
    OBVIOUS
  <2> QED BY <2>1, <2>2
<1>4. j # 3 /\ claimed(j)
  BY <1>2
<1> HIDE DEF claimed
<1>5. claimed(i)
  BY <1>1, <1>3, <1>4
<1> QED BY <1>5 DEF claimed

LEMMA EmptyKeep ==
  ASSUME NEW set, Keep(Artifacts, set) = <<>>
  PROVE  \A a \in Kinds : a \notin set
<1> DEFINE kept == Keep(Artifacts, set)
<1>1. ToSet(kept) = ToSet(Artifacts) \cap set
  BY PlanningAssumption, KeepMembers
<1>2. ToSet(kept) = {}
  BY DEF ToSet
<1>3. Kinds = ToSet(Artifacts)
  BY DEF Kinds, Members, ToSet
<1> HIDE DEF kept
<1> QED BY <1>1, <1>2, <1>3

LEMMA FirstKept ==
  ASSUME NEW set, Keep(Artifacts, set) # <<>>
  PROVE  Keep(Artifacts, set)[1] \in Kinds \cap set
<1> DEFINE kept == Keep(Artifacts, set)
<1>1. ToSet(kept) = ToSet(Artifacts) \cap set /\ kept \in Seq(STRING)
  BY PlanningAssumption, KeepMembers
<1>2. Kinds = ToSet(Artifacts)
  BY DEF Kinds, Members, ToSet
<1>3. kept # <<>>
  OBVIOUS
<1> HIDE DEF kept
<1>4. 1 \in DOMAIN kept
  BY <1>1, <1>3
<1>5. kept[1] \in ToSet(kept)
  BY <1>4 DEF ToSet
<1>6. kept[1] \in Kinds \cap set
  BY <1>1, <1>2, <1>5
<1> QED BY <1>6 DEF kept

\* A package that is complete and eligible has every artifact as pinned.
LEMMA WholePackage ==
  ASSUME NEW s, NEW inv, NEW f, NEW standalone, InventoryHolds(s, inv, f, standalone),
         s.package = "complete", NEW a \in Kinds
  PROVE  inv.row[a] = "present" /\ f[a] = inv.pin[a]
<1>1. NotPresent(inv) = <<>>
  BY DEF InventoryHolds
<1>2. inv.row[a] = "present"
  BY <1>1, EmptyKeep DEF NotPresent
<1>3. RowHolds(inv, f, a)
  BY DEF InventoryHolds
<1> QED BY <1>2, <1>3 DEF RowHolds

\* The steps of a walk that starts in, and does not leave, a set of work items.
Spread(p, reached) == reached \cup UNION {p.next[t] : t \in reached}

WalkSteps(p, C) ==
  {g \in [0..Cardinality(Tasks) -> SUBSET C] :
     \A n \in 1..Cardinality(Tasks) : g[n] = Spread(p, g[n - 1])}

LEMMA WalkByStep ==
  ASSUME NEW p, NEW C \in SUBSET Tasks, NEW from \in SUBSET C,
         \A t \in C : p.next[t] \subseteq C
  PROVE  \E g \in WalkSteps(p, C) :
           g[0] = from /\ Walk(p, from) = g[Cardinality(Tasks)]
<1> DEFINE N == Cardinality(Tasks)
           K == SUBSET C
           step == CHOOSE step : step = [n \in 0..Cardinality(Tasks) |->
                     IF n = 0 THEN from
                     ELSE step[n - 1] \cup UNION {p.next[t] : t \in step[n - 1]}]
           F == [x \in (1..N) \X K |-> Spread(p, x[2])]
<1>1. Walk(p, from) = step[N]
  BY DEF Walk
<1>2. N \in Nat
  BY TasksFinite
<1>3. PICK g \in [0..N -> K] : g[0] = from /\ \A n \in 1..N : g[n] = Spread(p, g[n - 1])
  <2> HIDE DEF N
  <2>1. F \in Steps(K, 1..N)
    BY DEF Steps, Spread
  <2>2. \A n \in 1..N, k \in K : F[<<n, k>>] = Spread(p, k)
    OBVIOUS
  <2>3. from \in K
    OBVIOUS
  <2> HIDE DEF F, K
  <2>4. RecursionTo(K, from, F, N) # {}
    BY <1>2, <2>1, <2>3, RecursionUpTo
  <2>5. PICK g \in [0..N -> K] : g[0] = from /\ \A n \in 1..N : g[n] = F[<<n, g[n - 1]>>]
    BY <2>4 DEF RecursionTo
  <2>6. \A n \in 1..N : n - 1 \in 0..N
    BY <1>2
  <2> QED BY <2>2, <2>5, <2>6
<1> HIDE DEF K
<1>4. g = step
  <2> HIDE DEF N
  <2>1. ASSUME NEW n \in 0..N
        PROVE  g[n] = IF n = 0 THEN from
                      ELSE g[n - 1] \cup UNION {p.next[t] : t \in g[n - 1]}
    <3>1. n = 0 \/ n \in 1..N
      BY <1>2
    <3> QED BY <1>3, <3>1 DEF Spread
  <2>2. g = [n \in 0..N |-> IF n = 0 THEN from
                            ELSE g[n - 1] \cup UNION {p.next[t] : t \in g[n - 1]}]
    BY <1>3, <2>1
  <2>3. step = [n \in 0..N |-> IF n = 0 THEN from
                               ELSE step[n - 1] \cup UNION {p.next[t] : t \in step[n - 1]}]
    BY <2>2 DEF N
  <2>4. \A n \in Nat : n \in 0..N => g[n] = step[n]
    <3> DEFINE S == {n \in 0..N : g[n] = step[n]}
    <3> HIDE DEF step
    <3>1. 0 \in S
      BY <1>2, <1>3, <2>3
    <3>2. ASSUME NEW n \in 0..N, n < N, n \in S  PROVE  n + 1 \in S
      <4>1. n + 1 \in 0..N /\ n + 1 # 0 /\ (n + 1) - 1 = n
        BY <1>2, <3>2
      <4>2. g[n + 1] = g[n] \cup UNION {p.next[t] : t \in g[n]}
        BY <2>1, <4>1
      <4>3. step[n + 1] = step[n] \cup UNION {p.next[t] : t \in step[n]}
        BY <2>3, <4>1
      <4> QED BY <3>2, <4>1, <4>2, <4>3
    <3> HIDE DEF S
    <3>3. 0..N \subseteq S
      BY <1>2, <3>1, <3>2, SetInductionUpTo
    <3> QED BY <3>3 DEF S
  <2> HIDE DEF step
  <2>5. DOMAIN step = 0..N
    BY <2>3
  <2>6. \A n \in 0..N : g[n] = step[n]
    BY <1>2, <2>4
  <2> QED BY <1>3, <2>3, <2>5, <2>6
<1> HIDE DEF step
<1> QED BY <1>1, <1>3, <1>4 DEF WalkSteps, K

\* A set of work items that next_task_ids does not leave holds what is reached
\* from its members.
LEMMA WalkStays ==
  ASSUME NEW p, NEW C \in SUBSET Tasks, NEW from \in SUBSET C,
         \A t \in C : p.next[t] \subseteq C
  PROVE  Walk(p, from) \subseteq C
<1>1. PICK g \in WalkSteps(p, C) : Walk(p, from) = g[Cardinality(Tasks)]
  BY WalkByStep
<1> QED BY <1>1, TasksFinite DEF WalkSteps

\* As many steps as there are work items are enough: nothing that next_task_ids
\* of a reached item names is left out.
LEMMA WalkComplete ==
  ASSUME NEW p, NEW from \in SUBSET Tasks, \A t \in Tasks : p.next[t] \subseteq Tasks
  PROVE  /\ from \subseteq Walk(p, from) /\ Walk(p, from) \subseteq Tasks
         /\ \A t \in Walk(p, from) : p.next[t] \subseteq Walk(p, from)
<1> DEFINE N == Cardinality(Tasks)
           Closed(reached) == \A t \in reached : p.next[t] \subseteq reached
<1>1. PICK g \in WalkSteps(p, Tasks) : g[0] = from /\ Walk(p, from) = g[N]
  BY WalkByStep
<1>2. /\ N \in Nat /\ g \in [0..N -> SUBSET Tasks]
      /\ \A n \in 1..N : g[n] = Spread(p, g[n - 1])
  BY TasksFinite DEF WalkSteps
<1>3. IsFiniteSet(Tasks)
  BY TasksFinite
<1> DEFINE S == {n \in 0..N : /\ from \subseteq g[n]
                              /\ Closed(g[n]) \/ Cardinality(g[n]) >= n}
<1> HIDE DEF N
<1>4. \A n \in 0..N : /\ g[n] \subseteq Tasks /\ IsFiniteSet(g[n])
                      /\ Cardinality(g[n]) \in Nat
  BY <1>2, <1>3, FS_Subset, FS_CardinalityType
<1>5. 0 \in S
  BY <1>1, <1>2, <1>4
<1>6. ASSUME NEW n \in 0..N, n < N, n \in S  PROVE  n + 1 \in S
  <2>1. n + 1 \in 1..N /\ n + 1 \in 0..N /\ (n + 1) - 1 = n
    BY <1>2, <1>6
  <2>2. g[n + 1] = g[n] \cup UNION {p.next[t] : t \in g[n]}
    BY <1>2, <2>1 DEF Spread
  <2>3. CASE Closed(g[n])
    <3>1. g[n + 1] = g[n]
      BY <2>2, <2>3
    <3> QED BY <1>6, <2>1, <2>3, <3>1
  <2>4. CASE ~Closed(g[n])
    <3>1. g[n] \subseteq g[n + 1] /\ g[n] # g[n + 1]
      BY <2>2, <2>4
    <3>2. Cardinality(g[n]) <= Cardinality(g[n + 1])
          /\ Cardinality(g[n]) # Cardinality(g[n + 1])
      BY <1>4, <2>1, <3>1, FS_Subset
    <3>3. Cardinality(g[n + 1]) >= n + 1
      BY <1>4, <1>6, <2>1, <2>4, <3>2
    <3> QED BY <1>6, <2>1, <3>1, <3>3
  <2> QED BY <2>3, <2>4
<1> HIDE DEF S
<1>7. 0..N \subseteq S
  BY <1>2, <1>5, <1>6, SetInductionUpTo
<1>8. N \in S
  BY <1>2, <1>7
<1>9. from \subseteq g[N] /\ (Closed(g[N]) \/ Cardinality(g[N]) >= N)
  BY <1>8 DEF S
<1>10. CASE Closed(g[N])
  BY <1>1, <1>2, <1>9, <1>10
<1>11. CASE Cardinality(g[N]) >= N
  <2>1. g[N] \in SUBSET Tasks /\ Cardinality(g[N]) <= N
    BY <1>2, <1>3, FS_Subset DEF N
  <2>2. Cardinality(g[N]) = Cardinality(Tasks)
    BY <1>2, <1>4, <1>11, <2>1 DEF N
  <2>3. g[N] = Tasks
    BY <1>3, <2>1, <2>2, FS_Subset
  <2> QED BY <1>1, <2>3
<1> QED BY <1>9, <1>10, <1>11

\* What is reached along next_task_ids needs where the walk began.
LEMMA LeadsTo ==
  ASSUME NEW p, EdgesHold(p), NEW x \in Tasks, NEW t \in Walk(p, {x})
  PROVE  x \in Needs(p, t)
<1> SUFFICES ASSUME NEW S \in SUBSET Tasks, t \in S, \A u \in S : p.deps[u] \subseteq S,
                    x \notin S
             PROVE  FALSE
  BY DEF Needs
<1> DEFINE C == Tasks \ S
<1>1. {x} \in SUBSET C /\ C \in SUBSET Tasks
  OBVIOUS
<1>2. ASSUME NEW u \in C  PROVE  p.next[u] \subseteq C
  BY <1>2 DEF EdgesHold
<1>3. t \notin C
  OBVIOUS
<1> HIDE DEF C
<1>4. Walk(p, {x}) \subseteq C
  BY <1>1, <1>2, WalkStays
<1> QED BY <1>3, <1>4

\* The walk of _verify_links along next_task_ids, which has only so many steps,
\* reaches exactly the work items that need the one where it began: it passes no
\* status whose work leads elsewhere and refuses none whose work leads there.
THEOREM WalkIsNeed ==
  ASSUME NEW p, EdgesHold(p), NEW x \in Tasks, NEW t \in Tasks
  PROVE  t \in Walk(p, {x}) <=> x \in Needs(p, t)
<1>1. t \in Walk(p, {x}) => x \in Needs(p, t)
  BY LeadsTo
<1>2. ASSUME x \in Needs(p, t), t \notin Walk(p, {x})  PROVE  FALSE
  <2> DEFINE S == Tasks \ Walk(p, {x})
  <2>1. \A u \in Tasks : p.next[u] \subseteq Tasks /\ p.deps[u] \subseteq Tasks
    BY DEF EdgesHold
  <2>2. x \in Walk(p, {x}) /\ \A u \in Walk(p, {x}) : p.next[u] \subseteq Walk(p, {x})
    BY <2>1, WalkComplete
  <2>3. \A u \in S : p.deps[u] \subseteq S
    BY <2>1, <2>2 DEF EdgesHold
  <2>4. S \in SUBSET Tasks /\ t \in S /\ x \notin S
    BY <1>2, <2>2
  <2> HIDE DEF S
  <2> QED BY <1>2, <2>3, <2>4 DEF Needs
<1> QED BY <1>1, <1>2

\* A graph that verify-planning-status.py passes has one root and no cycle: its
\* first work item is needed by every other, and every set of work items has one
\* that needs no other of the set.
THEOREM GraphRooted ==
  ASSUME NEW p, GraphHolds(p), RebaseTask \in Tasks
  PROVE  /\ \A t \in Tasks : RebaseTask \in Needs(p, t)
         /\ \A S \in SUBSET Tasks : S # {} => \E t \in S : p.deps[t] \cap S = {}
<1>1. EdgesHold(p) /\ Walk(p, {RebaseTask}) = Tasks
  BY DEF GraphHolds
<1>2. \A t \in Tasks : RebaseTask \in Needs(p, t)
  BY <1>1, LeadsTo
<1>3. ASSUME NEW S \in SUBSET Tasks, S # {}  PROVE  \E t \in S : p.deps[t] \cap S = {}
  <2> DEFINE P == {Position(TaskOrder, t) : t \in S}
  <2>1. P \in SUBSET Nat /\ P # {}
    <3>1. \A t \in Tasks : Position(TaskOrder, t) \in DOMAIN TaskOrder
      BY DEF Tasks, Members, Position
    <3>2. DOMAIN TaskOrder \subseteq Nat
      BY PlanningAssumption
    <3> QED BY <1>3, <3>1, <3>2
  <2>2. PICK m \in P : \A y \in P : ~(y < m)
    BY <2>1, LeastNatural
  <2>3. PICK t \in S : Position(TaskOrder, t) = m
    BY <2>2
  <2>4. \A d \in p.deps[t] \cap S : FALSE
    BY <1>1, <2>2, <2>3 DEF EdgesHold
  <2> QED BY <2>4
<1> QED BY <1>2, <1>3

-----------------------------------------------------------------------------
(* The selection.                                                          *)

\* What the selector and its verifier remember.
IsMem(m) ==
  m = [policy |-> m.policy, status |-> m.status, inventory |-> m.inventory,
       plan |-> m.plan, seen |-> m.seen, standalone |-> m.standalone,
       attested |-> m.attested, sound |-> m.sound]

InventoryPassed(m) == InventoryHolds(m.status, m.inventory, m.seen, m.standalone)
PlanPassed(m) ==
  /\ EdgesHold(m.plan) /\ CurrentHolds(m.status, m.plan)
  /\ LinksHold(m.status, m.inventory, m.plan)

\* The verifier has passed what it read.
Passed == pc \in {"reload", "decide"} \/ Selected

Verified ==
  /\ IsMem(mem)
  /\ (pc \in {"lineage", "plan", "components", "attest"} /\ mem.sound) \/ Passed =>
       InventoryPassed(mem)
  /\ (pc \in {"components", "attest"} /\ mem.sound) \/ Passed => PlanPassed(mem)
  /\ Passed => mem.sound /\ \E tr, f : StagesHold(mem.status, tr, f)
  /\ pc = "decide" \/ Selected => mem.policy = mem.attested
  /\ Selected => result = [action |-> Choice(mem.status), task |-> mem.status.task]

LEMMA NotSelected == ASSUME result' = Repair PROVE ~Selected'
  BY DEF Selected, Repair

LEMMA Step == ASSUME Verified, [Next]_vars PROVE Verified'
<1>0. IsMem(mem)
  BY DEF Verified
<1>1. CASE UNCHANGED <<pc, mem, result>>
  BY <1>1 DEF Verified, Passed, Selected, IsMem, InventoryPassed, PlanPassed
<1>2. CASE LoadPolicy
  <2>1. CASE pc' = "done" /\ result' = Repair /\ mem' = mem
    BY <1>0, <2>1, NotSelected DEF Verified, Passed
  <2>2. CASE pc' = "status" /\ mem' = [mem EXCEPT !.policy = policy]
    <3>1. IsMem(mem')
      BY <1>0, <2>2 DEF IsMem
    <3> QED BY <2>2, <3>1 DEF Verified, Passed, Selected, IsMem
  <2> QED BY <1>2, <2>1, <2>2 DEF LoadPolicy, Answer, Read
<1>3. CASE ReadStatus \/ CheckCandidate \/ ReadInventory \/ CheckArchives \/ ReadArtifact
  <2>1. pc' \in {"candidate", "inventory", "archives", "artifacts"}
    BY <1>3 DEF ReadStatus, CheckCandidate, ReadInventory, CheckArchives, ReadArtifact, Read
  <2>2. IsMem(mem')
    BY <1>0, <1>3 DEF ReadStatus, CheckCandidate, ReadInventory, CheckArchives, ReadArtifact,
                      Read, IsMem
  <2> QED BY <2>1, <2>2 DEF Verified, Passed, Selected, IsMem
<1>4. CASE CheckPackage \/ CheckLineage
  <2>1. CASE CheckPackage
    <3>1. PICK pass \in BOOLEAN :
            mem' = [mem EXCEPT !.standalone = pass,
                               !.sound = @ /\ InventoryHolds(mem.status, mem.inventory,
                                                             mem.seen, pass)]
      BY <2>1 DEF CheckPackage, Read
    <3>2. pc' = "lineage" /\ IsMem(mem')
      BY <1>0, <2>1, <3>1 DEF CheckPackage, Read, IsMem
    <3>3. /\ mem'.status = mem.status /\ mem'.inventory = mem.inventory
          /\ mem'.seen = mem.seen /\ mem'.standalone = pass
      BY <1>0, <3>1 DEF IsMem
    <3>4. mem'.sound => InventoryHolds(mem.status, mem.inventory, mem.seen, pass)
      BY <1>0, <3>1 DEF IsMem
    <3>5. mem'.sound => InventoryPassed(mem')
      BY <3>3, <3>4 DEF InventoryPassed
    <3> QED BY <3>2, <3>5 DEF Verified, Passed, Selected, IsMem, InventoryPassed
  <2>2. CASE CheckLineage
    <3>1. pc = "lineage" /\ pc' = "plan" /\ IsMem(mem')
      BY <1>0, <2>2 DEF CheckLineage, Read, IsMem
    <3>2. mem'.sound => mem.sound
      BY <1>0, <2>2 DEF CheckLineage, Read, IsMem
    <3>3. /\ mem'.status = mem.status /\ mem'.inventory = mem.inventory
          /\ mem'.seen = mem.seen /\ mem'.standalone = mem.standalone
      BY <1>0, <2>2 DEF CheckLineage, Read, IsMem
    <3> QED BY <3>1, <3>2, <3>3 DEF Verified, Passed, Selected, IsMem, InventoryPassed
  <2> QED BY <1>4, <2>1, <2>2
<1>5. CASE ReadPlan
  <2>1. pc = "plan" /\ pc' = "components" /\ IsMem(mem')
    BY <1>0, <1>5 DEF ReadPlan, Read, IsMem
  <2>2. mem'.sound => mem.sound /\ PlanPassed(mem')
    <3>1. mem'.status = mem.status /\ mem'.inventory = mem.inventory /\ mem'.plan = plan
      BY <1>0, <1>5 DEF ReadPlan, Read, IsMem
    <3>2. mem'.sound => /\ mem.sound /\ GraphHolds(plan)
                        /\ CurrentHolds(mem.status, plan)
                        /\ LinksHold(mem.status, mem.inventory, plan)
      BY <1>0, <1>5 DEF ReadPlan, Read, IsMem
    <3> QED BY <3>1, <3>2 DEF PlanPassed, GraphHolds
  <2>3. InventoryPassed(mem') <=> InventoryPassed(mem)
    <3>1. /\ mem'.status = mem.status /\ mem'.inventory = mem.inventory
          /\ mem'.seen = mem.seen /\ mem'.standalone = mem.standalone
      BY <1>0, <1>5 DEF ReadPlan, Read, IsMem
    <3> QED BY <3>1 DEF InventoryPassed
  <2> QED BY <2>1, <2>2, <2>3 DEF Verified, Passed, Selected, IsMem, InventoryPassed, PlanPassed
<1>6. CASE RunComponents
  <2>1. pc = "components" /\ pc' = "attest" /\ IsMem(mem')
    BY <1>0, <1>6 DEF RunComponents, Read, IsMem
  <2>2. mem'.sound => mem.sound
    BY <1>0, <1>6 DEF RunComponents, Read, IsMem
  <2>3. /\ mem'.status = mem.status /\ mem'.inventory = mem.inventory /\ mem'.plan = mem.plan
        /\ mem'.seen = mem.seen /\ mem'.standalone = mem.standalone
    BY <1>0, <1>6 DEF RunComponents, Read, IsMem
  <2> QED BY <2>1, <2>2, <2>3 DEF Verified, Passed, Selected, IsMem, InventoryPassed, PlanPassed
<1>7. CASE Attest
  <2>1. CASE pc' = "done" /\ result' = Repair
             /\ mem' = [mem EXCEPT !.attested = "rejected", !.sound = FALSE]
    <3>1. IsMem(mem')
      BY <1>0, <2>1 DEF IsMem
    <3> QED BY <2>1, <3>1, NotSelected DEF Verified, Passed, IsMem
  <2>2. CASE /\ mem.sound /\ StagesHold(mem.status, tree, files)
             /\ pc' = "reload" /\ mem' = [mem EXCEPT !.attested = policy]
    <3>1. IsMem(mem')
      BY <1>0, <2>2 DEF IsMem
    <3>2. /\ mem'.status = mem.status /\ mem'.inventory = mem.inventory
          /\ mem'.plan = mem.plan /\ mem'.seen = mem.seen
          /\ mem'.standalone = mem.standalone
      BY <1>0, <2>2 DEF IsMem
    <3>3. mem'.sound
      BY <1>0, <2>2 DEF IsMem
    <3>4. InventoryPassed(mem) /\ PlanPassed(mem)
      BY <1>7, <2>2 DEF Attest, Verified
    <3>5. \E tr, f : StagesHold(mem'.status, tr, f)
      BY <2>2, <3>2
    <3> QED BY <2>2, <3>1, <3>2, <3>3, <3>4, <3>5
            DEF Verified, Passed, Selected, IsMem, InventoryPassed, PlanPassed
  <2> QED BY <1>7, <2>1, <2>2 DEF Attest, Answer, Read
<1>8. CASE ReloadPolicy
  <2>1. CASE pc' = "done" /\ result' = Repair /\ mem' = mem
    BY <1>0, <2>1, NotSelected DEF Verified, Passed
  <2>2. CASE mem.policy = mem.attested /\ pc = "reload" /\ pc' = "decide" /\ mem' = mem
    BY <2>2 DEF Verified, Passed, Selected
  <2> QED BY <1>8, <2>1, <2>2 DEF ReloadPolicy, Answer, Read
<1>9. CASE Decide
  <2>1. CASE pc' = "done" /\ result' = Repair /\ mem' = mem
    BY <1>0, <2>1, NotSelected DEF Verified, Passed
  <2>2. CASE /\ status = mem.status /\ pc = "decide" /\ pc' = "done" /\ mem' = mem
             /\ result' = [action |-> Choice(status), task |-> status.task]
    BY <2>2 DEF Verified, Passed, Selected
  <2> QED BY <1>9, <2>1, <2>2 DEF Decide, Answer
<1>10. CASE VerifierFails
  <2>1. pc' = "done" /\ result' = Repair /\ mem' = mem
    BY <1>10 DEF VerifierFails, Answer
  <2> QED BY <1>0, <2>1, NotSelected DEF Verified, Passed
<1>11. CASE Rewrite \/ Slip
  BY <1>1, <1>11 DEF Rewrite, Slip
<1>12. CASE UNCHANGED vars
  BY <1>1, <1>12 DEF vars
<1> QED BY <1>2, <1>3, <1>4, <1>5, <1>6, <1>7, <1>8, <1>9, <1>10, <1>11, <1>12
        DEF Next, Select

LEMMA VerifiedHolds == Spec => []Verified
<1>1. Init => Verified
  BY DEF Init, Verified, Passed, Selected, IsMem, Nothing
<1>2. Verified /\ [Next]_vars => Verified'
  BY Step
<1> QED BY <1>1, <1>2, PTL DEF Spec

-----------------------------------------------------------------------------

\* A selection of select-next-work.py rests on the status that
\* verify-planning-status.py passed as a whole, under the policy it passed,
\* whoever wrote which file in between.
THEOREM SelectionVerifiedHolds == Spec => []SelectionVerified
<1>1. Verified => SelectionVerified
  BY DEF Verified, Passed, SelectionVerified
<1> QED BY <1>1, VerifiedHolds, PTL

\* No selection rests on a status that claims a stage before an earlier one.
THEOREM StagesInOrderHolds == Spec => []StagesInOrder
<1>1. Verified => StagesInOrder
  BY StagesOrdered DEF Verified, Passed, StagesInOrder
<1> QED BY <1>1, VerifiedHolds, PTL

\* Work beyond the package is selected only when every artifact is present in
\* the bytes the inventory pins.
THEOREM PackageWholeHolds == Spec => []PackageWhole
<1>1. Verified => PackageWhole
  <2> SUFFICES ASSUME Verified, Selected, result.action \notin ClosureActions, NEW a \in Kinds
               PROVE  /\ mem.inventory.row[a] = "present"
                      /\ mem.seen[a] = mem.inventory.pin[a]
    BY DEF PackageWhole
  <2>1. InventoryPassed(mem) /\ result.action = Choice(mem.status)
    BY DEF Verified, Passed
  <2>2. Choice(mem.status) \notin ClosureActions /\ Choice(mem.status) # "repair_gate_first"
    BY <2>1 DEF Selected
  <2>3. mem.status.package = "complete"
    BY <2>2 DEF Choice, ClosureActions
  <2> QED BY <2>1, <2>3, WholePackage DEF InventoryPassed
<1> QED BY <1>1, VerifiedHolds, PTL

\* While an artifact is missing, the selected work item is one that its producer
\* needs, however long the plan and its chains of dependencies are.
THEOREM LeadsToMissingHolds == Spec => []LeadsToMissing
<1>1. Verified => LeadsToMissing
  <2> DEFINE missing == Keep(Artifacts, {a \in Kinds : mem.inventory.row[a] = "missing"})
  <2> SUFFICES ASSUME Verified, Selected, missing # <<>>
               PROVE  result.task \in Needs(mem.plan, Producer[missing[1]])
    BY DEF LeadsToMissing
  <2>1. PlanPassed(mem) /\ result.task = mem.status.task
    BY DEF Verified, Passed
  <2>2. Producer[missing[1]] \in Walk(mem.plan, {mem.status.task})
    BY <2>1 DEF PlanPassed, LinksHold
  <2>3. mem.status.task \in Tasks
    BY <2>1 DEF PlanPassed, CurrentHolds, Selectable
  <2> HIDE DEF missing
  <2> QED BY <2>1, <2>2, <2>3, LeadsTo DEF PlanPassed
<1> QED BY <1>1, VerifiedHolds, PTL

-----------------------------------------------------------------------------
(* A control plane that nobody touches.                                    *)

\* No file has been written since the closeout.
Untouched == edits.writes = 0 /\ edits.slips = 0

Counted ==
  /\ edits = [plane |-> edits.plane, writes |-> edits.writes, slips |-> edits.slips]
  /\ edits.plane \in DOMAIN Planes /\ edits.writes \in Nat /\ edits.slips \in Nat

\* The files are those of the closeout x.
AsLeft(x) ==
  /\ status = x.status /\ inventory = x.inventory /\ files = x.files
  /\ plan = x.plan /\ tree = x.tree /\ policy = "reviewed"

Judging == {"status", "candidate", "inventory", "archives", "artifacts", "lineage", "plan",
            "components", "attest"}
Labels == Judging \cup {"start", "reload", "decide", "done"}

\* What the selector has read is what the closeout x left, and no check of it
\* has failed (but for a standalone verdict that is not the claimed one).
Followed(x) ==
  /\ pc \in Labels
  /\ pc # "start" => mem.policy = "reviewed"
  /\ pc \in Labels \ {"start", "status", "done"} => mem.status = x.status
  /\ pc \in {"archives", "artifacts", "lineage", "plan", "components", "attest"} =>
       mem.inventory = x.inventory
  /\ pc \in Judging \cup {"start"} => \A a \in DOMAIN mem.seen : mem.seen[a] = x.files[a]
  /\ pc \in {"components", "attest"} => mem.plan = x.plan
  /\ pc \in {"inventory", "archives", "artifacts"} => mem.sound
  /\ pc \in Judging \cup {"start"} => mem.attested = "none"
  /\ mem.standalone = x.status.eligible =>
       /\ pc \in {"lineage", "plan", "components", "attest"} => mem.sound
       /\ mem.attested # "rejected"
       /\ pc \in {"reload", "decide"} => mem.attested = "reviewed"
       /\ (pc = "done" /\ mem.attested # "none") =>
            result = [action |-> x.status.action, task |-> x.status.task]

Undisturbed ==
  /\ IsMem(mem) /\ Counted
  /\ Untouched => /\ AsLeft(Planes[edits.plane])
                  /\ Planes[edits.plane].closed => Followed(Planes[edits.plane])

\* Only the artifacts of the files are held against the inventory.
LEMMA SeenAsLeft ==
  ASSUME NEW s, NEW inv, NEW f, NEW g, NEW standalone,
         InventoryHolds(s, inv, f, standalone), \A a \in Kinds : g[a] = f[a]
  PROVE  InventoryHolds(s, inv, g, standalone)
<1>1. \A a \in Kinds : RowHolds(inv, f, a) => RowHolds(inv, g, a)
  BY DEF RowHolds
<1> QED BY <1>1 DEF InventoryHolds

\* A step of the selector on a sound closeout that nobody touches.
LEMMA FollowStep ==
  ASSUME NEW x, SoundPlane(x), AsLeft(x), IsMem(mem), Followed(x), Select
  PROVE  IsMem(mem') /\ Followed(x)'
<1> USE DEF Labels, Judging
<1>1. CASE LoadPolicy
  <2>1. DocsHold(Docs, files)
    BY DEF SoundPlane, PolicyHolds, AsLeft
  <2>2. pc = "start" /\ pc' = "status" /\ mem' = [mem EXCEPT !.policy = "reviewed"]
    BY <1>1, <2>1 DEF LoadPolicy, Read, AsLeft
  <2> QED BY <2>2 DEF IsMem, Followed
<1>2. CASE ReadStatus
  <2>1. pc = "status" /\ pc' = "candidate" /\ mem' = [mem EXCEPT !.status = x.status]
    BY <1>2 DEF ReadStatus, Read, AsLeft
  <2> QED BY <2>1 DEF IsMem, Followed
<1>3. CASE CheckCandidate
  <2>1. CandidateHolds(mem.status, files) /\ SuccessorHolds(mem.status, files)
    BY <1>3 DEF CheckCandidate, SoundPlane, AsLeft, Followed
  <2>2. pc = "candidate" /\ pc' = "inventory" /\ mem' = [mem EXCEPT !.sound = TRUE]
    BY <1>3, <2>1 DEF CheckCandidate, Read
  <2> QED BY <2>2 DEF IsMem, Followed
<1>4. CASE ReadInventory
  <2>1. pc = "inventory" /\ pc' = "archives" /\ mem' = [mem EXCEPT !.inventory = x.inventory]
    BY <1>4 DEF ReadInventory, Read, AsLeft
  <2> QED BY <2>1 DEF IsMem, Followed
<1>5. CASE CheckArchives \/ ReadArtifact \/ CheckPackage \/ CheckLineage
  <2>1. mem.status = x.status /\ mem.inventory = x.inventory
    BY <1>5 DEF CheckArchives, ReadArtifact, CheckPackage, CheckLineage, Followed
  <2>2. CASE CheckArchives
    <3>1. ArchivesKept(files)
      BY DEF SoundPlane, AsLeft
    <3>2. pc = "archives" /\ pc' = "artifacts" /\ mem' = [mem EXCEPT !.sound = TRUE]
      BY <2>2, <3>1 DEF CheckArchives, Read, Followed
    <3> QED BY <2>1, <3>2 DEF IsMem, Followed
  <2>3. CASE ReadArtifact
    <3> DEFINE seen == [a \in DOMAIN mem.seen \cup {Unread[1]} |->
                         IF a \in DOMAIN mem.seen THEN mem.seen[a] ELSE files[a]]
    <3>1. \A a \in DOMAIN seen :
            seen[a] = files[a] \/ (a \in DOMAIN mem.seen /\ seen[a] = mem.seen[a])
      OBVIOUS
    <3>2. pc = "artifacts" /\ pc' = "artifacts" /\ mem' = [mem EXCEPT !.seen = seen]
      BY <2>3 DEF ReadArtifact, Read
    <3> HIDE DEF seen
    <3>3. \A a \in DOMAIN seen : seen[a] = x.files[a]
      BY <3>1, <3>2 DEF Followed, AsLeft
    <3> QED BY <3>2, <3>3 DEF IsMem, Followed
  <2>4. CASE CheckPackage
    <3>1. PICK pass \in BOOLEAN :
            mem' = [mem EXCEPT !.standalone = pass,
                               !.sound = @ /\ InventoryHolds(mem.status, mem.inventory,
                                                             mem.seen, pass)]
      BY <2>4 DEF CheckPackage, Read
    <3>2. pc = "artifacts" /\ pc' = "lineage" /\ Unread = <<>> /\ mem.sound
      BY <2>4 DEF CheckPackage, Read, Followed
    <3>3. \A a \in Kinds : mem.seen[a] = x.files[a]
      BY <3>2, EmptyKeep DEF Unread, Followed
    <3>4. InventoryHolds(x.status, x.inventory, mem.seen, x.status.eligible)
      BY <3>3, SeenAsLeft DEF SoundPlane
    <3>5. /\ mem'.standalone = pass /\ IsMem(mem')
          /\ pass = x.status.eligible => mem'.sound
      BY <2>1, <3>1, <3>2, <3>4 DEF IsMem
    <3>6. /\ mem'.policy = mem.policy /\ mem'.status = mem.status /\ mem'.seen = mem.seen
          /\ mem'.inventory = mem.inventory /\ mem'.attested = mem.attested
      BY <3>1 DEF IsMem
    <3> QED BY <2>1, <3>2, <3>5, <3>6 DEF Followed
  <2>5. CASE CheckLineage
    <3>1. LineageHolds(mem.inventory, files)
      BY <2>1 DEF SoundPlane, AsLeft
    <3>2. /\ pc = "lineage" /\ pc' = "plan" /\ IsMem(mem')
          /\ mem'.sound <=> mem.sound
          /\ mem'.standalone = mem.standalone /\ mem'.seen = mem.seen
          /\ mem'.policy = mem.policy /\ mem'.status = mem.status
          /\ mem'.inventory = mem.inventory /\ mem'.attested = mem.attested
      BY <2>5, <3>1 DEF CheckLineage, Read, IsMem
    <3> QED BY <2>1, <3>2 DEF Followed
  <2> QED BY <1>5, <2>2, <2>3, <2>4, <2>5
<1>6. CASE ReadPlan
  <2>1. pc = "plan" /\ mem.status = x.status /\ mem.inventory = x.inventory
    BY <1>6 DEF ReadPlan, Followed
  <2>2. /\ HeaderHolds(plan) /\ ItemsHold(mem.status, plan)
        /\ OptimizationHolds(mem.status, plan) /\ GraphHolds(plan)
        /\ CurrentHolds(mem.status, plan) /\ ProjectionsHold(plan)
        /\ SourcesHold(plan, tree) /\ LinksHold(mem.status, mem.inventory, plan)
    BY <2>1 DEF SoundPlane, AsLeft
  <2>3. /\ pc' = "components" /\ IsMem(mem')
        /\ mem'.sound <=> mem.sound
        /\ mem'.plan = plan /\ mem'.standalone = mem.standalone /\ mem'.seen = mem.seen
        /\ mem'.policy = mem.policy /\ mem'.status = mem.status
        /\ mem'.inventory = mem.inventory /\ mem'.attested = mem.attested
    BY <1>6, <2>2 DEF ReadPlan, Read, IsMem
  <2> QED BY <2>1, <2>3 DEF Followed, AsLeft
<1>7. CASE RunComponents
  <2>1. /\ pc = "components" /\ mem.status = x.status /\ mem.inventory = x.inventory
        /\ mem.plan = x.plan
    BY <1>7 DEF RunComponents, Followed
  <2>2. ComponentsHold(mem.inventory, mem.plan, files)
    BY <2>1 DEF SoundPlane, AsLeft
  <2>3. /\ pc' = "attest" /\ IsMem(mem')
        /\ mem'.sound <=> mem.sound
        /\ mem'.plan = mem.plan /\ mem'.standalone = mem.standalone /\ mem'.seen = mem.seen
        /\ mem'.policy = mem.policy /\ mem'.status = mem.status
        /\ mem'.inventory = mem.inventory /\ mem'.attested = mem.attested
    BY <1>7, <2>2 DEF RunComponents, Read, IsMem
  <2> QED BY <2>1, <2>3 DEF Followed
<1>8. CASE Attest
  <2>1. pc = "attest" /\ mem.status = x.status
    BY <1>8 DEF Attest, Followed
  <2>2. /\ PolicyHolds(mem.status, policy, files) /\ StagesHold(mem.status, tree, files)
        /\ RefsHold(mem.status, files)
    BY <2>1 DEF SoundPlane, AsLeft
  <2>3. CASE mem.sound
    <3>1. pc' = "reload" /\ mem' = [mem EXCEPT !.attested = "reviewed"]
      BY <1>8, <2>2, <2>3 DEF Attest, Read, AsLeft
    <3> QED BY <2>1, <3>1 DEF Followed, IsMem
  <2>4. CASE ~mem.sound
    <3>1. pc' = "done" /\ mem' = [mem EXCEPT !.attested = "rejected", !.sound = FALSE]
      BY <1>8, <2>2, <2>4 DEF Attest, Answer
    <3>2. mem.standalone # x.status.eligible
      BY <2>1, <2>4 DEF Followed
    <3> QED BY <2>1, <3>1, <3>2 DEF Followed, IsMem
  <2> QED BY <2>3, <2>4
<1>9. CASE ReloadPolicy
  <2>1. pc = "reload" /\ mem' = mem
    BY <1>9 DEF ReloadPolicy, Read
  <2>2. CASE mem.attested = "reviewed"
    <3>1. pc' = "decide"
      BY <1>9, <2>1, <2>2 DEF ReloadPolicy, Read, Followed, AsLeft
    <3> QED BY <2>1, <2>2, <3>1 DEF Followed
  <2>3. CASE mem.attested # "reviewed"
    <3>1. mem.standalone # x.status.eligible /\ pc' \in {"decide", "done"}
      BY <1>9, <2>1, <2>3 DEF ReloadPolicy, Read, Answer, Followed
    <3> QED BY <2>1, <3>1 DEF Followed
  <2> QED BY <2>2, <2>3
<1>10. CASE Decide
  <2>1. pc = "decide" /\ pc' = "done" /\ mem' = mem /\ mem.status = x.status
    BY <1>10 DEF Decide, Answer, Followed
  <2>2. status = mem.status /\ Choice(status) = x.status.action
        /\ Choice(status) # "repair_gate_first"
    BY <2>1 DEF SoundPlane, AsLeft
  <2>3. result' = [action |-> x.status.action, task |-> x.status.task]
    BY <1>10, <2>1, <2>2 DEF Decide, Answer
  <2> QED BY <2>1, <2>3 DEF Followed
<1>11. CASE VerifierFails
  <2>1. pc \in Judging /\ pc' = "done" /\ mem' = mem
    BY <1>11 DEF VerifierFails, Answer
  <2>2. mem.attested = "none" /\ mem.policy = "reviewed"
    BY <2>1 DEF Followed
  <2> QED BY <2>1, <2>2 DEF Followed
<1> QED BY <1>1, <1>2, <1>3, <1>4, <1>5, <1>6, <1>7, <1>8, <1>9, <1>10, <1>11 DEF Select

\* Writers count: once they have written, Untouched is false for good.
LEMMA UndisturbedStep ==
  ASSUME PlanesSound, Undisturbed, [Next]_vars  PROVE  Undisturbed'
<1>1. CASE Select
  <2>1. UNCHANGED <<disk, edits>>
    BY <1>1 DEF Select, LoadPolicy, ReadStatus, CheckCandidate, ReadInventory, CheckArchives,
                ReadArtifact, CheckPackage, CheckLineage, ReadPlan,
                RunComponents, Attest, ReloadPolicy, Decide, VerifierFails, Observe
  <2>2. IsMem(mem')
    BY <1>1 DEF Undisturbed, IsMem, Select, LoadPolicy, ReadStatus, CheckCandidate,
                ReadInventory, CheckArchives, ReadArtifact, CheckPackage, CheckLineage, ReadPlan,
                RunComponents, Attest, ReloadPolicy, Decide, VerifierFails, Read, Answer
  <2>3. Counted' /\ (Untouched' <=> Untouched)
    BY <2>1 DEF Undisturbed, Counted, Untouched
  <2>4. PICK k \in DOMAIN Planes : edits.plane = k /\ edits'.plane = k
    BY <2>1 DEF Undisturbed, Counted
  <2> DEFINE x == Planes[k]
  <2>5. Untouched => AsLeft(x) /\ AsLeft(x)'
    BY <2>1, <2>4 DEF Undisturbed, AsLeft, disk
  <2>6. ASSUME Untouched, x.closed  PROVE  Followed(x)'
    <3>1. SoundPlane(x) /\ AsLeft(x) /\ IsMem(mem) /\ Followed(x)
      BY <2>4, <2>6 DEF Undisturbed, PlanesSound
    <3> HIDE DEF x
    <3> QED BY <1>1, <3>1, FollowStep
  <2>7. Untouched' => AsLeft(Planes[edits.plane])'
    BY <2>3, <2>4, <2>5 DEF AsLeft
  <2>8. Untouched' /\ Planes[edits'.plane].closed => Followed(Planes[edits.plane])'
    BY <2>3, <2>4, <2>6 DEF Followed
  <2> QED BY <2>2, <2>3, <2>7, <2>8 DEF Undisturbed
<1>2. CASE Rewrite \/ Slip
  <2>1. mem' = mem /\ IsMem(mem)
    BY <1>2 DEF Rewrite, Slip, Undisturbed
  <2>2. Counted' /\ ~Untouched'
    BY <1>2 DEF Rewrite, Slip, Undisturbed, Counted, Untouched
  <2> QED BY <2>1, <2>2 DEF Undisturbed, IsMem
<1>3. CASE UNCHANGED vars
  BY <1>3 DEF vars, disk, Undisturbed, IsMem, Counted, Untouched, AsLeft, Followed
<1> QED BY <1>1, <1>2, <1>3 DEF Next

LEMMA InitUndisturbed == Init => Undisturbed
<1> SUFFICES ASSUME Init PROVE Undisturbed
  OBVIOUS
<1>1. PICK k \in DOMAIN Planes :
        /\ status = Planes[k].status /\ inventory = Planes[k].inventory
        /\ files = Planes[k].files /\ plan = Planes[k].plan
        /\ tree = Planes[k].tree /\ policy = "reviewed"
        /\ pc = "start" /\ mem = Nothing /\ result = NoResult
        /\ edits = [plane |-> k, writes |-> 0, slips |-> 0]
  BY DEF Init
<1>2. IsMem(mem) /\ Counted /\ AsLeft(Planes[edits.plane])
  BY <1>1 DEF IsMem, Nothing, Counted, AsLeft
<1>3. Followed(Planes[edits.plane])
  BY <1>1 DEF Followed, Nothing, Labels, Judging
<1> QED BY <1>2, <1>3 DEF Undisturbed

\* Where the closeouts pass every check when their files are looked at all at
\* once, select-next-work.py answers each that nobody touches with its own work:
\* reading the files one after the other refuses nothing.
THEOREM PlaneSelectsHolds == ASSUME PlanesSound PROVE Spec => []PlaneSelects
<1>1. Undisturbed => PlaneSelects
  BY DEF Undisturbed, PlaneSelects, Untouched, Followed, Labels, Judging
<1>2. Undisturbed /\ [Next]_vars => Undisturbed'
  BY UndisturbedStep
<1> QED BY <1>1, <1>2, InitUndisturbed, PTL DEF Spec
=============================================================================
