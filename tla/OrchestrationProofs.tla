------------------------ MODULE OrchestrationProofs ------------------------
(***************************************************************************)
(* Proofs about Orchestration, for any manifest, number of tasks, profiles *)
(* and slots, and any outside runs, raised calls and kills.                *)
(*                                                                         *)
(* First the decision engine: the waves that _build_waves makes are sound  *)
(* (WavesSound), by induction over its groups, its layers and the turns of *)
(* its loop.  Then the batch that runs them: a plan is empty or sound      *)
(* (PlanFits), and with what the phases, the runners and the waves say of  *)
(* each other that is an inductive invariant (IInv) from which the         *)
(* properties follow.  Last, that tasks are run once and batches end.      *)
(***************************************************************************)
EXTENDS Orchestration, ListProofs, FiniteSetTheorems, TLAPS

LEMMA TasksFinite == IsFiniteSet(Tasks)
<1>1. Ids \in [DOMAIN Ids -> Tasks] /\ DOMAIN Ids = 1..Len(Ids) /\ Len(Ids) \in Nat
  BY OrchestrationAssumption DEF Tasks, ToSet
<1>2. Ids \in Surjection(DOMAIN Ids, Tasks)
  BY <1>1 DEF Surjection, Tasks, ToSet
<1>3. IsFiniteSet(DOMAIN Ids)
  BY <1>1, FS_Interval
<1> QED BY <1>2, <1>3, FS_Surjection

-----------------------------------------------------------------------------
(* The waves: what the decision engine builds.                             *)

\* The tasks of a list of waves.
Placed(waves) == UNION {ToSet(waves[k]) : k \in DOMAIN waves}

\* A wave: within the budget, without conflicts, and for each of its tasks no
\* more tasks of its profile than the profile had free slots.
WaveFits(w) ==
  /\ w \in Seq(Tasks) /\ w # <<>>
  /\ Len(w) <= manifest.concurrent
  /\ \A i, j \in DOMAIN w : i # j => ~Conflict(w[i], w[j])
  /\ \A i \in DOMAIN w : SameProfile(w, w[i]) <= AvailableSlots(Profile(w[i]))

Once(waves) ==
  \A k, l \in DOMAIN waves : \A i \in DOMAIN waves[k], j \in DOMAIN waves[l] :
    waves[k][i] = waves[l][j] => k = l /\ i = j

Ordered(waves) ==
  \A k \in DOMAIN waves : \A t \in ToSet(waves[k]) : \A d \in Task(t).deps :
    \E l \in DOMAIN waves : l < k /\ d \in ToSet(waves[l])

\* What the engine knows when it builds the waves.
Decided == manifest \in ManifestType /\ snapshot \in [Profiles -> Nat] /\ GuardedReady

LEMMA DecidedFacts ==
  ASSUME Decided, NEW t \in Tasks
  PROVE  /\ Profile(t) \in Profiles /\ Task(t).deps \subseteq Tasks
         /\ AvailableSlots(Profile(t)) \in Nat /\ AvailableSlots(Profile(t)) >= 1
         /\ manifest.concurrent \in Nat /\ manifest.concurrent >= 1
         /\ Remaining[Len(Ids)] = {}
<1>1. /\ manifest.tasks[t] \in TaskType /\ manifest.concurrent \in 0..3 /\ manifest.total \in 0..6
      /\ manifest.concurrent = 0 => manifest.total = 0
  BY DEF Decided, ManifestType
<1>2. Profile(t) \in Profiles /\ Task(t).deps \subseteq Tasks \cup {"unknown"}
  BY <1>1 DEF Profile, Task, TaskType
<1>3. "unknown" \notin Task(t).deps /\ Remaining[Len(Ids)] = {}
  BY DEF Decided, GuardedReady, DependencyIssues
<1>4. AvailableSlots(Profile(t)) # 0
  BY DEF Decided, GuardedReady, RouteBlocked
<1>5. snapshot[Profile(t)] \in Nat /\ MaxSlots[Profile(t)] \in Nat
  BY <1>2, OrchestrationAssumption DEF Decided
<1>6. AvailableSlots(Profile(t)) \in Nat
  BY <1>5 DEF AvailableSlots
<1>7. Cardinality(Tasks) \in Nat /\ Cardinality(Tasks) # 0
  BY TasksFinite, FS_CardinalityType, FS_EmptySet
<1>8. manifest.total >= 1
  BY <1>1, <1>7 DEF Decided, GuardedReady
<1> QED BY <1>1, <1>2, <1>3, <1>4, <1>6, <1>8

LEMMA ConflictSymmetric ==
  ASSUME NEW s, NEW t, Conflict(s, t)  PROVE  Conflict(t, s)
  BY DEF Conflict, Meet

\* What is left after n layers.
LEMMA RemainingDef ==
  /\ Remaining \in [Nat -> SUBSET Tasks] /\ Remaining[0] = Tasks
  /\ \A n \in Nat : Remaining[n + 1] = Remaining[n] \ Ready(Remaining[n])
<1> DEFINE S == SUBSET Tasks
           F == [x \in Nat \X S |-> x[2] \ Ready(x[2])]
<1>1. F \in Steps(S, Nat)
  BY DEF Steps
<1>2. \A n \in Nat, r \in S : F[<<n, r>>] = r \ Ready(r)
  OBVIOUS
<1>3. Tasks \in S
  OBVIOUS
<1> HIDE DEF F
<1>4. Recursion(S, Tasks, F) # {}
  <2> HIDE DEF S
  <2> QED BY <1>1, <1>3, RecursionExists
<1>5. PICK f \in [Nat -> S] :
        f[0] = Tasks /\ \A n \in Nat : f[n + 1] = F[<<n + 1, f[n]>>]
  BY <1>4 DEF Recursion
<1>6. ASSUME NEW n \in Nat
      PROVE  f[n] = IF n = 0 THEN Tasks ELSE f[n - 1] \ Ready(f[n - 1])
  <2>1. CASE n = 0
    BY <1>5, <2>1
  <2>2. CASE n # 0
    <3>1. n - 1 \in Nat /\ (n - 1) + 1 = n
      BY <2>2
    <3>2. f[n] = F[<<n, f[n - 1]>>] /\ f[n - 1] \in S
      BY <1>5, <3>1
    <3> QED BY <1>2, <2>2, <3>2
  <2> QED BY <2>1, <2>2
<1>7. f = [n \in Nat |-> IF n = 0 THEN Tasks ELSE f[n - 1] \ Ready(f[n - 1])]
  BY <1>5, <1>6
<1>8. Remaining = [n \in Nat |-> IF n = 0 THEN Tasks
                                 ELSE Remaining[n - 1] \ Ready(Remaining[n - 1])]
  BY <1>7 DEF Remaining
<1>9. Remaining[0] = Tasks
  BY <1>8
<1>10. ASSUME NEW n \in Nat
       PROVE  Remaining[n + 1] = Remaining[n] \ Ready(Remaining[n])
  <2>1. n + 1 \in Nat /\ n + 1 # 0 /\ (n + 1) - 1 = n
    OBVIOUS
  <2> QED BY <1>8, <2>1
<1>11. Nat \subseteq {n \in Nat : Remaining[n] \in SUBSET Tasks}
  <2> DEFINE N == {n \in Nat : Remaining[n] \in SUBSET Tasks}
  <2>1. 0 \in N /\ \A n \in Nat : n \in N => n + 1 \in N
    BY <1>9, <1>10
  <2> HIDE DEF N
  <2>2. Nat \subseteq N
    BY <2>1, SetInduction
  <2> QED BY <2>2 DEF N
<1>12. Remaining \in [Nat -> SUBSET Tasks]
  BY <1>8, <1>11
<1> QED BY <1>9, <1>10, <1>12

LEMMA NothingRemains ==
  ASSUME Remaining[Len(Ids)] = {}, NEW n \in Nat, n >= Len(Ids)
  PROVE  Remaining[n] = {}
<1> DEFINE S == {m \in Nat : m >= Len(Ids) => Remaining[m] = {}}
<1>0. Len(Ids) \in Nat
  BY OrchestrationAssumption
<1>1. 0 \in S
  BY <1>0
<1>2. ASSUME NEW m \in Nat, m \in S  PROVE  m + 1 \in S
  <2>1. m + 1 >= Len(Ids) => m >= Len(Ids) \/ m + 1 = Len(Ids)
    BY <1>0
  <2>2. Remaining[m + 1] = Remaining[m] \ Ready(Remaining[m])
    BY RemainingDef
  <2> QED BY <1>2, <2>1, <2>2
<1> HIDE DEF S
<1>3. Nat \subseteq S
  BY <1>1, <1>2, SetInduction
<1> QED BY <1>3 DEF S

\* Tasks of which each waits for another of them: a cycle, and what hangs on it.
Circle(C) == C # {} /\ \A t \in C : Task(t).deps \cap C # {}

\* No layer holds a task of a circle.
LEMMA CircleRemains ==
  ASSUME NEW C \in SUBSET Tasks, Circle(C), NEW n \in Nat
  PROVE  C \subseteq Remaining[n]
<1> DEFINE S == {m \in Nat : C \subseteq Remaining[m]}
<1>1. 0 \in S
  BY RemainingDef
<1>2. ASSUME NEW m \in Nat, m \in S  PROVE  m + 1 \in S
  <2>1. Remaining[m + 1] = Remaining[m] \ Ready(Remaining[m])
    BY RemainingDef
  <2>2. C \cap Ready(Remaining[m]) = {}
    BY <1>2 DEF Circle, Ready
  <2> QED BY <1>2, <2>1, <2>2
<1> HIDE DEF S
<1>3. Nat \subseteq S
  BY <1>1, <1>2, SetInduction
<1> QED BY <1>3 DEF S

\* Without a circle each layer takes a task: no task is left after as many
\* layers as there are tasks.
LEMMA LayersSuffice ==
  ASSUME \A C \in SUBSET Tasks : ~Circle(C)
  PROVE  Remaining[Len(Ids)] = {}
<1> DEFINE N == Len(Ids)
           S == {n \in 0..N : Cardinality(Remaining[n]) <= N - n}
<1>1. N \in Nat /\ IsFiniteSet(1..N) /\ Cardinality(1..N) = N
  <2>1. N \in Nat
    BY OrchestrationAssumption
  <2> HIDE DEF N
  <2>2. IsFiniteSet(1..N) /\ Cardinality(1..N) = IF 1 > N THEN 0 ELSE N - 1 + 1
    BY <2>1, FS_Interval
  <2> QED BY <2>1, <2>2
<1>2. Cardinality(Tasks) <= N
  <2>1. Ids \in Surjection(1..N, Tasks)
    BY OrchestrationAssumption DEF Surjection, Tasks, ToSet
  <2> HIDE DEF N
  <2> QED BY <1>1, <2>1, FS_Surjection
<1>3. \A n \in Nat : /\ Remaining[n] \in SUBSET Tasks
                     /\ IsFiniteSet(Remaining[n]) /\ Cardinality(Remaining[n]) \in Nat
  BY RemainingDef, TasksFinite, FS_Subset, FS_CardinalityType
<1> HIDE DEF N
<1>4. 0 \in S
  BY <1>1, <1>2, RemainingDef
<1>5. ASSUME NEW n \in 0..N, n < N, n \in S  PROVE  n + 1 \in S
  <2>1. n \in Nat /\ n + 1 \in Nat /\ n + 1 \in 0..N
    BY <1>1, <1>5
  <2>2. Remaining[n + 1] = Remaining[n] \ Ready(Remaining[n])
    BY <2>1, RemainingDef
  <2>3. CASE Remaining[n] = {}
    <3>1. Cardinality(Remaining[n + 1]) = 0
      BY <2>2, <2>3, FS_EmptySet
    <3> QED BY <1>1, <1>5, <2>1, <3>1
  <2>4. CASE Remaining[n] # {}
    <3>1. ~Circle(Remaining[n])
      BY <1>3, <2>1
    <3>2. PICK t \in Remaining[n] : Task(t).deps \cap Remaining[n] = {}
      BY <2>4, <3>1 DEF Circle
    <3>3. Remaining[n + 1] \subseteq Remaining[n] \ {t}
      BY <2>2, <3>2 DEF Ready
    <3>4. IsFiniteSet(Remaining[n] \ {t})
          /\ Cardinality(Remaining[n] \ {t}) = Cardinality(Remaining[n]) - 1
      BY <1>3, <2>1, FS_RemoveElement
    <3>5. Cardinality(Remaining[n + 1]) <= Cardinality(Remaining[n]) - 1
      BY <3>3, <3>4, FS_Subset
    <3>6. Cardinality(Remaining[n]) <= N - n
      BY <1>5
    <3> QED BY <1>1, <1>3, <2>1, <3>5, <3>6
  <2> QED BY <2>3, <2>4
<1> HIDE DEF S
<1>6. 0..N \subseteq S
  BY <1>1, <1>4, <1>5, SetInductionUpTo
<1>7. N \in S
  BY <1>1, <1>6
<1>8. Cardinality(Remaining[N]) <= 0
  BY <1>1, <1>7 DEF S
<1>9. Cardinality(Remaining[N]) = 0
  BY <1>1, <1>3, <1>8
<1> QED BY <1>1, <1>3, <1>9, FS_EmptySet DEF N

\* The decision engine blocks a manifest for its dependencies exactly when one
\* of them is unknown or some of the tasks wait for each other in a circle.
THEOREM DependencyIssuesExact ==
  DependencyIssues <=>
    \/ \E t \in Tasks : "unknown" \in Task(t).deps
    \/ \E C \in SUBSET Tasks : Circle(C)
<1>1. ASSUME NEW C \in SUBSET Tasks, Circle(C)  PROVE  Remaining[Len(Ids)] # {}
  <2>1. Len(Ids) \in Nat
    BY OrchestrationAssumption
  <2> QED BY <1>1, <2>1, CircleRemains DEF Circle
<1>2. (\A C \in SUBSET Tasks : ~Circle(C)) => Remaining[Len(Ids)] = {}
  BY LayersSuffice
<1> QED BY <1>1, <1>2 DEF DependencyIssues

-----------------------------------------------------------------------------
(* A wave: the tasks that join its first one.                              *)

LEMMA CountType ==
  ASSUME NEW g \in Seq(Tasks), NEW u
  PROVE  SameProfile(g, u) \in Nat
<1> DEFINE I == {i \in DOMAIN g : Profile(g[i]) = Profile(u)}
<1>1. DOMAIN g = 1..Len(g) /\ Len(g) \in Nat
  OBVIOUS
<1>2. IsFiniteSet(DOMAIN g) /\ I \in SUBSET (DOMAIN g)
  BY <1>1, FS_Interval
<1> HIDE DEF I
<1>3. IsFiniteSet(I)
  BY <1>2, FS_Subset
<1> QED BY <1>3, FS_CardinalityType DEF I, SameProfile

LEMMA CountAppend ==
  ASSUME NEW g \in Seq(Tasks), NEW t \in Tasks, NEW u
  PROVE  SameProfile(Append(g, t), u) =
           IF Profile(t) = Profile(u) THEN SameProfile(g, u) + 1 ELSE SameProfile(g, u)
<1> DEFINE h == Append(g, t)
           n == Len(g)
           I == {i \in DOMAIN g : Profile(g[i]) = Profile(u)}
           J == {i \in DOMAIN h : Profile(h[i]) = Profile(u)}
<1>1. /\ n \in Nat /\ DOMAIN g = 1..n /\ DOMAIN h = 1..(n + 1)
      /\ h[n + 1] = t /\ \A i \in 1..n : h[i] = g[i]
  OBVIOUS
<1>2. IsFiniteSet(DOMAIN g) /\ I \in SUBSET (DOMAIN g) /\ n + 1 \notin I
  <2> HIDE DEF n, h
  <2>1. IsFiniteSet(1..n) /\ n + 1 \notin 1..n
    BY <1>1, FS_Interval
  <2> QED BY <1>1, <2>1
<1>3. J = IF Profile(t) = Profile(u) THEN I \cup {n + 1} ELSE I
  <2> HIDE DEF h, n
  <2>1. \A i \in 1..(n + 1) : i \in 1..n \/ i = n + 1
    BY <1>1
  <2>2. 1..n \subseteq 1..(n + 1) /\ n + 1 \in 1..(n + 1) /\ n + 1 \notin 1..n
    BY <1>1
  <2> QED BY <1>1, <2>1, <2>2
<1>4. SameProfile(g, u) = Cardinality(I) /\ SameProfile(h, u) = Cardinality(J)
  BY DEF SameProfile
<1> HIDE DEF I, J, h, n
<1>5. IsFiniteSet(I)
  BY <1>2, FS_Subset
<1>6. Cardinality(I \cup {n + 1}) = Cardinality(I) + 1
  BY <1>2, <1>5, FS_AddElement
<1> QED BY <1>3, <1>4, <1>6 DEF h

\* One task is a wave.
LEMMA SingleFits ==
  ASSUME Decided, NEW t \in Tasks
  PROVE  WaveFits(<<t>>) /\ Distinct(<<t>>) /\ ToSet(<<t>>) = {t}
<1>1. /\ <<t>> \in Seq(Tasks) /\ Len(<<t>>) = 1 /\ DOMAIN <<t>> = {1} /\ <<t>>[1] = t
      /\ <<t>> # <<>>
  OBVIOUS
<1>2. SameProfile(<<t>>, t) = 1
  <2>1. {i \in DOMAIN <<t>> : Profile(<<t>>[i]) = Profile(t)} = {1}
    BY <1>1
  <2> QED BY <2>1, FS_Singleton DEF SameProfile
<1>3. WaveFits(<<t>>)
  <2>1. Len(<<t>>) <= manifest.concurrent
    BY <1>1, DecidedFacts
  <2>2. \A i \in DOMAIN <<t>> :
          SameProfile(<<t>>, <<t>>[i]) <= AvailableSlots(Profile(<<t>>[i]))
    <3>1. SameProfile(<<t>>, t) <= AvailableSlots(Profile(t))
      BY <1>2, DecidedFacts
    <3> QED BY <1>1, <3>1
  <2> QED BY <1>1, <2>1, <2>2 DEF WaveFits
<1> QED BY <1>1, <1>3 DEF Distinct, ToSet

\* A task that joins a wave leaves a wave.
LEMMA JoinFits ==
  ASSUME Decided, NEW g, WaveFits(g), Distinct(g), NEW t \in Tasks, t \notin ToSet(g),
         NEW delegated, Joins(g, delegated, t)
  PROVE  WaveFits(Append(g, t)) /\ Distinct(Append(g, t))
         /\ ToSet(Append(g, t)) = ToSet(g) \cup {t}
<1> DEFINE h == Append(g, t)
           n == Len(g)
<1>0. g \in Seq(Tasks) /\ n \in Nat
  BY DEF WaveFits
<1>1. /\ h \in Seq(Tasks) /\ h # <<>> /\ Len(h) = n + 1 /\ DOMAIN g = 1..n
      /\ DOMAIN h = 1..(n + 1) /\ h[n + 1] = t /\ \A i \in 1..n : h[i] = g[i]
  BY <1>0
<1>2. Distinct(h) /\ ToSet(h) = ToSet(g) \cup {t}
  BY <1>0, AppendMembers
<1>3. Len(h) <= manifest.concurrent
  BY <1>0, <1>1, DecidedFacts DEF Joins
<1>4. \A i \in DOMAIN h : \/ i \in DOMAIN g /\ h[i] = g[i]
                          \/ i = n + 1 /\ h[i] = t
  <2> HIDE DEF h, n
  <2>1. \A i \in 1..(n + 1) : i \in 1..n \/ i = n + 1
    BY <1>0
  <2> QED BY <1>1, <2>1
<1> HIDE DEF h
<1>5. ASSUME NEW i \in DOMAIN h, NEW j \in DOMAIN h, i # j  PROVE  ~Conflict(h[i], h[j])
  <2>1. \A k \in DOMAIN g : ~Conflict(t, g[k]) /\ ~Conflict(g[k], t)
    BY ConflictSymmetric DEF Joins
  <2>2. \A k, l \in DOMAIN g : k # l => ~Conflict(g[k], g[l])
    BY DEF WaveFits
  <2> QED BY <1>4, <1>5, <2>1, <2>2
<1>6. ASSUME NEW i \in DOMAIN h
      PROVE  SameProfile(h, h[i]) <= AvailableSlots(Profile(h[i]))
  <2>1. SameProfile(g, t) < AvailableSlots(Profile(t)) /\ SameProfile(g, t) \in Nat
        /\ AvailableSlots(Profile(t)) \in Nat
    BY <1>0, CountType, DecidedFacts DEF Joins
  <2>2. SameProfile(h, t) <= AvailableSlots(Profile(t))
    <3>1. SameProfile(h, t) = SameProfile(g, t) + 1
      BY <1>0, CountAppend DEF h
    <3> QED BY <2>1, <3>1
  <2>3. CASE i \in DOMAIN g /\ h[i] = g[i]
    <3>1. CASE Profile(t) = Profile(g[i])
      <4>1. SameProfile(h, g[i]) = SameProfile(h, t)
        BY <3>1 DEF SameProfile
      <4> QED BY <2>2, <2>3, <3>1, <4>1
    <3>2. CASE Profile(t) # Profile(g[i])
      <4>1. SameProfile(h, g[i]) = SameProfile(g, g[i])
        BY <1>0, <3>2, CountAppend DEF h
      <4> QED BY <2>3, <4>1 DEF WaveFits
    <3> QED BY <3>1, <3>2
  <2> QED BY <1>4, <2>2, <2>3
<1> QED BY <1>1, <1>2, <1>3, <1>5, <1>6 DEF WaveFits, h

\* The group that _build_waves takes from the candidates is a wave of them.
LEMMA GroupFits ==
  ASSUME Decided, NEW pending \in Seq(Tasks), pending # <<>>, Distinct(pending),
         NEW delegated
  PROVE  /\ WaveFits(Group(pending, delegated)) /\ Distinct(Group(pending, delegated))
         /\ ToSet(Group(pending, delegated)) \subseteq ToSet(pending)
<1> DEFINE first == Head(pending)
           rest == Tail(pending)
           N == Len(rest)
           grown == CHOOSE grown : grown = [n \in 0..Len(rest) |->
                      IF n = 0 THEN <<Head(pending)>>
                      ELSE LET group == grown[n - 1]
                           IN  IF Joins(group, delegated, rest[n])
                               THEN Append(group, rest[n]) ELSE group]
<1>1. /\ first \in Tasks /\ rest \in Seq(Tasks) /\ Distinct(rest) /\ first \in ToSet(pending)
      /\ ToSet(rest) = ToSet(pending) \ {first}
  BY TailMembers
<1>2. CASE ForceSerial \/ ~Eligible(first)
  <2>1. Group(pending, delegated) = <<first>>
    BY <1>2 DEF Group
  <2> HIDE DEF first
  <2> QED BY <1>1, <2>1, SingleFits
<1>3. CASE ~(ForceSerial \/ ~Eligible(first))
  <2>1. Group(pending, delegated) = grown[N]
    BY <1>3 DEF Group
  <2>2. N \in Nat /\ DOMAIN rest = 1..N /\ \A n \in 1..N : rest[n] \in Tasks
    BY <1>1
  <2>3. grown = [n \in 0..N |->
                   IF n = 0 THEN <<first>>
                   ELSE IF Joins(grown[n - 1], delegated, rest[n])
                        THEN Append(grown[n - 1], rest[n]) ELSE grown[n - 1]]
    <3> HIDE DEF first, N
    <3> DEFINE F == [x \in (1..N) \X Seq(Tasks) |->
                       IF Joins(x[2], delegated, rest[x[1]])
                       THEN Append(x[2], rest[x[1]]) ELSE x[2]]
    <3>1. F \in Steps(Seq(Tasks), 1..N)
      BY <2>2 DEF Steps
    <3>2. \A n \in 1..N, s \in Seq(Tasks) :
            F[<<n, s>>] = IF Joins(s, delegated, rest[n]) THEN Append(s, rest[n]) ELSE s
      OBVIOUS
    <3> HIDE DEF F
    <3> DEFINE one == <<first>>
    <3>3. one \in Seq(Tasks)
      BY <1>1
    <3> HIDE DEF one
    <3>4. RecursionTo(Seq(Tasks), one, F, N) # {}
      BY <2>2, <3>1, <3>3, RecursionUpTo
    <3>5. PICK f \in [0..N -> Seq(Tasks)] :
            f[0] = one /\ \A n \in 1..N : f[n] = F[<<n, f[n - 1]>>]
      BY <3>4 DEF RecursionTo
    <3>6. ASSUME NEW n \in 1..N  PROVE  f[n - 1] \in Seq(Tasks)
      <4>1. n - 1 \in 0..N
        BY <2>2
      <4> QED BY <4>1
    <3> USE DEF one
    <3>7. ASSUME NEW n \in 0..N
          PROVE  f[n] = IF n = 0 THEN <<first>>
                        ELSE IF Joins(f[n - 1], delegated, rest[n])
                             THEN Append(f[n - 1], rest[n]) ELSE f[n - 1]
      <4>1. CASE n = 0
        BY <3>5, <4>1
      <4>2. CASE n # 0
        <5>1. n \in 1..N
          BY <2>2, <4>2
        <5> QED BY <3>2, <3>5, <3>6, <4>2, <5>1
      <4> QED BY <4>1, <4>2
    <3>8. f = [n \in 0..N |->
                 IF n = 0 THEN <<first>>
                 ELSE IF Joins(f[n - 1], delegated, rest[n])
                      THEN Append(f[n - 1], rest[n]) ELSE f[n - 1]]
      BY <3>7
    <3> QED BY <3>8 DEF first, N
  <2> HIDE DEF grown
  <2>4. grown[0] = <<first>>
    BY <2>2, <2>3
  <2>5. ASSUME NEW n \in 0..N, n < N
        PROVE  grown[n + 1] = IF Joins(grown[n], delegated, rest[n + 1])
                              THEN Append(grown[n], rest[n + 1]) ELSE grown[n]
    <3>1. n + 1 \in 0..N /\ n + 1 # 0 /\ (n + 1) - 1 = n
      BY <2>2, <2>5
    <3> HIDE DEF N, rest, first
    <3> QED BY <2>3, <3>1
  <2> DEFINE Seen(n) == {first} \cup {rest[i] : i \in 1..n}
             Fine(n) == /\ WaveFits(grown[n]) /\ Distinct(grown[n])
                        /\ ToSet(grown[n]) \subseteq Seen(n)
             S == {n \in 0..N : Fine(n)}
  <2> HIDE DEF first, rest, N, Fine
  <2>6. 0 \in S
    <3>1. 0 \in 0..N
      BY <2>2
    <3>2. Fine(0)
      BY <1>1, <2>4, SingleFits DEF Fine
    <3> QED BY <3>1, <3>2
  <2>7. ASSUME NEW n \in 0..N, n < N, n \in S  PROVE  n + 1 \in S
    <3>0. n + 1 \in 0..N /\ n + 1 \in 1..N /\ rest[n + 1] \in Tasks
      BY <2>2, <2>7
    <3>1. rest[n + 1] \notin Seen(n)
      <4>1. \A i \in 1..n : i \in DOMAIN rest /\ i # n + 1
        BY <2>2, <3>0
      <4>2. rest[n + 1] # first
        BY <1>1, <2>2, <3>0 DEF ToSet
      <4> QED BY <2>2, <3>0, <4>1, <4>2, <1>1 DEF Distinct
    <3>2. Seen(n) \cup {rest[n + 1]} \subseteq Seen(n + 1)
      <4>1. 1..n \subseteq 1..(n + 1) /\ n + 1 \in 1..(n + 1)
        BY <2>2
      <4> QED BY <4>1
    <3> HIDE DEF Seen
    <3>3. WaveFits(grown[n]) /\ Distinct(grown[n]) /\ ToSet(grown[n]) \subseteq Seen(n)
      BY <2>7 DEF Fine
    <3>4. CASE Joins(grown[n], delegated, rest[n + 1])
      <4>1. grown[n + 1] = Append(grown[n], rest[n + 1])
        BY <2>5, <2>7, <3>4
      <4>2. rest[n + 1] \notin ToSet(grown[n])
        BY <3>1, <3>3
      <4>3. /\ WaveFits(grown[n + 1]) /\ Distinct(grown[n + 1])
            /\ ToSet(grown[n + 1]) = ToSet(grown[n]) \cup {rest[n + 1]}
        BY <3>0, <3>3, <3>4, <4>1, <4>2, JoinFits
      <4>4. Fine(n + 1)
        BY <3>2, <3>3, <4>3 DEF Fine
      <4> QED BY <3>0, <4>4
    <3>5. CASE ~Joins(grown[n], delegated, rest[n + 1])
      <4>1. grown[n + 1] = grown[n]
        BY <2>5, <2>7, <3>5
      <4>2. Fine(n + 1)
        BY <3>2, <3>3, <4>1 DEF Fine
      <4> QED BY <3>0, <4>2
    <3> QED BY <3>4, <3>5
  <2> HIDE DEF S
  <2>8. 0..N \subseteq S
    BY <2>2, <2>6, <2>7, SetInductionUpTo
  <2>9. Fine(N)
    BY <2>2, <2>8 DEF S
  <2>10. Seen(N) \subseteq ToSet(pending)
    BY <1>1, <2>2 DEF ToSet
  <2> HIDE DEF Seen
  <2> QED BY <2>1, <2>9, <2>10 DEF Fine
<1> QED BY <1>2, <1>3

-----------------------------------------------------------------------------
(* The loop of _build_waves.                                               *)

States == [layer: Nat, pending: Seq(Tasks), waves: Seq(Seq(Tasks)), delegated: Nat]

\* The waves built so far, and how they and the rest of the layer make up the
\* layers that are open.
LoopInv(s) ==
  /\ Distinct(s.pending) /\ ToSet(s.pending) \cap Placed(s.waves) = {}
  /\ ToSet(s.pending) \cup Placed(s.waves) = Tasks \ Remaining[s.layer]
  /\ \A t \in ToSet(s.pending) : Task(t).deps \subseteq Placed(s.waves)
  /\ Once(s.waves) /\ Ordered(s.waves)
  /\ \A k \in DOMAIN s.waves : WaveFits(s.waves[k])
  /\ s.layer > Len(Ids) => s.pending = <<>>

Loop == {s \in States : LoopInv(s)}

\* One more wave.
LEMMA MoreWaves ==
  ASSUME NEW waves \in Seq(Seq(Tasks)), NEW w \in Seq(Tasks)
  PROVE  /\ Append(waves, w) \in Seq(Seq(Tasks))
         /\ Len(Append(waves, w)) = Len(waves) + 1
         /\ DOMAIN Append(waves, w) = DOMAIN waves \cup {Len(waves) + 1}
         /\ \A k \in DOMAIN waves : k < Len(waves) + 1 /\ Append(waves, w)[k] = waves[k]
         /\ Append(waves, w)[Len(waves) + 1] = w
         /\ Placed(Append(waves, w)) = Placed(waves) \cup ToSet(w)
<1> DEFINE more == Append(waves, w)
           n == Len(waves)
<1>1. /\ more \in Seq(Seq(Tasks)) /\ n \in Nat /\ Len(more) = n + 1 /\ DOMAIN waves = 1..n
      /\ DOMAIN more = 1..(n + 1) /\ more[n + 1] = w /\ \A k \in 1..n : more[k] = waves[k]
  OBVIOUS
<1> HIDE DEF more, n
<1>2. DOMAIN more = DOMAIN waves \cup {n + 1}
  <2>1. 1..(n + 1) = (1..n) \cup {n + 1}
    BY <1>1
  <2> QED BY <1>1, <2>1
<1>3. \A k \in DOMAIN waves : k < n + 1 /\ more[k] = waves[k]
  BY <1>1
<1>4. Placed(more) = Placed(waves) \cup ToSet(w)
  BY <1>1, <1>2, <1>3 DEF Placed
<1> QED BY <1>1, <1>2, <1>3, <1>4 DEF more, n

LEMMA OnceMore ==
  ASSUME NEW waves \in Seq(Seq(Tasks)), NEW w \in Seq(Tasks), Once(waves), Distinct(w),
         ToSet(w) \cap Placed(waves) = {}
  PROVE  Once(Append(waves, w))
<1> DEFINE more == Append(waves, w)
           n == Len(waves)
<1>1. /\ DOMAIN more = DOMAIN waves \cup {n + 1}
      /\ \A k \in DOMAIN waves : more[k] = waves[k]
      /\ more[n + 1] = w
  BY MoreWaves
<1> HIDE DEF more, n
<1>2. ASSUME NEW k \in DOMAIN waves, NEW i \in DOMAIN waves[k], NEW j \in DOMAIN w
      PROVE  waves[k][i] # w[j]
  <2>1. waves[k][i] \in Placed(waves)
    BY DEF Placed, ToSet
  <2>2. w[j] \in ToSet(w)
    BY DEF ToSet
  <2> QED BY <2>1, <2>2
<1>3. ASSUME NEW k \in DOMAIN more, NEW l \in DOMAIN more,
             NEW i \in DOMAIN more[k], NEW j \in DOMAIN more[l], more[k][i] = more[l][j]
      PROVE  k = l /\ i = j
  <2>1. CASE k \in DOMAIN waves /\ l \in DOMAIN waves
    <3>1. more[k] = waves[k] /\ more[l] = waves[l]
      BY <1>1, <2>1
    <3> QED BY <1>3, <2>1, <3>1 DEF Once
  <2>2. CASE k = n + 1 /\ l = n + 1
    BY <1>1, <1>3, <2>2 DEF Distinct
  <2>3. CASE k \in DOMAIN waves /\ l = n + 1
    BY <1>1, <1>2, <1>3, <2>3
  <2>4. CASE k = n + 1 /\ l \in DOMAIN waves
    BY <1>1, <1>2, <1>3, <2>4
  <2> QED BY <1>1, <2>1, <2>2, <2>3, <2>4
<1> QED BY <1>3 DEF Once, more

LEMMA OrderedMore ==
  ASSUME NEW waves \in Seq(Seq(Tasks)), NEW w \in Seq(Tasks), Ordered(waves),
         \A t \in ToSet(w) : Task(t).deps \subseteq Placed(waves)
  PROVE  Ordered(Append(waves, w))
<1> DEFINE more == Append(waves, w)
           n == Len(waves)
<1>1. /\ DOMAIN more = DOMAIN waves \cup {n + 1}
      /\ \A k \in DOMAIN waves : k < n + 1 /\ more[k] = waves[k]
      /\ more[n + 1] = w
  BY MoreWaves
<1> HIDE DEF more, n
<1>2. ASSUME NEW k \in DOMAIN more, NEW t \in ToSet(more[k]), NEW d \in Task(t).deps
      PROVE  \E l \in DOMAIN more : l < k /\ d \in ToSet(more[l])
  <2>1. CASE k \in DOMAIN waves
    <3>1. t \in ToSet(waves[k])
      BY <1>1, <2>1
    <3>2. PICK l \in DOMAIN waves : l < k /\ d \in ToSet(waves[l])
      BY <2>1, <3>1 DEF Ordered
    <3> QED BY <1>1, <3>2
  <2>2. CASE k = n + 1
    <3>1. d \in Placed(waves)
      BY <1>1, <2>2
    <3>2. PICK l \in DOMAIN waves : d \in ToSet(waves[l])
      BY <3>1 DEF Placed
    <3> QED BY <1>1, <2>2, <3>2
  <2> QED BY <1>1, <2>1, <2>2
<1> QED BY <1>2 DEF Ordered, more

\* The wave is cut from the rest of the layer.
LEMMA PlaceWave ==
  ASSUME NEW s \in Loop, s.layer <= Len(Ids), NEW w, WaveFits(w), Distinct(w),
         ToSet(w) \subseteq ToSet(s.pending),
         NEW q \in Seq(Tasks), Distinct(q), ToSet(q) = ToSet(s.pending) \ ToSet(w),
         NEW e \in Nat, NEW r \in States,
         r.layer = s.layer, r.pending = q, r.waves = Append(s.waves, w)
  PROVE  r \in Loop
<1>0. s \in States /\ LoopInv(s) /\ s.waves \in Seq(Seq(Tasks)) /\ w \in Seq(Tasks)
      /\ s.layer \in Nat /\ Len(Ids) \in Nat
  BY OrchestrationAssumption DEF Loop, States, WaveFits
<1>1. /\ Placed(r.waves) = Placed(s.waves) \cup ToSet(w)
      /\ DOMAIN r.waves = DOMAIN s.waves \cup {Len(s.waves) + 1}
      /\ \A k \in DOMAIN s.waves : r.waves[k] = s.waves[k]
      /\ r.waves[Len(s.waves) + 1] = w
  BY <1>0, MoreWaves
<1>2. ToSet(w) \cap Placed(s.waves) = {}
  BY <1>0 DEF LoopInv
<1>3. ToSet(q) \cap Placed(r.waves) = {}
  BY <1>0, <1>1 DEF LoopInv
<1>4. ToSet(q) \cup Placed(r.waves) = Tasks \ Remaining[s.layer]
  BY <1>0, <1>1 DEF LoopInv
<1>5. \A t \in ToSet(q) : Task(t).deps \subseteq Placed(r.waves)
  BY <1>0, <1>1 DEF LoopInv
<1>6. Once(r.waves)
  BY <1>0, <1>2, OnceMore DEF LoopInv
<1>7. Ordered(r.waves)
  <2>1. \A t \in ToSet(w) : Task(t).deps \subseteq Placed(s.waves)
    BY <1>0 DEF LoopInv
  <2> QED BY <1>0, <2>1, OrderedMore DEF LoopInv
<1>8. \A k \in DOMAIN r.waves : WaveFits(r.waves[k])
  BY <1>0, <1>1 DEF LoopInv
<1>9. ~(r.layer > Len(Ids))
  BY <1>0
<1> QED BY <1>3, <1>4, <1>5, <1>6, <1>7, <1>8, <1>9 DEF Loop, LoopInv

LEMMA CutWaveStep ==
  ASSUME Decided, NEW s \in Loop, s.pending # <<>>
  PROVE  /\ CutWave(s) \in Loop /\ CutWave(s).layer = s.layer
         /\ Len(CutWave(s).waves) = Len(s.waves) + 1
<1> DEFINE group == Group(s.pending, s.delegated)
           rest == Keep(s.pending, Tasks \ ToSet(group))
           first == Head(group)
           parallel == Len(group) >= manifest.min /\ s.delegated + Len(group) <= manifest.total
           joined == [s EXCEPT !.pending = rest, !.waves = Append(@, group),
                               !.delegated = @ + Len(group)]
           single == [s EXCEPT !.pending = Tail(group) \o rest,
                               !.waves = Append(@, <<first>>)]
<1>0. /\ s \in States /\ LoopInv(s) /\ s.pending \in Seq(Tasks) /\ s.waves \in Seq(Seq(Tasks))
      /\ s.layer \in Nat /\ s.delegated \in Nat /\ Len(Ids) \in Nat
  BY OrchestrationAssumption DEF Loop, States
<1>1. s.layer <= Len(Ids) /\ Distinct(s.pending)
  BY <1>0 DEF LoopInv
<1>2. CutWave(s) = IF parallel THEN joined ELSE single
  BY DEF CutWave
<1>3. /\ WaveFits(group) /\ Distinct(group) /\ ToSet(group) \subseteq ToSet(s.pending)
      /\ group \in Seq(Tasks) /\ group # <<>> /\ Len(group) \in Nat
  <2>1. WaveFits(group) /\ Distinct(group) /\ ToSet(group) \subseteq ToSet(s.pending)
    BY <1>0, <1>1, GroupFits
  <2> HIDE DEF group
  <2> QED BY <2>1 DEF WaveFits
<1>4. /\ rest \in Seq(Tasks) /\ Distinct(rest)
      /\ ToSet(rest) = ToSet(s.pending) \ ToSet(group)
  <2> HIDE DEF group
  <2>1. ToSet(s.pending) \subseteq Tasks
    BY <1>0 DEF ToSet
  <2> QED BY <1>0, <1>1, <2>1, KeepMembers
<1> HIDE DEF group, rest
<1>5. CASE parallel
  <2>1. /\ joined \in States /\ joined.layer = s.layer /\ joined.pending = rest
        /\ joined.waves = Append(s.waves, group)
    <3> DEFINE v == Append(s.waves, group)
               e == s.delegated + Len(group)
               r == [s EXCEPT !.pending = rest, !.waves = v, !.delegated = e]
    <3>1. v \in Seq(Seq(Tasks)) /\ e \in Nat
      BY <1>0, <1>3, MoreWaves
    <3> HIDE DEF v, e
    <3>2. r \in States /\ r.layer = s.layer /\ r.pending = rest /\ r.waves = v
      BY <1>0, <1>4, <3>1 DEF States
    <3>3. joined = r
      BY DEF v, e
    <3> QED BY <3>2, <3>3 DEF v
  <2> HIDE DEF joined
  <2>2. joined \in Loop
    BY <1>0, <1>1, <1>3, <1>4, <2>1, PlaceWave
  <2>3. Len(joined.waves) = Len(s.waves) + 1
    BY <1>0, <1>3, <2>1, MoreWaves
  <2> QED BY <1>2, <1>5, <2>1, <2>2, <2>3
<1>6. CASE ~parallel
  <2>1. /\ first \in Tasks /\ first \in ToSet(group) /\ Tail(group) \in Seq(Tasks)
        /\ Distinct(Tail(group)) /\ ToSet(Tail(group)) = ToSet(group) \ {first}
    BY <1>3, TailMembers
  <2> HIDE DEF first
  <2> DEFINE q == Tail(group) \o rest
             w == <<first>>
  <2>2. /\ q \in Seq(Tasks) /\ Distinct(q) /\ ToSet(q) = ToSet(Tail(group)) \cup ToSet(rest)
    <3>1. ToSet(Tail(group)) \cap ToSet(rest) = {}
      BY <1>4, <2>1
    <3> DEFINE tail == Tail(group)
    <3>2. tail \in Seq(Tasks) /\ Distinct(tail) /\ ToSet(tail) \cap ToSet(rest) = {}
      BY <2>1, <3>1
    <3> HIDE DEF tail
    <3>3. /\ tail \o rest \in Seq(Tasks) /\ Distinct(tail \o rest)
          /\ ToSet(tail \o rest) = ToSet(tail) \cup ToSet(rest)
      BY <1>4, <3>2, ConcatMembers
    <3> QED BY <3>3 DEF tail
  <2>3. WaveFits(w) /\ Distinct(w) /\ ToSet(w) = {first} /\ w \in Seq(Tasks)
    BY <2>1, SingleFits
  <2>4. ToSet(q) = ToSet(s.pending) \ ToSet(w) /\ ToSet(w) \subseteq ToSet(s.pending)
    BY <1>3, <1>4, <2>1, <2>2, <2>3
  <2>5. /\ single \in States /\ single.layer = s.layer /\ single.pending = q
        /\ single.waves = Append(s.waves, w)
    <3> HIDE DEF q, w
    <3> DEFINE v == Append(s.waves, w)
               r == [s EXCEPT !.pending = q, !.waves = v]
    <3>1. v \in Seq(Seq(Tasks))
      BY <1>0, <2>3, MoreWaves
    <3> HIDE DEF v
    <3>2. r \in States /\ r.layer = s.layer /\ r.pending = q /\ r.waves = v
      BY <1>0, <2>2, <3>1 DEF States
    <3>3. single = r
      BY DEF q, v, w
    <3> QED BY <3>2, <3>3 DEF v
  <2> HIDE DEF single, q, w
  <2>6. single \in Loop
    BY <1>0, <1>1, <2>2, <2>3, <2>4, <2>5, PlaceWave
  <2>7. Len(single.waves) = Len(s.waves) + 1
    BY <1>0, <2>3, <2>5, MoreWaves
  <2> QED BY <1>2, <1>6, <2>5, <2>6, <2>7
<1> QED BY <1>5, <1>6

LEMMA LayerStep ==
  ASSUME Decided, NEW s \in Loop, s.pending = <<>>, NEW r \in States,
         r.layer = s.layer + 1, r.pending = Layer(s.layer + 1), r.waves = s.waves
  PROVE  r \in Loop
<1> DEFINE left == Remaining[s.layer]
<1>0. /\ s \in States /\ LoopInv(s) /\ s.layer \in Nat
      /\ Ids \in Seq(Tasks) /\ Distinct(Ids) /\ ToSet(Ids) = Tasks
  <2>1. Ids \in Seq(Tasks)
    BY OrchestrationAssumption DEF Tasks, ToSet
  <2> QED BY <2>1, OrchestrationAssumption DEF Loop, States, Distinct, Tasks
<1>1. r.pending = Keep(Ids, Ready(left))
  <2>1. (s.layer + 1) - 1 = s.layer
    BY <1>0
  <2> QED BY <2>1 DEF Layer
<1>2. /\ left \in SUBSET Tasks /\ Remaining[s.layer + 1] = left \ Ready(left)
  BY <1>0, RemainingDef
<1> HIDE DEF left
<1>3. /\ r.pending \in Seq(Tasks) /\ Distinct(r.pending) /\ ToSet(r.pending) = Ready(left)
  <2>1. Ready(left) = Tasks \cap Ready(left)
    BY <1>2 DEF Ready
  <2> DEFINE set == Ready(left)
  <2> HIDE DEF set
  <2>2. /\ Keep(Ids, set) \in Seq(Tasks) /\ Distinct(Keep(Ids, set))
        /\ ToSet(Keep(Ids, set)) = Tasks \cap set
    BY <1>0, KeepMembers
  <2> QED BY <1>1, <2>1, <2>2 DEF set
<1>4. Placed(r.waves) = Tasks \ left
  <2>1. ToSet(<<>>) = {}
    BY DEF ToSet
  <2> QED BY <1>0, <2>1 DEF LoopInv, left
<1>5. ToSet(r.pending) \cap Placed(r.waves) = {}
  BY <1>3, <1>4 DEF Ready
<1>6. ToSet(r.pending) \cup Placed(r.waves) = Tasks \ Remaining[r.layer]
  BY <1>2, <1>3, <1>4 DEF Ready
<1>7. \A t \in ToSet(r.pending) : Task(t).deps \subseteq Placed(r.waves)
  <2> TAKE t \in ToSet(r.pending)
  <2>1. t \in Tasks /\ Task(t).deps \cap left = {}
    BY <1>2, <1>3 DEF Ready
  <2>2. Task(t).deps \subseteq Tasks
    BY <2>1, DecidedFacts
  <2> QED BY <1>4, <2>1, <2>2
<1>8. r.layer > Len(Ids) => r.pending = <<>>
  <2> SUFFICES ASSUME s.layer >= Len(Ids)  PROVE  r.pending = <<>>
    BY <1>0, OrchestrationAssumption
  <2>1. left = {}
    <3>1. PICK t \in Tasks : TRUE
      BY <1>0, OrchestrationAssumption DEF ToSet
    <3>2. Remaining[Len(Ids)] = {}
      BY <3>1, DecidedFacts
    <3> QED BY <1>0, <3>2, NothingRemains DEF left
  <2>2. ToSet(r.pending) = {}
    BY <1>3, <2>1 DEF Ready
  <2>3. DOMAIN r.pending = {}
    BY <2>2 DEF ToSet
  <2> QED BY <1>3, <2>3
<1>9. Once(r.waves) /\ Ordered(r.waves) /\ \A k \in DOMAIN r.waves : WaveFits(r.waves[k])
  BY <1>0 DEF LoopInv
<1> QED BY <1>3, <1>5, <1>6, <1>7, <1>8, <1>9 DEF Loop, LoopInv

\* One turn of the loop: a wave more or a layer more.
Turned(s) ==
  IF s.pending # <<>> THEN CutWave(s)
  ELSE [s EXCEPT !.layer = @ + 1, !.pending = Layer(s.layer + 1)]

Turns(s) == s.layer + Len(s.waves)

LEMMA TurnStep ==
  ASSUME Decided, NEW s \in Loop
  PROVE  Turned(s) \in Loop /\ Turns(Turned(s)) = Turns(s) + 1
<1>0. s \in States /\ s.layer \in Nat /\ Len(s.waves) \in Nat
  BY DEF Loop, States
<1>1. CASE s.pending # <<>>
  BY <1>0, <1>1, CutWaveStep DEF Turned, Turns
<1>2. CASE s.pending = <<>>
  <2> DEFINE q == Layer(s.layer + 1)
             m == s.layer + 1
             r == [s EXCEPT !.layer = m, !.pending = q]
  <2>1. q \in Seq(Tasks)
    <3>1. Ids \in Seq(Tasks)
      BY OrchestrationAssumption DEF Tasks, ToSet
    <3> QED BY <3>1, KeepMembers DEF Layer
  <2>2. m \in Nat
    BY <1>0
  <2> HIDE DEF q, m
  <2>3. /\ r \in States /\ r.layer = m /\ r.pending = q /\ r.waves = s.waves
    BY <1>0, <2>1, <2>2 DEF States
  <2>4. Turned(s) = r
    BY <1>2 DEF Turned, q, m
  <2> HIDE DEF r
  <2>5. r \in Loop
    BY <1>2, <2>3, LayerStep DEF q, m
  <2> QED BY <1>0, <2>3, <2>4, <2>5 DEF Turns, m
<1> QED BY <1>1, <1>2

\* As many waves as tasks hold every task.
LEMMA WavesCount ==
  ASSUME NEW waves \in Seq(Seq(Tasks)), Once(waves), \A k \in DOMAIN waves : waves[k] # <<>>
  PROVE  /\ Len(waves) <= Len(Ids)
         /\ Len(waves) = Len(Ids) =>
              \A t \in Tasks : \E k \in DOMAIN waves : t \in ToSet(waves[k])
<1> DEFINE n == Len(waves)
           h == [k \in 1..n |-> waves[k][1]]
<1>0. n \in Nat /\ DOMAIN waves = 1..n /\ Len(Ids) \in Nat
  BY OrchestrationAssumption
<1>1. ASSUME NEW k \in 1..n
      PROVE  1 \in DOMAIN waves[k] /\ waves[k][1] \in Tasks /\ waves[k][1] \in ToSet(waves[k])
  <2>1. waves[k] \in Seq(Tasks) /\ waves[k] # <<>>
    OBVIOUS
  <2> DEFINE w == waves[k]
  <2>2. 1 \in DOMAIN w /\ w[1] \in Tasks
    <3>1. w \in Seq(Tasks) /\ w # <<>>
      BY <2>1
    <3> HIDE DEF w
    <3> QED BY <3>1
  <2> QED BY <2>2 DEF ToSet
<1> HIDE DEF n
<1>2. h \in [1..n -> Tasks] /\ \A k \in 1..n : h[k] = waves[k][1]
  BY <1>1
<1> HIDE DEF h
<1>3. ASSUME NEW k \in 1..n, NEW l \in 1..n, h[k] = h[l]  PROVE  k = l
  <2>1. /\ k \in DOMAIN waves /\ l \in DOMAIN waves
        /\ 1 \in DOMAIN waves[k] /\ 1 \in DOMAIN waves[l] /\ waves[k][1] = waves[l][1]
    BY <1>0, <1>1, <1>2, <1>3
  <2> QED BY <2>1 DEF Once
<1>4. h \in Injection(1..n, Tasks)
  BY <1>2, <1>3 DEF Injection, IsInjective
<1>5. IsFiniteSet(1..n) /\ Cardinality(1..n) = n
  BY <1>0, FS_Interval
<1>6. n <= Cardinality(Tasks) /\ (n = Cardinality(Tasks) => h \in Surjection(1..n, Tasks))
  BY <1>4, <1>5, TasksFinite, FS_Injection
<1>7. Cardinality(Tasks) <= Len(Ids) /\ Cardinality(Tasks) \in Nat
  <2>1. Ids \in [DOMAIN Ids -> Tasks]
    BY OrchestrationAssumption DEF Tasks, ToSet
  <2>2. Ids \in Surjection(DOMAIN Ids, Tasks)
    BY <2>1 DEF Surjection, Tasks, ToSet
  <2>3. DOMAIN Ids = 1..Len(Ids)
    BY OrchestrationAssumption
  <2> DEFINE N == Len(Ids)
  <2>4. N \in Nat
    BY <1>0
  <2>5. Ids \in Surjection(1..N, Tasks) /\ N = Len(Ids)
    BY <2>2, <2>3
  <2> HIDE DEF N
  <2>7. IsFiniteSet(1..N) /\ Cardinality(1..N) = N
    <3>1. 1 \in Int /\ N \in Int
      BY <2>4
    <3> QED BY <2>4, <3>1, FS_Interval
  <2>6. Cardinality(Tasks) <= Cardinality(1..N)
    BY <2>7, <2>5, FS_Surjection
  <2> QED BY <2>4, <2>5, <2>6, <2>7, TasksFinite, FS_CardinalityType
<1>9. ASSUME n = Len(Ids), NEW t \in Tasks
      PROVE  \E k \in DOMAIN waves : t \in ToSet(waves[k])
  <2>1. h \in Surjection(1..n, Tasks)
    BY <1>0, <1>6, <1>7, <1>9
  <2>2. PICK k \in 1..n : t = h[k]
    BY <2>1 DEF Surjection
  <2> QED BY <1>0, <1>1, <1>2, <2>2
<1> QED BY <1>0, <1>6, <1>7, <1>9 DEF n

\* A plan: every task in one wave, after the waves of its dependencies, and
\* each wave fits.
Sound(waves) ==
  /\ waves \in Seq(Seq(Tasks)) /\ Once(waves) /\ Ordered(waves)
  /\ \A k \in DOMAIN waves : WaveFits(waves[k])
  /\ \A t \in Tasks : \E k \in DOMAIN waves : t \in ToSet(waves[k])

\* Every turn of the loop keeps LoopInv, and 2 * Len(Ids) turns are enough.
LEMMA WavesSound == ASSUME Decided PROVE Sound(Waves)
<1> DEFINE a == [layer |-> 0, pending |-> <<>>, waves |-> <<>>, delegated |-> 0]
           after == CHOOSE after : after = [n \in Nat |->
                      IF n = 0
                      THEN [layer |-> 0, pending |-> <<>>, waves |-> <<>>, delegated |-> 0]
                      ELSE IF after[n - 1].pending # <<>> THEN CutWave(after[n - 1])
                           ELSE [after[n - 1] EXCEPT !.layer = @ + 1,
                                   !.pending = Layer(after[n - 1].layer + 1)]]
           F == [x \in Nat \X Loop |-> Turned(x[2])]
<1>1. Waves = after[2 * Len(Ids)].waves
  BY DEF Waves
<1>2. a \in Loop /\ Turns(a) = 0
  <2>1. a \in States
    BY DEF States
  <2>2. ToSet(<<>>) = {} /\ Placed(<<>>) = {} /\ Distinct(<<>>) /\ Once(<<>>) /\ Ordered(<<>>)
    BY DEF ToSet, Placed, Distinct, Once, Ordered
  <2>3. Remaining[0] = Tasks /\ Len(Ids) \in Nat
    BY RemainingDef, OrchestrationAssumption
  <2>4. LoopInv(a)
    BY <2>2, <2>3 DEF LoopInv
  <2> QED BY <2>1, <2>4 DEF Loop, Turns
<1>3. F \in Steps(Loop, Nat)
  BY TurnStep DEF Steps
<1>4. \A n \in Nat, s \in Loop : F[<<n, s>>] = Turned(s)
  OBVIOUS
<1> HIDE DEF F
<1>5. after = [n \in Nat |-> IF n = 0 THEN a ELSE Turned(after[n - 1])]
  <2> DEFINE b == a
  <2>0. b \in Loop
    BY <1>2
  <2> HIDE DEF b
  <2>1. Recursion(Loop, b, F) # {}
    BY <1>3, <2>0, RecursionExists
  <2>2. PICK f \in [Nat -> Loop] : f[0] = b /\ \A n \in Nat : f[n + 1] = F[<<n + 1, f[n]>>]
    BY <2>1 DEF Recursion
  <2>3. ASSUME NEW n \in Nat  PROVE  f[n] = IF n = 0 THEN b ELSE Turned(f[n - 1])
    <3>1. CASE n = 0
      BY <2>2, <3>1
    <3>2. CASE n # 0
      <4>1. n - 1 \in Nat /\ (n - 1) + 1 = n
        BY <3>2
      <4>2. f[n] = F[<<n, f[n - 1]>>] /\ f[n - 1] \in Loop
        BY <2>2, <4>1
      <4> QED BY <1>4, <3>2, <4>2
    <3> QED BY <3>1, <3>2
  <2>4. f = [n \in Nat |-> IF n = 0 THEN b ELSE Turned(f[n - 1])]
    BY <2>2, <2>3
  <2>5. f = [n \in Nat |->
               IF n = 0
               THEN [layer |-> 0, pending |-> <<>>, waves |-> <<>>, delegated |-> 0]
               ELSE IF f[n - 1].pending # <<>> THEN CutWave(f[n - 1])
                    ELSE [f[n - 1] EXCEPT !.layer = @ + 1,
                            !.pending = Layer(f[n - 1].layer + 1)]]
    BY <2>4 DEF b, Turned
  <2>6. after = [n \in Nat |->
               IF n = 0
               THEN [layer |-> 0, pending |-> <<>>, waves |-> <<>>, delegated |-> 0]
               ELSE IF after[n - 1].pending # <<>> THEN CutWave(after[n - 1])
                    ELSE [after[n - 1] EXCEPT !.layer = @ + 1,
                            !.pending = Layer(after[n - 1].layer + 1)]]
    BY <2>5
  <2> QED BY <2>6 DEF Turned
<1> HIDE DEF after
<1> DEFINE N == {n \in Nat : after[n] \in Loop /\ Turns(after[n]) = n}
<1>6. 0 \in N
  <2>1. after[0] = a
    BY <1>5
  <2> HIDE DEF a
  <2> QED BY <1>2, <2>1
<1>7. ASSUME NEW n \in Nat, n \in N  PROVE  n + 1 \in N
  <2>1. n + 1 \in Nat /\ n + 1 # 0 /\ (n + 1) - 1 = n
    OBVIOUS
  <2>2. after[n + 1] = Turned(after[n])
    <3> HIDE DEF a
    <3> QED BY <1>5, <2>1
  <2> QED BY <1>7, <2>1, <2>2, TurnStep
<1> HIDE DEF N
<1>8. Nat \subseteq N
  BY <1>6, <1>7, SetInduction
<1> DEFINE s == after[2 * Len(Ids)]
<1>9. s \in Loop /\ Turns(s) = 2 * Len(Ids) /\ Len(Ids) \in Nat /\ Len(Ids) >= 1
  <2>1. Len(Ids) \in Nat /\ 2 * Len(Ids) \in Nat /\ Len(Ids) >= 1
    BY OrchestrationAssumption
  <2> QED BY <1>8, <2>1 DEF N
<1> HIDE DEF s
<1>10. /\ s.waves \in Seq(Seq(Tasks)) /\ s.layer \in Nat /\ Len(s.waves) \in Nat
       /\ LoopInv(s) /\ s.layer + Len(s.waves) = 2 * Len(Ids)
  BY <1>9 DEF Loop, States, Turns
<1>11. \A k \in DOMAIN s.waves : WaveFits(s.waves[k]) /\ s.waves[k] # <<>>
  BY <1>10 DEF LoopInv, WaveFits
<1>12. Once(s.waves) /\ Ordered(s.waves)
  BY <1>10 DEF LoopInv
<1>13. \A t \in Tasks : \E k \in DOMAIN s.waves : t \in ToSet(s.waves[k])
  <2>1. CASE Len(s.waves) = Len(Ids)
    BY <1>10, <1>11, <1>12, <2>1, WavesCount
  <2>2. CASE Len(s.waves) # Len(Ids)
    <3>1. Len(s.waves) <= Len(Ids)
      BY <1>10, <1>11, <1>12, WavesCount
    <3>2. s.layer > Len(Ids) /\ s.layer >= Len(Ids)
      BY <1>9, <1>10, <2>2, <3>1
    <3>3. s.pending = <<>>
      BY <1>10, <3>2 DEF LoopInv
    <3>4. Placed(s.waves) = Tasks \ Remaining[s.layer]
      BY <1>10, <3>3 DEF LoopInv, ToSet
    <3> SUFFICES ASSUME NEW t \in Tasks  PROVE  \E k \in DOMAIN s.waves : t \in ToSet(s.waves[k])
      OBVIOUS
    <3>5. Remaining[s.layer] = {}
      BY <1>10, <3>2, DecidedFacts, NothingRemains
    <3>6. t \in Placed(s.waves)
      BY <3>4, <3>5
    <3> QED BY <3>6 DEF Placed
  <2> QED BY <2>1, <2>2
<1> QED BY <1>1, <1>10, <1>11, <1>12, <1>13 DEF Sound, s

-----------------------------------------------------------------------------
(* The batch.                                                              *)

\* The plan is empty or sound.
PlanFits == plan \in Seq(Seq(Tasks)) /\ (plan # <<>> => Sound(plan))

InWave(t, k) == k \in DOMAIN plan /\ t \in ToSet(plan[k])
Running == {"register", "admit", "work", "release"}

\* The batch: what its phase says of the rest.
BatchInv ==
  /\ phase \in {"idle", "decide", "raised"} =>
       plan = <<>> /\ wave = 0 /\ ~stopped /\ skipped = {}
  /\ phase # "ended" => summary = "none"
  /\ phase = "wave" => wave \in DOMAIN plan
  /\ phase = "ended" => wave = Len(plan)
  /\ stopped => manifest.stop /\ phase \in {"next", "ended"}
  /\ skipped # {} => stopped

\* A runner: its result, its row, and that it runs in the current wave.
RunnerInv == \A t \in Tasks :
  /\ pc[t] \in {"waiting", "register", "admit", "work"} <=> result[t] = "none"
  /\ pc[t] \in {"admit", "work"} => Task(t).deps \subseteq Tasks
  /\ result[t] = "completed" => t \in done
  /\ pc[t] \in Running => phase = "wave" /\ InWave(t, wave)

\* The waves begun so far hold the runners that were started, all of those
\* that were not skipped, and only the last of them what stops a batch.
WaveInv == \A t \in Tasks :
  /\ pc[t] # "waiting" => \E k \in 1..wave : InWave(t, k)
  /\ \A k \in 1..wave : InWave(t, k) => pc[t] # "waiting" \/ t \in skipped
  /\ manifest.stop /\ result[t] \notin {"none", "completed"} =>
       stopped \/ (phase = "wave" /\ InWave(t, wave))

IInv == TypeOK /\ PlanFits /\ BatchInv /\ RunnerInv /\ WaveInv /\ StopHonoured

-----------------------------------------------------------------------------
(* Waves and steps.                                                        *)

\* What a wave says of two tasks of the manifest and of its snapshot stays true
\* while neither changes.
LEMMA SoundKept ==
  ASSUME NEW p, Sound(p), plan' = p, UNCHANGED <<manifest, snapshot>>
  PROVE  Sound(plan)'
<1>1. \A t : Task(t)' = Task(t) /\ Profile(t)' = Profile(t)
  BY DEF Task, Profile
<1>2. \A s, t : Conflict(s, t)' <=> Conflict(s, t)
  BY DEF Conflict, WriteScope, Task, Meet
<1>3. \A x : AvailableSlots(x)' = AvailableSlots(x)
  BY DEF AvailableSlots
<1>4. \A w, t : SameProfile(w, t)' = SameProfile(w, t)
  BY DEF SameProfile, Profile, Task
<1>5. ASSUME NEW w, WaveFits(w)  PROVE  WaveFits(w)'
  BY <1>1, <1>2, <1>3, <1>4, <1>5 DEF WaveFits
<1>6. \A k \in DOMAIN p : WaveFits(p[k])'
  BY <1>5 DEF Sound
<1>7. Once(plan)' /\ Ordered(plan)'
  BY <1>1 DEF Sound, Once, Ordered
<1> QED BY <1>6, <1>7 DEF Sound

\* The plan is made in Decide, from the manifest and the count of leases that
\* stay the same until it is dropped.
LEMMA PlanStep ==
  ASSUME TypeOK, PlanFits, [Next]_vars
  PROVE  PlanFits'
<1>1. CASE Begin \/ Crash
  <2>1. plan' = <<>>
    BY <1>1 DEF Begin, Crash
  <2> QED BY <2>1 DEF PlanFits
<1>2. CASE UNCHANGED <<plan, manifest, snapshot>>
  <2> DEFINE p == plan
  <2>1. plan' = p /\ plan = p
    BY <1>2
  <2> HIDE DEF p
  <2>2. CASE p = <<>>
    BY <2>1, <2>2 DEF PlanFits
  <2>3. CASE p # <<>>
    <3>1. Sound(plan)
      BY <2>1, <2>3 DEF PlanFits
    <3>2. Sound(plan)'
      BY <1>2, <3>1, SoundKept
    <3> QED BY <3>2 DEF PlanFits, Sound
  <2> QED BY <2>2, <2>3
<1>3. CASE Decide
  <2>1. UNCHANGED <<manifest, snapshot>>
    BY <1>3 DEF Decide
  <2>2. CASE GuardedReady
    <3>1. Decided /\ plan' = Waves
      BY <1>3, <2>2 DEF Decide, Decided, TypeOK
    <3>2. Sound(Waves)
      BY <3>1, WavesSound
    <3>3. Sound(plan)'
      BY <2>1, <3>1, <3>2, SoundKept
    <3> QED BY <3>3 DEF PlanFits, Sound
  <2>3. CASE ~GuardedReady
    <3>1. plan' = plan
      BY <1>3, <2>3 DEF Decide
    <3> QED BY <1>2, <2>1, <3>1
  <2> QED BY <2>2, <2>3
<1>4. CASE StartWave \/ EndWave \/ Summarise
  <2>1. UNCHANGED <<plan, manifest, snapshot>>
    BY <1>4 DEF StartWave, EndWave, Summarise
  <2> QED BY <1>2, <2>1
<1>5. ASSUME NEW t \in Tasks, RunOne(t)  PROVE  UNCHANGED <<plan, manifest, snapshot>>
  BY <1>5 DEF RunOne, Register, Admit, Work, Release, Raise, batch
<1>6. ASSUME NEW x \in Profiles, OutsideTakes(x) \/ OutsideReleases(x)
      PROVE  UNCHANGED <<plan, manifest, snapshot>>
  BY <1>6 DEF OutsideTakes, OutsideReleases, batch
<1>7. CASE UNCHANGED vars
  <2>1. UNCHANGED <<plan, manifest, snapshot>>
    BY <1>7 DEF vars, batch
  <2> QED BY <1>2, <2>1
<1> QED BY <1>1, <1>2, <1>3, <1>4, <1>5, <1>6, <1>7 DEF Next, Orchestrate

LEMMA EachTaskOnce == ASSUME PlanFits PROVE PlanHoldsEachTask
<1> SUFFICES ASSUME plan # <<>>, NEW t \in Tasks
             PROVE  \E k \in DOMAIN plan : \E i \in DOMAIN plan[k] :
                      \A l \in DOMAIN plan : \A j \in DOMAIN plan[l] :
                        plan[l][j] = t <=> l = k /\ j = i
  BY DEF PlanHoldsEachTask
<1>1. PICK k \in DOMAIN plan : t \in ToSet(plan[k])
  BY DEF PlanFits, Sound
<1>2. PICK i \in DOMAIN plan[k] : plan[k][i] = t
  BY <1>1 DEF ToSet
<1>3. ASSUME NEW l \in DOMAIN plan, NEW j \in DOMAIN plan[l]
      PROVE  plan[l][j] = t <=> l = k /\ j = i
  BY <1>2, <1>3 DEF PlanFits, Sound, Once
<1> QED BY <1>1, <1>2, <1>3

\* A task is in one wave, the one WaveOf names, and in one when there is a plan.
LEMMA OneWave ==
  ASSUME PlanFits, NEW t \in Tasks
  PROVE  /\ \A k, l : InWave(t, k) /\ InWave(t, l) => k = l
         /\ \A k : InWave(t, k) => WaveOf(t) = k /\ k \in 1..Len(plan)
         /\ plan # <<>> => InWave(t, WaveOf(t))
<1>1. \A k, l : InWave(t, k) /\ InWave(t, l) => k = l
  <2> SUFFICES ASSUME NEW k, NEW l, InWave(t, k), InWave(t, l)  PROVE  k = l
    OBVIOUS
  <2>1. PICK i \in DOMAIN plan[k] : plan[k][i] = t
    BY DEF InWave, ToSet
  <2>2. PICK j \in DOMAIN plan[l] : plan[l][j] = t
    BY DEF InWave, ToSet
  <2>3. plan # <<>> /\ k \in DOMAIN plan /\ l \in DOMAIN plan
    BY DEF InWave
  <2>4. PICK m \in DOMAIN plan : \E n \in DOMAIN plan[m] :
          \A x \in DOMAIN plan : \A y \in DOMAIN plan[x] :
            plan[x][y] = t <=> x = m /\ y = n
    BY <2>3, EachTaskOnce DEF PlanHoldsEachTask
  <2> QED BY <2>1, <2>2, <2>3, <2>4
<1>2. ASSUME NEW k, InWave(t, k)  PROVE  WaveOf(t) = k /\ k \in 1..Len(plan)
  BY <1>1, <1>2 DEF WaveOf, InWave, PlanFits
<1>3. ASSUME plan # <<>>  PROVE  InWave(t, WaveOf(t))
  <2>1. PICK m \in DOMAIN plan : \E n \in DOMAIN plan[m] : plan[m][n] = t
    BY <1>3, EachTaskOnce DEF PlanHoldsEachTask
  <2>2. InWave(t, m)
    BY <2>1 DEF InWave, ToSet
  <2> QED BY <2>2, <1>2
<1> QED BY <1>1, <1>2, <1>3

LEMMA DependenciesFirst == ASSUME PlanFits PROVE PlanOrdersDependencies
<1> SUFFICES ASSUME plan # <<>>, NEW t \in Tasks, NEW d \in Task(t).deps
             PROVE  WaveOf(d) < WaveOf(t)
  BY DEF PlanOrdersDependencies
<1>1. InWave(t, WaveOf(t))
  BY OneWave
<1> DEFINE k == WaveOf(t)
<1>2. k \in DOMAIN plan /\ t \in ToSet(plan[k])
  BY <1>1 DEF InWave
<1> HIDE DEF k
<1>3. PICK l \in DOMAIN plan : l < k /\ d \in ToSet(plan[l])
  BY <1>2 DEF PlanFits, Sound, Ordered
<1>4. plan[l] \in Seq(Tasks)
  BY DEF PlanFits
<1>5. d \in Tasks /\ InWave(d, l)
  BY <1>3, <1>4 DEF InWave, ToSet
<1>6. WaveOf(d) = l
  BY <1>5, OneWave
<1> QED BY <1>3, <1>6 DEF k

\* What the steps of a runner have in common.
LEMMA RunnerStep ==
  ASSUME TypeOK, RunnerInv, NEW t \in Tasks, RunOne(t)
  PROVE  /\ pc[t] \in Running
         /\ UNCHANGED <<manifest, snapshot, batch, outside, starts>>
         /\ done' \in SUBSET Tasks /\ done' \ {t} = done \ {t}
         /\ \E label \in {"admit", "work", "release", "returned"},
               r \in {"none", "completed", "not_completed", "blocked",
                      "slot_paused", "error"} :
              /\ pc' = [pc EXCEPT ![t] = label]
              /\ result' = [result EXCEPT ![t] = r]
              /\ label \in {"admit", "work"} <=> r = "none"
              /\ label \in {"admit", "work"} => Task(t).deps \subseteq Tasks
              /\ r = "completed" => t \in done'
<1> USE DEF Running, Goto, Return, batch, runs, slots, spent
<1>0. /\ result = [result EXCEPT ![t] = result[t]]
      /\ pc[t] \in {"waiting", "register", "admit", "work", "release", "returned"}
      /\ result[t] \in {"none", "completed", "not_completed", "blocked",
                        "slot_paused", "error"}
      /\ done \in SUBSET Tasks
  BY DEF TypeOK
<1>1. CASE Register(t)
  <2>1. CASE Task(t).deps \subseteq done
    BY <1>0, <1>1, <2>1 DEF Register, RunnerInv
  <2>2. CASE ~(Task(t).deps \subseteq done)
    BY <1>0, <1>1, <2>2 DEF Register, RunnerInv
  <2> QED BY <2>1, <2>2
<1>2. CASE Admit(t)
  BY <1>0, <1>2 DEF Admit, RunnerInv
<1>3. CASE Work(t)
  BY <1>0, <1>3 DEF Work, RunnerInv
<1>4. CASE Release(t)
  BY <1>0, <1>4 DEF Release, RunnerInv
<1>5. CASE Raise(t)
  BY <1>0, <1>5 DEF Raise, RunnerInv
<1> QED BY <1>1, <1>2, <1>3, <1>4, <1>5 DEF RunOne

-----------------------------------------------------------------------------
(* Slots.                                                                  *)

Holders(x) == {t \in Tasks : Holds(t) /\ Profile(t) = x}

LEMMA OwnType ==
  ASSUME NEW x
  PROVE  IsFiniteSet(Holders(x)) /\ Own(x) = Cardinality(Holders(x)) /\ Own(x) \in Nat
<1>1. Holders(x) \in SUBSET Tasks
  BY DEF Holders
<1> QED BY <1>1, TasksFinite, FS_Subset, FS_CardinalityType DEF Own, Holders

\* How the slots of a batch change when a runner goes on.
LEMMA OwnStep ==
  ASSUME TypeOK, NEW t \in Tasks, NEW label, NEW x,
         pc' = [pc EXCEPT ![t] = label], UNCHANGED manifest
  PROVE  /\ (Holds(t) <=> label \in {"work", "release"}) => Own(x)' = Own(x)
         /\ ~Holds(t) /\ label = "work" =>
              Own(x)' = IF Profile(t) = x THEN Own(x) + 1 ELSE Own(x)
         /\ Holds(t) /\ label = "returned" =>
              Own(x)' = IF Profile(t) = x THEN Own(x) - 1 ELSE Own(x)
<1> DEFINE H == Holders(x)
<1>0. IsFiniteSet(H) /\ Own(x) = Cardinality(H) /\ Own(x)' = Cardinality(H')
  BY OwnType DEF Own, Holders
<1>1. \A s \in Tasks : /\ Profile(s)' = Profile(s)
                       /\ Holds(s)' <=> IF s = t THEN label \in {"work", "release"}
                                        ELSE Holds(s)
  BY DEF TypeOK, Holds, Profile, Task
<1>2. t \in H <=> Holds(t) /\ Profile(t) = x
  BY DEF Holders
<1>3. (Holds(t) <=> label \in {"work", "release"}) => H' = H
  BY <1>1 DEF Holders
<1>4. ASSUME ~Holds(t), label = "work"
      PROVE  H' = IF Profile(t) = x THEN H \cup {t} ELSE H
  BY <1>1, <1>4 DEF Holders
<1>5. ASSUME Holds(t), label = "returned"
      PROVE  H' = IF Profile(t) = x THEN H \ {t} ELSE H
  BY <1>1, <1>5 DEF Holders
<1> HIDE DEF H
<1>6. Cardinality(H \cup {t}) = IF t \in H THEN Cardinality(H) ELSE Cardinality(H) + 1
  BY <1>0, FS_AddElement
<1>7. Cardinality(H \ {t}) = IF t \in H THEN Cardinality(H) - 1 ELSE Cardinality(H)
  BY <1>0, FS_RemoveElement
<1> QED BY <1>0, <1>2, <1>3, <1>4, <1>5, <1>6, <1>7

\* A profile whose outside runs have reached the bound leaves room for none.
LEMMA OutsideBound ==
  ASSUME TypeOK, NEW x \in Profiles, OutsideTotal < MaxOutside
  PROVE  outside[x] < MaxOutside
<1> SUFFICES ASSUME outside[x] = MaxOutside  PROVE  FALSE
  BY OrchestrationAssumption DEF TypeOK
<1> DEFINE All == {h \in Profiles \X (1..MaxOutside) : h[2] <= outside[h[1]]}
           Mine == {x} \X (1..MaxOutside)
<1>0. MaxOutside \in Nat /\ IsFiniteSet(Profiles)
  BY OrchestrationAssumption
<1>1. IsFiniteSet(1..MaxOutside) /\ Cardinality(1..MaxOutside) = MaxOutside
  BY <1>0, FS_Interval
<1>2. Cardinality(Mine) = MaxOutside
  <2>1. IsFiniteSet({x}) /\ Cardinality({x}) = 1
    BY FS_Singleton
  <2>2. Cardinality(Mine) = 1 * MaxOutside
    BY <1>1, <2>1, FS_Product
  <2> QED BY <1>0, <2>2
<1>3. Mine \in SUBSET All
  BY <1>0
<1>4. All \in SUBSET (Profiles \X (1..MaxOutside))
  OBVIOUS
<1>5. IsFiniteSet(All)
  BY <1>0, <1>1, <1>4, FS_Product, FS_Subset
<1>6. Cardinality(Mine) <= Cardinality(All) /\ Cardinality(All) \in Nat
  BY <1>3, <1>5, FS_Subset, FS_CardinalityType
<1> QED BY <1>0, <1>2, <1>6 DEF OutsideTotal

LEMMA NobodyHolds ==
  ASSUME RunnerInv, phase # "wave", NEW x
  PROVE  Own(x) = 0
<1>1. \A t \in Tasks : ~Holds(t)
  BY DEF RunnerInv, Running, Holds
<1> QED BY <1>1, FS_EmptySet DEF Own

\* The slots keep their types and no profile has more out than it has: the
\* leases of a batch become leaked ones or are returned.
SlotsOK ==
  /\ outside \in [Profiles -> 0..MaxOutside] /\ leaked \in [Profiles -> Nat]
  /\ \A x \in Profiles : leaked[x] + Own(x) + outside[x] <= MaxSlots[x]

LEMMA ProfileType == ASSUME TypeOK, NEW t \in Tasks PROVE Profile(t) \in Profiles
  BY DEF TypeOK, Profile, Task, ManifestType, TaskType

LEMMA SlotTypes ==
  ASSUME TypeOK, NEW x \in Profiles
  PROVE  /\ Own(x) \in Nat /\ MaxSlots[x] \in Nat /\ outside[x] \in 0..MaxOutside
         /\ leaked[x] \in Nat /\ MaxOutside \in Nat
         /\ leaked[x] + Own(x) + outside[x] <= MaxSlots[x]
  BY OwnType, OrchestrationAssumption DEF TypeOK

\* Slots that only move from the batch to the leaked ones, or back.
LEMMA SlotsKept ==
  ASSUME TypeOK, outside' = outside, leaked' \in [Profiles -> Nat],
         \A x \in Profiles : leaked'[x] + Own(x)' <= leaked[x] + Own(x)
                             /\ Own(x)' \in Int
  PROVE  SlotsOK'
<1>1. ASSUME NEW x \in Profiles
      PROVE  leaked'[x] + Own(x)' + outside'[x] <= MaxSlots[x]
  BY <1>1, SlotTypes
<1> QED BY <1>1 DEF SlotsOK, TypeOK

LEMMA RunnerSlots ==
  ASSUME TypeOK, NEW t \in Tasks, RunOne(t)
  PROVE  SlotsOK'
<1>0. /\ \A x \in Profiles : Own(x) \in Nat
      /\ Profile(t) \in Profiles /\ leaked \in [Profiles -> Nat]
  BY OwnType, ProfileType DEF TypeOK
<1>1. ASSUME NEW label, pc' = [pc EXCEPT ![t] = label], UNCHANGED <<manifest, outside, leaked>>,
             Holds(t) <=> label \in {"work", "release"}
      PROVE  SlotsOK'
  <2>1. \A x \in Profiles : Own(x)' = Own(x)
    BY <1>1, OwnStep
  <2> QED BY <1>0, <1>1, <2>1, SlotsKept
<1>2. CASE Register(t) \/ Work(t)
  <2>1. PICK label : /\ pc' = [pc EXCEPT ![t] = label]
                     /\ Holds(t) <=> label \in {"work", "release"}
    BY <1>2 DEF Register, Work, Goto, Return, Holds, TypeOK
  <2> QED BY <1>1, <1>2, <2>1 DEF Register, Work, slots
<1>3. CASE Admit(t)
  <2>0. UNCHANGED <<outside, leaked, manifest>> /\ ~Holds(t)
    BY <1>3 DEF Admit, slots, Holds
  <2>1. CASE pc' = [pc EXCEPT ![t] = "work"]
    <3>1. Own(Profile(t)) + outside[Profile(t)] + leaked[Profile(t)] < MaxSlots[Profile(t)]
      BY <1>3, <2>1 DEF Admit, Goto, Return, TypeOK
    <3>2. ASSUME NEW x \in Profiles
          PROVE  leaked'[x] + Own(x)' + outside'[x] <= MaxSlots[x]
      <4>1. Own(x)' = IF Profile(t) = x THEN Own(x) + 1 ELSE Own(x)
        BY <2>0, <2>1, OwnStep
      <4> QED BY <2>0, <3>1, <4>1, SlotTypes
    <3> QED BY <2>0, <3>2 DEF SlotsOK, TypeOK
  <2>2. CASE pc' = [pc EXCEPT ![t] = "returned"]
    <3>1. Holds(t) <=> "returned" \in {"work", "release"}
      BY <2>0
    <3> QED BY <1>1, <2>0, <2>2, <3>1
  <2> QED BY <1>3, <2>1, <2>2 DEF Admit, Goto, Return
<1>4. ASSUME pc[t] = "release", pc' = [pc EXCEPT ![t] = "returned"], UNCHANGED manifest
      PROVE  \A x \in Profiles : Own(x)' = IF Profile(t) = x THEN Own(x) - 1 ELSE Own(x)
  <2>1. Holds(t)
    BY <1>4 DEF Holds
  <2> QED BY <1>4, <2>1, OwnStep
<1>6. CASE Release(t)
  <2>1. /\ UNCHANGED <<outside, leaked, manifest>> /\ pc[t] = "release"
        /\ pc' = [pc EXCEPT ![t] = "returned"]
    BY <1>6 DEF Release, Goto, slots
  <2> QED BY <1>0, <1>4, <2>1, SlotsKept
<1>7. CASE Raise(t)
  <2>0. UNCHANGED <<outside, manifest>>
    BY <1>7 DEF Raise
  <2>1. CASE pc[t] = "release"
    <3>1. /\ pc' = [pc EXCEPT ![t] = "returned"]
          /\ leaked' = [leaked EXCEPT ![Profile(t)] = @ + 1]
      BY <1>7, <2>1 DEF Raise, Goto
    <3>2. leaked' \in [Profiles -> Nat]
      BY <1>0, <3>1
    <3>3. \A x \in Profiles :
            leaked'[x] = IF Profile(t) = x THEN leaked[x] + 1 ELSE leaked[x]
      BY <1>0, <3>1
    <3> QED BY <1>0, <1>4, <2>0, <2>1, <3>1, <3>2, <3>3, SlotsKept
  <2>2. CASE pc[t] # "release"
    <3>1. UNCHANGED leaked
      BY <1>7, <2>2 DEF Raise
    <3>2. CASE pc[t] = "work"
      <4>1. pc' = [pc EXCEPT ![t] = "release"]
        BY <1>7, <3>2 DEF Raise, Goto
      <4>2. Holds(t) <=> "release" \in {"work", "release"}
        BY <3>2 DEF Holds
      <4> QED BY <1>1, <2>0, <3>1, <4>1, <4>2
    <3>3. CASE pc[t] # "work"
      <4>1. pc' = [pc EXCEPT ![t] = "returned"]
        BY <1>7, <3>3 DEF Raise, Goto
      <4>2. Holds(t) <=> "returned" \in {"work", "release"}
        BY <2>2, <3>3 DEF Holds
      <4> QED BY <1>1, <2>0, <3>1, <4>1, <4>2
    <3> QED BY <3>2, <3>3
  <2> QED BY <2>1, <2>2
<1> QED BY <1>2, <1>3, <1>6, <1>7 DEF RunOne

\* The steps that change no runner, and those at which no runner holds a slot.
LEMMA SlotsStep ==
  ASSUME TypeOK, RunnerInv, [Next]_vars
  PROVE  SlotsOK'
<1>0. \A x \in Profiles : Own(x) \in Nat
  BY OwnType
<1>1. ASSUME UNCHANGED <<pc, manifest>>
      PROVE  \A x : Own(x)' = Own(x)
  BY <1>1 DEF Own, Holds, Profile, Task
<1>2. ASSUME \A t \in Tasks : pc'[t] \notin {"work", "release"}
      PROVE  \A x : Own(x)' = 0
  BY <1>2, FS_EmptySet DEF Own, Holds
<1>3. ASSUME \A t \in Tasks : pc'[t] \notin {"work", "release"},
             UNCHANGED <<outside, leaked>>
      PROVE  SlotsOK'
  <2>1. \A x \in Profiles : leaked'[x] + Own(x)' <= leaked[x] + Own(x) /\ Own(x)' \in Int
    BY <1>2, <1>3, SlotTypes
  <2> QED BY <1>3, <2>1, SlotsKept DEF TypeOK
<1>4. CASE Begin
  <2>1. \A t \in Tasks : pc'[t] \notin {"work", "release"}
    BY <1>4 DEF Begin
  <2> QED BY <1>3, <1>4, <2>1 DEF Begin, slots
<1>5. CASE StartWave
  <2>1. \A t \in Tasks : pc[t] \notin {"work", "release"}
    BY <1>5 DEF StartWave, RunnerInv, Running
  <2>2. \A t \in Tasks : pc'[t] \notin {"work", "release"}
    BY <1>5, <2>1 DEF StartWave
  <2> QED BY <1>3, <1>5, <2>2 DEF StartWave, slots
<1>6. CASE Decide \/ EndWave \/ Summarise \/ UNCHANGED vars
  <2>1. UNCHANGED <<pc, manifest, outside, leaked>>
    BY <1>6 DEF Decide, EndWave, Summarise, vars, runs, slots
  <2>2. \A x \in Profiles : leaked'[x] + Own(x)' <= leaked[x] + Own(x) /\ Own(x)' \in Int
    BY <1>1, <2>1, SlotTypes
  <2> QED BY <2>1, <2>2, SlotsKept DEF TypeOK
<1>7. CASE Crash
  <2>1. /\ outside' = outside
        /\ leaked' = [x \in Profiles |-> leaked[x] + Own(x)]
        /\ \A t \in Tasks : pc'[t] = "waiting"
    BY <1>7 DEF Crash
  <2>2. leaked' \in [Profiles -> Nat]
    BY <1>0, <2>1, SlotTypes
  <2>3. \A x \in Profiles : leaked'[x] + Own(x)' <= leaked[x] + Own(x) /\ Own(x)' \in Int
    BY <1>2, <2>1, SlotTypes
  <2> QED BY <2>1, <2>2, <2>3, SlotsKept
<1>8. ASSUME NEW t \in Tasks, RunOne(t)  PROVE  SlotsOK'
  BY <1>8, RunnerSlots
<1>9. ASSUME NEW y \in Profiles, OutsideTakes(y)  PROVE  SlotsOK'
  <2>1. UNCHANGED <<pc, manifest, leaked>> /\ outside' = [outside EXCEPT ![y] = @ + 1]
    BY <1>9 DEF OutsideTakes, runs
  <2>2. outside[y] < MaxOutside /\ outside \in [Profiles -> 0..MaxOutside]
    BY <1>9, OutsideBound DEF OutsideTakes, TypeOK
  <2>3. outside' \in [Profiles -> 0..MaxOutside]
    BY <2>1, <2>2, SlotTypes
  <2>4. \A x \in Profiles : outside'[x] = IF x = y THEN outside[x] + 1 ELSE outside[x]
    BY <2>1, <2>2
  <2>5. Own(y) + outside[y] + leaked[y] < MaxSlots[y]
    BY <1>9 DEF OutsideTakes
  <2>6. ASSUME NEW x \in Profiles
        PROVE  leaked'[x] + Own(x)' + outside'[x] <= MaxSlots[x]
    <3>1. Own(x)' = Own(x) /\ leaked'[x] = leaked[x]
      BY <1>1, <2>1
    <3> QED BY <2>4, <2>5, <3>1, SlotTypes
  <2> QED BY <2>1, <2>3, <2>6 DEF SlotsOK, TypeOK
<1>10. ASSUME NEW y \in Profiles, OutsideReleases(y)  PROVE  SlotsOK'
  <2>1. UNCHANGED <<pc, manifest, leaked>> /\ outside' = [outside EXCEPT ![y] = @ - 1]
    BY <1>10 DEF OutsideReleases, runs
  <2>2. outside[y] > 0 /\ outside \in [Profiles -> 0..MaxOutside]
    BY <1>10 DEF OutsideReleases, TypeOK
  <2>3. outside' \in [Profiles -> 0..MaxOutside]
    BY <2>1, <2>2, SlotTypes
  <2>4. \A x \in Profiles : outside'[x] = IF x = y THEN outside[x] - 1 ELSE outside[x]
    BY <2>1, <2>2
  <2>6. ASSUME NEW x \in Profiles
        PROVE  leaked'[x] + Own(x)' + outside'[x] <= MaxSlots[x]
    <3>1. Own(x)' = Own(x) /\ leaked'[x] = leaked[x]
      BY <1>1, <2>1
    <3> QED BY <2>2, <2>4, <3>1, SlotTypes
  <2> QED BY <2>1, <2>3, <2>6 DEF SlotsOK, TypeOK
<1> QED BY <1>4, <1>5, <1>6, <1>7, <1>8, <1>9, <1>10 DEF Next, Orchestrate

-----------------------------------------------------------------------------
(* Types.                                                                  *)

LEMMA EmptyPlan == <<>> \in Seq(Seq(Tasks)) /\ 0 \in 0..Len(<<>>)
  OBVIOUS

LEMMA InitIInv == ASSUME Init PROVE IInv
<1>1. \A x : Own(x) = 0
  BY FS_EmptySet DEF Init, Own, Holds
<1>2. TypeOK
  <2>1. \A x \in Profiles : leaked[x] + Own(x) + outside[x] <= MaxSlots[x]
    BY <1>1, OrchestrationAssumption DEF Init
  <2>2. starts \in 0..MaxStarts /\ erred \in 0..MaxErrors /\ 0 \in 0..MaxOutside
    BY OrchestrationAssumption DEF Init
  <2>3. manifest \in ManifestType
    BY OrchestrationAssumption DEF Init
  <2> QED BY <2>1, <2>2, <2>3, EmptyPlan DEF Init, TypeOK
<1>3. PlanFits
  BY EmptyPlan DEF Init, PlanFits
<1> QED BY <1>2, <1>3 DEF Init, IInv, BatchInv, RunnerInv, WaveInv, StopHonoured, Running

LEMMA TypeStep ==
  ASSUME TypeOK, RunnerInv, BatchInv, PlanFits, PlanFits', [Next]_vars
  PROVE  TypeOK'
<1>0. SlotsOK' /\ plan' \in Seq(Seq(Tasks)) /\ plan \in Seq(Seq(Tasks))
  BY SlotsStep DEF PlanFits
<1>1. \A k \in DOMAIN plan : ToSet(plan[k]) \subseteq Tasks
  BY <1>0 DEF ToSet
<1>2. CASE Begin
  <2>1. snapshot' \in [Profiles -> Nat]
    BY <1>2, SlotTypes DEF Begin
  <2>2. starts' \in 0..MaxStarts
    BY <1>2, OrchestrationAssumption DEF Begin, TypeOK
  <2> QED BY <1>0, <1>2, <2>1, <2>2, EmptyPlan DEF Begin, TypeOK, SlotsOK, slots
<1>3. CASE Decide
  BY <1>0, <1>3 DEF Decide, BatchInv, TypeOK, SlotsOK, runs, slots, spent
<1>4. CASE StartWave
  <2>1. wave' \in DOMAIN plan /\ plan' = plan
    BY <1>0, <1>4 DEF StartWave, TypeOK
  <2>2. /\ skipped' \subseteq Tasks
        /\ pc' \in [Tasks -> {"waiting", "register", "admit", "work", "release",
                              "returned"}]
        /\ phase' \in {"next", "wave"}
    BY <1>1, <1>4, <2>1 DEF StartWave, TypeOK
  <2> QED BY <1>0, <1>4, <2>1, <2>2 DEF StartWave, TypeOK, SlotsOK, slots, spent
<1>5. CASE EndWave
  BY <1>0, <1>5 DEF EndWave, TypeOK, SlotsOK, runs, slots, spent
<1>6. CASE Summarise
  BY <1>0, <1>6 DEF Summarise, SummaryStatus, TypeOK, SlotsOK, runs, slots, spent
<1>7. CASE Crash
  BY <1>0, <1>7, EmptyPlan DEF Crash, TypeOK, SlotsOK, spent
<1>8. ASSUME NEW t \in Tasks, RunOne(t)  PROVE  TypeOK'
  <2>1. /\ UNCHANGED <<manifest, snapshot, batch, starts>> /\ done' \in SUBSET Tasks
        /\ pc' \in [Tasks -> {"waiting", "register", "admit", "work", "release",
                              "returned"}]
        /\ result' \in [Tasks -> {"none", "completed", "not_completed", "blocked",
                                  "slot_paused", "error"}]
    BY <1>8, RunnerStep DEF TypeOK
  <2>2. erred' \in 0..MaxErrors
    BY <1>8, OrchestrationAssumption
       DEF RunOne, Register, Admit, Work, Release, Raise, TypeOK, spent
  <2> QED BY <1>0, <2>1, <2>2 DEF TypeOK, SlotsOK, batch
<1>9. ASSUME NEW x \in Profiles, OutsideTakes(x) \/ OutsideReleases(x)  PROVE  TypeOK'
  BY <1>0, <1>9 DEF OutsideTakes, OutsideReleases, TypeOK, SlotsOK, batch, runs, spent
<1>10. CASE UNCHANGED vars
  BY <1>0, <1>10 DEF vars, TypeOK, SlotsOK, batch, runs, slots, spent
<1> QED BY <1>2, <1>3, <1>4, <1>5, <1>6, <1>7, <1>8, <1>9, <1>10 DEF Next, Orchestrate

-----------------------------------------------------------------------------
(* The batch and its runners.                                              *)

LEMMA BatchStep ==
  ASSUME TypeOK, RunnerInv, BatchInv, PlanFits, [Next]_vars
  PROVE  BatchInv'
<1>0. plan \in Seq(Seq(Tasks)) /\ wave \in 0..Len(plan)
  BY DEF PlanFits, TypeOK
<1>1. CASE Begin
  BY <1>1 DEF Begin, BatchInv
<1>2. CASE Decide
  BY <1>2 DEF Decide, BatchInv
<1>3. CASE StartWave
  <2>1. wave' \in DOMAIN plan
    BY <1>0, <1>3 DEF StartWave
  <2> QED BY <1>3, <2>1 DEF StartWave, BatchInv
<1>4. CASE EndWave
  BY <1>4 DEF EndWave, BatchInv
<1>5. CASE Summarise
  BY <1>5 DEF Summarise, BatchInv
<1>6. CASE Crash
  BY <1>6 DEF Crash, BatchInv
<1>7. ASSUME NEW t \in Tasks, RunOne(t)  PROVE  BatchInv'
  BY <1>7, RunnerStep DEF BatchInv, batch
<1>8. ASSUME NEW x \in Profiles, OutsideTakes(x) \/ OutsideReleases(x)  PROVE  BatchInv'
  BY <1>8 DEF OutsideTakes, OutsideReleases, BatchInv, batch
<1>9. CASE UNCHANGED vars
  BY <1>9 DEF vars, BatchInv, batch
<1> QED BY <1>1, <1>2, <1>3, <1>4, <1>5, <1>6, <1>7, <1>8, <1>9 DEF Next, Orchestrate

\* A task of the wave about to start has not been started.
LEMMA NextWaits ==
  ASSUME TypeOK, BatchInv, RunnerInv, WaveInv, PlanFits, StartWave,
         NEW t \in Tasks, t \in ToSet(plan[wave'])
  PROVE  pc[t] = "waiting" /\ result[t] = "none" /\ InWave(t, wave') /\ WaveOf(t) = wave + 1
<1>1. wave' \in DOMAIN plan /\ wave' = wave + 1 /\ wave \in Nat
  BY DEF StartWave, TypeOK, PlanFits
<1>2. InWave(t, wave + 1)
  BY <1>1 DEF InWave
<1>3. \A k \in 1..wave : ~InWave(t, k)
  BY <1>1, <1>2, OneWave
<1> QED BY <1>1, <1>2, <1>3, OneWave DEF WaveInv, RunnerInv

LEMMA RunnerInvStep ==
  ASSUME TypeOK, BatchInv, RunnerInv, WaveInv, PlanFits, [Next]_vars
  PROVE  RunnerInv'
<1>1. CASE Begin \/ Crash
  BY <1>1 DEF Begin, Crash, RunnerInv, Running
<1>2. ASSUME phase # "wave", UNCHANGED <<manifest, pc, result, done>>
      PROVE  RunnerInv'
  BY <1>2 DEF RunnerInv, Running, Task
<1>3. CASE Decide \/ Summarise
  <2>1. phase # "wave" /\ UNCHANGED <<manifest, pc, result, done>>
    BY <1>3 DEF Decide, Summarise, runs
  <2> QED BY <1>2, <2>1
<1>4. CASE StartWave
  <2>0. phase # "wave" /\ UNCHANGED <<manifest, plan, result, done>>
    BY <1>4 DEF StartWave
  <2>1. CASE stopped
    BY <1>2, <1>4, <2>0, <2>1 DEF StartWave
  <2>2. CASE ~stopped
    <3>1. phase' = "wave" /\ pc' = [t \in Tasks |-> IF t \in ToSet(plan[wave'])
                                                    THEN "register" ELSE pc[t]]
      BY <1>4, <2>2 DEF StartWave
    <3>2. \A t \in Tasks : t \in ToSet(plan[wave']) =>
            pc[t] = "waiting" /\ result[t] = "none" /\ InWave(t, wave)'
      BY <1>4, <2>0, NextWaits DEF InWave
    <3>3. \A t \in Tasks : pc[t] \notin Running
      BY <2>0 DEF RunnerInv
    <3> QED BY <2>0, <3>1, <3>2, <3>3 DEF RunnerInv, Running, Task
  <2> QED BY <2>1, <2>2
<1>5. CASE EndWave
  <2>1. \A t \in Tasks : pc[t] \notin Running
    BY <1>5 DEF EndWave, RunnerInv, InWave, Running
  <2>2. UNCHANGED <<manifest, pc, result, done>>
    BY <1>5 DEF EndWave, runs
  <2> QED BY <2>1, <2>2 DEF RunnerInv, Running, Task
<1>6. ASSUME NEW t \in Tasks, RunOne(t)  PROVE  RunnerInv'
  <2>1. /\ pc[t] \in Running /\ UNCHANGED <<manifest, phase, wave, plan>>
        /\ done' \ {t} = done \ {t}
    BY <1>6, RunnerStep DEF batch
  <2>2. PICK label \in {"admit", "work", "release", "returned"},
             r \in {"none", "completed", "not_completed", "blocked",
                    "slot_paused", "error"} :
          /\ pc' = [pc EXCEPT ![t] = label] /\ result' = [result EXCEPT ![t] = r]
          /\ label \in {"admit", "work"} <=> r = "none"
          /\ label \in {"admit", "work"} => Task(t).deps \subseteq Tasks
          /\ r = "completed" => t \in done'
    BY <1>6, RunnerStep
  <2>3. ASSUME NEW s \in Tasks
        PROVE  /\ pc'[s] \in {"waiting", "register", "admit", "work"} <=> result'[s] = "none"
               /\ pc'[s] \in {"admit", "work"} => Task(s)'.deps \subseteq Tasks
               /\ result'[s] = "completed" => s \in done'
               /\ pc'[s] \in Running => phase' = "wave" /\ InWave(s, wave)'
    <3>1. CASE s = t
      <4>1. pc'[t] = label /\ result'[t] = r
        BY <2>2 DEF TypeOK
      <4> QED BY <2>1, <2>2, <3>1, <4>1 DEF RunnerInv, Task, InWave
    <3>2. CASE s # t
      <4>1. pc'[s] = pc[s] /\ result'[s] = result[s] /\ (s \in done <=> s \in done')
        BY <2>1, <2>2, <3>2 DEF TypeOK
      <4> QED BY <2>1, <4>1 DEF RunnerInv, Task, InWave
    <3> QED BY <3>1, <3>2
  <2> QED BY <2>3 DEF RunnerInv
<1>7. ASSUME NEW x \in Profiles, OutsideTakes(x) \/ OutsideReleases(x)  PROVE  RunnerInv'
  BY <1>7 DEF OutsideTakes, OutsideReleases, RunnerInv, Task, InWave, batch, runs
<1>8. CASE UNCHANGED vars
  BY <1>8 DEF vars, RunnerInv, Task, InWave, batch, runs
<1> QED BY <1>1, <1>3, <1>4, <1>5, <1>6, <1>7, <1>8 DEF Next, Orchestrate

LEMMA WaveInvStep ==
  ASSUME TypeOK, BatchInv, RunnerInv, WaveInv, PlanFits, [Next]_vars
  PROVE  WaveInv'
<1>1. CASE Begin \/ Crash
  BY <1>1 DEF Begin, Crash, WaveInv
<1>2. CASE Decide
  <2>1. wave = 0 /\ wave' = 0 /\ UNCHANGED <<pc, result>>
    BY <1>2 DEF Decide, BatchInv, runs
  <2>2. \A t \in Tasks : pc[t] = "waiting" /\ result[t] = "none"
    BY <2>1 DEF WaveInv, RunnerInv
  <2> QED BY <2>1, <2>2 DEF WaveInv
<1>3. CASE Summarise
  BY <1>3 DEF Summarise, WaveInv, InWave, runs
<1>4. CASE StartWave
  <2>0. /\ phase = "next" /\ UNCHANGED <<manifest, plan, stopped, result>>
        /\ wave' = wave + 1 /\ wave \in Nat /\ wave' \in DOMAIN plan
    BY <1>4 DEF StartWave, TypeOK, PlanFits
  <2>1. \A t, k : InWave(t, k)' <=> InWave(t, k)
    BY <2>0 DEF InWave
  <2>2. \A t : InWave(t, wave + 1) <=> t \in ToSet(plan[wave + 1])
    BY <2>0 DEF InWave
  <2>3. \A k \in 1..wave' : k \in 1..wave \/ k = wave + 1
    BY <2>0
  <2>4. 1..wave \subseteq 1..wave' /\ wave + 1 \in 1..wave'
    BY <2>0
  <2>5. CASE stopped
    <3>1. UNCHANGED <<phase, pc>> /\ skipped' = skipped \cup ToSet(plan[wave + 1])
      BY <1>4, <2>0, <2>5 DEF StartWave
    <3> QED BY <2>0, <2>1, <2>2, <2>3, <2>4, <2>5, <3>1 DEF WaveInv
  <2>6. CASE ~stopped
    <3>1. /\ pc' = [t \in Tasks |-> IF t \in ToSet(plan[wave + 1])
                                    THEN "register" ELSE pc[t]]
          /\ phase' = "wave" /\ UNCHANGED skipped
      BY <1>4, <2>0, <2>6 DEF StartWave
    <3> QED BY <2>0, <2>1, <2>2, <2>3, <2>4, <2>6, <3>1 DEF WaveInv
  <2> QED BY <2>5, <2>6
<1>5. CASE EndWave
  <2>0. /\ phase = "wave" /\ UNCHANGED <<manifest, plan, wave, skipped, pc, result>>
        /\ stopped' = (manifest.stop /\ \E t \in ToSet(plan[wave]) : result[t] # "completed")
        /\ wave \in DOMAIN plan /\ ~stopped
    BY <1>5 DEF EndWave, BatchInv, runs
  <2>1. \A t, k : InWave(t, k)' <=> InWave(t, k)
    BY <2>0 DEF InWave
  <2>2. ASSUME NEW t \in Tasks, manifest.stop, result[t] \notin {"none", "completed"}
        PROVE  stopped'
    BY <2>0, <2>2 DEF WaveInv, InWave
  <2> QED BY <2>0, <2>1, <2>2 DEF WaveInv
<1>6. ASSUME NEW t \in Tasks, RunOne(t)  PROVE  WaveInv'
  <2>1. /\ pc[t] \in Running /\ UNCHANGED <<manifest, phase, wave, plan, stopped, skipped>>
    BY <1>6, RunnerStep DEF batch
  <2>2. PICK label \in {"admit", "work", "release", "returned"},
             r \in {"none", "completed", "not_completed", "blocked",
                    "slot_paused", "error"} :
          pc' = [pc EXCEPT ![t] = label] /\ result' = [result EXCEPT ![t] = r]
    BY <1>6, RunnerStep
  <2>3. phase = "wave" /\ InWave(t, wave) /\ wave \in 1..wave
    BY <2>1, OneWave DEF RunnerInv, BatchInv, TypeOK
  <2>4. \A s \in Tasks : s # t => pc'[s] = pc[s] /\ result'[s] = result[s]
    BY <2>2 DEF TypeOK
  <2>5. pc'[t] # "waiting"
    BY <2>2 DEF TypeOK
  <2>6. \A s, k : InWave(s, k)' <=> InWave(s, k)
    BY <2>1 DEF InWave
  <2>7. pc[t] # "waiting"
    BY <2>1 DEF Running
  <2> QED BY <2>1, <2>3, <2>4, <2>5, <2>6, <2>7 DEF WaveInv
<1>7. ASSUME NEW x \in Profiles, OutsideTakes(x) \/ OutsideReleases(x)  PROVE  WaveInv'
  BY <1>7 DEF OutsideTakes, OutsideReleases, WaveInv, InWave, batch, runs
<1>8. CASE UNCHANGED vars
  BY <1>8 DEF vars, WaveInv, InWave, batch, runs
<1> QED BY <1>1, <1>2, <1>3, <1>4, <1>5, <1>6, <1>7, <1>8 DEF Next, Orchestrate

-----------------------------------------------------------------------------
(* Stop policy, dependencies and summary.                                  *)

LEMMA StopStep ==
  ASSUME TypeOK, BatchInv, RunnerInv, WaveInv, StopHonoured, PlanFits,
         BatchInv', WaveInv', [Next]_vars
  PROVE  StopHonoured'
<1>1. ASSUME \A t \in Tasks : ~manifest'.stop \/ result'[t] \in {"none", "completed"}
      PROVE  StopHonoured'
  BY <1>1 DEF StopHonoured
<1>2. ASSUME UNCHANGED <<manifest, plan, pc, result>>  PROVE  StopHonoured'
  BY <1>2 DEF StopHonoured, WaveOf
<1>3. CASE Begin \/ Crash
  BY <1>1, <1>3 DEF Begin, Crash
<1>4. CASE Decide
  <2>1. \A t \in Tasks : result[t] = "none"
    BY <1>4 DEF Decide, BatchInv, WaveInv, RunnerInv
  <2> QED BY <1>1, <1>4, <2>1 DEF Decide, runs
<1>5. CASE StartWave
  <2>1. CASE stopped
    BY <1>2, <1>5, <2>1 DEF StartWave
  <2>2. CASE ~stopped
    <3>1. \A t \in Tasks : ~manifest.stop \/ result[t] \in {"none", "completed"}
      BY <1>5, <2>2 DEF StartWave, WaveInv
    <3> QED BY <1>1, <1>5, <3>1 DEF StartWave
  <2> QED BY <2>1, <2>2
<1>6. CASE EndWave \/ Summarise \/ UNCHANGED vars
  BY <1>2, <1>6 DEF EndWave, Summarise, vars, batch, runs
<1>7. ASSUME NEW t \in Tasks, RunOne(t)  PROVE  StopHonoured'
  <2>1. /\ pc[t] \in Running /\ UNCHANGED <<manifest, phase, wave, plan, stopped>>
    BY <1>7, RunnerStep DEF batch
  <2>2. phase' = "wave" /\ wave' \in Nat /\ ~stopped'
    BY <2>1 DEF RunnerInv, BatchInv, TypeOK
  <2>3. ASSUME NEW s \in Tasks, NEW u \in Tasks, manifest'.stop, pc'[u] # "waiting",
               result'[s] \notin {"none", "completed"}
        PROVE  WaveOf(u)' <= WaveOf(s)'
    <3>1. InWave(s, wave) /\ \E k \in 1..wave : InWave(u, k)
      BY <2>1, <2>2, <2>3 DEF WaveInv, InWave
    <3>2. WaveOf(s) = wave /\ WaveOf(u) \in 1..wave
      BY <3>1, OneWave
    <3>3. WaveOf(s)' = WaveOf(s) /\ WaveOf(u)' = WaveOf(u)
      BY <2>1 DEF WaveOf
    <3> QED BY <2>1, <2>2, <3>2, <3>3
  <2> QED BY <2>3 DEF StopHonoured
<1>8. ASSUME NEW x \in Profiles, OutsideTakes(x) \/ OutsideReleases(x)  PROVE  StopHonoured'
  BY <1>2, <1>8 DEF OutsideTakes, OutsideReleases, batch, runs
<1> QED BY <1>3, <1>4, <1>5, <1>6, <1>7, <1>8 DEF Next, Orchestrate

\* A task of an earlier wave that was not skipped has returned.
LEMMA EarlierReturned ==
  ASSUME IInv, NEW t \in Tasks, NEW k \in 1..wave, InWave(t, k),
         skipped = {}, phase = "wave" => k # wave
  PROVE  result[t] # "none"
<1>1. pc[t] # "waiting"
  BY DEF IInv, WaveInv
<1>2. pc[t] \notin Running
  BY OneWave DEF IInv, RunnerInv
<1> QED BY <1>1, <1>2 DEF IInv, RunnerInv, Running

LEMMA DependenciesOfWave == ASSUME IInv PROVE DependenciesOfThisRun
<1> SUFFICES ASSUME manifest.stop, NEW t \in Tasks, pc[t] = "work", NEW d \in Task(t).deps
             PROVE  result[d] = "completed"
  BY DEF DependenciesOfThisRun
<1>1. phase = "wave" /\ InWave(t, wave) /\ ~stopped /\ skipped = {} /\ d \in Tasks
  BY DEF IInv, RunnerInv, BatchInv, Running
<1>2. plan # <<>> /\ wave \in Nat /\ PlanFits
  BY <1>1 DEF InWave, IInv, TypeOK
<1>3. WaveOf(t) = wave /\ WaveOf(d) < WaveOf(t)
  BY <1>1, <1>2, OneWave, DependenciesFirst DEF PlanOrdersDependencies
<1>4. InWave(d, WaveOf(d)) /\ WaveOf(d) \in 1..wave /\ WaveOf(d) # wave
  BY <1>1, <1>2, <1>3, OneWave
<1>5. ~InWave(d, wave)
  BY <1>1, <1>2, <1>4, OneWave
<1>6. result[d] # "none"
  BY <1>1, <1>4, EarlierReturned
<1> QED BY <1>1, <1>5, <1>6 DEF IInv, WaveInv

LEMMA SummaryStep ==
  ASSUME IInv, BatchInv', SummaryHonest, [Next]_vars
  PROVE  SummaryHonest'
<1>1. CASE phase' # "ended"
  BY <1>1 DEF BatchInv, SummaryHonest
<1>2. CASE Summarise
  <2>0. /\ phase = "next" /\ wave = Len(plan) /\ summary' = SummaryStatus
        /\ UNCHANGED <<done, result>>
    BY <1>2 DEF Summarise, runs
  <2> SUFFICES ASSUME summary' = "completed", NEW t \in Tasks
               PROVE  t \in done /\ result[t] = "completed"
    BY <2>0 DEF SummaryHonest
  <2>1. PICK s \in Tasks : result[s] # "none"
    BY <2>0 DEF SummaryStatus, Returned
  <2>2. skipped = {} /\ \A u \in Tasks : result[u] # "none" => result[u] = "completed"
    BY <2>0 DEF SummaryStatus, Returned
  <2>3. pc[s] # "waiting"
    BY <2>1 DEF IInv, RunnerInv
  <2>4. plan # <<>> /\ PlanFits
    BY <2>3 DEF IInv, WaveInv, InWave
  <2>5. InWave(t, WaveOf(t)) /\ WaveOf(t) \in 1..wave
    BY <2>0, <2>4, OneWave
  <2>6. result[t] # "none"
    BY <2>0, <2>2, <2>5, EarlierReturned
  <2> QED BY <2>2, <2>6 DEF IInv, RunnerInv
<1>3. CASE UNCHANGED <<summary, done, result>>
  BY <1>3 DEF SummaryHonest
<1>4. [Next]_vars => phase' # "ended" \/ Summarise \/ UNCHANGED <<summary, done, result>>
  <2>1. ASSUME NEW t \in Tasks, RunOne(t)  PROVE  phase' # "ended"
    <3>1. pc[t] \in Running /\ phase' = phase
      BY <2>1, RunnerStep DEF IInv, batch
    <3> QED BY <3>1 DEF IInv, RunnerInv
  <2>2. ASSUME Orchestrate  PROVE  phase' # "ended" \/ Summarise
    BY <2>2 DEF Orchestrate, Begin, Decide, StartWave, EndWave, Crash
  <2>3. ASSUME NEW x \in Profiles, OutsideTakes(x) \/ OutsideReleases(x)
        PROVE  UNCHANGED <<summary, done, result>>
    BY <2>3 DEF OutsideTakes, OutsideReleases, batch, runs
  <2>4. UNCHANGED vars => UNCHANGED <<summary, done, result>>
    BY DEF vars, batch, runs
  <2> QED BY <2>1, <2>2, <2>3, <2>4 DEF Next
<1> QED BY <1>1, <1>2, <1>3, <1>4

-----------------------------------------------------------------------------
(* Workers at work.                                                        *)

\* What is at work is in the current wave, and that wave fits.
LEMMA CurrentWave ==
  ASSUME IInv, NEW t \in Tasks, pc[t] \in Running
  PROVE  /\ phase = "wave" /\ wave \in DOMAIN plan
         /\ WaveFits(plan[wave])
         /\ \E i \in DOMAIN plan[wave] : plan[wave][i] = t
<1>1. phase = "wave" /\ InWave(t, wave)
  BY DEF IInv, RunnerInv
<1>2. wave \in DOMAIN plan /\ \E i \in DOMAIN plan[wave] : plan[wave][i] = t
  BY <1>1 DEF InWave, ToSet
<1>3. plan # <<>>
  BY <1>2
<1> QED BY <1>1, <1>2, <1>3 DEF IInv, PlanFits, Sound

LEMMA WaveApart == ASSUME IInv PROVE ConflictsApart
<1> SUFFICES ASSUME NEW s \in Tasks, NEW t \in Tasks, s # t, pc[s] = "work", pc[t] = "work"
             PROVE  ~Conflict(s, t)
  BY DEF ConflictsApart
<1>1. pc[s] \in Running /\ pc[t] \in Running
  BY DEF Running
<1>2. PICK i \in DOMAIN plan[wave] : plan[wave][i] = s
  BY <1>1, CurrentWave
<1>3. PICK j \in DOMAIN plan[wave] : plan[wave][j] = t
  BY <1>1, CurrentWave
<1>4. WaveFits(plan[wave])
  BY <1>1, CurrentWave
<1> QED BY <1>2, <1>3, <1>4 DEF WaveFits

\* The tasks at some positions of a list are no more than the positions.
LEMMA Chosen ==
  ASSUME NEW w \in Seq(Tasks), NEW I \in SUBSET (DOMAIN w), NEW S \in SUBSET {w[i] : i \in I}
  PROVE  /\ IsFiniteSet(S) /\ Cardinality(S) \in Nat /\ Cardinality(S) <= Cardinality(I)
         /\ Cardinality(I) \in Nat /\ Cardinality(I) <= Len(w)
<1>1. DOMAIN w = 1..Len(w) /\ Len(w) \in Nat
  OBVIOUS
<1>2. IsFiniteSet(DOMAIN w) /\ Cardinality(DOMAIN w) = Len(w)
  <2> DEFINE n == Len(w)
  <2>1. n \in Nat /\ DOMAIN w = 1..n
    BY <1>1
  <2> HIDE DEF n
  <2>2. IsFiniteSet(1..n) /\ Cardinality(1..n) = n
    <3>1. 1 \in Int /\ n \in Int
      BY <2>1
    <3> QED BY <2>1, <3>1, FS_Interval
  <2> QED BY <2>1, <2>2 DEF n
<1>3. IsFiniteSet(I) /\ Cardinality(I) <= Len(w)
  BY <1>2, FS_Subset
<1> DEFINE T == {w[i] : i \in I}
           f == [i \in I |-> w[i]]
<1>4. f \in Surjection(I, T)
  BY DEF Surjection
<1> HIDE DEF f, T
<1>5. IsFiniteSet(T) /\ Cardinality(T) <= Cardinality(I)
  BY <1>3, <1>4, FS_Surjection
<1>6. S \in SUBSET T
  BY DEF T
<1>7. IsFiniteSet(S) /\ Cardinality(S) <= Cardinality(T)
  BY <1>5, <1>6, FS_Subset
<1>8. Cardinality(S) \in Nat /\ Cardinality(T) \in Nat /\ Cardinality(I) \in Nat
  BY <1>3, <1>5, <1>7, FS_CardinalityType
<1> QED BY <1>1, <1>3, <1>5, <1>7, <1>8

LEMMA WaveWithinBudget == ASSUME IInv PROVE WithinBudget
<1> DEFINE S == {t \in Tasks : pc[t] = "work"}
<1>1. manifest.concurrent \in 0..3
  BY DEF IInv, TypeOK, ManifestType
<1>2. CASE S = {}
  BY <1>1, <1>2, FS_EmptySet DEF WithinBudget
<1>3. CASE S # {}
  <2> DEFINE w == plan[wave]
  <2>1. ASSUME NEW t \in S  PROVE  WaveFits(w) /\ \E i \in DOMAIN w : w[i] = t
    BY <2>1, CurrentWave DEF Running
  <2>2. WaveFits(w)
    BY <1>3, <2>1
  <2>3. S \in SUBSET {w[i] : i \in DOMAIN w}
    BY <2>1
  <2> HIDE DEF S, w
  <2>4. w \in Seq(Tasks) /\ Len(w) <= manifest.concurrent /\ Len(w) \in Nat
    BY <2>2 DEF WaveFits
  <2>5. /\ Cardinality(S) \in Nat /\ Cardinality(S) <= Cardinality(DOMAIN w)
        /\ Cardinality(DOMAIN w) \in Nat /\ Cardinality(DOMAIN w) <= Len(w)
    BY <2>3, <2>4, Chosen
  <2> QED BY <1>1, <2>4, <2>5 DEF WithinBudget, S
<1> QED BY <1>2, <1>3

\* A task that Admit refuses has found more leases out than the decision counted:
\* with it the wave holds no more of its profile than were free.
LEMMA Refusal ==
  ASSUME IInv, NEW t \in Tasks, pc[t] = "admit",
         ~(Own(Profile(t)) + outside[Profile(t)] + leaked[Profile(t)] < MaxSlots[Profile(t)])
  PROVE  outside[Profile(t)] + leaked[Profile(t)] > snapshot[Profile(t)]
<1> DEFINE x == Profile(t)
           w == plan[wave]
           H == Holders(x)
           I == {i \in DOMAIN w : Profile(w[i]) = x}
<1>1. /\ WaveFits(w) /\ \E i \in DOMAIN w : w[i] = t
  BY CurrentWave DEF Running
<1>2. /\ x \in Profiles /\ Own(x) \in Nat /\ MaxSlots[x] \in Nat /\ outside[x] \in Nat
      /\ leaked[x] \in Nat /\ snapshot[x] \in Nat
  BY ProfileType, SlotTypes DEF IInv, TypeOK
<1>3. IsFiniteSet(H) /\ Own(x) = Cardinality(H) /\ t \notin H
  BY OwnType DEF Holders, Holds
<1>4. ASSUME NEW s \in H \cup {t}
      PROVE  \E i \in I : w[i] = s
  <2>1. s \in Tasks /\ pc[s] \in Running /\ Profile(s) = x
    BY <1>4 DEF Holders, Holds, Running
  <2>2. PICK i \in DOMAIN w : w[i] = s
    BY <2>1, CurrentWave
  <2> QED BY <2>1, <2>2
<1>5. SameProfile(w, t) = Cardinality(I)
  BY DEF SameProfile
<1>6. I \in SUBSET (DOMAIN w) /\ H \cup {t} \in SUBSET {w[i] : i \in I}
  BY <1>4
<1>7. SameProfile(w, t) <= AvailableSlots(x)
  BY <1>1 DEF WaveFits
<1>8. w \in Seq(Tasks)
  BY <1>1 DEF WaveFits
<1>9. ~(Own(x) + outside[x] + leaked[x] < MaxSlots[x])
  OBVIOUS
<1> HIDE DEF w, H, I, x
<1>10. Cardinality(H \cup {t}) = Cardinality(H) + 1
  BY <1>3, FS_AddElement
<1> DEFINE HT == H \cup {t}
<1>11. HT \in SUBSET {w[i] : i \in I}
  BY <1>6
<1> HIDE DEF HT
<1>12. Cardinality(HT) <= Cardinality(I) /\ Cardinality(I) \in Nat
  BY <1>6, <1>8, <1>11, Chosen
<1>13. Own(x) + 1 <= AvailableSlots(x) /\ AvailableSlots(x) \in Nat
  BY <1>2, <1>3, <1>5, <1>7, <1>10, <1>12 DEF HT, AvailableSlots
<1>14. AvailableSlots(x) = MaxSlots[x] - snapshot[x]
  BY <1>2, <1>13 DEF AvailableSlots
<1>15. outside[x] + leaked[x] > snapshot[x]
  BY <1>2, <1>9, <1>13, <1>14
<1> QED BY <1>15 DEF x

\* Only Admit makes a task pause for a slot.
LEMMA RefusedByAdmit ==
  ASSUME IInv, [Next]_vars, NEW t \in Tasks,
         result[t] # "slot_paused", result'[t] = "slot_paused"
  PROVE  /\ pc[t] = "admit"
         /\ ~(Own(Profile(t)) + outside[Profile(t)] + leaked[Profile(t)]
                < MaxSlots[Profile(t)])
<1>0. result \in [Tasks -> {"none", "completed", "not_completed", "blocked",
                            "slot_paused", "error"}]
  BY DEF IInv, TypeOK
<1>1. ~UNCHANGED result
  OBVIOUS
<1>2. ~Begin /\ ~Crash
  BY DEF Begin, Crash
<1>3. ~Decide /\ ~StartWave /\ ~EndWave /\ ~Summarise
  BY <1>1 DEF Decide, StartWave, EndWave, Summarise, runs
<1>4. ASSUME NEW x \in Profiles  PROVE  ~OutsideTakes(x) /\ ~OutsideReleases(x)
  BY <1>1 DEF OutsideTakes, OutsideReleases, runs
<1>5. ~UNCHANGED vars
  BY <1>1 DEF vars, runs
<1>6. PICK u \in Tasks : RunOne(u)
  BY <1>2, <1>3, <1>4, <1>5 DEF Next, Orchestrate
<1>7. ~Release(u) /\ ~Register(u) /\ ~Work(u) /\ ~Raise(u)
  BY <1>0, <1>1 DEF Release, Register, Work, Raise, Goto, Return
<1>8. Admit(u)
  BY <1>6, <1>7 DEF RunOne
<1>9. u = t
  BY <1>0, <1>1, <1>8 DEF Admit, Goto, Return
<1> QED BY <1>1, <1>8, <1>9 DEF Admit, Return, Goto

-----------------------------------------------------------------------------

LEMMA Inductive == Spec => [](IInv /\ SummaryHonest)
<1>1. Init => IInv /\ SummaryHonest
  BY InitIInv DEF Init, SummaryHonest
<1>2. IInv /\ SummaryHonest /\ [Next]_vars => (IInv /\ SummaryHonest)'
  <2> SUFFICES ASSUME IInv, SummaryHonest, [Next]_vars
               PROVE  (IInv /\ SummaryHonest)'
    OBVIOUS
  <2>0. PlanFits'
    BY PlanStep DEF IInv
  <2>1. TypeOK' /\ BatchInv' /\ RunnerInv' /\ WaveInv'
    BY <2>0, TypeStep, BatchStep, RunnerInvStep, WaveInvStep DEF IInv
  <2>2. StopHonoured'
    BY <2>1, StopStep DEF IInv
  <2>3. SummaryHonest'
    BY <2>1, SummaryStep
  <2> QED BY <2>0, <2>1, <2>2, <2>3 DEF IInv
<1> QED BY <1>1, <1>2, PTL DEF Spec

\* Every variable of a batch keeps its type and no profile has more leases out
\* than it has slots, whatever manifest is run and whoever raises.
THEOREM TypeCorrect == Spec => []TypeOK
<1>1. IInv => TypeOK
  BY DEF IInv
<1> QED BY <1>1, Inductive, PTL

\* The waves of _build_waves hold every task of the manifest exactly once,
\* however often a group was too small and its rest was put back.
THEOREM PlanHoldsEachTaskHolds == Spec => []PlanHoldsEachTask
<1>1. IInv => PlanHoldsEachTask
  BY EachTaskOnce DEF IInv
<1> QED BY <1>1, Inductive, PTL

\* _build_waves puts a task in a later wave than all its dependencies.
THEOREM PlanOrdersDependenciesHolds == Spec => []PlanOrdersDependencies
<1>1. IInv => PlanOrdersDependencies
  BY DependenciesFirst DEF IInv
<1> QED BY <1>1, Inductive, PTL

\* No two tasks that conflict are at work at once, in the pool of _run_wave or
\* because one wave began before another ended.
THEOREM ConflictsApartHolds == Spec => []ConflictsApart
<1>1. IInv => ConflictsApart
  BY WaveApart DEF IInv
<1> QED BY <1>1, Inductive, PTL

\* The tasks at work at any time are within the budget of concurrent workers.
THEOREM WithinBudgetHolds == Spec => []WithinBudget
<1>1. IInv => WithinBudget
  BY WaveWithinBudget DEF IInv
<1> QED BY <1>1, Inductive, PTL

\* admission.acquire_slot refuses a task of a wave only when others hold more
\* leases than the decision counted.
THEOREM RefusedOnlyByOthersHolds == Spec => RefusedOnlyByOthers
<1> DEFINE A == \A t \in Tasks :
                  (result[t] # "slot_paused" /\ result'[t] = "slot_paused") =>
                    outside[Profile(t)] + leaked[Profile(t)] > snapshot[Profile(t)]
<1>1. IInv /\ [Next]_vars => [A]_vars
  <2>1. ASSUME IInv, [Next]_vars, NEW t \in Tasks,
               result[t] # "slot_paused", result'[t] = "slot_paused"
        PROVE  outside[Profile(t)] + leaked[Profile(t)] > snapshot[Profile(t)]
    BY <2>1, Refusal, RefusedByAdmit
  <2> QED BY <2>1
<1>2. RefusedOnlyByOthers <=> [][A]_vars
  BY PTL DEF RefusedOnlyByOthers
<1> HIDE DEF A
<1>3. Spec => []IInv
  BY Inductive, PTL
<1>4. Spec => [][A]_vars
  BY <1>1, <1>3, PTL DEF Spec
<1> QED BY <1>2, <1>4

\* Once a runner has returned anything but "completed", the stop policy of
\* run_orchestration_manifest_v2 lets no task of a later wave start.
THEOREM StopHonouredHolds == Spec => []StopHonoured
<1>1. IInv => StopHonoured
  BY DEF IInv
<1> QED BY <1>1, Inductive, PTL

\* With the stop policy a worker runs on dependencies this run of the manifest
\* completed, never on rows left by an earlier one.
THEOREM DependenciesOfThisRunHolds == Spec => []DependenciesOfThisRun
<1>1. IInv => DependenciesOfThisRun
  BY DependenciesOfWave
<1> QED BY <1>1, Inductive, PTL

\* orchestration-execution.json says "completed" only when every task of the
\* manifest has a completed row and a completed result of this run.
THEOREM SummaryHonestHolds == Spec => []SummaryHonest
BY Inductive, PTL

-----------------------------------------------------------------------------
(* A batch goes forward.                                                   *)

\* How far a runner is, and the steps the batch itself has left.
Place == [waiting |-> 0, register |-> 1, admit |-> 2, work |-> 3, release |-> 4,
          returned |-> 5]
BatchLeft == IF phase = "next" THEN 2 * (Len(plan) - wave) + 1
             ELSE IF phase = "wave" THEN 2 * (Len(plan) - wave) + 2 ELSE 0

Onward(t) == \/ pc'[t] = pc[t] /\ result'[t] = result[t]
             \/ Place[pc[t]] < Place[pc'[t]]

LEMMA Places ==
  /\ Place["waiting"] = 0 /\ Place["register"] = 1 /\ Place["admit"] = 2
  /\ Place["work"] = 3 /\ Place["release"] = 4 /\ Place["returned"] = 5
BY DEF Place

\* A runner goes on to a later call.
LEMMA RunnerOnward ==
  ASSUME TypeOK, NEW t \in Tasks, RunOne(t)
  PROVE  \A u \in Tasks : Onward(u)
<1>0. /\ pc \in [Tasks -> {"waiting", "register", "admit", "work", "release", "returned"}]
      /\ result \in [Tasks -> {"none", "completed", "not_completed", "blocked",
                               "slot_paused", "error"}]
  BY DEF TypeOK
<1> USE <1>0, Places DEF Goto, Return, Onward
<1>1. CASE Register(t)
  BY <1>1 DEF Register
<1>2. CASE Admit(t)
  BY <1>2 DEF Admit
<1>3. CASE Work(t)
  BY <1>3 DEF Work
<1>4. CASE Release(t)
  BY <1>4 DEF Release
<1>5. CASE Raise(t)
  BY <1>5 DEF Raise
<1> QED BY <1>1, <1>2, <1>3, <1>4, <1>5 DEF RunOne

\* A wave starts only tasks that no earlier wave has started.
LEMMA WaveOnward ==
  ASSUME IInv, StartWave
  PROVE  \A t \in Tasks : Onward(t)
<1>1. /\ wave \in Nat /\ wave + 1 \in DOMAIN plan /\ wave' = wave + 1
      /\ pc \in [Tasks -> {"waiting", "register", "admit", "work", "release", "returned"}]
  BY DEF StartWave, IInv, TypeOK
<1>2. ASSUME NEW t \in Tasks, t \in ToSet(plan[wave + 1])  PROVE  pc[t] = "waiting"
  <2>1. InWave(t, wave + 1)
    BY <1>1, <1>2 DEF InWave
  <2>2. \A k \in 1..wave : ~InWave(t, k)
    <3>1. \A k \in 1..wave : k # wave + 1
      BY <1>1
    <3> QED BY <2>1, <3>1, OneWave DEF IInv
  <2> QED BY <2>2 DEF IInv, WaveInv
<1>3. UNCHANGED result
  BY DEF StartWave
<1> QED BY <1>1, <1>2, <1>3, Places DEF StartWave, Onward

\* In one run of a manifest no task is run twice and no result replaced once it
\* is returned: but for a new run and a kill, every step leaves a task where it
\* is or takes it further, although the waves, the runners and their errors are
\* interleaved in any order.
THEOREM TasksRunOnce ==
  Spec => [][Begin \/ Crash \/ \A t \in Tasks : Onward(t)]_vars
<1>1. ASSUME IInv, [Next]_vars, ~Begin, ~Crash  PROVE  \A t \in Tasks : Onward(t)
  <2>1. ASSUME NEW t \in Tasks, RunOne(t)  PROVE  \A u \in Tasks : Onward(u)
    BY <1>1, <2>1, RunnerOnward DEF IInv
  <2>2. CASE StartWave
    BY <1>1, <2>2, WaveOnward
  <2>3. CASE ~StartWave /\ \A t \in Tasks : ~RunOne(t)
    <3>1. UNCHANGED <<pc, result>>
      BY <1>1, <2>3 DEF Next, Orchestrate, Decide, EndWave, Summarise, OutsideTakes,
                        OutsideReleases, vars, runs
    <3> QED BY <3>1 DEF Onward
  <2> QED BY <2>1, <2>2, <2>3
<1>2. IInv /\ SummaryHonest /\ [Next]_vars =>
        Begin \/ Crash \/ \A t \in Tasks : Onward(t)
  BY <1>1
<1> QED BY <1>2, Inductive, PTL DEF Spec

\* A batch ends: once its waves are decided, every step leaves the batch where
\* it is or leaves it fewer steps, twice as many as there are waves at most.  Only
\* a runner that does not return keeps it from its summary.
THEOREM BatchEnds ==
  Spec => /\ [](BatchLeft \in 0..(2 * Len(plan) + 1))
          /\ [][\/ Begin \/ phase = "decide"
                \/ UNCHANGED <<plan, phase, wave>> \/ BatchLeft' < BatchLeft]_vars
<1>1. ASSUME TypeOK, BatchInv  PROVE  BatchLeft \in 0..(2 * Len(plan) + 1)
  <2>1. Len(plan) \in Nat /\ wave \in 0..Len(plan) /\ (phase = "wave" => wave \in 1..Len(plan))
    BY <1>1 DEF TypeOK, BatchInv
  <2> QED BY <2>1 DEF BatchLeft
<1>2. ASSUME TypeOK, BatchInv, [Next]_vars, ~Begin, phase # "decide"
      PROVE  UNCHANGED <<plan, phase, wave>> \/ BatchLeft' < BatchLeft
  <2>1. /\ Len(plan) \in Nat /\ wave \in 0..Len(plan)
        /\ phase \in {"idle", "decide", "next", "wave", "raised", "ended"}
    BY <1>2 DEF TypeOK
  <2>2. CASE StartWave
    BY <2>1, <2>2 DEF StartWave, BatchLeft
  <2>3. CASE EndWave
    BY <2>1, <2>3 DEF EndWave, BatchLeft
  <2>4. CASE Summarise
    BY <2>1, <2>4 DEF Summarise, BatchLeft
  <2>5. CASE Crash
    BY <1>2, <2>1, <2>5 DEF Crash, BatchLeft
  <2>6. ASSUME NEW t \in Tasks, RunOne(t)  PROVE  UNCHANGED <<plan, phase, wave>>
    BY <2>6 DEF RunOne, Register, Admit, Work, Release, Raise, batch
  <2>7. CASE UNCHANGED batch
    BY <2>7 DEF batch
  <2> QED BY <1>2, <2>2, <2>3, <2>4, <2>5, <2>6, <2>7
        DEF Next, Orchestrate, Decide, OutsideTakes, OutsideReleases, vars
<1>3. IInv => BatchLeft \in 0..(2 * Len(plan) + 1)
  BY <1>1 DEF IInv
<1>4. IInv /\ [Next]_vars =>
        \/ Begin \/ phase = "decide"
        \/ UNCHANGED <<plan, phase, wave>> \/ BatchLeft' < BatchLeft
  BY <1>2 DEF IInv
<1> QED BY <1>3, <1>4, Inductive, PTL DEF Spec
=============================================================================
