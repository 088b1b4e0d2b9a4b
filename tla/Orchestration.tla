--------------------------- MODULE Orchestration ---------------------------
(***************************************************************************)
(* Guarded orchestration of a batch: the decision engine                   *)
(* (adaptive_orchestration.py) turns a manifest into waves of tasks, and   *)
(* run_orchestration_manifest_v2 (runtime_v2/orchestration.py) runs the    *)
(* waves, each task through its own runner of the v2 kernel.               *)
(*                                                                         *)
(* The leases are counted once, before the waves are planned; admission    *)
(* counts them again for every task, while runs outside the batch come and *)
(* go.  A path pattern is the set of areas it can match, so two patterns   *)
(* overlap when the sets meet.  RuntimeV2 has the kernel in full; a run    *)
(* here has the calls the batch can tell apart.                            *)
(***************************************************************************)
EXTENDS Naturals, Sequences, FiniteSets, SequencesExt, Lists

CONSTANTS
  Ids,             \* the task ids of the manifest, sorted
  Profiles,        \* worker profiles
  MaxSlots,        \* max_active_leases of each profile
  Areas,           \* parts of the repository that patterns match
  PolicySurface,   \* areas of policy_surface_globs
  TruthSources,    \* areas of the manifest's truth_sources
  Manifests,       \* manifests with the profile they name, see ManifestType
  MaxStarts,       \* bound: runs of the manifest
  MaxOutside,      \* bound: leases taken by runs outside the batch
  MaxErrors        \* bound: calls that raise

Tasks == ToSet(Ids)

\* "sound" gathers the facts of a task and its worker profile that
\* _task_route blocks on and that no other part of the decision reads.
TaskType == [deps: SUBSET (Tasks \cup {"unknown"}), write: BOOLEAN,
             reads: SUBSET Areas, writes: SUBSET Areas, allowed: SUBSET Areas,
             worktree: STRING, verified: BOOLEAN, profile: Profiles,
             sound: BOOLEAN]

\* The effective budgets, policies and the flags of the named profile.
\* _effective_budgets: no concurrency means no budget at all.
ManifestType ==
  {m \in [tasks: [Tasks -> TaskType], guarded: BOOLEAN,
          concurrent: 0..3, total: 0..6, min: Nat \ {0},
          read_only: BOOLEAN, writers: BOOLEAN, isolated: BOOLEAN,
          single: BOOLEAN, reject: BOOLEAN, stop: BOOLEAN] :
     m.concurrent <= m.total /\ (m.concurrent = 0 => m.total = 0)}

ASSUME OrchestrationAssumption ==
  /\ Ids \in Seq(STRING) /\ Ids # <<>>
  /\ \A i, j \in DOMAIN Ids : Ids[i] = Ids[j] => i = j
  /\ IsFiniteSet(Profiles)
  /\ MaxSlots \in [Profiles -> Nat \ {0}]
  /\ PolicySurface \subseteq Areas /\ TruthSources \subseteq Areas
  /\ Manifests \subseteq ManifestType
  /\ MaxStarts \in Nat /\ MaxOutside \in Nat /\ MaxErrors \in Nat

VARIABLES
  manifest,   \* the manifest
  snapshot,   \* read_active_leases: unreleased leases of each profile
  plan,       \* decision["waves"]: the task ids of each wave
  phase,      \* where run_orchestration_manifest_v2 is
  wave,       \* the wave it runs, 0 before the first
  stopped,    \* stop_requested
  skipped,    \* skipped_task_ids
  pc,         \* the next call of each task's runner
  result,     \* the status _run_wave returns for each task, or "none"
  done,       \* tasks whose row of the control plane is "completed"
  outside,    \* leases of each profile held by runs outside the batch
  leaked,     \* leases of each profile whose owner never released them
  summary,    \* status of orchestration-execution.json, or "none"
  starts, erred   \* how much of each bound is used

batch == <<plan, phase, wave, stopped, skipped, summary>>
runs  == <<pc, result, done>>
slots == <<outside, leaked>>
spent == <<starts, erred>>
vars  == <<manifest, snapshot, batch, runs, slots, spent>>

Task(t) == manifest.tasks[t]
Profile(t) == Task(t).profile
Holds(t) == pc[t] \in {"work", "release"}
Own(profile) == Cardinality({t \in Tasks : Holds(t) /\ Profile(t) = profile})

Init ==
  /\ manifest \in Manifests
  /\ snapshot = [x \in Profiles |-> 0]
  /\ plan = <<>>
  /\ phase = "idle"
  /\ wave = 0
  /\ stopped = FALSE
  /\ skipped = {}
  /\ pc = [t \in Tasks |-> "waiting"]
  /\ result = [t \in Tasks |-> "none"]
  /\ done = {}
  /\ outside = [x \in Profiles |-> 0]
  /\ leaked = [x \in Profiles |-> 0]
  /\ summary = "none"
  /\ starts = 0 /\ erred = 0

---------------------------------------------------------------------------
\* The decision engine: dependencies, conflicts and routes

\* Mutant: a task is ready with one of its dependencies left.
ReadyTooSoon(rest) ==
  {t \in rest : Cardinality(Task(t).deps \cap rest) < 2}

\* Kahn's algorithm: what is left of the tasks after n layers.
Ready(rest) == {t \in rest : Task(t).deps \cap rest = {}}
Remaining[n \in Nat] ==
  IF n = 0 THEN Tasks ELSE Remaining[n - 1] \ Ready(Remaining[n - 1])
Layer(n) == Keep(Ids, Ready(Remaining[n - 1]))

DependencyIssues ==
  Remaining[Len(Ids)] # {} \/ \E t \in Tasks : "unknown" \in Task(t).deps

Meet(a, b) == a \cap b # {}
WriteScope(t) == IF Task(t).writes # {} THEN Task(t).writes ELSE Task(t).allowed

Conflict(s, t) ==
  /\ Task(s).write \/ Task(t).write
  /\ \/ Task(s).write /\ Task(s).writes = {}
     \/ Task(t).write /\ Task(t).writes = {}
     \/ Meet(Task(s).writes, Task(t).writes \cup Task(t).reads)
     \/ Meet(Task(t).writes, Task(s).reads)
     \/ /\ Task(s).write /\ Task(t).write
        /\ \/ Meet(WriteScope(s), PolicySurface) /\ Meet(WriteScope(t), PolicySurface)
           \/ Meet(WriteScope(s), TruthSources) /\ Meet(WriteScope(t), TruthSources)
           \/ Task(s).worktree = Task(t).worktree
AnyConflict == \E s, t \in Tasks : s # t /\ Conflict(s, t)

\* max(0, max_active_leases - active leases): natural subtraction at zero.
AvailableSlots(x) ==
  IF snapshot[x] >= MaxSlots[x] THEN 0 ELSE MaxSlots[x] - snapshot[x]

RouteBlocked(t) ==
  \/ ~Task(t).sound
  \/ AvailableSlots(Profile(t)) = 0
  \/ Task(t).write /\ manifest.isolated /\ ~Task(t).verified

Eligible(t) ==
  /\ ~RouteBlocked(t)
  /\ IF ~Task(t).write THEN manifest.read_only
     ELSE manifest.writers /\ (manifest.isolated => Task(t).verified)

GuardedReady ==
  /\ ~DependencyIssues
  /\ \A t \in Tasks : ~RouteBlocked(t)
  /\ ~(manifest.reject /\ AnyConflict)
  /\ manifest.guarded
  /\ Cardinality(Tasks) <= manifest.total

---------------------------------------------------------------------------
\* The decision engine: waves

SameProfile(group, t) ==
  Cardinality({i \in DOMAIN group : Profile(group[i]) = Profile(t)})

\* Mutant: the free slots of the profile are not looked at.
JoinsAnyProfile(group, delegated, t) ==
  /\ Len(group) < manifest.concurrent
  /\ delegated + Len(group) + 1 <= manifest.total
  /\ Eligible(t)
  /\ \A i \in DOMAIN group : ~Conflict(t, group[i])

\* Mutant: conflicts are looked for with the first task of the group only.
JoinsFirst(group, delegated, t) ==
  /\ Len(group) < manifest.concurrent
  /\ delegated + Len(group) + 1 <= manifest.total
  /\ Eligible(t)
  /\ SameProfile(group, t) < AvailableSlots(Profile(t))
  /\ ~Conflict(t, group[1])

\* Mutant: the wave may be one task larger than the budget.
JoinsOneMore(group, delegated, t) ==
  /\ Len(group) <= manifest.concurrent
  /\ delegated + Len(group) + 1 <= manifest.total
  /\ Eligible(t)
  /\ SameProfile(group, t) < AvailableSlots(Profile(t))
  /\ \A i \in DOMAIN group : ~Conflict(t, group[i])

\* Whether _build_waves adds candidate t to the tasks it has grouped.
Joins(group, delegated, t) ==
  /\ Len(group) < manifest.concurrent
  /\ delegated + Len(group) + 1 <= manifest.total
  /\ Eligible(t)
  /\ SameProfile(group, t) < AvailableSlots(Profile(t))
  /\ \A i \in DOMAIN group : ~Conflict(t, group[i])

ForceSerial == manifest.single \/ manifest.concurrent < 2

Group(pending, delegated) ==
  IF ForceSerial \/ ~Eligible(Head(pending)) THEN <<Head(pending)>>
  ELSE LET rest == Tail(pending)
           grown[n \in 0..Len(rest)] ==
             IF n = 0 THEN <<Head(pending)>>
             ELSE LET group == grown[n - 1]
                  IN  IF Joins(group, delegated, rest[n])
                      THEN Append(group, rest[n]) ELSE group
       IN  grown[Len(rest)]

\* Mutant: the rest of a group that is too small is lost.
CutWaveDropsRest(s) ==
  LET group == Group(s.pending, s.delegated)
      rest == Keep(s.pending, Tasks \ ToSet(group))
      parallel == /\ Len(group) >= manifest.min
                  /\ s.delegated + Len(group) <= manifest.total
  IN  IF parallel
      THEN [s EXCEPT !.pending = rest, !.waves = Append(@, group),
                     !.delegated = @ + Len(group)]
      ELSE [s EXCEPT !.pending = rest, !.waves = Append(@, <<Head(group)>>)]

\* A group that is too small gives one task to a serial wave, and the rest
\* goes back to the front of the list.
CutWave(s) ==
  LET group == Group(s.pending, s.delegated)
      rest == Keep(s.pending, Tasks \ ToSet(group))
      parallel == /\ Len(group) >= manifest.min
                  /\ s.delegated + Len(group) <= manifest.total
  IN  IF parallel
      THEN [s EXCEPT !.pending = rest, !.waves = Append(@, group),
                     !.delegated = @ + Len(group)]
      ELSE [s EXCEPT !.pending = Tail(group) \o rest,
                     !.waves = Append(@, <<Head(group)>>)]

\* The loop of _build_waves over the layers, one wave or one layer a turn.
Waves ==
  LET Turn(s) == IF s.pending # <<>> THEN CutWave(s)
                 ELSE [s EXCEPT !.layer = @ + 1, !.pending = Layer(s.layer + 1)]
      after[n \in Nat] ==
        IF n = 0 THEN [layer |-> 0, pending |-> <<>>, waves |-> <<>>, delegated |-> 0]
        ELSE Turn(after[n - 1])
  IN  after[2 * Len(Ids)].waves

---------------------------------------------------------------------------
\* run_orchestration_manifest_v2

\* The count of leases on which the decision is taken.
Begin ==
  /\ phase \in {"idle", "raised", "ended"} /\ starts < MaxStarts
  /\ snapshot' = [x \in Profiles |-> outside[x] + leaked[x]]
  /\ phase' = "decide"
  /\ plan' = <<>> /\ wave' = 0
  /\ stopped' = FALSE /\ skipped' = {} /\ summary' = "none"
  /\ pc' = [t \in Tasks |-> "waiting"]
  /\ result' = [t \in Tasks |-> "none"]
  /\ starts' = starts + 1
  /\ UNCHANGED <<manifest, done, slots, erred>>

Decide ==
  /\ phase = "decide"
  /\ IF GuardedReady THEN plan' = Waves /\ phase' = "next"
     ELSE plan' = plan /\ phase' = "raised"
  /\ UNCHANGED <<manifest, snapshot, wave, stopped, skipped, summary, runs, slots, spent>>

\* A parallel wave submits all its tasks to the pool, a serial one has one.
StartWave ==
  /\ phase = "next" /\ wave < Len(plan)
  /\ wave' = wave + 1
  /\ IF stopped
     THEN /\ skipped' = skipped \cup ToSet(plan[wave'])
          /\ UNCHANGED <<phase, pc>>
     ELSE /\ phase' = "wave"
          /\ pc' = [t \in Tasks |-> IF t \in ToSet(plan[wave']) THEN "register" ELSE pc[t]]
          /\ UNCHANGED skipped
  /\ UNCHANGED <<manifest, snapshot, plan, stopped, summary, result, done, slots, spent>>

\* Mutant: the batch stops only when no task of the wave completed.
EndWaveStopsOnAll ==
  /\ phase = "wave"
  /\ \A t \in ToSet(plan[wave]) : pc[t] = "returned"
  /\ stopped' = (manifest.stop /\ \A t \in ToSet(plan[wave]) : result[t] # "completed")
  /\ phase' = "next"
  /\ UNCHANGED <<manifest, snapshot, plan, wave, skipped, summary, runs, slots, spent>>

\* Mutant: a task whose runner raised does not stop the batch.
EndWaveIgnoresErrors ==
  /\ phase = "wave"
  /\ \A t \in ToSet(plan[wave]) : pc[t] = "returned"
  /\ stopped' = (manifest.stop /\ \E t \in ToSet(plan[wave]) :
                                     result[t] \notin {"completed", "error"})
  /\ phase' = "next"
  /\ UNCHANGED <<manifest, snapshot, plan, wave, skipped, summary, runs, slots, spent>>

EndWave ==
  /\ phase = "wave"
  /\ \A t \in ToSet(plan[wave]) : pc[t] = "returned"
  /\ stopped' = (manifest.stop /\ \E t \in ToSet(plan[wave]) : result[t] # "completed")
  /\ phase' = "next"
  /\ UNCHANGED <<manifest, snapshot, plan, wave, skipped, summary, runs, slots, spent>>

\* The tasks that _run_wave returned a result for.
Returned == {t \in Tasks : result[t] # "none"}

\* Mutant: a task that paused does not make the batch partial.
SummaryUnlessFailed ==
  IF Returned = {} THEN "blocked"
  ELSE IF skipped = {} /\ \A t \in Returned : result[t] \notin {"not_completed", "error"}
       THEN "completed"
  ELSE "partial"

SummaryStatus ==
  IF Returned = {} THEN "blocked"
  ELSE IF skipped = {} /\ \A t \in Returned : result[t] = "completed"
       THEN "completed"
  ELSE "partial"

Summarise ==
  /\ phase = "next" /\ wave = Len(plan)
  /\ summary' = SummaryStatus
  /\ phase' = "ended"
  /\ UNCHANGED <<manifest, snapshot, plan, wave, stopped, skipped, runs, slots, spent>>

\* The process is killed: what its runs hold stays held.
Crash ==
  /\ phase \in {"decide", "next", "wave"} /\ starts < MaxStarts
  /\ phase' = "idle"
  /\ leaked' = [x \in Profiles |-> leaked[x] + Own(x)]
  /\ pc' = [t \in Tasks |-> "waiting"]
  /\ result' = [t \in Tasks |-> "none"]
  /\ plan' = <<>> /\ wave' = 0 /\ stopped' = FALSE /\ skipped' = {}
  /\ UNCHANGED <<manifest, snapshot, summary, done, outside, spent>>

---------------------------------------------------------------------------
\* _run_one: the runner of one task

Goto(t, label) == pc' = [pc EXCEPT ![t] = label]
Return(t, r) == pc' = [pc EXCEPT ![t] = "returned"] /\ result' = [result EXCEPT ![t] = r]

\* The task's row is written again with status "queued", then of the dependencies
\* in the table those whose row is not "completed" block.  No run of the same
\* wave writes those rows, so the calls are one action.
Register(t) ==
  /\ pc[t] = "register"
  /\ done' = done \ {t}
  /\ IF Task(t).deps \subseteq done THEN Goto(t, "admit") /\ UNCHANGED result
     ELSE Return(t, "blocked")
  /\ UNCHANGED <<manifest, snapshot, batch, slots, spent>>

\* admission.acquire_slot counts and inserts in one transaction.

\* Mutant: the leases are compared with <= in place of <.
AdmitOneMore(t) ==
  /\ pc[t] = "admit"
  /\ LET x == Profile(t)
     IN  IF Own(x) + outside[x] + leaked[x] <= MaxSlots[x]
         THEN Goto(t, "work") /\ UNCHANGED result
         ELSE Return(t, "slot_paused")
  /\ UNCHANGED <<manifest, snapshot, batch, done, slots, spent>>

Admit(t) ==
  /\ pc[t] = "admit"
  /\ LET x == Profile(t)
     IN  IF Own(x) + outside[x] + leaked[x] < MaxSlots[x]
         THEN Goto(t, "work") /\ UNCHANGED result
         ELSE Return(t, "slot_paused")
  /\ UNCHANGED <<manifest, snapshot, batch, done, slots, spent>>

\* The worker, the gates and the result: the row is "completed" or not.
Work(t) ==
  /\ pc[t] = "work"
  /\ \/ /\ result' = [result EXCEPT ![t] = "completed"]
        /\ done' = done \cup {t}
     \/ /\ result' = [result EXCEPT ![t] = "not_completed"]
        /\ UNCHANGED done
  /\ Goto(t, "release")
  /\ UNCHANGED <<manifest, snapshot, batch, slots, spent>>

Release(t) ==
  /\ pc[t] = "release"
  /\ Goto(t, "returned")
  /\ UNCHANGED <<manifest, snapshot, batch, result, done, slots, spent>>

\* Building the runner or one of its calls raises and _run_wave makes an error
\* result of it.  A raising release leaves the lease behind.
Raise(t) ==
  /\ pc[t] \in {"register", "admit", "work", "release"} /\ erred < MaxErrors
  /\ erred' = erred + 1
  /\ result' = [result EXCEPT ![t] = "error"]
  /\ Goto(t, IF pc[t] = "work" THEN "release" ELSE "returned")
  /\ leaked' = IF pc[t] = "release"
               THEN [leaked EXCEPT ![Profile(t)] = @ + 1] ELSE leaked
  /\ UNCHANGED <<manifest, snapshot, batch, done, outside, starts>>

---------------------------------------------------------------------------
\* Runs outside the batch

OutsideTotal ==
  Cardinality({h \in Profiles \X (1..MaxOutside) : h[2] <= outside[h[1]]})

OutsideTakes(x) ==
  /\ OutsideTotal < MaxOutside
  /\ Own(x) + outside[x] + leaked[x] < MaxSlots[x]
  /\ outside' = [outside EXCEPT ![x] = @ + 1]
  /\ UNCHANGED <<manifest, snapshot, batch, runs, leaked, spent>>

OutsideReleases(x) ==
  /\ outside[x] > 0
  /\ outside' = [outside EXCEPT ![x] = @ - 1]
  /\ UNCHANGED <<manifest, snapshot, batch, runs, leaked, spent>>

---------------------------------------------------------------------------

Orchestrate == Begin \/ Decide \/ StartWave \/ EndWave \/ Summarise \/ Crash
RunOne(t) == Register(t) \/ Admit(t) \/ Work(t) \/ Release(t) \/ Raise(t)

Next ==
  \/ Orchestrate
  \/ \E t \in Tasks : RunOne(t)
  \/ \E x \in Profiles : OutsideTakes(x) \/ OutsideReleases(x)

Spec == Init /\ [][Next]_vars

---------------------------------------------------------------------------
\* Properties

\* The variables keep their types.
TypeOK ==
  /\ manifest \in ManifestType
  /\ snapshot \in [Profiles -> Nat]
  /\ plan \in Seq(Seq(Tasks))
  /\ phase \in {"idle", "decide", "next", "wave", "raised", "ended"}
  /\ wave \in 0..Len(plan)
  /\ stopped \in BOOLEAN
  /\ skipped \subseteq Tasks
  /\ pc \in [Tasks -> {"waiting", "register", "admit", "work", "release",
                       "returned"}]
  /\ result \in [Tasks -> {"none", "completed", "not_completed", "blocked",
                           "slot_paused", "error"}]
  /\ done \subseteq Tasks
  /\ outside \in [Profiles -> 0..MaxOutside]
  /\ leaked \in [Profiles -> Nat]
  /\ \A x \in Profiles : leaked[x] + Own(x) + outside[x] <= MaxSlots[x]
  /\ summary \in {"none", "completed", "partial", "blocked"}
  /\ starts \in 0..MaxStarts /\ erred \in 0..MaxErrors

WaveOf(t) == CHOOSE k \in DOMAIN plan : t \in ToSet(plan[k])

\* The waves hold every task of the manifest exactly once, although a group
\* that is too small is put back in front of the tasks still to be grouped.
PlanHoldsEachTask ==
  plan # <<>> => \A t \in Tasks :
    \E k \in DOMAIN plan : \E i \in DOMAIN plan[k] :
      \A l \in DOMAIN plan : \A j \in DOMAIN plan[l] :
        plan[l][j] = t <=> l = k /\ j = i

\* A task's wave comes after the waves of all its dependencies.
PlanOrdersDependencies ==
  plan # <<>> => \A t \in Tasks : \A d \in Task(t).deps : WaveOf(d) < WaveOf(t)

\* Two tasks are never at work at once when one writes what the other writes or
\* reads, when one of them writes without bounds, or when both write to one
\* worktree, to the policy surface or to the sources of truth.
ConflictsApart ==
  \A s, t \in Tasks :
    s # t /\ pc[s] = "work" /\ pc[t] = "work" => ~Conflict(s, t)

\* The runs of a batch at work at any time are within the concurrency budget.
WithinBudget == Cardinality({t \in Tasks : pc[t] = "work"}) <= manifest.concurrent

\* With the stop policy, no task starts once a task of an earlier wave has
\* returned anything but "completed".
StopHonoured ==
  manifest.stop =>
    \A s, t \in Tasks : /\ result[s] \notin {"none", "completed"}
                        /\ pc[t] # "waiting"
                        => WaveOf(t) <= WaveOf(s)

\* With the stop policy, a worker runs only on dependencies that this run of the
\* manifest completed: a row that an earlier run of it completed is not taken
\* for one when the runner of the dependency could not be built this time.
DependenciesOfThisRun ==
  manifest.stop =>
    \A t \in Tasks : pc[t] = "work" => \A d \in Task(t).deps : result[d] = "completed"

\* A wave is never refused a slot because of its own size: a task is refused
\* only when runs outside the wave hold more leases than the decision counted.
RefusedOnlyByOthers ==
  [][\A t \in Tasks : (result[t] # "slot_paused" /\ result'[t] = "slot_paused") =>
       outside[Profile(t)] + leaked[Profile(t)] > snapshot[Profile(t)]]_vars

\* A summary "completed" means every task of the manifest has a completed row
\* and a completed result of this run.
SummaryHonest ==
  summary = "completed" =>
    \A t \in Tasks : t \in done /\ result[t] = "completed"
=============================================================================
