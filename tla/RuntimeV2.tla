----------------------------- MODULE RuntimeV2 -----------------------------
(***************************************************************************)
(* The runtime_v2 kernel: RuntimeV2Runner (runner.py) over the SQLite      *)
(* control plane (storage.py) and its admission slots (admission.py).      *)
(*                                                                         *)
(* A process is one CLI invocation: run a task, run the dependency-blocked *)
(* tasks whose dependencies are now complete, resume an attempt, retry an  *)
(* attempt.  Every call of storage and admission opens its own connection  *)
(* and commits before it returns, so each is one action here and anything  *)
(* may happen between two of them.  A status "blocked" is written with one *)
(* of two reasons that the code later tells apart; the pair is one value   *)
(* here: "dependency_blocked" or "policy_blocked".                         *)
(***************************************************************************)
EXTENDS Naturals, Sequences, FiniteSets

CONSTANTS
  Tasks,                  \* canonical tasks
  NoTask,                 \* the task of a process that runs none
  Procs,                  \* CLI processes
  Profiles,               \* worker profiles of workers.yaml
  Profile,                \* the worker profile each task resolves to
  MaxSlots,               \* max_active_leases of each profile
  Deps,                   \* dependency_refs of each task
  Traits,                 \* what the policy guard reads of each task
  Policy,                 \* continuation policy of each task, see PolicyType
  RetryOnGateFailure,     \* retry_policies.default
  RetryOnWorkerFailure,
  Operators,              \* whether operators resume and retry attempts
  MaxLaunches,            \* bound: run and retry commands issued
  MaxCrashes,             \* bound: processes killed
  MaxErrors               \* bound: SQLite or file system calls that raise

\* review_on_risk_levels is folded with the task's risk level into "review".
PolicyType == [auto_continue: BOOLEAN, pause_on_failure: BOOLEAN,
               pause_on_surface: BOOLEAN, review: BOOLEAN]

\* Facts of a task and its worker profile; sensitive_overlap says whether some
\* allowed_paths glob overlaps a sensitive_paths glob.
TraitsType == [host_local: BOOLEAN, requires_network: BOOLEAN,
               network_off: BOOLEAN, requires_gui: BOOLEAN,
               write_access: BOOLEAN, sensitive_overlap: BOOLEAN]

ASSUME ConstantsAssumption ==
  /\ NoTask \notin Tasks
  /\ IsFiniteSet(Procs)
  /\ Profile \in [Tasks -> Profiles]
  /\ MaxSlots \in [Profiles -> Nat \ {0}]
  /\ Deps \in [Tasks -> SUBSET Tasks]
  /\ Traits \in [Tasks -> TraitsType]
  /\ Policy \in [Tasks -> PolicyType]
  /\ RetryOnGateFailure \in BOOLEAN /\ RetryOnWorkerFailure \in BOOLEAN
  /\ Operators \in BOOLEAN
  /\ MaxLaunches \in Nat /\ MaxCrashes \in Nat /\ MaxErrors \in Nat

VARIABLES
  attempts,   \* task_attempts: the state of attempt n of task t at [t][n]
  results,    \* status in that attempt's result.json, "none" before it exists
  status,     \* tasks.status, "absent" before the row exists
  leases,     \* <<task, attempt number>> of each lease with released_at NULL
  pc,         \* the next call of each process
  task,       \* _run_task_impl: the task
  num,        \* ... attempt_number
  unread,     \* ... dependency rows not looked up yet
  outcome,    \* ... the state the process is about to record
  handler,    \* ... inside "try", inside "except", or "none"
  todo,       \* run_ready_blocked_tasks: tasks of the list still to run
  launched, crashed, erred    \* how much of each bound is used

db     == <<attempts, results, status, leases>>
locals == <<task, num, unread, outcome, handler, todo>>
spent  == <<launched, crashed, erred>>
vars   == <<db, pc, locals, spent>>

Blocked  == {"dependency_blocked", "policy_blocked"}
Finals   == {"completed", "reviewing", "paused", "retryable", "failed"}
States   == Blocked \cup Finals \cup {"queued", "ready", "running"}
Labels   == {"idle", "register", "number", "probe", "create_blocked", "admit",
             "mark_attempt", "mark_task", "work", "write_result",
             "update_attempt", "update_task", "record", "release",
             "create_retry"}

Init ==
  /\ attempts = [t \in Tasks |-> <<>>]
  /\ results = [t \in Tasks |-> <<>>]
  /\ status = [t \in Tasks |-> "absent"]
  /\ leases = {}
  /\ pc = [p \in Procs |-> "idle"]
  /\ task = [p \in Procs |-> NoTask]
  /\ num = [p \in Procs |-> 0]
  /\ unread = [p \in Procs |-> {}]
  /\ outcome = [p \in Procs |-> "none"]
  /\ handler = [p \in Procs |-> "none"]
  /\ todo = [p \in Procs |-> {}]
  /\ launched = 0 /\ crashed = 0 /\ erred = 0

---------------------------------------------------------------------------
\* Helpers

At(p, label) == pc[p] = label
Goto(p, label) == pc' = [pc EXCEPT ![p] = label]

\* The process returns from run_task (or resume, retry) with the rest of its
\* batch list; the frame of the call is gone.
Leave(p, rest) ==
  /\ Goto(p, "idle")
  /\ task' = [task EXCEPT ![p] = NoTask]
  /\ num' = [num EXCEPT ![p] = 0]
  /\ unread' = [unread EXCEPT ![p] = {}]
  /\ outcome' = [outcome EXCEPT ![p] = "none"]
  /\ handler' = [handler EXCEPT ![p] = "none"]
  /\ todo' = [todo EXCEPT ![p] = rest]

Lease(p) == <<task[p], num[p]>>
Active(profile) == {l \in leases : Profile[l[1]] = profile}
Satisfied(t) == \A d \in Deps[t] : status[d] = "completed"

---------------------------------------------------------------------------
\* scheduler.py and the choice of the final state

ShouldEnterReview(policy, surface, gateFailed) ==
  IF gateFailed /\ policy.pause_on_failure THEN FALSE
  ELSE (surface /\ policy.pause_on_surface) \/ policy.review

ShouldPauseForPolicy(policy, surface, gateFailed) ==
  \/ gateFailed /\ policy.pause_on_failure
  \/ surface /\ policy.pause_on_surface
  \/ ~policy.auto_continue

FinalState(policy, surface, gateFailed) ==
  IF gateFailed /\ RetryOnGateFailure THEN "retryable"
  ELSE IF ShouldEnterReview(policy, surface, gateFailed)
       THEN IF policy.auto_continue THEN "reviewing" ELSE "paused"
  ELSE IF ShouldPauseForPolicy(policy, surface, gateFailed) THEN "paused"
  ELSE "completed"

\* The states that _write_blocked_result, _write_policy_guard_blocked_result,
\* _write_paused_result and _write_failure_result record.
DependencyBlockedState == "dependency_blocked"
PolicyBlockedState == "policy_blocked"
SlotPausedState == "paused"
FailureState == IF RetryOnWorkerFailure THEN "retryable" ELSE "failed"

\* _pre_worker_policy_blocking_reasons
GuardBlocks(t) ==
  \/ ~Traits[t].host_local
  \/ Traits[t].requires_network /\ Traits[t].network_off
  \/ Traits[t].requires_gui
  \/ Traits[t].write_access /\ Traits[t].sensitive_overlap

---------------------------------------------------------------------------
\* Commands

\* --run-task-v2 (and each planned launch of a batch of tasks)
StartRun(p, t) ==
  /\ At(p, "idle") /\ todo[p] = {} /\ launched < MaxLaunches
  /\ launched' = launched + 1
  /\ task' = [task EXCEPT ![p] = t]
  /\ Goto(p, "register")
  /\ UNCHANGED <<db, num, unread, outcome, handler, todo, crashed, erred>>

\* Mutant: looks for the reason of the policy guard.
ReadyBlockedOtherReason ==
  {t \in Tasks : status[t] = "policy_blocked" /\ Satisfied(t)}

\* storage.ready_blocked_task_paths: the rows blocked on dependencies, in one
\* read; what it returns is only a candidate list, run_task checks again.
ReadyBlocked == {t \in Tasks : status[t] = "dependency_blocked" /\ Satisfied(t)}

\* --run-ready-blocked-v2; an empty list changes nothing.
StartBatch(p) ==
  /\ At(p, "idle") /\ todo[p] = {} /\ ReadyBlocked # {}
  /\ todo' = [todo EXCEPT ![p] = ReadyBlocked]
  /\ UNCHANGED <<db, pc, task, num, unread, outcome, handler, spent>>

\* The loop of run_ready_blocked_tasks: one run_task after the other.
BatchNext(p, t) ==
  /\ At(p, "idle") /\ t \in todo[p]
  /\ todo' = [todo EXCEPT ![p] = @ \ {t}]
  /\ task' = [task EXCEPT ![p] = t]
  /\ Goto(p, "register")
  /\ UNCHANGED <<db, num, unread, outcome, handler, spent>>

\* --resume-task-v2: any recorded attempt, whatever its state.
StartResume(p, t, n) ==
  /\ Operators /\ At(p, "idle") /\ todo[p] = {} /\ launched < MaxLaunches
  /\ launched' = launched + 1
  /\ task' = [task EXCEPT ![p] = t]
  /\ num' = [num EXCEPT ![p] = n]
  /\ outcome' = [outcome EXCEPT ![p] = "ready"]
  /\ Goto(p, "update_attempt")
  /\ UNCHANGED <<db, unread, handler, todo, crashed, erred>>

\* --retry-task-v2: reads the next number; the files it then writes hold no
\* result.json.  create_attempt comes later (CreateRetry).
StartRetry(p, t) ==
  /\ Operators /\ At(p, "idle") /\ todo[p] = {} /\ launched < MaxLaunches
  /\ attempts[t] # <<>>
  /\ launched' = launched + 1
  /\ task' = [task EXCEPT ![p] = t]
  /\ num' = [num EXCEPT ![p] = Len(attempts[t]) + 1]
  /\ outcome' = [outcome EXCEPT ![p] = "queued"]
  /\ Goto(p, "create_retry")
  /\ UNCHANGED <<db, unread, handler, todo, crashed, erred>>

---------------------------------------------------------------------------
\* _run_task_impl, up to the worker

\* upsert_task(queued) and replace_dependencies: the rows written are always
\* those of the task file, so only the status is kept.
Register(p) ==
  /\ At(p, "register")
  /\ status' = [status EXCEPT ![task[p]] = "queued"]
  /\ Goto(p, "number")
  /\ UNCHANGED <<attempts, results, leases, locals, spent>>

\* next_attempt_number, MAX(attempt_number) + 1; the numbers of a task are
\* 1..Len(attempts[t]), since an insert of any other number would collide.
ReadNumber(p) ==
  /\ At(p, "number")
  /\ num' = [num EXCEPT ![p] = Len(attempts[task[p]]) + 1]
  /\ unread' = [unread EXCEPT ![p] = Deps[task[p]]]
  /\ Goto(p, "probe")
  /\ UNCHANGED <<db, task, outcome, handler, todo, spent>>

\* Mutant: a dependency without a row does not count as unresolved.
ProbeSkipsUnknown(p, d) ==
  /\ At(p, "probe") /\ d \in unread[p]
  /\ IF status[d] \in {"completed", "absent"}
     THEN unread' = [unread EXCEPT ![p] = @ \ {d}] /\ UNCHANGED pc
     ELSE unread' = [unread EXCEPT ![p] = {}] /\ Goto(p, "create_blocked")
  /\ UNCHANGED <<db, task, num, outcome, handler, todo, spent>>

\* unresolved_dependency_refs: one SELECT per dependency, outside any
\* transaction.  One that is not completed decides; the rest only adds names.
ProbeDependency(p, d) ==
  /\ At(p, "probe") /\ d \in unread[p]
  /\ IF status[d] = "completed"
     THEN unread' = [unread EXCEPT ![p] = @ \ {d}] /\ UNCHANGED pc
     ELSE unread' = [unread EXCEPT ![p] = {}] /\ Goto(p, "create_blocked")
  /\ UNCHANGED <<db, task, num, outcome, handler, todo, spent>>

\* Mutant: the insert does not reject a number that is taken.
CollidesNever(p) == FALSE

\* The PRIMARY KEY of task_attempts: another process inserted this number.
Collides(p) == num[p] \in DOMAIN attempts[task[p]]

InsertAttempt(p, state) ==
  /\ ~Collides(p)
  /\ attempts' = [attempts EXCEPT ![task[p]] = Append(@, state)]
  /\ results' = [results EXCEPT ![task[p]] = Append(@, "none")]

\* create_attempt(ready), then the policy guard, which reads only the task.
CreateReady(p) ==
  /\ At(p, "probe") /\ unread[p] = {}
  /\ InsertAttempt(p, "ready")
  /\ IF GuardBlocks(task[p])
     THEN /\ outcome' = [outcome EXCEPT ![p] = PolicyBlockedState]
          /\ Goto(p, "write_result")
     ELSE Goto(p, "admit") /\ UNCHANGED outcome
  /\ UNCHANGED <<status, leases, task, num, unread, handler, todo, spent>>

\* Mutant: a blocked attempt gets no result.json.
CreateBlockedNoResult(p) ==
  /\ At(p, "create_blocked")
  /\ InsertAttempt(p, "dependency_blocked")
  /\ outcome' = [outcome EXCEPT ![p] = "dependency_blocked"]
  /\ Goto(p, "update_attempt")
  /\ UNCHANGED <<status, leases, task, num, unread, handler, todo, spent>>

\* create_attempt(blocked): the row says blocked before its result.json does.
CreateBlocked(p) ==
  /\ At(p, "create_blocked")
  /\ InsertAttempt(p, DependencyBlockedState)
  /\ outcome' = [outcome EXCEPT ![p] = DependencyBlockedState]
  /\ Goto(p, "write_result")
  /\ UNCHANGED <<status, leases, task, num, unread, handler, todo, spent>>

\* create_attempt of retry_attempt.
CreateRetry(p) ==
  /\ At(p, "create_retry")
  /\ InsertAttempt(p, "queued")
  /\ Goto(p, "update_task")
  /\ UNCHANGED <<status, leases, locals, spent>>

\* Mutant: a collision is reported as a failed task.
CollisionFailsTask(p) ==
  /\ \/ At(p, "probe") /\ unread[p] = {}
     \/ At(p, "create_blocked") \/ At(p, "create_retry")
  /\ Collides(p)
  /\ status' = [status EXCEPT ![task[p]] = "failed"]
  /\ Leave(p, {})
  /\ UNCHANGED <<attempts, results, leases, spent>>

\* IntegrityError: nothing catches it, the command (and its batch) ends.
Collision(p) ==
  /\ \/ At(p, "probe") /\ unread[p] = {}
     \/ At(p, "create_blocked") \/ At(p, "create_retry")
  /\ Collides(p)
  /\ Leave(p, {})
  /\ UNCHANGED <<db, spent>>

\* Mutant: off by one in the comparison with max_slots.
AcquireSlotOneMore(p) ==
  /\ At(p, "admit")
  /\ Cardinality(Active(Profile[task[p]])) <= MaxSlots[Profile[task[p]]]
  /\ leases' = leases \cup {Lease(p)}
  /\ handler' = [handler EXCEPT ![p] = "try"]
  /\ Goto(p, "mark_attempt")
  /\ UNCHANGED <<attempts, results, status, task, num, unread, outcome, todo, spent>>

\* Mutant: counts tasks marked running instead of unreleased leases.
AcquireSlotByStatus(p) ==
  /\ At(p, "admit")
  /\ Cardinality({t \in Tasks : status[t] = "running"})
       < MaxSlots[Profile[task[p]]]
  /\ leases' = leases \cup {Lease(p)}
  /\ handler' = [handler EXCEPT ![p] = "try"]
  /\ Goto(p, "mark_attempt")
  /\ UNCHANGED <<attempts, results, status, task, num, unread, outcome, todo, spent>>

\* admission.acquire_slot, one BEGIN IMMEDIATE transaction.
AcquireSlot(p) ==
  /\ At(p, "admit")
  /\ Cardinality(Active(Profile[task[p]])) < MaxSlots[Profile[task[p]]]
  /\ leases' = leases \cup {Lease(p)}
  /\ handler' = [handler EXCEPT ![p] = "try"]
  /\ Goto(p, "mark_attempt")
  /\ UNCHANGED <<attempts, results, status, task, num, unread, outcome, todo, spent>>

\* Mutant: the state to record is not set.
SlotConflictNoOutcome(p) ==
  /\ At(p, "admit")
  /\ Cardinality(Active(Profile[task[p]])) >= MaxSlots[Profile[task[p]]]
  /\ Goto(p, "write_result")
  /\ UNCHANGED <<db, task, num, unread, outcome, handler, todo, spent>>

\* Mutant: the conflict is logged and the worker started all the same.
SlotConflictIgnored(p) ==
  /\ At(p, "admit")
  /\ Cardinality(Active(Profile[task[p]])) >= MaxSlots[Profile[task[p]]]
  /\ Goto(p, "mark_attempt")
  /\ UNCHANGED <<db, locals, spent>>

\* AdmissionConflictError: the attempt is paused, no worker runs.
SlotConflict(p) ==
  /\ At(p, "admit")
  /\ Cardinality(Active(Profile[task[p]])) >= MaxSlots[Profile[task[p]]]
  /\ outcome' = [outcome EXCEPT ![p] = SlotPausedState]
  /\ Goto(p, "write_result")
  /\ UNCHANGED <<db, task, num, unread, handler, todo, spent>>

MarkAttemptRunning(p) ==
  /\ At(p, "mark_attempt")
  /\ attempts' = [attempts EXCEPT ![task[p]][num[p]] = "running"]
  /\ Goto(p, "mark_task")
  /\ UNCHANGED <<results, status, leases, locals, spent>>

MarkTaskRunning(p) ==
  /\ At(p, "mark_task")
  /\ status' = [status EXCEPT ![task[p]] = "running"]
  /\ Goto(p, "work")
  /\ UNCHANGED <<attempts, results, leases, locals, spent>>

---------------------------------------------------------------------------
\* _run_task_impl, the worker and what is recorded of it

\* The worker, the workspace change policy and the gates; a review needs a
\* review_result.json first, which concerns nobody else.
WorkerDone(p) ==
  /\ At(p, "work")
  /\ \E surface, gateFailed \in BOOLEAN :
       outcome' = [outcome EXCEPT ![p] =
                     FinalState(Policy[task[p]], surface, gateFailed)]
  /\ Goto(p, "write_result")
  /\ UNCHANGED <<db, task, num, unread, handler, todo, spent>>

\* "except Exception": start _write_failure_result.
EnterExcept(p) ==
  /\ handler' = [handler EXCEPT ![p] = "except"]
  /\ outcome' = [outcome EXCEPT ![p] = FailureState]
  /\ Goto(p, "write_result")

\* The worker raises, or the change policy does (PathGuardError).
WorkerFails(p) ==
  /\ At(p, "work")
  /\ EnterExcept(p)
  /\ UNCHANGED <<db, task, num, unread, todo, spent>>

\* Mutant: the row is updated where the file should be written.
WriteRowFirst(p) ==
  /\ At(p, "write_result")
  /\ attempts' = [attempts EXCEPT ![task[p]][num[p]] = outcome[p]]
  /\ Goto(p, "update_attempt")
  /\ UNCHANGED <<results, status, leases, locals, spent>>

\* The _write_*_result functions: the JSON files, result.json last, ...
WriteResult(p) ==
  /\ At(p, "write_result")
  /\ results' = [results EXCEPT ![task[p]][num[p]] = outcome[p]]
  /\ Goto(p, "update_attempt")
  /\ UNCHANGED <<attempts, status, leases, locals, spent>>

\* ... update_attempt, whatever the row holds, ...
UpdateAttempt(p) ==
  /\ At(p, "update_attempt")
  /\ attempts' = [attempts EXCEPT ![task[p]][num[p]] = outcome[p]]
  /\ Goto(p, "update_task")
  /\ UNCHANGED <<results, status, leases, locals, spent>>

\* ... upsert_task, ...
UpdateTask(p) ==
  /\ At(p, "update_task")
  /\ status' = [status EXCEPT ![task[p]] = outcome[p]]
  /\ Goto(p, "record")
  /\ UNCHANGED <<attempts, results, leases, locals, spent>>

\* Mutant: release on success only, instead of "finally".
RecordKeepsSlotOnFailure(p) ==
  /\ At(p, "record")
  /\ IF handler[p] # "try"
     THEN Leave(p, todo[p])
     ELSE Goto(p, "release") /\ UNCHANGED locals
  /\ UNCHANGED <<db, spent>>

\* ... then artifact rows and the event; a run that holds no slot is over.
Record(p) ==
  /\ At(p, "record")
  /\ IF handler[p] = "none"
     THEN Leave(p, todo[p])
     ELSE Goto(p, "release") /\ UNCHANGED locals
  /\ UNCHANGED <<db, spent>>

\* "finally": release_slot by token, if not released yet.
ReleaseSlot(p) ==
  /\ At(p, "release")
  /\ leases' = leases \ {Lease(p)}
  /\ Leave(p, todo[p])
  /\ UNCHANGED <<attempts, results, status, spent>>

---------------------------------------------------------------------------
\* Failures

\* The process is killed: what it committed stays, nothing is released.
Crash(p) ==
  /\ ~At(p, "idle") /\ crashed < MaxCrashes
  /\ crashed' = crashed + 1
  /\ Leave(p, {})
  /\ UNCHANGED <<db, launched, erred>>

\* A database or file call raises ("database is locked", a full disk) before
\* it has any effect: caught once inside the try, where the run is recorded as
\* failed; a second one, in the handler, only passes through "finally".
CallRaises(p) ==
  /\ ~At(p, "idle") /\ erred < MaxErrors
  /\ erred' = erred + 1
  /\ CASE handler[p] = "try" /\ ~At(p, "release") ->
            EnterExcept(p) /\ UNCHANGED <<task, num, unread, todo>>
       [] handler[p] = "except" /\ ~At(p, "release") ->
            /\ Goto(p, "release")
            /\ todo' = [todo EXCEPT ![p] = {}]
            /\ UNCHANGED <<task, num, unread, outcome, handler>>
       [] OTHER -> Leave(p, {})
  /\ UNCHANGED <<db, launched, crashed>>

---------------------------------------------------------------------------

\* What a process does once its command runs.
Step(p) ==
  \/ \E t \in Tasks : BatchNext(p, t)
  \/ Register(p) \/ ReadNumber(p)
  \/ \E d \in Tasks : ProbeDependency(p, d)
  \/ CreateReady(p) \/ CreateBlocked(p) \/ CreateRetry(p) \/ Collision(p)
  \/ AcquireSlot(p) \/ SlotConflict(p)
  \/ MarkAttemptRunning(p) \/ MarkTaskRunning(p)
  \/ WorkerDone(p) \/ WorkerFails(p)
  \/ WriteResult(p) \/ UpdateAttempt(p) \/ UpdateTask(p) \/ Record(p)
  \/ ReleaseSlot(p)

Command(p) ==
  \/ \E t \in Tasks : StartRun(p, t) \/ StartRetry(p, t)
  \/ \E t \in Tasks : \E n \in DOMAIN attempts[t] : StartResume(p, t, n)
  \/ StartBatch(p)

Next == \E p \in Procs : Command(p) \/ Step(p) \/ Crash(p) \/ CallRaises(p)

Spec == Init /\ [][Next]_vars

\* A started command goes on, except that nothing in the code bounds a worker
\* or a gate: no worker is built with a timeout.  And somebody keeps issuing
\* --run-ready-blocked-v2.
Fairness ==
  /\ \A p \in Procs : WF_vars(~At(p, "work") /\ Step(p))
  /\ WF_vars(\E p \in Procs : StartBatch(p))

FairSpec == Spec /\ Fairness

---------------------------------------------------------------------------
\* Properties

TypeOK ==
  /\ attempts \in [Tasks -> Seq(States)]
  /\ results \in [Tasks -> Seq(Blocked \cup Finals \cup {"none"})]
  /\ status \in [Tasks -> States \cup {"absent"}]
  /\ leases \subseteq Tasks \X Nat
  /\ pc \in [Procs -> Labels]
  /\ task \in [Procs -> Tasks \cup {NoTask}]
  /\ num \in [Procs -> Nat]
  /\ unread \in [Procs -> SUBSET Tasks]
  /\ outcome \in [Procs -> States \cup {"none"}]
  /\ handler \in [Procs -> {"none", "try", "except"}]
  /\ todo \in [Procs -> SUBSET Tasks]
  /\ launched \in Nat /\ crashed \in Nat /\ erred \in Nat

\* A profile never has more unreleased leases than max_active_leases: the
\* count and the insert of acquire_slot are one transaction.
SlotCap ==
  \A profile \in Profiles :
    Cardinality(Active(profile)) <= MaxSlots[profile]

\* A process past acquire_slot owns an unreleased lease that no other process
\* counts as its own, until its own release: attempt ids are never shared,
\* although next_attempt_number and create_attempt are two transactions.
OwnsSlot ==
  \A p \in Procs : handler[p] # "none" =>
    /\ Lease(p) \in leases
    /\ \A q \in Procs \ {p} : handler[q] # "none" => Lease(q) # Lease(p)

Working(profile) == {p \in Procs : At(p, "work") /\ Profile[task[p]] = profile}

\* What the slots are for: at no time do more workers of a profile run than
\* max_active_leases, whatever crashed, raised or was retried before.
WorkerCap ==
  \A profile \in Profiles :
    Cardinality(Working(profile)) <= MaxSlots[profile]

\* The result file is written before the row: as long as no call has raised, a
\* reader who finds an attempt final finds that very state in its result.json.
ResultBacksAttempt ==
  erred = 0 =>
    \A t \in Tasks : \A n \in DOMAIN attempts[t] :
      attempts[t][n] \in Finals => results[t][n] = attempts[t][n]

\* As long as no call has raised, a task is never reported in a final or blocked
\* state that no attempt of it has recorded in a result.json, across runs,
\* crashes and operators.
ResultBacksTask ==
  erred = 0 =>
    \A t \in Tasks :
      status[t] \in Finals \cup Blocked => \E n \in DOMAIN results[t] :
                                             results[t][n] = status[t]

\* As long as no call has raised, a task whose worker was admitted has, for each
\* dependency, an attempt that completed and left its result.json, although
\* dependencies are looked up one by one and may be run again meanwhile.  (A
\* call that raises after its task was recorded completed demotes it.)
DependenciesDone ==
  erred = 0 =>
    \A p \in Procs : handler[p] # "none" =>
      \A d \in Deps[task[p]] :
        \E n \in DOMAIN results[d] : results[d][n] = "completed"

\* Every unreleased lease is a running process's own, or the trace of a crash
\* or of a release that raised: no other path, not even a failed write in the
\* handler of a failed worker, loses a slot.
SlotsAccounted ==
  Cardinality(leases) <=
    Cardinality({p \in Procs : handler[p] # "none"}) + crashed + erred

Quiet == \A p \in Procs : At(p, "idle")

\* max_attempts of retry_policies.default in policies.yaml: no task gets more
\* attempts than its retry policy allows.
RetryPolicyMaxAttempts == 3
AttemptsWithinPolicy ==
  \A t \in Tasks : Len(attempts[t]) <= RetryPolicyMaxAttempts

\* Without crashes, raised calls and operators, when no process runs every
\* registered task rests in the final or blocked state of one of its attempts:
\* processes that collide on an attempt number leave no task "queued".
QuietTasksSettled ==
  Quiet => \A t \in Tasks : status[t] # "absent" =>
             /\ status[t] \in Finals \cup Blocked
             /\ \E n \in DOMAIN attempts[t] : attempts[t][n] = status[t]

\* Without raised calls and operators, a completed attempt stays completed:
\* update_attempt checks nothing, so this rests on no two processes sharing
\* an attempt.
CompletedStays ==
  [][\A t \in Tasks : \A n \in DOMAIN attempts[t] :
       attempts[t][n] = "completed" => attempts'[t][n] = "completed"]_vars

\* The commands issued are finitely many, and without crashes and raised calls
\* every slot that is not back in the end is that of a worker still at work: no
\* failure or pause keeps one.
SlotsReturned ==
  <>[](\A l \in leases : \E p \in Procs : At(p, "work") /\ Lease(p) = l)

\* A task blocked on dependencies that are all completed is run again by the
\* batch command (or a dependency is run again first), provided that no worker
\* works for ever.
BlockedServed ==
  (\A p \in Procs : []<>~At(p, "work")) =>
     \A t \in Tasks :
       (status[t] = "dependency_blocked" /\ Satisfied(t)) ~>
         ~(status[t] = "dependency_blocked" /\ Satisfied(t))

\* What runner, storage and admission promise together: WorkerPool.
Pool == INSTANCE WorkerPool WITH
  ProfileOf <- LAMBDA a : Profile[a[1]],
  live <- {Lease(p) : p \in {q \in Procs : handler[q] # "none"}},
  lost <- leases \ {Lease(p) : p \in {q \in Procs : handler[q] # "none"}},
  working <- {Lease(p) : p \in {q \in Procs : At(q, "work")}}

\* Every step of the processes, a crash and a raised call included, admits,
\* begins, ends, returns or loses one slot as WorkerPool allows, or none.
ImplementsPool == Pool!Spec
=============================================================================
