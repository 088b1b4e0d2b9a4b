# local-ai-runtime: TLA+ models, checks and proofs

This directory specifies the host orchestrator of the repository
(`runtime/host-orchestrator/src/host_orchestrator`, below just by file name): the
program that takes canonical tasks, gives each a lease or a slot, runs a worker on
it in a worktree, writes evidence files and records the outcome in SQLite; the
cutover that replaces one of its two runtimes by the other; and the selector and
verifier of the planning files in `scripts/`. The specifications are translated
from the code. TLC checks them on small instances and TLAPS proves the invariants that
matter most for instances of every size.

Two runtimes live side by side. **v1** (`host_local.py`) is the active one; **v2**
(`runtime_v2/`) is opt-in and is what guarded orchestration uses. They share no table.

## 1. Inventory

| Component | State it keeps | Operations | What is hard about it |
| --- | --- | --- | --- |
| runtime_v2 kernel (`runtime_v2/runner.py`, `storage.py`, `admission.py`, `scheduler.py`, ...) | tables tasks, task_attempts, dependencies, leases; `result.json` of each attempt | run a task, run ready blocked tasks, resume, retry | every storage call is a transaction of its own and several CLI processes interleave between them; attempts are numbered by read-then-insert; slots have no expiry; `except` and `finally` write again |
| v1 runtime (`host_local.py`, `db.py`, `dispatch_state.py`, `canonical_result.py`) | tables runtime_tasks, leases; ledger `dispatch_state.json`, `result.json`, closeout bundle and evidence index of each run | run a task | leases expire under a live run; quota counted in a third transaction; ledger, bundle and row written in turn; a killed run leaves all of them as they were |
| v1 operator commands (`task_lifecycle.py`) | none of their own; a loaded record | cancel, resume, retry, approve/revise/reject, reconcile | check-then-act on a record that may be stale; files missing; reconcile aborts on the first error |
| adaptive orchestration (`adaptive_orchestration.py`, `runtime_v2/orchestration.py`) | decision and execution files | evaluate a manifest, run its waves | greedy grouping under five limits; a count of leases that is stale when used; one of several threads failing; a batch run again on old rows |
| cutover (`runtime_v2/migration.py`, `evaluation.py`, `cli.py`) | summaries, approval, archives, `orchestrator.yaml` | drill, review, rollback drill, approval template, cutover, rollback | copies and the rewrite of the configuration are not atomic; task commands go on; approvals name summaries that may be written again |
| worktree manager, path guard, process guard, verification | git worktrees; child processes | prepare, audit, verify, finalize | failing git; changes between check and removal; two tasks with one worktree; a worker killed at its timeout that left processes behind |
| evidence files (`canonical_result.py`, `evidence_index.py`, `agentbridge.py`) | result, receipt, closeout, references, index, projection | write, refresh, revalidate | digests of files that are written again; a step of seven that raises |
| planning control plane (`scripts/select-next-work.py`, `scripts/verify-planning-status.py`) | planning status, normative inventory, machine plan, selector policy, artifacts | verify, select the next work item | files edited by hand in several places while they are read one after the other |
| configuration, contracts, workers, AgentBridge intake, promotion rehearsals | files read or written once | load, validate, project, report | little: parsing and reports |
| other `scripts/` | none | verify frozen baselines | pure functions of files that are pinned by digest |

How they interact: the CLI starts one process per command. Processes of a runtime meet
only in its SQLite file, in its evidence directories and in worktrees; there are no
messages and no daemon. Orchestration calls the v2 runner from threads, one per task of
a wave, and reads the v2 lease table. Cutover copies the files of v1 and switches
`active_version`, which routes `--run-task`. The planning scripts share only files with
whoever edits them. `PROJECT.json` lists every component with its status, and under
"hazards" the places where the code can go wrong in ways a test hardly reaches.

What makes each component correct:

* **v2 kernel**: never more workers of a profile than slots; a run owns its attempt
  and its slot; a row never claims more than a file shows; dependencies first; no
  slot is lost except by a killed process; blocked tasks are served.
* **v1 runtime**: one lease and one run per task; the profile quota; a row finds the
  files it names and agrees with them; `completed` is never said of a failed run; leases
  come back. **Operator commands**: the same, in spite of stale records.
* **Orchestration**: waves hold each task once, dependencies first, conflicts apart,
  within budgets and slots; stop policy; an honest summary.
* **Cutover**: the configuration leaves v1 only behind an approval, evidence and a whole
  archive, at every crash point; an archive can be restored.
* **Workspace**: no uncommitted change is removed; no worktree is forgotten; the files of
  a run that ended agree.
* **Planning**: what is selected was verified as a whole; stages in order; work leads to
  the missing artifact; a sound plane is not refused.

## 2. Modules

| Module | Models | Uses |
| --- | --- | --- |
| `WorkerPool` | what slots promise: a worker of a profile works in a slot, at most `MaxSlots` are out, slots may be lost but never doubled | |
| `RuntimeV2` | the v2 kernel | `WorkerPool` as its abstraction (`ImplementsPool`) |
| `HostLocal` | v1 runtime and operator commands: leases, ledger, rows | `WorkerPool`, in its proofs (`ImplementsPoolHolds`) |
| `Workspace` | what `HostLocal` leaves out of a v1 run: worktree, audit, gates, all evidence files | |
| `Orchestration` | decision engine and batch execution | `Lists` |
| `Cutover` | cutover commands beside the task commands of both runtimes | |
| `Planning` | planning files, verifier and selector | `Lists` |
| `Lists` | `Keep`: the members of a list that are in a set, in the order of the list | |
| `RuntimeV2Proofs`, `RuntimeV2ResultProofs` | theorems on `RuntimeV2`: slots and refinement; results and dependencies | |
| `HostLocalProofs` | theorems on `HostLocal`: leases, files and the ledger | |
| `ListProofs` | lemmas: induction, recursive functions, members of lists | `Lists` |
| `OrchestrationProofs`, `PlanningProofs` | theorems on those modules | `ListProofs` |
| `CutoverProofs`, `WorkspaceProofs` | theorems on those modules | |
| `MC...` | instances for TLC | their module |

Definitions that come after a comment "Mutant:" are deliberately wrong variants of the
one after them. Nothing in the specifications uses them: each is put in the place of
the original to see that a property notices.

### RuntimeV2

A process `p` is one CLI invocation. `pc[p]` names the next call it makes;
`task`, `num`, `unread`, `outcome` are the locals of `_run_task_impl` it needs later.
`handler[p]` says where it is with respect to the `try` around the worker: "none"
before `acquire_slot` succeeded, "try", or "except". One action is one transaction
or one file:

| Code | Action |
| --- | --- |
| `upsert_task` + `replace_dependencies` (run start) | `Register` |
| `next_attempt_number` | `ReadNumber` |
| `unresolved_dependency_refs`, row by row | `ProbeDependency` |
| `create_attempt` with state ready, blocked or queued | `CreateReady`, `CreateBlocked`, `CreateRetry`; `Collision` when the id exists |
| `acquire_slot`, `AdmissionConflictError` | `AcquireSlot`, `SlotConflict` |
| worker, gates, review: a final state is chosen, or an exception | `WorkerDone`, `WorkerFails` |
| `result.json`, `update_attempt`, `upsert_task`, artifacts and events | `WriteResult`, `UpdateAttempt`, `UpdateTask`, `Record` |
| `finally: release_slot` | `ReleaseSlot` |
| the process is killed; any call raises | `Crash`, `CallRaises` |

`FinalState` is the decision of the runner with `scheduler.py`, for every
continuation policy and retry policy; the policy guard's traits of a task decide whether
it is blocked at once. A status "blocked" carries one of two
reasons that `ready_blocked_task_paths` tells apart, so the pair is one value.
The tables artifacts and events are written and not read by the kernel: `Record` is
where they can raise or crash.

### HostLocal

A run `r` is one process and at the same time its run id and its lease token
(run ids are taken to be unique, although `build_run_id` has the resolution of a
second). `now` is the clock, in units of which `LeaseTTL` make the 30 minutes of
`LEASE_TTL`; the instant at which a run starts and the one of `acquire_lease` are the same. The run
goes through `AcquireLease`, `MarkRunning`, `Gate`, then `PlannerDone`, `WorkerDone` or
`WorkFails`, then `WriteLedger`, `WriteBundle`, `WriteRow`, `AppendEvent` and
`ReleaseLease`; `EnterExcept` is the handler, which writes ledger and row of a
failure. The bundle's files are one action here (`Workspace` takes them apart), and the later
`update_dispatch_state` of the runner, which only adds references, belongs to it. An operator
`o` loads a `record` (`Command`, `LoadRecords`) and then releases leases, updates the ledger,
the row and the closeout bundle one by one from that record; `LedgerMissing` is the
FileNotFoundError. The tables workers, route_decisions and events are left out: the
runtime writes them and never reads them.

### Workspace

Here a task has one run at a time (that is what leases are for, and `HostLocal`'s
subject), and two tasks may name one worktree and one branch, for a lease is held by
task. A tree has `present`, its `branch` and its `dirty` set: the areas `git status` shows.
Patterns of a task are sets of areas.

| Code | Action |
| --- | --- |
| `HostLocalRunner.run_task` up to the worker | `Start`, `Gate` |
| `prepare_task_workspace`, `_ensure_worktree` | `Prepare`, `AddWorktree` |
| `validate_worker_workspace`, `capture_workspace_change_set` | `Validate`, `Capture` |
| the worker in `run_guarded_process`: it returns, raises or is killed at its timeout | `Work` |
| `enforce_workspace_change_policy`; `run_verification` | `Audit`; `Verify` |
| `finalize_task_workspace_cleanup`: look, then remove | `Cleanup`, `Remove` |
| ledger; result, verification and AgentBridge projection; receipt; closeout; references; index; row | `WriteLedger`, `WriteBundle`, `WriteReceipt`, `WriteCloseout`, `WriteRefs`, `RefreshIndex`, `WriteRow` |
| `append_event` after the row, in a transaction of its own | `AppendEvent` |
| any call inside the `try` raises; the `except` of `run_task` | `CallRaises`; `Handle` |
| approve, revise, reject | `Dispose` |

`Stray` is a process that a killed worker left behind, or a person, writing in a
worktree at any time; `Tidy` is the operator who commits or removes what is left; `Crash`
kills a run, or is a call of its handler that raises. git may fail wherever it is asked: at `Prepare`,
`AddWorktree`, `Validate`, `Capture`, `Audit` and `Cleanup` the run goes into its handler, while `Remove`
notes `cleanup_failed` when git refuses a dirty, an absent or a locked worktree. A task with no test
or contract command (not in `Gated`) is verified without a look at its workspace. `raised` remembers that
a run went into its handler; no step reads it, only `EvidenceAgrees` does. Of a raised call there is no
bound; `MaxFaults` bounds kills and strays.

### Orchestration

The decision is a function of the manifest and the lease counts: `Remaining` and
`Layer` are Kahn's algorithm, `Conflict` is the conflict matrix, `RouteBlocked`
and `Eligible` the routes, `Joins`/`Group`/`CutWave`/`Waves` the loop of
`_build_waves`, with the put-back of a group that is too small. A path pattern is
the set of areas it can match. (A pattern that normalises to "" or "." overlaps nothing in the code,
not even itself; the constants of the module cannot say that, and no instance has such a pattern.) What `_task_route` blocks on and nothing else reads
(lane, network, GUI, sandbox, capabilities, planner sidecar) is one Boolean,
`sound`. Then `Begin` counts leases, `Decide` plans, `StartWave`, `EndWave` and `Summarise`
run the batch, and `Register`, `Admit`, `Work`, `Release`, `Raise` are one task's runner,
reduced to the calls a batch can tell apart. Runs outside the batch take and return
slots, the process may be killed, and the manifest may be run again. The recursions are
folds and recursive functions, so that the module can be proved about. `ManifestType` says what
validation and `_effective_budgets` leave of a manifest: a list of tasks that is not empty, and a
budget of concurrent workers that is at most the total and 0 only with it.

### Cutover

A command `c` is one process with a `flow`: "drill", "cutover" (prepare only),
"confirmed", "rollback" or "template". `run_cutover_drill`, `run_cutover_review`,
`run_cutover_rollback_drill` and `validate_cutover_operator_approval` are one
action each (`RunDrill`, `RunReview`, `RunRedrill` and `RunRollbackDrill`, `ValidateApproval`):
they write only their summaries, and read fixtures with `EvaluateFixtures`.
`perform_cutover` is taken apart: `ArchiveLegacy` copies the database and then the runs,
`RewriteConfig` reads `orchestrator.yaml`, truncates it (`config = "torn"`) and writes it.
Beside them `Route`, `Load`, `RunLegacy` and `RunKernel` are `--run-task` and `--run-task-v2`,
which look at the configuration twice and write the data that is archived or the
fixtures that are evaluated. `Approve` is the operator's approval file, which may be defective;
`Restore` is section 6 of the runbook; `Spoil` damages a fixture; `Crash` kills a process.
The name of an archive has the second of the cutover in it: two cutovers are taken to
start in different seconds.

### Planning

A file is its content; the bytes of an artifact are a version: reviewed, edited or
absent. The selector's process is `LoadPolicy`, then the verifier (`ReadStatus`, `CheckCandidate`,
`ReadInventory`, `CheckArchives`, `ReadArtifact` for one artifact after the other, `CheckPackage`,
`CheckLineage`, `ReadPlan`, `RunComponents`, `Attest`, or `VerifierFails`), then `ReloadPolicy` and
`Decide`. `mem` holds what it has read so far; `mem.seen` has each artifact as it was when its turn came,
so that the inventory may be judged over versions that never were on disk together. `CheckPackage`
runs the standalone verifier that is on disk by then, which passes or not as it likes. Each `...Holds` operator is
one `_verify_...` function of the verifier: `StagesHold` is `_verify_approval_and_stages`,
`GraphHolds` is `_verify_graph_policy`, and so on. A closed field of a record that the verifier
compares with one value is one flag (reviewed or edited). While it runs, `Rewrite` writes some
file as a neighbouring closeout has it, and `Slip` makes one edit of some 200: a wrong state
or flag, a lost dependency, an edited or absent file, a stray source.

## 3. Runs

All cfgs disable deadlock checking: every command ends and bounds stop the rest.

| Run | Instance | What it shows |
| --- | --- | --- |
| `v2_safety` | 3 tasks (b depends on a, c is blocked by the policy guard), 2 processes, 1 slot, operators, 3 commands, 1 crash, 1 raised call | types, slot cap, worker cap, every slot accounted for, results back rows, dependencies done, refinement of `WorkerPool` |
| `v2_quiet` | 2 tasks, 2 processes, 2 slots, 4 commands, no failures, no operators, fair | runs that collide on an attempt number share nothing, undo no completion and leave every task settled; slots come back; blocked tasks are served |
| `v2_retry_limit` (violation) | 1 task, 1 process, 4 commands | `retry_attempt` goes beyond `max_attempts` |
| `hl_runs` | 2 tasks, 2 runs, 1 slot, lease of 2 units, 5 instants, 1 crash, 1 raised call, reconcile without bound | exclusion, quota, ledgers that agree with rows, while runs end within their lease |
| `hl_operators` | 1 task that is reviewed, 2 runs that may outlive their lease, retry, approve, reject and a repeated reconcile, 1 crash, fair | files and completion in spite of stale records; leases come back |
| `hl_no_renewal` (violation) | 1 task, lease of 1 unit | a run longer than its lease is joined by a second one |
| `hl_result` (violation) | 1 task, 2 runs, one retry | a failed row names the result of an earlier run |
| `hl_killed` (violation) | 1 task, 1 crash, fair | a killed run is never found stale |
| `orch` | 536 manifests of 3 tasks: readers, writers of the same and of other areas, of the policy surface, unbounded, unverified; 8 dependency graphs with a cycle and an unknown reference; budgets 1 to 3; 2 slots; 2 starts, 1 outside lease, 1 raised call, a kill | plan and execution |
| `cutover` | 2 cutover processes, 3 cutover commands, 3 task commands, 1 damaged fixture, 1 restore, 1 crash | no switch without approval, evidence and archive; archives can be restored |
| `workspace` | 3 tasks: a and b share a worktree, c works in the root; a has no gate commands, b is reviewed and may change nothing; one area, 2 runs, 1 kill or stray, raised calls without bound (6 million states) | no work lost, no worktree forgotten, evidence agrees |
| `planning` | 10 work items, 6 artifacts, 14 closeouts, 1 rewritten file, 1 slip of some 200 | selections are verified, in order and lead on; sound planes pass |

Why these bounds are enough to be interesting. Two processes with one slot reach
every conflict of admission; two processes with two slots are the least in which two
runs of one task collide on an attempt number and both could work. Three commands allow a run, a
concurrent run and an operator command or a batch. One crash or one raised call at
every program point, together with the handler, gives each partial failure; more
of them are covered by the theorems below, which have no bound. A lease of one
unit and a clock of two instants is the least in which a run outlives its lease; `hl_runs`
needs two units so that a run can be late for its neighbour and still in time.
Three tasks are the least for a group with a put-back, for a conflict with the
second member of a group only, and for a chain, fork and join. Two cutover processes
allow a drill between the approval and the switch of the other, and three commands a
further cutover after a restore. Two runs, and two tasks with one worktree, are the least in
which one removes what the other works in. One rewrite and one slip reach every single
inconsistency of the planning files at each point of the verifier's reading.

What the properties say is limited where the code needs it.
`ResultBacksAttempt`, `ResultBacksTask` and `DependenciesDone` speak of behaviours in which
no call raised; `LedgerBacksRow` too, and `hl_runs` has no operator command but reconcile.
A call that raises after `upsert_task` recorded
"completed" makes the handler write "failed" over the row and the result, when a
dependent may already have been admitted. In v1 the handler likewise rewrites
the ledger of a run whose row was recorded, and an operator may act on the row while a
run is about to write its own. `EvidenceAgrees` speaks of rows as the run wrote them: an operator's
transition rewrites the ledger and the closeout and not the index. It makes an exception of the ledger: when
the event after the row cannot be recorded, the handler writes "failed" into the ledger, and if it is then cut
short before its own row, the row says completed, the ledger says failed and the index has the digest
of the ledger before. The property says that this is all that can disagree: result, closeout and
every other digest agree with the row even then, and without a raised call the ledger does too. `DependenciesOfThisRun` and
`StopHonoured` have the premise that the manifest stops on failure, the other policy being to go on.

## 4. Fairness

*v2* (`v2_quiet`): `WF(~At(p, "work") /\ Step(p))` for each process and `WF(\E p : StartBatch(p))`.
A started Python process goes on, but a worker may hang: the workers are built without
a timeout and gate commands are run without one, so nothing is assumed at "work". Instead
`SlotsReturned` excuses the slot of a worker at work, and `BlockedServed` has the premise
that no worker works for ever. The batch command is issued by somebody outside; the docs
name it as the way blocked tasks continue.
*v1* (`hl_operators`, `hl_killed`): the clock ticks, a run makes its calls except at the
planner or worker (`~Busy(r)`), an operator command that started goes on, and reconcile is
issued again and again. No fairness is assumed of starting runs. The other modules have
no liveness property: a wave and a workspace wait for their workers, which are not bounded,
and the cutover and the selector are single commands that just end.

## 5. Disagreements

Shown by a run:

* `v2_retry_limit`: `policies.yaml` gives `max_attempts: 3`; `retry_attempt`
  (`runtime_v2/runner.py`) never compares the number with it.
* `hl_no_renewal`: the state spec says leases are claimed, renewed and expired;
  `renew_lease` has no caller in the runtime, so a second run enters after 30 minutes.
* `hl_result`: `upsert_runtime_task` keeps the old `result_path` when given none, and the
  handler gives none.
* `hl_killed`: `reconcile_stale_tasks` reads the ledger of a running row, which is only
  written when the run ends.

Met while modelling; the modules have the behaviour of the code, and no run of its own
is spent on them:

* v2: `_attach_orchestration_context` (`runtime_v2/runner.py:615`) looks for `review_result.json`
  beside `result.json`, while the review is written elsewhere.
* v1: the next run of a task that was retried records attempt 1 again; cancelling a
  running task releases its lease before it fails on the missing ledger.
* Workspace: after an exception behind `prepare_task_workspace` the row keeps the owner
  "runtime" with the worktree still there and no `worktree_cleanup` event
  (`docs/specs/run-state-and-handoff.md:103`); the AgentBridge projection says "succeeded" of a
  run whose gate failed; `write_result_projection` raises when the projection of the task exists, so
  a second run fails after its worker succeeded and its worktree was removed;
  changes a worker commits are invisible to the audit, and those a gate makes are not audited again;
  ignored files go with a removed worktree.
* Cutover: an approval is bound to fixed paths, so an old one serves again after a restore;
  `_load_runtime_bundle_if_available` (`cli.py:888`) treats a truncated configuration as
  absent and routes the run to v1; the migration manifest says "legacy_archived" when nothing
  is archived.
* Planning: `next-work-selection-policy.json:161` says a new frozen semantic change selects
  `create_successor_candidate_first`, while the verifier (`verify-planning-status.py:1649`)
  refuses the status that says so and the selector answers `repair_gate_first`; a plane with every
  work item completed can never be verified, nor one whose current item is in progress; the set of
  completed items is not checked to be closed under dependencies; the recorded
  `selector_action` is not compared with the answer; "first non-present artifact" of the policy is
  "first missing" in the code.

## 6. Proofs

TLAPS checks every theorem for all values of the constants, from the named `ASSUME`
of the module (finite sets of processes or runs, functions of the right type) and
the premises named in the theorem. Each is an invariant strengthened until a step preserves it:
`Init => IInv`, `IInv /\ [Next]_vars => IInv'`, `IInv => Inv`, with one lemma per part and
one step per action.

**RuntimeV2Proofs.** `SlotCap` alone is not inductive and says nothing of workers. `IInv` joins
`TypeOK`; `PhaseInv` (what `pc` says of the locals: `handler` is set exactly while
between `acquire_slot` and `release_slot`); `OwnerInv` (a process between reading a number
and inserting it has a number not above the next free one; from the insert on a process has
an attempt of the table that no other process has, and with a handler its lease is in `leases`);
and `CapInv` (finitely many leases, at most `MaxSlots` per profile). `WorkerCapHolds` follows by
an injection: workers of a profile map to their leases, which are distinct by `OwnerInv` and
capped by `CapInv`.

In the second half, `LeaseInv`: leases name attempts that exist, and a run about to be admitted
has none yet. `LostInv`: the leases without a live holder are finitely many, no more than
processes crashed and calls raised. With `IInv` every step is an Admit, Begin, End, Return or Lose of
`WorkerPool`, or stutters: `ImplementsPoolHolds`. `PoolKeepsCap` is about `WorkerPool` alone: its own
steps keep the workers of a profile within the slots, which is what makes implementing it worth
something. `LostForGood` follows from the refinement: no action of `WorkerPool` takes a slot out of
`lost`, and Admit takes none that is there.

What is left behind. `QuietSlotsBack`: with nothing running no holder is left to count, so `LostInv` bounds
the leases themselves. `RunningRowsTraced`: a task that says "running" without a process on its way to record
the outcome is *stranded*; `OutcomeInv` (nobody records an outcome "running") and `StrandedInv`
(their number is at most `crashed + erred`) are preserved because the process that marks a task running
is itself on that way, and only a kill or a raise takes one off it, one task each time, also when
several processes run the task. `CommandsEnd` is the safety half of `SlotsReturned`: `CallsLeft`, a number that
depends on the number of tasks only, falls with every step of a process except when it takes the next
task of its list, which then is shorter; nobody else changes it. What fairness adds, and only
TLC checks, is that the steps are taken.

**RuntimeV2ResultProofs.** `ResultInv`, for behaviours without raised calls: what a process knows
locally (its outcome, which dependencies it still has to read) is true of the files, every row
is backed, and a result has one author: the one process that inserted the attempt writes it
once. A dependency read as completed is therefore still completed with its result when the
worker is admitted. `CompletedStaysHolds` needs no operators and no raised calls, as in `v2_quiet`.
`QuietInv`, which in addition needs no crash, is the argument for `QuietTasksSettled`: a registered task
either rests in the state of one of its attempts, or some process *owes* it a row: it is about to read
a number, or has read the number that is still the next one, or has inserted its attempt. A
process that loses its number owed nothing since the insert of the one that took it, and that one owes the
task until it writes the row; its attempt has no other writer, so the row it writes is true.

**HostLocalProofs.** `TypeInv` adds to `TypeOK` what is known of rows, of locals at each
program point (`Phase`) and of loaded records (`Loaded`). `LeaseInv`: at most one lease row
per task, and only launched runs have one; it needs no timing. `InTimeInv`, under `InTime`
and no command but reconcile: every run that goes on has its lease and the clock has not
passed its expiry, so neither acquisition nor reaping removes it, and nobody releases it for
the run; with `LeaseInv` this is `RunExclusive`. `QuotaKept` needs in addition that
the task of a run past `MarkRunning` has a row, for the count of `QuotaExceeded` joins
leases and rows: a run that passes the gate has counted every busy run of its profile.
`FilesInv` is the argument that stale records are harmless: every row is good
(it finds the files it names; under review or completed, its run's own result says so), every run at a
program point has the files it will need, and every *copy* of a row an operator holds was good
when it was read. Files are never deleted and a result that was good
stays so, hence copies stay good, with any number of operators.

Of the ledger, `LedgerInv`, under `InTime`, reconcile only and no raised call:
`RunTells` (the row of a run at work is the one it wrote, and its ledger will agree), `RowTells`
(a row in a state of `run_task` agrees with its ledger) and `ScanTells` (a record that reconcile
holds is the row, or the run has been killed since, which is stable).

`ImplementsPoolHolds`: v1 has no slot table, and its count of the quota, the lease and the row are transactions
of their own; yet, under `InTime` and reconcile only, it implements the same `WorkerPool` as v2, when the slot
of a run is the run with its task and is taken at the gate and held until the planner or worker ends. The one
step that takes a slot is `Gate`, and by `InTimeInv` every busy run of the profile has, at that instant, the
lease and the row that its count looks for (`GateAdmits`). Nothing is lost in this pool: a killed run leaves a
lease, not a slot. `LeasesTraced` (`LeftInv`) and `RunningRowsTraced` (`StrandedInv`, which needs that a row
"running" names a run that was launched) count what is left behind, with any operators and any clock: a lease or
a "running" row of a run that is over is the trace of a kill or of a raised call. `CommandsEnd` is the safety
half of `LeasesReturned`.

**ListProofs.** The library's induction theorems take an operator and cannot be used here, so
induction is a fact about sets: a set of naturals that holds 0 and the successor of each member
holds every number (`SetInduction`), because a smallest number outside it would have a predecessor
outside. With it `RecursionExists` proves that a recursive function over a set of values exists and
satisfies its equation, and `KeepMembers`, `AppendMembers`, `ConcatMembers` and `TailMembers` say
which members a list has after each of these, and that it repeats none.

**OrchestrationProofs.** First the decision, as a function of the manifest. A *sound* plan (`Sound`)
holds each task once and after its dependencies, and each wave of it fits: within the budget,
without conflicts, and for each of its tasks no more tasks of that profile than there were free
slots. `WavesSound`: the loop of `_build_waves` ends with a sound plan for every manifest the engine
accepts. `GroupFits` is an induction over the greedy choice of a group, `LayerStep` over the layers
of Kahn's algorithm (tasks placed and tasks pending are those that no longer remain, and all a layer
depends on is placed), `CutWaveStep` and `TurnStep` say that a turn of the loop, put-back included,
keeps this. Each turn adds a wave or a layer; waves are not empty and share no task, so
`2 * Len(Ids)` turns place all of them. Then the batch: `IInv` joins `TypeOK`, whose last part says that
leaked leases, leases of the batch and outside leases fit in the slots; `PlanFits` (the plan is
empty or sound, for manifest and count of leases stay as they are until the plan is dropped);
`BatchInv` (what each phase of the batch leaves); `RunnerInv` (result and row at each point of a
runner, and that only tasks of the current wave run); `WaveInv` (waves begun hold runners that
started or were skipped); and `StopHonoured`. Conflicts, budget and refusals follow from it, because
whatever runs is in one wave: a refused task finds all slots taken, of which the batch itself holds
fewer than were free when the leases were counted, so the others hold more than that count
(`Refusal`).

`DependencyIssuesExact` is about the decision alone: a set of tasks in which each waits for
another (`Circle`) is never removed by Kahn's algorithm, and without one every layer removes a task, so
`Len(Ids)` layers remove all; what `Remaining` finds is therefore a cycle and nothing else. `TasksRunOnce` and `BatchEnds`
are action properties with the order of a runner's points and the number of waves left as measures:
no task goes back, and the batch only goes on.

**PlanningProofs.** `Verified` says for each point of a selection which checks hold of what has been
*read*; nothing in it speaks of the files, which may change at any step, so no rewrite or slip
disturbs it. What the checks mean together is proved of the checks alone: `StagesOrdered` (each
stage of the twelve implies the one before it, with the legacy guard beside the chain),
`WholePackage` (a complete package has no missing, stale or unread artifact, each as it was read), and `LeadsTo`: what a
walk along `next_task_ids` reaches depends on where the walk began, since every edge is declared at
both ends. `Needs` is therefore the least set closed under dependencies and not a walk of its own. `WalkIsNeed` is
the converse as well: the walk has only so many steps, and they are enough. `GraphRooted` says what a graph
that passes looks like: one root, no cycle.

`PlaneSelectsHolds` is the other direction, that the verifier is not too strict. Its premise
`PlanesSound` says that each closeout with work left passes every check when its files are looked at all
at once; TLC evaluates it for the fourteen closeouts of the instance (`MCPlanesSound`). `Undisturbed`
then says what holds of a selection that nobody interferes with: its files are as left, and what it has read
at each point (`Followed`) is what they hold; so no check between two reads can refuse it.

**CutoverProofs.** `IInv`: `TypeOK`; `ArchivesInOrder` (the runs are archived after the database);
`StepsBacked` (a command at a step has behind it the summaries, approval and archive it needs, and they
are never taken away); `SwitchBacked` and `ArchiveRestores`. `TornByCrash`: `RewriteConfig` truncates the
file only by putting its process at "write", from where it leaves only by writing or being killed; a
second cutover that writes meanwhile makes the file whole, and one that finds it torn goes no further.

**WorkspaceProofs.** `Tasked` and `RunsKnown` tie runs to rows, `TreesRecorded` says of every tree and
every program point who will record it, and `EvidenceInv` says step by step which files of a
run are written and agree; the index holds them from `RefreshIndex` on. Of a run that raises, `EvidenceInv`
keeps what the handler cannot touch, for the handler writes one file and one row (`RaisedEvidence`).
`RunningRowsTraced` is as in `HostLocalProofs`, for all that can go wrong in git, a worker, a gate, an audit, a
projection or any other call: each of them ends in a recorded row, and only a run that is killed, or whose
handler raises, does not.

| Theorem | Says |
| --- | --- |
| `RuntimeV2Proofs!TypeCorrect`, `SlotCapHolds`, `OwnsSlotHolds`, `WorkerCapHolds` | types, slots, ownership and worker cap of v2 |
| `RuntimeV2Proofs!ImplementsPoolHolds`, `SlotsAccountedHolds` | v2 implements `WorkerPool`; lost slots are counted |
| `RuntimeV2Proofs!PoolKeepsCap` | `WorkerPool` keeps the cap, so whatever implements it does |
| `RuntimeV2Proofs!QuietSlotsBack`, `LostForGood`, `RunningRowsTraced` | what is left behind: no more than kills and raised calls explain, and lost slots for good |
| `RuntimeV2Proofs!CommandsEnd` | every command comes nearer its end with each of its steps (finitely many tasks) |
| `RuntimeV2ResultProofs!ResultBacksAttemptHolds`, `ResultBacksTaskHolds`, `DependenciesDoneHolds`, `CompletedStaysHolds`, `QuietTasksSettledHolds` | results, dependencies, completions and settled tasks of v2 |
| `HostLocalProofs!TypeCorrect`, `LeaseExclusiveHolds`, `RowFindsFilesHolds`, `CompletedBackedHolds` | types, leases, files and completions of v1 |
| `HostLocalProofs!ImplementsPoolHolds` | v1 implements `WorkerPool`, given `InTime` and `Kinds \subseteq {"reconcile"}` |
| `HostLocalProofs!LeasesTraced`, `RunningRowsTraced`, `CommandsEnd` | leases and running rows left behind are traced to kills and raised calls; commands end |
| `HostLocalProofs!RunExclusiveHolds`, `QuotaKeptHolds` | exclusion and quota of v1, given `InTime` and `Kinds \subseteq {"reconcile"}` |
| `HostLocalProofs!LedgerBacksRowHolds` | ledgers of v1, under the same assumptions and without raised calls |
| `OrchestrationProofs!PlanHoldsEachTaskHolds`, `PlanOrdersDependenciesHolds`, `ConflictsApartHolds`, `WithinBudgetHolds` | the waves: complete, ordered, without conflicts, within budget |
| `OrchestrationProofs!RefusedOnlyByOthersHolds` | no step refuses a task because of its own wave (an action property) |
| `OrchestrationProofs!TypeCorrect`, `StopHonouredHolds`, `DependenciesOfThisRunHolds`, `SummaryHonestHolds` | slots, stop policy, dependencies and summary of a batch |
| `OrchestrationProofs!DependencyIssuesExact` | a manifest is blocked for its dependencies exactly when one is unknown or there is a cycle |
| `OrchestrationProofs!TasksRunOnce`, `BatchEnds` | no task twice in one run of a manifest; the batch only goes on (action properties) |
| `PlanningProofs!SelectionVerifiedHolds`, `StagesInOrderHolds`, `PackageWholeHolds`, `LeadsToMissingHolds` | what a selection rests on |
| `PlanningProofs!PlaneSelectsHolds` | a sound plane that nobody touches is selected from, given `PlanesSound` |
| `PlanningProofs!WalkIsNeed`, `GraphRooted` | what the verifier's walk and its check of the graph amount to |
| `CutoverProofs!TypeCorrect`, `SwitchBackedHolds`, `ArchiveRestoresHolds` | types, switch and archives of the cutover |
| `CutoverProofs!TornByCrash` | a torn configuration is the trace of a kill, or about to be written |
| `WorkspaceProofs!TypeCorrect`, `LeftTreeRecordedHolds`, `NoWorkLostHolds`, `EvidenceAgreesHolds` | types, worktrees and evidence |
| `WorkspaceProofs!RunningRowsTraced` | a row "running" without a run is the trace of a kill or of a handler cut short |

Every invariant and action property of the passing runs is proved. Only model-checked are the liveness properties
`SlotsReturned`, `BlockedServed` and `LeasesReturned`: fairness and ENABLED are outside the
prover, and `CommandsEnd` of each runtime is the part of them that is not about fairness. The runs
that expect a violation are counterexamples; there is nothing to prove about them. The theorems
without a property of a run (the traces, the measures, v1's refinement, the lemmas about decision and graph)
are about the same specifications.

## 7. Not modelled

Workers, gate commands and git are outside: what they return is a choice of the
model. Contents of prompts, reviews, traces and digests; the tables no code reads;
parsing and validation of configuration and tasks, whose guarantees are the assumptions of
the constants; the intake of markdown tasks, parity reports, rehearsals and simulations;
the vendored snapshot. `process_guard.py` enumerates a process tree and drains pipes: here a child
ends, is killed or hangs, and may leave others behind. `runner_acceptance.py` and the comparison of two
metric files are pure functions of files nobody else changes. The verifiers of baselines and contracts in
`scripts/` (`verify-local-ai-runtime-baseline.py`, `state_policy_contract.py` and the like) first compare
the digests of what they read with pinned ones, so the semantic checks behind that only ever run on
one input; there is no state and no actor beside them. The planning verifier calls
`_verify_manifest_contract_slice` (`verify-planning-status.py:419`), which returns at once unless a work item
LAR-P0A-002 is completed; the v3.25 plan has no work item of that name, so the slice never gets further.

Small helper operators (`Leave`, `Lease`, `Own`, `Group`, `Sound`, `Changes`, `RefsHold` and some others) have no entry
of their own in the map; the lines they stand for are those of the operators that use them.

## 8. What could be added

* `Orchestration` as a client of `WorkerPool`. It is not a refinement step by step as it stands:
  a batch counts the leases of runs outside it without naming them, and a kill of the batch loses several slots
  in one step where the pool loses one.
* The total budget of a manifest: a guarded manifest with more tasks than its total is refused
  before anything starts (`GuardedReady`), so no batch can exceed it and no property says so.
* A run for the successor candidate that policy and verifier of the planning plane disagree on.
