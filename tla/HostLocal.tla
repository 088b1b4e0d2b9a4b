----------------------------- MODULE HostLocal -----------------------------
(***************************************************************************)
(* The v1 runtime: HostLocalRunner.run_task (host_local.py) and the        *)
(* operator commands of task_lifecycle.py over the SQLite control plane    *)
(* (db.py) and the dispatch_state.json ledgers (dispatch_state.py).        *)
(*                                                                         *)
(* A run is one CLI process; it is also its run_id and its lease token.    *)
(* Every call of db opens its own connection and commits before it         *)
(* returns, and every file is written by one call: each is one action.     *)
(* Time is counted in units of which LeaseTTL make LEASE_TTL.              *)
(***************************************************************************)
EXTENDS Naturals, FiniteSets

CONSTANTS
  Tasks,                  \* canonical tasks
  NoTask,                 \* the task of a run not launched yet
  Runs,                   \* runs, in the order-free supply of run ids
  NoRun,                  \* a result_path that is NULL
  Profiles,               \* worker profiles of workers.yaml
  Profile,                \* the worker profile each task resolves to
  MaxLeases,              \* max_active_leases of each profile
  Traits,                 \* what the gates read of each task
  LeaseTTL,               \* LEASE_TTL
  InTime,                 \* whether every run ends before its lease expires
  Operators,              \* operator processes
  Kinds,                  \* the commands operators use
  MaxNow,                 \* bound: the last instant; all leases expire by then
  MaxCommands,            \* bound: operator commands other than reconcile
  MaxCrashes,             \* bound: runs killed
  MaxErrors               \* bound: database or file calls of runs that raise

\* planner: _planner_gate_reasons; sidecar: the profile has a live planner;
\* gated: _worker_execution_gate_reasons; review: _review_gate_reasons;
\* bad_paths: validate_task_paths raises.
TraitsType == [planner: BOOLEAN, sidecar: BOOLEAN, gated: BOOLEAN,
               review: BOOLEAN, bad_paths: BOOLEAN]

Dispositions == {"approve", "revise", "reject"}
AllKinds == Dispositions \cup {"cancel", "resume", "retry", "reconcile"}

ASSUME ConstantsAssumption ==
  /\ NoTask \notin Tasks /\ NoRun \notin Runs
  /\ IsFiniteSet(Runs)
  /\ Profile \in [Tasks -> Profiles]
  /\ MaxLeases \in [Profiles -> Nat \ {0}]
  /\ Traits \in [Tasks -> TraitsType]
  /\ LeaseTTL \in Nat \ {0}
  /\ InTime \in BOOLEAN
  /\ Kinds \subseteq AllKinds
  /\ MaxNow \in Nat /\ MaxCommands \in Nat
  /\ MaxCrashes \in Nat /\ MaxErrors \in Nat

VARIABLES
  now,        \* the clock
  leases,     \* the runs whose lease row exists
  expires,    \* expires_at of each run's lease, its ledgers' stale_after too
  rows,       \* runtime_tasks
  ledgers,    \* dispatch_state.json of each run
  results,    \* status in each run's result.json, "none" before it exists
  closeouts,  \* status in each run's closeout_bundle.json
  pc,         \* the next call of each run
  task,       \* the task of each run
  outcome,    \* the state the run is about to record
  handler,    \* inside "try", inside "except"
  opc,        \* the next call of each operator process
  kind,       \* its command
  record,     \* the RuntimeTaskRecord it loaded: a task and its row then
  scan,       \* reconcile_stale_tasks: the records not looked at yet
  as_of,      \* ... the instant it was started at
  commands, crashed, erred    \* how much of each bound is used

db    == <<leases, rows>>
files == <<ledgers, results, closeouts>>
run   == <<expires, pc, task, outcome, handler>>
oper  == <<opc, kind, record, scan, as_of>>
spent == <<commands, crashed, erred>>
vars  == <<now, db, files, run, oper, spent>>

RunStates == {"waiting_handoff", "needs_review", "completed", "failed"}
Ops       == {"cancelled", "stale", "resumed"}
Recorded  == RunStates \cup Ops
States    == Recorded \cup {"running"}

NoRow == [state |-> "absent", run |-> NoRun, attempt |-> 0, result |-> NoRun]
NoRecord == [task |-> NoTask, row |-> NoRow]
NoLedger == [status |-> "absent", attempt |-> 0, stale_after |-> 0]

Init ==
  /\ now = 0
  /\ leases = {} /\ expires = [r \in Runs |-> 0]
  /\ rows = [t \in Tasks |-> NoRow]
  /\ ledgers = [r \in Runs |-> NoLedger]
  /\ results = [r \in Runs |-> "none"]
  /\ closeouts = [r \in Runs |-> "none"]
  /\ pc = [r \in Runs |-> "unused"]
  /\ task = [r \in Runs |-> NoTask]
  /\ outcome = [r \in Runs |-> "none"]
  /\ handler = [r \in Runs |-> "none"]
  /\ opc = [o \in Operators |-> "idle"]
  /\ kind = [o \in Operators |-> "none"]
  /\ record = [o \in Operators |-> NoRecord]
  /\ scan = [o \in Operators |-> {}]
  /\ as_of = [o \in Operators |-> 0]
  /\ commands = 0 /\ crashed = 0 /\ erred = 0

---------------------------------------------------------------------------
\* Helpers

At(r, label) == pc[r] = label
Goto(r, label) == pc' = [pc EXCEPT ![r] = label]
Busy(r) == At(r, "plan") \/ At(r, "work")
Running(r) == pc[r] \notin {"unused", "ended"}

\* The process is gone with what it had in mind; a lease or a ledger may stay.
End(r) ==
  /\ Goto(r, "ended")
  /\ outcome' = [outcome EXCEPT ![r] = "none"]
  /\ handler' = [handler EXCEPT ![r] = "none"]

\* db.upsert_runtime_task: a result_path of NULL keeps the one of the row.
Upsert(t, state, r, attempt, result) ==
  rows' = [rows EXCEPT ![t] =
             [state |-> state, run |-> r, attempt |-> attempt,
              result |-> IF result = NoRun THEN @.result ELSE result]]

\* HostLocalConfig.attempt: the command line never sets another.
RunAttempt == 1

\* db.count_active_leases_for_worker_profile: expired leases count until they
\* are reaped, and a lease counts only once its task has a row.
ActiveLeases(profile) ==
  {r \in leases : rows[task[r]] # NoRow /\ Profile[task[r]] = profile}

---------------------------------------------------------------------------
\* HostLocalRunner.run_task

\* Mutant: inserts without looking for a lease that is left.
AcquireUnchecked(r, t) ==
  /\ At(r, "unused") /\ now + LeaseTTL <= MaxNow
  /\ leases' = {x \in leases : ~(task[x] = t /\ expires[x] <= now)} \cup {r}
  /\ task' = [task EXCEPT ![r] = t]
  /\ expires' = [expires EXCEPT ![r] = now + LeaseTTL]
  /\ handler' = [handler EXCEPT ![r] = "try"]
  /\ Goto(r, "mark")
  /\ UNCHANGED <<now, rows, files, outcome, oper, spent>>

\* Mutant: takes a lease for expired an instant too early.
AcquireEarly(r, t) ==
  /\ At(r, "unused") /\ now + LeaseTTL <= MaxNow
  /\ LET kept == {x \in leases : ~(task[x] = t /\ expires[x] <= now + 1)}
     IN /\ \A x \in kept : task[x] # t
        /\ leases' = kept \cup {r}
  /\ task' = [task EXCEPT ![r] = t]
  /\ expires' = [expires EXCEPT ![r] = now + LeaseTTL]
  /\ handler' = [handler EXCEPT ![r] = "try"]
  /\ Goto(r, "mark")
  /\ UNCHANGED <<now, rows, files, outcome, oper, spent>>

\* started_at and db.acquire_lease, one BEGIN IMMEDIATE transaction; with a
\* LeaseConflictError the command ends and nothing has changed.
AcquireLease(r, t) ==
  /\ At(r, "unused") /\ now + LeaseTTL <= MaxNow
  /\ LET kept == {x \in leases : ~(task[x] = t /\ expires[x] <= now)}
     IN /\ \A x \in kept : task[x] # t
        /\ leases' = kept \cup {r}
  /\ task' = [task EXCEPT ![r] = t]
  /\ expires' = [expires EXCEPT ![r] = now + LeaseTTL]
  /\ handler' = [handler EXCEPT ![r] = "try"]
  /\ Goto(r, "mark")
  /\ UNCHANGED <<now, rows, files, outcome, oper, spent>>

\* upsert_runtime_task(running) with the path of a ledger not yet written.
MarkRunning(r) ==
  /\ At(r, "mark")
  /\ Upsert(task[r], "running", r, RunAttempt, NoRun)
  /\ Goto(r, "gate")
  /\ UNCHANGED <<now, leases, files, expires, task, outcome, handler, oper, spent>>

\* Mutant: allows for the run's own lease a second time.
QuotaExceededPlusOwn(profile) ==
  Cardinality(ActiveLeases(profile)) > MaxLeases[profile] + 1

\* _quota_gate_reasons: the run's own lease is among those counted.
QuotaExceeded(profile) ==
  Cardinality(ActiveLeases(profile)) > MaxLeases[profile]

\* Mutant: the handler records the row and forgets the ledger.
EnterExceptNoLedger(r) ==
  /\ handler' = [handler EXCEPT ![r] = "except"]
  /\ outcome' = [outcome EXCEPT ![r] = "failed"]
  /\ Goto(r, "row")

\* "except Exception"
EnterExcept(r) ==
  /\ handler' = [handler EXCEPT ![r] = "except"]
  /\ outcome' = [outcome EXCEPT ![r] = "failed"]
  /\ Goto(r, "ledger")

\* The gates before the worker; the planner sidecar only ever hands off.
Gate(r) ==
  LET traits == Traits[task[r]]
  IN /\ At(r, "gate")
     /\ IF traits.bad_paths THEN EnterExcept(r)
        ELSE IF \/ traits.gated \/ QuotaExceeded(Profile[task[r]])
                \/ traits.planner /\ ~traits.sidecar
             THEN /\ outcome' = [outcome EXCEPT ![r] = "waiting_handoff"]
                  /\ Goto(r, "ledger")
                  /\ UNCHANGED handler
        ELSE /\ Goto(r, IF traits.planner THEN "plan" ELSE "work")
             /\ UNCHANGED <<outcome, handler>>
     /\ UNCHANGED <<now, db, files, expires, task, oper, spent>>

\* Mutant: goes on to the records without the state to record.
PlannerDoneNoOutcome(r) ==
  /\ At(r, "plan")
  /\ Goto(r, "ledger")
  /\ UNCHANGED <<now, db, files, expires, task, outcome, handler, oper, spent>>

\* _run_planner_sidecar, whatever its disposition.
PlannerDone(r) ==
  /\ At(r, "plan")
  /\ outcome' = [outcome EXCEPT ![r] = "waiting_handoff"]
  /\ Goto(r, "ledger")
  /\ UNCHANGED <<now, db, files, expires, task, handler, oper, spent>>

\* The worker, the change policy, run_verification and the worktree cleanup.
WorkerDone(r) ==
  /\ At(r, "work")
  /\ \E verified \in BOOLEAN :
       outcome' = [outcome EXCEPT ![r] =
                     IF ~verified THEN "failed"
                     ELSE IF Traits[task[r]].review THEN "needs_review"
                     ELSE "completed"]
  /\ Goto(r, "ledger")
  /\ UNCHANGED <<now, db, files, expires, task, handler, oper, spent>>

\* The planner, the worker or one of the checks on its work raises.
WorkFails(r) ==
  /\ At(r, "plan") \/ At(r, "work")
  /\ EnterExcept(r)
  /\ UNCHANGED <<now, db, files, expires, task, oper, spent>>

\* write_dispatch_state, the first time this run's ledger exists
WriteLedger(r) ==
  /\ At(r, "ledger")
  /\ ledgers' = [ledgers EXCEPT ![r] =
                   [status |-> outcome[r], attempt |-> RunAttempt,
                    stale_after |-> expires[r]]]
  /\ Goto(r, IF handler[r] = "try" THEN "bundle" ELSE "row")
  /\ UNCHANGED <<now, db, results, closeouts, expires, task, outcome, handler, oper, spent>>

ResultStatus(state) == IF state = "completed" THEN "succeeded" ELSE state

\* _closeout_status
CloseoutStatus(result) ==
  CASE result = "succeeded" -> "succeeded"
    [] result \in {"waiting_handoff", "needs_review"} -> "partial"
    [] OTHER -> "blocked"

\* result.json, closeout_bundle.json and the references between them; the
\* ledger only gains references.
WriteBundle(r) ==
  /\ At(r, "bundle")
  /\ results' = [results EXCEPT ![r] = ResultStatus(outcome[r])]
  /\ closeouts' = [closeouts EXCEPT ![r] = CloseoutStatus(ResultStatus(outcome[r]))]
  /\ Goto(r, "row")
  /\ UNCHANGED <<now, db, ledgers, expires, task, outcome, handler, oper, spent>>

\* upsert_runtime_task; the handler passes no result_path.
WriteRow(r) ==
  /\ At(r, "row")
  /\ Upsert(task[r], outcome[r], r, RunAttempt,
            IF handler[r] = "try" THEN r ELSE NoRun)
  /\ Goto(r, "event")
  /\ UNCHANGED <<now, leases, files, expires, task, outcome, handler, oper, spent>>

\* append_event
AppendEvent(r) ==
  /\ At(r, "event")
  /\ Goto(r, "release")
  /\ UNCHANGED <<now, db, files, expires, task, outcome, handler, oper, spent>>

\* "finally": db.release_lease by token, nothing if the row is gone.
ReleaseLease(r) ==
  /\ At(r, "release")
  /\ leases' = leases \ {r}
  /\ End(r)
  /\ UNCHANGED <<now, rows, files, expires, task, oper, spent>>

---------------------------------------------------------------------------
\* Time and failures

\* Nothing in the code keeps a run within LEASE_TTL (no worker is built with a
\* timeout and renew_lease has no caller): InTime is an assumption.
Tick ==
  /\ now < MaxNow
  /\ InTime => \A r \in Runs : Running(r) => now + 1 < expires[r]
  /\ now' = now + 1
  /\ UNCHANGED <<db, files, run, oper, spent>>

\* The run is killed: what it committed stays.
Crash(r) ==
  /\ Running(r) /\ crashed < MaxCrashes
  /\ crashed' = crashed + 1
  /\ End(r)
  /\ UNCHANGED <<now, db, files, expires, task, oper, commands, erred>>

\* A call raises before it has any effect: the first time the handler starts,
\* in the handler "finally" follows, and in "finally" the lease stays.
CallRaises(r) ==
  /\ Running(r) /\ erred < MaxErrors
  /\ erred' = erred + 1
  /\ CASE At(r, "release") -> End(r)
       [] ~At(r, "release") /\ handler[r] = "try" -> EnterExcept(r)
       [] OTHER -> Goto(r, "release") /\ UNCHANGED <<outcome, handler>>
  /\ UNCHANGED <<now, db, files, expires, task, oper, commands, crashed>>

---------------------------------------------------------------------------
\* task_lifecycle.py

OAt(o, label) == opc[o] = label
OGoto(o, label) == opc' = [opc EXCEPT ![o] = label]

\* What a command asks _apply_transition to record.
TargetState(k) ==
  CASE k \in {"cancel", "reject"} -> "cancelled"
    [] k \in {"resume", "retry", "revise"} -> "resumed"
    [] k = "approve" -> "completed"
    [] OTHER -> "stale"
NewAttempt(k, row) == IF k \in {"retry", "revise"} THEN row.attempt + 1 ELSE row.attempt

\* Mutant: a disposition does not look at the state of the row.
CommandUnguarded(o, k, t) ==
  /\ OAt(o, "idle") /\ commands < MaxCommands
  /\ k \in Kinds \ {"reconcile"} /\ rows[t] # NoRow
  /\ commands' = commands + 1
  /\ kind' = [kind EXCEPT ![o] = k]
  /\ record' = [record EXCEPT ![o] = [task |-> t, row |-> rows[t]]]
  /\ as_of' = [as_of EXCEPT ![o] = now]
  /\ OGoto(o, "release")
  /\ UNCHANGED <<now, db, files, run, scan, crashed, erred>>

\* cancel_task, resume_task, retry_task, record_review_disposition, up to
\* _load_record; only a disposition looks at the state of the row.
Command(o, k, t) ==
  /\ OAt(o, "idle") /\ commands < MaxCommands
  /\ k \in Kinds \ {"reconcile"} /\ rows[t] # NoRow
  /\ k \in Dispositions => rows[t].state = "needs_review"
  /\ commands' = commands + 1
  /\ kind' = [kind EXCEPT ![o] = k]
  /\ record' = [record EXCEPT ![o] = [task |-> t, row |-> rows[t]]]
  /\ as_of' = [as_of EXCEPT ![o] = now]
  /\ OGoto(o, "release")
  /\ UNCHANGED <<now, db, files, run, scan, crashed, erred>>

\* Mutant: reconcile does not reap.
ReconcileNoReap(o) ==
  /\ OAt(o, "idle") /\ "reconcile" \in Kinds
  /\ kind' = [kind EXCEPT ![o] = "reconcile"]
  /\ as_of' = [as_of EXCEPT ![o] = now]
  /\ OGoto(o, "load")
  /\ UNCHANGED <<now, db, files, run, record, scan, spent>>

\* reconcile_stale_tasks starts with db.reap_stale_leases.
Reconcile(o) ==
  /\ OAt(o, "idle") /\ "reconcile" \in Kinds
  /\ leases' = {r \in leases : expires[r] > now}
  /\ kind' = [kind EXCEPT ![o] = "reconcile"]
  /\ as_of' = [as_of EXCEPT ![o] = now]
  /\ OGoto(o, "load")
  /\ UNCHANGED <<now, rows, files, run, record, scan, spent>>

\* STALE_CANDIDATE_STATES, those that this code ever writes
StaleCandidates == {"running", "resumed"}

\* _load_records, in one read
LoadRecords(o) ==
  /\ OAt(o, "load")
  /\ scan' = [scan EXCEPT ![o] =
                {[task |-> t, row |-> rows[t]] :
                   t \in {x \in Tasks : rows[x].state \in StaleCandidates}}]
  /\ OGoto(o, "scan")
  /\ UNCHANGED <<now, db, files, run, kind, record, as_of, spent>>

Finish(o) ==
  /\ OGoto(o, "idle")
  /\ kind' = [kind EXCEPT ![o] = "none"]
  /\ record' = [record EXCEPT ![o] = NoRecord]
  /\ scan' = [scan EXCEPT ![o] = {}]
  /\ as_of' = [as_of EXCEPT ![o] = 0]

\* FileNotFoundError: the ledger of the record's run was never written.  Nobody
\* catches it, the command ends there, reconcile with all that is left.
LedgerMissing(o) ==
  /\ \/ OAt(o, "ledger") /\ ledgers[record[o].row.run] = NoLedger
     \/ OAt(o, "scan") /\ \E e \in scan[o] : ledgers[e.row.run] = NoLedger
  /\ Finish(o)
  /\ UNCHANGED <<now, db, files, run, spent>>

\* One record of the loop: an expired ledger makes the task stale.
Scan(o) ==
  /\ OAt(o, "scan")
  /\ \E e \in scan[o] :
       /\ ledgers[e.row.run] # NoLedger
       /\ scan' = [scan EXCEPT ![o] = @ \ {e}]
       /\ IF ledgers[e.row.run].stale_after <= as_of[o]
          THEN /\ record' = [record EXCEPT ![o] = e]
               /\ OGoto(o, "ledger")
          ELSE UNCHANGED <<record, opc>>
  /\ UNCHANGED <<now, db, files, run, kind, as_of, spent>>

ScanDone(o) ==
  /\ OAt(o, "scan") /\ scan[o] = {}
  /\ Finish(o)
  /\ UNCHANGED <<now, db, files, run, spent>>

\* _apply_transition: db.release_task_leases, ...
ReleaseTaskLeases(o) ==
  /\ OAt(o, "release")
  /\ leases' = {r \in leases : task[r] # record[o].task}
  /\ OGoto(o, "ledger")
  /\ UNCHANGED <<now, rows, files, run, kind, record, scan, as_of, spent>>

\* ... update_dispatch_state (resumptions move stale_after), ...
UpdateLedger(o) ==
  LET row == record[o].row
  IN /\ OAt(o, "ledger") /\ ledgers[row.run] # NoLedger
     /\ ledgers' = [ledgers EXCEPT ![row.run] =
          [status |-> TargetState(kind[o]), attempt |-> NewAttempt(kind[o], row),
           stale_after |-> IF TargetState(kind[o]) = "resumed"
                           THEN as_of[o] + LeaseTTL ELSE @.stale_after]]
     /\ OGoto(o, "row")
     /\ UNCHANGED <<now, db, results, closeouts, run, kind, record, scan, as_of, spent>>

\* ... upsert_runtime_task from the record, ...
UpdateRow(o) ==
  LET row == record[o].row
  IN /\ OAt(o, "row")
     /\ Upsert(record[o].task, TargetState(kind[o]), row.run,
               NewAttempt(kind[o], row), row.result)
     /\ OGoto(o, "closeout")
     /\ UNCHANGED <<now, leases, files, run, kind, record, scan, as_of, spent>>

\* _closeout_status_for_state
CloseoutForState(state) ==
  CASE state = "completed" -> "succeeded" [] state = "resumed" -> "partial"
    [] OTHER -> "blocked"

\* ... _refresh_closeout_bundle at the record's result_path, append_event.
RefreshCloseout(o) ==
  LET result == record[o].row.result
  IN /\ OAt(o, "closeout")
     /\ closeouts' = [r \in Runs |->
          IF r = result THEN CloseoutForState(TargetState(kind[o])) ELSE closeouts[r]]
     /\ IF kind[o] = "reconcile"
        THEN OGoto(o, "scan") /\ UNCHANGED <<kind, record, scan, as_of>>
        ELSE Finish(o)
     /\ UNCHANGED <<now, db, ledgers, results, run, spent>>

---------------------------------------------------------------------------

RunStep(r) ==
  \/ MarkRunning(r) \/ Gate(r) \/ PlannerDone(r) \/ WorkerDone(r) \/ WorkFails(r)
  \/ WriteLedger(r) \/ WriteBundle(r) \/ WriteRow(r) \/ AppendEvent(r)
  \/ ReleaseLease(r)

OperatorStep(o) ==
  \/ LoadRecords(o) \/ LedgerMissing(o) \/ Scan(o) \/ ScanDone(o)
  \/ ReleaseTaskLeases(o) \/ UpdateLedger(o) \/ UpdateRow(o) \/ RefreshCloseout(o)

Next ==
  \/ Tick
  \/ \E r \in Runs : \/ \E t \in Tasks : AcquireLease(r, t)
                     \/ RunStep(r) \/ Crash(r) \/ CallRaises(r)
  \/ \E o \in Operators : \/ \E k \in Kinds, t \in Tasks : Command(o, k, t)
                          \/ Reconcile(o) \/ OperatorStep(o)

Spec == Init /\ [][Next]_vars

\* The clock and a run's own calls go on, but a planner or a worker may hang;
\* somebody keeps issuing --reconcile-stale-tasks.
Fairness ==
  /\ WF_vars(Tick)
  /\ \A r \in Runs : WF_vars(~Busy(r) /\ RunStep(r))
  /\ \A o \in Operators : WF_vars(OperatorStep(o)) /\ WF_vars(Reconcile(o))

FairSpec == Spec /\ Fairness

---------------------------------------------------------------------------
\* Properties

RowType == [state: States \cup {"absent"}, run: Runs \cup {NoRun},
            attempt: Nat, result: Runs \cup {NoRun}]

TypeOK ==
  /\ now \in Nat
  /\ leases \subseteq Runs /\ expires \in [Runs -> Nat]
  /\ rows \in [Tasks -> RowType]
  /\ ledgers \in [Runs -> [status: Recorded \cup {"absent"}, attempt: Nat,
                           stale_after: Nat]]
  /\ results \in [Runs -> {"none", "succeeded", "waiting_handoff",
                           "needs_review", "failed"}]
  /\ closeouts \in [Runs -> {"none", "succeeded", "partial", "blocked"}]
  /\ pc \in [Runs -> {"unused", "mark", "gate", "plan", "work", "ledger",
                      "bundle", "row", "event", "release", "ended"}]
  /\ task \in [Runs -> Tasks \cup {NoTask}]
  /\ outcome \in [Runs -> RunStates \cup {"none"}]
  /\ handler \in [Runs -> {"none", "try", "except"}]
  /\ opc \in [Operators -> {"idle", "load", "scan", "release", "ledger", "row",
                            "closeout"}]
  /\ kind \in [Operators -> AllKinds \cup {"none"}]
  /\ record \in [Operators -> [task: Tasks \cup {NoTask}, row: RowType]]
  /\ scan \in [Operators -> SUBSET [task: Tasks, row: RowType]]
  /\ as_of \in [Operators -> Nat]
  /\ commands \in Nat /\ crashed \in Nat /\ erred \in Nat

\* A task never has two lease rows, though no column of leases is unique but
\* the token: acquire_lease deletes, checks and inserts in one transaction.
LeaseExclusive ==
  \A r, x \in leases : task[r] = task[x] => r = x

\* While runs end within their lease and operators do not interfere, no two
\* runs of a task are past acquire_lease at once, whatever was killed or reaped.
RunExclusive ==
  \A r, x \in Runs :
    (Running(r) /\ Running(x) /\ task[r] = task[x]) => r = x

\* ... and at most max_active_leases planners and workers of a profile run,
\* although the lease and the row it is counted by are written in two
\* transactions and the count is taken in a third.
QuotaKept ==
  \A profile \in Profiles :
    Cardinality({r \in Runs : Busy(r) /\ Profile[task[r]] = profile})
      <= MaxLeases[profile]

\* As long as no call has raised and no operator command was given (reconcile
\* may run), a row in a state of run_task says what the ledger of its run says,
\* also when another run of the task ended meanwhile or was killed.
LedgerBacksRow ==
  erred = 0 /\ commands = 0 =>
    \A t \in Tasks :
      rows[t].state \in RunStates \cup {"stale"} =>
        ledgers[rows[t].run].status = rows[t].state

\* The ledger is written first: a row that records anything but a running task
\* names a run that has a ledger, and one that names a result names a result
\* file that exists, whatever operators do and however runs are cut short.
RowFindsFiles ==
  \A t \in Tasks :
    /\ rows[t].state \in Recorded => ledgers[rows[t].run] # NoLedger
    /\ rows[t].result # NoRun => results[rows[t].result] # "none"

\* A task is completed only with the result of the very run its row names, a
\* result that succeeded or that an operator approved: no mix of stale records,
\* retries and late runs completes a task whose run failed or handed off.
CompletedBacked ==
  \A t \in Tasks : rows[t].state = "completed" =>
    /\ rows[t].result = rows[t].run
    /\ results[rows[t].run] \in {"succeeded", "needs_review"}

\* A lease does not outlive its run for ever: it is released, or it expires and
\* is reaped, although reconcile aborts at the first missing ledger.  (A lease
\* that is never reaped blocks its task's profile, see QuotaExceeded.)
LeasesReturned == <>[](\A r \in leases : Busy(r))

\* run-state-and-handoff.md: the result_path of a row that records the end of a
\* run points to the result of that run.
ResultOfRun ==
  \A t \in Tasks :
    rows[t].state \in RunStates => rows[t].result \in {NoRun, rows[t].run}

\* A task whose run was killed is found stale, or run again, or handled by an
\* operator, once its lease has expired.
KilledRunFound ==
  \A t \in Tasks :
    (rows[t].state = "running" /\ ~Running(rows[t].run)) ~>
      ~(rows[t].state = "running" /\ ~Running(rows[t].run))

=============================================================================
