----------------------------- MODULE Workspace -----------------------------
(***************************************************************************)
(* What HostLocal leaves out of a v1 run: the worktree the runtime makes,  *)
(* adopts and removes around a worker (worktree_manager.py), the audit of  *)
(* its changes (path_guard.py), the gates (verification.py), and what the  *)
(* evidence files and the task row say in the end (host_local.py,          *)
(* canonical_result.py, evidence_index.py).                                *)
(*                                                                         *)
(* Leases are HostLocal's: here a task has one run at a time.  Two tasks   *)
(* may name the same worktree and branch, for a lease is held by task.     *)
(* A tree's dirty set is what git status shows of it; ignored files are in *)
(* no set.  write_access=false is a task with no allowed area.             *)
(***************************************************************************)
EXTENDS Naturals

CONSTANTS
  Tasks, NoTask, Runs, NoRun,
  Trees,        \* paths of worktrees
  Root,         \* the checkout of the repository itself
  Branches,
  Areas,        \* parts of a worktree that patterns tell apart
  Tree,         \* worktree_path of each task; Root for "."
  Branch,       \* branch_name of each task
  Allowed,      \* areas within allowed_paths and outside forbidden_paths
  Reviewed,     \* tasks whose risk, paths or verification ask for review
  Gated,        \* tasks with a test or a contract command
  MaxFaults     \* bound: killed runs and changes made by nobody's step

ASSUME WorkspaceAssumption ==
  /\ Root \notin Trees /\ NoTask \notin Tasks /\ NoRun \notin Runs
  /\ Tree \in [Tasks -> Trees \cup {Root}] /\ Branch \in [Tasks -> Branches]
  /\ Allowed \in [Tasks -> SUBSET Areas] /\ Reviewed \in SUBSET Tasks
  /\ Gated \in SUBSET Tasks
  /\ MaxFaults \in Nat

VARIABLES
  tree,     \* each path: whether a worktree is there, its branch, its changes
  pc, job,  \* each run: its next step and its locals
  row,      \* runtime_tasks
  projection, \* AgentBridge results/<task>.md: the status it has
  file,     \* evidence files of each run: contents, or Absent
  index,    \* evidence_index.json: the contents it has digests of
  faults    \* what MaxFaults bounds

vars == <<tree, pc, job, row, projection, file, index, faults>>
evidence == <<projection, file, index>>

Steps == {"idle", "gate", "prepare", "add", "validate", "baseline", "work",
          "audit", "verify", "cleanup", "remove", "ledger", "bundle", "receipt",
          "closeout", "refs", "index", "row", "event", "fail_ledger", "fail_row", "over"}
Kinds == {"ledger", "result", "verification", "projection", "receipt", "closeout"}
Cleanups == {"inline_only", "deferred", "cleanup_failed", "cleaned"}
Owners == {"inline_execution", "operator", "runtime"}
RunStates == {"waiting_handoff", "needs_review", "failed"}
RowStates == RunStates \cup {"running", "completed", "resumed", "cancelled"}
Verdicts == {"pass", "failed", "no_commands_configured", "waiting_handoff"}
Results == RunStates \cup {"succeeded"}
Words == RowStates \cup Verdicts \cup {"succeeded", "partial", "blocked", "absent"}
\* What a file says: its status, its cleanup where it has one, and whether
\* its references to the other files are filled in.
Contents == [status : Words, cleanup : Cleanups \cup {"none"}, refs : BOOLEAN]
Absent == [status |-> "absent", cleanup |-> "none", refs |-> FALSE]

TypeOK ==
  /\ tree \in [Trees \cup {Root} -> [present : BOOLEAN, branch : Branches,
                                     dirty : SUBSET Areas]]
  /\ pc \in [Runs -> Steps]
  /\ job \in [Runs -> [task : Tasks \cup {NoTask}, managed : BOOLEAN,
                       from_root : BOOLEAN, baseline : SUBSET Areas,
                       bridge : BOOLEAN, verified : Verdicts,
                       status : Results, cleanup : Cleanups,
                       owner : Owners, raised : BOOLEAN]]
  /\ row \in [Tasks -> [run : Runs \cup {NoRun}, state : RowStates,
                        cleanup : Cleanups, owner : Owners,
                        by : {"start", "run", "handler", "operator"}]]
  /\ file \in [Runs -> [Kinds -> Contents]]
  /\ index \in [Runs -> [Kinds -> Contents]]
  /\ projection \in [Tasks -> {"absent"} \cup Results]
  /\ faults \in Nat

\* The status a worktree cleanup has before there is one.
Declared(t) == IF Tree[t] = Root THEN "inline_only" ELSE "deferred"
FirstOwner(t) == IF Tree[t] = Root THEN "inline_execution" ELSE "operator"

NoFiles == [k \in Kinds |-> Absent]

Init ==
  /\ \E b \in Branches :
       tree = [p \in Trees \cup {Root} |->
                 [present |-> p = Root, branch |-> b, dirty |-> {}]]
  /\ pc = [r \in Runs |-> "idle"]
  /\ job = [r \in Runs |->
       [task |-> NoTask, managed |-> FALSE, from_root |-> TRUE, baseline |-> {},
        bridge |-> FALSE, verified |-> "pass", status |-> "succeeded",
        cleanup |-> "deferred", owner |-> "operator", raised |-> FALSE]]
  /\ row = [t \in Tasks |-> [run |-> NoRun, state |-> "running",
              cleanup |-> Declared(t), owner |-> FirstOwner(t), by |-> "start"]]
  /\ projection = [t \in Tasks |-> "absent"]
  /\ file = [r \in Runs |-> NoFiles] /\ index = [r \in Runs |-> NoFiles]
  /\ faults = 0

TaskOf(r) == job[r].task
Path(r) == Tree[TaskOf(r)]
Active(r) == pc[r] \notin {"idle", "over"}
Go(r, step) == pc' = [pc EXCEPT ![r] = step]
\* Into the handler, which a run enters once.
Fail(r) == Go(r, "fail_ledger") /\ job' = [job EXCEPT ![r].raised = TRUE]

\* git finds the path to be the root of a worktree on the declared branch.
Sound(r) == tree[Path(r)].present /\ tree[Path(r)].branch = Branch[TaskOf(r)]

-----------------------------------------------------------------------------
(* From the lease to the worker.                                           *)

\* The workspace a run is started in is the repository or the worktree
\* itself; from_root says which.  Any other place fails in Prepare.  A run
\* with an AgentBridge root and a dual-writing profile writes a projection.
Start(r) == \E t \in Tasks, root \in BOOLEAN, bridge \in BOOLEAN :
  /\ pc[r] = "idle" /\ \A q \in Runs : Active(q) => TaskOf(q) # t
  /\ Go(r, "gate")
  /\ job' = [job EXCEPT ![r] = [@ EXCEPT !.task = t, !.from_root = root,
       !.bridge = bridge, !.cleanup = Declared(t), !.owner = FirstOwner(t)]]
  /\ row' = [row EXCEPT ![t] = [run |-> r, state |-> "running",
       cleanup |-> Declared(t), owner |-> FirstOwner(t), by |-> "start"]]
  /\ UNCHANGED <<tree, evidence, faults>>

\* A reason for a handoff, or a planner sidecar, ends the run without a
\* worktree; bad paths and a failing planner raise.
Gate(r) ==
  /\ pc[r] = "gate"
  /\ \/ /\ Go(r, "ledger")
        /\ job' = [job EXCEPT ![r] = [@ EXCEPT !.status = "waiting_handoff",
                                              !.verified = "waiting_handoff"]]
     \/ Go(r, "prepare") /\ UNCHANGED job
     \/ Fail(r)
  /\ UNCHANGED <<tree, row, evidence, faults>>

\* An inline task works in the repository, a run started in the worktree
\* works there; otherwise the worktree is the runtime's to adopt or to add.
\* git is asked about any worktree and may fail.
Prepare(r) ==
  /\ pc[r] = "prepare"
  /\ \/ Path(r) = Root /\ job[r].from_root /\ Go(r, "baseline") /\ UNCHANGED job
     \/ (Path(r) # Root \/ ~job[r].from_root) /\ Fail(r)
     \/ /\ Path(r) # Root /\ ~job[r].from_root
        /\ Sound(r) /\ Go(r, "baseline") /\ UNCHANGED job
     \/ /\ Path(r) # Root /\ job[r].from_root
        /\ \/ ~tree[Path(r)].present /\ Go(r, "add")
           \/ Sound(r) /\ Go(r, "validate")
        /\ UNCHANGED job
  /\ UNCHANGED <<tree, row, evidence, faults>>

\* git worktree add, from the branch or with a new branch from base_branch,
\* which may not exist.  git refuses a path that exists by now and a branch
\* that another worktree has.
AddWorktree(r) ==
  LET p == Path(r)
      b == Branch[TaskOf(r)]
      refused == tree[p].present
                 \/ \E q \in Trees \cup {Root} : tree[q].present /\ tree[q].branch = b
  IN /\ pc[r] = "add"
     /\ \/ Fail(r) /\ UNCHANGED tree
        \/ /\ ~refused
           /\ tree' = [tree EXCEPT ![p] = [present |-> TRUE, branch |-> b,
                                             dirty |-> {}]]
           /\ Go(r, "validate") /\ UNCHANGED job
     /\ UNCHANGED <<row, evidence, faults>>

\* The second look at the worktree; the run has a managed workspace after it
\* and the owner of a cleanup becomes the runtime.  Unsound or unreadable,
\* the worktree fails the run.
Validate(r) ==
  /\ pc[r] = "validate"
  /\ \/ /\ Sound(r) /\ Go(r, "baseline")
        /\ job' = [job EXCEPT ![r] = [@ EXCEPT !.managed = TRUE, !.owner = "runtime"]]
     \/ Fail(r)
  /\ UNCHANGED <<tree, row, evidence, faults>>

\* The changes of a workspace; none where there is no .git.
Changes(r) == IF tree[Path(r)].present THEN tree[Path(r)].dirty ELSE {}

Capture(r) ==
  /\ pc[r] = "baseline"
  /\ \/ Go(r, "work") /\ job' = [job EXCEPT ![r].baseline = Changes(r)]
     \/ Fail(r)
  /\ UNCHANGED <<tree, row, evidence, faults>>

Dirty(p, s) == tree' = [tree EXCEPT ![p].dirty = s]

\* The worker changes files and may commit all of them; it ends, raises, or
\* does neither.  Without its directory it cannot be started.
Work(r) ==
  /\ pc[r] = "work"
  /\ IF tree[Path(r)].present
     THEN /\ \/ \E s \in SUBSET Areas : Dirty(Path(r), tree[Path(r)].dirty \cup s)
             \/ Dirty(Path(r), {})
          /\ \/ Go(r, "audit") /\ UNCHANGED job
             \/ Fail(r)
     ELSE Fail(r) /\ UNCHANGED tree
  /\ UNCHANGED <<row, evidence, faults>>

\* A change outside the allowed paths, or a failing git, fails the run.
Audit(r) ==
  /\ pc[r] = "audit"
  /\ \/ /\ Changes(r) \ job[r].baseline \subseteq Allowed[TaskOf(r)]
        /\ Go(r, "verify") /\ UNCHANGED job
     \/ Fail(r)
  /\ UNCHANGED <<tree, row, evidence, faults>>

\* A failed gate is a failed result; any other is reviewed where the task
\* asks for it.
Verified(r, verdict) ==
  /\ job' = [job EXCEPT ![r] = [@ EXCEPT !.verified = verdict,
               !.status = IF verdict = "failed" THEN "failed"
                          ELSE IF TaskOf(r) \in Reviewed THEN "needs_review"
                          ELSE "succeeded"]]
  /\ Go(r, "cleanup")

\* The gates run in the workspace, which they need and may change, unaudited.
\* A task without commands does not touch it.
Verify(r) ==
  /\ pc[r] = "verify"
  /\ \/ /\ TaskOf(r) \notin Gated
        /\ Verified(r, "no_commands_configured") /\ UNCHANGED tree
     \/ /\ TaskOf(r) \in Gated /\ tree[Path(r)].present
        /\ \E s \in SUBSET Areas : Dirty(Path(r), tree[Path(r)].dirty \cup s)
        /\ \E verdict \in {"pass", "failed"} : Verified(r, verdict)
     \/ /\ TaskOf(r) \in Gated /\ ~tree[Path(r)].present
        /\ Fail(r) /\ UNCHANGED tree
  /\ UNCHANGED <<row, evidence, faults>>

-----------------------------------------------------------------------------
(* The end of the worktree.                                                *)

Cleaned(r, status, owner) ==
  /\ job' = [job EXCEPT ![r] = [@ EXCEPT !.cleanup = status, !.owner = owner]]
  /\ Go(r, "ledger")

\* finalize_task_workspace_cleanup up to its look at the worktree: what is
\* not a clean managed worktree of a success is left to the operator.  A git
\* status that fails is not caught there and fails the run.
Cleanup(r) ==
  /\ pc[r] = "cleanup"
  /\ \/ Path(r) = Root /\ Cleaned(r, "inline_only", "inline_execution")
     \/ /\ Path(r) # Root
        /\ ~job[r].managed \/ job[r].status # "succeeded"
        /\ Cleaned(r, "deferred", "operator")
     \/ /\ Path(r) # Root /\ job[r].managed /\ job[r].status = "succeeded"
        /\ IF ~tree[Path(r)].present THEN Cleaned(r, "cleaned", "runtime")
           ELSE \/ Fail(r)
                \/ IF tree[Path(r)].dirty # {} THEN Cleaned(r, "deferred", "operator")
                   ELSE Go(r, "remove") /\ UNCHANGED job
  /\ UNCHANGED <<tree, row, evidence, faults>>

\* Mutant: git worktree remove --force.
RemoveByForce(r) ==
  /\ pc[r] = "remove"
  /\ IF tree[Path(r)].present
     THEN /\ tree' = [tree EXCEPT ![Path(r)] = [@ EXCEPT !.present = FALSE, !.dirty = {}]]
          /\ Cleaned(r, "cleaned", "runtime")
     ELSE UNCHANGED tree /\ Cleaned(r, "cleanup_failed", "operator")
  /\ UNCHANGED <<row, evidence, faults>>

\* Mutant: a failing git is not noticed.
RemoveUnchecked(r) ==
  /\ pc[r] = "remove"
  /\ Cleaned(r, "cleaned", "runtime")
  /\ IF tree[Path(r)].present /\ tree[Path(r)].dirty = {}
     THEN tree' = [tree EXCEPT ![Path(r)].present = FALSE]
     ELSE UNCHANGED tree
  /\ UNCHANGED <<row, evidence, faults>>

\* git worktree remove, which refuses a worktree that has become dirty and a
\* path that is none any more, and may refuse a clean one (locked, in use).
Remove(r) ==
  /\ pc[r] = "remove"
  /\ \/ /\ tree[Path(r)].present /\ tree[Path(r)].dirty = {}
        /\ tree' = [tree EXCEPT ![Path(r)].present = FALSE]
        /\ Cleaned(r, "cleaned", "runtime")
     \/ UNCHANGED tree /\ Cleaned(r, "cleanup_failed", "operator")
  /\ UNCHANGED <<row, evidence, faults>>

-----------------------------------------------------------------------------
(* The evidence.                                                           *)

\* The ledger, the result and the closeout bundle tell of the cleanup.
Says(r, status) == [status |-> status, cleanup |-> job[r].cleanup, refs |-> FALSE]
Just(status) == [status |-> status, cleanup |-> "none", refs |-> FALSE]
Write(r, k, content) == file' = [file EXCEPT ![r] = [@ EXCEPT ![k] = content]]
RowState(r) == IF job[r].status = "succeeded" THEN "completed" ELSE job[r].status

WriteLedger(r) ==
  /\ pc[r] = "ledger" /\ Go(r, "bundle")
  /\ Write(r, "ledger", Says(r, RowState(r)))
  /\ UNCHANGED <<tree, job, row, projection, index, faults>>

\* What the markdown projection is told; not that a gate failed.
Projected(r) == IF job[r].status = "failed" THEN "succeeded" ELSE job[r].status

\* The projection of a task is never replaced.
WriteProjection(r) ==
  /\ projection[TaskOf(r)] = "absent"
  /\ projection' = [projection EXCEPT ![TaskOf(r)] = Projected(r)]

\* write_result_bundle: the summaries, the projection where there is to be
\* one, the result and a first index.  A task that has a projection makes
\* the run raise with its summaries written and its result not.
WriteBundle(r) ==
  LET summaries == [file[r] EXCEPT !["verification"] = Just(job[r].verified)]
      shown == IF job[r].bridge THEN Just(Projected(r)) ELSE Absent
  IN /\ pc[r] = "bundle"
     /\ \/ /\ IF job[r].bridge THEN WriteProjection(r) ELSE UNCHANGED projection
           /\ file' = [file EXCEPT ![r] =
                [summaries EXCEPT !["projection"] = shown,
                                  !["result"] = Says(r, job[r].status)]]
           /\ index' = [index EXCEPT ![r] = file'[r]]
           /\ Go(r, IF job[r].status \in {"needs_review", "waiting_handoff"}
                    THEN "receipt" ELSE "closeout")
           /\ UNCHANGED job
        \/ /\ job[r].bridge /\ projection[TaskOf(r)] # "absent"
           /\ file' = [file EXCEPT ![r] = summaries]
           /\ Fail(r) /\ UNCHANGED <<projection, index>>
     /\ UNCHANGED <<tree, row, faults>>

\* The receipt of a handoff, of a planner or of a review; a live reviewer
\* that fails is replaced by the receipt of the gate, an invalid handoff
\* receipt raises.
WriteReceipt(r) ==
  /\ pc[r] = "receipt"
  /\ \/ /\ Write(r, "receipt", Just(job[r].status))
        /\ Go(r, "closeout") /\ UNCHANGED job
     \/ job[r].status = "waiting_handoff" /\ Fail(r) /\ UNCHANGED file
  /\ UNCHANGED <<tree, row, projection, index, faults>>

\* The status of a closeout bundle, for a result and for a disposition.
Closeout(status) ==
  CASE status \in {"succeeded", "completed"} -> "succeeded"
    [] status \in {"waiting_handoff", "needs_review", "resumed"} -> "partial"
    [] OTHER -> "blocked"

WriteCloseout(r) ==
  /\ pc[r] = "closeout" /\ Go(r, "refs")
  /\ Write(r, "closeout", Says(r, Closeout(file[r]["result"].status)))
  /\ UNCHANGED <<tree, job, row, projection, index, faults>>

\* The references of the result and of the ledger are filled in.
WriteRefs(r) ==
  LET f == file[r]
      Filled(k) == [f[k] EXCEPT !.refs = TRUE]
  IN /\ pc[r] = "refs" /\ Go(r, "index")
     /\ file' = [file EXCEPT ![r] = [f EXCEPT !["result"] = Filled("result"),
                                             !["ledger"] = Filled("ledger")]]
     /\ UNCHANGED <<tree, job, row, projection, index, faults>>

\* Mutant: the index is not taken again.
RefreshNothing(r) ==
  /\ pc[r] = "index" /\ Go(r, "row")
  /\ UNCHANGED <<tree, job, row, evidence, faults>>

\* revalidate_evidence_index: every digest is that of the file as it is.
Revalidates(r) == index[r] = file[r]

RefreshIndex(r) ==
  /\ pc[r] = "index" /\ Go(r, "row")
  /\ index' = [index EXCEPT ![r] = file[r]]
  /\ UNCHANGED <<tree, job, row, projection, file, faults>>

Record(r, state, by) ==
  row' = [row EXCEPT ![TaskOf(r)] =
    [run |-> r, state |-> state, cleanup |-> job[r].cleanup,
     owner |-> job[r].owner, by |-> by]]

WriteRow(r) ==
  /\ pc[r] = "row" /\ Go(r, "event") /\ Record(r, RowState(r), "run")
  /\ UNCHANGED <<tree, job, evidence, faults>>

\* The events of the end, in transactions of their own, of which nothing here
\* tells.  The row is written, and one that raises still goes to the handler.
AppendEvent(r) ==
  /\ pc[r] = "event"
  /\ \/ Go(r, "over") /\ UNCHANGED job
     \/ Fail(r)
  /\ UNCHANGED <<tree, row, evidence, faults>>

\* A call of any other step raises: the disk, the database, a subprocess.
CallRaises(r) ==
  /\ Active(r) /\ pc[r] \notin {"event", "fail_ledger", "fail_row"}
  /\ Fail(r)
  /\ UNCHANGED <<tree, row, evidence, faults>>

\* The handler: a failed ledger and a failed row with the cleanup of before.
\* Its event and the finally clause change nothing here.
Handle(r) ==
  /\ \/ /\ pc[r] = "fail_ledger" /\ Go(r, "fail_row")
        /\ Write(r, "ledger", Says(r, "failed")) /\ UNCHANGED row
     \/ /\ pc[r] = "fail_row" /\ Go(r, "over")
        /\ Record(r, "failed", "handler") /\ UNCHANGED file
  /\ UNCHANGED <<tree, job, projection, index, faults>>

-----------------------------------------------------------------------------
(* Everybody else.                                                         *)

\* A disposition of a run that wrote its row (HostLocal has its steps):
\* ledger, row and closeout, and no index.
Dispose(t) == \E state \in {"completed", "resumed", "cancelled"} :
  LET r == row[t].run
      f == file[r]
      ledger == [f["ledger"] EXCEPT !.status = state]
      bundle == IF f["closeout"] = Absent THEN Absent
                ELSE [f["closeout"] EXCEPT !.status = Closeout(state),
                                           !.cleanup = row[t].cleanup]
  IN
  /\ r # NoRun /\ row[t].state = "needs_review"
  /\ row' = [row EXCEPT ![t] = [@ EXCEPT !.state = state, !.by = "operator"]]
  /\ file' = [file EXCEPT ![r] = [f EXCEPT !["ledger"] = ledger, !["closeout"] = bundle]]
  /\ UNCHANGED <<tree, pc, job, projection, index, faults>>

\* A process a worker left behind, or a person, changes a file.
Stray(p) == \E a \in Areas :
  /\ tree[p].present /\ faults < MaxFaults
  /\ Dirty(p, tree[p].dirty \cup {a})
  /\ faults' = faults + 1
  /\ UNCHANGED <<pc, job, row, evidence>>

\* The operator commits what is left in a worktree, or removes a clean one.
Tidy(p) ==
  /\ p # Root /\ tree[p].present
  /\ \A r \in Runs : Active(r) => Path(r) # p
  /\ IF tree[p].dirty # {} THEN Dirty(p, {})
     ELSE tree' = [tree EXCEPT ![p].present = FALSE]
  /\ UNCHANGED <<pc, job, row, evidence, faults>>

\* A kill, or a call of the handler that raises: the run ends where it is.
Crash(r) ==
  /\ Active(r) /\ faults < MaxFaults
  /\ Go(r, "over") /\ faults' = faults + 1
  /\ UNCHANGED <<tree, job, row, evidence>>

Step(r) ==
  \/ Start(r) \/ Gate(r) \/ Prepare(r) \/ AddWorktree(r) \/ Validate(r)
  \/ Capture(r) \/ Work(r) \/ Audit(r) \/ Verify(r) \/ Cleanup(r) \/ Remove(r)
  \/ WriteLedger(r) \/ WriteBundle(r) \/ WriteReceipt(r) \/ WriteCloseout(r)
  \/ WriteRefs(r) \/ RefreshIndex(r) \/ WriteRow(r) \/ AppendEvent(r)
  \/ CallRaises(r) \/ Handle(r)

Next ==
  \/ \E r \in Runs : Step(r) \/ Crash(r)
  \/ \E t \in Tasks : Dispose(t)
  \/ \E p \in Trees \cup {Root} : Stray(p) \/ Tidy(p)

Spec == Init /\ [][Next]_vars

-----------------------------------------------------------------------------
(* Properties.                                                             *)

\* No uncommitted change is thrown away: a worktree that goes away has none
\* at that moment, although the runtime looked at it earlier and stragglers
\* and other runs write to it meanwhile.
NoWorkLost ==
  [][\A p \in Trees : tree[p].present /\ ~tree'[p].present => tree[p].dirty = {}]_vars

\* No worktree is forgotten: one that is there while no run works in it is
\* named by the row of a task whose cleanup is still to be done, whatever
\* failed, raised or was killed, and when two tasks share it.
LeftTreeRecorded ==
  \A p \in Trees : tree[p].present /\ (\A r \in Runs : Active(r) => Path(r) # p) =>
    \E t \in Tasks : /\ Tree[t] = p /\ row[t].run # NoRun
                     /\ row[t].cleanup \in {"deferred", "cleanup_failed"}

\* The row a run wrote at its end, before any operator touched it, agrees
\* with the result and the closeout bundle on the outcome and on the cleanup,
\* and the evidence index has the digests of these files as they are.  So it
\* is with the ledger, and revalidate_evidence_index finds no issue, unless
\* the run raised after its row: a handler that was cut short leaves a ledger
\* that says failed and that the index does not know, and no other trace.
EvidenceAgrees ==
  \A t \in Tasks : row[t].by = "run" =>
    LET r == row[t].run
        f == file[r]
        ledger == f["ledger"]
    IN
    /\ f["result"].status = (IF row[t].state = "completed" THEN "succeeded"
                             ELSE row[t].state)
    /\ f["closeout"].status = Closeout(row[t].state)
    /\ f["result"].refs
    /\ \A k \in {"ledger", "result", "closeout"} : f[k].cleanup = row[t].cleanup
    /\ row[t].state \in {"needs_review", "waiting_handoff"} => f["receipt"] # Absent
    /\ \A k \in Kinds \ {"ledger"} : index[r][k] = f[k]
    /\ \/ ledger.status = row[t].state /\ ledger.refs /\ Revalidates(r)
       \/ job[r].raised /\ ledger.status = "failed"
=============================================================================
