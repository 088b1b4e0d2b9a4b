-------------------------- MODULE WorkspaceProofs --------------------------
(***************************************************************************)
(* Proofs about Workspace, for any tasks, runs, worktrees and faults: its  *)
(* types, that no uncommitted change is removed (NoWorkLost), that a       *)
(* worktree left behind is recorded (LeftTreeRecorded), that the evidence  *)
(* of a run agrees with its row (EvidenceAgrees) and that a row that says  *)
(* running for nobody is the trace of a kill (RunningRowsTraced).          *)
(***************************************************************************)
EXTENDS Workspace, FiniteSets, FiniteSetTheorems, TLAPS

Jobs == [task : Tasks \cup {NoTask}, managed : BOOLEAN, from_root : BOOLEAN,
         baseline : SUBSET Areas, bridge : BOOLEAN, verified : Verdicts,
         status : Results, cleanup : Cleanups, owner : Owners, raised : BOOLEAN]
Worktrees == [present : BOOLEAN, branch : Branches, dirty : SUBSET Areas]
Rows == [run : Runs \cup {NoRun}, state : RowStates, cleanup : Cleanups,
         owner : Owners, by : {"start", "run", "handler", "operator"}]

\* A run that has begun knows its task.
Tasked == \A r \in Runs : pc[r] # "idle" => TaskOf(r) \in Tasks

-----------------------------------------------------------------------------
(* Types.                                                                  *)

LEMMA DeclaredTypes ==
  \A t \in Tasks : /\ Declared(t) \in {"inline_only", "deferred"}
                   /\ FirstOwner(t) \in {"inline_execution", "operator"}
  BY DEF Declared, FirstOwner

LEMMA PathType ==
  ASSUME TypeOK, Tasked, NEW r \in Runs, pc[r] # "idle"
  PROVE  TaskOf(r) \in Tasks /\ Path(r) \in Trees \cup {Root}
  BY WorkspaceAssumption DEF Tasked, Path

\* A run that raises keeps its locals and is in its handler.
LEMMA Failing ==
  ASSUME TypeOK, NEW r \in Runs, Fail(r)
  PROVE  /\ pc' \in [Runs -> Steps] /\ job' \in [Runs -> Jobs]
         /\ pc'[r] = "fail_ledger" /\ job'[r] = [job[r] EXCEPT !.raised = TRUE]
         /\ job'[r].raised /\ job'[r].task = job[r].task
         /\ job'[r].cleanup = job[r].cleanup
         /\ \A q \in Runs : q # r => pc'[q] = pc[q] /\ job'[q] = job[q]
<1>1. pc \in [Runs -> Steps] /\ job \in [Runs -> Jobs]
  BY DEF TypeOK, Jobs
<1> DEFINE j == [job[r] EXCEPT !.raised = TRUE]
<1>2. /\ j \in Jobs /\ j.raised /\ j.task = job[r].task
      /\ j.cleanup = job[r].cleanup
  BY <1>1 DEF Jobs
<1>3. job' = [job EXCEPT ![r] = j] /\ Go(r, "fail_ledger")
  BY DEF Fail
<1> HIDE DEF j
<1>4. /\ pc' \in [Runs -> Steps] /\ pc'[r] = "fail_ledger"
      /\ \A q \in Runs : q # r => pc'[q] = pc[q]
  BY <1>1, <1>3 DEF Go, Steps
<1>5. job' \in [Runs -> Jobs] /\ job'[r] = j /\ \A q \in Runs : q # r => job'[q] = job[q]
  BY <1>1, <1>2, <1>3
<1> QED BY <1>2, <1>4, <1>5 DEF j

\* A step that writes one file of a run, or none, keeps the type of the files.
LEMMA WriteType ==
  ASSUME TypeOK, NEW r \in Runs, NEW k \in Kinds, NEW c \in Contents, Write(r, k, c)
  PROVE  file' \in [Runs -> [Kinds -> Contents]]
  BY DEF TypeOK, Write

LEMMA InitType == ASSUME Init PROVE TypeOK /\ Tasked
<1>1. Absent \in Contents
  BY DEF Absent, Contents, Words
<1>2. \A b \in Branches :
        [p \in Trees \cup {Root} |-> [present |-> p = Root, branch |-> b, dirty |-> {}]]
          \in [Trees \cup {Root} -> Worktrees]
  BY DEF Worktrees
<1>3. file \in [Runs -> [Kinds -> Contents]] /\ index \in [Runs -> [Kinds -> Contents]]
  BY <1>1 DEF Init, NoFiles
<1>4. row \in [Tasks -> Rows]
  BY DeclaredTypes DEF Init, Rows, RowStates, Cleanups, Owners
<1>5. job \in [Runs -> Jobs]
  BY DEF Init, Jobs, Verdicts, Results, Cleanups, Owners
<1>6. tree \in [Trees \cup {Root} -> Worktrees]
  BY <1>2 DEF Init
<1> QED BY <1>3, <1>4, <1>5, <1>6
      DEF Init, TypeOK, Jobs, Worktrees, Rows, Steps, Tasked

\* Each action keeps the types.
LEMMA TypeStep == ASSUME TypeOK, Tasked, [Next]_vars PROVE TypeOK' /\ Tasked'
<1> DEFINE Typed == TypeOK' /\ Tasked'
<1>job. job \in [Runs -> Jobs] /\ tree \in [Trees \cup {Root} -> Worktrees]
        /\ row \in [Tasks -> Rows] /\ pc \in [Runs -> Steps]
  BY DEF TypeOK, Jobs, Worktrees, Rows
<1>abs. Absent \in Contents /\ \A w \in Words : Just(w) \in Contents
  BY DEF Absent, Contents, Words, Just
<1>says. ASSUME NEW r \in Runs, NEW w \in Words PROVE Says(r, w) \in Contents
  BY <1>job DEF Says, Contents, Jobs
<1>fails. ASSUME NEW r \in Runs, pc[r] # "idle", Fail(r)
          PROVE  pc' \in [Runs -> Steps] /\ job' \in [Runs -> Jobs] /\ Tasked'
  BY <1>fails, Failing DEF Tasked, TaskOf
<1>fail. ASSUME NEW r \in Runs, pc[r] # "idle", Fail(r), UNCHANGED <<tree, row, evidence, faults>>
         PROVE  Typed
  BY <1>fail, <1>fails DEF TypeOK, Jobs, evidence
\* A step that moves a run on and changes its locals, and nothing of another.
<1>move. ASSUME NEW r \in Runs, NEW s \in Steps \ {"idle"}, NEW j \in Jobs,
                Go(r, s), job' = [job EXCEPT ![r] = j], j.task \in Tasks
         PROVE  pc' \in [Runs -> Steps] /\ job' \in [Runs -> Jobs] /\ Tasked'
  BY <1>move, <1>job DEF Go, Tasked, TaskOf
<1>go. ASSUME NEW r \in Runs, NEW s \in Steps \ {"idle"}, Go(r, s), UNCHANGED job,
              TaskOf(r) \in Tasks
       PROVE  pc' \in [Runs -> Steps] /\ job' \in [Runs -> Jobs] /\ Tasked'
  BY <1>go, <1>job DEF Go, Tasked, TaskOf
<1>dirty. ASSUME NEW p \in Trees \cup {Root}, NEW d \in SUBSET Areas, Dirty(p, d)
          PROVE  tree' \in [Trees \cup {Root} -> Worktrees]
  BY <1>dirty, <1>job DEF Dirty, Worktrees
<1>1. ASSUME NEW r \in Runs, Start(r) PROVE Typed
  <2>1. PICK t \in Tasks, root \in BOOLEAN, bridge \in BOOLEAN : Start(r)!(t, root, bridge)
    BY <1>1 DEF Start
  <2> DEFINE j == [job[r] EXCEPT !.task = t, !.from_root = root, !.bridge = bridge,
                                 !.cleanup = Declared(t), !.owner = FirstOwner(t)]
  <2>2. j \in Jobs /\ j.task = t
    BY <1>job, DeclaredTypes DEF Jobs, Cleanups, Owners
  <2>3. row' \in [Tasks -> Rows]
    BY <2>1, <1>job, DeclaredTypes DEF Rows, RowStates, Cleanups, Owners
  <2>4. pc' \in [Runs -> Steps] /\ job' \in [Runs -> Jobs] /\ Tasked'
    BY <2>1, <2>2, <1>move DEF Steps
  <2> QED BY <2>1, <2>3, <2>4, <1>job DEF TypeOK, Jobs, Worktrees, Rows, evidence
<1>2. ASSUME NEW r \in Runs, Gate(r) PROVE Typed
  <2>1. TaskOf(r) \in Tasks /\ pc[r] # "idle"
    BY <1>2 DEF Gate, Tasked
  <2> DEFINE j == [job[r] EXCEPT !.status = "waiting_handoff",
                                 !.verified = "waiting_handoff"]
  <2>2. j \in Jobs /\ j.task = TaskOf(r)
    BY <1>job DEF Jobs, Results, RunStates, Verdicts, TaskOf
  <2>3. CASE Go(r, "ledger") /\ job' = [job EXCEPT ![r] = j]
    <3>1. pc' \in [Runs -> Steps] /\ job' \in [Runs -> Jobs] /\ Tasked'
      BY <2>1, <2>2, <2>3, <1>move DEF Steps
    <3> QED BY <1>2, <3>1 DEF Gate, TypeOK, Jobs, evidence
  <2>4. CASE Go(r, "prepare") /\ UNCHANGED job
    <3>1. pc' \in [Runs -> Steps] /\ job' \in [Runs -> Jobs] /\ Tasked'
      BY <2>1, <2>4, <1>go DEF Steps
    <3> QED BY <1>2, <3>1 DEF Gate, TypeOK, Jobs, evidence
  <2> QED BY <1>2, <1>fail, <2>1, <2>3, <2>4 DEF Gate
<1>3. ASSUME NEW r \in Runs, Prepare(r) PROVE Typed
  <2>1. TaskOf(r) \in Tasks /\ pc[r] # "idle"
    BY <1>3 DEF Prepare, Tasked
  <2>2. CASE Fail(r)
    BY <1>3, <2>1, <2>2, <1>fail DEF Prepare
  <2>3. CASE UNCHANGED job /\ \E s \in {"baseline", "add", "validate"} : Go(r, s)
    <3>1. pc' \in [Runs -> Steps] /\ job' \in [Runs -> Jobs] /\ Tasked'
      BY <2>1, <2>3, <1>go DEF Steps
    <3> QED BY <1>3, <3>1 DEF Prepare, TypeOK, Jobs, evidence
  <2> QED BY <1>3, <2>2, <2>3 DEF Prepare
<1>4. ASSUME NEW r \in Runs, AddWorktree(r) PROVE Typed
  <2>1. TaskOf(r) \in Tasks /\ pc[r] # "idle" /\ Path(r) \in Trees \cup {Root}
    BY <1>4, PathType DEF AddWorktree
  <2>2. CASE Fail(r) /\ UNCHANGED tree
    BY <1>4, <2>1, <2>2, <1>fail DEF AddWorktree
  <2>3. CASE Go(r, "validate") /\ UNCHANGED job
             /\ tree' = [tree EXCEPT ![Path(r)] =
                  [present |-> TRUE, branch |-> Branch[TaskOf(r)], dirty |-> {}]]
    <3>1. tree' \in [Trees \cup {Root} -> Worktrees]
      BY <2>1, <2>3, <1>job, WorkspaceAssumption DEF Worktrees
    <3>2. pc' \in [Runs -> Steps] /\ job' \in [Runs -> Jobs] /\ Tasked'
      BY <2>1, <2>3, <1>go DEF Steps
    <3> QED BY <1>4, <3>1, <3>2 DEF AddWorktree, TypeOK, Jobs, Worktrees, evidence
  <2> QED BY <1>4, <2>2, <2>3 DEF AddWorktree
<1>5. ASSUME NEW r \in Runs, Validate(r) PROVE Typed
  <2>1. TaskOf(r) \in Tasks /\ pc[r] # "idle"
    BY <1>5 DEF Validate, Tasked
  <2> DEFINE j == [job[r] EXCEPT !.managed = TRUE, !.owner = "runtime"]
  <2>2. CASE Fail(r)
    BY <1>5, <2>1, <2>2, <1>fail DEF Validate
  <2>3. CASE Go(r, "baseline") /\ job' = [job EXCEPT ![r] = j]
    <3>1. j \in Jobs /\ j.task = TaskOf(r)
      BY <1>job DEF Jobs, Owners, TaskOf
    <3>2. pc' \in [Runs -> Steps] /\ job' \in [Runs -> Jobs] /\ Tasked'
      BY <2>1, <2>3, <3>1, <1>move DEF Steps
    <3> QED BY <1>5, <3>2 DEF Validate, TypeOK, Jobs, evidence
  <2> QED BY <1>5, <2>2, <2>3 DEF Validate
<1>6. ASSUME NEW r \in Runs, Capture(r) PROVE Typed
  <2>1. TaskOf(r) \in Tasks /\ Path(r) \in Trees \cup {Root}
    BY <1>6, PathType DEF Capture
  <2>2. Changes(r) \in SUBSET Areas
    BY <2>1, <1>job DEF Changes, Worktrees
  <2> DEFINE j == [job[r] EXCEPT !.baseline = Changes(r)]
  <2>3. j \in Jobs /\ j.task = TaskOf(r)
    BY <1>job, <2>2 DEF Jobs, TaskOf
  <2>4. CASE Go(r, "work") /\ job' = [job EXCEPT ![r] = j]
    <3>1. pc' \in [Runs -> Steps] /\ job' \in [Runs -> Jobs] /\ Tasked'
      BY <2>1, <2>3, <2>4, <1>move DEF Steps
    <3> QED BY <1>6, <3>1 DEF Capture, TypeOK, Jobs, evidence
  <2>5. CASE Fail(r)
    BY <1>6, <2>5, <1>fail DEF Capture
  <2> QED BY <1>6, <2>4, <2>5 DEF Capture
<1>7. ASSUME NEW r \in Runs, Work(r) PROVE Typed
  <2>1. TaskOf(r) \in Tasks /\ Path(r) \in Trees \cup {Root}
    BY <1>7, PathType DEF Work
  <2>2. tree[Path(r)].dirty \in SUBSET Areas
    BY <2>1, <1>job DEF Worktrees
  <2>3. tree' \in [Trees \cup {Root} -> Worktrees]
    BY <1>7, <1>job, <2>1, <2>2, <1>dirty DEF Work
  <2>4. (UNCHANGED job /\ Go(r, "audit")) \/ Fail(r)
    BY <1>7 DEF Work
  <2>5. pc' \in [Runs -> Steps] /\ job' \in [Runs -> Jobs] /\ Tasked'
    BY <1>7, <2>1, <2>4, <1>go, <1>fails DEF Steps, Work
  <2> QED BY <1>7, <2>3, <2>5 DEF Work, TypeOK, Jobs, Worktrees, evidence
<1>8. ASSUME NEW r \in Runs, Audit(r) PROVE Typed
  <2>1. TaskOf(r) \in Tasks
    BY <1>8, PathType DEF Audit
  <2>2. (UNCHANGED job /\ Go(r, "verify")) \/ Fail(r)
    BY <1>8 DEF Audit
  <2>3. pc' \in [Runs -> Steps] /\ job' \in [Runs -> Jobs] /\ Tasked'
    BY <1>8, <2>1, <2>2, <1>go, <1>fails DEF Steps, Audit
  <2> QED BY <1>8, <2>3 DEF Audit, TypeOK, Jobs, evidence
<1>9. ASSUME NEW r \in Runs, Verify(r) PROVE Typed
  <2>1. TaskOf(r) \in Tasks /\ Path(r) \in Trees \cup {Root} /\ pc[r] # "idle"
    BY <1>9, PathType DEF Verify
  <2>2. tree[Path(r)].dirty \in SUBSET Areas
    BY <2>1, <1>job DEF Worktrees
  <2>verified. ASSUME NEW v \in Verdicts, Verified(r, v)
               PROVE  pc' \in [Runs -> Steps] /\ job' \in [Runs -> Jobs] /\ Tasked'
    <3> DEFINE st == IF v = "failed" THEN "failed"
                     ELSE IF TaskOf(r) \in Reviewed THEN "needs_review" ELSE "succeeded"
               j == [job[r] EXCEPT !.verified = v, !.status = st]
    <3>1. st \in Results
      BY DEF Results, RunStates
    <3>2. j \in Jobs /\ j.task = TaskOf(r)
      BY <1>job, <3>1 DEF Jobs, TaskOf
    <3>3. Go(r, "cleanup") /\ job' = [job EXCEPT ![r] = j]
      BY <2>verified DEF Verified
    <3> QED BY <2>1, <3>2, <3>3, <1>move DEF Steps
  <2>3. CASE Fail(r) /\ UNCHANGED tree
    BY <1>9, <2>1, <2>3, <1>fail DEF Verify
  <2>4. CASE /\ \E v \in Verdicts : Verified(r, v)
             /\ \/ UNCHANGED tree
                \/ \E d \in SUBSET Areas : Dirty(Path(r), tree[Path(r)].dirty \cup d)
    <3>1. tree' \in [Trees \cup {Root} -> Worktrees]
      BY <1>job, <2>4, <2>1, <2>2, <1>dirty
    <3> QED BY <1>9, <2>4, <3>1, <2>verified DEF Verify, TypeOK, Jobs, Worktrees, evidence
  <2> QED BY <1>9, <2>3, <2>4 DEF Verify, Verdicts
<1>cleaned. ASSUME NEW r \in Runs, NEW c \in Cleanups, NEW o \in Owners,
                   Cleaned(r, c, o), TaskOf(r) \in Tasks
            PROVE  pc' \in [Runs -> Steps] /\ job' \in [Runs -> Jobs] /\ Tasked'
  <2> DEFINE j == [job[r] EXCEPT !.cleanup = c, !.owner = o]
  <2>1. j \in Jobs /\ j.task = TaskOf(r)
    BY <1>job DEF Jobs, TaskOf
  <2>2. Go(r, "ledger") /\ job' = [job EXCEPT ![r] = j]
    BY <1>cleaned DEF Cleaned
  <2> QED BY <1>cleaned, <2>1, <2>2, <1>move DEF Steps
<1>10. ASSUME NEW r \in Runs, Cleanup(r) PROVE Typed
  <2>1. TaskOf(r) \in Tasks
    BY <1>10, PathType DEF Cleanup
  <2>2. \/ \E c \in Cleanups, o \in Owners : Cleaned(r, c, o)
        \/ Go(r, "remove") /\ UNCHANGED job
        \/ Fail(r)
    BY <1>10 DEF Cleanup, Cleanups, Owners
  <2>3. pc' \in [Runs -> Steps] /\ job' \in [Runs -> Jobs] /\ Tasked'
    BY <1>10, <2>1, <2>2, <1>cleaned, <1>go, <1>fails DEF Steps, Cleanup
  <2> QED BY <1>10, <2>3 DEF Cleanup, TypeOK, Jobs, evidence
<1>11. ASSUME NEW r \in Runs, Remove(r) PROVE Typed
  <2>1. TaskOf(r) \in Tasks /\ Path(r) \in Trees \cup {Root}
    BY <1>11, PathType DEF Remove
  <2>2. \E c \in Cleanups, o \in Owners : Cleaned(r, c, o)
    BY <1>11 DEF Remove, Cleanups, Owners
  <2>3. pc' \in [Runs -> Steps] /\ job' \in [Runs -> Jobs] /\ Tasked'
    BY <2>1, <2>2, <1>cleaned
  <2>4. tree' \in [Trees \cup {Root} -> Worktrees]
    BY <1>11, <1>job, <2>1 DEF Remove, Worktrees
  <2> QED BY <1>11, <2>3, <2>4 DEF Remove, TypeOK, Jobs, Worktrees, evidence
<1>12. ASSUME NEW r \in Runs, WriteLedger(r) PROVE Typed
  <2>1. TaskOf(r) \in Tasks /\ job[r].status \in Results
    BY <1>12, <1>job, PathType DEF WriteLedger, Jobs
  <2>2. Says(r, RowState(r)) \in Contents
    BY <2>1, <1>says DEF RowState, Words, RowStates, Results, RunStates
  <2>3. file' \in [Runs -> [Kinds -> Contents]]
    BY <1>12, <2>2, WriteType DEF WriteLedger, Kinds
  <2>4. pc' \in [Runs -> Steps] /\ job' \in [Runs -> Jobs] /\ Tasked'
    BY <1>12, <2>1, <1>go DEF WriteLedger, Steps
  <2> QED BY <1>12, <2>3, <2>4 DEF WriteLedger, TypeOK, Jobs
<1>13. ASSUME NEW r \in Runs, WriteBundle(r) PROVE Typed
  <2>1. TaskOf(r) \in Tasks /\ pc[r] # "idle"
    BY <1>13, PathType DEF WriteBundle
  <2>2. /\ job[r].status \in Results /\ Projected(r) \in Results
        /\ job[r].verified \in Words /\ Projected(r) \in Words
        /\ job[r].status \in Words
    BY <1>job DEF Jobs, Projected, Results, RunStates, RowStates, Words, Verdicts
  <2> DEFINE summaries == [file[r] EXCEPT !["verification"] = Just(job[r].verified)]
             shown == IF job[r].bridge THEN Just(Projected(r)) ELSE Absent
             whole == [summaries EXCEPT !["projection"] = shown,
                                        !["result"] = Says(r, job[r].status)]
  <2>3. file[r] \in [Kinds -> Contents] /\ Just(job[r].verified) \in Contents
        /\ shown \in Contents /\ Says(r, job[r].status) \in Contents
    BY <2>2, <1>abs, <1>says DEF TypeOK
  <2>4. summaries \in [Kinds -> Contents]
    BY <2>3
  <2>5. whole \in [Kinds -> Contents]
    <3> HIDE DEF summaries, shown
    <3> QED BY <2>3, <2>4
  <2>6. CASE /\ file' = [file EXCEPT ![r] = summaries]
             /\ Fail(r) /\ UNCHANGED <<projection, index>>
    <3>1. file' \in [Runs -> [Kinds -> Contents]]
      BY <2>4, <2>6 DEF TypeOK
    <3>2. pc' \in [Runs -> Steps] /\ job' \in [Runs -> Jobs] /\ Tasked'
      BY <2>1, <2>6, <1>fails
    <3> QED BY <1>13, <2>6, <3>1, <3>2 DEF WriteBundle, TypeOK, Jobs
  <2>7. CASE /\ IF job[r].bridge THEN WriteProjection(r) ELSE UNCHANGED projection
             /\ file' = [file EXCEPT ![r] = whole]
             /\ index' = [index EXCEPT ![r] = file'[r]]
             /\ Go(r, IF job[r].status \in {"needs_review", "waiting_handoff"}
                      THEN "receipt" ELSE "closeout")
             /\ UNCHANGED job
    <3>1. projection' \in [Tasks -> {"absent"} \cup Results]
      BY <2>1, <2>2, <2>7 DEF WriteProjection, TypeOK
    <3>2. file' \in [Runs -> [Kinds -> Contents]] /\ file'[r] \in [Kinds -> Contents]
      BY <2>5, <2>7 DEF TypeOK
    <3>3. index' \in [Runs -> [Kinds -> Contents]]
      BY <2>7, <3>2 DEF TypeOK
    <3>4. pc' \in [Runs -> Steps] /\ job' \in [Runs -> Jobs] /\ Tasked'
      BY <2>1, <2>7, <1>go DEF Steps
    <3> QED BY <1>13, <3>1, <3>2, <3>3, <3>4 DEF WriteBundle, TypeOK, Jobs
  <2> QED BY <1>13, <2>6, <2>7 DEF WriteBundle
<1>14. ASSUME NEW r \in Runs, WriteReceipt(r) PROVE Typed
  <2>1. TaskOf(r) \in Tasks /\ pc[r] # "idle"
    BY <1>14, PathType DEF WriteReceipt
  <2>2. Just(job[r].status) \in Contents
    BY <1>job, <1>abs DEF Jobs, Results, RunStates, RowStates, Words
  <2>3. file' \in [Runs -> [Kinds -> Contents]]
    BY <1>14, <2>2, WriteType DEF WriteReceipt, Kinds, TypeOK
  <2>4. (UNCHANGED job /\ Go(r, "closeout")) \/ Fail(r)
    BY <1>14 DEF WriteReceipt
  <2>5. pc' \in [Runs -> Steps] /\ job' \in [Runs -> Jobs] /\ Tasked'
    BY <2>1, <2>4, <1>go, <1>fails DEF Steps
  <2> QED BY <1>14, <2>3, <2>5 DEF WriteReceipt, TypeOK, Jobs
<1>15. ASSUME NEW r \in Runs, WriteCloseout(r) PROVE Typed
  <2>1. TaskOf(r) \in Tasks
    BY <1>15, PathType DEF WriteCloseout
  <2>2. Says(r, Closeout(file[r]["result"].status)) \in Contents
    BY <1>says DEF Closeout, Words
  <2>3. file' \in [Runs -> [Kinds -> Contents]]
    BY <1>15, <2>2, WriteType DEF WriteCloseout, Kinds
  <2>4. pc' \in [Runs -> Steps] /\ job' \in [Runs -> Jobs] /\ Tasked'
    BY <1>15, <2>1, <1>go DEF WriteCloseout, Steps
  <2> QED BY <1>15, <2>3, <2>4 DEF WriteCloseout, TypeOK, Jobs
<1>16. ASSUME NEW r \in Runs, WriteRefs(r) PROVE Typed
  <2>1. TaskOf(r) \in Tasks
    BY <1>16, PathType DEF WriteRefs
  <2> DEFINE res == [file[r]["result"] EXCEPT !.refs = TRUE]
             led == [file[r]["ledger"] EXCEPT !.refs = TRUE]
  <2>2. file[r] \in [Kinds -> Contents] /\ file[r]["result"] \in Contents
        /\ file[r]["ledger"] \in Contents
    BY DEF TypeOK, Kinds
  <2>res. res \in Contents /\ led \in Contents
    BY <2>2 DEF Contents
  <2>3. file' = [file EXCEPT ![r] = [file[r] EXCEPT !["result"] = res, !["ledger"] = led]]
    BY <1>16 DEF WriteRefs
  <2>4. file' \in [Runs -> [Kinds -> Contents]]
    <3> HIDE DEF res, led
    <3> QED BY <2>2, <2>res, <2>3 DEF TypeOK
  <2>5. pc' \in [Runs -> Steps] /\ job' \in [Runs -> Jobs] /\ Tasked'
    BY <1>16, <2>1, <1>go DEF WriteRefs, Steps
  <2> QED BY <1>16, <2>4, <2>5 DEF WriteRefs, TypeOK, Jobs
<1>17. ASSUME NEW r \in Runs, RefreshIndex(r) PROVE Typed
  <2>1. TaskOf(r) \in Tasks
    BY <1>17, PathType DEF RefreshIndex
  <2>2. pc' \in [Runs -> Steps] /\ job' \in [Runs -> Jobs] /\ Tasked'
    BY <1>17, <2>1, <1>go DEF RefreshIndex, Steps
  <2>3. index' \in [Runs -> [Kinds -> Contents]]
    BY <1>17 DEF RefreshIndex, TypeOK
  <2> QED BY <1>17, <2>2, <2>3 DEF RefreshIndex, TypeOK, Jobs
<1>record. ASSUME NEW r \in Runs, NEW s \in RowStates, NEW b \in {"run", "handler"},
                  Record(r, s, b)
           PROVE  row' \in [Tasks -> Rows]
  <2>1. [run |-> r, state |-> s, cleanup |-> job[r].cleanup, owner |-> job[r].owner,
         by |-> b] \in Rows
    BY <1>job DEF Rows, Jobs
  <2> QED BY <1>record, <1>job, <2>1 DEF Record
<1>18. ASSUME NEW r \in Runs, WriteRow(r) PROVE Typed
  <2>1. TaskOf(r) \in Tasks /\ RowState(r) \in RowStates
    BY <1>18, <1>job, PathType DEF WriteRow, Jobs, RowState, RowStates, Results, RunStates
  <2>2. pc' \in [Runs -> Steps] /\ job' \in [Runs -> Jobs] /\ Tasked'
    BY <1>18, <2>1, <1>go DEF WriteRow, Steps
  <2>3. row' \in [Tasks -> Rows]
    BY <1>18, <2>1, <1>record DEF WriteRow
  <2> QED BY <1>18, <2>2, <2>3 DEF WriteRow, TypeOK, Jobs, Rows, evidence
<1>19. ASSUME NEW r \in Runs, Handle(r) PROVE Typed
  <2>1. TaskOf(r) \in Tasks
    BY <1>19, PathType DEF Handle
  <2>2. UNCHANGED job /\ \E s \in {"fail_row", "over"} : Go(r, s)
    BY <1>19 DEF Handle
  <2>3. pc' \in [Runs -> Steps] /\ job' \in [Runs -> Jobs] /\ Tasked'
    BY <2>1, <2>2, <1>go DEF Steps
  <2>4. Says(r, "failed") \in Contents /\ "failed" \in RowStates
    BY <1>says DEF Words, RowStates, RunStates
  <2>5. file' \in [Runs -> [Kinds -> Contents]]
    BY <1>19, <2>4, WriteType DEF Handle, Kinds, TypeOK
  <2>6. row' \in [Tasks -> Rows]
    BY <1>19, <2>4, <1>record, <1>job DEF Handle
  <2> QED BY <1>19, <2>3, <2>5, <2>6 DEF Handle, TypeOK, Jobs, Rows
<1>20. ASSUME NEW t \in Tasks, Dispose(t) PROVE Typed
  <2>1. PICK state \in {"completed", "resumed", "cancelled"} : Dispose(t)!(state)
    BY <1>20 DEF Dispose
  <2> DEFINE r == row[t].run
             led == [file[r]["ledger"] EXCEPT !.status = state]
             end == IF file[r]["closeout"] = Absent THEN Absent
                    ELSE [file[r]["closeout"] EXCEPT !.status = Closeout(state),
                                                     !.cleanup = row[t].cleanup]
  <2>2. r \in Runs /\ row[t].cleanup \in Cleanups
    BY <2>1, <1>job DEF Rows
  <2>3. file[r] \in [Kinds -> Contents] /\ file[r]["ledger"] \in Contents
        /\ file[r]["closeout"] \in Contents
    BY <2>2 DEF TypeOK, Kinds
  <2>4. led \in Contents /\ end \in Contents
    BY <1>abs, <2>2, <2>3, ZenonT(40) DEF Contents, Words, RowStates, Closeout
  <2>5. file' = [file EXCEPT ![r] = [file[r] EXCEPT !["ledger"] = led, !["closeout"] = end]]
    BY <2>1
  <2>6. file' \in [Runs -> [Kinds -> Contents]]
    <3> HIDE DEF led, end, r
    <3> QED BY <2>2, <2>3, <2>4, <2>5 DEF TypeOK
  <2>7. row' \in [Tasks -> Rows]
    BY <2>1, <1>job DEF Rows, RowStates
  <2> QED BY <2>1, <2>6, <2>7 DEF TypeOK, Rows, Tasked, TaskOf
<1>21. ASSUME NEW p \in Trees \cup {Root}, Stray(p) PROVE Typed
  <2>1. PICK a \in Areas : Dirty(p, tree[p].dirty \cup {a})
    BY <1>21 DEF Stray
  <2>2. tree' \in [Trees \cup {Root} -> Worktrees]
    <3>1. tree[p].dirty \cup {a} \in SUBSET Areas
      BY <1>job DEF Worktrees
    <3> QED BY <2>1, <3>1, <1>dirty
  <2> QED BY <1>21, <2>2 DEF Stray, TypeOK, Worktrees, Tasked, TaskOf, evidence
<1>22. ASSUME NEW p \in Trees \cup {Root}, Tidy(p) PROVE Typed
  <2>1. tree' \in [Trees \cup {Root} -> Worktrees]
    BY <1>22, <1>job, ZenonT(40) DEF Tidy, Dirty, Worktrees
  <2> QED BY <1>22, <2>1 DEF Tidy, TypeOK, Worktrees, Tasked, TaskOf, evidence
<1>23. ASSUME NEW r \in Runs, Crash(r) PROVE Typed
  <2>1. TaskOf(r) \in Tasks
    BY <1>23, PathType DEF Crash, Active
  <2>2. pc' \in [Runs -> Steps] /\ job' \in [Runs -> Jobs] /\ Tasked'
    BY <1>23, <2>1, <1>go DEF Crash, Steps
  <2> QED BY <1>23, <2>2 DEF Crash, TypeOK, Jobs, evidence
<1>24. ASSUME NEW r \in Runs, AppendEvent(r) \/ CallRaises(r) PROVE Typed
  <2>1. TaskOf(r) \in Tasks /\ pc[r] # "idle"
    BY <1>24, PathType DEF AppendEvent, CallRaises, Active
  <2>2. (UNCHANGED job /\ Go(r, "over")) \/ Fail(r)
    BY <1>24 DEF AppendEvent, CallRaises
  <2>3. pc' \in [Runs -> Steps] /\ job' \in [Runs -> Jobs] /\ Tasked'
    BY <2>1, <2>2, <1>go, <1>fails DEF Steps
  <2> QED BY <1>24, <2>3 DEF AppendEvent, CallRaises, TypeOK, Jobs, evidence
<1>25. CASE UNCHANGED vars
  BY <1>25 DEF vars, TypeOK, Tasked, TaskOf
<1> QED BY <1>1, <1>2, <1>3, <1>4, <1>5, <1>6, <1>7, <1>8, <1>9, <1>10, <1>11,
           <1>12, <1>13, <1>14, <1>15, <1>16, <1>17, <1>18, <1>19, <1>20, <1>21,
           <1>22, <1>23, <1>24, <1>25 DEF Next, Step

LEMMA Typing == Spec => [](TypeOK /\ Tasked)
<1>1. Init => TypeOK /\ Tasked
  BY InitType
<1>2. (TypeOK /\ Tasked) /\ [Next]_vars => (TypeOK /\ Tasked)'
  BY TypeStep
<1> QED BY <1>1, <1>2, PTL DEF Spec

\* The types of the variables always hold, for any tasks that share any
\* worktrees and branches.
THEOREM TypeCorrect == Spec => []TypeOK
BY Typing, PTL
-----------------------------------------------------------------------------
(* Runs and their tasks.                                                   *)

Early == {"gate", "prepare", "add", "validate", "baseline", "work", "audit",
          "verify", "cleanup", "remove"}

\* Where a run is once it has written its row, or has raised.
Ended == {"event", "fail_ledger", "fail_row", "over"}

\* A task has one active run and its row names that run; the row of a run that
\* is over names it until the task is run again; up to its cleanup a run and
\* its row have the cleanup status that was declared; a run whose row is its
\* own, or says more than running, has ended.
RunsKnown ==
  /\ \A r, q \in Runs : Active(r) /\ Active(q) /\ TaskOf(r) = TaskOf(q) => r = q
  /\ \A r \in Runs : Active(r) => row[TaskOf(r)].run = r
  /\ \A t \in Tasks : row[t].run # NoRun =>
       pc[row[t].run] # "idle" /\ TaskOf(row[t].run) = t
  /\ \A r \in Runs : pc[r] \in Early => /\ job[r].cleanup = Declared(TaskOf(r))
                                        /\ row[TaskOf(r)].cleanup = Declared(TaskOf(r))
  /\ \A t \in Tasks : row[t].by = "run" \/ row[t].state # "running" =>
       row[t].run # NoRun /\ pc[row[t].run] \in Ended
  /\ \A r \in Runs : pc[r] = "event" => row[TaskOf(r)].state # "running"

\* What most steps of a run do: it goes on with its task, and no row changes.
Advances(r) ==
  /\ Active(r) /\ pc'[r] # "idle" /\ job'[r].task = job[r].task
  /\ pc'[r] \in Early => pc[r] \in Early /\ job'[r].cleanup = job[r].cleanup
  /\ pc[r] \in Ended => pc'[r] \in Ended
  /\ pc'[r] # "event"
  /\ \A q \in Runs : q # r => pc'[q] = pc[q] /\ job'[q] = job[q]
  /\ UNCHANGED row

LEMMA AdvanceKnown ==
  ASSUME TypeOK, Tasked, RunsKnown, NEW r \in Runs, Advances(r)
  PROVE  RunsKnown'
<1>1. \A q \in Runs : /\ Active(q)' => Active(q)
                      /\ job'[q].task = job[q].task
                      /\ pc[q] # "idle" => pc'[q] # "idle"
                      /\ pc[q] \in Ended => pc'[q] \in Ended
                      /\ pc'[q] = "event" => pc[q] = "event"
  BY DEF Advances, Active
<1>2. \A q \in Runs : pc'[q] \in Early => pc[q] \in Early /\ job'[q].cleanup = job[q].cleanup
  BY DEF Advances
<1>3. \A t \in Tasks : row[t].run \in Runs \cup {NoRun}
  BY DEF TypeOK
<1> QED BY <1>1, <1>2, <1>3 DEF RunsKnown, Advances, TaskOf, Declared

LEMMA ActiveSteps ==
  ASSUME TypeOK, NEW r \in Runs,
         \/ Gate(r) \/ Prepare(r) \/ AddWorktree(r) \/ Validate(r) \/ Capture(r)
         \/ Work(r) \/ Audit(r) \/ Verify(r) \/ Cleanup(r) \/ Remove(r)
         \/ WriteLedger(r) \/ WriteBundle(r) \/ WriteReceipt(r) \/ WriteCloseout(r)
         \/ WriteRefs(r) \/ RefreshIndex(r) \/ AppendEvent(r) \/ CallRaises(r)
         \/ Crash(r)
  PROVE  Advances(r)
<1>1. pc \in [Runs -> Steps] /\ job \in [Runs -> Jobs]
  BY DEF TypeOK, Jobs
<1>2. /\ UNCHANGED row /\ pc[r] \notin {"idle", "over"}
      /\ pc[r] \in Ended => AppendEvent(r) \/ Crash(r)
  BY DEF Gate, Prepare, AddWorktree, Validate, Capture, Work, Audit, Verify, Cleanup,
         Remove, WriteLedger, WriteBundle, WriteReceipt, WriteCloseout, WriteRefs,
         RefreshIndex, AppendEvent, CallRaises, Crash, Active, Ended
<1>3. CASE Fail(r)
  BY <1>2, <1>3, Failing DEF Advances, Active, Early, Ended
\* The other cases: it does not raise.
<1>4. CASE ~Fail(r)
  <2> USE <1>4 DEF Advances, Active, Go, Early, Ended
  <2>2. CASE Gate(r)        BY <1>1, <2>2 DEF Gate, Jobs
  <2>3. CASE Prepare(r)     BY <1>1, <2>3 DEF Prepare
  <2>4. CASE AddWorktree(r) BY <1>1, <2>4 DEF AddWorktree
  <2>5. CASE Validate(r)    BY <1>1, <2>5, ZenonT(40) DEF Validate, Jobs
  <2>6. CASE Capture(r)     BY <1>1, <2>6 DEF Capture, Jobs
  <2>7. CASE Work(r)        BY <1>1, <2>7 DEF Work
  <2>8. CASE Audit(r)       BY <1>1, <2>8 DEF Audit
  <2>9. CASE Verify(r)
    <3>1. /\ pc[r] = "verify" /\ UNCHANGED row /\ Go(r, "cleanup")
          /\ \E v \in Verdicts, st \in Results : job' =
               [job EXCEPT ![r] = [job[r] EXCEPT !.verified = v, !.status = st]]
      BY <2>9 DEF Verify, Verified, Verdicts, Results, RunStates
    <3> QED BY <1>1, <3>1 DEF Jobs
  <2>10. CASE Cleanup(r)    BY <1>1, <2>10, ZenonT(40) DEF Cleanup, Cleaned, Jobs
  <2>11. CASE Remove(r)     BY <1>1, <2>11 DEF Remove, Cleaned, Jobs
  <2>12. CASE WriteLedger(r)   BY <1>1, <2>12 DEF WriteLedger
  <2>13. CASE WriteBundle(r)   BY <1>1, <2>13 DEF WriteBundle
  <2>14. CASE WriteReceipt(r)  BY <1>1, <2>14 DEF WriteReceipt
  <2>15. CASE WriteCloseout(r) BY <1>1, <2>15 DEF WriteCloseout
  <2>16. CASE WriteRefs(r)     BY <1>1, <2>16 DEF WriteRefs
  <2>17. CASE RefreshIndex(r)  BY <1>1, <2>17 DEF RefreshIndex
  <2>18. CASE AppendEvent(r)   BY <1>1, <2>18 DEF AppendEvent
  <2>19. CASE CallRaises(r)    BY <2>19 DEF CallRaises
  <2>20. CASE Crash(r)         BY <1>1, <2>20 DEF Crash
  <2> QED BY <2>2, <2>3, <2>4, <2>5, <2>6, <2>7, <2>8, <2>9, <2>10, <2>11, <2>12,
             <2>13, <2>14, <2>15, <2>16, <2>17, <2>18, <2>19, <2>20
<1> QED BY <1>3, <1>4

\* The other steps, each by what it does to runs and rows.
LEMMA KnownStep ==
  ASSUME TypeOK, Tasked, RunsKnown, [Next]_vars
  PROVE  RunsKnown'
<1>1. \A r \in Runs : pc[r] # "idle" => TaskOf(r) \in Tasks
  BY DEF Tasked
<1>2. row \in [Tasks -> Rows] /\ pc \in [Runs -> Steps] /\ job \in [Runs -> Jobs]
  BY DEF TypeOK, Rows, Jobs
<1>3. ASSUME NEW r \in Runs, Start(r) PROVE RunsKnown'
  <2>1. PICK t \in Tasks : /\ pc[r] = "idle" /\ Go(r, "gate")
                           /\ \A q \in Runs : Active(q) => TaskOf(q) # t
                           /\ job'[r].task = t /\ job'[r].cleanup = Declared(t)
                           /\ \A q \in Runs : q # r => job'[q] = job[q]
                           /\ row' = [row EXCEPT ![t] = [run |-> r, state |-> "running",
                                cleanup |-> Declared(t), owner |-> FirstOwner(t),
                                by |-> "start"]]
    <3>1. PICK t \in Tasks, root \in BOOLEAN, bridge \in BOOLEAN : Start(r)!(t, root, bridge)
      BY <1>3 DEF Start
    <3> DEFINE j == [job[r] EXCEPT !.task = t, !.from_root = root, !.bridge = bridge,
                                   !.cleanup = Declared(t), !.owner = FirstOwner(t)]
    <3>2. j.task = t /\ j.cleanup = Declared(t)
      BY <1>2 DEF Jobs
    <3>3. job' = [job EXCEPT ![r] = j]
      BY <3>1
    <3>4. job'[r].task = t /\ job'[r].cleanup = Declared(t)
          /\ \A q \in Runs : q # r => job'[q] = job[q]
      <4> HIDE DEF j
      <4> QED BY <1>2, <3>2, <3>3
    <3> QED BY <3>1, <3>4
  <2>2. pc'[r] = "gate" /\ \A q \in Runs : q # r => pc'[q] = pc[q]
    BY <1>2, <2>1 DEF Go
  <2>3. /\ row'[t].run = r /\ row'[t].by = "start" /\ row'[t].cleanup = Declared(t)
        /\ row'[t].state = "running"
        /\ \A u \in Tasks : u # t => row'[u] = row[u]
    BY <1>2, <2>1
  <2>4. \A u \in Tasks : row[u].run # r
    BY <2>1, WorkspaceAssumption DEF RunsKnown
  <2>5. \A q \in Runs : Active(q)' => q = r \/ Active(q)
    BY <2>2 DEF Active
  <2>6. Declared(t)' = Declared(t)
    BY DEF Declared
  <2>7. \A u \in Tasks : row[u].run \in Runs \cup {NoRun}
    BY <1>2 DEF Rows
  <2>8. \A q, u \in Runs : Active(q)' /\ Active(u)' /\ TaskOf(q)' = TaskOf(u)' => q = u
    BY <2>1, <2>2, <2>5 DEF RunsKnown, TaskOf
  <2>9. \A q \in Runs : Active(q)' =>
          row'[TaskOf(q)'].run = q
    BY <1>1, <2>1, <2>2, <2>3, <2>5, <2>6 DEF RunsKnown, TaskOf, Active, Declared
  <2>10. \A u \in Tasks : row'[u].run # NoRun =>
           pc'[row'[u].run] # "idle" /\ job'[row'[u].run].task = u
    BY <2>1, <2>2, <2>3, <2>4, <2>7 DEF RunsKnown, TaskOf
  <2>11. \A q \in Runs : pc'[q] \in Early =>
           /\ job'[q].cleanup = Declared(TaskOf(q))'
           /\ row'[TaskOf(q)'].cleanup = Declared(TaskOf(q))'
    BY <1>1, <2>1, <2>2, <2>3, <2>6 DEF RunsKnown, TaskOf, Declared, Active, Early
  <2>12. \A u \in Tasks : row'[u].by = "run" \/ row'[u].state # "running" =>
           row'[u].run # NoRun /\ pc'[row'[u].run] \in Ended
    BY <2>2, <2>3, <2>4, <2>7 DEF RunsKnown
  <2>13. \A q \in Runs : pc'[q] = "event" => row'[job'[q].task].state # "running"
    BY <1>1, <2>1, <2>2, <2>3 DEF RunsKnown, TaskOf, Active
  <2> QED BY <2>8, <2>9, <2>10, <2>11, <2>12, <2>13 DEF RunsKnown, TaskOf
\* A run that has its row written, by itself or by the handler.
<1>4. ASSUME NEW r \in Runs, Active(r), NEW p \in {"event", "over"}, Go(r, p),
             UNCHANGED job,
             NEW s, s # "running", NEW b \in {"run", "handler"}, Record(r, s, b)
      PROVE  RunsKnown'
  <2>1. TaskOf(r) \in Tasks /\ pc'[r] \in {"event", "over"}
        /\ \A q \in Runs : q # r => pc'[q] = pc[q]
    BY <1>1, <1>2, <1>4 DEF Active, Go
  <2>2. /\ row'[TaskOf(r)].run = r /\ r # NoRun /\ row'[TaskOf(r)].state # "running"
        /\ \A u \in Tasks : u # TaskOf(r) => row'[u] = row[u]
    BY <1>2, <1>4, <2>1, WorkspaceAssumption DEF Record
  <2>3. \A q \in Runs : Active(q)' => Active(q)
    BY <1>4, <2>1 DEF Active
  <2>4. \A u \in Tasks : row[u].run \in Runs \cup {NoRun}
    BY <1>2 DEF Rows
  <2>5. \A q \in Runs : Active(q)' /\ q # r =>
          TaskOf(q) \in Tasks /\ TaskOf(q) # TaskOf(r)
    BY <1>1, <1>4, <2>3 DEF RunsKnown, Active
  <2>6. \A q \in Runs : pc'[q] \in Early => pc[q] \in Early /\ q # r /\ Active(q)'
    BY <2>1 DEF Early, Active
  <2>7. \A u \in Tasks : row'[u].by = "run" \/ row'[u].state # "running" =>
          row'[u].run # NoRun /\ pc'[row'[u].run] \in Ended
    BY <2>1, <2>2, <2>4 DEF RunsKnown, Ended
  <2>8. \A q \in Runs : pc'[q] = "event" => row'[TaskOf(q)].state # "running"
    BY <1>1, <2>1, <2>2 DEF RunsKnown
  <2> QED BY <1>4, <2>1, <2>2, <2>3, <2>4, <2>5, <2>6, <2>7, <2>8
        DEF RunsKnown, TaskOf, Declared
<1>5. ASSUME NEW r \in Runs, WriteRow(r) PROVE RunsKnown'
  <2>1. RowState(r) # "running"
    BY <1>2 DEF RowState, Jobs, Results, RunStates
  <2> QED BY <1>4, <1>5, <2>1 DEF WriteRow, Active
<1>6. ASSUME NEW r \in Runs, Handle(r) PROVE RunsKnown'
  <2>1. CASE pc[r] = "fail_ledger"
    BY <1>2, <1>6, <2>1, AdvanceKnown DEF Handle, Advances, Active, Go, Early, Ended
  <2>2. CASE pc[r] = "fail_row"
    BY <1>4, <1>6, <2>2 DEF Handle, Active
  <2> QED BY <1>6, <2>1, <2>2 DEF Handle
<1>7. ASSUME NEW t \in Tasks, Dispose(t) PROVE RunsKnown'
  <2>1. /\ row'[t].run = row[t].run /\ row'[t].by = "operator"
        /\ row'[t].cleanup = row[t].cleanup /\ row[t].state = "needs_review"
        /\ row'[t].state # "running"
        /\ \A u \in Tasks : u # t => row'[u] = row[u]
        /\ UNCHANGED <<pc, job>>
    BY <1>2, <1>7 DEF Dispose, Rows
  <2>2. \A u \in Tasks : /\ row'[u].run = row[u].run /\ row'[u].cleanup = row[u].cleanup
                         /\ row'[u].by = "run" => row[u].by = "run"
                         /\ row'[u].state # "running" <=> row[u].state # "running"
    BY <2>1
  <2>3. \A q \in Runs : Active(q) \/ pc[q] \in Early \/ pc[q] = "event" => TaskOf(q) \in Tasks
    BY <1>1 DEF Active, Early
  <2> QED BY <2>1, <2>2, <2>3 DEF RunsKnown, Active, TaskOf, Declared
<1>8. ASSUME NEW p \in Trees \cup {Root}, Stray(p) \/ Tidy(p) PROVE RunsKnown'
  <2>1. UNCHANGED <<pc, job, row>>
    BY <1>8 DEF Stray, Tidy
  <2> QED BY <2>1 DEF RunsKnown, Active, TaskOf, Declared, Early
<1>9. CASE UNCHANGED vars
  BY <1>9 DEF vars, RunsKnown, Active, TaskOf, Declared, Early
<1> QED BY <1>3, <1>5, <1>6, <1>7, <1>8, <1>9, ActiveSteps, AdvanceKnown DEF Next, Step
-----------------------------------------------------------------------------
(* Worktrees.                                                              *)

Left == {"deferred", "cleanup_failed"}

\* The row of a task says that its worktree is left, and so will the run of
\* the task that may still be under way.
Recorded(t) ==
  /\ row[t].run # NoRun /\ row[t].cleanup \in Left
  /\ \A r \in Runs : Active(r) /\ TaskOf(r) = t => job[r].cleanup \in Left

\* LeftTreeRecorded is not inductive: while runs are under way in a worktree
\* it says nothing.  This does: each worktree has a task that records it.
TreesRecorded ==
  \A p \in Trees : tree[p].present => \E t \in Tasks : Tree[t] = p /\ Recorded(t)

\* A step that adds no worktree and leaves rows and cleanups as they are.
Settled ==
  /\ \A p \in Trees : tree'[p].present => tree[p].present
  /\ UNCHANGED row
  /\ \A r \in Runs : Active(r)' =>
       Active(r) /\ job'[r].task = job[r].task /\ job'[r].cleanup = job[r].cleanup

LEMMA SettledRecorded ==
  ASSUME TreesRecorded, Settled PROVE TreesRecorded'
BY DEF TreesRecorded, Settled, Recorded, TaskOf

\* A run that ends its worktree, or finds it gone, says what is left of it.
LEMMA CleanedRecorded ==
  ASSUME TypeOK, Tasked, TreesRecorded, NEW r \in Runs, Active(r),
         NEW c \in Cleanups, NEW o \in Owners, Cleaned(r, c, o), UNCHANGED row,
         \A p \in Trees : tree'[p].present => tree[p].present,
         Path(r) \in Trees /\ tree'[Path(r)].present => c \in Left
  PROVE  TreesRecorded'
<1>1. TaskOf(r) \in Tasks
  BY DEF Tasked, Active
<1>2. job \in [Runs -> Jobs] /\ pc \in [Runs -> Steps]
  BY DEF TypeOK, Jobs
<1>3. /\ job'[r].task = TaskOf(r) /\ job'[r].cleanup = c
      /\ \A q \in Runs : q # r => job'[q] = job[q]
      /\ \A q \in Runs : Active(q)' => Active(q)
  BY <1>2 DEF Cleaned, Go, Active, Jobs, TaskOf
<1> SUFFICES ASSUME NEW p \in Trees, tree'[p].present
             PROVE  \E t \in Tasks : Tree[t] = p /\ Recorded(t)'
  BY DEF TreesRecorded
<1>4. PICK t \in Tasks : Tree[t] = p /\ Recorded(t)
  BY DEF TreesRecorded
<1>5. \A q \in Runs : Active(q)' /\ TaskOf(q)' = t => job'[q].cleanup \in Left
  <2>1. TaskOf(r) = t => Path(r) = p
    BY <1>4 DEF Path
  <2> QED BY <1>3, <1>4, <2>1 DEF Recorded, TaskOf
<1> QED BY <1>4, <1>5 DEF Recorded

\* The row that a run or its handler writes has what the run said.
LEMMA RecordRecorded ==
  ASSUME TypeOK, Tasked, TreesRecorded, NEW r \in Runs, Active(r), NEW p, Go(r, p),
         UNCHANGED <<job, tree>>, NEW s, NEW b, Record(r, s, b)
  PROVE  TreesRecorded'
<1>1. TaskOf(r) \in Tasks /\ r # NoRun
  BY WorkspaceAssumption DEF Tasked, Active
<1>2. row \in [Tasks -> Rows] /\ pc \in [Runs -> Steps]
  BY DEF TypeOK, Rows
<1>3. /\ row'[TaskOf(r)].run = r /\ row'[TaskOf(r)].cleanup = job[r].cleanup
      /\ \A t \in Tasks : t # TaskOf(r) => row'[t] = row[t]
  BY <1>1, <1>2 DEF Record
<1>4. \A q \in Runs : Active(q)' => Active(q)
  BY <1>2 DEF Go, Active
<1> QED BY <1>1, <1>3, <1>4 DEF TreesRecorded, Recorded, TaskOf

LEMMA TreeStep ==
  ASSUME TypeOK, Tasked, RunsKnown, TreesRecorded, [Next]_vars
  PROVE  TreesRecorded'
<1>1. job \in [Runs -> Jobs] /\ pc \in [Runs -> Steps] /\ row \in [Tasks -> Rows]
      /\ tree \in [Trees \cup {Root} -> Worktrees]
  BY DEF TypeOK, Jobs, Rows, Worktrees
<1>2. \A r \in Runs : pc[r] # "idle" => TaskOf(r) \in Tasks /\ Path(r) \in Trees \cup {Root}
  BY PathType
<1>3. ASSUME NEW r \in Runs, Start(r) PROVE TreesRecorded'
  <2>1. PICK t \in Tasks, root \in BOOLEAN, bridge \in BOOLEAN : Start(r)!(t, root, bridge)
    BY <1>3 DEF Start
  <2> DEFINE j == [job[r] EXCEPT !.task = t, !.from_root = root, !.bridge = bridge,
                                 !.cleanup = Declared(t), !.owner = FirstOwner(t)]
  <2>2. j.task = t /\ j.cleanup = Declared(t) /\ job' = [job EXCEPT ![r] = j]
    BY <1>1, <2>1 DEF Jobs
  <2>3. job'[r].task = t /\ job'[r].cleanup = Declared(t)
        /\ \A q \in Runs : q # r => job'[q] = job[q]
    <3> HIDE DEF j
    <3> QED BY <1>1, <2>2
  <2>4. /\ row'[t].run = r /\ row'[t].cleanup = Declared(t) /\ r # NoRun
        /\ \A u \in Tasks : u # t => row'[u] = row[u]
    BY <1>1, <2>1, WorkspaceAssumption
  <2>5. \A q \in Runs : Active(q)' => q = r \/ (Active(q) /\ TaskOf(q) # t)
    BY <1>1, <2>1 DEF Go, Active
  <2>6. \A p \in Trees : Tree[t] = p => Declared(t) = "deferred"
    BY WorkspaceAssumption DEF Declared
  <2>7. UNCHANGED tree
    BY <2>1
  <2> SUFFICES ASSUME NEW p \in Trees, tree[p].present
               PROVE  \E u \in Tasks : Tree[u] = p /\ Recorded(u)'
    BY <2>7 DEF TreesRecorded
  <2>8. PICK u \in Tasks : Tree[u] = p /\ Recorded(u)
    BY DEF TreesRecorded
  <2>9. CASE u = t
    BY <2>3, <2>4, <2>5, <2>6, <2>8, <2>9 DEF Recorded, TaskOf, Left
  <2>10. CASE u # t
    BY <2>3, <2>4, <2>5, <2>8, <2>10 DEF Recorded, TaskOf
  <2> QED BY <2>8, <2>9, <2>10
<1>4. ASSUME NEW r \in Runs, AddWorktree(r) PROVE TreesRecorded'
  <2>1. CASE UNCHANGED tree
    <3>1. Advances(r) /\ job'[r].cleanup = job[r].cleanup
      BY <1>1, <1>4, <2>1, ActiveSteps, Failing DEF AddWorktree
    <3> QED BY <2>1, <3>1, SettledRecorded DEF Settled, Advances, Active
  <2>2. CASE /\ Go(r, "validate") /\ UNCHANGED job
             /\ tree' = [tree EXCEPT ![Path(r)] =
                  [present |-> TRUE, branch |-> Branch[TaskOf(r)], dirty |-> {}]]
    <3>1. /\ pc[r] = "add" /\ UNCHANGED <<row, job>>
          /\ \A q \in Runs : Active(q)' => Active(q)
      BY <1>1, <1>4, <2>2 DEF AddWorktree, Go, Active
    <3>2. TaskOf(r) \in Tasks /\ Active(r) /\ job[r].cleanup = Declared(TaskOf(r))
      BY <1>2, <3>1 DEF RunsKnown, Active, Early
    <3>3. row[TaskOf(r)].run = r /\ r # NoRun
      BY <3>2, WorkspaceAssumption DEF RunsKnown
    <3> SUFFICES ASSUME NEW p \in Trees, tree'[p].present
                 PROVE  \E t \in Tasks : Tree[t] = p /\ Recorded(t)'
      BY DEF TreesRecorded
    <3>4. CASE tree[p].present
      BY <3>1, <3>4 DEF TreesRecorded, Recorded, TaskOf
    <3>5. CASE p = Path(r)
      <4>0. PICK t \in Tasks : t = TaskOf(r)
        BY <3>2
      <4>1. Tree[t] = p /\ Declared(t) = "deferred"
        BY <3>5, <4>0, WorkspaceAssumption DEF Path, Declared
      <4>2. row[t].run # NoRun /\ row[t].cleanup \in Left
        BY <3>1, <3>2, <3>3, <4>0, <4>1 DEF RunsKnown, Left, Early
      <4>3. \A q \in Runs : Active(q)' /\ TaskOf(q)' = t => job'[q].cleanup \in Left
        BY <3>1, <3>2, <4>0, <4>1 DEF RunsKnown, TaskOf, Left
      <4> QED BY <3>1, <4>1, <4>2, <4>3 DEF Recorded
    <3>6. p = Path(r) \/ tree[p].present
      BY <1>1, <2>2
    <3> QED BY <3>4, <3>5, <3>6
  <2> QED BY <1>4, <2>1, <2>2 DEF AddWorktree
<1>5. ASSUME NEW r \in Runs, Cleanup(r) PROVE TreesRecorded'
  <2>1. Active(r) /\ UNCHANGED <<tree, row>>
    BY <1>5 DEF Cleanup, Active
  <2>2. CASE Path(r) = Root /\ Cleaned(r, "inline_only", "inline_execution")
    BY <2>1, <2>2, CleanedRecorded, WorkspaceAssumption DEF Cleanups, Owners
  <2>3. CASE Cleaned(r, "deferred", "operator")
    BY <2>1, <2>3, CleanedRecorded DEF Cleanups, Owners, Left
  <2>4. CASE ~tree[Path(r)].present /\ Cleaned(r, "cleaned", "runtime")
    BY <2>1, <2>4, CleanedRecorded DEF Cleanups, Owners
  <2>5. CASE Go(r, "remove") /\ UNCHANGED job
    BY <1>1, <2>1, <2>5, SettledRecorded DEF Settled, Go, Active
  <2>6. CASE Fail(r)
    BY <2>1, <2>6, SettledRecorded, Failing DEF Settled, Active
  <2> QED BY <1>5, <2>2, <2>3, <2>4, <2>5, <2>6 DEF Cleanup
<1>6. ASSUME NEW r \in Runs, Remove(r) PROVE TreesRecorded'
  <2>1. Active(r) /\ UNCHANGED row /\ Path(r) \in Trees \cup {Root}
    BY <1>2, <1>6 DEF Remove, Active
  <2>2. CASE tree' = [tree EXCEPT ![Path(r)].present = FALSE]
             /\ Cleaned(r, "cleaned", "runtime")
    <3>1. ~tree'[Path(r)].present
          /\ \A p \in Trees : tree'[p].present => tree[p].present
      BY <1>1, <2>1, <2>2 DEF Worktrees
    <3> QED BY <2>1, <2>2, <3>1, CleanedRecorded DEF Cleanups, Owners
  <2>3. CASE UNCHANGED tree /\ Cleaned(r, "cleanup_failed", "operator")
    BY <2>1, <2>3, CleanedRecorded DEF Cleanups, Owners, Left
  <2> QED BY <1>6, <2>2, <2>3 DEF Remove
<1>7. ASSUME NEW r \in Runs, Work(r) \/ Verify(r) PROVE TreesRecorded'
  <2>1. Path(r) \in Trees \cup {Root} /\ Active(r) /\ UNCHANGED row
        /\ \A q \in Runs : Active(q)' => Active(q)
    BY <1>1, <1>2, <1>7, ActiveSteps DEF Work, Verify, Active, Advances
  <2>2. \A p \in Trees : tree'[p].present => tree[p].present
    BY <1>1, <1>7, <2>1 DEF Work, Verify, Dirty, Worktrees
  <2>3. \A q \in Runs : job'[q].task = job[q].task /\ job'[q].cleanup = job[q].cleanup
    <3>1. CASE UNCHANGED job
      BY <3>1
    <3>2. CASE \E v \in Verdicts, st \in Results : job' =
                 [job EXCEPT ![r] = [job[r] EXCEPT !.verified = v, !.status = st]]
      BY <1>1, <3>2 DEF Jobs
    <3>3. CASE Fail(r)
      BY <3>3, Failing
    <3> QED BY <1>7, <3>1, <3>2, <3>3
          DEF Work, Verify, Verified, Verdicts, Results, RunStates
  <2> QED BY <2>1, <2>2, <2>3, SettledRecorded DEF Settled
<1>8. ASSUME NEW r \in Runs,
             \/ Gate(r) \/ Prepare(r) \/ Validate(r) \/ Capture(r) \/ Audit(r)
             \/ WriteLedger(r) \/ WriteBundle(r) \/ WriteReceipt(r)
             \/ WriteCloseout(r) \/ WriteRefs(r) \/ RefreshIndex(r)
             \/ AppendEvent(r) \/ CallRaises(r) \/ Crash(r)
      PROVE  TreesRecorded'
  <2>1. Advances(r) /\ UNCHANGED tree
    BY <1>8, ActiveSteps DEF Gate, Prepare, Validate, Capture, Audit, WriteLedger,
       WriteBundle, WriteReceipt, WriteCloseout, WriteRefs, RefreshIndex, AppendEvent,
       CallRaises, Crash
  <2>2. job'[r].cleanup = job[r].cleanup
    <3>1. CASE Fail(r)     BY <3>1, Failing
    <3>2. CASE ~Fail(r) /\ Gate(r)     BY <1>1, <3>2 DEF Gate, Jobs
    <3>3. CASE ~Fail(r) /\ Validate(r) BY <1>1, <3>3 DEF Validate, Jobs
    <3>4. CASE ~Fail(r) /\ Capture(r)  BY <1>1, <3>4 DEF Capture, Jobs
    <3>5. CASE ~(Fail(r) \/ Gate(r) \/ Validate(r) \/ Capture(r))
      BY <1>8, <3>5 DEF Prepare, Audit, WriteLedger, WriteBundle, WriteReceipt,
         WriteCloseout, WriteRefs, RefreshIndex, AppendEvent, CallRaises, Crash
    <3> QED BY <3>1, <3>2, <3>3, <3>4, <3>5
  <2>3. Settled
    BY <2>1, <2>2 DEF Settled, Advances, Active
  <2> QED BY <2>3, SettledRecorded
<1>9. ASSUME NEW r \in Runs, WriteRow(r) PROVE TreesRecorded'
  BY <1>9, RecordRecorded DEF WriteRow, Active
<1>10. ASSUME NEW r \in Runs, Handle(r) PROVE TreesRecorded'
  <2>1. CASE pc[r] = "fail_ledger"
    BY <1>1, <1>10, <2>1, SettledRecorded DEF Handle, Settled, Active, Go
  <2>2. CASE pc[r] = "fail_row"
    BY <1>10, <2>2, RecordRecorded DEF Handle, Active
  <2> QED BY <1>10, <2>1, <2>2 DEF Handle
<1>11. ASSUME NEW t \in Tasks, Dispose(t) PROVE TreesRecorded'
  <2>1. /\ row'[t].run = row[t].run /\ row'[t].cleanup = row[t].cleanup
        /\ \A u \in Tasks : u # t => row'[u] = row[u]
        /\ UNCHANGED <<pc, job, tree>>
    BY <1>1, <1>11 DEF Dispose, Rows
  <2> QED BY <2>1 DEF TreesRecorded, Recorded, Active, TaskOf
<1>12. ASSUME NEW p \in Trees \cup {Root}, Stray(p) \/ Tidy(p) PROVE TreesRecorded'
  <2>1. UNCHANGED <<pc, job, row>>
    BY <1>12 DEF Stray, Tidy
  <2>2. \A q \in Trees : tree'[q].present => tree[q].present
    BY <1>1, <1>12 DEF Stray, Tidy, Dirty, Worktrees
  <2> QED BY <2>1, <2>2, SettledRecorded DEF Settled, Active
<1>13. CASE UNCHANGED vars
  BY <1>13, SettledRecorded DEF vars, Settled, Active
<1> QED BY <1>3, <1>4, <1>5, <1>6, <1>7, <1>8, <1>9, <1>10, <1>11, <1>12, <1>13
      DEF Next, Step

-----------------------------------------------------------------------------
LEMMA InitKnown == ASSUME Init PROVE RunsKnown /\ TreesRecorded
<1>1. /\ \A t \in Tasks : row[t].run = NoRun /\ row[t].by = "start"
                        /\ row[t].state = "running"
      /\ \A r \in Runs : pc[r] = "idle"
  BY DEF Init
<1>2. ASSUME NEW p \in Trees PROVE ~tree[p].present
  <2>1. PICK b \in Branches :
          tree = [q \in Trees \cup {Root} |->
                    [present |-> q = Root, branch |-> b, dirty |-> {}]]
    BY DEF Init
  <2>2. p # Root /\ p \in Trees \cup {Root}
    BY WorkspaceAssumption
  <2>3. tree[p].present = (p = Root)
    BY <2>1, <2>2
  <2> QED BY <2>2, <2>3
<1> QED BY <1>1, <1>2 DEF RunsKnown, TreesRecorded, Active, Early

TreeInv == TypeOK /\ Tasked /\ RunsKnown /\ TreesRecorded

LEMMA TreeInvariant == Spec => []TreeInv
<1>1. Init => TreeInv
  BY InitType, InitKnown DEF TreeInv
<1>2. TreeInv /\ [Next]_vars => TreeInv'
  BY TypeStep, KnownStep, TreeStep DEF TreeInv
<1> QED BY <1>1, <1>2, PTL DEF Spec

\* A worktree that no run works in is named by a row whose cleanup is still to
\* be done, whatever raised, was killed or shared it.
THEOREM LeftTreeRecordedHolds == Spec => []LeftTreeRecorded
<1>1. TreeInv => LeftTreeRecorded
  BY DEF TreeInv, TreesRecorded, Recorded, LeftTreeRecorded, Left
<1> QED BY <1>1, TreeInvariant, PTL

\* No step of any run or operator makes a worktree with changes go away.
THEOREM NoWorkLostHolds == Spec => NoWorkLost
<1> DEFINE Kept ==
      \A p \in Trees : tree[p].present /\ ~tree'[p].present => tree[p].dirty = {}
<1>1. TreeInv /\ [Next]_vars => [Kept]_vars
  <2> SUFFICES ASSUME TreeInv, Next PROVE Kept
    OBVIOUS
  <2>1. tree \in [Trees \cup {Root} -> Worktrees]
        /\ \A r \in Runs : pc[r] # "idle" => Path(r) \in Trees \cup {Root}
    BY PathType DEF TreeInv, TypeOK, Worktrees
  <2>2. ASSUME NEW r \in Runs, Step(r) \/ Crash(r) PROVE Kept
    <3>1. CASE AddWorktree(r) BY <2>1, <3>1 DEF AddWorktree, Worktrees
    <3>2. CASE Work(r)        BY <2>1, <3>2 DEF Work, Dirty, Worktrees
    <3>3. CASE Verify(r)      BY <2>1, <3>3 DEF Verify, Dirty, Worktrees
    <3>4. CASE Remove(r)      BY <2>1, <3>4 DEF Remove, Worktrees
    <3>5. CASE ~(AddWorktree(r) \/ Work(r) \/ Verify(r) \/ Remove(r))
      <4>1. UNCHANGED tree
        BY <2>2, <3>5 DEF Step, Start, Gate, Prepare, Validate, Capture, Audit, Cleanup,
           WriteLedger, WriteBundle, WriteReceipt, WriteCloseout, WriteRefs,
           RefreshIndex, WriteRow, AppendEvent, CallRaises, Handle, Crash
      <4> QED BY <4>1
    <3> QED BY <3>1, <3>2, <3>3, <3>4, <3>5
  <2>3. ASSUME NEW t \in Tasks, Dispose(t) PROVE Kept
    BY <2>3 DEF Dispose
  <2>4. ASSUME NEW p \in Trees \cup {Root}, Stray(p) \/ Tidy(p) PROVE Kept
    BY <2>1, <2>4 DEF Stray, Tidy, Dirty, Worktrees
  <2> QED BY <2>2, <2>3, <2>4 DEF Next
<1> QED BY <1>1, TreeInvariant, PTL DEF Spec, NoWorkLost
-----------------------------------------------------------------------------
(* Evidence.                                                               *)

Outcome(status) == IF status = "succeeded" THEN "completed" ELSE status

\* What a run at step p, with locals j, has already written: the files f and
\* the index i.  Each step of the ending adds one fact and keeps the others.
Written(p, j, f, i) ==
  /\ p \in {"bundle", "receipt", "closeout", "refs", "index", "row"} =>
       f["ledger"].status = Outcome(j.status) /\ f["ledger"].cleanup = j.cleanup
  /\ p \in {"receipt", "closeout", "refs", "index", "row"} =>
       f["result"].status = j.status /\ f["result"].cleanup = j.cleanup
  /\ p \in {"closeout", "refs", "index", "row"} =>
       (j.status \in {"needs_review", "waiting_handoff"} => f["receipt"] # Absent)
  /\ p \in {"refs", "index", "row"} =>
       f["closeout"].status = Closeout(j.status) /\ f["closeout"].cleanup = j.cleanup
  /\ p \in {"index", "row"} => f["result"].refs /\ f["ledger"].refs
  /\ p = "row" => i = f
  /\ p \in {"fail_ledger", "fail_row"} => j.raised

\* The evidence agrees with a row w, the ledger unless the handler wrote it.
Final(w, j, f, i) ==
  /\ w.cleanup = j.cleanup
  /\ f["result"].status = (IF w.state = "completed" THEN "succeeded" ELSE w.state)
  /\ f["closeout"].status = Closeout(w.state)
  /\ f["result"].refs
  /\ \A k \in {"ledger", "result", "closeout"} : f[k].cleanup = w.cleanup
  /\ w.state \in {"needs_review", "waiting_handoff"} => f["receipt"] # Absent
  /\ \A k \in Kinds \ {"ledger"} : i[k] = f[k]
  /\ \/ f["ledger"].status = w.state /\ f["ledger"].refs /\ i = f
     \/ j.raised /\ f["ledger"].status = "failed"

EvidenceInv ==
  /\ \A r \in Runs : Written(pc[r], job[r], file[r], index[r])
  /\ \A t \in Tasks : row[t].by = "run" =>
       Final(row[t], job[row[t].run], file[row[t].run], index[row[t].run])

\* A run is at none of the steps that Written speaks of.
LEMMA NothingWritten ==
  ASSUME NEW p, NEW j, NEW f, NEW i,
         p \notin {"bundle", "receipt", "closeout", "refs", "index", "row"},
         p \in {"fail_ledger", "fail_row"} => j.raised
  PROVE  Written(p, j, f, i)
BY DEF Written

\* The step before the row gives what the row is to agree with.
LEMMA WrittenFinal ==
  ASSUME NEW j \in Jobs, NEW f, NEW i, Written("row", j, f, i),
         NEW w, w.state = Outcome(j.status), w.cleanup = j.cleanup
  PROVE  Final(w, j, f, i)
<1>1. Closeout(Outcome(j.status)) = Closeout(j.status)
  BY DEF Closeout, Outcome
<1>2. j.status = (IF w.state = "completed" THEN "succeeded" ELSE w.state)
  BY DEF Outcome, Jobs, Results, RunStates
<1>3. w.state \in {"needs_review", "waiting_handoff"} => w.state = j.status
  BY DEF Outcome
<1> QED BY <1>1, <1>2, <1>3 DEF Written, Final

\* A step of a run touches no evidence but its own, and a row that says "run"
\* after it is that of another run or agrees with the evidence.
LEMMA OwnEvidence ==
  ASSUME TypeOK, RunsKnown, EvidenceInv, NEW r \in Runs,
         \A q \in Runs : q # r => /\ pc'[q] = pc[q] /\ job'[q] = job[q]
                                  /\ file'[q] = file[q] /\ index'[q] = index[q],
         Written(pc'[r], job'[r], file'[r], index'[r]),
         \A t \in Tasks : row'[t].by = "run" =>
           \/ row'[t] = row[t] /\ row[t].run # r
           \/ row'[t].run = r /\ Final(row'[t], job'[r], file'[r], index'[r])
  PROVE  EvidenceInv'
<1>1. ASSUME NEW t \in Tasks, row'[t].by = "run", row'[t] = row[t], row[t].run # r
      PROVE  Final(row'[t], job'[row'[t].run], file'[row'[t].run], index'[row'[t].run])
  <2>1. row[t].run \in Runs
    BY <1>1 DEF RunsKnown, TypeOK
  <2> QED BY <1>1, <2>1 DEF EvidenceInv
<1>2. \A q \in Runs : Written(pc'[q], job'[q], file'[q], index'[q])
  BY DEF EvidenceInv
<1> QED BY <1>1, <1>2 DEF EvidenceInv

\* Before its row is written, no row that says "run" is that of the run.
LEMMA NotYet ==
  ASSUME RunsKnown, NEW r \in Runs, pc[r] \notin Ended
  PROVE  \A t \in Tasks : row[t].by = "run" => row[t].run # r
BY DEF RunsKnown

\* A run that raises before its row is written has nothing to agree with, and
\* after it what it wrote stays as it is.
LEMMA RaisedEvidence ==
  ASSUME TypeOK, RunsKnown, EvidenceInv, NEW r \in Runs, Fail(r), UNCHANGED row,
         \A q \in Runs : q # r => file'[q] = file[q] /\ index'[q] = index[q],
         pc[r] \in Ended => UNCHANGED <<file, index>>
  PROVE  EvidenceInv'
<1>1. Written(pc'[r], job'[r], file'[r], index'[r])
  BY Failing, NothingWritten
<1>2. ASSUME NEW t \in Tasks, row[t].by = "run", row[t].run = r
      PROVE  Final(row'[t], job'[r], file'[r], index'[r])
  <2>1. pc[r] \in Ended
    BY <1>2, NotYet
  <2>2. Final(row[t], job[r], file[r], index[r])
    BY <1>2 DEF EvidenceInv
  <2>3. /\ job'[r].raised /\ job'[r].cleanup = job[r].cleanup
        /\ row'[t] = row[t] /\ file'[r] = file[r] /\ index'[r] = index[r]
    BY <2>1, Failing
  <2>4. Final(row[t], job'[r], file[r], index[r])
    BY <2>2, <2>3 DEF Final
  <2> QED BY <2>3, <2>4
<1>3. \A t \in Tasks : row'[t].by = "run" =>
        \/ row'[t] = row[t] /\ row[t].run # r
        \/ row'[t].run = r /\ Final(row'[t], job'[r], file'[r], index'[r])
  BY <1>2
<1>4. \A q \in Runs : q # r => /\ pc'[q] = pc[q] /\ job'[q] = job[q]
                               /\ file'[q] = file[q] /\ index'[q] = index[q]
  BY Failing
<1> QED BY <1>1, <1>3, <1>4, OwnEvidence

\* Each step of the ending adds its fact.
LEMMA EndingStep ==
  ASSUME TypeOK, Tasked, RunsKnown, EvidenceInv, NEW r \in Runs,
         \/ WriteLedger(r) \/ WriteBundle(r) \/ WriteReceipt(r) \/ WriteCloseout(r)
         \/ WriteRefs(r) \/ RefreshIndex(r)
  PROVE  EvidenceInv'
<1> DEFINE f == file[r]
           j == job[r]
<1>1. /\ file \in [Runs -> [Kinds -> Contents]] /\ index \in [Runs -> [Kinds -> Contents]]
      /\ pc \in [Runs -> Steps] /\ job \in [Runs -> Jobs]
  BY DEF TypeOK, Jobs
<1>2. f \in [Kinds -> Contents] /\ j \in Jobs /\ j.status \in Results
      /\ {"ledger", "result", "receipt", "closeout", "verification", "projection"} = Kinds
  BY <1>1 DEF Jobs, Kinds
<1>3. Written(pc[r], j, f, index[r])
  BY DEF EvidenceInv
<1> SUFFICES /\ pc[r] \notin Ended /\ UNCHANGED row
             /\ \A q \in Runs : q # r => /\ pc'[q] = pc[q] /\ job'[q] = job[q]
                                         /\ file'[q] = file[q] /\ index'[q] = index[q]
             /\ Written(pc'[r], job'[r], file'[r], index'[r])
  BY OwnEvidence, NotYet
<1> USE DEF Ended
<1>4. CASE WriteLedger(r)
  <2>1. /\ pc'[r] = "bundle" /\ job'[r] = j /\ index' = index /\ UNCHANGED row
        /\ pc[r] = "ledger" /\ file'[r] = [f EXCEPT !["ledger"] = Says(r, RowState(r))]
        /\ \A q \in Runs : q # r => pc'[q] = pc[q] /\ job'[q] = job[q] /\ file'[q] = file[q]
    BY <1>1, <1>4 DEF WriteLedger, Go, Write
  <2>2. file'[r]["ledger"] = Says(r, RowState(r))
    BY <1>2, <2>1
  <2>3. Says(r, RowState(r)).status = Outcome(j.status)
        /\ Says(r, RowState(r)).cleanup = j.cleanup
    BY DEF Says, RowState, Outcome
  <2>4. Written(pc'[r], job'[r], file'[r], index'[r])
    BY <2>1, <2>2, <2>3 DEF Written
  <2> QED BY <2>1, <2>4
<1>5. CASE WriteBundle(r)
  <2>1. /\ pc[r] = "bundle" /\ UNCHANGED row
        /\ \A q \in Runs : q # r => file'[q] = file[q] /\ index'[q] = index[q]
    BY <1>1, <1>5 DEF WriteBundle
  <2>2. CASE Fail(r)
    <3>1. Written(pc'[r], job'[r], file'[r], index'[r])
      BY <2>2, Failing, NothingWritten
    <3> QED BY <2>1, <2>2, <3>1, Failing
  <2>3. CASE ~Fail(r)
    <3>0. job'[r] = j /\ \A q \in Runs : q # r => pc'[q] = pc[q] /\ job'[q] = job[q]
      BY <1>1, <1>5, <2>3 DEF WriteBundle, Go
    <3>1. PICK shown : /\ file'[r] = [[f EXCEPT !["verification"] = Just(j.verified)]
                               EXCEPT !["projection"] = shown,
                                      !["result"] = Says(r, j.status)]
                       /\ pc'[r] = IF j.status \in {"needs_review", "waiting_handoff"}
                                   THEN "receipt" ELSE "closeout"
      BY <1>1, <1>5, <2>3 DEF WriteBundle, Go
    <3>2. file'[r]["result"] = Says(r, j.status) /\ file'[r]["ledger"] = f["ledger"]
      BY <1>2, <3>1
    <3>3. Says(r, j.status).status = j.status /\ Says(r, j.status).cleanup = j.cleanup
      BY DEF Says
    <3>4. Written(pc'[r], job'[r], file'[r], index'[r])
      BY <1>3, <2>1, <3>0, <3>1, <3>2, <3>3 DEF Written
    <3> QED BY <2>1, <3>0, <3>4
  <2> QED BY <2>2, <2>3
<1>6. CASE WriteReceipt(r)
  <2>1. /\ pc[r] = "receipt" /\ index' = index /\ UNCHANGED row
        /\ \A q \in Runs : q # r => file'[q] = file[q]
    BY <1>1, <1>6 DEF WriteReceipt, Write
  <2>2. CASE Fail(r)
    <3>1. Written(pc'[r], job'[r], file'[r], index'[r])
      BY <2>2, Failing, NothingWritten
    <3> QED BY <2>1, <2>2, <3>1, Failing
  <2>3. CASE ~Fail(r)
    <3>0. job'[r] = j /\ \A q \in Runs : q # r => pc'[q] = pc[q] /\ job'[q] = job[q]
      BY <1>1, <1>6, <2>3 DEF WriteReceipt, Go
    <3>1. pc'[r] = "closeout" /\ file'[r] = [f EXCEPT !["receipt"] = Just(j.status)]
      BY <1>1, <1>6, <2>3 DEF WriteReceipt, Go, Write
    <3>2. /\ file'[r]["receipt"] = Just(j.status)
          /\ file'[r]["ledger"] = f["ledger"] /\ file'[r]["result"] = f["result"]
      BY <1>2, <3>1
    <3>3. Just(j.status) # Absent
      BY <1>2 DEF Just, Absent, Results, RunStates
    <3>4. Written(pc'[r], job'[r], file'[r], index'[r])
      BY <1>3, <2>1, <3>0, <3>1, <3>2, <3>3 DEF Written
    <3> QED BY <2>1, <3>0, <3>4
  <2> QED BY <2>2, <2>3
<1>7. CASE WriteCloseout(r)
  <2>1. /\ pc[r] = "closeout" /\ pc'[r] = "refs" /\ job'[r] = j /\ index' = index
        /\ UNCHANGED row
        /\ file'[r] = [f EXCEPT !["closeout"] = Says(r, Closeout(f["result"].status))]
        /\ \A q \in Runs : q # r => pc'[q] = pc[q] /\ job'[q] = job[q] /\ file'[q] = file[q]
    BY <1>1, <1>7 DEF WriteCloseout, Go, Write
  <2>2. /\ file'[r]["closeout"] = Says(r, Closeout(f["result"].status))
        /\ \A k \in {"ledger", "result", "receipt"} : file'[r][k] = f[k]
    BY <1>2, <2>1
  <2>3. f["result"].status = j.status
    BY <1>3, <2>1 DEF Written
  <2>4. Says(r, Closeout(j.status)).status = Closeout(j.status)
        /\ Says(r, Closeout(j.status)).cleanup = j.cleanup
    BY DEF Says
  <2>5. Written(pc'[r], job'[r], file'[r], index'[r])
    BY <1>3, <2>1, <2>2, <2>3, <2>4 DEF Written
  <2> QED BY <2>1, <2>5
<1>8. CASE WriteRefs(r)
  <2> DEFINE Filled(k) == [f[k] EXCEPT !.refs = TRUE]
  <2>1. /\ pc[r] = "refs" /\ pc'[r] = "index" /\ job'[r] = j /\ index' = index
        /\ UNCHANGED row
        /\ file'[r] = [f EXCEPT !["result"] = Filled("result"),
                                !["ledger"] = Filled("ledger")]
        /\ \A q \in Runs : q # r => pc'[q] = pc[q] /\ job'[q] = job[q] /\ file'[q] = file[q]
    BY <1>1, <1>8 DEF WriteRefs, Go
  <2>2. \A k \in Kinds : /\ Filled(k).refs /\ Filled(k).status = f[k].status
                         /\ Filled(k).cleanup = f[k].cleanup
    BY <1>2 DEF Contents
  <2> HIDE DEF Filled
  <2>3. /\ file'[r]["result"] = Filled("result") /\ file'[r]["ledger"] = Filled("ledger")
        /\ \A k \in {"closeout", "receipt"} : file'[r][k] = f[k]
    BY <1>2, <2>1
  <2>4. Written(pc'[r], job'[r], file'[r], index'[r])
    BY <1>2, <1>3, <2>1, <2>2, <2>3 DEF Written
  <2> QED BY <2>1, <2>4
<1>9. CASE RefreshIndex(r)
  <2>1. /\ pc[r] = "index" /\ pc'[r] = "row" /\ job'[r] = j /\ file' = file
        /\ UNCHANGED row /\ index'[r] = f
        /\ \A q \in Runs : q # r => pc'[q] = pc[q] /\ job'[q] = job[q] /\ index'[q] = index[q]
    BY <1>1, <1>9 DEF RefreshIndex, Go
  <2>2. Written(pc'[r], job'[r], file'[r], index'[r])
    BY <1>3, <2>1 DEF Written
  <2> QED BY <2>1, <2>2
<1> QED BY <1>4, <1>5, <1>6, <1>7, <1>8, <1>9

\* The other steps of a run, up to its ledger or past its row.
LEMMA OtherStep ==
  ASSUME TypeOK, Tasked, RunsKnown, EvidenceInv, NEW r \in Runs,
         \/ Gate(r) \/ Prepare(r) \/ AddWorktree(r) \/ Validate(r) \/ Capture(r)
         \/ Work(r) \/ Audit(r) \/ Verify(r) \/ Cleanup(r) \/ Remove(r)
         \/ AppendEvent(r) \/ CallRaises(r) \/ Crash(r)
  PROVE  EvidenceInv'
<1>1. Advances(r)
  BY ActiveSteps
<1>2. UNCHANGED <<file, index>>
  BY DEF Gate, Prepare, AddWorktree, Validate, Capture, Work, Audit, Verify,
         Cleanup, Remove, AppendEvent, CallRaises, Crash, evidence
<1>3. CASE Fail(r)
  BY <1>1, <1>2, <1>3, RaisedEvidence DEF Advances
<1>4. CASE (AppendEvent(r) \/ Crash(r)) /\ ~Fail(r)
  <2>1. pc'[r] = "over" /\ job'[r] = job[r]
    BY <1>4 DEF AppendEvent, Crash, Go, TypeOK
  <2>2. Written(pc'[r], job'[r], file'[r], index'[r])
    BY <2>1, NothingWritten
  <2>3. \A t \in Tasks : row[t].by = "run" /\ row[t].run = r =>
          Final(row'[t], job'[r], file'[r], index'[r])
    BY <1>1, <1>2, <2>1 DEF EvidenceInv, Advances
  <2> QED BY <1>1, <1>2, <2>2, <2>3, OwnEvidence DEF Advances
<1>5. CASE ~(Fail(r) \/ AppendEvent(r) \/ Crash(r))
  <2>1. /\ pc[r] \notin Ended
        /\ pc'[r] \notin {"bundle", "receipt", "closeout", "refs", "index", "row",
                          "fail_ledger", "fail_row"}
    <3> USE <1>5 DEF Go, Ended, TypeOK
    <3>1. CASE Gate(r) \/ Prepare(r)         BY <3>1 DEF Gate, Prepare
    <3>2. CASE AddWorktree(r) \/ Validate(r) BY <3>2 DEF AddWorktree, Validate
    <3>3. CASE Capture(r) \/ Work(r)         BY <3>3 DEF Capture, Work
    <3>4. CASE Audit(r) \/ CallRaises(r)     BY <3>4 DEF Audit, CallRaises
    <3>5. CASE Verify(r)                     BY <3>5 DEF Verify, Verified
    <3>6. CASE Cleanup(r) \/ Remove(r)       BY <3>6 DEF Cleanup, Remove, Cleaned
    <3> QED BY <1>5, <3>1, <3>2, <3>3, <3>4, <3>5, <3>6
  <2>2. Written(pc'[r], job'[r], file'[r], index'[r])
    BY <2>1, NothingWritten
  <2> QED BY <1>1, <1>2, <2>1, <2>2, OwnEvidence, NotYet DEF Advances
<1> QED BY <1>3, <1>4, <1>5

LEMMA EvidenceStep ==
  ASSUME TypeOK, Tasked, RunsKnown, EvidenceInv, [Next]_vars
  PROVE  EvidenceInv'
<1>1. /\ file \in [Runs -> [Kinds -> Contents]] /\ index \in [Runs -> [Kinds -> Contents]]
      /\ pc \in [Runs -> Steps] /\ job \in [Runs -> Jobs] /\ row \in [Tasks -> Rows]
  BY DEF TypeOK, Jobs, Rows
<1>2. ASSUME NEW r \in Runs, Start(r) PROVE EvidenceInv'
  <2>1. /\ pc[r] = "idle" /\ pc'[r] = "gate" /\ UNCHANGED <<file, index>>
        /\ \A q \in Runs : q # r => pc'[q] = pc[q] /\ job'[q] = job[q]
        /\ \A t \in Tasks : row'[t].by = "run" => row'[t] = row[t]
    BY <1>1, <1>2 DEF Start, Go, evidence
  <2>2. Written(pc'[r], job'[r], file'[r], index'[r])
    BY <2>1, NothingWritten
  <2> QED BY <2>1, <2>2, OwnEvidence, NotYet DEF Ended
\* The row is what the ledger, the result and the closeout have said.
<1>3. ASSUME NEW r \in Runs, WriteRow(r) PROVE EvidenceInv'
  <2>1. /\ pc[r] = "row" /\ pc'[r] = "event" /\ UNCHANGED <<file, index, job>>
        /\ \A q \in Runs : q # r => pc'[q] = pc[q]
        /\ Record(r, RowState(r), "run")
    BY <1>1, <1>3 DEF WriteRow, Go, evidence
  <2>2. TaskOf(r) \in Tasks /\ job[r] \in Jobs
    BY <1>1, <2>1 DEF Tasked
  <2>3. /\ row'[TaskOf(r)].run = r /\ row'[TaskOf(r)].cleanup = job[r].cleanup
        /\ row'[TaskOf(r)].state = Outcome(job[r].status)
        /\ \A t \in Tasks : t # TaskOf(r) => row'[t] = row[t]
    BY <1>1, <2>1, <2>2 DEF Record, RowState, Outcome
  <2>4. Written("row", job[r], file[r], index[r])
    BY <2>1 DEF EvidenceInv
  <2>5. Final(row'[TaskOf(r)], job[r], file[r], index[r])
    BY <2>2, <2>3, <2>4, WrittenFinal
  <2>6. Written(pc'[r], job'[r], file'[r], index'[r])
    BY <2>1, NothingWritten
  <2> QED BY <2>1, <2>3, <2>5, <2>6, OwnEvidence, NotYet DEF Ended
\* The handler may find the row written: its ledger is one of a run that
\* raised, and its row is not the run's any more.
<1>4. ASSUME NEW r \in Runs, Handle(r) PROVE EvidenceInv'
  <2>1. /\ UNCHANGED <<index, job>> /\ job[r].raised
        /\ \A q \in Runs : q # r => pc'[q] = pc[q] /\ file'[q] = file[q]
    BY <1>1, <1>4 DEF Handle, Go, Write, EvidenceInv, Written
  <2>2. CASE pc[r] = "fail_ledger"
    <3>1. /\ pc'[r] = "fail_row" /\ UNCHANGED row
          /\ file'[r] = [file[r] EXCEPT !["ledger"] = Says(r, "failed")]
      BY <1>1, <1>4, <2>2 DEF Handle, Go, Write
    <3>2. Written(pc'[r], job'[r], file'[r], index'[r])
      BY <2>1, <3>1, NothingWritten
    <3>3. /\ \A k \in Kinds \ {"ledger"} : file'[r][k] = file[r][k]
          /\ file'[r]["ledger"].status = "failed"
          /\ file'[r]["ledger"].cleanup = job[r].cleanup
      BY <1>1, <3>1 DEF Says, Kinds
    <3>4. ASSUME NEW t \in Tasks, row[t].by = "run", row[t].run = r
          PROVE  Final(row[t], job[r], file'[r], index[r])
      <4>1. Final(row[t], job[r], file[r], index[r])
        BY <3>4 DEF EvidenceInv
      <4> QED BY <2>1, <3>3, <4>1 DEF Final, Kinds
    <3> QED BY <2>1, <3>1, <3>2, <3>4, OwnEvidence
  <2>3. CASE pc[r] = "fail_row"
    <3>1. pc'[r] = "over" /\ Record(r, "failed", "handler") /\ UNCHANGED file
      BY <1>1, <1>4, <2>3 DEF Handle, Go
    <3>2. TaskOf(r) \in Tasks /\ row[TaskOf(r)].run = r
      BY <1>1, <2>3 DEF Tasked, RunsKnown, Active
    <3>3. \A t \in Tasks : row'[t].by = "run" => t # TaskOf(r) /\ row'[t] = row[t]
      BY <1>1, <3>1, <3>2 DEF Record
    <3>4. \A t \in Tasks : row[t].by = "run" /\ row[t].run = r => t = TaskOf(r)
      BY WorkspaceAssumption DEF RunsKnown
    <3>5. Written(pc'[r], job'[r], file'[r], index'[r])
      BY <3>1, NothingWritten
    <3> QED BY <2>1, <3>1, <3>3, <3>4, <3>5, OwnEvidence
  <2> QED BY <1>4, <2>2, <2>3 DEF Handle
\* Only files of the run that the row names change, and the row is the
\* operator's from now on.
<1>5. ASSUME NEW t \in Tasks, Dispose(t) PROVE EvidenceInv'
  <2>1. /\ row[t].run \in Runs /\ pc[row[t].run] \in Ended /\ row'[t].by = "operator"
        /\ \A u \in Tasks : u # t => row'[u] = row[u]
        /\ \A q \in Runs : q # row[t].run => file'[q] = file[q]
        /\ UNCHANGED <<pc, job, index>>
    BY <1>1, <1>5 DEF Dispose, Rows, RunsKnown
  <2>2. ASSUME NEW u \in Tasks, row'[u].by = "run"
        PROVE  Final(row'[u], job'[row'[u].run], file'[row'[u].run], index'[row'[u].run])
    <3>1. u # t /\ row'[u] = row[u]
      BY <2>1, <2>2
    <3>2. row[u].run \in Runs /\ TaskOf(row[u].run) = u
      BY <1>1, <2>2, <3>1 DEF RunsKnown, Rows
    <3>3. TaskOf(row[t].run) = t
      BY <2>1, WorkspaceAssumption DEF RunsKnown
    <3> QED BY <2>1, <2>2, <3>1, <3>2, <3>3 DEF EvidenceInv
  <2>3. ASSUME NEW q \in Runs PROVE Written(pc'[q], job'[q], file'[q], index'[q])
    <3>1. CASE q = row[t].run
      <4>1. pc[q] \in {"fail_ledger", "fail_row"} => job[q].raised
        BY DEF EvidenceInv, Written
      <4> QED BY <2>1, <3>1, <4>1, NothingWritten DEF Ended
    <3>2. CASE q # row[t].run BY <2>1, <3>2 DEF EvidenceInv
    <3> QED BY <3>1, <3>2
  <2> QED BY <2>2, <2>3 DEF EvidenceInv
<1>6. ASSUME NEW p \in Trees \cup {Root}, Stray(p) \/ Tidy(p) PROVE EvidenceInv'
  <2>1. UNCHANGED <<pc, job, row, file, index>>
    BY <1>6 DEF Stray, Tidy, evidence
  <2> QED BY <2>1 DEF EvidenceInv
<1>7. CASE UNCHANGED vars
  BY <1>7 DEF vars, EvidenceInv
<1> QED BY <1>2, <1>3, <1>4, <1>5, <1>6, <1>7, EndingStep, OtherStep DEF Next, Step

\* The evidence of a run that wrote its row agrees with the row and with its
\* index until an operator disposes of the task or the task is run again; only
\* the ledger may not, where the run raised after its row and its handler was
\* cut short.
THEOREM EvidenceAgreesHolds == Spec => []EvidenceAgrees
<1>1. Init => EvidenceInv
  <2> SUFFICES ASSUME Init PROVE EvidenceInv
    OBVIOUS
  <2>1. \A r \in Runs : pc[r] = "idle"
    BY DEF Init
  <2>2. \A t \in Tasks : row[t].by = "start"
    BY DEF Init
  <2>3. \A r \in Runs : Written(pc[r], job[r], file[r], index[r])
    BY <2>1, NothingWritten
  <2> QED BY <2>2, <2>3 DEF EvidenceInv
<1>2. TreeInv /\ EvidenceInv /\ [Next]_vars => EvidenceInv'
  BY EvidenceStep DEF TreeInv
<1>3. EvidenceInv => EvidenceAgrees
  BY DEF EvidenceInv, Final, EvidenceAgrees, Revalidates
<1> QED BY <1>1, <1>2, <1>3, TreeInvariant, PTL DEF Spec
-----------------------------------------------------------------------------
(* Rows that say running.                                                  *)

Stranded == {t \in Tasks : /\ row[t].run # NoRun /\ row[t].state = "running"
                           /\ ~Active(row[t].run)}

StrandedInv == IsFiniteSet(Stranded) /\ Cardinality(Stranded) <= faults

\* A step of a run other than its last leaves it active.
LEMMA GoesOn ==
  ASSUME TypeOK, NEW r \in Runs,
         \/ Gate(r) \/ Prepare(r) \/ AddWorktree(r) \/ Validate(r) \/ Capture(r)
         \/ Work(r) \/ Audit(r) \/ Verify(r) \/ Cleanup(r) \/ Remove(r)
         \/ WriteLedger(r) \/ WriteBundle(r) \/ WriteReceipt(r) \/ WriteCloseout(r)
         \/ WriteRefs(r) \/ RefreshIndex(r) \/ CallRaises(r)
  PROVE  pc'[r] # "over"
<1> USE DEF Go, Fail
<1>1. pc \in [Runs -> Steps]
  BY DEF TypeOK
<1>2. CASE Gate(r) \/ Prepare(r) \/ AddWorktree(r)
  BY <1>1, <1>2 DEF Gate, Prepare, AddWorktree
<1>3. CASE Validate(r) \/ Capture(r) \/ Work(r) \/ Audit(r)
  BY <1>1, <1>3 DEF Validate, Capture, Work, Audit
<1>4. CASE Verify(r) \/ Cleanup(r) \/ Remove(r)
  BY <1>1, <1>4 DEF Verify, Verified, Cleanup, Remove, Cleaned
<1>5. CASE WriteLedger(r) \/ WriteBundle(r) \/ WriteReceipt(r)
  BY <1>1, <1>5 DEF WriteLedger, WriteBundle, WriteReceipt
<1>6. CASE WriteCloseout(r) \/ WriteRefs(r) \/ RefreshIndex(r) \/ CallRaises(r)
  BY <1>1, <1>6 DEF WriteCloseout, WriteRefs, RefreshIndex, CallRaises
<1> QED BY <1>2, <1>3, <1>4, <1>5, <1>6

\* No step but a kill strands a row: a run that ends writes its row first, and
\* one whose event then cannot be recorded has written it.
LEMMA NoneStranded ==
  ASSUME TypeOK, Tasked, RunsKnown, [Next]_vars, \A r \in Runs : ~Crash(r)
  PROVE  Stranded' \subseteq Stranded
<1>1. /\ row \in [Tasks -> Rows] /\ pc \in [Runs -> Steps] /\ job \in [Runs -> Jobs]
      /\ \A t \in Tasks : row[t].run \in Runs \cup {NoRun}
      /\ \A r \in Runs : pc[r] # "idle" => TaskOf(r) \in Tasks
  BY DEF TypeOK, Rows, Jobs, Tasked
<1>2. ASSUME NEW r \in Runs, Start(r)  PROVE  Stranded' \subseteq Stranded
  <2>1. PICK t \in Tasks : /\ pc[r] = "idle" /\ Go(r, "gate")
                           /\ row' = [row EXCEPT ![t] = [run |-> r, state |-> "running",
                                cleanup |-> Declared(t), owner |-> FirstOwner(t),
                                by |-> "start"]]
    BY <1>2 DEF Start
  <2>2. /\ pc'[r] = "gate" /\ \A q \in Runs : q # r => pc'[q] = pc[q]
        /\ row'[t].run = r /\ \A u \in Tasks : u # t => row'[u] = row[u]
    BY <1>1, <2>1 DEF Go
  <2>3. \A u \in Tasks : row[u].run # NoRun => row[u].run # r
    BY <2>1 DEF RunsKnown
  <2> QED BY <1>1, <2>2, <2>3 DEF Stranded, Active
<1>3. ASSUME NEW r \in Runs, pc'[r] # "over", Advances(r)  PROVE  Stranded' \subseteq Stranded
  BY <1>1, <1>3 DEF Stranded, Active, Advances
<1>4. ASSUME NEW r \in Runs, Active(r), NEW p, Go(r, p), NEW s, NEW b, Record(r, s, b),
             s # "running"
      PROVE  Stranded' \subseteq Stranded
  <2>1. /\ TaskOf(r) \in Tasks /\ \A q \in Runs : q # r => pc'[q] = pc[q]
        /\ row'[TaskOf(r)].state # "running"
        /\ \A u \in Tasks : u # TaskOf(r) => row'[u] = row[u]
    BY <1>1, <1>4 DEF Active, Go, Record
  <2>2. \A u \in Tasks : u # TaskOf(r) => row[u].run # r \/ row[u].run = NoRun
    BY DEF RunsKnown
  <2> QED BY <1>1, <2>1, <2>2 DEF Stranded, Active
<1>5. ASSUME NEW r \in Runs, WriteRow(r)  PROVE  Stranded' \subseteq Stranded
  <2>1. RowState(r) # "running"
    BY <1>1 DEF RowState, Jobs, Results, RunStates
  <2> QED BY <1>4, <1>5, <2>1 DEF WriteRow, Active
<1>6. ASSUME NEW r \in Runs, Handle(r)  PROVE  Stranded' \subseteq Stranded
  <2>1. CASE pc[r] = "fail_ledger"
    BY <1>1, <1>6, <2>1 DEF Handle, Go, Stranded, Active
  <2>2. CASE pc[r] = "fail_row"
    BY <1>4, <1>6, <2>2 DEF Handle, Active
  <2> QED BY <1>6, <2>1, <2>2 DEF Handle
<1>7. ASSUME NEW t \in Tasks, Dispose(t)  PROVE  Stranded' \subseteq Stranded
  <2>1. PICK state \in {"completed", "resumed", "cancelled"} :
          row' = [row EXCEPT ![t] = [@ EXCEPT !.state = state, !.by = "operator"]]
    BY <1>7 DEF Dispose
  <2>2. row'[t].state = state /\ \A u \in Tasks : u # t => row'[u] = row[u]
    BY <1>1, <2>1 DEF Rows
  <2>3. UNCHANGED pc
    BY <1>7 DEF Dispose
  <2> QED BY <2>2, <2>3 DEF Stranded, Active
<1>8. CASE UNCHANGED vars \/ \E p \in Trees \cup {Root} : Stray(p) \/ Tidy(p)
  BY <1>8 DEF vars, Stray, Tidy, Stranded, Active
\* The row of a run that records its end was written before.
<1>9. ASSUME NEW r \in Runs, AppendEvent(r)  PROVE  Stranded' \subseteq Stranded
  <2>1. pc[r] = "event" /\ Active(r) /\ UNCHANGED row
        /\ \A q \in Runs : q # r => pc'[q] = pc[q]
    BY <1>1, <1>9, Failing DEF AppendEvent, Active, Go
  <2>2. row[TaskOf(r)].run = r /\ row[TaskOf(r)].state # "running"
    BY <2>1 DEF RunsKnown
  <2>3. \A t \in Tasks : row[t].run = r => t = TaskOf(r)
    BY WorkspaceAssumption DEF RunsKnown
  <2> QED BY <1>1, <2>1, <2>2, <2>3 DEF Stranded, Active
<1> QED BY <1>2, <1>3, <1>5, <1>6, <1>7, <1>8, <1>9, ActiveSteps, GoesOn DEF Next, Step

\* A row says running while its run goes on; one whose run is over is the trace
\* of a kill or of a handler that raised, one each (faults counts them and
\* strays together): whatever git, a worker, a gate, an audit, a projection that
\* exists already or any call that raises does to a run, its end is recorded.
THEOREM RunningRowsTraced ==
  Spec => [](/\ IsFiniteSet(Stranded)
             /\ Cardinality(Stranded) <= faults)
<1>1. Init => StrandedInv
  <2> SUFFICES ASSUME Init PROVE StrandedInv
    OBVIOUS
  <2>1. Stranded = {} /\ faults = 0
    BY DEF Init, Stranded
  <2>2. IsFiniteSet(Stranded) /\ Cardinality(Stranded) = 0
    BY <2>1, FS_EmptySet
  <2> QED BY <2>1, <2>2 DEF StrandedInv
<1>2. ASSUME TypeOK, TypeOK', Tasked, RunsKnown, StrandedInv, [Next]_vars
      PROVE  StrandedInv'
  <2>1. /\ faults \in Nat /\ faults' \in Nat
        /\ IsFiniteSet(Stranded) /\ Cardinality(Stranded) \in Nat
    BY <1>2, FS_CardinalityType DEF TypeOK, StrandedInv
  <2>2. faults' = faults \/ faults' = faults + 1
    <3>1. ASSUME NEW r \in Runs,
                 Start(r) \/ Gate(r) \/ Prepare(r) \/ AddWorktree(r) \/ Validate(r) \/ Capture(r)
          PROVE  UNCHANGED faults
      BY <3>1 DEF Start, Gate, Prepare, AddWorktree, Validate, Capture
    <3>2. ASSUME NEW r \in Runs,
                 Work(r) \/ Audit(r) \/ Verify(r) \/ Cleanup(r) \/ Remove(r) \/ WriteLedger(r)
          PROVE  UNCHANGED faults
      BY <3>2 DEF Work, Audit, Verify, Cleanup, Remove, WriteLedger
    <3>3. ASSUME NEW r \in Runs,
                 WriteBundle(r) \/ WriteReceipt(r) \/ WriteCloseout(r) \/ WriteRefs(r)
                   \/ RefreshIndex(r) \/ WriteRow(r) \/ AppendEvent(r) \/ CallRaises(r)
                   \/ Handle(r)
          PROVE  UNCHANGED faults
      BY <3>3 DEF WriteBundle, WriteReceipt, WriteCloseout, WriteRefs, RefreshIndex, WriteRow,
                  AppendEvent, CallRaises, Handle
    <3>4. ASSUME NEW r \in Runs, Crash(r)  PROVE  faults' = faults + 1
      BY <3>4 DEF Crash
    <3>5. ASSUME NEW t \in Tasks, Dispose(t)  PROVE  UNCHANGED faults
      BY <3>5 DEF Dispose
    <3>6. ASSUME NEW p \in Trees \cup {Root}, Stray(p) \/ Tidy(p)
          PROVE  faults' = faults \/ faults' = faults + 1
      BY <3>6 DEF Stray, Tidy
    <3>7. CASE UNCHANGED vars
      BY <3>7 DEF vars
    <3> QED BY <1>2, <3>1, <3>2, <3>3, <3>4, <3>5, <3>6, <3>7 DEF Next, Step
  <2>3. CASE \A r \in Runs : ~Crash(r)
    <3>1. Stranded' \subseteq Stranded
      BY <1>2, <2>3, NoneStranded
    <3>2. /\ IsFiniteSet(Stranded') /\ Cardinality(Stranded') \in Nat
          /\ Cardinality(Stranded') <= Cardinality(Stranded)
      BY <2>1, <3>1, FS_Subset, FS_CardinalityType
    <3> QED BY <1>2, <2>1, <2>2, <3>2 DEF StrandedInv
  <2>4. ASSUME NEW r \in Runs, Crash(r)  PROVE  StrandedInv'
    <3> DEFINE T == Stranded \cup {TaskOf(r)}
    <3>1. Stranded' \subseteq T /\ faults' = faults + 1
      BY <1>2, <2>4 DEF Crash, Go, Stranded, Active, RunsKnown, TypeOK
    <3>2. /\ IsFiniteSet(T) /\ Cardinality(T) \in Nat
          /\ Cardinality(T) \in {Cardinality(Stranded), Cardinality(Stranded) + 1}
      BY <2>1, FS_AddElement, FS_CardinalityType
    <3>3. /\ IsFiniteSet(Stranded') /\ Cardinality(Stranded') \in Nat
          /\ Cardinality(Stranded') <= Cardinality(T)
      BY <3>1, <3>2, FS_Subset, FS_CardinalityType
    <3>4. Cardinality(Stranded') <= faults'
      <4>1. \A m, k, n, f \in Nat : m <= k /\ k \in {n, n + 1} /\ n <= f => m <= f + 1
        OBVIOUS
      <4>2. Cardinality(Stranded) <= faults
        BY <1>2 DEF StrandedInv
      <4> HIDE DEF T
      <4> QED BY <2>1, <3>1, <3>2, <3>3, <4>1, <4>2
    <3> QED BY <3>3, <3>4 DEF StrandedInv
  <2> QED BY <2>3, <2>4
<1>3. TreeInv /\ TreeInv' /\ StrandedInv /\ [Next]_vars => StrandedInv'
  BY <1>2 DEF TreeInv
<1>4. StrandedInv => IsFiniteSet(Stranded) /\ Cardinality(Stranded) <= faults
  BY DEF StrandedInv
<1> QED BY <1>1, <1>3, <1>4, TreeInvariant, PTL DEF Spec
=============================================================================
