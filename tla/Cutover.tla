------------------------------ MODULE Cutover ------------------------------
(***************************************************************************)
(* The switch of the default entry point from the host-local runtime (v1)  *)
(* to runtime_v2: runtime_v2/migration.py and the commands of cli.py that  *)
(* call it, beside the task commands whose data they archive.              *)
(*                                                                         *)
(* A confirmed cutover drills, reviews, drills the rollback, validates the *)
(* operator's approval and then copies the v1 database, copies the v1 runs *)
(* and rewrites orchestrator.yaml in place; nothing locks out another      *)
(* command, and a process may be killed between any two of these steps.    *)
(* One function of the source is one step, perform_cutover one step for    *)
(* each file it touches.  Archives carry the second of their cutover in    *)
(* their name; two cutovers are taken to start in different seconds.       *)
(***************************************************************************)
EXTENDS Naturals, FiniteSets

CONSTANTS
  Commands,     \* processes of the cutover commands
  Runs,         \* processes of --run-task and --run-task-v2
  MaxCommands,  \* bound: cutover commands started
  MaxSpoils,    \* bound: fixture files lost or damaged by hand
  MaxRestores,  \* bound: times the operator goes back to v1
  MaxCrashes    \* bound: killed processes

ASSUME CutoverAssumption ==
  /\ MaxCommands \in Nat /\ MaxSpoils \in Nat
  /\ MaxRestores \in Nat /\ MaxCrashes \in Nat

VARIABLES
  config,     \* orchestrator.yaml: its active_version, "torn" when truncated
  enabled,    \* runtime.experimental_v2_enabled
  row,        \* v1 database: the row of each run
  files,      \* v1 runs root: runs whose bundle is written
  completed,  \* v2 attempts that are completed
  fixture,    \* the regression_fixture artifact of each v2 attempt
  summary,    \* the summaries below runs-v2/_cutover
  approval,   \* the operator's approval file
  archive,    \* what each cutover process archived
  pc, flow,   \* each cutover process: its next step and its command
  review,     \* the review status its rollback drill got
  job,        \* each task command: where it is
  granted,    \* an operator has approved (observed only)
  count       \* what the bounds count

vars == <<config, enabled, row, files, completed, fixture, summary, approval,
          archive, pc, flow, review, job, granted, count>>
legacy == <<row, files>>
kernel == <<completed, fixture>>
evidence == <<summary, approval, granted>>

Flows == {"drill", "cutover", "confirmed", "rollback", "template"}
Steps == {"idle", "drill", "review", "redrill", "accept", "approve",
          "archive_db", "archive_runs", "read", "truncate", "write"}
Summaries == {"drill", "review", "acceptance", "rollback", "approval", "audit",
              "template"}
RowStates == {"none", "running", "done"}

TypeOK ==
  /\ config \in {"v1", "v2", "torn"} /\ enabled \in BOOLEAN
  /\ row \in [Runs -> RowStates] /\ files \in SUBSET Runs
  /\ completed \in SUBSET Runs
  /\ fixture \in [Runs -> {"absent", "valid", "spoiled"}]
  /\ summary \in [Summaries -> {"none", "good", "blocked"}]
  /\ approval \in {"none", "template", "defective", "approved"}
  /\ archive \in [Commands -> [db: SUBSET Runs, runs: SUBSET Runs,
                               has_db: BOOLEAN, has_runs: BOOLEAN]]
  /\ pc \in [Commands -> Steps] /\ flow \in [Commands -> Flows]
  /\ review \in [Commands -> BOOLEAN]
  /\ job \in [Runs -> {"idle", "v1_load", "v1_start", "v1_work", "v1_row",
                       "v2_load", "v2_work", "v2_row", "over"}]
  /\ granted \in BOOLEAN
  /\ count \in [{"commands", "spoils", "restores", "crashes"} -> Nat]

Done == {r \in Runs : row[r] = "done"}
Empty == [db |-> {}, runs |-> {}, has_db |-> FALSE, has_runs |-> FALSE]

Init ==
  /\ config = "v1" /\ enabled \in BOOLEAN
  /\ row = [r \in Runs |-> "none"] /\ files = {}
  /\ completed = {} /\ fixture = [r \in Runs |-> "absent"]
  /\ summary = [s \in Summaries |-> "none"] /\ approval = "none"
  /\ archive = [c \in Commands |-> Empty]
  /\ pc = [c \in Commands |-> "idle"]
  /\ flow = [c \in Commands |-> "drill"]
  /\ review = [c \in Commands |-> FALSE]
  /\ job = [r \in Runs |-> "idle"]
  /\ granted = FALSE
  /\ count = [b \in {"commands", "spoils", "restores", "crashes"} |-> 0]

-----------------------------------------------------------------------------
(* What the drills decide.                                                 *)

Recorded == {r \in Runs : fixture[r] # "absent"}

\* A recorded fixture is on disk, readable, and has every field it must have.
FixtureSound(r) == fixture[r] = "valid"

\* The summary of the fixtures is ok: some are recorded and all are sound.
EvaluateFixtures == Recorded # {} /\ \A r \in Recorded : FixtureSound(r)

DrillReady ==
  enabled /\ config = "v1" /\ completed # {} /\ EvaluateFixtures

Verdict(good) == IF good THEN "good" ELSE "blocked"

\* The archive root can always be made here and the rollback plan is a
\* constant of the review, so the sources decide.
RestoreAccepted == (\E r \in Runs : row[r] # "none") /\ files # {}

-----------------------------------------------------------------------------
(* The commands.  load_runtime_config raises on a torn file, which ends    *)
(* the command.                                                            *)

Go(c, step) == pc' = [pc EXCEPT ![c] = step]

Start(c) == \E f \in Flows :
  /\ pc[c] = "idle" /\ count["commands"] < MaxCommands
  /\ archive[c] = Empty
  /\ count' = [count EXCEPT !["commands"] = @ + 1]
  /\ flow' = [flow EXCEPT ![c] = f]
  /\ Go(c, IF f = "rollback" THEN "redrill" ELSE "drill")
  /\ UNCHANGED <<config, enabled, legacy, kernel, evidence, archive, review, job>>

Abort(c) ==
  /\ pc[c] \in {"drill", "review", "redrill", "approve", "archive_db", "read"}
  /\ config = "torn"
  /\ Go(c, "idle")
  /\ UNCHANGED <<config, enabled, legacy, kernel, evidence, archive, flow,
                 review, job, count>>

\* What a command does when the drill of its first step was blocked: the
\* template command writes its summary and no template.
RunDrill(c) ==
  /\ pc[c] = "drill" /\ config # "torn"
  /\ summary' = [summary EXCEPT
       !["drill"] = Verdict(DrillReady),
       !["template"] = IF flow[c] = "template" /\ ~DrillReady
                       THEN "blocked" ELSE @]
  /\ Go(c, IF DrillReady /\ flow[c] # "drill" THEN "review" ELSE "idle")
  /\ UNCHANGED <<config, enabled, legacy, kernel, approval, granted, archive,
                 flow, review, job, count>>

\* The review of a drill that was ready; without the confirmation flag the
\* command ends with it.
RunReview(c) ==
  /\ pc[c] = "review" /\ config # "torn"
  /\ summary' = [summary EXCEPT !["review"] = "good"]
  /\ Go(c, IF flow[c] = "cutover" THEN "idle" ELSE "redrill")
  /\ UNCHANGED <<config, enabled, legacy, kernel, approval, granted, archive,
                 flow, review, job, count>>

\* The rollback drill begins with a drill and a review of its own.
RunRedrill(c) ==
  /\ pc[c] = "redrill" /\ config # "torn"
  /\ summary' = [summary EXCEPT !["drill"] = Verdict(DrillReady),
                                !["review"] = Verdict(DrillReady)]
  /\ review' = [review EXCEPT ![c] = DrillReady]
  /\ Go(c, "accept")
  /\ UNCHANGED <<config, enabled, legacy, kernel, approval, granted, archive,
                 flow, job, count>>

\* What the template command leaves once its rollback drill is over: a
\* template, which replaces the approval file whatever it says, or none.
WriteTemplate(ready) ==
  /\ summary' = [summary EXCEPT !["acceptance"] = Verdict(RestoreAccepted),
                                !["rollback"] = Verdict(ready),
                                !["template"] = Verdict(ready)]
  /\ approval' = IF ready THEN "template" ELSE approval

\* ... and ends with the acceptance of the restore sources.
RunRollbackDrill(c) ==
  LET ready == review[c] /\ RestoreAccepted
  IN /\ pc[c] = "accept"
     /\ \/ flow[c] = "template" /\ WriteTemplate(ready)
        \/ /\ flow[c] # "template"
           /\ summary' = [summary EXCEPT !["acceptance"] = Verdict(RestoreAccepted),
                                         !["rollback"] = Verdict(ready)]
           /\ UNCHANGED approval
     /\ review' = [review EXCEPT ![c] = ready]
     /\ Go(c, IF flow[c] = "confirmed" THEN "approve" ELSE "idle")
     /\ UNCHANGED <<config, enabled, legacy, kernel, granted, archive, flow, job,
                    count>>

\* The audit of the approval file as it is read: what it says of being
\* approved, and nothing when there is no file.
Audit == IF approval = "none" THEN summary["audit"]
         ELSE Verdict(approval \in {"approved", "defective"})

\* Mutant: the approved flag is not looked at.
ValidateApprovalAny(c) ==
  /\ pc[c] = "approve" /\ config # "torn"
  /\ summary' = [summary EXCEPT !["audit"] = "good", !["approval"] = "good"]
  /\ Go(c, IF review[c] THEN "archive_db" ELSE "idle")
  /\ UNCHANGED <<config, enabled, legacy, kernel, approval, granted, archive,
                 flow, review, job, count>>

\* The approval is audited as it is read, then every check must pass:
\* a sound file that says approved, and a rollback drill that was ready.
ValidateApproval(c) ==
  LET approved == approval = "approved" /\ review[c]
  IN /\ pc[c] = "approve" /\ config # "torn"
     /\ summary' = [summary EXCEPT
          !["audit"] = Audit, !["approval"] = Verdict(approved)]
     /\ Go(c, IF approved THEN "archive_db" ELSE "idle")
     /\ UNCHANGED <<config, enabled, legacy, kernel, approval, granted, archive,
                    flow, review, job, count>>

\* Mutant: the runs are archived before the database.
ArchiveRunsFirst(c) ==
  /\ \/ /\ pc[c] = "archive_db" /\ config # "torn" /\ Go(c, "archive_runs")
        /\ archive' = [archive EXCEPT ![c].runs = files, ![c].has_runs = TRUE]
     \/ /\ pc[c] = "archive_runs" /\ Go(c, "read")
        /\ archive' = [archive EXCEPT ![c].db = Done, ![c].has_db = TRUE]
  /\ UNCHANGED <<config, enabled, legacy, kernel, evidence, flow, review, job,
                 count>>

\* perform_cutover checks nothing again: it archives what v1 holds by now,
\* the database and then the runs.
ArchiveLegacy(c) ==
  /\ \/ /\ pc[c] = "archive_db" /\ config # "torn" /\ Go(c, "archive_runs")
        /\ archive' = [archive EXCEPT ![c].db = Done, ![c].has_db = TRUE]
     \/ /\ pc[c] = "archive_runs" /\ Go(c, "read")
        /\ archive' = [archive EXCEPT ![c].runs = files, ![c].has_runs = TRUE]
  /\ UNCHANGED <<config, enabled, legacy, kernel, evidence, flow, review, job,
                 count>>

\* orchestrator.yaml is read, opened for writing, which empties it, and
\* written.
RewriteConfig(c) ==
  /\ \/ pc[c] = "read" /\ config # "torn" /\ Go(c, "truncate") /\ UNCHANGED config
     \/ pc[c] = "truncate" /\ Go(c, "write") /\ config' = "torn"
     \/ pc[c] = "write" /\ Go(c, "idle") /\ config' = "v2"
  /\ UNCHANGED <<enabled, legacy, kernel, evidence, archive, flow, review, job,
                 count>>

-----------------------------------------------------------------------------
(* The task commands.                                                      *)

Job(r, next) == job' = [job EXCEPT ![r] = next]

\* main() routes --run-task by active_version, and to v1 when the
\* configuration cannot be loaded; --run-task-v2 always goes to v2.
Route(r) ==
  /\ job[r] = "idle"
  /\ \/ Job(r, IF config = "v2" THEN "v2_load" ELSE "v1_load")
     \/ Job(r, "v2_load")
  /\ UNCHANGED <<config, enabled, legacy, kernel, evidence, archive, pc, flow,
                 review, count>>

\* Either runner loads the configuration again, which ends the command when
\* the file is torn or, for v2, when v2 is not enabled.
Load(r) ==
  /\ job[r] \in {"v1_load", "v2_load"}
  /\ Job(r, CASE config = "torn" -> "over"
              [] job[r] = "v1_load" -> "v1_start"
              [] job[r] = "v2_load" /\ enabled -> "v2_work"
              [] OTHER -> "over")
  /\ UNCHANGED <<config, enabled, legacy, kernel, evidence, archive, pc, flow,
                 review, count>>

\* A v1 run: its row, its bundle, its row again (HostLocal has the rest).
RunLegacy(r) ==
  /\ \/ /\ job[r] = "v1_start" /\ Job(r, "v1_work")
        /\ row' = [row EXCEPT ![r] = "running"] /\ UNCHANGED files
     \/ /\ job[r] = "v1_work" /\ Job(r, "v1_row")
        /\ files' = files \cup {r} /\ UNCHANGED row
     \/ /\ job[r] = "v1_row" /\ Job(r, "over")
        /\ row' = [row EXCEPT ![r] = "done"] /\ UNCHANGED files
  /\ UNCHANGED <<config, enabled, kernel, evidence, archive, pc, flow, review,
                 count>>

\* A v2 run: its fixture is recorded whether or not it completes
\* (RuntimeV2 has the rest).
RunKernel(r) ==
  /\ \/ /\ job[r] = "v2_work" /\ Job(r, "v2_row")
        /\ fixture' = [fixture EXCEPT ![r] = "valid"] /\ UNCHANGED completed
     \/ /\ job[r] = "v2_row" /\ Job(r, "over")
        /\ completed' \in {completed, completed \cup {r}} /\ UNCHANGED fixture
  /\ UNCHANGED <<config, enabled, legacy, evidence, archive, pc, flow, review,
                 count>>

-----------------------------------------------------------------------------
(* The operator and the machine.                                           *)

\* The runbook's section 4: the operator fills in the template; a timestamp
\* not in UTC or a risk left out makes the file defective.
Approve ==
  /\ approval = "template"
  /\ approval' \in {"approved", "defective"}
  /\ granted' = TRUE
  /\ UNCHANGED <<config, enabled, legacy, kernel, summary, archive, pc, flow,
                 review, job, count>>

\* A fixture file is deleted or damaged.
Spoil(r) ==
  /\ fixture[r] = "valid" /\ count["spoils"] < MaxSpoils
  /\ fixture' = [fixture EXCEPT ![r] = "spoiled"]
  /\ count' = [count EXCEPT !["spoils"] = @ + 1]
  /\ UNCHANGED <<config, enabled, legacy, completed, evidence, archive, pc, flow,
                 review, job>>

\* The runbook's section 6, from a finished archive and with nothing running.
Restore(c) ==
  /\ config # "v1" /\ count["restores"] < MaxRestores
  /\ archive[c].has_db /\ archive[c].has_runs
  /\ \A d \in Commands : pc[d] = "idle"
  /\ \A r \in Runs : job[r] \in {"idle", "over"}
  /\ config' = "v1"
  /\ row' = [r \in Runs |-> IF r \in archive[c].db THEN "done" ELSE "none"]
  /\ files' = archive[c].runs
  /\ count' = [count EXCEPT !["restores"] = @ + 1]
  /\ UNCHANGED <<enabled, kernel, evidence, archive, pc, flow, review, job>>

\* A process is killed; what it wrote stays.
Crash ==
  /\ count["crashes"] < MaxCrashes
  /\ count' = [count EXCEPT !["crashes"] = @ + 1]
  /\ \/ \E c \in Commands : pc[c] # "idle" /\ Go(c, "idle") /\ UNCHANGED job
     \/ \E r \in Runs : job[r] \notin {"idle", "over"} /\ Job(r, "over")
                        /\ UNCHANGED pc
  /\ UNCHANGED <<config, enabled, legacy, kernel, evidence, archive, flow, review>>

Command(c) ==
  \/ Start(c) \/ Abort(c) \/ RunDrill(c) \/ RunReview(c) \/ RunRedrill(c)
  \/ RunRollbackDrill(c) \/ ValidateApproval(c) \/ ArchiveLegacy(c)
  \/ RewriteConfig(c)

Next ==
  \/ \E c \in Commands : Command(c) \/ Restore(c)
  \/ \E r \in Runs : Route(r) \/ Load(r) \/ RunLegacy(r) \/ RunKernel(r) \/ Spoil(r)
  \/ Approve \/ Crash

Spec == Init /\ [][Next]_vars

-----------------------------------------------------------------------------
(* Properties.                                                             *)

Whole(c) == archive[c].has_db /\ archive[c].has_runs

\* Once the configuration is no longer the one of v1, switched or torn by a
\* killed cutover, an operator has approved, the evidence that
\* runtime-v2-kernel.md asks a switch to keep is on disk, and some cutover
\* has archived both the database and the runs: a switch can be undone.
SwitchBacked ==
  config # "v1" =>
    /\ granted
    /\ \A s \in {"drill", "review", "acceptance", "rollback", "approval", "audit"} :
         summary[s] # "none"
    /\ \E c \in Commands : Whole(c)

\* A v1 run that the database of an archive says is over has its bundle in
\* the runs of that archive, although v1 runs go on while the two are copied
\* one after the other; and so has the live database, also after a restore.
ArchiveRestores ==
  /\ \A c \in Commands : Whole(c) => archive[c].db \subseteq archive[c].runs
  /\ Done \subseteq files
=============================================================================
