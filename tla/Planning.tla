----------------------------- MODULE Planning -----------------------------
(***************************************************************************)
(* The planning control plane: the files that say how far the project is   *)
(* (planning status, normative inventory, machine plan, selector policy,   *)
(* the normative artifacts themselves), the planning verifier that reads   *)
(* them one after the other (scripts/verify-planning-status.py) and the    *)
(* selector that runs it and names the next work item                      *)
(* (scripts/select-next-work.py), while people and agents go on writing.   *)
(*                                                                         *)
(* A file is its content: two files have one SHA-256 exactly when they are *)
(* equal.  The bytes of an artifact, an archive or a document are a        *)
(* version: the reviewed one, an edited one, or none.                      *)
(***************************************************************************)
EXTENDS Naturals, Sequences, FiniteSets, Lists

CONSTANTS
  TaskOrder,     \* the work items in the order of the machine plan
  NoTask,
  Artifacts,     \* the required artifacts in closure order
  Producer,      \* artifact -> the work item that produces it
  Contracts,     \* the artifacts a component verifier re-checks
  Lineage,       \* the entries of the lineage artifact: [id, role]
  Sourced,       \* the archives recovered from a transcript
  Docs,          \* the documents with required strings
  DocCap,        \* the complexity budget: authoritative documents
  Sources,       \* the paths of the new runtime's source tree
  Approved,      \* ... of which the layout approves these
  Owner,         \* required source path -> the work item that owns it
  Projections,   \* projection -> [produces, implements, accepts]: tasks
  RebaseTask,    \* LAR-P0A-REBASELINE-V325
  CloseTask,     \* LAR-P0A-013
  ReviewSets,    \* the missing artifacts of the baseline review
  Planes,        \* the control planes of the plan's closeouts, in order
  MaxWrites,     \* bound: files rewritten as in a neighbouring closeout
  MaxSlips       \* bound: single slips of an editor

ASSUME PlanningAssumption ==
  /\ TaskOrder \in Seq(STRING) /\ Artifacts \in Seq(STRING)
  /\ MaxWrites \in Nat /\ MaxSlips \in Nat
  /\ CloseTask # RebaseTask

Members(s) == {s[i] : i \in DOMAIN s}
Tasks == Members(TaskOrder)
Kinds == Members(Artifacts)
Archives == {e.id : e \in {x \in Members(Lineage) :
                             x.role = "superseded_candidate"}}
Position(s, x) == CHOOSE i \in DOMAIN s : s[i] = x

Absent == 0
Reviewed == 1
Edited == 2
Versions == {Absent, Reviewed, Edited}
\* The stable entry that navigates to the candidate names its version; the
\* record says which transcripts the recovered archives were taken from.
Entry == "entry"
Record == "HistoricalSourceArchive"
Approval == "BaselineApprovalRecord"
Evidence == "current_evidence_ref"
Kernel == "current_kernel"
FileNames == Kinds \cup Archives \cup Sourced \cup Docs
             \cup {Entry, Record, Approval, Evidence, Kernel}
NoRecord == "none"
ClosureQueue == "LOCAL-AI-RUNTIME-0.2-BASELINE-CLOSURE"

\* The stages in the order in which the selector asks for them, and the work
\* it selects while a stage is open; "admitted" is set together with full_q0.
Stages == <<
  [flag |-> "approved", action |-> "record_baseline_approval_first"],
  [flag |-> "truth_reset", action |-> "implement_truth_reset_first"],
  [flag |-> "guard", action |-> "implement_legacy_guard_first"],
  [flag |-> "code_complete", action |-> "implement_local_ai_runtime_first"],
  [flag |-> "accepted", action |-> "run_implementation_acceptance_first"],
  [flag |-> "full_q0", action |-> "run_full_q0_first"],
  [flag |-> "admitted", action |-> "repair_gate_first"],
  [flag |-> "pilot", action |-> "run_single_p2_pilot_first"],
  [flag |-> "scheduled", action |-> "run_five_scheduled_self_host_first"],
  [flag |-> "cohort", action |-> "run_30_task_cohort_first"],
  [flag |-> "cutover", action |-> "cut_over_repositories_first"],
  [flag |-> "retired", action |-> "cut_over_repositories_first"] >>
Flags == {Stages[i].flag : i \in DOMAIN Stages}
         \cup {"permitted", "started", "created", "b3", "new_claims"}
ClosureActions == {"create_successor_candidate_first",
                   "close_baseline_normative_package_first",
                   "run_baseline_consistency_review"}
Actions == {Stages[i].action : i \in DOMAIN Stages} \cup ClosureActions
           \cup {"operate_approved_runtime"}

TaskStates == {"completed", "ready", "pending", "blocked", "in_progress",
               "cancelled", "superseded"}
ArtifactStates == {"missing", "in_progress", "present"}
Policies == {"reviewed", "renewed", "altered", "expired"}

VARIABLES
  status,      \* docs/architecture/planning-status.json
  inventory,   \* the normative package inventory
  files,       \* the version of each artifact, archive and document
  plan,        \* the machine work items
  policy,      \* the selector policy
  tree,        \* the source paths of the new package that exist
  pc,          \* where the selection is
  mem,         \* what the selector and its verifier have read
  result,      \* what the selector answered
  edits        \* bookkeeping of the bounds

disk == <<status, inventory, files, plan, policy, tree>>
vars == <<disk, pc, mem, result, edits>>

-----------------------------------------------------------------------------
(* What the verifier asks of the files it has read.                         *)

\* The artifacts that are not present, in closure order.
NotPresent(inv) == Keep(Artifacts, {a \in Kinds : inv.row[a] # "present"})

\* _verify_baseline, _verify_baseline_entry: the candidate has the bytes the
\* status pins, and the stable entry (which is not normative) names them.
CandidateHolds(s, f) ==
  /\ s.candidate # Absent
  /\ f["SOURCE"] = s.candidate
  /\ s.entry = s.candidate
  /\ f[Entry] = s.candidate

\* _verify_successor_transition: done, and not the selected work any more.
SuccessorHolds(s, f) ==
  /\ s.successor = "completed"
  /\ s.task # RebaseTask
  /\ \A x \in Archives : f[x] # Absent

\* _project_inventory_lineage: the inventory's view of the lineage, by role.
Project(entries) ==
  [r \in {e.role : e \in Members(entries)} |->
     SelectSeq(entries, LAMBDA e : e.role = r)]

\* _verify_historical_source_record: where there is a record, it and the
\* archives recovered from it are the frozen ones.
RecordHolds(f) ==
  f[Record] # Absent =>
    f[Record] = Reviewed /\ \A x \in Sourced : f[x] = Reviewed

\* _verify_lineage_archives: every archive has the bytes it was frozen with.
ArchivesKept(f) == (\A x \in Archives : f[x] = Reviewed) /\ RecordHolds(f)

\* _verify_current_lineage: the frozen lineage, its exact projection, and one
\* predecessor.
LineageHolds(inv, f) ==
  /\ inv.row["LINEAGE"] = "present" /\ inv.pin["LINEAGE"] = Reviewed
  /\ f["LINEAGE"] = Reviewed
  /\ inv.lineage = Project(Lineage)
  /\ Len(Project(Lineage)["canonical_predecessor"]) = 1

\* One row of the inventory against the artifact on disk.
RowHolds(inv, f, a) ==
  \/ inv.row[a] = "present" /\ f[a] # Absent /\ f[a] = inv.pin[a]
  \/ inv.row[a] = "missing" /\ f[a] = Absent
  \/ inv.row[a] = "in_progress" /\ f[a] # Absent

\* Mutant: the inventory is only held against itself and the status: neither
\* are its present rows held against the artifacts, nor what it claims of the
\* package against its rows and the verdict of the standalone verifier.
InventoryHoldsUnverified(s, inv, f, standalone) ==
  /\ \A a \in Kinds : inv.row[a] = "missing" => f[a] = Absent
  /\ inv.missing = NotPresent(inv)
  /\ s.missing = inv.missing
  /\ s.package = inv.package /\ s.eligible = inv.eligible

\* _verify_inventory: the rows, the closed list of what is missing, and a
\* package that is complete only with every artifact, eligible only when the
\* standalone verifier (run only then) passes it, and approved only after.
InventoryHolds(s, inv, f, standalone) ==
  /\ \A a \in Kinds : RowHolds(inv, f, a)
  /\ inv.row["SOURCE"] = "present" /\ inv.pin["SOURCE"] = s.candidate
  /\ LET missing == NotPresent(inv)
     IN  /\ inv.missing = missing /\ s.missing = missing
         /\ inv.package = (IF missing = <<>> THEN "complete" ELSE "incomplete")
         /\ s.package = inv.package
         /\ inv.eligible = (missing = <<>> /\ standalone)
         /\ s.eligible = inv.eligible
         /\ missing # <<>> => inv.record = NoRecord

\* _verify_standalone_package: of a package without a missing artifact, the
\* verifier that is on disk by now is run, whatever its bytes are, and says what
\* it says; it may also time out, or not start.
StandaloneMay(m, f) ==
  /\ NotPresent(m.inventory) = <<>>
  /\ m.seen["VERIFIER"] # Absent /\ f["VERIFIER"] # Absent

\* The head of the plan: its baseline, verification profiles, gate order and
\* source layout are the frozen ones.
HeaderHolds(p) == p.header = Reviewed

\* The work items, as many as the status counts: each complete, in a state of
\* the catalogue, and in the phase its name says.
ItemsHold(s, p) ==
  /\ s.items = Len(TaskOrder)
  /\ p.malformed = {} /\ \A t \in Tasks : p.state[t] \in TaskStates

\* The optimization policy is frozen, no hard cap is exceeded, and the status
\* claims no change of frozen semantics.
OptimizationHolds(s, p) ==
  /\ p.optimization = Reviewed
  /\ Cardinality(s.docs) <= DocCap
  /\ ~s.semantics_changed

\* The edges of the graph: known tasks, dependencies first in the file, and
\* each edge declared at both of its ends.
EdgesHold(p) ==
  \A t \in Tasks :
    /\ p.deps[t] \cup p.next[t] \subseteq Tasks
    /\ \A d \in p.deps[t] : Position(TaskOrder, d) < Position(TaskOrder, t)
    /\ \A d \in p.deps[t] : t \in p.next[d]
    /\ \A n \in p.next[t] : t \in p.deps[n]

\* What a breadth-first walk along next_task_ids reaches from a set of tasks.
Walk(p, from) ==
  LET step[n \in 0..Cardinality(Tasks)] ==
        IF n = 0 THEN from
        ELSE step[n - 1] \cup UNION {p.next[t] : t \in step[n - 1]}
  IN  step[Cardinality(Tasks)]

\* _verify_graph_policy: one root, from which every work item is reached.  With
\* dependencies first in the file, _verify_acyclic_dependencies finds no cycle.
GraphHolds(p) ==
  /\ EdgesHold(p)
  /\ p.deps[RebaseTask] = {}
  /\ Walk(p, {RebaseTask}) = Tasks

Selectable(p) ==
  {t \in Tasks : /\ p.state[t] = "ready"
                 /\ \A d \in p.deps[t] : p.state[d] = "completed"}

\* Exactly the current work item may be selected, and the status agrees.
CurrentHolds(s, p) ==
  /\ Selectable(p) = {s.task}
  /\ s.task_state = p.state[s.task]

\* _verify_contract_projection_policy: a producer of the P0A phase, a
\* consumer, roles that do not overlap, and each task declares its own.
ProjectionsHold(p) ==
  /\ \A x \in DOMAIN Projections :
       LET r == Projections[x]
       IN  /\ r.implements \cup r.accepts # {}
           /\ r.produces \notin r.implements \cup r.accepts
           /\ r.implements \cap r.accepts = {}
  /\ \A t \in Tasks :
       p.roles[t] =
         [produces |-> {x \in DOMAIN Projections : Projections[x].produces = t},
          implements |-> {x \in DOMAIN Projections :
                            t \in Projections[x].implements},
          accepts |-> {x \in DOMAIN Projections : t \in Projections[x].accepts}]

\* Every source path has one owner, a required one the owner meant for it.
OwnersHold(p) ==
  /\ \A x \in Sources : Cardinality({t \in Tasks : x \in p.owns[t]}) <= 1
  /\ \A x \in DOMAIN Owner : {t \in Tasks : x \in p.owns[t]} = {Owner[x]}

\* Only approved paths are planned or exist (_verify_runtime_source_tree).
SourcesHold(p, tr) ==
  /\ OwnersHold(p)
  /\ UNION {p.owns[t] : t \in Tasks} \subseteq Approved
  /\ tr \subseteq Approved

\* Mutant: a task may lead to the first missing artifact by any edge at all.
LinksHoldAnyhow(s, inv, p) ==
  \A a \in Kinds : inv.row[a] = "missing" => Producer[a] \in Tasks

\* _verify_inventory_task_links: the current work item produces, or leads to
\* the producer of, the first missing artifact.
LinksHold(s, inv, p) ==
  LET missing == Keep(Artifacts, {a \in Kinds : inv.row[a] = "missing"})
  IN  missing # <<>> => Producer[missing[1]] \in Walk(p, {s.task})

\* _verify_completed_normative_components: what a completed producer left is
\* accepted by its component verifier, with the inventory's identity.
ComponentsHold(inv, p, f) ==
  \A a \in Contracts : p.state[Producer[a]] = "completed" =>
    /\ inv.row[a] = "present"
    /\ f[a] = Reviewed /\ inv.pin[a] = f[a]

\* _verify_authoritative_docs: each exists with its required strings.
DocsHold(docs, f) == docs # {} /\ \A d \in docs : f[d] = Reviewed

\* What the status refers to last: its documents and its current evidence.
RefsHold(s, f) == DocsHold(s.docs, f) /\ f[Evidence] # Absent

\* The policy is the reviewed catalogue, and names the review in its phase.
ReviewPhase(s) == s.task = CloseTask /\ s.missing \in ReviewSets
PolicyHolds(s, pol, f) ==
  /\ pol # "altered"
  /\ (s.action = "run_baseline_consistency_review") = ReviewPhase(s)
  /\ DocsHold(Docs, f)

\* An active approval has its record and is not revoked; before the first one
\* there is neither a record nor a revocation.
ApprovalHolds(s, f) ==
  /\ s.flag["approved"] =>
       /\ s.eligible
       /\ s.record # NoRecord /\ f[s.record] # Absent
       /\ s.generation >= 1 /\ s.revocation = NoRecord
  /\ (~s.flag["approved"] /\ s.generation = 0) =>
       s.record = NoRecord /\ s.revocation = NoRecord

\* Mutant: the third stage of the rollout does not ask for the second.
StagesHoldLoose(s, tr, f) ==
  LET has(x) == s.flag[x]
  IN  /\ ApprovalHolds(s, f)
      /\ has("truth_reset") => has("approved")
      /\ has("permitted") = has("approved")
      /\ has("started") => has("truth_reset") /\ has("guard")
      /\ has("created") = has("started")
      /\ has("code_complete") => has("started")
      /\ has("accepted") => has("code_complete")
      /\ has("full_q0") => has("accepted")
      /\ has("admitted") = has("full_q0")
      /\ has("pilot") \/ has("scheduled") => has("admitted")
      /\ has("cohort") => has("scheduled")
      /\ has("cutover") => has("cohort")
      /\ has("retired") => has("cutover")
      /\ s.new_package = (tr # {})
      /\ f[Kernel] # Absent

\* _verify_approval_and_stages: no stage without the one before it, and the
\* package and the kernel on disk are as declared.
StagesHold(s, tr, f) ==
  LET has(x) == s.flag[x]
  IN  /\ ApprovalHolds(s, f)
      /\ has("truth_reset") => has("approved")
      /\ has("permitted") = has("approved")
      /\ has("started") => has("truth_reset") /\ has("guard")
      /\ has("created") = has("started")
      /\ has("code_complete") => has("started")
      /\ has("accepted") => has("code_complete")
      /\ has("full_q0") => has("accepted")
      /\ has("admitted") = has("full_q0")
      /\ has("pilot") => has("admitted")
      /\ has("scheduled") => has("pilot")
      /\ has("cohort") => has("scheduled")
      /\ ~has("b3")
      /\ has("cutover") => has("cohort")
      /\ has("retired") => has("cutover")
      /\ has("new_claims") => has("guard")
      /\ s.new_package = (tr # {})
      /\ f[Kernel] # Absent
      /\ s.package = "incomplete" =>
           s.queue = ClosureQueue /\ s.action \in ClosureActions

-----------------------------------------------------------------------------
(* The selector.                                                            *)

\* The first open stage of a status; beyond the last one there is none.
OpenStages(s) == {i \in DOMAIN Stages : ~s.flag[Stages[i].flag]}

\* select_next_work, the first matching condition: what a status calls for.
Choice(s) ==
  IF s.semantics_changed \/ s.successor # "completed"
    THEN "create_successor_candidate_first"
  ELSE IF s.package # "complete" \/ ~s.eligible
    THEN IF (s.task = CloseTask) # (s.missing \in ReviewSets)
           THEN "repair_gate_first"
         ELSE IF s.task = CloseTask THEN "run_baseline_consistency_review"
         ELSE "close_baseline_normative_package_first"
  ELSE IF OpenStages(s) = {} THEN "operate_approved_runtime"
  ELSE Stages[CHOOSE i \in OpenStages(s) :
                \A j \in OpenStages(s) : i <= j].action

Nothing == [policy |-> "none", status |-> <<>>, inventory |-> <<>>,
            plan |-> <<>>, seen |-> <<>>, standalone |-> FALSE,
            attested |-> "none", sound |-> TRUE]
Repair == [action |-> "repair_gate_first", task |-> NoTask]
NoResult == [action |-> "none", task |-> NoTask]

Answer(r) == result' = r /\ pc' = "done"
Read(next, m) == mem' = m /\ pc' = next /\ UNCHANGED result
Observe == UNCHANGED <<disk, edits>>

\* _validate_policy and _inspect_required_refs, before anything is verified.
LoadPolicy ==
  /\ pc = "start"
  /\ IF policy \in {"altered", "expired"} \/ ~DocsHold(Docs, files)
       THEN Answer(Repair) /\ UNCHANGED mem
       ELSE Read("status", [mem EXCEPT !.policy = policy])
  /\ Observe

\* The verifier reads the status once; everything else is held against it.
ReadStatus ==
  /\ pc = "status"
  /\ Read("candidate", [mem EXCEPT !.status = status])
  /\ Observe

CheckCandidate ==
  /\ pc = "candidate"
  /\ Read("inventory",
          [mem EXCEPT !.sound = /\ CandidateHolds(mem.status, files)
                                /\ SuccessorHolds(mem.status, files)])
  /\ Observe

\* _verify_inventory begins with the archives ...
ReadInventory ==
  /\ pc = "inventory"
  /\ Read("archives", [mem EXCEPT !.inventory = inventory])
  /\ Observe

CheckArchives ==
  /\ pc = "archives"
  /\ Read("artifacts", [mem EXCEPT !.sound = @ /\ ArchivesKept(files)])
  /\ Observe

\* ... reads the artifacts one after the other, in closure order ...
Unread == Keep(Artifacts, Kinds \ DOMAIN mem.seen)
ReadArtifact ==
  /\ pc = "artifacts" /\ Unread # <<>>
  /\ LET seen == [a \in DOMAIN mem.seen \cup {Unread[1]} |->
                    IF a \in DOMAIN mem.seen THEN mem.seen[a] ELSE files[a]]
     IN  Read("artifacts", [mem EXCEPT !.seen = seen])
  /\ Observe

\* ... and runs the standalone verifier over a package that has them all.
CheckPackage ==
  /\ pc = "artifacts" /\ Unread = <<>>
  /\ \E pass \in IF StandaloneMay(mem, files) THEN BOOLEAN ELSE {FALSE} :
       Read("lineage",
            [mem EXCEPT !.standalone = pass,
                        !.sound = @ /\ InventoryHolds(mem.status, mem.inventory,
                                                      mem.seen, pass)])
  /\ Observe

CheckLineage ==
  /\ pc = "lineage"
  /\ Read("plan", [mem EXCEPT !.sound = @ /\ LineageHolds(mem.inventory, files)])
  /\ Observe

ReadPlan ==
  /\ pc = "plan"
  /\ Read("components",
          [mem EXCEPT
             !.plan = plan,
             !.sound = /\ @
                       /\ HeaderHolds(plan) /\ ItemsHold(mem.status, plan)
                       /\ OptimizationHolds(mem.status, plan)
                       /\ GraphHolds(plan)
                       /\ CurrentHolds(mem.status, plan)
                       /\ ProjectionsHold(plan)
                       /\ SourcesHold(plan, tree)
                       /\ LinksHold(mem.status, mem.inventory, plan)])
  /\ Observe

RunComponents ==
  /\ pc = "components"
  /\ Read("attest",
          [mem EXCEPT !.sound = @ /\ ComponentsHold(mem.inventory, mem.plan,
                                                    files)])
  /\ Observe

\* Mutant: the approved layout is taken for the package on disk.
AttestLayout ==
  /\ pc = "attest"
  /\ LET sound == /\ mem.sound
                  /\ PolicyHolds(mem.status, policy, files)
                  /\ StagesHold(mem.status, Approved, files)
                  /\ RefsHold(mem.status, files)
     IN  IF sound
           THEN Read("reload", [mem EXCEPT !.attested = policy])
           ELSE Answer(Repair) /\ mem' = [mem EXCEPT !.attested = "rejected",
                                                    !.sound = FALSE]
  /\ Observe

\* The verifier's last reads.  It prints the identities of the status and the
\* policy it judged; with any failure it exits 1 and the selector repairs.
Attest ==
  /\ pc = "attest"
  /\ LET sound == /\ mem.sound
                  /\ PolicyHolds(mem.status, policy, files)
                  /\ StagesHold(mem.status, tree, files)
                  /\ RefsHold(mem.status, files)
     IN  IF sound
           THEN Read("reload", [mem EXCEPT !.attested = policy])
           ELSE Answer(Repair) /\ mem' = [mem EXCEPT !.attested = "rejected",
                                                    !.sound = FALSE]
  /\ Observe

\* The selector reads the policy again ...
ReloadPolicy ==
  /\ pc = "reload"
  /\ IF policy # mem.policy \/ policy # mem.attested
       THEN Answer(Repair) /\ UNCHANGED mem
       ELSE Read("decide", mem)
  /\ Observe

\* Mutant: the status is not held against the one the verifier judged.
DecideUnattested ==
  /\ pc = "decide"
  /\ Answer([action |-> Choice(status), task |-> status.task])
  /\ UNCHANGED mem
  /\ Observe

\* ... and then the status, which must be the one the verifier judged (so that
\* what else the verifier printed of it cannot differ).
Decide ==
  /\ pc = "decide"
  /\ IF status # mem.status
       THEN Answer(Repair)
       ELSE Answer([action |-> Choice(status), task |-> status.task])
  /\ UNCHANGED mem
  /\ Observe

\* The verifier's process runs out of its 60 seconds, or prints no object.
VerifierFails ==
  /\ pc \in {"status", "candidate", "inventory", "archives", "artifacts",
             "lineage", "plan", "components", "attest"}
  /\ Answer(Repair)
  /\ UNCHANGED mem
  /\ Observe

Select == \/ LoadPolicy \/ ReadStatus \/ CheckCandidate \/ ReadInventory
          \/ CheckArchives \/ ReadArtifact \/ CheckPackage \/ CheckLineage
          \/ ReadPlan \/ RunComponents \/ Attest
          \/ ReloadPolicy \/ Decide \/ VerifierFails

-----------------------------------------------------------------------------
(* The writers of the control plane, while a selection runs: a closeout (or *)
(* its revert) rewrites the files one at a time, and an editor slips.       *)

Write(s, i, f, p, tr) ==
  status' = s /\ inventory' = i /\ files' = f /\ plan' = p /\ tree' = tr

Rewrite ==
  /\ edits.writes < MaxWrites
  /\ \E k \in {edits.plane - 1, edits.plane + 1} \cap DOMAIN Planes :
       \/ Write(Planes[k].status, inventory, files, plan, tree)
       \/ Write(status, Planes[k].inventory, files, plan, tree)
       \/ Write(status, inventory, Planes[k].files, plan, tree)
       \/ Write(status, inventory, files, Planes[k].plan, tree)
       \/ Write(status, inventory, files, plan, Planes[k].tree)
  /\ edits' = [edits EXCEPT !.writes = @ + 1]
  /\ UNCHANGED <<policy, pc, mem, result>>

StatusSlips ==
  {[status EXCEPT !.flag[x] = ~@] : x \in Flags}
  \cup {[status EXCEPT !.task = t] : t \in Tasks}
  \cup {[status EXCEPT !.action = a] : a \in Actions}
  \cup {[status EXCEPT !.semantics_changed = ~@],
        [status EXCEPT !.items = @ + 1], [status EXCEPT !.docs = Docs],
        [status EXCEPT !.docs = {}],
        [status EXCEPT !.eligible = ~@], [status EXCEPT !.candidate = Edited],
        [status EXCEPT !.generation = 1 - @], [status EXCEPT !.queue = "other"],
        [status EXCEPT !.record = Approval], [status EXCEPT !.record = NoRecord],
        [status EXCEPT !.revocation = Record],
        [status EXCEPT !.missing = NotPresent(inventory)]}
InventorySlips ==
  {[inventory EXCEPT !.row[a] = x] : a \in Kinds, x \in ArtifactStates}
  \cup {[inventory EXCEPT !.row[a] = "present", !.pin[a] = files[a]] :
          a \in Kinds}
  \cup {[inventory EXCEPT !.lineage = Project(Tail(Lineage))],
        [inventory EXCEPT !.missing = NotPresent(inventory)],
        [inventory EXCEPT !.record = Approval],
        [inventory EXCEPT !.package = "complete", !.eligible = TRUE]}
FileSlips == {[files EXCEPT ![x] = v] : x \in FileNames, v \in Versions}
PlanSlips ==
  {[plan EXCEPT !.state[t] = x] :
      t \in Tasks, x \in {"completed", "ready", "superseded", "unheard"}}
  \cup {[plan EXCEPT !.malformed = {t}] : t \in Tasks}
  \cup {[plan EXCEPT !.header = Edited], [plan EXCEPT !.optimization = Edited]}
  \cup {[plan EXCEPT !.deps[t] = @ \ {d}] : t \in Tasks, d \in Tasks}
  \cup {[plan EXCEPT !.next[t] = @ \cup {n}] :
          t \in Tasks, n \in {RebaseTask, CloseTask}}
  \cup {[plan EXCEPT !.owns[t] = @ \cup {x}] : t \in Tasks, x \in Sources}
  \cup {[plan EXCEPT !.owns[t] = {}] : t \in Tasks}
  \cup {[plan EXCEPT !.roles[t].accepts = {}] : t \in Tasks}

Slip ==
  /\ edits.slips < MaxSlips
  /\ \/ \E s \in StatusSlips \ {status} :
          Write(s, inventory, files, plan, tree) /\ UNCHANGED policy
     \/ \E i \in InventorySlips \ {inventory} :
          Write(status, i, files, plan, tree) /\ UNCHANGED policy
     \/ \E f \in FileSlips \ {files} :
          Write(status, inventory, f, plan, tree) /\ UNCHANGED policy
     \/ \E p \in PlanSlips \ {plan} :
          Write(status, inventory, files, p, tree) /\ UNCHANGED policy
     \/ \E x \in Sources \ tree :
          Write(status, inventory, files, plan, tree \cup {x})
          /\ UNCHANGED policy
     \/ /\ policy' \in Policies \ {policy}
        /\ Write(status, inventory, files, plan, tree)
  /\ edits' = [edits EXCEPT !.slips = @ + 1]
  /\ UNCHANGED <<pc, mem, result>>

Init ==
  \E k \in DOMAIN Planes :
    /\ status = Planes[k].status /\ inventory = Planes[k].inventory
    /\ files = Planes[k].files /\ plan = Planes[k].plan
    /\ tree = Planes[k].tree /\ policy = "reviewed"
    /\ pc = "start" /\ mem = Nothing /\ result = NoResult
    /\ edits = [plane |-> k, writes |-> 0, slips |-> 0]

Next == (pc # "done" /\ (Rewrite \/ Slip)) \/ Select

Spec == Init /\ [][Next]_vars

-----------------------------------------------------------------------------
Selected == pc = "done" /\ result.action # "repair_gate_first"

\* Whatever was written meanwhile, a selection rests on the very status the
\* verifier passed as a whole, under the policy it passed it with.
SelectionVerified ==
  Selected => /\ mem.sound /\ mem.policy = mem.attested
              /\ result = [action |-> Choice(mem.status),
                           task |-> mem.status.task]

\* No selection rests on a status that claims a stage before an earlier one
\* (the legacy guard alone may be ready before the truth reset).
StagesInOrder ==
  Selected =>
    \A i, j \in DOMAIN Stages :
      (i < j /\ mem.status.flag[Stages[j].flag] /\ Stages[j].flag # "guard")
        => mem.status.flag[Stages[i].flag]

\* Work beyond the package is selected only with every artifact present in
\* the bytes the inventory pins, the candidate among them.
PackageWhole ==
  (Selected /\ result.action \notin ClosureActions) =>
    \A a \in Kinds : /\ mem.inventory.row[a] = "present"
                     /\ mem.seen[a] = mem.inventory.pin[a]

\* While an artifact is missing, the selected work item is its producer or one
\* the producer depends on, at whatever distance: it is in every set of work
\* items that holds the producer and all that its members depend on.
Needs(p, t) ==
  {x \in Tasks : \A S \in SUBSET Tasks :
                   (t \in S /\ \A u \in S : p.deps[u] \subseteq S) => x \in S}
LeadsToMissing ==
  Selected =>
    LET missing == Keep(Artifacts, {a \in Kinds : mem.inventory.row[a] = "missing"})
    IN  missing # <<>> => result.task \in Needs(mem.plan, Producer[missing[1]])

\* A closeout that passes every check, its files looked at all at once.
SoundPlane(x) ==
  /\ CandidateHolds(x.status, x.files) /\ SuccessorHolds(x.status, x.files)
  /\ InventoryHolds(x.status, x.inventory, x.files, x.status.eligible)
  /\ ArchivesKept(x.files) /\ LineageHolds(x.inventory, x.files)
  /\ HeaderHolds(x.plan) /\ ItemsHold(x.status, x.plan)
  /\ OptimizationHolds(x.status, x.plan) /\ GraphHolds(x.plan)
  /\ CurrentHolds(x.status, x.plan) /\ ProjectionsHold(x.plan)
  /\ SourcesHold(x.plan, x.tree)
  /\ LinksHold(x.status, x.inventory, x.plan)
  /\ ComponentsHold(x.inventory, x.plan, x.files)
  /\ PolicyHolds(x.status, "reviewed", x.files)
  /\ StagesHold(x.status, x.tree, x.files) /\ RefsHold(x.status, x.files)
  /\ Choice(x.status) = x.status.action
  /\ x.status.action # "repair_gate_first"
PlanesSound == \A k \in DOMAIN Planes : Planes[k].closed => SoundPlane(Planes[k])

\* A control plane that nobody touches, as its closeout left it and with work
\* left, is not taken for a broken one: the selector accepts its policy, the
\* verifier, unless it is killed, attests the status (given the verdict of the
\* standalone verifier that the status claims), and the answer is the work the
\* status names.
PlaneSelects ==
  LET x == Planes[edits.plane]
  IN  (x.closed /\ edits.writes = 0 /\ edits.slips = 0) =>
        /\ pc = "done" => mem.policy # "none"
        /\ mem.standalone = x.status.eligible =>
             /\ mem.attested # "rejected"
             /\ (pc = "done" /\ mem.attested # "none") =>
                  result = [action |-> x.status.action, task |-> x.status.task]
=============================================================================
