---------------------------- MODULE MCPlanning ----------------------------
(***************************************************************************)
(* An instance of Planning for TLC: the plan reduced to ten work items,    *)
(* with its fork after the truth reset, and six of the fifteen artifacts.  *)
(***************************************************************************)
EXTENDS Planning

MCTaskOrder == <<"rebase", "freeze", "close", "approve", "reset", "guard",
                 "scaffold", "build", "accept", "rollout">>
MCDeps == [t \in Tasks |->
  CASE t = "rebase" -> {}
    [] t = "scaffold" -> {"reset"}
    [] t = "build" -> {"guard", "scaffold"}
    [] OTHER -> {MCTaskOrder[Position(MCTaskOrder, t) - 1]}]
MCArtifacts == <<"SOURCE", "LINEAGE", "STATE", "VERIFIER", "MANIFEST",
                 "REVIEW">>
MCProducer == [a \in Members(MCArtifacts) |->
  CASE a = "VERIFIER" -> "freeze"
    [] a \in {"MANIFEST", "REVIEW"} -> "close"
    [] OTHER -> "rebase"]
MCLineage == <<[id |-> "v1", role |-> "canonical_predecessor"],
               [id |-> "v3.24", role |-> "superseded_candidate"]>>
MCProjections ==
  [effect_plan |-> [produces |-> "rebase", implements |-> {"build"},
                    accepts |-> {"accept"}]]
MCOwner == [x \in {"contracts/__init__.py"} |-> "scaffold"]
MCReviewSets == {<<"MANIFEST", "REVIEW">>, <<"REVIEW">>}

\* A closeout: the completed tasks are the first n, the flags are claimed, the
\* artifacts are present, and the selector is to answer with the action.
Plane(n, claimed, present, answer) ==
  LET missing == SelectSeq(MCArtifacts, LAMBDA a : a \notin present)
      whole == missing = <<>>
      ready == IF n < Len(MCTaskOrder) THEN MCTaskOrder[n + 1]
               ELSE MCTaskOrder[n]
      state == [t \in Tasks |->
                  IF Position(MCTaskOrder, t) <= n THEN "completed"
                  ELSE IF t = ready THEN "ready" ELSE "blocked"]
      package == IF whole THEN "complete" ELSE "incomplete"
      source == {"contracts/__init__.py"}
      approved == "approved" \in claimed
  IN  [status |-> [task |-> ready, task_state |-> state[ready],
                   action |-> answer, semantics_changed |-> FALSE,
                   successor |-> "completed", package |-> package,
                   eligible |-> whole, missing |-> missing,
                   flag |-> [x \in Flags |-> x \in claimed],
                   new_package |-> "started" \in claimed,
                   candidate |-> Reviewed, entry |-> Reviewed,
                   items |-> Len(MCTaskOrder), docs |-> {"README.md"},
                   queue |-> IF whole THEN "rollout" ELSE ClosureQueue,
                   record |-> IF approved THEN Approval ELSE NoRecord,
                   generation |-> IF approved THEN 1 ELSE 0,
                   revocation |-> NoRecord],
       inventory |-> [row |-> [a \in Kinds |-> IF a \in present THEN "present"
                                               ELSE "missing"],
                      pin |-> [a \in Kinds |-> IF a \in present THEN Reviewed
                                               ELSE Absent],
                      missing |-> missing, package |-> package,
                      eligible |-> whole, lineage |-> Project(MCLineage),
                      record |-> NoRecord],
       files |-> [x \in FileNames |->
                    IF x \in Kinds \ present \/ (x = Approval /\ ~approved)
                      THEN Absent ELSE Reviewed],
       plan |-> [header |-> Reviewed, optimization |-> Reviewed,
                 malformed |-> {}, state |-> state, deps |-> MCDeps,
                 next |-> [t \in Tasks |-> {u \in Tasks : t \in MCDeps[u]}],
                 owns |-> [t \in Tasks |-> IF t = "scaffold" THEN source
                                           ELSE {}],
                 roles |-> [t \in Tasks |->
                   [produces |-> IF t = "rebase" THEN {"effect_plan"} ELSE {},
                    implements |-> IF t = "build" THEN {"effect_plan"} ELSE {},
                    accepts |-> IF t = "accept" THEN {"effect_plan"} ELSE {}]]],
       tree |-> IF "started" \in claimed THEN source ELSE {},
       closed |-> TRUE]
Broken(p) == [p EXCEPT !.closed = FALSE]

Early == {"SOURCE", "LINEAGE", "STATE"}
Package == {"SOURCE", "LINEAGE", "STATE", "VERIFIER", "MANIFEST", "REVIEW"}
Approving == {"approved", "permitted"}
Reset == Approving \cup {"truth_reset"}
Guarded == Reset \cup {"guard", "new_claims"}
Started == Guarded \cup {"started", "created"}
Coded == Started \cup {"code_complete"}
Accepted == Coded \cup {"accepted"}
Live == Accepted \cup {"full_q0", "admitted"}
Rolled == Live \cup {"pilot", "scheduled", "cohort"}

\* The first is a closeout that skipped the producers of its missing artifacts;
\* after the last one there is no work left, and the verifier wants some.
MCPlanes == <<
  Broken(Plane(3, {}, Early, "close_baseline_normative_package_first")),
  Plane(1, {}, Early, "close_baseline_normative_package_first"),
  Plane(2, {}, Early \cup {"VERIFIER"}, "run_baseline_consistency_review"),
  Plane(2, {}, Package \ {"REVIEW"}, "run_baseline_consistency_review"),
  Plane(3, {}, Package, "record_baseline_approval_first"),
  Plane(4, Approving, Package, "implement_truth_reset_first"),
  Plane(5, Reset, Package, "implement_legacy_guard_first"),
  Plane(6, Guarded, Package, "implement_local_ai_runtime_first"),
  Plane(7, Started, Package, "implement_local_ai_runtime_first"),
  Plane(8, Coded, Package, "run_implementation_acceptance_first"),
  Plane(9, Accepted, Package, "run_full_q0_first"),
  Plane(9, Live, Package, "run_single_p2_pilot_first"),
  Plane(9, Rolled, Package, "cut_over_repositories_first"),
  Broken(Plane(10, Rolled \cup {"cutover", "retired"}, Package,
               "operate_approved_runtime")) >>

\* The premise of PlaneSelectsHolds.
ASSUME MCPlanesSound == PlanesSound
=============================================================================
