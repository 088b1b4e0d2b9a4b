---------------------------- MODULE MCRuntimeV2 ----------------------------
(***************************************************************************)
(* Instances of RuntimeV2 for TLC: task "b" depends on task "a".           *)
(***************************************************************************)
EXTENDS RuntimeV2, TLC

MCProfile == [t \in Tasks |-> "local_maint"]
MCOneSlot == [x \in Profiles |-> 1]
MCTwoSlots == [x \in Profiles |-> 2]
MCDeps == [t \in Tasks |-> IF t = "b" THEN {"a"} ELSE {}]

\* The "auto" continuation policy of policies.yaml: task "a" has a low risk
\* level, task "b" one of review_on_risk_levels.
Auto(review) == [auto_continue |-> TRUE, pause_on_failure |-> TRUE,
                 pause_on_surface |-> TRUE, review |-> review]
MCPolicy == [t \in Tasks |-> Auto(t = "b")]

\* Task "c" writes to a sensitive path, the others are not guarded.
Traitless == [host_local |-> TRUE, requires_network |-> TRUE, network_off |-> FALSE,
              requires_gui |-> FALSE, write_access |-> TRUE,
              sensitive_overlap |-> FALSE]
MCTraits == [t \in Tasks |-> [Traitless EXCEPT !.sensitive_overlap = (t = "c")]]

Symmetry == Permutations(Procs)
=============================================================================
