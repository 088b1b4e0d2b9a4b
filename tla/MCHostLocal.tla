---------------------------- MODULE MCHostLocal ----------------------------
(***************************************************************************)
(* Instances of HostLocal for TLC: all tasks resolve to local_maint, whose *)
(* max_active_leases is 1 in workers.yaml.                                 *)
(***************************************************************************)
EXTENDS HostLocal, TLC

MCProfile == [t \in Tasks |-> "local_maint"]
MCOneLease == [x \in Profiles |-> 1]

Plain == [planner |-> FALSE, sidecar |-> FALSE, gated |-> FALSE,
          review |-> FALSE, bad_paths |-> FALSE]
\* Task "b" has a medium risk level.
MCReview == [t \in Tasks |-> [Plain EXCEPT !.review = (t = "b")]]
\* Task "b" has a high risk level and a profile with a live planner.
MCPlanner == [t \in Tasks |-> [Plain EXCEPT !.planner = (t = "b"),
                                            !.sidecar = TRUE]]

Symmetry == Permutations(Runs) \cup Permutations(Operators)
=============================================================================
