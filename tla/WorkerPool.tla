----------------------------- MODULE WorkerPool -----------------------------
(***************************************************************************)
(* What the admission slots of runtime_v2 promise, without the database:   *)
(* a profile admits at most max_active_leases attempts at a time; a worker *)
(* runs only for an admitted attempt; a slot goes back only when the run   *)
(* that took it hands it back, and one that run lost is lost for good      *)
(* (nothing expires or reaps a lease), but never admits anybody else.      *)
(***************************************************************************)
EXTENDS Naturals, FiniteSets

CONSTANTS Profiles, ProfileOf(_), MaxSlots

VARIABLES
  live,      \* attempts whose run holds its slot
  lost,      \* attempts whose run ended without handing the slot back
  working    \* attempts whose worker runs

vars == <<live, lost, working>>

Taken(profile) == {a \in live \cup lost : ProfileOf(a) = profile}

Init == live = {} /\ lost = {} /\ working = {}

Admit ==
  \E a \in live' \ (live \cup lost) :
    /\ Cardinality(Taken(ProfileOf(a))) < MaxSlots[ProfileOf(a)]
    /\ live' = live \cup {a}
    /\ UNCHANGED <<lost, working>>

Begin ==
  \E a \in live \ working :
    /\ working' = working \cup {a}
    /\ UNCHANGED <<live, lost>>

End ==
  \E a \in working :
    /\ working' = working \ {a}
    /\ UNCHANGED <<live, lost>>

Return ==
  \E a \in live \ working :
    /\ live' = live \ {a}
    /\ UNCHANGED <<lost, working>>

\* The run dies, its worker with it, or fails to hand the slot back.
Lose ==
  \E a \in live :
    /\ live' = live \ {a}
    /\ lost' = lost \cup {a}
    /\ working' = working \ {a}

Next == Admit \/ Begin \/ End \/ Return \/ Lose

Spec == Init /\ [][Next]_vars
=============================================================================
