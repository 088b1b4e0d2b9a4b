--------------------------- MODULE CutoverProofs ---------------------------
(***************************************************************************)
(* Proofs about Cutover, for any number of commands and task runs and any  *)
(* bounds: its types, that a switch is backed (SwitchBacked), that an      *)
(* archive restores (ArchiveRestores) and that only a kill leaves the      *)
(* configuration truncated (TornByCrash).                                  *)
(***************************************************************************)
EXTENDS Cutover, TLAPS

-----------------------------------------------------------------------------
(* The invariant.  SwitchBacked is not inductive: that a switch is backed  *)
(* rests on what each command has left behind when it comes to the next of *)
(* its steps, whatever the others do in between.  ArchiveRestores rests on *)
(* the order row, files, row of a v1 run and database, runs of an archive. *)

\* A command has archived nothing before it has come to archive_db, and has
\* the database only when it comes to the runs.
ArchivesInOrder ==
  /\ \A c \in Commands :
       /\ pc[c] \in {"drill", "review", "redrill", "accept", "approve", "archive_db"}
            => ~archive[c].has_db /\ ~archive[c].has_runs
       /\ pc[c] = "archive_runs" =>
            /\ archive[c].has_db /\ ~archive[c].has_runs
            /\ archive[c].db \subseteq files
       /\ pc[c] \in {"read", "truncate", "write"} => Whole(c)
  /\ \A r \in Runs : job[r] = "v1_row" => r \in files

Written(S) == \A s \in S : summary[s] # "none"
Backing == {"drill", "review", "acceptance", "rollback", "approval", "audit"}

\* What a command has left behind when it comes to a step.
StepsBacked ==
  /\ approval \in {"approved", "defective"} => granted
  /\ \A c \in Commands :
       /\ pc[c] = "accept" => Written({"drill", "review"})
       /\ pc[c] = "approve" =>
            Written({"drill", "review", "acceptance", "rollback"})
       /\ pc[c] \in {"archive_db", "archive_runs", "read", "truncate", "write"} =>
            granted /\ Written(Backing)

IInv == TypeOK /\ ArchivesInOrder /\ StepsBacked /\ SwitchBacked /\ ArchiveRestores

-----------------------------------------------------------------------------
(* What the operators of Cutover return.                                   *)

LEMMA DecisionTypes ==
  /\ DrillReady \in BOOLEAN /\ RestoreAccepted \in BOOLEAN
  /\ \A b \in BOOLEAN : Verdict(b) \in {"good", "blocked"}
  BY DEF DrillReady, RestoreAccepted, Verdict

-----------------------------------------------------------------------------
LEMMA InitIInv == ASSUME Init PROVE IInv
<1>1. TypeOK
  BY DEF Init, TypeOK, Empty, RowStates, Steps, Flows, Summaries
<1>2. ArchivesInOrder /\ StepsBacked /\ SwitchBacked
  BY DEF Init, ArchivesInOrder, StepsBacked, SwitchBacked, Empty
<1>3. ArchiveRestores
  BY DEF Init, ArchiveRestores, Whole, Done, Empty
<1> QED BY <1>1, <1>2, <1>3 DEF IInv

\* Each action keeps the types.
LEMMA TypeStep == ASSUME TypeOK, [Next]_vars PROVE TypeOK'
<1> USE DEF TypeOK, legacy, kernel, evidence, Go, Job, RowStates, Steps, Flows, Summaries
<1>1. ASSUME NEW c \in Commands, Start(c) PROVE TypeOK'
  BY <1>1 DEF Start
<1>2. ASSUME NEW c \in Commands, Abort(c) PROVE TypeOK'
  BY <1>2 DEF Abort
<1>3. ASSUME NEW c \in Commands, RunDrill(c) PROVE TypeOK'
  BY <1>3, DecisionTypes DEF RunDrill
<1>4. ASSUME NEW c \in Commands, RunReview(c) PROVE TypeOK'
  BY <1>4 DEF RunReview
<1>5. ASSUME NEW c \in Commands, RunRedrill(c) PROVE TypeOK'
  BY <1>5, DecisionTypes DEF RunRedrill
<1>6. ASSUME NEW c \in Commands, RunRollbackDrill(c) PROVE TypeOK'
  <2> DEFINE ready == review[c] /\ RestoreAccepted
  <2>1. ready \in BOOLEAN /\ Verdict(ready) \in {"good", "blocked"}
        /\ Verdict(RestoreAccepted) \in {"good", "blocked"}
    BY DecisionTypes DEF Verdict
  <2>2. CASE flow[c] = "template" /\ WriteTemplate(ready)
    <3>1. summary' \in [Summaries -> {"none", "good", "blocked"}]
      BY <2>1, <2>2 DEF WriteTemplate
    <3>2. approval' \in {"none", "template", "defective", "approved"}
      BY <2>2 DEF WriteTemplate
    <3> QED BY <1>6, <2>1, <3>1, <3>2 DEF RunRollbackDrill
  <2>3. CASE ~(flow[c] = "template" /\ WriteTemplate(ready))
    BY <1>6, <2>1, <2>3 DEF RunRollbackDrill
  <2> QED BY <2>2, <2>3
<1>7. ASSUME NEW c \in Commands, ValidateApproval(c) PROVE TypeOK'
  <2> DEFINE approved == approval = "approved" /\ review[c]
  <2>1. Verdict(approved) \in {"good", "blocked"}
    BY DEF Verdict
  <2>2. Audit \in {"none", "good", "blocked"}
    BY DEF Audit, Verdict
  <2>3. summary' \in [Summaries -> {"none", "good", "blocked"}]
    BY <1>7, <2>1, <2>2 DEF ValidateApproval
  <2>4. pc' \in [Commands -> Steps]
    BY <1>7 DEF ValidateApproval
  <2> QED BY <1>7, <2>3, <2>4 DEF ValidateApproval
<1>8. ASSUME NEW c \in Commands, ArchiveLegacy(c) PROVE TypeOK'
  <2>1. archive[c] \in [db: SUBSET Runs, runs: SUBSET Runs,
                        has_db: BOOLEAN, has_runs: BOOLEAN]
    OBVIOUS
  <2>2. archive' \in [Commands -> [db: SUBSET Runs, runs: SUBSET Runs,
                                   has_db: BOOLEAN, has_runs: BOOLEAN]]
    <3>1. CASE pc[c] = "archive_db"
      <4>1. archive' = [archive EXCEPT ![c] = [@ EXCEPT !.db = Done, !.has_db = TRUE]]
        BY <1>8, <3>1 DEF ArchiveLegacy
      <4>2. Done \in SUBSET Runs
        BY DEF Done
      <4> QED BY <2>1, <4>1, <4>2
    <3>2. CASE pc[c] = "archive_runs"
      BY <1>8, <2>1, <3>2, SMTT(20) DEF ArchiveLegacy
    <3> QED BY <1>8, <3>1, <3>2 DEF ArchiveLegacy
  <2> QED BY <1>8, <2>2, ZenonT(40) DEF ArchiveLegacy
<1>9. ASSUME NEW c \in Commands, RewriteConfig(c) PROVE TypeOK'
  BY <1>9 DEF RewriteConfig
<1>10. ASSUME NEW c \in Commands, Restore(c) PROVE TypeOK'
  BY <1>10 DEF Restore
<1>11. ASSUME NEW r \in Runs, Route(r) \/ Load(r) \/ RunLegacy(r) \/ RunKernel(r)
       PROVE TypeOK'
  BY <1>11 DEF Route, Load, RunLegacy, RunKernel
<1>12. ASSUME NEW r \in Runs, Spoil(r) PROVE TypeOK'
  BY <1>12 DEF Spoil
<1>13. ASSUME Approve PROVE TypeOK'
  BY <1>13 DEF Approve
<1>14. ASSUME Crash PROVE TypeOK'
  BY <1>14 DEF Crash
<1>15. CASE UNCHANGED vars
  BY <1>15 DEF vars
<1> QED BY <1>1, <1>2, <1>3, <1>4, <1>5, <1>6, <1>7, <1>8, <1>9, <1>10, <1>11,
           <1>12, <1>13, <1>14, <1>15 DEF Next, Command

\* The types of the variables always hold: load, drills, archives and task
\* runs of migration.py and cli.py in any order.
THEOREM TypeCorrect == Spec => []TypeOK
<1>1. Init => TypeOK
  BY InitIInv DEF IInv
<1>2. TypeOK /\ [Next]_vars => TypeOK'
  BY TypeStep
<1> QED BY <1>1, <1>2, PTL DEF Spec
-----------------------------------------------------------------------------
\* Each action keeps the order of the archives and of the files of v1 runs.
LEMMA ArchiveStep ==
  ASSUME TypeOK, ArchivesInOrder, ArchiveRestores, [Next]_vars
  PROVE  ArchivesInOrder' /\ ArchiveRestores'
<1> USE DEF TypeOK, ArchivesInOrder, ArchiveRestores, Whole, Done, legacy, Go, Job
<1> DEFINE Kept == ArchivesInOrder' /\ ArchiveRestores'
<1>1. ASSUME NEW c \in Commands, Start(c) PROVE Kept
  BY <1>1 DEF Start, Empty
<1>2. ASSUME NEW c \in Commands, Abort(c) PROVE Kept
  BY <1>2 DEF Abort
<1>3. ASSUME NEW c \in Commands, RunDrill(c) PROVE Kept
  BY <1>3 DEF RunDrill
<1>4. ASSUME NEW c \in Commands, RunReview(c) PROVE Kept
  BY <1>4 DEF RunReview
<1>5. ASSUME NEW c \in Commands, RunRedrill(c) PROVE Kept
  BY <1>5 DEF RunRedrill
<1>6. ASSUME NEW c \in Commands, RunRollbackDrill(c) PROVE Kept
  BY <1>6 DEF RunRollbackDrill
<1>7. ASSUME NEW c \in Commands, ValidateApproval(c) PROVE Kept
  BY <1>7 DEF ValidateApproval
<1>8. ASSUME NEW c \in Commands, ArchiveLegacy(c) PROVE Kept
  <2>1. \A d \in Commands : d # c => archive'[d] = archive[d] /\ pc'[d] = pc[d]
    BY <1>8 DEF ArchiveLegacy
  <2>2. UNCHANGED <<row, files, job>>
    BY <1>8 DEF ArchiveLegacy
  <2>3. CASE pc[c] = "archive_db"
    <3>1. /\ archive'[c] = [archive[c] EXCEPT !.db = Done, !.has_db = TRUE]
          /\ pc'[c] = "archive_runs"
      BY <1>8, <2>3 DEF ArchiveLegacy
    <3>2. archive'[c].db \subseteq files /\ archive'[c].has_db /\ ~archive'[c].has_runs
      BY <2>3, <3>1
    <3> QED BY <2>1, <2>2, <3>1, <3>2
  <2>4. CASE pc[c] = "archive_runs"
    <3>1. /\ archive'[c] = [archive[c] EXCEPT !.runs = files, !.has_runs = TRUE]
          /\ pc'[c] = "read"
      BY <1>8, <2>4 DEF ArchiveLegacy
    <3>2. Whole(c)' /\ archive'[c].db \subseteq archive'[c].runs
      BY <2>4, <3>1
    <3> QED BY <2>1, <2>2, <3>1, <3>2
  <2> QED BY <1>8, <2>3, <2>4 DEF ArchiveLegacy
<1>9. ASSUME NEW c \in Commands, RewriteConfig(c) PROVE Kept
  BY <1>9 DEF RewriteConfig
<1>10. ASSUME NEW c \in Commands, Restore(c) PROVE Kept
  BY <1>10 DEF Restore
<1>11. ASSUME NEW r \in Runs, Route(r) \/ Load(r) PROVE Kept
  BY <1>11 DEF Route, Load
<1>12. ASSUME NEW r \in Runs, RunLegacy(r) PROVE Kept
  BY <1>12 DEF RunLegacy
<1>13. ASSUME NEW r \in Runs, RunKernel(r) \/ Spoil(r) PROVE Kept
  BY <1>13 DEF RunKernel, Spoil
<1>14. ASSUME Approve PROVE Kept
  BY <1>14 DEF Approve
<1>15. ASSUME Crash PROVE Kept
  BY <1>15 DEF Crash
<1>16. CASE UNCHANGED vars
  BY <1>16 DEF vars
<1> QED BY <1>1, <1>2, <1>3, <1>4, <1>5, <1>6, <1>7, <1>8, <1>9, <1>10, <1>11,
           <1>12, <1>13, <1>14, <1>15, <1>16 DEF Next, Command

-----------------------------------------------------------------------------
\* Each action keeps what the steps of a command and a switch rest on.
LEMMA BackingStep ==
  ASSUME TypeOK, ArchivesInOrder, StepsBacked, SwitchBacked, [Next]_vars
  PROVE  StepsBacked' /\ SwitchBacked'
<1> USE DEF TypeOK, ArchivesInOrder, StepsBacked, SwitchBacked, Whole, Written,
            Backing, Summaries, Verdict, kernel, evidence, Go, Job
<1> DEFINE Kept == StepsBacked' /\ SwitchBacked'
<1>1. ASSUME NEW c \in Commands, Start(c) PROVE Kept
  BY <1>1 DEF Start
<1>2. ASSUME NEW c \in Commands, Abort(c) PROVE Kept
  BY <1>2 DEF Abort
<1>3. ASSUME NEW c \in Commands, RunDrill(c) PROVE Kept
  BY <1>3 DEF RunDrill
<1>4. ASSUME NEW c \in Commands, RunReview(c) PROVE Kept
  BY <1>4 DEF RunReview
<1>5. ASSUME NEW c \in Commands, RunRedrill(c) PROVE Kept
  BY <1>5 DEF RunRedrill
<1>6. ASSUME NEW c \in Commands, RunRollbackDrill(c) PROVE Kept
  <2>1. \A s \in Summaries : summary[s] # "none" => summary'[s] # "none"
    BY <1>6 DEF RunRollbackDrill, WriteTemplate
  <2>2. summary'["acceptance"] # "none" /\ summary'["rollback"] # "none"
    BY <1>6 DEF RunRollbackDrill, WriteTemplate
  <2>3. approval' \in {"template", approval}
    BY <1>6 DEF RunRollbackDrill, WriteTemplate
  <2>4. /\ pc[c] = "accept" /\ pc'[c] \in {"approve", "idle"}
        /\ \A d \in Commands : d # c => pc'[d] = pc[d]
        /\ UNCHANGED <<config, granted, archive>>
    BY <1>6 DEF RunRollbackDrill
  <2> HIDE DEF Verdict
  <2> QED BY <2>1, <2>2, <2>3, <2>4
<1>7. ASSUME NEW c \in Commands, ValidateApproval(c) PROVE Kept
  BY <1>7 DEF ValidateApproval, Audit
<1>8. ASSUME NEW c \in Commands, ArchiveLegacy(c) PROVE Kept
  <2>1. \A d \in Commands : Whole(d) => Whole(d)'
    BY <1>8 DEF ArchiveLegacy
  <2> QED BY <1>8, <2>1 DEF ArchiveLegacy
<1>9. ASSUME NEW c \in Commands, RewriteConfig(c) PROVE Kept
  BY <1>9 DEF RewriteConfig
<1>10. ASSUME NEW c \in Commands, Restore(c) PROVE Kept
  BY <1>10 DEF Restore
<1>11. ASSUME NEW r \in Runs,
              Route(r) \/ Load(r) \/ RunLegacy(r) \/ RunKernel(r) \/ Spoil(r)
       PROVE  Kept
  BY <1>11 DEF Route, Load, RunLegacy, RunKernel, Spoil
<1>12. ASSUME Approve PROVE Kept
  BY <1>12 DEF Approve
<1>13. ASSUME Crash PROVE Kept
  BY <1>13 DEF Crash
<1>14. CASE UNCHANGED vars
  BY <1>14 DEF vars
<1> QED BY <1>1, <1>2, <1>3, <1>4, <1>5, <1>6, <1>7, <1>8, <1>9, <1>10, <1>11,
           <1>12, <1>13, <1>14 DEF Next, Command

-----------------------------------------------------------------------------
LEMMA Inductive == Spec => []IInv
<1>1. Init => IInv
  BY InitIInv
<1>2. IInv /\ [Next]_vars => IInv'
  BY TypeStep, ArchiveStep, BackingStep DEF IInv
<1> QED BY <1>1, <1>2, PTL DEF Spec

\* Whatever commands and kills come between its steps, a cutover leaves the
\* configuration of v1 only behind an operator's approval, the evidence of the
\* drills and a whole archive.
THEOREM SwitchBackedHolds == Spec => []SwitchBacked
<1>1. IInv => SwitchBacked
  BY DEF IInv
<1> QED BY <1>1, Inductive, PTL

\* Whatever v1 runs do while they are copied, an archive has the bundle of
\* every run its database says is over.
THEOREM ArchiveRestoresHolds == Spec => []ArchiveRestores
<1>1. IInv => ArchiveRestores
  BY DEF IInv
<1> QED BY <1>1, Inductive, PTL

-----------------------------------------------------------------------------
(* A configuration that cannot be read.                                    *)

\* A truncated orchestrator.yaml is about to be written by the process that
\* truncated it, or that process was killed: two cutovers that rewrite the file
\* at the same time never leave it so.
THEOREM TornByCrash ==
  Spec => [](config = "torn" =>
               count["crashes"] > 0 \/ \E c \in Commands : pc[c] = "write")
<1> DEFINE Inv == config = "torn" =>
                    count["crashes"] > 0 \/ \E c \in Commands : pc[c] = "write"
<1>1. Init => Inv
  BY DEF Init
<1>2. ASSUME TypeOK, Inv, [Next]_vars  PROVE  Inv'
  <2> USE <1>2 DEF TypeOK, Go
  <2>1. ASSUME NEW c \in Commands, RewriteConfig(c)  PROVE  Inv'
    BY <2>1 DEF RewriteConfig
  <2>2. ASSUME NEW c \in Commands, Command(c), ~RewriteConfig(c)  PROVE  Inv'
    <3>1. /\ UNCHANGED config /\ pc[c] # "write"
          /\ \A d \in Commands \ {c} : pc'[d] = pc[d]
          /\ count'["crashes"] = count["crashes"]
      BY <2>2 DEF Command, Start, Abort, RunDrill, RunReview, RunRedrill, RunRollbackDrill,
                  ValidateApproval, ArchiveLegacy
    <3> QED BY <3>1
  <2>3. ASSUME NEW c \in Commands, Restore(c)  PROVE  Inv'
    BY <2>3 DEF Restore
  <2>4. ASSUME NEW r \in Runs,
               Route(r) \/ Load(r) \/ RunLegacy(r) \/ RunKernel(r) \/ Spoil(r)
        PROVE  Inv'
    BY <2>4 DEF Route, Load, RunLegacy, RunKernel, Spoil
  <2>5. CASE Approve \/ UNCHANGED vars
    BY <2>5 DEF Approve, vars
  <2>6. CASE Crash
    BY <2>6 DEF Crash
  <2> QED BY <2>1, <2>2, <2>3, <2>4, <2>5, <2>6 DEF Next
<1>3. IInv /\ Inv /\ [Next]_vars => Inv'
  BY <1>2 DEF IInv
<1> QED BY <1>1, <1>3, Inductive, PTL DEF Spec
=============================================================================
