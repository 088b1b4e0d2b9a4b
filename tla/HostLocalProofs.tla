-------------------------- MODULE HostLocalProofs --------------------------
(***************************************************************************)
(* The v1 runtime keeps its types, its leases, the files its rows point to *)
(* and, while runs end within LEASE_TTL, its mutual exclusion and quotas,  *)
(* for any number of tasks, runs, operators, crashes and raised calls; and *)
(* a row says what the ledger of its run says while, besides, operators    *)
(* only reconcile and no call raises.  Under the assumptions of the quotas *)
(* it implements WorkerPool.  Leases that are left and rows that say       *)
(* running for nobody are counted by what failed, and each command gets    *)
(* nearer its end with each of its calls.                                  *)
(***************************************************************************)
EXTENDS HostLocal, FiniteSetTheorems, TLAPS

\* A row that was written, as opposed to NoRow.
Row == [state: States, run: Runs, attempt: Nat, result: Runs \cup {NoRun}]

\* What the next call of a run says of its task, its outcome and its handler.
Phase(r) ==
  /\ pc[r] # "unused" => task[r] \in Tasks
  /\ pc[r] \in {"ledger", "bundle", "row"} => outcome[r] \in RunStates
  /\ handler[r] = "none" <=> pc[r] \in {"unused", "ended"}
  /\ handler[r] = "except" =>
       outcome[r] = "failed" /\ pc[r] \in {"ledger", "row", "event", "release"}

\* What an operator has loaded: rows that were there, those of a review for a
\* disposition.
Loaded(o) ==
  /\ opc[o] \in {"release", "ledger", "row", "closeout"} =>
       record[o].task \in Tasks /\ record[o].row \in Row
  /\ record[o].row \in Row \cup {NoRow}
  /\ \A e \in scan[o] : e.task \in Tasks /\ e.row \in Row
  /\ opc[o] \in {"load", "scan"} => kind[o] = "reconcile"
  /\ (kind[o] = "approve" /\ opc[o] \in {"release", "ledger", "row"}) =>
       record[o].row.state = "needs_review"

TypeInv ==
  /\ TypeOK
  /\ \A t \in Tasks : rows[t] \in Row \cup {NoRow}
  /\ \A r \in Runs : Phase(r)
  /\ \A o \in Operators : Loaded(o)

\* What upsert_runtime_task writes is a row.
LEMMA UpsertTyped ==
  ASSUME TypeInv, NEW t \in Tasks, NEW state \in States, NEW r \in Runs,
         NEW attempt \in Nat, NEW result \in Runs \cup {NoRun},
         Upsert(t, state, r, attempt, result)
  PROVE  /\ rows' \in [Tasks -> RowType]
         /\ \A x \in Tasks : rows'[x] \in Row \cup {NoRow}
         /\ rows'[t] \in Row
<1>. DEFINE new == [state |-> state, run |-> r, attempt |-> attempt,
                   result |-> IF result = NoRun THEN rows[t].result ELSE result]
<1>1. rows \in [Tasks -> RowType] /\ rows' = [rows EXCEPT ![t] = new]
  BY DEF Upsert, TypeInv, TypeOK
<1>2. rows[t].result \in Runs \cup {NoRun}
  BY <1>1 DEF RowType
<1>3. new \in Row
  BY <1>2 DEF Row
<1>4. new \in RowType
  BY <1>3 DEF Row, RowType
<1>5. rows'[t] = new /\ \A x \in Tasks \ {t} : rows'[x] = rows[x]
  BY <1>1
<1>. HIDE DEF new
<1>. QED  BY <1>1, <1>3, <1>4, <1>5 DEF TypeInv

\* The command of an operator ends.
LEMMA FinishTyped ==
  ASSUME TypeInv, NEW o \in Operators, Finish(o), UNCHANGED <<now, db, files, run, spent>>
  PROVE  TypeInv'
<1>1. NoRecord \in [task: Tasks \cup {NoTask}, row: RowType]
  BY DEF NoRecord, NoRow, RowType
<1>2. NoRecord.row = NoRow
  BY DEF NoRecord
<1>. QED  BY <1>1, <1>2 DEF Finish, OGoto, TypeInv, TypeOK, Phase, Loaded, RunStates, Ops, Recorded, States, db, files, oper, spent, run

\* Type correctness with the phases and records it needs, action by action.
LEMMA TypedStep ==
  ASSUME TypeInv, [Next]_vars
  PROVE  TypeInv'
<1>. USE ConstantsAssumption DEF Goto, At, OGoto, OAt
<1>1. ASSUME NEW r \in Runs, NEW t \in Tasks, AcquireLease(r, t)
      PROVE  TypeInv'
  BY <1>1 DEF AcquireLease, TypeInv, TypeOK, Phase, Loaded, RunStates, Ops, Recorded, States, db, files, oper, spent, run
<1>2. ASSUME NEW r \in Runs, MarkRunning(r)
      PROVE  TypeInv'
  <2>1. task[r] \in Tasks /\ "running" \in States /\ RunAttempt \in Nat
    BY <1>2 DEF MarkRunning, TypeInv, Phase, States, RunAttempt
  <2>2. /\ rows' \in [Tasks -> RowType]
        /\ \A x \in Tasks : rows'[x] \in Row \cup {NoRow}
    BY <1>2, <2>1, UpsertTyped DEF MarkRunning
  <2>. QED  BY <1>2, <2>2 DEF MarkRunning, TypeInv, TypeOK, Phase, Loaded, RunStates, Ops, Recorded, States, db, files, oper, spent, run
<1>3. ASSUME NEW r \in Runs, Gate(r)
      PROVE  TypeInv'
  <2>. DEFINE traits == Traits[task[r]]
  <2>1. UNCHANGED <<now, db, files, expires, task, oper, spent>> /\ At(r, "gate")
    BY <1>3 DEF Gate
  <2>2. CASE EnterExcept(r)
    BY <2>1, <2>2 DEF EnterExcept, TypeInv, TypeOK, Phase, Loaded, RunStates, Ops, Recorded, States, db, files, oper, spent, run
  <2>3. CASE /\ outcome' = [outcome EXCEPT ![r] = "waiting_handoff"]
             /\ Goto(r, "ledger")
             /\ UNCHANGED handler
    BY <2>1, <2>3 DEF TypeInv, TypeOK, Phase, Loaded, RunStates, Ops, Recorded, States, db, files, oper, spent, run
  <2>4. CASE \E label \in {"plan", "work"} : Goto(r, label) /\ UNCHANGED <<outcome, handler>>
    BY <2>1, <2>4 DEF TypeInv, TypeOK, Phase, Loaded, RunStates, Ops, Recorded, States, db, files, oper, spent, run
  <2>. QED  BY <1>3, <2>2, <2>3, <2>4 DEF Gate
<1>4. ASSUME NEW r \in Runs, PlannerDone(r)
      PROVE  TypeInv'
  BY <1>4 DEF PlannerDone, TypeInv, TypeOK, Phase, Loaded, RunStates, Ops, Recorded, States, db, files, oper, spent, run
<1>5. ASSUME NEW r \in Runs, WorkerDone(r)
      PROVE  TypeInv'
  BY <1>5 DEF WorkerDone, TypeInv, TypeOK, Phase, Loaded, RunStates, Ops, Recorded, States, db, files, oper, spent, run
<1>6. ASSUME NEW r \in Runs, WorkFails(r)
      PROVE  TypeInv'
  BY <1>6 DEF WorkFails, EnterExcept, TypeInv, TypeOK, Phase, Loaded, RunStates, Ops, Recorded, States, db, files, oper, spent, run
<1>7. ASSUME NEW r \in Runs, WriteLedger(r)
      PROVE  TypeInv'
  <2>1. outcome[r] \in Recorded \cup {"absent"} /\ RunAttempt \in Nat /\ expires[r] \in Nat
    BY <1>7 DEF WriteLedger, TypeInv, TypeOK, Phase, Recorded, RunAttempt
  <2>2. ledgers' \in [Runs -> [status: Recorded \cup {"absent"}, attempt: Nat, stale_after: Nat]]
    BY <1>7, <2>1 DEF WriteLedger, TypeInv, TypeOK
  <2>3. pc' = [pc EXCEPT ![r] = IF handler[r] = "try" THEN "bundle" ELSE "row"]
    BY <1>7 DEF WriteLedger
  <2>. QED  BY <1>7, <2>2, <2>3 DEF WriteLedger, TypeInv, TypeOK, Phase, Loaded, RunStates, Ops, Recorded, States, db, files, oper, spent, run
<1>8. ASSUME NEW r \in Runs, WriteBundle(r)
      PROVE  TypeInv'
  BY <1>8 DEF WriteBundle, ResultStatus, CloseoutStatus, TypeInv, TypeOK, Phase, Loaded, RunStates, Ops, Recorded, States, db, files, oper, spent, run
<1>9. ASSUME NEW r \in Runs, WriteRow(r)
      PROVE  TypeInv'
  <2>1. /\ task[r] \in Tasks /\ outcome[r] \in States /\ RunAttempt \in Nat
        /\ (IF handler[r] = "try" THEN r ELSE NoRun) \in Runs \cup {NoRun}
    BY <1>9 DEF WriteRow, TypeInv, Phase, States, Recorded, RunAttempt
  <2>2. /\ rows' \in [Tasks -> RowType]
        /\ \A x \in Tasks : rows'[x] \in Row \cup {NoRow}
    BY <1>9, <2>1, UpsertTyped DEF WriteRow
  <2>. QED  BY <1>9, <2>2 DEF WriteRow, TypeInv, TypeOK, Phase, Loaded, RunStates, Ops, Recorded, States, db, files, oper, spent, run
<1>10. ASSUME NEW r \in Runs, AppendEvent(r)
      PROVE  TypeInv'
  BY <1>10 DEF AppendEvent, TypeInv, TypeOK, Phase, Loaded, RunStates, Ops, Recorded, States, db, files, oper, spent, run
<1>11. ASSUME NEW r \in Runs, ReleaseLease(r)
      PROVE  TypeInv'
  BY <1>11 DEF ReleaseLease, End, TypeInv, TypeOK, Phase, Loaded, RunStates, Ops, Recorded, States, db, files, oper, spent, run
<1>12. ASSUME NEW r \in Runs, Crash(r)
      PROVE  TypeInv'
  BY <1>12 DEF Crash, End, Running, TypeInv, TypeOK, Phase, Loaded, RunStates, Ops, Recorded, States, db, files, oper, spent, run
<1>13. ASSUME NEW r \in Runs, CallRaises(r)
      PROVE  TypeInv'
  <2>. /\ UNCHANGED <<now, db, files, expires, task, oper, commands, crashed>>
       /\ erred' = erred + 1 /\ pc[r] \notin {"unused", "ended"}
    BY <1>13 DEF CallRaises, Running
  <2>1. CASE At(r, "release")
    <3>1. End(r)
      BY <1>13, <2>1 DEF CallRaises
    <3>. QED  BY <3>1 DEF End, TypeInv, TypeOK, Phase, Loaded, RunStates, Ops, Recorded, States, db, files, oper, spent, run
  <2>2. CASE ~At(r, "release") /\ handler[r] = "try"
    <3>1. EnterExcept(r)
      BY <1>13, <2>2 DEF CallRaises
    <3>. QED  BY <3>1 DEF EnterExcept, TypeInv, TypeOK, Phase, Loaded, RunStates, Ops, Recorded, States, db, files, oper, spent, run
  <2>3. CASE ~At(r, "release") /\ handler[r] # "try"
    <3>1. Goto(r, "release") /\ UNCHANGED <<outcome, handler>>
      BY <1>13, <2>3 DEF CallRaises
    <3>. QED  BY <3>1, <2>3 DEF TypeInv, TypeOK, Phase, Loaded, RunStates, Ops, Recorded, States, db, files, oper, spent, run
  <2>. QED  BY <2>1, <2>2, <2>3
<1>14. ASSUME Tick
      PROVE  TypeInv'
  BY <1>14 DEF Tick, TypeInv, TypeOK, Phase, Loaded, RunStates, Ops, Recorded, States, db, files, oper, spent, run
<1>15. ASSUME NEW o \in Operators, NEW k \in Kinds, NEW t \in Tasks, Command(o, k, t)
      PROVE  TypeInv'
  <2>1. /\ rows[t] \in Row /\ rows[t] \in RowType
        /\ k = "approve" => rows[t].state = "needs_review"
    BY <1>15 DEF Command, TypeInv, TypeOK, Dispositions
  <2>2. record'[o].task = t /\ record'[o].row = rows[t]
    BY <1>15 DEF Command, TypeInv, TypeOK
  <2>. QED  BY <1>15, <2>1, <2>2 DEF Command, AllKinds, TypeInv, TypeOK, Phase, Loaded, RunStates, Ops, Recorded, States, db, files, oper, spent, run
<1>16. ASSUME NEW o \in Operators, Reconcile(o)
      PROVE  TypeInv'
  BY <1>16 DEF Reconcile, AllKinds, TypeInv, TypeOK, Phase, Loaded, RunStates, Ops, Recorded, States, db, files, oper, spent, run
<1>17. ASSUME NEW o \in Operators, LoadRecords(o)
      PROVE  TypeInv'
  <2>1. \A x \in Tasks : rows[x].state \in StaleCandidates => rows[x] \in Row /\ rows[x] \in RowType
    BY DEF TypeInv, TypeOK, StaleCandidates, NoRow
  <2>2. /\ scan'[o] \in SUBSET [task: Tasks, row: RowType]
        /\ \A e \in scan'[o] : e.task \in Tasks /\ e.row \in Row
    BY <1>17, <2>1 DEF LoadRecords, TypeInv, TypeOK
  <2>3. \A x \in Operators \ {o} : scan'[x] = scan[x]
    BY <1>17 DEF LoadRecords, TypeInv, TypeOK
  <2>4. scan' \in [Operators -> SUBSET [task: Tasks, row: RowType]]
    BY <1>17, <2>2 DEF LoadRecords, TypeInv, TypeOK
  <2>. QED  BY <1>17, <2>2, <2>3, <2>4 DEF LoadRecords, TypeInv, TypeOK, Phase, Loaded, RunStates, Ops, Recorded, States, db, files, oper, spent, run
<1>18. ASSUME NEW o \in Operators, LedgerMissing(o)
      PROVE  TypeInv'
  <2>1. Finish(o) /\ UNCHANGED <<now, db, files, run, spent>>
    BY <1>18 DEF LedgerMissing
  <2>. QED  BY <2>1, FinishTyped
<1>19. ASSUME NEW o \in Operators, Scan(o)
      PROVE  TypeInv'
  <2>. PICK e \in scan[o] :
         /\ scan' = [scan EXCEPT ![o] = @ \ {e}]
         /\ \/ record' = [record EXCEPT ![o] = e] /\ OGoto(o, "ledger")
            \/ UNCHANGED <<record, opc>>
    BY <1>19 DEF Scan
  <2>1. e \in [task: Tasks, row: RowType] /\ e.row \in Row /\ kind[o] = "reconcile"
    BY <1>19 DEF Scan, TypeInv, TypeOK, Loaded
  <2>2. scan' \in [Operators -> SUBSET [task: Tasks, row: RowType]]
    BY <1>19 DEF Scan, TypeInv, TypeOK
  <2>3. \A x \in Operators : scan'[x] \subseteq scan[x]
    BY <1>19 DEF Scan, TypeInv, TypeOK
  <2>4. \A x \in Operators : \A d \in scan'[x] : d.task \in Tasks /\ d.row \in Row
    BY <2>3 DEF TypeInv, Loaded
  <2>5. CASE record' = [record EXCEPT ![o] = e] /\ OGoto(o, "ledger")
    BY <1>19, <2>1, <2>2, <2>4, <2>5 DEF Scan, TypeInv, TypeOK, Phase, Loaded, RunStates, Ops, Recorded, States, db, files, oper, spent, run
  <2>6. CASE UNCHANGED <<record, opc>>
    BY <1>19, <2>2, <2>4, <2>6 DEF Scan, TypeInv, TypeOK, Phase, Loaded, RunStates, Ops, Recorded, States, db, files, oper, spent, run
  <2>. QED  BY <2>5, <2>6
<1>20. ASSUME NEW o \in Operators, ScanDone(o)
      PROVE  TypeInv'
  <2>. QED  BY <1>20, FinishTyped DEF ScanDone
<1>21. ASSUME NEW o \in Operators, ReleaseTaskLeases(o)
      PROVE  TypeInv'
  BY <1>21 DEF ReleaseTaskLeases, TypeInv, TypeOK, Phase, Loaded, RunStates, Ops, Recorded, States, db, files, oper, spent, run
<1>22. ASSUME NEW o \in Operators, UpdateLedger(o)
      PROVE  TypeInv'
  <2>. DEFINE row == record[o].row
              new == [status |-> TargetState(kind[o]), attempt |-> NewAttempt(kind[o], row),
                      stale_after |-> IF TargetState(kind[o]) = "resumed"
                                      THEN as_of[o] + LeaseTTL
                                      ELSE ledgers[row.run].stale_after]
  <2>1. row \in Row /\ as_of[o] \in Nat
    BY <1>22 DEF UpdateLedger, TypeInv, TypeOK, Loaded
  <2>2. row.run \in Runs /\ row.attempt \in Nat
    BY <2>1 DEF Row
  <2>3. ledgers' = [ledgers EXCEPT ![row.run] = new]
    BY <1>22, <2>2 DEF UpdateLedger, TypeInv, TypeOK
  <2>4. TargetState(kind[o]) \in Recorded
    BY DEF TargetState, Recorded, RunStates, Ops
  <2>5. NewAttempt(kind[o], row) \in Nat
    BY <2>2 DEF NewAttempt
  <2>6. ledgers[row.run].stale_after \in Nat
    BY <2>2 DEF TypeInv, TypeOK
  <2>7. new \in [status: Recorded \cup {"absent"}, attempt: Nat, stale_after: Nat]
    BY <2>1, <2>4, <2>5, <2>6
  <2>. HIDE DEF row, new
  <2>8. ledgers' \in [Runs -> [status: Recorded \cup {"absent"}, attempt: Nat, stale_after: Nat]]
    BY <2>2, <2>3, <2>7 DEF TypeInv, TypeOK
  <2>. QED  BY <1>22, <2>8 DEF UpdateLedger, TypeInv, TypeOK, Phase, Loaded, RunStates, Ops, Recorded, States, db, files, oper, spent, run
<1>23. ASSUME NEW o \in Operators, UpdateRow(o)
      PROVE  TypeInv'
  <2>. DEFINE row == record[o].row
  <2>1. row \in Row /\ record[o].task \in Tasks
    BY <1>23 DEF UpdateRow, TypeInv, TypeOK, Loaded
  <2>2. row.run \in Runs /\ row.attempt \in Nat /\ row.result \in Runs \cup {NoRun}
    BY <2>1 DEF Row
  <2>3. TargetState(kind[o]) \in States /\ NewAttempt(kind[o], row) \in Nat
    BY <2>2 DEF TargetState, States, Recorded, RunStates, Ops, NewAttempt
  <2>4. Upsert(record[o].task, TargetState(kind[o]), row.run, NewAttempt(kind[o], row), row.result)
    BY <1>23 DEF UpdateRow
  <2>. HIDE DEF row
  <2>5. /\ rows' \in [Tasks -> RowType]
        /\ \A x \in Tasks : rows'[x] \in Row \cup {NoRow}
    BY <2>1, <2>2, <2>3, <2>4, UpsertTyped
  <2>. QED  BY <1>23, <2>5 DEF UpdateRow, TypeInv, TypeOK, Phase, Loaded, RunStates, Ops, Recorded, States, db, files, oper, spent, run
<1>24. ASSUME NEW o \in Operators, RefreshCloseout(o)
      PROVE  TypeInv'
  <2>1. closeouts' \in [Runs -> {"none", "succeeded", "partial", "blocked"}]
    BY <1>24 DEF RefreshCloseout, CloseoutForState, TypeInv, TypeOK
  <2>2. CASE kind[o] = "reconcile"
    <3>1. OGoto(o, "scan") /\ UNCHANGED <<kind, record, scan, as_of>>
      BY <1>24, <2>2 DEF RefreshCloseout
    <3>. QED  BY <1>24, <2>1, <2>2, <3>1 DEF RefreshCloseout, TypeInv, TypeOK, Phase, Loaded, RunStates, Ops, Recorded, States, db, files, oper, spent, run
  <2>3. CASE kind[o] # "reconcile"
    <3>1. Finish(o)
      BY <1>24, <2>3 DEF RefreshCloseout
    <3>. QED  BY <1>24, <2>1, <3>1 DEF RefreshCloseout, Finish, NoRecord, NoRow, RowType, TypeInv, TypeOK, Phase, Loaded, RunStates, Ops, Recorded, States, db, files, oper, spent, run
  <2>. QED  BY <2>2, <2>3
<1>25. CASE UNCHANGED vars
  BY <1>25 DEF vars, TypeInv, TypeOK, Phase, Loaded, RunStates, Ops, Recorded, States, db, files, oper, spent, run
<1>. QED
  BY <1>1, <1>2, <1>3, <1>4, <1>5, <1>6, <1>7, <1>8, <1>9, <1>10, <1>11, <1>12, <1>13, <1>14, <1>15, <1>16, <1>17, <1>18, <1>19, <1>20, <1>21, <1>22, <1>23, <1>24, <1>25 DEF Next, RunStep, OperatorStep

---------------------------------------------------------------------------
\* Leases

\* Only acquire_lease adds a lease or gives a run its task, and no call takes a
\* run back to where it had none.
LEMMA OthersKeep ==
  ASSUME TypeInv, [Next]_vars,
         \A r \in Runs, t \in Tasks : ~AcquireLease(r, t)
  PROVE  /\ leases' \subseteq leases /\ task' = task /\ expires' = expires
         /\ \A r \in Runs : pc'[r] = "unused" <=> pc[r] = "unused"
<1>. USE DEF Goto, At, TypeInv, TypeOK
<1>1. ASSUME NEW r \in Runs, RunStep(r)
      PROVE  /\ leases' \subseteq leases /\ task' = task /\ expires' = expires
             /\ \E label \in {"gate", "plan", "work", "ledger", "bundle", "row",
                              "event", "release", "ended"} :
                  pc[r] # "unused" /\ pc' = [pc EXCEPT ![r] = label]
  <2>1. CASE MarkRunning(r) \/ PlannerDone(r) \/ WorkerDone(r) \/ WorkFails(r)
    BY <2>1 DEF MarkRunning, PlannerDone, WorkerDone, WorkFails, EnterExcept, db
  <2>2. CASE Gate(r)
    BY <2>2 DEF Gate, EnterExcept, db
  <2>3. CASE WriteLedger(r) \/ WriteBundle(r) \/ WriteRow(r)
    BY <2>3 DEF WriteLedger, WriteBundle, WriteRow, db
  <2>4. CASE AppendEvent(r) \/ ReleaseLease(r)
    BY <2>4 DEF AppendEvent, ReleaseLease, End, db
  <2>. QED  BY <1>1, <2>1, <2>2, <2>3, <2>4 DEF RunStep
<1>2. ASSUME NEW r \in Runs, Crash(r) \/ CallRaises(r)
      PROVE  /\ leases' \subseteq leases /\ task' = task /\ expires' = expires
             /\ \E label \in {"ledger", "release", "ended"} :
                  pc[r] # "unused" /\ pc' = [pc EXCEPT ![r] = label]
  BY <1>2 DEF Crash, CallRaises, Running, End, EnterExcept, db
<1>3. CASE Tick
  BY <1>3 DEF Tick, db, run
<1>4. ASSUME NEW o \in Operators, NEW k \in Kinds, NEW t \in Tasks, Command(o, k, t)
      PROVE  leases' = leases /\ UNCHANGED run
  BY <1>4 DEF Command, db
<1>5. ASSUME NEW o \in Operators, Reconcile(o)
      PROVE  leases' \subseteq leases /\ UNCHANGED run
  BY <1>5 DEF Reconcile
<1>6. ASSUME NEW o \in Operators, OperatorStep(o)
      PROVE  leases' \subseteq leases /\ UNCHANGED run
  BY <1>6 DEF OperatorStep, LoadRecords, LedgerMissing, Scan, ScanDone,
              ReleaseTaskLeases, UpdateLedger, UpdateRow, RefreshCloseout, db
<1>7. CASE UNCHANGED vars
  BY <1>7 DEF vars, db, run
<1>. QED  BY <1>1, <1>2, <1>3, <1>4, <1>5, <1>6, <1>7, SMTT(20) DEF Next, run

LeaseInv ==
  /\ LeaseExclusive
  /\ \A r \in leases : pc[r] # "unused"

LEMMA LeaseStep ==
  ASSUME TypeInv, LeaseInv, [Next]_vars
  PROVE  LeaseInv'
<1>1. leases \subseteq Runs
  BY DEF TypeInv, TypeOK
<1>2. ASSUME NEW r \in Runs, NEW t \in Tasks, AcquireLease(r, t)
      PROVE  LeaseInv'
  <2>1. /\ pc[r] = "unused" /\ leases' \subseteq leases \cup {r}
        /\ \A x \in leases' \ {r} : task[x] # t
        /\ task' = [task EXCEPT ![r] = t] /\ pc' = [pc EXCEPT ![r] = "mark"]
    BY <1>2 DEF AcquireLease, At, Goto, LeaseInv
  <2>2. task'[r] = t /\ \A x \in Runs \ {r} : task'[x] = task[x] /\ pc'[x] = pc[x]
    BY <2>1 DEF TypeInv, TypeOK
  <2>3. pc'[r] = "mark"
    BY <2>1 DEF TypeInv, TypeOK
  <2>4. \A x \in leases' : x # r => x \in leases /\ x \in Runs
    BY <1>1, <2>1
  <2>. QED  BY <2>1, <2>2, <2>3, <2>4 DEF LeaseInv, LeaseExclusive
<1>3. CASE \A r \in Runs, t \in Tasks : ~AcquireLease(r, t)
  <2>1. /\ leases' \subseteq leases /\ task' = task
        /\ \A r \in Runs : pc'[r] = "unused" <=> pc[r] = "unused"
    BY <1>3, OthersKeep
  <2>. QED  BY <1>1, <2>1 DEF LeaseInv, LeaseExclusive
<1>. QED  BY <1>2, <1>3

LEMMA InitTyped == Init => TypeInv /\ LeaseInv
<1>. SUFFICES ASSUME Init PROVE TypeInv /\ LeaseInv
  OBVIOUS
<1>. USE ConstantsAssumption DEF Init
<1>1. NoRow \in RowType
  BY DEF NoRow, RowType
<1>2. NoRecord \in [task: Tasks \cup {NoTask}, row: RowType]
  BY <1>1 DEF NoRecord
<1>3. NoLedger \in [status: Recorded \cup {"absent"}, attempt: Nat, stale_after: Nat]
  BY DEF NoLedger
<1>4. TypeOK
  BY <1>1, <1>2, <1>3 DEF TypeOK
<1>5. \A r \in Runs : Phase(r)
  BY DEF Phase
<1>6. \A o \in Operators : Loaded(o)
  BY DEF Loaded, NoRecord
<1>. QED  BY <1>4, <1>5, <1>6 DEF TypeInv, LeaseInv, LeaseExclusive

LEMMA TypedAndLeased == Spec => [](TypeInv /\ LeaseInv)
<1>1. TypeInv /\ LeaseInv /\ [Next]_vars => TypeInv' /\ LeaseInv'
  BY TypedStep, LeaseStep
<1>. QED  BY <1>1, InitTyped, PTL DEF Spec

\* Every variable of the v1 runtime keeps its type: a run never records a state
\* it has not decided, nor an operator a row it has not loaded.
THEOREM TypeCorrect == Spec => []TypeOK
<1>1. TypeInv => TypeOK
  BY DEF TypeInv
<1>. QED  BY <1>1, TypedAndLeased, PTL

\* A task never has two lease rows, whatever expires, is reaped, killed or
\* cancelled: acquire_lease deletes, checks and inserts in one transaction.
THEOREM LeaseExclusiveHolds == Spec => []LeaseExclusive
<1>1. LeaseInv => LeaseExclusive
  BY DEF LeaseInv
<1>. QED  BY <1>1, TypedAndLeased, PTL

---------------------------------------------------------------------------
\* Runs that end in time

\* What keeps two runs of a task apart when every run ends in time and nobody
\* but reconcile interferes: a run that goes on has a lease that is not expired,
\* and once its row is written it is counted by the quota.
InTimeInv ==
  /\ \A r \in Runs : Running(r) => r \in leases /\ now < expires[r]
  /\ \A o \in Operators : opc[o] # "release"
  /\ \A r \in Runs : pc[r] \in {"gate", "plan", "work"} => rows[task[r]] # NoRow

\* The row of a task stays once it is there.
LEMMA RowsStay ==
  ASSUME TypeInv, [Next]_vars
  PROVE  \A t \in Tasks : rows[t] # NoRow => rows'[t] # NoRow
<1>. USE DEF TypeInv, TypeOK
<1>1. ASSUME NEW t \in Tasks, NEW state \in States, NEW r \in Runs, NEW attempt,
             NEW result, Upsert(t, state, r, attempt, result)
      PROVE  \A x \in Tasks : rows[x] # NoRow => rows'[x] # NoRow
  <2>1. state # "absent"
    BY DEF States, Recorded, RunStates, Ops
  <2>. QED  BY <1>1, <2>1 DEF Upsert, NoRow
<1>2. ASSUME NEW r \in Runs, MarkRunning(r)
      PROVE  \A x \in Tasks : rows[x] # NoRow => rows'[x] # NoRow
  <2>1. Upsert(task[r], "running", r, RunAttempt, NoRun) /\ task[r] \in Tasks
    BY <1>2 DEF MarkRunning, Phase, At
  <2>. QED  BY <1>1, <2>1 DEF States
<1>3. ASSUME NEW r \in Runs, WriteRow(r)
      PROVE  \A x \in Tasks : rows[x] # NoRow => rows'[x] # NoRow
  <2>1. /\ Upsert(task[r], outcome[r], r, RunAttempt, IF handler[r] = "try" THEN r ELSE NoRun)
        /\ task[r] \in Tasks /\ outcome[r] \in States
    BY <1>3 DEF WriteRow, Phase, At, States, Recorded
  <2>. QED  BY <1>1, <2>1
<1>4. ASSUME NEW o \in Operators, UpdateRow(o)
      PROVE  \A x \in Tasks : rows[x] # NoRow => rows'[x] # NoRow
  <2>1. /\ Upsert(record[o].task, TargetState(kind[o]), record[o].row.run,
                  NewAttempt(kind[o], record[o].row), record[o].row.result)
        /\ record[o].task \in Tasks /\ record[o].row \in Row
    BY <1>4 DEF UpdateRow, Loaded, OAt
  <2>2. record[o].row.run \in Runs /\ TargetState(kind[o]) \in States
    BY <2>1 DEF Row, TargetState, States, Recorded, RunStates, Ops
  <2>. QED  BY <1>1, <2>1, <2>2
<1>5. CASE ~ \/ \E r \in Runs : MarkRunning(r) \/ WriteRow(r)
             \/ \E o \in Operators : UpdateRow(o)
  <2>1. UNCHANGED rows
    BY <1>5 DEF Next, RunStep, OperatorStep, AcquireLease, Gate, PlannerDone,
       WorkerDone, WorkFails, WriteLedger, WriteBundle, AppendEvent,
       ReleaseLease, Tick, Crash, CallRaises, Command, Reconcile, LoadRecords,
       LedgerMissing, Scan, ScanDone, ReleaseTaskLeases, UpdateLedger,
       RefreshCloseout, db, vars
  <2>. QED  BY <2>1
<1>. QED  BY <1>2, <1>3, <1>4, <1>5

\* The next call of a run, and where it goes from.
LEMMA RunMoves ==
  ASSUME TypeInv, NEW r \in Runs, RunStep(r) \/ Crash(r) \/ CallRaises(r)
  PROVE  /\ Running(r) /\ UNCHANGED <<now, opc, task, expires>>
         /\ \A x \in Runs \ {r} : pc'[x] = pc[x]
         /\ leases' = leases \/ (leases' = leases \ {r} /\ ~Running(r)')
         /\ pc'[r] = "gate" => MarkRunning(r)
         /\ pc'[r] \in {"plan", "work"} => pc[r] = "gate" /\ Gate(r) /\ UNCHANGED db
<1>. USE DEF At, Goto, Running
<1>. pc \in [Runs -> {"unused", "mark", "gate", "plan", "work", "ledger",
                     "bundle", "row", "event", "release", "ended"}]
  BY DEF TypeInv, TypeOK
<1>1. CASE MarkRunning(r)
  BY <1>1 DEF MarkRunning, oper
<1>2. CASE Gate(r)
  BY <1>2 DEF Gate, EnterExcept, oper, db
<1>3. CASE PlannerDone(r) \/ WorkerDone(r) \/ WorkFails(r)
  BY <1>3 DEF PlannerDone, WorkerDone, WorkFails, EnterExcept, oper, db
<1>4. CASE WriteLedger(r) \/ WriteBundle(r) \/ WriteRow(r)
  BY <1>4 DEF WriteLedger, WriteBundle, WriteRow, oper, db
<1>5. CASE AppendEvent(r) \/ ReleaseLease(r)
  BY <1>5 DEF AppendEvent, ReleaseLease, End, oper, db
<1>6. CASE Crash(r)
  BY <1>6 DEF Crash, End, oper, db
<1>7. CASE CallRaises(r)
  <2>1. \E label \in {"ledger", "release", "ended"} : pc' = [pc EXCEPT ![r] = label]
    BY <1>7 DEF CallRaises, End, EnterExcept
  <2>. QED  BY <1>7, <2>1 DEF CallRaises, oper, db
<1>. QED  BY <1>1, <1>2, <1>3, <1>4, <1>5, <1>6, <1>7 DEF RunStep

LEMMA InTimeStep ==
  ASSUME InTime, Kinds \subseteq {"reconcile"}, TypeInv, InTimeInv, [Next]_vars
  PROVE  InTimeInv'
<1>. USE ConstantsAssumption
<1>. /\ leases \subseteq Runs /\ now \in Nat /\ expires \in [Runs -> Nat]
     /\ pc \in [Runs -> {"unused", "mark", "gate", "plan", "work", "ledger",
                         "bundle", "row", "event", "release", "ended"}]
     /\ task \in [Runs -> Tasks \cup {NoTask}]
     /\ \A r \in Runs : pc[r] # "unused" => task[r] \in Tasks
     /\ LeaseTTL \in Nat /\ LeaseTTL > 0
  BY DEF TypeInv, TypeOK, Phase
<1>1. ASSUME NEW r \in Runs, NEW t \in Tasks, AcquireLease(r, t)
      PROVE  InTimeInv'
  <2>1. /\ r \in leases' /\ expires'[r] = now + LeaseTTL /\ pc'[r] = "mark"
        /\ now' = now /\ rows' = rows /\ opc' = opc
    BY <1>1 DEF AcquireLease, At, Goto, oper
  <2>2. \A x \in Runs \ {r} : expires'[x] = expires[x] /\ pc'[x] = pc[x] /\ task'[x] = task[x]
    BY <1>1 DEF AcquireLease, At, Goto
  <2>3. \A x \in leases : now < expires[x] => x \in leases'
    BY <1>1 DEF AcquireLease
  <2>. QED  BY <2>1, <2>2, <2>3 DEF InTimeInv, Running
<1>2. ASSUME NEW r \in Runs, RunStep(r) \/ Crash(r) \/ CallRaises(r)
      PROVE  InTimeInv'
  <2>1. /\ Running(r) /\ UNCHANGED <<now, opc, task, expires>>
        /\ \A x \in Runs \ {r} : pc'[x] = pc[x]
        /\ leases' = leases \/ (leases' = leases \ {r} /\ ~Running(r)')
        /\ pc'[r] = "gate" => MarkRunning(r)
        /\ pc'[r] \in {"plan", "work"} => pc[r] = "gate"
    BY <1>2, RunMoves
  <2>2. \A t \in Tasks : rows[t] # NoRow => rows'[t] # NoRow
    BY <1>2, RowsStay DEF Next
  <2>3. MarkRunning(r) => rows'[task[r]] # NoRow
    <3>. SUFFICES ASSUME MarkRunning(r) PROVE rows'[task[r]] # NoRow
      OBVIOUS
    <3>1. /\ task[r] \in Tasks
          /\ Upsert(task[r], "running", r, RunAttempt, NoRun)
      BY <2>1 DEF MarkRunning, Running
    <3>. QED  BY <3>1 DEF Upsert, NoRow, TypeInv, TypeOK
  <2>. QED  BY <2>1, <2>2, <2>3 DEF InTimeInv, Running
<1>3. CASE Tick
  <2>1. \A r \in Runs : Running(r) => now' < expires[r]
    BY <1>3 DEF Tick
  <2>. QED  BY <1>3, <2>1 DEF Tick, InTimeInv, Running, run, oper, db
<1>4. ASSUME NEW o \in Operators, NEW k \in Kinds, NEW t \in Tasks, Command(o, k, t)
      PROVE  FALSE
  BY <1>4 DEF Command
<1>5. ASSUME NEW o \in Operators, Reconcile(o)
      PROVE  InTimeInv'
  <2>1. \A x \in Operators : opc'[x] # "release"
    BY <1>5 DEF Reconcile, OGoto, InTimeInv, TypeInv, TypeOK
  <2>2. UNCHANGED <<now, rows, pc, task, expires>> /\ leases' = {r \in leases : expires[r] > now}
    BY <1>5 DEF Reconcile, run
  <2>. QED  BY <2>1, <2>2 DEF InTimeInv, Running
<1>6. ASSUME NEW o \in Operators, OperatorStep(o)
      PROVE  InTimeInv'
  <2>1. /\ \A x \in Operators : opc'[x] # "release"
        /\ UNCHANGED <<now, leases, run>>
    BY <1>6 DEF OperatorStep, LoadRecords, LedgerMissing, Finish, Scan, ScanDone,
       ReleaseTaskLeases, UpdateLedger, UpdateRow, RefreshCloseout, OGoto, OAt,
       InTimeInv, TypeInv, TypeOK, db
  <2>2. \A t \in Tasks : rows[t] # NoRow => rows'[t] # NoRow
    BY <1>6, RowsStay DEF Next
  <2>. QED  BY <2>1, <2>2 DEF InTimeInv, Running, run
<1>7. CASE UNCHANGED vars
  BY <1>7 DEF vars, InTimeInv, Running, db, run, oper
<1>. QED  BY <1>1, <1>2, <1>3, <1>4, <1>5, <1>6, <1>7 DEF Next

LEMMA InTimeHolds ==
  ASSUME InTime, Kinds \subseteq {"reconcile"}
  PROVE  Spec => [](TypeInv /\ LeaseInv /\ InTimeInv)
<1>1. Init => InTimeInv
  BY DEF Init, InTimeInv, Running
<1>2. TypeInv /\ LeaseInv /\ InTimeInv /\ [Next]_vars => InTimeInv'
  BY InTimeStep
<1>. QED  BY <1>1, <1>2, TypedAndLeased, PTL DEF Spec

\* While runs end within LEASE_TTL and operators only reconcile, no two runs of
\* a task are past acquire_lease at once, whatever was killed, reaped or raised.
THEOREM RunExclusiveHolds ==
  ASSUME InTime, Kinds \subseteq {"reconcile"}
  PROVE  Spec => []RunExclusive
<1>1. LeaseInv /\ InTimeInv => RunExclusive
  BY DEF LeaseInv, LeaseExclusive, InTimeInv, RunExclusive
<1>. QED  BY <1>1, InTimeHolds, PTL

BusyOn(profile) == {r \in Runs : Busy(r) /\ Profile[task[r]] = profile}

\* The last run to pass the gate counted itself and every other busy run.
LEMMA QuotaStep ==
  ASSUME TypeInv, InTimeInv, QuotaKept, [Next]_vars
  PROVE  QuotaKept'
<1>. USE ConstantsAssumption
<1>1. ASSUME NEW profile \in Profiles,
             BusyOn(profile)' \subseteq BusyOn(profile)
      PROVE  Cardinality(BusyOn(profile)') <= MaxLeases[profile]
  <2>1. IsFiniteSet(BusyOn(profile))
    BY FS_Subset DEF BusyOn
  <2>2. /\ Cardinality(BusyOn(profile)') <= Cardinality(BusyOn(profile))
        /\ Cardinality(BusyOn(profile)') \in Nat /\ Cardinality(BusyOn(profile)) \in Nat
    BY <1>1, <2>1, FS_Subset, FS_CardinalityType
  <2>3. Cardinality(BusyOn(profile)) <= MaxLeases[profile] /\ MaxLeases[profile] \in Nat
    BY DEF QuotaKept, BusyOn
  <2>. QED  BY <2>2, <2>3
<1>2. ASSUME \A profile \in Profiles : BusyOn(profile)' \subseteq BusyOn(profile)
      PROVE  QuotaKept'
  BY <1>1, <1>2 DEF QuotaKept, BusyOn
<1>3. ASSUME NEW r \in Runs, Gate(r), pc'[r] \in {"plan", "work"}
      PROVE  QuotaKept'
  <2>. task[r] \in Tasks
    BY <1>3, RunMoves DEF RunStep, Gate, At, TypeInv, Phase
  <2>. PICK mine \in Profiles : mine = Profile[task[r]]
    OBVIOUS
  <2>1. /\ pc[r] = "gate" /\ UNCHANGED <<task, leases, rows>>
        /\ \A x \in Runs \ {r} : pc'[x] = pc[x]
    BY <1>3, RunMoves DEF RunStep, db, Gate, At
  <2>2. ~QuotaExceeded(mine)
    BY <1>3, <2>1 DEF Gate, EnterExcept, Goto, TypeInv, TypeOK
  <2>3. IsFiniteSet(ActiveLeases(mine))
    BY FS_Subset DEF ActiveLeases, TypeInv, TypeOK
  <2>4. BusyOn(mine)' \subseteq ActiveLeases(mine)
    BY <2>1 DEF BusyOn, Busy, At, ActiveLeases, InTimeInv, Running
  <2>5. /\ Cardinality(BusyOn(mine)') <= Cardinality(ActiveLeases(mine))
        /\ Cardinality(BusyOn(mine)') \in Nat /\ Cardinality(ActiveLeases(mine)) \in Nat
    BY <2>3, <2>4, FS_Subset, FS_CardinalityType
  <2>6. MaxLeases[mine] \in Nat
    OBVIOUS
  <2>7. Cardinality(BusyOn(mine)') <= MaxLeases[mine]
    BY <2>2, <2>5, <2>6 DEF QuotaExceeded
  <2>8. ASSUME NEW profile \in Profiles, profile # mine
        PROVE  BusyOn(profile)' \subseteq BusyOn(profile)
    BY <2>1, <2>8 DEF BusyOn, Busy, At
  <2>9. \A profile \in Profiles : Cardinality(BusyOn(profile)') <= MaxLeases[profile]
    BY <1>1, <2>7, <2>8
  <2>. QED  BY <2>9 DEF QuotaKept, BusyOn
<1>4. ASSUME NEW r \in Runs, RunStep(r) \/ Crash(r) \/ CallRaises(r),
             pc'[r] \notin {"plan", "work"}
      PROVE  \A profile \in Profiles : BusyOn(profile)' \subseteq BusyOn(profile)
  BY <1>4, RunMoves DEF BusyOn, Busy, At
<1>5. ASSUME NEW r \in Runs, NEW t \in Tasks, AcquireLease(r, t)
      PROVE  \A profile \in Profiles : BusyOn(profile)' \subseteq BusyOn(profile)
  BY <1>5 DEF AcquireLease, BusyOn, Busy, At, Goto, TypeInv, TypeOK
<1>6. CASE \/ Tick \/ UNCHANGED vars
           \/ \E o \in Operators : \/ \E k \in Kinds, t \in Tasks : Command(o, k, t)
                                   \/ Reconcile(o) \/ OperatorStep(o)
  <2>1. UNCHANGED run
    BY <1>6 DEF Tick, vars, Command, Reconcile, OperatorStep, LoadRecords, LedgerMissing,
       Scan, ScanDone, ReleaseTaskLeases, UpdateLedger, UpdateRow, RefreshCloseout
  <2>. QED  BY <1>2, <2>1 DEF BusyOn, Busy, At, run
<1>7. ASSUME NEW r \in Runs, RunStep(r) \/ Crash(r) \/ CallRaises(r)
      PROVE  QuotaKept'
  BY <1>2, <1>3, <1>4, <1>7, RunMoves
<1>. QED  BY <1>2, <1>5, <1>6, <1>7 DEF Next

\* Under the same assumptions at most max_active_leases planners and workers of
\* a profile run: the quota counts leases in a transaction of its own.
THEOREM QuotaKeptHolds ==
  ASSUME InTime, Kinds \subseteq {"reconcile"}
  PROVE  Spec => []QuotaKept
<1>1. Init => QuotaKept
  <2>. SUFFICES ASSUME Init, NEW profile \in Profiles
                PROVE  Cardinality(BusyOn(profile)) <= MaxLeases[profile]
    BY DEF QuotaKept, BusyOn
  <2>1. BusyOn(profile) = {}
    BY DEF Init, BusyOn, Busy, At
  <2>. QED  BY <2>1, FS_EmptySet, ConstantsAssumption
<1>2. TypeInv /\ InTimeInv /\ QuotaKept /\ [Next]_vars => QuotaKept'
  BY QuotaStep
<1>. QED  BY <1>1, <1>2, InTimeHolds, PTL DEF Spec

\* v1 as WorkerPool has it: a slot is a run with its task, taken by the gate that
\* lets a planner or worker start and handed back when that ends, returns or is
\* killed.  The gate admits and starts at once and no slot is lost (a lease that
\* is left has no worker and expires), so that nothing stands for the other two
\* variables of the pool.
Pool == INSTANCE WorkerPool WITH
  ProfileOf <- LAMBDA a : Profile[a[2]], MaxSlots <- MaxLeases,
  live <- {<<r, task[r]>> : r \in {x \in Runs : Busy(x)}},
  lost <- {}, working <- {}

Slots == {<<r, task[r]>> : r \in {x \in Runs : Busy(x)}}

\* WorkerPool counts with the same function.
LEMMA SameCount == \A S : Pool!Cardinality(S) = Cardinality(S)
  BY Zenon DEF Pool!Cardinality, Cardinality

\* The run that passes the gate is among the leases it counted and not yet among
\* the slots, all of which are.
LEMMA GateAdmits ==
  ASSUME TypeInv, InTimeInv, NEW r \in Runs, Gate(r), pc'[r] \in {"plan", "work"}
  PROVE  Pool!Next
<1> USE ConstantsAssumption
<1> task[r] \in Tasks
  BY RunMoves DEF RunStep, TypeInv, Phase, Running
<1> PICK mine \in Profiles : mine = Profile[task[r]]
  OBVIOUS
<1> DEFINE a == <<r, task[r]>>
           taken == {x \in Slots : Profile[x[2]] = mine}
           others == ActiveLeases(mine) \ {r}
<1>1. /\ pc[r] = "gate" /\ UNCHANGED <<task, leases, rows>>
      /\ \A x \in Runs \ {r} : pc'[x] = pc[x]
  BY RunMoves DEF RunStep, db, Gate, At
<1>2. ~QuotaExceeded(mine)
  BY <1>1 DEF Gate, EnterExcept, Goto, TypeInv, TypeOK
<1>3. /\ IsFiniteSet(ActiveLeases(mine)) /\ r \in ActiveLeases(mine)
      /\ BusyOn(mine) \subseteq others
  <2>1. IsFiniteSet(ActiveLeases(mine))
    BY FS_Subset DEF ActiveLeases, TypeInv, TypeOK
  <2>2. r \in ActiveLeases(mine)
    BY <1>1 DEF ActiveLeases, InTimeInv, Running
  <2>3. BusyOn(mine) \subseteq others
    BY <1>1 DEF BusyOn, Busy, At, ActiveLeases, InTimeInv, Running
  <2> QED BY <2>1, <2>2, <2>3
<1>4. Cardinality(BusyOn(mine)) < MaxLeases[mine] /\ IsFiniteSet(BusyOn(mine))
      /\ Cardinality(BusyOn(mine)) \in Nat /\ MaxLeases[mine] \in Nat
  <2>1. /\ IsFiniteSet(others) /\ Cardinality(others) = Cardinality(ActiveLeases(mine)) - 1
        /\ Cardinality(others) \in Nat
    BY <1>3, FS_RemoveElement, FS_CardinalityType
  <2>2. /\ IsFiniteSet(BusyOn(mine)) /\ Cardinality(BusyOn(mine)) \in Nat
        /\ Cardinality(BusyOn(mine)) <= Cardinality(others)
    BY <1>3, <2>1, FS_Subset, FS_CardinalityType
  <2>3. Cardinality(ActiveLeases(mine)) <= MaxLeases[mine]
    BY <1>2, <1>3, FS_CardinalityType DEF QuotaExceeded
  <2> QED BY <1>3, <2>1, <2>2, <2>3, FS_CardinalityType
<1>5. Cardinality(taken) <= Cardinality(BusyOn(mine)) /\ Cardinality(taken) \in Nat
  <2> DEFINE f == [x \in BusyOn(mine) |-> <<x, task[x]>>]
  <2>1. f \in Surjection(BusyOn(mine), taken)
    BY DEF Surjection, Slots, BusyOn
  <2> HIDE DEF f, taken
  <2> QED BY <1>4, <2>1, FS_Surjection, FS_CardinalityType
<1>6. Cardinality(taken) < MaxLeases[mine]
  <2> HIDE DEF taken
  <2> QED BY <1>4, <1>5
<1>7. Pool!Taken(mine) = taken
  BY DEF Pool!Taken, Slots
<1>8. Slots' = Slots \cup {a} /\ a \notin Slots
  BY <1>1 DEF Slots, Busy, At
<1>9. Pool!Cardinality(Pool!Taken(mine)) < MaxLeases[mine]
  BY <1>6, <1>7, SameCount
<1>10. Pool!Admit
  <2>1. a[2] = task[r] /\ a \in Slots' \ (Slots \cup {})
    BY <1>8
  <2> QED BY <1>8, <1>9, <2>1 DEF Pool!Admit, Slots
<1> QED BY <1>10 DEF Pool!Next

\* The gate's answer is as good as an atomic one: while runs end in time and
\* operators only reconcile, v1 implements the same abstract pool as v2.  Each
\* step of it starts a planner or worker when fewer than max_active_leases of
\* its profile are at work at that instant, ends one, or does nothing to them.
THEOREM ImplementsPoolHolds ==
  ASSUME InTime, Kinds \subseteq {"reconcile"}
  PROVE  Spec => Pool!Spec
<1>1. Init => Pool!Init
  BY DEF Init, Pool!Init, Busy, At
<1>2. ASSUME TypeInv, InTimeInv, [Next]_vars
      PROVE  Pool!Next \/ UNCHANGED Pool!vars
  <2>1. ASSUME Slots' = Slots  PROVE UNCHANGED Pool!vars
    BY <2>1 DEF Pool!vars, Slots
  <2>2. ASSUME NEW r \in Runs, RunStep(r) \/ Crash(r) \/ CallRaises(r)
        PROVE  Pool!Next \/ UNCHANGED Pool!vars
    <3>1. /\ UNCHANGED task /\ \A x \in Runs \ {r} : pc'[x] = pc[x]
          /\ pc'[r] \in {"plan", "work"} => pc[r] = "gate" /\ Gate(r)
      BY <1>2, <2>2, RunMoves
    <3>2. CASE pc'[r] \in {"plan", "work"}
      BY <1>2, <3>1, <3>2, GateAdmits
    <3>3. CASE pc'[r] \notin {"plan", "work"} /\ Busy(r)
      <4> DEFINE a == <<r, task[r]>>
      <4>1. a \in Slots /\ Slots' = Slots \ {a}
        BY <3>1, <3>3 DEF Slots, Busy, At
      <4>2. Pool!Return
        BY <4>1 DEF Pool!Return, Slots
      <4> QED BY <4>2 DEF Pool!Next
    <3>4. CASE pc'[r] \notin {"plan", "work"} /\ ~Busy(r)
      <4>1. Slots' = Slots
        BY <3>1, <3>4 DEF Slots, Busy, At
      <4> QED BY <2>1, <4>1
    <3> QED BY <3>2, <3>3, <3>4
  <2>3. ASSUME NEW r \in Runs, NEW t \in Tasks, AcquireLease(r, t)
        PROVE  Pool!Next \/ UNCHANGED Pool!vars
    <3>1. ~Busy(r) /\ ~Busy(r)' /\ \A x \in Runs \ {r} : UNCHANGED <<pc[x], task[x]>>
      BY <1>2, <2>3 DEF AcquireLease, Busy, At, Goto, TypeInv, TypeOK
    <3>2. Slots' = Slots
      BY <3>1 DEF Slots, Busy, At
    <3> QED BY <2>1, <3>2
  <2>4. CASE \/ Tick \/ UNCHANGED vars
             \/ \E o \in Operators : \/ \E k \in Kinds, t \in Tasks : Command(o, k, t)
                                     \/ Reconcile(o) \/ OperatorStep(o)
    <3>1. UNCHANGED run
      BY <2>4 DEF Tick, vars, Command, Reconcile, OperatorStep, LoadRecords, LedgerMissing,
         Scan, ScanDone, ReleaseTaskLeases, UpdateLedger, UpdateRow, RefreshCloseout
    <3>2. Slots' = Slots
      BY <3>1 DEF Slots, Busy, At, run
    <3> QED BY <2>1, <3>2
  <2> QED BY <1>2, <2>2, <2>3, <2>4 DEF Next
<1>3. TypeInv /\ InTimeInv /\ [Next]_vars => [Pool!Next]_(Pool!vars)
  BY <1>2
<1> QED BY <1>1, <1>3, InTimeHolds, PTL DEF Spec, Pool!Spec

---------------------------------------------------------------------------
\* Files

\* A row finds the files it names, and a review or a completion has the result
\* of its own run.
Good(row) ==
  /\ row.state \in Recorded => ledgers[row.run] # NoLedger
  /\ row.result # NoRun => results[row.result] # "none"
  /\ row.state = "needs_review" =>
       row.result = row.run /\ results[row.run] = "needs_review"
  /\ row.state = "completed" =>
       row.result = row.run /\ results[row.run] \in {"succeeded", "needs_review"}

\* The files of a run that is about to write its row, and what every copy of a
\* row held by an operator still says.
RunFiles(r) ==
  /\ pc[r] \in {"bundle", "row"} => ledgers[r] # NoLedger
  /\ pc[r] = "row" /\ handler[r] = "try" => results[r] = ResultStatus(outcome[r])
  /\ results[r] # "none" =>
       pc[r] \in {"row", "event", "release", "ended"} \/ handler[r] = "except"

CopiesGood(o) ==
  /\ Good(record[o].row)
  /\ \A e \in scan[o] : Good(e.row)
  /\ opc[o] \in {"row", "closeout"} => ledgers[record[o].row.run] # NoLedger

FilesInv ==
  /\ \A t \in Tasks : Good(rows[t])
  /\ \A r \in Runs : RunFiles(r)
  /\ \A o \in Operators : CopiesGood(o)

\* Ledgers and results, once written, are not removed, nor does a result ever
\* change its status.
FilesStay ==
  /\ \A r \in Runs : ledgers[r] # NoLedger => ledgers'[r] # NoLedger
  /\ \A r \in Runs : results[r] # "none" => results'[r] = results[r]

LEMMA GoodStays ==
  ASSUME FilesStay
  PROVE  \A row \in Row \cup {NoRow} : Good(row) => Good(row)'
<1>. SUFFICES ASSUME NEW row \in Row \cup {NoRow}, Good(row)
              PROVE  Good(row)'
  OBVIOUS
<1>1. CASE row \in Row
  <2>1. row.run \in Runs /\ row.result \in Runs \cup {NoRun}
    BY <1>1 DEF Row
  <2>2. row.state \in {"needs_review", "completed"} => results'[row.run] = results[row.run]
    BY <2>1 DEF Good, FilesStay
  <2>3. row.result # NoRun => results'[row.result] # "none"
    BY <2>1 DEF Good, FilesStay
  <2>4. row.state \in Recorded => ledgers'[row.run] # NoLedger
    BY <2>1 DEF Good, FilesStay
  <2>. QED  BY <2>2, <2>3, <2>4 DEF Good
<1>2. CASE row = NoRow
  BY <1>2 DEF Good, NoRow, Recorded, RunStates, Ops
<1>. QED  BY <1>1, <1>2

LEMMA FilesStayStep ==
  ASSUME TypeInv, FilesInv, [Next]_vars
  PROVE  FilesStay
<1>1. ASSUME NEW r \in Runs, WriteLedger(r)
      PROVE  FilesStay
  <2>1. outcome[r] # "absent" /\ results' = results
    BY <1>1 DEF WriteLedger, TypeInv, Phase, At, RunStates
  <2>2. ledgers'[r] # NoLedger
    BY <1>1, <2>1 DEF WriteLedger, NoLedger, TypeInv, TypeOK
  <2>3. \A x \in Runs \ {r} : ledgers'[x] = ledgers[x]
    BY <1>1 DEF WriteLedger, TypeInv, TypeOK
  <2>. QED  BY <2>1, <2>2, <2>3 DEF FilesStay
<1>2. ASSUME NEW r \in Runs, WriteBundle(r)
      PROVE  FilesStay
  <2>1. results[r] = "none"
    BY <1>2 DEF WriteBundle, At, FilesInv, RunFiles, TypeInv, Phase
  <2>. QED  BY <1>2, <2>1 DEF WriteBundle, FilesStay, TypeInv, TypeOK
<1>3. ASSUME NEW o \in Operators, UpdateLedger(o)
      PROVE  FilesStay
  <2>. DEFINE row == record[o].row
  <2>1. TargetState(kind[o]) # "absent" /\ results' = results /\ row.run \in Runs
    BY <1>3 DEF UpdateLedger, TargetState, TypeInv, Loaded, OAt, Row
  <2>2. ledgers'[row.run] # NoLedger
    BY <1>3, <2>1 DEF UpdateLedger, NoLedger, TypeInv, TypeOK
  <2>3. \A x \in Runs \ {row.run} : ledgers'[x] = ledgers[x]
    BY <1>3 DEF UpdateLedger, TypeInv, TypeOK
  <2>. QED  BY <2>1, <2>2, <2>3 DEF FilesStay
<1>4. CASE ~ \/ \E r \in Runs : WriteLedger(r) \/ WriteBundle(r)
             \/ \E o \in Operators : UpdateLedger(o)
  <2>1. UNCHANGED <<ledgers, results>>
    BY <1>4 DEF Next, RunStep, OperatorStep, AcquireLease, MarkRunning, Gate,
       PlannerDone, WorkerDone, WorkFails, WriteRow, AppendEvent, ReleaseLease,
       Tick, Crash, CallRaises, Command, Reconcile, LoadRecords, LedgerMissing,
       Scan, ScanDone, ReleaseTaskLeases, UpdateRow, RefreshCloseout, files, vars
  <2>. QED  BY <2>1 DEF FilesStay
<1>. QED  BY <1>1, <1>2, <1>3, <1>4

\* The rows and the copies of rows that no step but these touches.
LEMMA RowsGood ==
  ASSUME TypeInv, FilesInv, FilesStay, [Next]_vars
  PROVE  \A t \in Tasks : Good(rows[t])'
<1>. /\ rows \in [Tasks -> RowType] /\ \A t \in Tasks : rows[t] \in Row \cup {NoRow}
     /\ \A row \in Row \cup {NoRow} : Good(row) => Good(row)'
  BY GoodStays DEF TypeInv, TypeOK
<1>1. ASSUME UNCHANGED rows
      PROVE  \A t \in Tasks : Good(rows[t])'
  BY <1>1 DEF FilesInv
<1>2. ASSUME NEW t \in Tasks, NEW new,
             rows' = [rows EXCEPT ![t] = new], Good(new)'
      PROVE  \A x \in Tasks : Good(rows[x])'
  <2>1. rows'[t] = new /\ \A x \in Tasks \ {t} : rows'[x] = rows[x]
    BY <1>2
  <2>2. \A x \in Tasks \ {t} : Good(rows[x])'
    BY <2>1 DEF FilesInv
  <2>. QED  BY <1>2, <2>1, <2>2
<1>3. ASSUME NEW r \in Runs, MarkRunning(r)
      PROVE  \A t \in Tasks : Good(rows[t])'
  <2>. task[r] \in Tasks
    BY <1>3 DEF MarkRunning, TypeInv, Phase, At
  <2>. PICK new : new = [state |-> "running", run |-> r, attempt |-> RunAttempt,
                         result |-> rows[task[r]].result]
    OBVIOUS
  <2>1. rows' = [rows EXCEPT ![task[r]] = new] /\ UNCHANGED <<ledgers, results>>
    BY <1>3 DEF MarkRunning, Upsert, files
  <2>2. rows[task[r]].result # NoRun => results[rows[task[r]].result] # "none"
    BY DEF FilesInv, Good
  <2>3. Good(new)'
    BY <2>1, <2>2 DEF Good, Recorded, RunStates, Ops
  <2>. QED  BY <1>2, <2>1, <2>3
<1>4. ASSUME NEW r \in Runs, WriteRow(r)
      PROVE  \A t \in Tasks : Good(rows[t])'
  <2>. task[r] \in Tasks /\ outcome[r] \in RunStates
    BY <1>4 DEF WriteRow, TypeInv, Phase, At
  <2>. PICK new : new = [state |-> outcome[r], run |-> r, attempt |-> RunAttempt,
                         result |-> IF handler[r] = "try" THEN r
                                    ELSE rows[task[r]].result]
    OBVIOUS
  <2>1. rows' = [rows EXCEPT ![task[r]] = new] /\ UNCHANGED <<ledgers, results>>
    BY <1>4, ConstantsAssumption DEF WriteRow, Upsert, files
  <2>2. ledgers[r] # NoLedger
    BY <1>4 DEF WriteRow, FilesInv, RunFiles, At
  <2>3. CASE handler[r] = "try"
    <3>1. results[r] = ResultStatus(outcome[r])
      BY <1>4, <2>3 DEF WriteRow, FilesInv, RunFiles, At
    <3>2. /\ results[r] # "none"
          /\ outcome[r] = "needs_review" => results[r] = "needs_review"
          /\ outcome[r] = "completed" => results[r] = "succeeded"
      BY <3>1 DEF ResultStatus, RunStates
    <3>3. Good(new)'
      BY <2>1, <2>2, <2>3, <3>2 DEF Good
    <3>. QED  BY <1>2, <2>1, <3>3
  <2>4. CASE handler[r] # "try"
    <3>1. outcome[r] = "failed"
      BY <1>4, <2>4 DEF WriteRow, TypeInv, TypeOK, Phase, At
    <3>2. rows[task[r]].result # NoRun => results[rows[task[r]].result] # "none"
      BY DEF FilesInv, Good
    <3>3. Good(new)'
      BY <2>1, <2>2, <2>4, <3>1, <3>2 DEF Good
    <3>. QED  BY <1>2, <2>1, <3>3
  <2>. QED  BY <2>3, <2>4
<1>5. ASSUME NEW o \in Operators, UpdateRow(o)
      PROVE  \A t \in Tasks : Good(rows[t])'
  <2>. PICK row \in Row : row = record[o].row
    BY <1>5 DEF UpdateRow, TypeInv, Loaded, OAt
  <2>. PICK t \in Tasks : t = record[o].task
    BY <1>5 DEF UpdateRow, TypeInv, Loaded, OAt
  <2>. PICK state : state = TargetState(kind[o])
    OBVIOUS
  <2>. PICK new : new = [state |-> state, run |-> row.run,
                         attempt |-> NewAttempt(kind[o], row),
                         result |-> IF row.result = NoRun THEN rows[t].result
                                    ELSE row.result]
    OBVIOUS
  <2>1. rows' = [rows EXCEPT ![t] = new] /\ UNCHANGED <<ledgers, results>>
    BY <1>5 DEF UpdateRow, Upsert, files
  <2>2. /\ ledgers[row.run] # NoLedger /\ Good(row) /\ Good(rows[t])
        /\ row.run \in Runs
    BY <1>5 DEF UpdateRow, FilesInv, CopiesGood, OAt, Row
  <2>3. state = "completed" => row.state = "needs_review"
    BY <1>5 DEF UpdateRow, TargetState, TypeInv, Loaded, OAt
  <2>4. state # "needs_review"
    BY DEF TargetState
  <2>5. new.result # NoRun => results[new.result] # "none"
    BY <2>2 DEF Good
  <2>6. state = "completed" => new.result = new.run /\ results[new.run] = "needs_review"
    BY <2>2, <2>3, ConstantsAssumption DEF Good
  <2>7. new.state = state /\ new.run = row.run
    OBVIOUS
  <2>. HIDE DEF TargetState
  <2>8. Good(new)'
    BY <2>1, <2>2, <2>4, <2>5, <2>6, <2>7 DEF Good
  <2>. QED  BY <1>2, <2>1, <2>8
<1>6. CASE ~ \/ \E r \in Runs : MarkRunning(r) \/ WriteRow(r)
             \/ \E o \in Operators : UpdateRow(o)
  <2>1. UNCHANGED rows
    BY <1>6 DEF Next, RunStep, OperatorStep, AcquireLease, Gate, PlannerDone,
       WorkerDone, WorkFails, WriteLedger, WriteBundle, AppendEvent,
       ReleaseLease, Tick, Crash, CallRaises, Command, Reconcile, LoadRecords,
       LedgerMissing, Scan, ScanDone, ReleaseTaskLeases, UpdateLedger,
       RefreshCloseout, db, vars
  <2>. QED  BY <1>1, <2>1
<1>. QED  BY <1>3, <1>4, <1>5, <1>6

\* A run writes its ledger and then its result before it comes to its row.
LEMMA RunFilesStep ==
  ASSUME TypeInv, FilesInv, FilesStay, [Next]_vars
  PROVE  \A r \in Runs : RunFiles(r)'
<1>. /\ pc \in [Runs -> {"unused", "mark", "gate", "plan", "work", "ledger",
                         "bundle", "row", "event", "release", "ended"}]
     /\ results \in [Runs -> {"none", "succeeded", "waiting_handoff",
                              "needs_review", "failed"}]
     /\ outcome \in [Runs -> RunStates \cup {"none"}]
     /\ handler \in [Runs -> {"none", "try", "except"}]
     /\ \A r \in Runs : RunFiles(r) /\ Phase(r)
  BY DEF TypeInv, TypeOK, FilesInv
<1>1. ASSUME NEW r \in Runs, \A x \in Runs \ {r} :
               pc'[x] = pc[x] /\ handler'[x] = handler[x] /\ outcome'[x] = outcome[x]
                 /\ results'[x] = results[x],
             RunFiles(r)'
      PROVE  \A x \in Runs : RunFiles(x)'
  <2>1. \A x \in Runs \ {r} : RunFiles(x)'
    BY <1>1 DEF RunFiles, FilesStay
  <2>. QED  BY <1>1, <2>1
<1>2. ASSUME UNCHANGED <<pc, handler, outcome, results>>
      PROVE  \A x \in Runs : RunFiles(x)'
  BY <1>2 DEF RunFiles, FilesStay
<1>3. ASSUME NEW r \in Runs, NEW t \in Tasks, AcquireLease(r, t)
      PROVE  \A x \in Runs : RunFiles(x)'
  BY <1>1, <1>3 DEF AcquireLease, At, Goto, RunFiles, Phase, files
<1>4. ASSUME NEW r \in Runs, MarkRunning(r) \/ Gate(r) \/ PlannerDone(r)
               \/ WorkerDone(r) \/ WorkFails(r)
      PROVE  \A x \in Runs : RunFiles(x)'
  <2>1. /\ pc[r] \in {"mark", "gate", "plan", "work"} /\ results' = results
        /\ \A x \in Runs \ {r} : pc'[x] = pc[x] /\ handler'[x] = handler[x]
                                 /\ outcome'[x] = outcome[x]
        /\ pc'[r] \in {"gate", "plan", "work", "ledger"}
    BY <1>4 DEF MarkRunning, Gate, PlannerDone, WorkerDone, WorkFails, EnterExcept,
       At, Goto, files
  <2>2. results[r] = "none"
    BY <2>1 DEF RunFiles, Phase
  <2>3. RunFiles(r)'
    BY <2>1, <2>2 DEF RunFiles
  <2>. QED  BY <1>1, <2>1, <2>3
<1>5. ASSUME NEW r \in Runs, WriteLedger(r)
      PROVE  \A x \in Runs : RunFiles(x)'
  <2>1. outcome[r] # "absent"
    BY <1>5 DEF WriteLedger, At, Phase, RunStates
  <2>2. ledgers'[r] # NoLedger
    BY <1>5, <2>1 DEF WriteLedger, NoLedger, TypeInv, TypeOK
  <2>3. /\ pc' = [pc EXCEPT ![r] = IF handler[r] = "try" THEN "bundle" ELSE "row"]
        /\ pc[r] = "ledger" /\ UNCHANGED <<results, handler, outcome>>
    BY <1>5 DEF WriteLedger, At, Goto
  <2>4. RunFiles(r)'
    BY <2>2, <2>3 DEF RunFiles, Phase
  <2>. QED  BY <1>1, <2>3, <2>4
<1>6. ASSUME NEW r \in Runs, WriteBundle(r)
      PROVE  \A x \in Runs : RunFiles(x)'
  <2>1. /\ pc[r] = "bundle" /\ pc' = [pc EXCEPT ![r] = "row"]
        /\ results' = [results EXCEPT ![r] = ResultStatus(outcome[r])]
        /\ UNCHANGED <<ledgers, handler, outcome>>
    BY <1>6 DEF WriteBundle, At, Goto
  <2>2. RunFiles(r)'
    BY <2>1 DEF RunFiles, ResultStatus
  <2>. QED  BY <1>1, <2>1, <2>2
<1>7. ASSUME NEW r \in Runs, WriteRow(r) \/ AppendEvent(r)
      PROVE  \A x \in Runs : RunFiles(x)'
  <2>1. /\ pc[r] \in {"row", "event"} /\ UNCHANGED <<results, handler, outcome>>
        /\ \E label \in {"event", "release"} : pc' = [pc EXCEPT ![r] = label]
    BY <1>7 DEF WriteRow, AppendEvent, At, Goto, files
  <2>2. RunFiles(r)'
    BY <2>1 DEF RunFiles
  <2>. QED  BY <1>1, <2>1, <2>2
<1>8. ASSUME NEW r \in Runs, ReleaseLease(r) \/ Crash(r)
      PROVE  \A x \in Runs : RunFiles(x)'
  <2>1. /\ End(r) /\ results' = results
    BY <1>8 DEF ReleaseLease, Crash, files
  <2>. QED  BY <1>1, <2>1 DEF End, Goto, RunFiles
<1>9. ASSUME NEW r \in Runs, CallRaises(r)
      PROVE  \A x \in Runs : RunFiles(x)'
  <2>. results' = results
    BY <1>9 DEF CallRaises, files
  <2>1. CASE At(r, "release")
    <3>1. End(r)
      BY <1>9, <2>1 DEF CallRaises
    <3>. QED  BY <1>1, <3>1 DEF End, Goto, RunFiles
  <2>2. CASE ~At(r, "release") /\ handler[r] = "try"
    <3>1. EnterExcept(r)
      BY <1>9, <2>2 DEF CallRaises
    <3>. QED  BY <1>1, <3>1 DEF EnterExcept, Goto, RunFiles
  <2>3. CASE ~At(r, "release") /\ handler[r] # "try"
    <3>1. Goto(r, "release") /\ UNCHANGED <<outcome, handler>>
      BY <1>9, <2>3 DEF CallRaises
    <3>. QED  BY <1>1, <3>1 DEF Goto, RunFiles
  <2>. QED  BY <2>1, <2>2, <2>3
<1>10. CASE \/ Tick \/ UNCHANGED vars
            \/ \E o \in Operators : \/ \E k \in Kinds, t \in Tasks : Command(o, k, t)
                                    \/ Reconcile(o) \/ OperatorStep(o)
  <2>1. UNCHANGED <<pc, handler, outcome, results>>
    BY <1>10 DEF Tick, vars, Command, Reconcile, OperatorStep, LoadRecords, LedgerMissing,
       Scan, ScanDone, ReleaseTaskLeases, UpdateLedger, UpdateRow, RefreshCloseout,
       run, files
  <2>. QED  BY <1>2, <2>1
<1>. QED  BY <1>3, <1>4, <1>5, <1>6, <1>7, <1>8, <1>9, <1>10 DEF Next, RunStep

\* A copy of a row that was right stays right, however old it is.
LEMMA CopiesStep ==
  ASSUME TypeInv, FilesInv, FilesStay, [Next]_vars
  PROVE  \A o \in Operators : CopiesGood(o)'
<1>. /\ \A t \in Tasks : rows[t] \in Row \cup {NoRow} /\ Good(rows[t])
     /\ \A row \in Row \cup {NoRow} : Good(row) => Good(row)'
     /\ \A o \in Operators : Loaded(o) /\ CopiesGood(o)
  BY GoodStays DEF TypeInv, FilesInv
<1>. /\ record \in [Operators -> [task: Tasks \cup {NoTask}, row: RowType]]
     /\ scan \in [Operators -> SUBSET [task: Tasks, row: RowType]]
     /\ opc \in [Operators -> {"idle", "load", "scan", "release", "ledger", "row",
                               "closeout"}]
  BY DEF TypeInv, TypeOK
<1>1. ASSUME NEW o \in Operators, record'[o] = record[o], scan'[o] \subseteq scan[o],
             opc'[o] \in {"row", "closeout"} => opc[o] \in {"row", "closeout"}
      PROVE  CopiesGood(o)'
  <2>1. PICK row \in Row \cup {NoRow} : row = record[o].row /\ Good(row)
    BY DEF Loaded, CopiesGood
  <2>2. Good(row)'
    BY <2>1
  <2>4. \A e \in scan[o] : Good(e.row)'
    BY DEF Loaded, CopiesGood
  <2>3. opc'[o] \in {"row", "closeout"} => ledgers'[row.run] # NoLedger
    BY <1>1, <2>1 DEF Loaded, CopiesGood, FilesStay, Row
  <2>. QED  BY <1>1, <2>1, <2>2, <2>3, <2>4 DEF CopiesGood
<1>2. ASSUME NEW o \in Operators,
             \A x \in Operators \ {o} : /\ record'[x] = record[x] /\ scan'[x] = scan[x]
                                        /\ opc'[x] = opc[x],
             CopiesGood(o)'
      PROVE  \A x \in Operators : CopiesGood(x)'
  BY <1>1, <1>2
<1>3. ASSUME UNCHANGED <<record, scan, opc>>
      PROVE  \A x \in Operators : CopiesGood(x)'
  BY <1>1, <1>3
<1>4. ASSUME NEW o \in Operators, Finish(o)
      PROVE  \A x \in Operators : CopiesGood(x)'
  <2>1. record'[o] = NoRecord /\ scan'[o] = {} /\ opc'[o] = "idle"
    BY <1>4 DEF Finish, OGoto
  <2>2. Good(NoRow)'
    BY DEF Good, NoRow, Recorded, RunStates, Ops
  <2>3. CopiesGood(o)'
    BY <2>1, <2>2 DEF CopiesGood, NoRecord
  <2>. QED  BY <1>2, <1>4, <2>3 DEF Finish, OGoto
<1>5. ASSUME NEW o \in Operators, NEW k \in Kinds, NEW t \in Tasks, Command(o, k, t)
      PROVE  \A x \in Operators : CopiesGood(x)'
  <2>1. record'[o].row = rows[t] /\ scan'[o] = scan[o] /\ opc'[o] = "release"
    BY <1>5 DEF Command, OGoto
  <2>2. Good(rows[t])' /\ rows' = rows
    BY <1>5, RowsGood DEF Command, db
  <2>3. \A e \in scan[o] : Good(e.row)'
    BY DEF Loaded, CopiesGood
  <2>4. CopiesGood(o)'
    BY <2>1, <2>2, <2>3 DEF CopiesGood
  <2>. QED  BY <1>2, <1>5, <2>4 DEF Command, OGoto
<1>6. ASSUME NEW o \in Operators, LoadRecords(o)
      PROVE  \A x \in Operators : CopiesGood(x)'
  <2>1. /\ \A e \in scan'[o] : \E t \in Tasks : e.row = rows[t]
        /\ record' = record /\ opc'[o] = "scan" /\ rows' = rows
    BY <1>6 DEF LoadRecords, OGoto, db
  <2>2. \A e \in scan'[o] : Good(e.row)'
    <3>. SUFFICES ASSUME NEW e \in scan'[o] PROVE Good(e.row)'
      OBVIOUS
    <3>. PICK t \in Tasks : e.row = rows[t]
      BY <2>1
    <3>. PICK row \in Row \cup {NoRow} : row = rows[t] /\ Good(row)
      OBVIOUS
    <3>1. Good(row)'
      OBVIOUS
    <3>2. e.row = row
      OBVIOUS
    <3>. QED  BY <3>1, <3>2 DEF Good
  <2>3. PICK row \in Row \cup {NoRow} : row = record[o].row /\ Good(row)
    BY DEF Loaded, CopiesGood
  <2>4. Good(row)' /\ record'[o].row = row
    BY <2>1, <2>3
  <2>5. CopiesGood(o)'
    BY <2>1, <2>2, <2>4 DEF CopiesGood
  <2>. QED  BY <1>2, <1>6, <2>5 DEF LoadRecords, OGoto
<1>7. ASSUME NEW o \in Operators, Scan(o)
      PROVE  \A x \in Operators : CopiesGood(x)'
  <2>. PICK e \in scan[o] :
         /\ scan' = [scan EXCEPT ![o] = @ \ {e}]
         /\ \/ record' = [record EXCEPT ![o] = e] /\ OGoto(o, "ledger")
            \/ UNCHANGED <<record, opc>>
    BY <1>7 DEF Scan
  <2>1. CASE record' = [record EXCEPT ![o] = e] /\ OGoto(o, "ledger")
    <3>1. record'[o] = e /\ scan'[o] \subseteq scan[o] /\ opc'[o] = "ledger"
      BY <2>1 DEF OGoto
    <3>2. \A d \in scan[o] : Good(d.row)'
      BY DEF Loaded, CopiesGood
    <3>3. CopiesGood(o)'
      BY <3>1, <3>2 DEF CopiesGood
    <3>. QED  BY <1>2, <2>1, <3>3 DEF OGoto
  <2>2. CASE UNCHANGED <<record, opc>>
    <3>1. \A x \in Operators : scan'[x] \subseteq scan[x]
      OBVIOUS
    <3>. QED  BY <1>1, <2>2, <3>1
  <2>. QED  BY <2>1, <2>2
<1>8. ASSUME NEW o \in Operators, UpdateLedger(o)
      PROVE  \A x \in Operators : CopiesGood(x)'
  <2>1. /\ UNCHANGED <<record, scan>> /\ opc'[o] = "row" /\ opc[o] = "ledger"
        /\ ledgers[record[o].row.run] # NoLedger
    BY <1>8 DEF UpdateLedger, OGoto, OAt
  <2>2. record[o].row \in Row
    BY <2>1 DEF Loaded
  <2>3. ledgers'[record[o].row.run] # NoLedger
    BY <2>1, <2>2 DEF FilesStay, Row
  <2>4. PICK row \in Row : row = record[o].row /\ Good(row)
    BY <2>2 DEF CopiesGood
  <2>5. Good(row)' /\ record'[o].row = row /\ \A e \in scan'[o] : Good(e.row)'
    BY <2>1, <2>4 DEF Loaded, CopiesGood
  <2>6. CopiesGood(o)'
    BY <2>1, <2>3, <2>5 DEF CopiesGood
  <2>. QED  BY <1>2, <1>8, <2>6 DEF UpdateLedger, OGoto
<1>9. ASSUME NEW o \in Operators,
             Reconcile(o) \/ ReleaseTaskLeases(o) \/ UpdateRow(o)
               \/ (RefreshCloseout(o) /\ kind[o] = "reconcile")
      PROVE  \A x \in Operators : CopiesGood(x)'
  <2>1. /\ UNCHANGED <<record, scan>>
        /\ \A x \in Operators : opc'[x] \in {"row", "closeout"} => opc[x] \in {"row", "closeout"}
    BY <1>9 DEF Reconcile, ReleaseTaskLeases, UpdateRow, RefreshCloseout, OGoto, OAt
  <2>. QED  BY <1>1, <2>1
<1>10. ASSUME NEW o \in Operators, OperatorStep(o) \/ Reconcile(o)
       PROVE  \A x \in Operators : CopiesGood(x)'
  BY <1>4, <1>6, <1>7, <1>8, <1>9, <1>10 DEF OperatorStep, LedgerMissing, ScanDone, RefreshCloseout
<1>11. CASE UNCHANGED oper
  BY <1>3, <1>11 DEF oper
<1>12. ASSUME NEW r \in Runs, RunStep(r) \/ Crash(r) \/ CallRaises(r)
       PROVE  UNCHANGED oper
  BY <1>12 DEF RunStep, MarkRunning, Gate, PlannerDone, WorkerDone, WorkFails,
     WriteLedger, WriteBundle, WriteRow, AppendEvent, ReleaseLease, Crash, CallRaises
<1>13. CASE \/ Tick \/ UNCHANGED vars
            \/ \E r \in Runs, t \in Tasks : AcquireLease(r, t)
  BY <1>11, <1>13 DEF Tick, vars, AcquireLease
<1>. QED  BY <1>5, <1>10, <1>11, <1>12, <1>13 DEF Next

LEMMA FilesHold == Spec => [](TypeInv /\ FilesInv)
<1>1. Init => FilesInv
  <2>. SUFFICES ASSUME Init PROVE FilesInv
    OBVIOUS
  <2>1. Good(NoRow)
    BY DEF Good, NoRow, Recorded, RunStates, Ops
  <2>2. NoRecord.row = NoRow
    BY DEF NoRecord
  <2>. QED  BY <2>1, <2>2 DEF Init, FilesInv, RunFiles, CopiesGood
<1>2. TypeInv /\ FilesInv /\ [Next]_vars => FilesInv'
  BY FilesStayStep, RowsGood, RunFilesStep, CopiesStep DEF FilesInv
<1>. QED  BY <1>1, <1>2, TypedAndLeased, PTL DEF Spec

\* A row that records the end of a run or a command names a run with a ledger,
\* and a result_path names a result that exists, whatever operators do with old
\* records and however runs are cut short.
THEOREM RowFindsFilesHolds == Spec => []RowFindsFiles
<1>1. FilesInv => RowFindsFiles
  BY DEF FilesInv, Good, RowFindsFiles
<1>. QED  BY <1>1, FilesHold, PTL

\* No mix of old records, retries and late runs completes a task without a
\* result of its own run that succeeded or was up for review.
THEOREM CompletedBackedHolds == Spec => []CompletedBacked
<1>1. FilesInv => CompletedBacked
  BY DEF FilesInv, Good, CompletedBacked
<1>. QED  BY <1>1, FilesHold, PTL

-----------------------------------------------------------------------------
(* Rows and ledgers.  The run alone writes both until it has ended, and    *)
(* reconcile touches them only when it was killed before its row.          *)

\* A run that ended before it wrote its row.
Killed(r) ==
  /\ pc[r] = "ended"
  /\ \A t \in Tasks : rows[t].run = r => rows[t].state \in {"running", "stale"}

RunTells(r) ==
  /\ pc[r] = "unused" => ledgers[r] = NoLedger
  /\ pc[r] \in {"bundle", "row"} => ledgers[r].status = outcome[r]
  /\ ledgers[r] # NoLedger => ledgers[r].stale_after = expires[r]

RowTells(t, r) ==
  rows[t].run = r =>
    /\ task[r] = t /\ pc[r] \notin {"unused", "mark"}
    /\ rows[t].state \in RunStates \cup {"running", "stale"}
    /\ rows[t].state \in RunStates =>
         pc[r] \in {"event", "release", "ended"} /\ ledgers[r].status = rows[t].state
    /\ rows[t].state = "stale" => pc[r] = "ended" /\ ledgers[r].status = "stale"

\* A record reconcile holds names a run of its task, which was killed if it has
\* expired by the instant reconcile was started at.
Names(e) == task[e.row.run] = e.task /\ pc[e.row.run] # "unused"

ScanTells(o) ==
  /\ opc[o] # "idle" => kind[o] = "reconcile"
  /\ opc[o] \in {"idle", "load"} => scan[o] = {}
  /\ as_of[o] <= now
  /\ \A e \in scan[o] : Names(e) /\ (expires[e.row.run] <= as_of[o] => Killed(e.row.run))
  /\ opc[o] \in {"ledger", "row"} => Names(record[o]) /\ Killed(record[o].row.run)
  /\ opc[o] = "row" => ledgers[record[o].row.run].status = "stale"

Told ==
  /\ \A r \in Runs : RunTells(r)
  /\ \A t \in Tasks, r \in Runs : RowTells(t, r)
  /\ \A o \in Operators : ScanTells(o)

LedgerInv == erred = 0 => Told

\* The steps of a run that raises nothing.
LEMMA RunFrame ==
  ASSUME TypeInv, NEW r \in Runs, RunStep(r) \/ Crash(r)
  PROVE  /\ \A x \in Runs \ {r} : pc'[x] = pc[x] /\ outcome'[x] = outcome[x]
         /\ UNCHANGED <<now, task, expires, oper>>
         /\ pc[r] \notin {"unused", "ended"} /\ pc'[r] \notin {"unused", "mark"}
         /\ pc[r] \in {"event", "release"} => pc'[r] \in {"release", "ended"}
BY DEF TypeInv, TypeOK, RunStep, MarkRunning, Gate, PlannerDone, WorkerDone, WorkFails,
   EnterExcept, WriteLedger, WriteBundle, WriteRow, AppendEvent, ReleaseLease, Crash, End,
   At, Goto, Running

\* What an operator that only reconciles may do.
LEMMA ScanFrame ==
  ASSUME TypeInv, InTimeInv, Told, NEW o \in Operators, OperatorStep(o)
  PROVE  /\ UNCHANGED <<now, run>>
         /\ \A x \in Operators \ {o} : /\ opc'[x] = opc[x] /\ kind'[x] = kind[x]
                                       /\ record'[x] = record[x] /\ scan'[x] = scan[x]
                                       /\ as_of'[x] = as_of[x]
         /\ UpdateLedger(o) \/ UNCHANGED ledgers
         /\ UpdateRow(o) \/ UNCHANGED rows
<1>1. ~ReleaseTaskLeases(o)
  BY DEF ReleaseTaskLeases, OAt, InTimeInv
<1> QED BY <1>1 DEF OperatorStep, LoadRecords, LedgerMissing, Finish, Scan, ScanDone,
           UpdateLedger, UpdateRow, RefreshCloseout, OGoto, OAt, TypeInv, TypeOK, db, files

\* The two writes of reconcile.
LEMMA StaleLedger ==
  ASSUME TypeInv, Told, NEW o \in Operators, UpdateLedger(o)
  PROVE  /\ record[o].row.run \in Runs /\ Killed(record[o].row.run)
         /\ ledgers'[record[o].row.run].status = "stale"
         /\ ledgers'[record[o].row.run].stale_after = ledgers[record[o].row.run].stale_after
         /\ ledgers[record[o].row.run] # NoLedger
         /\ \A x \in Runs : x # record[o].row.run => ledgers'[x] = ledgers[x]
         /\ UNCHANGED <<rows, run, record, scan, kind, as_of, now>> /\ opc'[o] = "row"
<1>1. opc[o] = "ledger" /\ kind[o] = "reconcile" /\ Killed(record[o].row.run)
      /\ record[o].row.run \in Runs
  BY DEF UpdateLedger, OAt, Told, ScanTells, TypeInv, Loaded, Row
<1>2. TargetState(kind[o]) = "stale"
  BY <1>1 DEF TargetState
<1> QED BY <1>1, <1>2 DEF UpdateLedger, OGoto, TypeInv, TypeOK, db

LEMMA StaleRow ==
  ASSUME TypeInv, Told, NEW o \in Operators, UpdateRow(o)
  PROVE  /\ record[o].row.run \in Runs /\ Killed(record[o].row.run) /\ Names(record[o])
         /\ record[o].task \in Tasks
         /\ ledgers[record[o].row.run].status = "stale"
         /\ rows'[record[o].task].state = "stale"
         /\ rows'[record[o].task].run = record[o].row.run
         /\ \A t \in Tasks : t # record[o].task => rows'[t] = rows[t]
         /\ UNCHANGED <<ledgers, run, record, scan, kind, as_of, now>> /\ opc'[o] = "closeout"
<1>1. opc[o] = "row" /\ kind[o] = "reconcile" /\ Killed(record[o].row.run) /\ Names(record[o])
      /\ record[o].row.run \in Runs /\ record[o].task \in Tasks
      /\ ledgers[record[o].row.run].status = "stale"
  BY DEF UpdateRow, OAt, Told, ScanTells, TypeInv, Loaded, Row
<1>2. TargetState(kind[o]) = "stale"
  BY <1>1 DEF TargetState
<1> QED BY <1>1, <1>2 DEF UpdateRow, Upsert, OGoto, TypeInv, TypeOK, files

\* Only these write a row or a ledger.
LEMMA Untouched ==
  ASSUME TypeInv, NEW r \in Runs, RunStep(r) \/ Crash(r)
  PROVE  /\ MarkRunning(r) \/ WriteRow(r) \/ UNCHANGED rows
         /\ WriteLedger(r) \/ UNCHANGED ledgers
BY DEF RunStep, MarkRunning, Gate, PlannerDone, WorkerDone, WorkFails, WriteLedger,
   WriteBundle, WriteRow, AppendEvent, ReleaseLease, Crash, db, files

-----------------------------------------------------------------------------
(* A killed run stays killed.                                              *)

LEMMA RowWritten ==
  ASSUME TypeInv, NEW r \in Runs
  PROVE  /\ MarkRunning(r) => /\ task[r] \in Tasks /\ pc[r] = "mark" /\ pc'[r] = "gate"
                              /\ rows'[task[r]].state = "running" /\ rows'[task[r]].run = r
                              /\ \A t \in Tasks : t # task[r] => rows'[t] = rows[t]
         /\ WriteRow(r) => /\ task[r] \in Tasks /\ pc[r] = "row" /\ pc'[r] = "event"
                           /\ outcome[r] \in RunStates
                           /\ rows'[task[r]].state = outcome[r] /\ rows'[task[r]].run = r
                           /\ \A t \in Tasks : t # task[r] => rows'[t] = rows[t]
BY DEF MarkRunning, WriteRow, Upsert, At, Goto, TypeInv, TypeOK, Phase

LEMMA KilledStays ==
  ASSUME TypeInv, InTimeInv, Told, Kinds \subseteq {"reconcile"}, [Next]_vars,
         erred' = 0, NEW r \in Runs, Killed(r)
  PROVE  Killed(r)'
<1>1. pc[r] = "ended" /\ \A t \in Tasks : rows[t].run = r => rows[t].state \in {"running", "stale"}
  BY DEF Killed
<1>2. ASSUME UNCHANGED rows, pc'[r] = "ended" PROVE Killed(r)'
  BY <1>1, <1>2 DEF Killed
<1>3. ASSUME NEW x \in Runs, RunStep(x) \/ Crash(x) PROVE Killed(r)'
  <2>1. x # r /\ pc'[r] = "ended"
    BY <1>1, <1>3, RunFrame
  <2>2. ASSUME MarkRunning(x) \/ WriteRow(x) PROVE Killed(r)'
    BY <1>1, <2>1, <2>2, RowWritten DEF Killed
  <2> QED BY <1>2, <1>3, <2>1, <2>2, Untouched
<1>4. ASSUME NEW x \in Runs, NEW t \in Tasks, AcquireLease(x, t) PROVE Killed(r)'
  BY <1>1, <1>2, <1>4 DEF AcquireLease, At, Goto, TypeInv, TypeOK
<1>5. ASSUME NEW o \in Operators, OperatorStep(o) PROVE Killed(r)'
  <2>1. pc' = pc
    BY <1>5, ScanFrame DEF run
  <2>2. ASSUME UpdateRow(o) PROVE Killed(r)'
    BY <1>1, <2>1, <2>2, StaleRow DEF Killed
  <2> QED BY <1>1, <1>2, <1>5, <2>1, <2>2, ScanFrame
<1>6. ASSUME NEW o \in Operators, Reconcile(o) PROVE Killed(r)'
  BY <1>1, <1>2, <1>6 DEF Reconcile, run
<1>7. ASSUME Tick \/ UNCHANGED vars PROVE Killed(r)'
  BY <1>1, <1>2, <1>7 DEF Tick, vars, run, db
<1>8. \A x \in Runs : ~CallRaises(x)
  BY DEF CallRaises, TypeInv, TypeOK
<1>9. \A o \in Operators, k \in Kinds, t \in Tasks : ~Command(o, k, t)
  BY DEF Command
<1> QED BY <1>3, <1>4, <1>5, <1>6, <1>7, <1>8, <1>9 DEF Next

-----------------------------------------------------------------------------
(* Runs and rows.                                                          *)

LEMMA RunsTold ==
  ASSUME TypeInv, InTimeInv, Told, Kinds \subseteq {"reconcile"}, [Next]_vars, erred' = 0
  PROVE  \A x \in Runs : RunTells(x)'
<1>1. ASSUME UNCHANGED <<pc, outcome, expires, ledgers>> PROVE \A x \in Runs : RunTells(x)'
  BY <1>1 DEF Told, RunTells
<1>2. ASSUME NEW r \in Runs, RunStep(r) \/ Crash(r) PROVE \A x \in Runs : RunTells(x)'
  <2>1. \A x \in Runs \ {r} : ledgers'[x] = ledgers[x] /\ pc'[x] = pc[x] /\ outcome'[x] = outcome[x]
    BY <1>2, RunFrame, Untouched DEF WriteLedger, TypeInv, TypeOK
  <2>2. expires' = expires /\ pc'[r] # "unused"
    BY <1>2, RunFrame
  <2>3. RunTells(r)'
    <3>1. CASE WriteLedger(r)
      <4>1. /\ ledgers'[r].status = outcome[r] /\ ledgers'[r].stale_after = expires[r]
            /\ outcome' = outcome
        BY <3>1 DEF WriteLedger, TypeInv, TypeOK
      <4> QED BY <2>2, <4>1 DEF RunTells
    <3>2. CASE ~WriteLedger(r)
      <4>1. ledgers' = ledgers /\ RunTells(r)
        BY <1>2, <3>2, Untouched DEF Told
      <4>2. pc'[r] \in {"bundle", "row"} => pc[r] = "bundle" /\ outcome'[r] = outcome[r]
        BY <1>2, <3>2 DEF RunStep, MarkRunning, Gate, PlannerDone, WorkerDone, WorkFails,
           EnterExcept, WriteBundle, WriteRow, AppendEvent, ReleaseLease, Crash, End, At,
           Goto, TypeInv, TypeOK
      <4> QED BY <2>2, <4>1, <4>2 DEF RunTells
    <3> QED BY <3>1, <3>2
  <2>4. \A x \in Runs \ {r} : RunTells(x)'
    BY <2>1, <2>2 DEF Told, RunTells
  <2> QED BY <2>3, <2>4
<1>3. ASSUME NEW r \in Runs, NEW t \in Tasks, AcquireLease(r, t) PROVE \A x \in Runs : RunTells(x)'
  <2>1. /\ \A x \in Runs \ {r} : pc'[x] = pc[x] /\ expires'[x] = expires[x]
        /\ pc[r] = "unused" /\ pc'[r] = "mark" /\ UNCHANGED <<ledgers, outcome>>
    BY <1>3 DEF AcquireLease, At, Goto, TypeInv, TypeOK, files
  <2> QED BY <2>1 DEF Told, RunTells
<1>4. ASSUME NEW o \in Operators, OperatorStep(o) PROVE \A x \in Runs : RunTells(x)'
  <2>1. UNCHANGED <<pc, outcome, expires>>
    BY <1>4, ScanFrame DEF run
  <2>2. ASSUME UpdateLedger(o) PROVE \A x \in Runs : RunTells(x)'
    BY <2>1, <2>2, StaleLedger DEF Told, RunTells, Killed
  <2> QED BY <1>1, <1>4, <2>1, <2>2, ScanFrame
<1>5. ASSUME NEW o \in Operators, Reconcile(o) PROVE \A x \in Runs : RunTells(x)'
  BY <1>1, <1>5 DEF Reconcile, run, files
<1>6. ASSUME Tick \/ UNCHANGED vars PROVE \A x \in Runs : RunTells(x)'
  BY <1>1, <1>6 DEF Tick, vars, run, files
<1>7. \A x \in Runs : ~CallRaises(x)
  BY DEF CallRaises, TypeInv, TypeOK
<1>8. \A o \in Operators, k \in Kinds, t \in Tasks : ~Command(o, k, t)
  BY DEF Command
<1> QED BY <1>2, <1>3, <1>4, <1>5, <1>6, <1>7, <1>8 DEF Next

LEMMA RowsTold ==
  ASSUME TypeInv, InTimeInv, Told, Kinds \subseteq {"reconcile"}, [Next]_vars, erred' = 0
  PROVE  \A t \in Tasks, x \in Runs : RowTells(t, x)'
<1>1. ASSUME UNCHANGED <<rows, pc, task, ledgers>>
      PROVE  \A t \in Tasks, x \in Runs : RowTells(t, x)'
  BY <1>1 DEF Told, RowTells
<1>2. ASSUME NEW r \in Runs, RunStep(r) \/ Crash(r), NEW t \in Tasks, NEW x \in Runs,
             rows'[t].run = x
      PROVE  RowTells(t, x)'
  <2>1. /\ \A y \in Runs \ {r} : ledgers'[y] = ledgers[y] /\ pc'[y] = pc[y]
        /\ task' = task /\ pc'[r] \notin {"unused", "mark"}
        /\ pc[r] \notin {"unused", "ended"}
        /\ pc[r] \in {"event", "release"} => pc'[r] \in {"release", "ended"}
    BY <1>2, RunFrame, Untouched DEF WriteLedger, TypeInv, TypeOK
  <2>2. CASE rows'[t] = rows[t] /\ x # r
    BY <2>1, <2>2 DEF Told, RowTells
  <2>3. CASE rows'[t] = rows[t] /\ x = r
    <3>1. RowTells(t, r) /\ rows[t].run = r
      BY <1>2, <2>3 DEF Told
    <3>2. rows[t].state # "stale"
      BY <2>1, <3>1 DEF RowTells
    <3>3. rows[t].state \in RunStates => ledgers'[r] = ledgers[r]
      BY <1>2, <3>1, Untouched DEF RowTells, WriteLedger, At
    <3> QED BY <2>1, <2>3, <3>1, <3>2, <3>3 DEF RowTells
  <2>4. CASE rows'[t] # rows[t]
    <3>1. CASE MarkRunning(r)
      <4>1. t = task[r] /\ rows'[t].state = "running" /\ rows'[t].run = r
        BY <2>4, <3>1, RowWritten
      <4>2. "running" \notin RunStates
        BY DEF RunStates
      <4> QED BY <1>2, <2>1, <4>1, <4>2 DEF RowTells
    <3>2. CASE WriteRow(r)
      <4>1. /\ t = task[r] /\ rows'[t].state = outcome[r] /\ rows'[t].run = r
            /\ pc[r] = "row" /\ pc'[r] = "event" /\ outcome[r] \in RunStates
        BY <2>4, <3>2, RowWritten
      <4>2. ledgers' = ledgers /\ ledgers[r].status = outcome[r]
        BY <3>2, <4>1 DEF WriteRow, files, Told, RunTells
      <4>3. outcome[r] # "stale"
        BY <4>1 DEF RunStates
      <4> QED BY <1>2, <2>1, <4>1, <4>2, <4>3 DEF RowTells
    <3> QED BY <1>2, <2>4, <3>1, <3>2, Untouched
  <2> QED BY <2>2, <2>3, <2>4
<1>3. ASSUME NEW r \in Runs, NEW u \in Tasks, AcquireLease(r, u), NEW t \in Tasks, NEW x \in Runs
      PROVE  RowTells(t, x)'
  <2>1. /\ \A y \in Runs \ {r} : pc'[y] = pc[y] /\ task'[y] = task[y]
        /\ pc[r] = "unused" /\ UNCHANGED <<ledgers, rows>>
    BY <1>3 DEF AcquireLease, At, Goto, TypeInv, TypeOK, files
  <2> QED BY <2>1 DEF Told, RowTells
<1>4. ASSUME NEW o \in Operators, OperatorStep(o), NEW t \in Tasks, NEW x \in Runs
      PROVE  RowTells(t, x)'
  <2>1. UNCHANGED <<pc, task>> /\ RowTells(t, x)
    BY <1>4, ScanFrame DEF run, Told
  <2>2. ASSUME UpdateLedger(o) PROVE RowTells(t, x)'
    <3>1. CASE x = record[o].row.run /\ rows[t].run = x
      <4>1. /\ rows[t].state \in {"running", "stale"} /\ pc[x] = "ended"
            /\ rows' = rows /\ ledgers'[x].status = "stale"
        BY <2>2, <3>1, StaleLedger DEF Killed
      <4>2. rows[t].state \notin RunStates
        BY <4>1 DEF RunStates
      <4> QED BY <2>1, <4>1, <4>2 DEF RowTells
    <3>2. CASE ~(x = record[o].row.run /\ rows[t].run = x)
      BY <2>1, <2>2, <3>2, StaleLedger DEF RowTells
    <3> QED BY <3>1, <3>2
  <2>3. ASSUME UpdateRow(o) PROVE RowTells(t, x)'
    <3>1. CASE t = record[o].task
      <4>1. /\ rows'[t].state = "stale" /\ rows'[t].run = record[o].row.run
            /\ task[record[o].row.run] = t /\ pc[record[o].row.run] = "ended"
            /\ ledgers' = ledgers /\ ledgers[record[o].row.run].status = "stale"
        BY <2>3, <3>1, StaleRow DEF Killed, Names
      <4>2. "stale" \notin RunStates
        BY DEF RunStates
      <4> QED BY <2>1, <4>1, <4>2 DEF RowTells
    <3>2. CASE t # record[o].task
      BY <2>1, <2>3, <3>2, StaleRow DEF RowTells
    <3> QED BY <3>1, <3>2
  <2> QED BY <1>1, <1>4, <2>1, <2>2, <2>3, ScanFrame
<1>5. ASSUME NEW o \in Operators, Reconcile(o) PROVE \A t \in Tasks, x \in Runs : RowTells(t, x)'
  BY <1>1, <1>5 DEF Reconcile, run, files
<1>6. ASSUME Tick \/ UNCHANGED vars PROVE \A t \in Tasks, x \in Runs : RowTells(t, x)'
  BY <1>1, <1>6 DEF Tick, vars, run, files, db
<1>7. \A x \in Runs : ~CallRaises(x)
  BY DEF CallRaises, TypeInv, TypeOK
<1>8. \A o \in Operators, k \in Kinds, t \in Tasks : ~Command(o, k, t)
  BY DEF Command
<1>9. ASSUME NEW r \in Runs, RunStep(r) \/ Crash(r)
      PROVE  \A t \in Tasks, x \in Runs : RowTells(t, x)'
  <2>1. \A t \in Tasks, x \in Runs : rows'[t].run # x => RowTells(t, x)'
    BY DEF RowTells
  <2> QED BY <1>2, <1>9, <2>1
<1> QED BY <1>3, <1>4, <1>5, <1>6, <1>7, <1>8, <1>9 DEF Next

-----------------------------------------------------------------------------
(* Records.                                                                *)

\* What a scan knows it goes on knowing.
LEMMA NamesStay ==
  ASSUME TypeInv, InTimeInv, Told, Kinds \subseteq {"reconcile"}, [Next]_vars, erred' = 0,
         NEW r \in Runs, pc[r] # "unused"
  PROVE  task'[r] = task[r] /\ expires'[r] = expires[r] /\ pc'[r] # "unused"
<1>1. ASSUME NEW x \in Runs, RunStep(x) \/ Crash(x)
      PROVE  task'[r] = task[r] /\ expires'[r] = expires[r] /\ pc'[r] # "unused"
  BY <1>1, RunFrame
<1>2. ASSUME NEW x \in Runs, NEW t \in Tasks, AcquireLease(x, t)
      PROVE  task'[r] = task[r] /\ expires'[r] = expires[r] /\ pc'[r] # "unused"
  BY <1>2 DEF AcquireLease, At, Goto, TypeInv, TypeOK
<1>3. ASSUME NEW o \in Operators, OperatorStep(o) \/ Reconcile(o) PROVE UNCHANGED run
  BY <1>3, ScanFrame DEF Reconcile
<1>4. ASSUME Tick \/ UNCHANGED vars PROVE UNCHANGED run
  BY <1>4 DEF Tick, vars
<1>5. \A x \in Runs : ~CallRaises(x)
  BY DEF CallRaises, TypeInv, TypeOK
<1>6. \A o \in Operators, k \in Kinds, t \in Tasks : ~Command(o, k, t)
  BY DEF Command
<1> QED BY <1>1, <1>2, <1>3, <1>4, <1>5, <1>6 DEF Next, run

\* A scan whose operator does nothing, or drops records.
LEMMA ScanStays ==
  ASSUME TypeInv, InTimeInv, Told, Kinds \subseteq {"reconcile"}, [Next]_vars, erred' = 0,
         NEW o \in Operators, scan'[o] \subseteq scan[o], as_of'[o] \in {as_of[o], 0},
         scan'[o] # {} => as_of'[o] = as_of[o],
         opc'[o] # "idle" => kind'[o] = "reconcile",
         opc'[o] \in {"idle", "load"} => scan'[o] = {},
         opc'[o] \in {"ledger", "row"} => opc'[o] = opc[o] /\ record'[o] = record[o]
  PROVE  ScanTells(o)'
<1>1. ScanTells(o) /\ Loaded(o) /\ now \in Nat /\ now' \in Nat /\ now <= now'
      /\ as_of[o] \in Nat
  <2>1. now' \in {now, now + 1}
    BY DEF Next, RunStep, OperatorStep, AcquireLease, MarkRunning, Gate, PlannerDone,
       WorkerDone, WorkFails, WriteLedger, WriteBundle, WriteRow, AppendEvent,
       ReleaseLease, Tick, Crash, CallRaises, Command, Reconcile, LoadRecords,
       LedgerMissing, Scan, ScanDone, ReleaseTaskLeases, UpdateLedger, UpdateRow,
       RefreshCloseout, vars
  <2> QED BY <2>1 DEF Told, TypeInv, TypeOK
<1>2. as_of'[o] <= now'
  BY <1>1 DEF ScanTells
<1>3. \A e \in scan'[o] : /\ Names(e)'
                          /\ expires'[e.row.run] <= as_of'[o] => Killed(e.row.run)'
  <2> SUFFICES ASSUME NEW e \in scan'[o]
               PROVE  /\ Names(e)'
                      /\ expires'[e.row.run] <= as_of'[o] => Killed(e.row.run)'
    OBVIOUS
  <2>1. e \in scan[o] /\ as_of'[o] = as_of[o] /\ e.row.run \in Runs
    BY <1>1 DEF Loaded, Row
  <2>2. Names(e) /\ (expires[e.row.run] <= as_of[o] => Killed(e.row.run))
    BY <1>1, <2>1 DEF ScanTells
  <2>3. /\ task'[e.row.run] = task[e.row.run] /\ expires'[e.row.run] = expires[e.row.run]
        /\ pc'[e.row.run] # "unused"
    BY <2>1, <2>2, NamesStay DEF Names
  <2>4. PICK r \in Runs : r = e.row.run
    BY <2>1
  <2>5. Killed(r) => Killed(r)'
    BY KilledStays
  <2> QED BY <2>1, <2>2, <2>3, <2>4, <2>5 DEF Names, Killed
<1>4. ASSUME opc'[o] \in {"ledger", "row"}
      PROVE  /\ Names(record[o])' /\ Killed(record[o].row.run)' /\ record'[o] = record[o]
             /\ opc'[o] = "row" => ledgers'[record'[o].row.run].status = "stale"
  <2>1. /\ opc'[o] = opc[o] /\ record'[o] = record[o] /\ Names(record[o])
        /\ Killed(record[o].row.run) /\ record[o].row.run \in Runs
        /\ opc[o] = "row" => ledgers[record[o].row.run].status = "stale"
    BY <1>1, <1>4 DEF ScanTells, Loaded, Row
  <2>2. PICK r \in Runs : r = record[o].row.run
    BY <2>1
  <2>3. Killed(r) /\ Killed(r)'
    BY <2>1, <2>2, KilledStays
  <2>4. task'[r] = task[r] /\ pc'[r] # "unused"
    BY <2>1, <2>2, NamesStay DEF Names
  <2>5. ledgers[r].status = "stale" => ledgers'[r].status = "stale"
    <3>1. ASSUME NEW x \in Runs, RunStep(x) \/ Crash(x) PROVE ledgers'[r] = ledgers[r]
      <4>1. x # r
        BY <2>3, <3>1, RunFrame DEF Killed
      <4> QED BY <3>1, <4>1, Untouched DEF WriteLedger, TypeInv, TypeOK
    <3>2. ASSUME NEW x \in Operators, OperatorStep(x)
          PROVE  ledgers[r].status = "stale" => ledgers'[r].status = "stale"
      BY <3>2, ScanFrame, StaleLedger
    <3>3. CASE \/ Tick \/ UNCHANGED vars \/ \E x \in Operators : Reconcile(x)
               \/ \E x \in Runs, t \in Tasks : AcquireLease(x, t)
      BY <3>3 DEF Tick, vars, Reconcile, AcquireLease, files
    <3>4. \A x \in Runs : ~CallRaises(x)
      BY DEF CallRaises, TypeInv, TypeOK
    <3>5. \A x \in Operators, k \in Kinds, t \in Tasks : ~Command(x, k, t)
      BY DEF Command
    <3> QED BY <3>1, <3>2, <3>3, <3>4, <3>5 DEF Next
  <2> QED BY <2>1, <2>2, <2>3, <2>4, <2>5 DEF Names, Killed
<1> QED BY <1>2, <1>3, <1>4 DEF ScanTells

\* What reconcile reads: an expired record of a running task is one of a run
\* that was killed.
LEMMA LoadTold ==
  ASSUME TypeInv, InTimeInv, Told, NEW o \in Operators, LoadRecords(o), run' = run
  PROVE  ScanTells(o)'
<1>1. /\ opc[o] = "load" /\ opc'[o] = "scan" /\ kind' = kind /\ as_of' = as_of
      /\ UNCHANGED <<rows, now>>
      /\ \A e \in scan'[o] : \E t \in Tasks : /\ e.task = t /\ e.row = rows[t]
                                              /\ rows[t].state \in {"running", "resumed"}
  BY DEF LoadRecords, OAt, OGoto, TypeInv, TypeOK, db, StaleCandidates
<1>2. ASSUME NEW e \in scan'[o]
      PROVE  Names(e) /\ (expires[e.row.run] <= as_of[o] => Killed(e.row.run))
  <2>1. PICK t \in Tasks : e.task = t /\ e.row = rows[t]
                           /\ rows[t].state \in {"running", "resumed"}
    BY <1>1, <1>2
  <2>2. PICK r \in Runs : r = rows[t].run
    BY <2>1 DEF TypeInv, Row, NoRow
  <2>3. \A u \in Tasks : RowTells(u, r)
    BY DEF Told
  <2>4. task[r] = t /\ pc[r] # "unused" /\ rows[t].state = "running"
    BY <2>1, <2>2, <2>3 DEF RowTells, RunStates
  <2>5. ASSUME expires[r] <= as_of[o] PROVE Killed(r)
    <3>1. ~(now < expires[r])
      BY <2>5 DEF Told, ScanTells, TypeInv, TypeOK
    <3>2. pc[r] = "ended"
      BY <2>4, <3>1 DEF InTimeInv, Running
    <3>3. \A u \in Tasks : rows[u].run = r => u = t
      BY <2>3, <2>4 DEF RowTells
    <3> QED BY <2>4, <3>2, <3>3 DEF Killed
  <2> QED BY <2>1, <2>2, <2>4, <2>5 DEF Names
<1>3. ScanTells(o)
  BY DEF Told
<1> QED BY <1>1, <1>2, <1>3 DEF ScanTells, Names, Killed, run

LEMMA ScanTold ==
  ASSUME TypeInv, InTimeInv, Told, Kinds \subseteq {"reconcile"}, [Next]_vars, erred' = 0,
         NEW o \in Operators, Scan(o)
  PROVE  ScanTells(o)'
<1>1. opc[o] = "scan" /\ UNCHANGED <<rows, ledgers, run, kind, as_of, now>>
  BY DEF Scan, OAt, db, files
<1>2. PICK e \in scan[o] :
        /\ ledgers[e.row.run] # NoLedger
        /\ scan' = [scan EXCEPT ![o] = @ \ {e}]
        /\ \/ /\ ledgers[e.row.run].stale_after <= as_of[o]
              /\ record' = [record EXCEPT ![o] = e] /\ OGoto(o, "ledger")
           \/ UNCHANGED <<record, opc>>
  BY DEF Scan
<1>3. scan'[o] \subseteq scan[o] /\ ScanTells(o)
  BY <1>2 DEF TypeInv, TypeOK, Told
<1>4. CASE UNCHANGED <<record, opc>>
  BY <1>1, <1>3, <1>4, ScanStays DEF ScanTells
<1>5. CASE /\ ledgers[e.row.run].stale_after <= as_of[o]
           /\ record' = [record EXCEPT ![o] = e] /\ OGoto(o, "ledger")
  <2>1. record'[o] = e /\ opc'[o] = "ledger"
    BY <1>5 DEF OGoto, TypeInv, TypeOK
  <2>2. e.row.run \in Runs
    BY <1>2 DEF TypeInv, Loaded, Row
  <2>3. ledgers[e.row.run].stale_after = expires[e.row.run]
    BY <1>2, <2>2 DEF Told, RunTells
  <2>4. Names(e) /\ Killed(e.row.run)
    BY <1>2, <1>3, <1>5, <2>3 DEF ScanTells
  <2> QED BY <1>1, <1>3, <2>1, <2>4 DEF ScanTells, Names, Killed, run
<1> QED BY <1>2, <1>4, <1>5

LEMMA ScansTold ==
  ASSUME TypeInv, InTimeInv, Told, Kinds \subseteq {"reconcile"}, [Next]_vars, erred' = 0
  PROVE  \A o \in Operators : ScanTells(o)'
<1>1. ASSUME NEW o \in Operators, opc'[o] = opc[o], kind'[o] = kind[o],
             record'[o] = record[o], scan'[o] = scan[o], as_of'[o] = as_of[o]
      PROVE  ScanTells(o)'
  BY <1>1, ScanStays DEF Told, ScanTells
<1>2. ASSUME UNCHANGED oper PROVE \A o \in Operators : ScanTells(o)'
  BY <1>1, <1>2 DEF oper
<1>3. ASSUME NEW r \in Runs, RunStep(r) \/ Crash(r) PROVE \A o \in Operators : ScanTells(o)'
  BY <1>2, <1>3, RunFrame
<1>4. ASSUME NEW r \in Runs, NEW t \in Tasks, AcquireLease(r, t)
      PROVE  \A o \in Operators : ScanTells(o)'
  BY <1>2, <1>4 DEF AcquireLease
<1>5. ASSUME Tick \/ UNCHANGED vars PROVE \A o \in Operators : ScanTells(o)'
  BY <1>2, <1>5 DEF Tick, vars
<1>6. ASSUME NEW o \in Operators, Reconcile(o) PROVE \A x \in Operators : ScanTells(x)'
  <2>1. /\ opc[o] = "idle" /\ opc'[o] = "load" /\ kind'[o] = "reconcile" /\ as_of'[o] = now
        /\ UNCHANGED <<record, scan, rows, run, now>>
        /\ \A x \in Operators \ {o} : /\ opc'[x] = opc[x] /\ kind'[x] = kind[x]
                                      /\ as_of'[x] = as_of[x]
    BY <1>6 DEF Reconcile, OAt, OGoto, TypeInv, TypeOK
  <2>2. \A x \in Operators \ {o} : ScanTells(x)'
    BY <1>1, <2>1
  <2>3. scan[o] = {}
    BY <2>1 DEF Told, ScanTells
  <2>4. ScanTells(o)'
    BY <2>1, <2>3 DEF ScanTells, TypeInv, TypeOK
  <2> QED BY <2>2, <2>4
<1>7. ASSUME NEW o \in Operators, OperatorStep(o) PROVE \A x \in Operators : ScanTells(x)'
  <2>1. \A x \in Operators \ {o} : ScanTells(x)'
    BY <1>1, <1>7, ScanFrame
  <2>2. ScanTells(o) /\ Loaded(o) /\ now' = now /\ run' = run
    BY <1>7, ScanFrame DEF Told, TypeInv
  <2>3. ASSUME LoadRecords(o) PROVE ScanTells(o)'
    BY <2>2, <2>3, LoadTold
  <2>4. ASSUME LedgerMissing(o) \/ ScanDone(o) PROVE ScanTells(o)'
    <3>1. Finish(o)
      BY <2>4 DEF LedgerMissing, ScanDone
    <3>2. opc'[o] = "idle" /\ scan'[o] = {} /\ as_of'[o] = 0
      BY <3>1 DEF Finish, OGoto, TypeInv, TypeOK
    <3> QED BY <3>2, ScanStays
  <2>5. ASSUME Scan(o) PROVE ScanTells(o)'
    BY <2>5, ScanTold
  <2>6. ASSUME UpdateLedger(o) PROVE ScanTells(o)'
    <3>1. /\ opc[o] = "ledger" /\ opc'[o] = "row"
          /\ UNCHANGED <<rows, record, scan, kind, as_of>>
          /\ ledgers'[record[o].row.run].status = "stale"
      BY <2>6, StaleLedger DEF UpdateLedger, OAt
    <3> QED BY <2>2, <3>1 DEF ScanTells, Names, Killed, run
  <2>7. ASSUME UpdateRow(o) PROVE ScanTells(o)'
    <3>1. /\ opc[o] = "row" /\ opc'[o] = "closeout"
          /\ UNCHANGED <<record, scan, kind, as_of>>
      BY <2>7, StaleRow DEF UpdateRow, OAt
    <3> QED BY <2>2, <3>1, ScanStays DEF ScanTells
  <2>8. ASSUME RefreshCloseout(o) PROVE ScanTells(o)'
    <3>1. opc[o] = "closeout" /\ kind[o] = "reconcile"
      BY <2>2, <2>8 DEF ScanTells, RefreshCloseout, OAt
    <3>2. opc'[o] = "scan" /\ UNCHANGED <<record, scan, kind, as_of>>
      BY <2>8, <3>1 DEF RefreshCloseout, OGoto, TypeInv, TypeOK
    <3> QED BY <2>2, <3>1, <3>2, ScanStays DEF ScanTells
  <2>9. ~ReleaseTaskLeases(o)
    BY DEF ReleaseTaskLeases, OAt, InTimeInv
  <2>10. ScanTells(o)'
    BY <1>7, <2>3, <2>4, <2>5, <2>6, <2>7, <2>8, <2>9 DEF OperatorStep
  <2> QED BY <2>1, <2>10
<1>8. \A x \in Runs : ~CallRaises(x)
  BY DEF CallRaises, TypeInv, TypeOK
<1>9. \A o \in Operators, k \in Kinds, t \in Tasks : ~Command(o, k, t)
  BY DEF Command
<1> QED BY <1>3, <1>4, <1>5, <1>6, <1>7, <1>8, <1>9 DEF Next

-----------------------------------------------------------------------------
\* While runs end in time, operators only reconcile and no call raises, a row
\* in a state of run_task says what the ledger of its run says, for any number
\* of tasks, runs, reconciliations and killed processes.
THEOREM LedgerBacksRowHolds ==
  ASSUME InTime, Kinds \subseteq {"reconcile"}
  PROVE  Spec => []LedgerBacksRow
<1>1. Init => LedgerInv
  <2> SUFFICES ASSUME Init PROVE Told
    BY DEF LedgerInv
  <2>1. \A t \in Tasks, r \in Runs : rows[t].run # r
    BY ConstantsAssumption DEF Init, NoRow
  <2> QED BY <2>1 DEF Init, Told, RunTells, RowTells, ScanTells
<1>2. TypeInv /\ InTimeInv /\ LedgerInv /\ [Next]_vars => LedgerInv'
  <2> SUFFICES ASSUME TypeInv, InTimeInv, LedgerInv, [Next]_vars, erred' = 0 PROVE Told'
    BY DEF LedgerInv
  <2>1. erred' \in {erred, erred + 1}
    BY DEF Next, RunStep, OperatorStep, AcquireLease, MarkRunning, Gate, PlannerDone,
       WorkerDone, WorkFails, WriteLedger, WriteBundle, WriteRow, AppendEvent,
       ReleaseLease, Tick, Crash, CallRaises, Command, Reconcile, LoadRecords,
       LedgerMissing, Scan, ScanDone, ReleaseTaskLeases, UpdateLedger, UpdateRow,
       RefreshCloseout, vars, spent
  <2>2. erred = 0
    BY <2>1 DEF TypeInv, TypeOK
  <2>3. Told
    BY <2>2 DEF LedgerInv
  <2> QED BY <2>3, RunsTold, RowsTold, ScansTold DEF Told
<1>3. TypeInv /\ LedgerInv => LedgerBacksRow
  <2> SUFFICES ASSUME TypeInv, LedgerInv, erred = 0, NEW t \in Tasks,
                      rows[t].state \in RunStates \cup {"stale"}
               PROVE  ledgers[rows[t].run].status = rows[t].state
    BY DEF LedgerBacksRow
  <2>1. rows[t].run \in Runs
    BY DEF TypeInv, Row, NoRow, RunStates
  <2> QED BY <2>1 DEF LedgerInv, Told, RowTells
<1> QED BY <1>1, <1>2, <1>3, InTimeHolds, PTL DEF Spec

-----------------------------------------------------------------------------
\* Leases that are left

\* The leases whose run is over.
Left == {r \in leases : ~Running(r)}

LeftInv == Cardinality(Left) <= crashed + erred

LEMMA LeftStep ==
  ASSUME TypeInv, LeaseInv, LeftInv, [Next]_vars
  PROVE  LeftInv'
<1>1. /\ crashed \in Nat /\ erred \in Nat /\ leases \subseteq Runs
      /\ pc \in [Runs -> {"unused", "mark", "gate", "plan", "work", "ledger",
                          "bundle", "row", "event", "release", "ended"}]
  BY DEF TypeInv, TypeOK
<1>2. IsFiniteSet(Left) /\ Cardinality(Left) \in Nat
  BY <1>1, ConstantsAssumption, FS_Subset, FS_CardinalityType DEF Left
<1>3. ASSUME Left' \subseteq Left, UNCHANGED <<crashed, erred>>  PROVE  LeftInv'
  <2>1. Cardinality(Left') <= Cardinality(Left) /\ Cardinality(Left') \in Nat
    BY <1>2, <1>3, FS_Subset, FS_CardinalityType
  <2> QED BY <1>1, <1>2, <1>3, <2>1 DEF LeftInv
<1>4. ASSUME NEW r \in Runs, Left' \subseteq Left \cup {r},
             crashed' \in Nat, erred' \in Nat, crashed' + erred' = crashed + erred + 1
      PROVE  LeftInv'
  <2>1. /\ IsFiniteSet(Left \cup {r}) /\ Cardinality(Left \cup {r}) \in Nat
        /\ Cardinality(Left \cup {r}) <= Cardinality(Left) + 1
    <3>1. /\ IsFiniteSet(Left \cup {r})
          /\ Cardinality(Left \cup {r}) =
               IF r \in Left THEN Cardinality(Left) ELSE Cardinality(Left) + 1
      BY <1>2, FS_AddElement
    <3> QED BY <1>2, <3>1
  <2>2. Cardinality(Left') <= Cardinality(Left \cup {r}) /\ Cardinality(Left') \in Nat
    BY <1>4, <2>1, FS_Subset, FS_CardinalityType
  <2>3. Cardinality(Left) <= crashed + erred
    BY DEF LeftInv
  <2>4. Cardinality(Left') <= crashed' + erred'
    <3>1. \A m, k, n \in Nat : m <= k /\ k <= n + 1 => m <= n + 1
      OBVIOUS
    <3>2. Cardinality(Left') <= Cardinality(Left) + 1
      BY <1>2, <2>1, <2>2, <3>1
    <3>3. \A m, n, c, e, d, f \in Nat :
            m <= n + 1 /\ n <= c + e /\ d + f = c + e + 1 => m <= d + f
      OBVIOUS
    <3>4. crashed' + erred' = crashed + erred + 1 /\ crashed' \in Nat /\ erred' \in Nat
      BY <1>4
    <3>5. /\ crashed \in Nat /\ erred \in Nat /\ Cardinality(Left) \in Nat
          /\ Cardinality(Left') \in Nat
      BY <1>1, <1>2, <2>2
    <3> QED BY <2>3, <3>2, <3>3, <3>4, <3>5
  <2> QED BY <2>4 DEF LeftInv
<1>5. ASSUME NEW r \in Runs, NEW t \in Tasks, AcquireLease(r, t)  PROVE  LeftInv'
  <2>1. /\ leases' \subseteq leases \cup {r} /\ pc' = [pc EXCEPT ![r] = "mark"]
        /\ UNCHANGED <<crashed, erred>>
    BY <1>5 DEF AcquireLease, Goto, spent
  <2>2. Left' \subseteq Left
    BY <1>1, <2>1 DEF Left, Running
  <2> QED BY <1>3, <2>1, <2>2
<1>6. ASSUME NEW r \in Runs, RunStep(r)  PROVE  LeftInv'
  <2>1. CASE ReleaseLease(r)
    <3>1. /\ leases' = leases \ {r} /\ pc' = [pc EXCEPT ![r] = "ended"]
          /\ UNCHANGED <<crashed, erred>>
      BY <2>1 DEF ReleaseLease, End, Goto, spent
    <3>2. Left' \subseteq Left
      BY <1>1, <3>1 DEF Left, Running
    <3> QED BY <1>3, <3>1, <3>2
  <2>2. CASE ~ReleaseLease(r)
    <3>1. /\ UNCHANGED <<leases, crashed, erred>>
          /\ \E label \in {"gate", "plan", "work", "ledger", "bundle", "row", "event",
                           "release"} : pc' = [pc EXCEPT ![r] = label]
      <4>1. CASE MarkRunning(r) \/ PlannerDone(r) \/ WorkerDone(r) \/ WorkFails(r)
        BY <4>1 DEF MarkRunning, PlannerDone, WorkerDone, WorkFails, EnterExcept, Goto, db, spent
      <4>2. CASE Gate(r)
        BY <4>2 DEF Gate, EnterExcept, Goto, db, spent
      <4>3. CASE WriteLedger(r) \/ WriteBundle(r) \/ WriteRow(r) \/ AppendEvent(r)
        BY <4>3 DEF WriteLedger, WriteBundle, WriteRow, AppendEvent, Goto, db, spent
      <4> QED BY <1>6, <2>2, <4>1, <4>2, <4>3 DEF RunStep
    <3>2. Left' \subseteq Left
      BY <1>1, <3>1 DEF Left, Running
    <3> QED BY <1>3, <3>1, <3>2
  <2> QED BY <2>1, <2>2
<1>7. ASSUME NEW r \in Runs, Crash(r) \/ CallRaises(r)  PROVE  LeftInv'
  <2>1. /\ leases' = leases /\ \E label : pc' = [pc EXCEPT ![r] = label]
        /\ \/ crashed' = crashed + 1 /\ erred' = erred
           \/ crashed' = crashed /\ erred' = erred + 1
    BY <1>7 DEF Crash, CallRaises, End, EnterExcept, Goto, db
  <2>2. Left' \subseteq Left \cup {r}
    BY <1>1, <2>1 DEF Left, Running
  <2>3. /\ crashed' \in Nat /\ erred' \in Nat
        /\ crashed' + erred' = crashed + erred + 1
    BY <1>1, <2>1
  <2> QED BY <1>4, <2>2, <2>3
<1>8. CASE \A r \in Runs : /\ \A t \in Tasks : ~AcquireLease(r, t)
                           /\ ~RunStep(r) /\ ~Crash(r) /\ ~CallRaises(r)
  <2>1. leases' \subseteq leases /\ pc' = pc /\ UNCHANGED <<crashed, erred>>
    BY <1>8 DEF Next, Tick, Command, Reconcile, OperatorStep, LoadRecords, LedgerMissing, Scan,
                ScanDone, ReleaseTaskLeases, UpdateLedger, UpdateRow, RefreshCloseout, vars,
                db, run, spent
  <2>2. Left' \subseteq Left
    BY <2>1 DEF Left, Running
  <2> QED BY <1>3, <2>1, <2>2
<1> QED BY <1>5, <1>6, <1>7, <1>8

\* A lease row whose run is over is the trace of a kill or of a call that
\* raised, one each, with any operators and any clock: no gate, hand-off,
\* failed worker or expired lease leaves one behind.
THEOREM LeasesTraced ==
  Spec => [](Cardinality({r \in leases : ~Running(r)}) <= crashed + erred)
<1>1. Init => LeftInv
  <2> SUFFICES ASSUME Init PROVE LeftInv
    OBVIOUS
  <2>1. Left = {} /\ crashed = 0 /\ erred = 0
    BY DEF Init, Left
  <2>2. Cardinality(Left) = 0
    BY <2>1, FS_EmptySet
  <2> QED BY <2>1, <2>2 DEF LeftInv
<1>2. TypeInv /\ LeaseInv /\ LeftInv /\ [Next]_vars => LeftInv'
  BY LeftStep
<1>3. LeftInv => Cardinality({r \in leases : ~Running(r)}) <= crashed + erred
  BY DEF LeftInv, Left
<1> QED BY <1>1, <1>2, <1>3, TypedAndLeased, PTL DEF Spec

-----------------------------------------------------------------------------
\* Rows that say running

\* The calls of a run between the two upsert_runtime_task calls.
Settling == {"gate", "plan", "work", "ledger", "bundle", "row"}

Stranded == {t \in Tasks : rows[t].state = "running" /\ pc[rows[t].run] \notin Settling}

\* A row that says running names the run that wrote it, a run of its task.
RunningNamed ==
  \A t \in Tasks : rows[t].state = "running" =>
    /\ rows[t].run \in Runs /\ pc[rows[t].run] # "unused"
    /\ task[rows[t].run] = t

StrandedInv ==
  /\ RunningNamed
  /\ IsFiniteSet(Stranded) /\ Cardinality(Stranded) <= crashed + erred

\* Rows, where only run r moves.
LEMMA RunRows ==
  ASSUME TypeInv, NEW r \in Runs, RunStep(r)
  PROVE  /\ UNCHANGED <<task, crashed, erred>>
         /\ \A x \in Runs \ {r} : pc'[x] = pc[x]
         /\ pc[r] \notin {"unused", "ended"} /\ pc'[r] # "unused" /\ task[r] \in Tasks
         /\ \/ rows' = rows /\ (pc[r] \in Settling => pc'[r] \in Settling)
            \/ /\ pc[r] = "mark" /\ pc'[r] = "gate"
               /\ \A t \in Tasks \ {task[r]} : rows'[t] = rows[t]
               /\ rows'[task[r]].state = "running" /\ rows'[task[r]].run = r
            \/ /\ pc[r] = "row"
               /\ \A t \in Tasks \ {task[r]} : rows'[t] = rows[t]
               /\ rows'[task[r]].state # "running"
<1> USE DEF At, Goto, Settling, spent
<1>1. /\ pc \in [Runs -> {"unused", "mark", "gate", "plan", "work", "ledger",
                          "bundle", "row", "event", "release", "ended"}]
      /\ rows \in [Tasks -> RowType] /\ Phase(r)
  BY DEF TypeInv, TypeOK
<1>2. CASE MarkRunning(r)
  BY <1>1, <1>2 DEF MarkRunning, Upsert, Phase
<1>3. CASE Gate(r)
  BY <1>1, <1>3 DEF Gate, EnterExcept, Phase, db
<1>4. CASE PlannerDone(r) \/ WorkerDone(r) \/ WorkFails(r)
  BY <1>1, <1>4 DEF PlannerDone, WorkerDone, WorkFails, EnterExcept, Phase, db
<1>5. CASE WriteLedger(r) \/ WriteBundle(r)
  BY <1>1, <1>5 DEF WriteLedger, WriteBundle, Phase, db
<1>6. CASE WriteRow(r)
  <2>1. outcome[r] # "running" /\ task[r] \in Tasks
    BY <1>1, <1>6 DEF WriteRow, Phase, RunStates
  <2>2. rows'[task[r]].state = outcome[r]
    BY <1>1, <1>6, <2>1 DEF WriteRow, Upsert
  <2>3. \A t \in Tasks \ {task[r]} : rows'[t] = rows[t]
    BY <1>1, <1>6 DEF WriteRow, Upsert
  <2> QED BY <1>1, <1>6, <2>1, <2>2, <2>3 DEF WriteRow
<1>7. CASE AppendEvent(r) \/ ReleaseLease(r)
  BY <1>1, <1>7 DEF AppendEvent, ReleaseLease, End, Phase, db
<1> QED BY <1>2, <1>3, <1>4, <1>5, <1>6, <1>7 DEF RunStep

\* A call that returns, of a run or of an operator, strands no row.
LEMMA NoneStranded ==
  ASSUME TypeInv, RunningNamed, [Next]_vars,
         \A r \in Runs : ~Crash(r) /\ ~CallRaises(r)
  PROVE  RunningNamed' /\ Stranded' \subseteq Stranded /\ UNCHANGED <<crashed, erred>>
<1> DEFINE Kept == RunningNamed' /\ Stranded' \subseteq Stranded
                   /\ UNCHANGED <<crashed, erred>>
<1>0. /\ pc \in [Runs -> {"unused", "mark", "gate", "plan", "work", "ledger",
                          "bundle", "row", "event", "release", "ended"}]
      /\ task \in [Runs -> Tasks \cup {NoTask}] /\ rows \in [Tasks -> RowType]
  BY DEF TypeInv, TypeOK
<1>1. ASSUME UNCHANGED <<pc, task, crashed, erred>>,
             \A t \in Tasks : rows'[t] = rows[t] \/ rows'[t].state # "running"
      PROVE  Kept
  BY <1>1 DEF RunningNamed, Stranded
<1>2. ASSUME NEW r \in Runs, RunStep(r)  PROVE  Kept
  <2>1. /\ UNCHANGED <<task, crashed, erred>>
        /\ \A x \in Runs \ {r} : pc'[x] = pc[x]
        /\ pc[r] # "unused" /\ pc'[r] # "unused" /\ task[r] \in Tasks
    BY <1>2, RunRows
  <2>2. CASE rows' = rows /\ (pc[r] \in Settling => pc'[r] \in Settling)
    BY <2>1, <2>2 DEF RunningNamed, Stranded
  <2>3. CASE /\ pc[r] = "mark" /\ pc'[r] = "gate"
             /\ \A t \in Tasks \ {task[r]} : rows'[t] = rows[t]
             /\ rows'[task[r]].state = "running" /\ rows'[task[r]].run = r
    <3>1. RunningNamed'
      BY <2>1, <2>3 DEF RunningNamed
    <3>2. Stranded' \subseteq Stranded
      BY <2>1, <2>3 DEF RunningNamed, Stranded, Settling
    <3> QED BY <2>1, <3>1, <3>2
  <2>4. CASE /\ pc[r] = "row"
             /\ \A t \in Tasks \ {task[r]} : rows'[t] = rows[t]
             /\ rows'[task[r]].state # "running"
    <3>1. RunningNamed'
      BY <2>1, <2>4 DEF RunningNamed
    <3>2. Stranded' \subseteq Stranded
      BY <2>1, <2>4 DEF RunningNamed, Stranded
    <3> QED BY <2>1, <3>1, <3>2
  <2> QED BY <1>2, <2>2, <2>3, <2>4, RunRows
<1>3. ASSUME NEW r \in Runs, NEW t \in Tasks, AcquireLease(r, t)  PROVE  Kept
  <2>1. /\ pc[r] = "unused" /\ pc'[r] = "mark" /\ UNCHANGED <<rows, crashed, erred>>
        /\ \A x \in Runs \ {r} : pc'[x] = pc[x] /\ task'[x] = task[x]
    BY <1>0, <1>3 DEF AcquireLease, At, Goto, spent
  <2> QED BY <2>1 DEF RunningNamed, Stranded
<1>4. ASSUME NEW o \in Operators, UpdateRow(o)  PROVE  Kept
  <2>1. /\ UNCHANGED <<pc, task, crashed, erred>>
        /\ \A t \in Tasks : rows'[t] = rows[t] \/ rows'[t].state = TargetState(kind[o])
    BY <1>0, <1>4 DEF UpdateRow, Upsert, run, spent
  <2>2. TargetState(kind[o]) # "running"
    BY DEF TargetState
  <2> QED BY <1>1, <2>1, <2>2
<1>5. CASE \/ Tick \/ UNCHANGED vars
           \/ \E o \in Operators :
                \/ \E k \in Kinds, t \in Tasks : Command(o, k, t)
                \/ Reconcile(o) \/ LoadRecords(o) \/ LedgerMissing(o) \/ Scan(o)
                \/ ScanDone(o) \/ ReleaseTaskLeases(o) \/ UpdateLedger(o)
                \/ RefreshCloseout(o)
  <2>1. UNCHANGED <<pc, task, rows, crashed, erred>>
    BY <1>5 DEF Tick, vars, Command, Reconcile, LoadRecords, LedgerMissing, Scan, ScanDone,
                ReleaseTaskLeases, UpdateLedger, RefreshCloseout, run, spent, db
  <2> QED BY <1>1, <2>1
<1> QED BY <1>2, <1>3, <1>4, <1>5 DEF Next, OperatorStep

\* A kill or a raised call strands at most the row of the task of its run.
LEMMA OneStranded ==
  ASSUME TypeInv, RunningNamed, NEW r \in Runs, Crash(r) \/ CallRaises(r)
  PROVE  /\ RunningNamed' /\ Stranded' \subseteq Stranded \cup {task[r]}
         /\ crashed' + erred' = crashed + erred + 1
<1> USE DEF TypeInv, TypeOK
<1>1. /\ UNCHANGED <<task, rows>> /\ \A x \in Runs \ {r} : pc'[x] = pc[x]
      /\ pc'[r] # "unused"
  BY DEF Crash, CallRaises, End, EnterExcept, Goto, db
<1>2. crashed' + erred' = crashed + erred + 1
  BY DEF Crash, CallRaises
<1> QED BY <1>1, <1>2 DEF RunningNamed, Stranded

\* A row that says running is the row of a run on its way to record the end, or
\* the trace of a kill or of a call that raised, one each: no stale record of an
\* operator, no second run of the task and no expired lease leaves a task
\* running that nobody works on.
THEOREM RunningRowsTraced ==
  Spec => [](/\ IsFiniteSet(Stranded)
             /\ Cardinality(Stranded) <= crashed + erred)
<1>1. Init => StrandedInv
  <2> SUFFICES ASSUME Init PROVE StrandedInv
    OBVIOUS
  <2>1. RunningNamed /\ Stranded = {} /\ crashed = 0 /\ erred = 0
    BY DEF Init, NoRow, RunningNamed, Stranded
  <2>2. IsFiniteSet(Stranded) /\ Cardinality(Stranded) = 0
    BY <2>1, FS_EmptySet
  <2> QED BY <2>1, <2>2 DEF StrandedInv
<1>2. ASSUME TypeInv, TypeInv', StrandedInv, [Next]_vars  PROVE  StrandedInv'
  <2>1. /\ crashed \in Nat /\ erred \in Nat /\ crashed' \in Nat /\ erred' \in Nat
        /\ IsFiniteSet(Stranded) /\ Cardinality(Stranded) \in Nat
    BY <1>2, FS_CardinalityType DEF TypeInv, TypeOK, StrandedInv
  <2>2. CASE \A r \in Runs : ~Crash(r) /\ ~CallRaises(r)
    <3>1. RunningNamed' /\ Stranded' \subseteq Stranded /\ UNCHANGED <<crashed, erred>>
      BY <1>2, <2>2, NoneStranded DEF StrandedInv
    <3>2. /\ IsFiniteSet(Stranded') /\ Cardinality(Stranded') \in Nat
          /\ Cardinality(Stranded') <= Cardinality(Stranded)
      BY <2>1, <3>1, FS_Subset, FS_CardinalityType
    <3> QED BY <1>2, <2>1, <3>1, <3>2 DEF StrandedInv
  <2>3. ASSUME NEW r \in Runs, Crash(r) \/ CallRaises(r)  PROVE  StrandedInv'
    <3>1. /\ RunningNamed' /\ Stranded' \subseteq Stranded \cup {task[r]}
          /\ crashed' + erred' = crashed + erred + 1
      BY <1>2, <2>3, OneStranded DEF StrandedInv
    <3> DEFINE T == Stranded \cup {task[r]}
    <3>2. /\ IsFiniteSet(T) /\ Cardinality(T) \in Nat
          /\ Cardinality(T) \in {Cardinality(Stranded), Cardinality(Stranded) + 1}
      BY <2>1, FS_AddElement, FS_CardinalityType
    <3>3. /\ IsFiniteSet(Stranded') /\ Cardinality(Stranded') \in Nat
          /\ Cardinality(Stranded') <= Cardinality(T)
      BY <3>1, <3>2, FS_Subset, FS_CardinalityType
    <3>4. Cardinality(Stranded') <= Cardinality(Stranded) + 1
      <4>1. \A m, k, n \in Nat : m <= k /\ k \in {n, n + 1} => m <= n + 1
        OBVIOUS
      <4> HIDE DEF T
      <4> QED BY <2>1, <3>2, <3>3, <4>1
    <3>5. Cardinality(Stranded') <= crashed' + erred'
      <4>1. \A m, n, c, e, d, f \in Nat :
              m <= n + 1 /\ n <= c + e /\ d + f = c + e + 1 => m <= d + f
        OBVIOUS
      <4>2. Cardinality(Stranded) <= crashed + erred /\ crashed' + erred' = crashed + erred + 1
        BY <1>2, <3>1 DEF StrandedInv
      <4> QED BY <2>1, <3>3, <3>4, <4>1, <4>2
    <3> QED BY <3>1, <3>3, <3>5 DEF StrandedInv
  <2> QED BY <2>2, <2>3
<1>3. StrandedInv => IsFiniteSet(Stranded) /\ Cardinality(Stranded) <= crashed + erred
  BY DEF StrandedInv
<1>4. TypeInv /\ TypeInv' /\ StrandedInv /\ [Next]_vars => StrandedInv'
  BY <1>2
<1> QED BY <1>1, <1>3, <1>4, TypedAndLeased, PTL DEF Spec

-----------------------------------------------------------------------------
\* No command goes on for ever

\* The calls a run has left, at most: fewer once the handler records its end.
Length == [unused |-> 13, mark |-> 12, gate |-> 11, plan |-> 10, work |-> 10,
           ledger |-> 9, bundle |-> 8, row |-> 7, event |-> 6, release |-> 1,
           ended |-> 0]
LengthInExcept == [ledger |-> 4, row |-> 3, event |-> 2]

CallsLeft(r) ==
  IF handler[r] = "except" /\ pc[r] \in {"ledger", "row", "event"}
  THEN LengthInExcept[pc[r]] ELSE Length[pc[r]]

\* The calls an operator has left for the record it works on.
OpLength == [load |-> 6, release |-> 5, ledger |-> 4, row |-> 3, closeout |-> 2,
             scan |-> 1, idle |-> 0]

OpProceeds(o) ==
  IF opc[o] = "load" THEN opc'[o] = "scan"
  ELSE /\ opc'[o] # "load" /\ scan'[o] \subseteq scan[o]
       /\ scan'[o] = scan[o] => OpLength[opc'[o]] < OpLength[opc[o]]

OpStarts(o) == opc[o] = "idle" /\ opc'[o] \in {"release", "load"}

LEMMA Lengths ==
  /\ Length["unused"] = 13 /\ Length["mark"] = 12 /\ Length["gate"] = 11
  /\ Length["plan"] = 10 /\ Length["work"] = 10 /\ Length["ledger"] = 9
  /\ Length["bundle"] = 8 /\ Length["row"] = 7 /\ Length["event"] = 6
  /\ Length["release"] = 1 /\ Length["ended"] = 0
  /\ LengthInExcept["ledger"] = 4 /\ LengthInExcept["row"] = 3
  /\ LengthInExcept["event"] = 2
  /\ OpLength["load"] = 6 /\ OpLength["release"] = 5 /\ OpLength["ledger"] = 4
  /\ OpLength["row"] = 3 /\ OpLength["closeout"] = 2 /\ OpLength["scan"] = 1
  /\ OpLength["idle"] = 0
BY DEF Length, LengthInExcept, OpLength

LEMMA RunsProceed ==
  ASSUME TypeInv, TypeInv', [Next]_vars
  PROVE  \A r \in Runs : UNCHANGED <<pc[r], handler[r]>> \/ CallsLeft(r)' < CallsLeft(r)
<1>0. /\ pc \in [Runs -> {"unused", "mark", "gate", "plan", "work", "ledger",
                          "bundle", "row", "event", "release", "ended"}]
      /\ handler \in [Runs -> {"none", "try", "except"}]
      /\ \A r \in Runs : Phase(r)
  BY DEF TypeInv, TypeOK
<1> DEFINE Alone(r) == \A x \in Runs \ {r} : UNCHANGED <<pc[x], handler[x]>>
<1> USE <1>0, Lengths DEF Goto, At, Phase
<1>1. ASSUME NEW r \in Runs, NEW t \in Tasks, AcquireLease(r, t)
      PROVE  Alone(r) /\ CallsLeft(r)' < CallsLeft(r)
  BY <1>1 DEF AcquireLease, CallsLeft
<1>2. ASSUME NEW r \in Runs, RunStep(r)  PROVE  Alone(r) /\ CallsLeft(r)' < CallsLeft(r)
  <2>1. CASE MarkRunning(r)
    BY <2>1 DEF MarkRunning, CallsLeft
  <2>2. CASE Gate(r)
    BY <2>2 DEF Gate, EnterExcept, CallsLeft
  <2>3. CASE PlannerDone(r) \/ WorkerDone(r)
    BY <2>3 DEF PlannerDone, WorkerDone, CallsLeft
  <2>4. CASE WorkFails(r)
    BY <2>4 DEF WorkFails, EnterExcept, CallsLeft
  <2>5. CASE WriteLedger(r)
    BY <2>5 DEF WriteLedger, CallsLeft
  <2>6. CASE WriteBundle(r)
    BY <2>6 DEF WriteBundle, CallsLeft
  <2>7. CASE WriteRow(r)
    BY <2>7 DEF WriteRow, CallsLeft
  <2>8. CASE AppendEvent(r)
    BY <2>8 DEF AppendEvent, CallsLeft
  <2>9. CASE ReleaseLease(r)
    BY <2>9 DEF ReleaseLease, End, CallsLeft
  <2> QED BY <1>2, <2>1, <2>2, <2>3, <2>4, <2>5, <2>6, <2>7, <2>8, <2>9 DEF RunStep
<1>3. ASSUME NEW r \in Runs, Crash(r)  PROVE  Alone(r) /\ CallsLeft(r)' < CallsLeft(r)
  BY <1>3 DEF Crash, Running, End, CallsLeft
<1>4. ASSUME NEW r \in Runs, CallRaises(r)  PROVE  Alone(r) /\ CallsLeft(r)' < CallsLeft(r)
  <2>1. CASE At(r, "release")
    BY <1>4, <2>1 DEF CallRaises, End, CallsLeft
  <2>2. CASE ~At(r, "release") /\ handler[r] = "try"
    BY <1>4, <2>2 DEF CallRaises, Running, EnterExcept, CallsLeft
  <2>3. CASE ~At(r, "release") /\ handler[r] # "try"
    BY <1>4, <2>3 DEF CallRaises, Running, CallsLeft
  <2> QED BY <2>1, <2>2, <2>3
<1>5. CASE UNCHANGED <<pc, handler>>
  BY <1>5
<1>6. \/ \E r \in Runs : \/ \E t \in Tasks : AcquireLease(r, t)
                         \/ RunStep(r) \/ Crash(r) \/ CallRaises(r)
      \/ UNCHANGED <<pc, handler>>
  BY DEF Next, Tick, Command, Reconcile, OperatorStep, LoadRecords, LedgerMissing, Scan,
         ScanDone, ReleaseTaskLeases, UpdateLedger, UpdateRow, RefreshCloseout, vars, run
<1>7. ASSUME NEW r \in Runs, Alone(r) /\ CallsLeft(r)' < CallsLeft(r)
      PROVE  \A x \in Runs : UNCHANGED <<pc[x], handler[x]>> \/ CallsLeft(x)' < CallsLeft(x)
  BY <1>7
<1> QED BY <1>1, <1>2, <1>3, <1>4, <1>5, <1>6, <1>7

LEMMA OperatorsProceed ==
  ASSUME TypeInv, TypeInv', [Next]_vars
  PROVE  \A o \in Operators :
           UNCHANGED <<opc[o], scan[o]>> \/ OpStarts(o) \/ OpProceeds(o)
<1>0. /\ opc \in [Operators -> {"idle", "load", "scan", "release", "ledger", "row",
                                "closeout"}]
      /\ scan \in [Operators -> SUBSET [task: Tasks, row: RowType]]
  BY DEF TypeInv, TypeOK
<1> DEFINE Alone(o) == \A x \in Operators \ {o} : UNCHANGED <<opc[x], scan[x]>>
<1> USE <1>0, Lengths DEF OGoto, OAt
<1>1. ASSUME NEW o \in Operators, NEW k \in Kinds, NEW t \in Tasks, Command(o, k, t)
      PROVE  Alone(o) /\ OpStarts(o)
  BY <1>1 DEF Command, OpStarts
<1>2. ASSUME NEW o \in Operators, Reconcile(o)  PROVE  Alone(o) /\ OpStarts(o)
  BY <1>2 DEF Reconcile, OpStarts
<1>3. ASSUME NEW o \in Operators, OperatorStep(o)  PROVE  Alone(o) /\ OpProceeds(o)
  <2>1. CASE LoadRecords(o)
    BY <2>1 DEF LoadRecords, OpProceeds
  <2>2. CASE LedgerMissing(o) \/ ScanDone(o)
    BY <2>2 DEF LedgerMissing, ScanDone, Finish, OpProceeds
  <2>3. CASE Scan(o)
    <3>1. PICK e \in scan[o] : /\ scan' = [scan EXCEPT ![o] = @ \ {e}]
                               /\ OGoto(o, "ledger") \/ UNCHANGED opc
      BY <2>3 DEF Scan
    <3>2. scan'[o] = scan[o] \ {e} /\ scan'[o] # scan[o] /\ opc[o] = "scan"
      BY <2>3, <3>1 DEF Scan
    <3> QED BY <3>1, <3>2 DEF OpProceeds
  <2>4. CASE ReleaseTaskLeases(o)
    BY <2>4 DEF ReleaseTaskLeases, OpProceeds
  <2>5. CASE UpdateLedger(o)
    BY <2>5 DEF UpdateLedger, OpProceeds
  <2>6. CASE UpdateRow(o)
    BY <2>6 DEF UpdateRow, OpProceeds
  <2>7. CASE RefreshCloseout(o)
    BY <2>7 DEF RefreshCloseout, Finish, OpProceeds
  <2> QED BY <1>3, <2>1, <2>2, <2>3, <2>4, <2>5, <2>6, <2>7 DEF OperatorStep
<1>4. CASE UNCHANGED <<opc, scan>>
  BY <1>4
<1>5. \/ \E o \in Operators : \/ \E k \in Kinds, t \in Tasks : Command(o, k, t)
                              \/ Reconcile(o) \/ OperatorStep(o)
      \/ UNCHANGED <<opc, scan>>
  BY DEF Next, Tick, RunStep, AcquireLease, MarkRunning, Gate, PlannerDone, WorkerDone,
         WorkFails, WriteLedger, WriteBundle, WriteRow, AppendEvent, ReleaseLease, Crash,
         CallRaises, vars, oper
<1>6. ASSUME NEW o \in Operators, Alone(o), OpStarts(o) \/ OpProceeds(o)
      PROVE  \A x \in Operators :
               UNCHANGED <<opc[x], scan[x]>> \/ OpStarts(x) \/ OpProceeds(x)
  BY <1>6
<1> QED BY <1>1, <1>2, <1>3, <1>4, <1>5, <1>6

\* Each command ends: every step leaves a run where it is or brings it nearer
\* its end, which is 13 calls from its start at most; and it leaves an operator
\* where it is, starts a command of it, or takes it nearer the end of the record
\* it works on or of the records it loaded, which it loads once.  Only a call
\* that does not return keeps a command from its end.
THEOREM CommandsEnd ==
  Spec => [][/\ \A r \in Runs :
                  UNCHANGED <<pc[r], handler[r]>> \/ CallsLeft(r)' < CallsLeft(r)
             /\ \A o \in Operators :
                  UNCHANGED <<opc[o], scan[o]>> \/ OpStarts(o) \/ OpProceeds(o)]_vars
<1>1. TypeInv /\ TypeInv' /\ [Next]_vars =>
        /\ \A r \in Runs : UNCHANGED <<pc[r], handler[r]>> \/ CallsLeft(r)' < CallsLeft(r)
        /\ \A o \in Operators : UNCHANGED <<opc[o], scan[o]>> \/ OpStarts(o) \/ OpProceeds(o)
  BY RunsProceed, OperatorsProceed
<1> QED BY <1>1, TypedAndLeased, PTL DEF Spec
=============================================================================
