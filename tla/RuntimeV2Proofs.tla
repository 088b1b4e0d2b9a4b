-------------------------- MODULE RuntimeV2Proofs --------------------------
(***************************************************************************)
(* RuntimeV2 keeps its types, its admission slots and its attempt ids,     *)
(* implements the pool of workers of WorkerPool and accounts for every     *)
(* slot nobody will return and every row that says running for nobody, and *)
(* each command gets nearer its end with each of its calls, for any number *)
(* of tasks, processes, slots, crashes and raised calls.                   *)
(***************************************************************************)
EXTENDS RuntimeV2, SequenceTheorems, FiniteSetTheorems, FunctionTheorems, TLAPS

\* Changing an element of a sequence, or nothing, leaves it a sequence of the
\* same length.
LEMMA SeqExcept ==
  ASSUME NEW S, NEW seq \in Seq(S), NEW i, NEW e \in S
  PROVE  /\ [seq EXCEPT ![i] = e] \in Seq(S)
         /\ Len([seq EXCEPT ![i] = e]) = Len(seq)
<1>1. CASE i \in 1..Len(seq)
  BY <1>1, ExceptSeq
<1>2. CASE i \notin 1..Len(seq)
  <2>1. DOMAIN seq = 1..Len(seq)
    OBVIOUS
  <2>2. [seq EXCEPT ![i] = e] = seq
    BY <1>2, <2>1
  <2>. QED  BY <2>2
<1>. QED  BY <1>1, <1>2

\* The states a process can be in between acquire_slot and release_slot.
Holding == {"mark_attempt", "mark_task", "work", "write_result",
            "update_attempt", "update_task", "record", "release"}

\* What the program counter of a process says of its locals.
Phase(p) ==
  /\ pc[p] # "idle" => task[p] \in Tasks
  /\ pc[p] = "write_result" => outcome[p] \in Blocked \cup Finals
  /\ pc[p] \in {"update_attempt", "update_task", "create_retry"} =>
       outcome[p] \in States
  /\ handler[p] = "none" =>
       pc[p] \notin {"mark_attempt", "mark_task", "work", "release"}
  /\ handler[p] # "none" => pc[p] \in Holding

PhaseInv == \A p \in Procs : Phase(p)

\* Type correctness with the phases it needs, step by step.
LEMMA TypedStep ==
  ASSUME TypeOK, PhaseInv, [Next]_vars
  PROVE  TypeOK' /\ PhaseInv'
<1>. USE ConstantsAssumption DEF PhaseInv, Phase, Goto, At
<1>1. ASSUME NEW p \in Procs, NEW t \in Tasks, StartRun(p, t)
      PROVE  TypeOK' /\ PhaseInv'
  BY <1>1 DEF StartRun, TypeOK, States, Blocked, Finals, Labels, Holding, db, locals, spent, Leave, EnterExcept, Lease, InsertAttempt
<1>2. ASSUME NEW p \in Procs, NEW t \in Tasks, StartRetry(p, t)
      PROVE  TypeOK' /\ PhaseInv'
  BY <1>2 DEF StartRetry, TypeOK, States, Blocked, Finals, Labels, Holding, db, locals, spent, Leave, EnterExcept, Lease, InsertAttempt
<1>3. ASSUME NEW p \in Procs, NEW t \in Tasks, NEW n \in DOMAIN attempts[t], StartResume(p, t, n)
      PROVE  TypeOK' /\ PhaseInv'
  BY <1>3 DEF StartResume, TypeOK, States, Blocked, Finals, Labels, Holding, db, locals, spent, Leave, EnterExcept, Lease, InsertAttempt
<1>4. ASSUME NEW p \in Procs, StartBatch(p)
      PROVE  TypeOK' /\ PhaseInv'
  BY <1>4 DEF StartBatch, TypeOK, States, Blocked, Finals, Labels, Holding, db, locals, spent, Leave, EnterExcept, Lease, InsertAttempt, ReadyBlocked
<1>5. ASSUME NEW p \in Procs, NEW t \in Tasks, BatchNext(p, t)
      PROVE  TypeOK' /\ PhaseInv'
  BY <1>5 DEF BatchNext, TypeOK, States, Blocked, Finals, Labels, Holding, db, locals, spent, Leave, EnterExcept, Lease, InsertAttempt
<1>6. ASSUME NEW p \in Procs, Register(p)
      PROVE  TypeOK' /\ PhaseInv'
  BY <1>6 DEF Register, TypeOK, States, Blocked, Finals, Labels, Holding, db, locals, spent, Leave, EnterExcept, Lease, InsertAttempt
<1>7. ASSUME NEW p \in Procs, ReadNumber(p)
      PROVE  TypeOK' /\ PhaseInv'
  BY <1>7 DEF ReadNumber, TypeOK, States, Blocked, Finals, Labels, Holding, db, locals, spent, Leave, EnterExcept, Lease, InsertAttempt
<1>8. ASSUME NEW p \in Procs, NEW d \in Tasks, ProbeDependency(p, d)
      PROVE  TypeOK' /\ PhaseInv'
  <2>1. CASE status[d] = "completed"
    <3>1. unread' = [unread EXCEPT ![p] = @ \ {d}] /\ UNCHANGED pc
      BY <1>8, <2>1 DEF ProbeDependency
    <3>. QED  BY <1>8, <3>1 DEF ProbeDependency, TypeOK, States, Blocked, Finals, Labels, Holding, db, spent
  <2>2. CASE status[d] # "completed"
    <3>1. unread' = [unread EXCEPT ![p] = {}] /\ Goto(p, "create_blocked")
      BY <1>8, <2>2 DEF ProbeDependency
    <3>. QED  BY <1>8, <3>1 DEF ProbeDependency, TypeOK, States, Blocked, Finals, Labels, Holding, db, spent
  <2>. QED  BY <2>1, <2>2
<1>9. ASSUME NEW p \in Procs, CreateReady(p)
      PROVE  TypeOK' /\ PhaseInv'
  <2>1. /\ InsertAttempt(p, "ready") /\ At(p, "probe")
        /\ UNCHANGED <<status, leases, task, num, unread, handler, todo, spent>>
    BY <1>9 DEF CreateReady
  <2>2. CASE GuardBlocks(task[p])
    <3>1. outcome' = [outcome EXCEPT ![p] = PolicyBlockedState] /\ Goto(p, "write_result")
      BY <1>9, <2>2 DEF CreateReady
    <3>. QED  BY <2>1, <3>1 DEF InsertAttempt, PolicyBlockedState, TypeOK, States, Blocked, Finals, Labels, Holding, spent
  <2>3. CASE ~GuardBlocks(task[p])
    <3>1. Goto(p, "admit") /\ UNCHANGED outcome
      BY <1>9, <2>3 DEF CreateReady
    <3>. QED  BY <2>1, <3>1 DEF InsertAttempt, TypeOK, States, Blocked, Finals, Labels, Holding, spent
  <2>. QED  BY <2>2, <2>3
<1>10. ASSUME NEW p \in Procs, CreateBlocked(p)
      PROVE  TypeOK' /\ PhaseInv'
  BY <1>10 DEF CreateBlocked, TypeOK, States, Blocked, Finals, Labels, Holding, db, locals, spent, Leave, EnterExcept, Lease, InsertAttempt, DependencyBlockedState
<1>11. ASSUME NEW p \in Procs, CreateRetry(p)
      PROVE  TypeOK' /\ PhaseInv'
  BY <1>11 DEF CreateRetry, TypeOK, States, Blocked, Finals, Labels, Holding, db, locals, spent, Leave, EnterExcept, Lease, InsertAttempt
<1>12. ASSUME NEW p \in Procs, Collision(p)
      PROVE  TypeOK' /\ PhaseInv'
  BY <1>12 DEF Collision, TypeOK, States, Blocked, Finals, Labels, Holding, db, locals, spent, Leave, EnterExcept, Lease, InsertAttempt
<1>13. ASSUME NEW p \in Procs, AcquireSlot(p)
      PROVE  TypeOK' /\ PhaseInv'
  BY <1>13 DEF AcquireSlot, TypeOK, States, Blocked, Finals, Labels, Holding, db, locals, spent, Leave, EnterExcept, Lease, InsertAttempt
<1>14. ASSUME NEW p \in Procs, SlotConflict(p)
      PROVE  TypeOK' /\ PhaseInv'
  BY <1>14 DEF SlotConflict, TypeOK, States, Blocked, Finals, Labels, Holding, db, locals, spent, Leave, EnterExcept, Lease, InsertAttempt, SlotPausedState
<1>15. ASSUME NEW p \in Procs, MarkAttemptRunning(p)
      PROVE  TypeOK' /\ PhaseInv'
  <2>1. task[p] \in Tasks /\ attempts[task[p]] \in Seq(States)
    BY <1>15 DEF MarkAttemptRunning, TypeOK
  <2>2. "running" \in States
    BY <1>15 DEF MarkAttemptRunning, States
  <2>3. [attempts[task[p]] EXCEPT ![num[p]] = "running"] \in Seq(States)
    BY <2>1, <2>2, SeqExcept
  <2>. QED  BY <1>15, <2>1, <2>3 DEF MarkAttemptRunning, TypeOK, States, Blocked, Finals, Labels, Holding, locals, spent
<1>16. ASSUME NEW p \in Procs, MarkTaskRunning(p)
      PROVE  TypeOK' /\ PhaseInv'
  BY <1>16 DEF MarkTaskRunning, TypeOK, States, Blocked, Finals, Labels, Holding, db, locals, spent, Leave, EnterExcept, Lease, InsertAttempt
<1>17. ASSUME NEW p \in Procs, WorkerDone(p)
      PROVE  TypeOK' /\ PhaseInv'
  <2>. PICK surface \in BOOLEAN, gateFailed \in BOOLEAN :
         outcome' = [outcome EXCEPT ![p] =
                       FinalState(Policy[task[p]], surface, gateFailed)]
    BY <1>17 DEF WorkerDone
  <2>1. FinalState(Policy[task[p]], surface, gateFailed) \in Finals
    BY DEF FinalState, Finals
  <2>. QED  BY <1>17, <2>1 DEF WorkerDone, TypeOK, States, Blocked, Finals, Labels, Holding, db, spent
<1>18. ASSUME NEW p \in Procs, WorkerFails(p)
      PROVE  TypeOK' /\ PhaseInv'
  BY <1>18 DEF WorkerFails, TypeOK, States, Blocked, Finals, Labels, Holding, db, locals, spent, Leave, EnterExcept, Lease, InsertAttempt, FailureState
<1>19. ASSUME NEW p \in Procs, WriteResult(p)
      PROVE  TypeOK' /\ PhaseInv'
  <2>1. task[p] \in Tasks /\ results[task[p]] \in Seq(Blocked \cup Finals \cup {"none"})
    BY <1>19 DEF WriteResult, TypeOK
  <2>2. outcome[p] \in Blocked \cup Finals \cup {"none"}
    BY <1>19 DEF WriteResult, States
  <2>3. [results[task[p]] EXCEPT ![num[p]] = outcome[p]] \in Seq(Blocked \cup Finals \cup {"none"})
    BY <2>1, <2>2, SeqExcept
  <2>. QED  BY <1>19, <2>1, <2>3 DEF WriteResult, TypeOK, States, Blocked, Finals, Labels, Holding, locals, spent
<1>20. ASSUME NEW p \in Procs, UpdateAttempt(p)
      PROVE  TypeOK' /\ PhaseInv'
  <2>1. task[p] \in Tasks /\ attempts[task[p]] \in Seq(States)
    BY <1>20 DEF UpdateAttempt, TypeOK
  <2>2. outcome[p] \in States
    BY <1>20 DEF UpdateAttempt, States
  <2>3. [attempts[task[p]] EXCEPT ![num[p]] = outcome[p]] \in Seq(States)
    BY <2>1, <2>2, SeqExcept
  <2>. QED  BY <1>20, <2>1, <2>3 DEF UpdateAttempt, TypeOK, States, Blocked, Finals, Labels, Holding, locals, spent
<1>21. ASSUME NEW p \in Procs, UpdateTask(p)
      PROVE  TypeOK' /\ PhaseInv'
  BY <1>21 DEF UpdateTask, TypeOK, States, Blocked, Finals, Labels, Holding, db, locals, spent, Leave, EnterExcept, Lease, InsertAttempt
<1>22. ASSUME NEW p \in Procs, Record(p)
      PROVE  TypeOK' /\ PhaseInv'
  <2>1. CASE handler[p] = "none"
    <3>1. Leave(p, todo[p])
      BY <1>22, <2>1 DEF Record
    <3>. QED  BY <1>22, <3>1 DEF Record, TypeOK, States, Blocked, Finals, Labels, Holding, Leave, db, spent
  <2>2. CASE handler[p] # "none"
    <3>1. Goto(p, "release") /\ UNCHANGED locals
      BY <1>22, <2>2 DEF Record
    <3>. QED  BY <1>22, <2>2, <3>1 DEF Record, TypeOK, States, Blocked, Finals, Labels, Holding, db, locals, spent
  <2>. QED  BY <2>1, <2>2
<1>23. ASSUME NEW p \in Procs, ReleaseSlot(p)
      PROVE  TypeOK' /\ PhaseInv'
  BY <1>23 DEF ReleaseSlot, TypeOK, States, Blocked, Finals, Labels, Holding, db, locals, spent, Leave, EnterExcept, Lease, InsertAttempt
<1>24. ASSUME NEW p \in Procs, Crash(p)
      PROVE  TypeOK' /\ PhaseInv'
  BY <1>24 DEF Crash, TypeOK, States, Blocked, Finals, Labels, Holding, db, locals, spent, Leave, EnterExcept, Lease, InsertAttempt
<1>25. ASSUME NEW p \in Procs, CallRaises(p)
      PROVE  TypeOK' /\ PhaseInv'
  <2>. /\ UNCHANGED <<db, launched, crashed>>
       /\ erred' = erred + 1
    BY <1>25 DEF CallRaises
  <2>1. CASE handler[p] = "try" /\ pc[p] # "release"
    <3>1. EnterExcept(p) /\ UNCHANGED <<task, num, unread, todo>>
      BY <1>25, <2>1 DEF CallRaises
    <3>. QED  BY <1>25, <2>1, <3>1, SMTT(20) DEF CallRaises, EnterExcept, FailureState, TypeOK, States, Blocked, Finals, Labels, Holding, db
  <2>2. CASE handler[p] = "except" /\ pc[p] # "release"
    <3>1. /\ Goto(p, "release")
          /\ todo' = [todo EXCEPT ![p] = {}]
          /\ UNCHANGED <<task, num, unread, outcome, handler>>
      BY <1>25, <2>2 DEF CallRaises
    <3>. QED  BY <1>25, <2>2, <3>1 DEF CallRaises, TypeOK, States, Blocked, Finals, Labels, Holding, db
  <2>3. CASE ~(handler[p] \in {"try", "except"} /\ pc[p] # "release")
    <3>1. Leave(p, {})
      BY <1>25, <2>3 DEF CallRaises
    <3>. QED  BY <3>1 DEF Leave, TypeOK, States, Blocked, Finals, Labels, Holding, db
  <2>. QED  BY <2>1, <2>2, <2>3
<1>26. CASE UNCHANGED vars
  BY <1>26 DEF vars, TypeOK, States, Blocked, Finals, Labels, Holding, db, locals, spent
<1>. QED
  BY <1>1, <1>2, <1>3, <1>4, <1>5, <1>6, <1>7, <1>8, <1>9, <1>10, <1>11, <1>12, <1>13, <1>14, <1>15, <1>16, <1>17, <1>18, <1>19, <1>20, <1>21, <1>22, <1>23, <1>24, <1>25, <1>26 DEF Next, Command, Step
\* A process owns its attempt from the insert that gave it the number on.
Owning(p) == pc[p] = "admit" \/ handler[p] # "none"

\* Before create_attempt, a process has read a number that was free.
Numbering == {"probe", "create_blocked", "create_retry"}

OwnerInv ==
  /\ \A p \in Procs : pc[p] \in Numbering =>
       num[p] \in 1..(Len(attempts[task[p]]) + 1)
  /\ \A p \in Procs : Owning(p) => num[p] \in 1..Len(attempts[task[p]])
  /\ \A p, q \in Procs :
       p # q /\ Owning(p) /\ Owning(q) => Lease(p) # Lease(q)
  /\ \A p \in Procs : handler[p] # "none" => Lease(p) \in leases

\* The steps of p that neither give it an attempt or a slot nor take one away.
Keeps(p) ==
  /\ \A q \in Procs \ {p} : /\ pc'[q] = pc[q] /\ task'[q] = task[q]
                            /\ num'[q] = num[q] /\ handler'[q] = handler[q]
  /\ \A t \in Tasks : Len(attempts'[t]) >= Len(attempts[t])
  /\ leases \subseteq leases'
  /\ pc'[p] = "admit" \/ handler'[p] # "none" =>
       Owning(p) /\ task'[p] = task[p] /\ num'[p] = num[p]
  /\ handler'[p] # "none" => handler[p] # "none"
  /\ pc'[p] \in Numbering => num'[p] \in 1..(Len(attempts'[task'[p]]) + 1)

LEMMA KeepsOwner ==
  ASSUME TypeOK, TypeOK', PhaseInv, OwnerInv, NEW p \in Procs, Keeps(p)
  PROVE  OwnerInv'
<1>1. \A t \in Tasks : Len(attempts[t]) \in Nat /\ Len(attempts'[t]) \in Nat
  BY DEF TypeOK
<1>2. \A q \in Procs : pc[q] # "idle" => task[q] \in Tasks
  BY DEF PhaseInv, Phase
<1>3. \A q \in Procs : Owning(q) => pc[q] # "idle"
  BY DEF PhaseInv, Phase, Owning, Holding
<1>4. ASSUME NEW q \in Procs, pc'[q] \in Numbering
      PROVE  num'[q] \in 1..(Len(attempts'[task'[q]]) + 1)
  <2>1. CASE q = p
    BY <1>4, <2>1 DEF Keeps
  <2>2. CASE q # p
    <3>1. /\ pc[q] \in Numbering /\ task'[q] = task[q] /\ num'[q] = num[q]
          /\ task[q] \in Tasks
      BY <1>2, <1>4, <2>2 DEF Keeps, Numbering
    <3>. QED  BY <1>1, <3>1 DEF Keeps, OwnerInv
  <2>. QED  BY <2>1, <2>2
<1>5. ASSUME NEW q \in Procs, Owning(q)'
      PROVE  /\ Owning(q) /\ task'[q] = task[q] /\ num'[q] = num[q]
             /\ task[q] \in Tasks
  BY <1>2, <1>3, <1>5 DEF Keeps, Owning
<1>6. ASSUME NEW q \in Procs, Owning(q)'
      PROVE  num'[q] \in 1..Len(attempts'[task'[q]])
  BY <1>1, <1>5, <1>6 DEF Keeps, OwnerInv
<1>7. ASSUME NEW q \in Procs, NEW r \in Procs, q # r, Owning(q)', Owning(r)'
      PROVE  Lease(q)' # Lease(r)'
  BY <1>5, <1>7 DEF OwnerInv, Lease
<1>8. ASSUME NEW q \in Procs, handler'[q] # "none"
      PROVE  Lease(q)' \in leases'
  <2>1. Owning(q)' /\ handler[q] # "none"
    BY <1>8 DEF Owning, Keeps
  <2>. QED  BY <1>5, <2>1 DEF Keeps, OwnerInv, Lease
<1>. QED  BY <1>4, <1>6, <1>7, <1>8 DEF OwnerInv

\* Every step but three keeps the owners as they are.
LEMMA KeepsStep ==
  ASSUME TypeOK, PhaseInv, OwnerInv, [Next]_vars
  PROVE  \/ UNCHANGED vars
         \/ \E p \in Procs : Keeps(p) \/ CreateReady(p) \/ AcquireSlot(p) \/ ReleaseSlot(p)
<1>. USE DEF Goto, At
<1>0. /\ \A t \in Tasks : Len(attempts[t]) \in Nat /\ DOMAIN attempts[t] = 1..Len(attempts[t])
      /\ \A q \in Procs : pc[q] # "idle" => task[q] \in Tasks
      /\ \A q \in Procs : handler[q] # "none" => pc[q] \in Holding
      /\ \A q \in Procs : pc[q] = "work" => handler[q] # "none"
      /\ \A q \in Procs : pc[q] \in {"idle", "number"} => handler[q] = "none"
      /\ pc \in [Procs -> Labels] /\ task \in [Procs -> Tasks \cup {NoTask}]
      /\ num \in [Procs -> Nat] /\ handler \in [Procs -> {"none", "try", "except"}]
      /\ attempts \in [Tasks -> Seq(States)]
      /\ \A q \in Procs : pc[q] \in Numbering => num[q] \in 1..(Len(attempts[task[q]]) + 1)
  <2>1. \A t \in Tasks : Len(attempts[t]) \in Nat /\ DOMAIN attempts[t] = 1..Len(attempts[t])
    BY DEF TypeOK
  <2>2. \A q \in Procs : /\ pc[q] # "idle" => task[q] \in Tasks
                         /\ handler[q] # "none" => pc[q] \in Holding
                         /\ pc[q] = "work" => handler[q] # "none"
    BY DEF PhaseInv, Phase
  <2>3. \A q \in Procs : pc[q] \in {"idle", "number"} => handler[q] = "none"
    BY <2>2 DEF Holding
  <2>4. \A q \in Procs : pc[q] \in Numbering => num[q] \in 1..(Len(attempts[task[q]]) + 1)
    BY DEF OwnerInv
  <2>. QED  BY <2>1, <2>2, <2>3, <2>4 DEF TypeOK
<1>1. ASSUME NEW p \in Procs, NEW t \in Tasks, StartRun(p, t)
      PROVE  Keeps(p)
  BY <1>0, <1>1 DEF StartRun, Keeps, Owning, Numbering, Holding, db, locals, spent, Leave, EnterExcept
<1>2. ASSUME NEW p \in Procs, NEW t \in Tasks, NEW n \in DOMAIN attempts[t], StartResume(p, t, n)
      PROVE  Keeps(p)
  BY <1>0, <1>2 DEF StartResume, Keeps, Owning, Numbering, Holding, db, locals, spent, Leave, EnterExcept
<1>3. ASSUME NEW p \in Procs, StartBatch(p)
      PROVE  Keeps(p)
  BY <1>0, <1>3 DEF StartBatch, Keeps, Owning, Numbering, Holding, db, locals, spent, Leave, EnterExcept
<1>4. ASSUME NEW p \in Procs, NEW t \in Tasks, BatchNext(p, t)
      PROVE  Keeps(p)
  BY <1>0, <1>4 DEF BatchNext, Keeps, Owning, Numbering, Holding, db, locals, spent, Leave, EnterExcept
<1>5. ASSUME NEW p \in Procs, Register(p)
      PROVE  Keeps(p)
  BY <1>0, <1>5 DEF Register, Keeps, Owning, Numbering, Holding, db, locals, spent, Leave, EnterExcept
<1>6. ASSUME NEW p \in Procs, CreateBlocked(p)
      PROVE  Keeps(p)
  BY <1>0, <1>6 DEF CreateBlocked, Keeps, Owning, Numbering, Holding, db, locals, spent, Leave, EnterExcept, InsertAttempt
<1>7. ASSUME NEW p \in Procs, CreateRetry(p)
      PROVE  Keeps(p)
  BY <1>0, <1>7 DEF CreateRetry, Keeps, Owning, Numbering, Holding, db, locals, spent, Leave, EnterExcept, InsertAttempt
<1>8. ASSUME NEW p \in Procs, Collision(p)
      PROVE  Keeps(p)
  BY <1>0, <1>8 DEF Collision, Keeps, Owning, Numbering, Holding, db, locals, spent, Leave, EnterExcept
<1>9. ASSUME NEW p \in Procs, SlotConflict(p)
      PROVE  Keeps(p)
  BY <1>0, <1>9 DEF SlotConflict, Keeps, Owning, Numbering, Holding, db, locals, spent, Leave, EnterExcept
<1>10. ASSUME NEW p \in Procs, MarkTaskRunning(p)
      PROVE  Keeps(p)
  BY <1>0, <1>10 DEF MarkTaskRunning, Keeps, Owning, Numbering, Holding, db, locals, spent, Leave, EnterExcept
<1>11. ASSUME NEW p \in Procs, WorkerDone(p)
      PROVE  Keeps(p)
  BY <1>0, <1>11 DEF WorkerDone, Keeps, Owning, Numbering, Holding, db, locals, spent, Leave, EnterExcept
<1>12. ASSUME NEW p \in Procs, WorkerFails(p)
      PROVE  Keeps(p)
  BY <1>0, <1>12 DEF WorkerFails, Keeps, Owning, Numbering, Holding, db, locals, spent, Leave, EnterExcept
<1>13. ASSUME NEW p \in Procs, WriteResult(p)
      PROVE  Keeps(p)
  BY <1>0, <1>13 DEF WriteResult, Keeps, Owning, Numbering, Holding, db, locals, spent, Leave, EnterExcept
<1>14. ASSUME NEW p \in Procs, UpdateTask(p)
      PROVE  Keeps(p)
  BY <1>0, <1>14 DEF UpdateTask, Keeps, Owning, Numbering, Holding, db, locals, spent, Leave, EnterExcept
<1>15. ASSUME NEW p \in Procs, Crash(p)
      PROVE  Keeps(p)
  BY <1>0, <1>15 DEF Crash, Keeps, Owning, Numbering, Holding, db, locals, spent, Leave, EnterExcept
<1>16. ASSUME NEW p \in Procs, NEW t \in Tasks, StartRetry(p, t)
      PROVE  Keeps(p)
  BY <1>0, <1>16 DEF StartRetry, Keeps, Owning, Numbering, Holding, db, locals, spent, Leave, EnterExcept
<1>17. ASSUME NEW p \in Procs, ReadNumber(p)
      PROVE  Keeps(p)
  BY <1>0, <1>17 DEF ReadNumber, Keeps, Owning, Numbering, Holding, db, locals, spent, Leave, EnterExcept
<1>18. ASSUME NEW p \in Procs, NEW d \in Tasks, ProbeDependency(p, d)
      PROVE  Keeps(p)
  <2>1. CASE status[d] = "completed"
    <3>1. UNCHANGED pc
      BY <1>18, <2>1 DEF ProbeDependency
    <3>. QED  BY <1>0, <1>18, <3>1 DEF ProbeDependency, Keeps, Owning, Numbering, Holding, db, locals, spent, Leave, EnterExcept
  <2>2. CASE status[d] # "completed"
    <3>1. Goto(p, "create_blocked")
      BY <1>18, <2>2 DEF ProbeDependency
    <3>. QED  BY <1>0, <1>18, <3>1 DEF ProbeDependency, Keeps, Owning, Numbering, Holding, db, locals, spent, Leave, EnterExcept
  <2>. QED  BY <2>1, <2>2
<1>19. ASSUME NEW p \in Procs, MarkAttemptRunning(p)
      PROVE  Keeps(p)
  <2>1. task[p] \in Tasks /\ "running" \in States
    BY <1>19 DEF MarkAttemptRunning, PhaseInv, Phase, States
  <2>2. Len([attempts[task[p]] EXCEPT ![num[p]] = "running"]) = Len(attempts[task[p]])
    BY <1>0, <2>1, SeqExcept
  <2>. QED  BY <1>0, <1>19, <2>1, <2>2 DEF MarkAttemptRunning, Keeps, Owning, Numbering, Holding, db, locals, spent, Leave, EnterExcept
<1>20. ASSUME NEW p \in Procs, UpdateAttempt(p)
      PROVE  Keeps(p)
  <2>1. task[p] \in Tasks /\ outcome[p] \in States
    BY <1>20 DEF UpdateAttempt, PhaseInv, Phase, States
  <2>2. Len([attempts[task[p]] EXCEPT ![num[p]] = outcome[p]]) = Len(attempts[task[p]])
    BY <1>0, <2>1, SeqExcept
  <2>. QED  BY <1>0, <1>20, <2>1, <2>2 DEF UpdateAttempt, Keeps, Owning, Numbering, Holding, db, locals, spent, Leave, EnterExcept
<1>21. ASSUME NEW p \in Procs, Record(p)
      PROVE  Keeps(p)
  <2>1. CASE handler[p] = "none"
    <3>1. Leave(p, todo[p])
      BY <1>21, <2>1 DEF Record
    <3>. QED  BY <1>0, <1>21, <3>1 DEF Record, Keeps, Owning, Numbering, Holding, db, locals, spent, Leave, EnterExcept
  <2>2. CASE handler[p] # "none"
    <3>1. Goto(p, "release") /\ UNCHANGED locals
      BY <1>21, <2>2 DEF Record
    <3>. QED  BY <1>0, <1>21, <2>2, <3>1 DEF Record, Keeps, Owning, Numbering, Holding, db, locals, spent, Leave, EnterExcept
  <2>. QED  BY <2>1, <2>2
<1>22. ASSUME NEW p \in Procs, CallRaises(p)
      PROVE  Keeps(p)
  <2>. UNCHANGED db
    BY <1>22 DEF CallRaises
  <2>1. CASE handler[p] = "try" /\ pc[p] # "release"
    <3>1. EnterExcept(p) /\ UNCHANGED <<task, num, unread, todo>>
      BY <1>22, <2>1 DEF CallRaises
    <3>. QED  BY <1>0, <2>1, <3>1 DEF Keeps, Owning, Numbering, Holding, db, locals, spent, Leave, EnterExcept
  <2>2. CASE handler[p] = "except" /\ pc[p] # "release"
    <3>1. Goto(p, "release") /\ UNCHANGED <<task, num, unread, outcome, handler>>
      BY <1>22, <2>2 DEF CallRaises
    <3>. QED  BY <1>0, <2>2, <3>1 DEF Keeps, Owning, Numbering, Holding, db, locals, spent, Leave, EnterExcept
  <2>3. CASE ~(handler[p] \in {"try", "except"} /\ pc[p] # "release")
    <3>1. Leave(p, {})
      BY <1>22, <2>3 DEF CallRaises
    <3>. QED  BY <1>0, <3>1 DEF Keeps, Owning, Numbering, Holding, db, locals, spent, Leave, EnterExcept
  <2>. QED  BY <2>1, <2>2, <2>3
<1>. QED
  BY <1>1, <1>2, <1>3, <1>4, <1>5, <1>6, <1>7, <1>8, <1>9, <1>10, <1>11, <1>12, <1>13, <1>14, <1>15, <1>16, <1>17, <1>18, <1>19, <1>20, <1>21, <1>22 DEF Next, Command, Step

\* The two inserts that matter: a fresh attempt for p, a lease for p.
LEMMA OwnerStep ==
  ASSUME TypeOK, TypeOK', PhaseInv, OwnerInv, [Next]_vars
  PROVE  OwnerInv'
<1>1. /\ \A t \in Tasks : Len(attempts[t]) \in Nat /\ DOMAIN attempts[t] = 1..Len(attempts[t])
      /\ \A q \in Procs : pc[q] # "idle" => task[q] \in Tasks
      /\ \A q \in Procs : Owning(q) => pc[q] # "idle"
  <2>1. \A t \in Tasks : Len(attempts[t]) \in Nat /\ DOMAIN attempts[t] = 1..Len(attempts[t])
    BY DEF TypeOK
  <2>2. \A q \in Procs : /\ pc[q] # "idle" => task[q] \in Tasks
                         /\ Owning(q) => pc[q] # "idle"
    BY DEF PhaseInv, Phase, Owning, Holding
  <2>. QED  BY <2>1, <2>2
<1>2. CASE UNCHANGED vars
  BY <1>2 DEF vars, db, locals, OwnerInv, Owning, Lease
<1>3. ASSUME NEW p \in Procs, Keeps(p)
      PROVE  OwnerInv'
  BY <1>3, KeepsOwner
<1>4. ASSUME NEW p \in Procs, CreateReady(p)
      PROVE  OwnerInv'
  <2>1. /\ pc[p] = "probe" /\ task[p] \in Tasks
        /\ num[p] \notin DOMAIN attempts[task[p]]
        /\ attempts' = [attempts EXCEPT ![task[p]] = Append(@, "ready")]
        /\ UNCHANGED <<leases, task, num, handler>>
    BY <1>1, <1>4 DEF CreateReady, InsertAttempt, Collides, At
  <2>2. handler[p] = "none"
    BY <2>1 DEF PhaseInv, Phase, Holding
  <2>3. num[p] = Len(attempts[task[p]]) + 1
    BY <1>1, <2>1 DEF OwnerInv, Numbering
  <2>4. /\ Len(attempts'[task[p]]) = Len(attempts[task[p]]) + 1
        /\ \A t \in Tasks \ {task[p]} : attempts'[t] = attempts[t]
    BY <2>1 DEF TypeOK
  <2>5. \A q \in Procs \ {p} : pc'[q] = pc[q]
    <3>1. \E label : pc' = [pc EXCEPT ![p] = label]
      <4>1. CASE GuardBlocks(task[p])
        BY <1>4, <4>1 DEF CreateReady, Goto
      <4>2. CASE ~GuardBlocks(task[p])
        BY <1>4, <4>2 DEF CreateReady, Goto
      <4>. QED  BY <4>1, <4>2
    <3>. QED  BY <3>1 DEF TypeOK
  <2>6. pc'[p] \notin Numbering
    <3>1. CASE GuardBlocks(task[p])
      BY <1>4, <3>1 DEF CreateReady, Goto, TypeOK, Numbering
    <3>2. CASE ~GuardBlocks(task[p])
      BY <1>4, <3>2 DEF CreateReady, Goto, TypeOK, Numbering
    <3>. QED  BY <3>1, <3>2
  <2>7. \A t \in Tasks : Len(attempts'[t]) \in Nat /\ Len(attempts'[t]) >= Len(attempts[t])
    BY <1>1, <2>1, <2>4
  <2>8. \A q \in Procs : pc'[q] \in Numbering =>
          num'[q] \in 1..(Len(attempts'[task'[q]]) + 1)
    <3>. SUFFICES ASSUME NEW q \in Procs, pc'[q] \in Numbering
                  PROVE  num'[q] \in 1..(Len(attempts'[task'[q]]) + 1)
      OBVIOUS
    <3>1. q # p /\ pc[q] \in Numbering /\ task[q] \in Tasks
      BY <1>1, <2>5, <2>6 DEF Numbering
    <3>2. num[q] \in 1..(Len(attempts[task[q]]) + 1)
      BY <3>1 DEF OwnerInv
    <3>. QED  BY <1>1, <2>1, <2>7, <3>1, <3>2
  <2>9. \A q \in Procs \ {p} : Owning(q)' => Owning(q) /\ task[q] \in Tasks
    BY <1>1, <2>1, <2>5 DEF Owning
  <2>10. \A q \in Procs : Owning(q)' => num'[q] \in 1..Len(attempts'[task'[q]])
    BY <1>1, <2>1, <2>3, <2>4, <2>7, <2>9 DEF OwnerInv
  <2>11. \A q \in Procs \ {p} : Owning(q)' => Lease(q)' # Lease(p)'
    BY <1>1, <2>1, <2>3, <2>9 DEF OwnerInv, Lease
  <2>12. \A q, r \in Procs : q # r /\ Owning(q)' /\ Owning(r)' => Lease(q)' # Lease(r)'
    BY <2>1, <2>9, <2>11 DEF OwnerInv, Lease
  <2>13. \A q \in Procs : handler'[q] # "none" => Lease(q)' \in leases'
    BY <2>1 DEF OwnerInv, Lease
  <2>. QED  BY <2>8, <2>10, <2>12, <2>13 DEF OwnerInv
<1>5. ASSUME NEW p \in Procs, AcquireSlot(p)
      PROVE  OwnerInv'
  <2>1. /\ UNCHANGED <<attempts, task, num>>
        /\ leases' = leases \cup {Lease(p)}
        /\ \A q \in Procs \ {p} : pc'[q] = pc[q] /\ handler'[q] = handler[q]
        /\ pc[p] = "admit" /\ pc'[p] = "mark_attempt"
    BY <1>5 DEF AcquireSlot, TypeOK, Goto, At
  <2>2. \A q \in Procs : Owning(q)' => Owning(q)
    BY <2>1 DEF Owning
  <2>3. \A q \in Procs : pc'[q] \in Numbering => pc[q] \in Numbering
    BY <2>1 DEF Numbering
  <2>. QED  BY <2>1, <2>2, <2>3 DEF OwnerInv, Lease
<1>6. ASSUME NEW p \in Procs, ReleaseSlot(p)
      PROVE  OwnerInv'
  <2>1. /\ UNCHANGED attempts
        /\ leases' = leases \ {Lease(p)}
        /\ \A q \in Procs \ {p} : /\ pc'[q] = pc[q] /\ handler'[q] = handler[q]
                                  /\ task'[q] = task[q] /\ num'[q] = num[q]
        /\ pc[p] = "release" /\ pc'[p] = "idle" /\ handler'[p] = "none"
    BY <1>6 DEF ReleaseSlot, Leave, TypeOK, Goto, At
  <2>2. Owning(p)
    BY <2>1 DEF PhaseInv, Phase, Owning
  <2>3. \A q \in Procs : Owning(q)' => q # p /\ Owning(q)
    BY <2>1 DEF Owning
  <2>4. \A q \in Procs : pc'[q] \in Numbering => q # p /\ pc[q] \in Numbering
    BY <2>1 DEF Numbering
  <2>5. \A q \in Procs : handler'[q] # "none" => Lease(q)' \in leases'
    <3>. SUFFICES ASSUME NEW q \in Procs, handler'[q] # "none"
                  PROVE  Lease(q)' \in leases'
      OBVIOUS
    <3>1. q # p /\ Owning(q) /\ handler[q] # "none" /\ Lease(q)' = Lease(q)
      BY <2>1 DEF Owning, Lease
    <3>2. Lease(q) \in leases /\ Lease(q) # Lease(p)
      BY <2>2, <3>1 DEF OwnerInv
    <3>. QED  BY <2>1, <3>1, <3>2
  <2>6. \A q, r \in Procs : q # r /\ Owning(q)' /\ Owning(r)' => Lease(q)' # Lease(r)'
    BY <2>1, <2>3 DEF OwnerInv, Lease
  <2>. QED  BY <2>1, <2>3, <2>4, <2>5, <2>6 DEF OwnerInv
<1>. QED  BY <1>2, <1>3, <1>4, <1>5, <1>6, KeepsStep

\* acquire_slot is the only insert, and it counted one slot less.
CapInv == IsFiniteSet(leases) /\ SlotCap

LEMMA CapStep ==
  ASSUME TypeOK, PhaseInv, CapInv, [Next]_vars
  PROVE  CapInv'
<1>1. ASSUME NEW S \in SUBSET leases, leases' = S
      PROVE  CapInv'
  <2>1. IsFiniteSet(leases')
    BY <1>1, FS_Subset DEF CapInv
  <2>2. ASSUME NEW profile \in Profiles
        PROVE  Cardinality(Active(profile)') <= MaxSlots[profile]
    <3>1. Active(profile)' \subseteq Active(profile) /\ IsFiniteSet(Active(profile))
      BY <1>1, FS_Subset DEF CapInv, Active
    <3>2. Cardinality(Active(profile)') <= Cardinality(Active(profile))
      BY <3>1, FS_Subset
    <3>3. Cardinality(Active(profile)') \in Nat /\ Cardinality(Active(profile)) \in Nat
      BY <3>1, FS_Subset, FS_CardinalityType
    <3>4. MaxSlots[profile] \in Nat
      BY ConstantsAssumption
    <3>. QED  BY <3>2, <3>3, <3>4 DEF CapInv, SlotCap
  <2>. QED  BY <2>1, <2>2 DEF CapInv, SlotCap
<1>2. ASSUME NEW p \in Procs, AcquireSlot(p)
      PROVE  CapInv'
  <2>. DEFINE mine == Profile[task[p]]
  <2>1. /\ task[p] \in Tasks /\ leases' = leases \cup {Lease(p)}
        /\ Cardinality(Active(mine)) < MaxSlots[mine]
    BY <1>2 DEF AcquireSlot, PhaseInv, Phase, At
  <2>2. IsFiniteSet(leases')
    BY <2>1, FS_AddElement DEF CapInv
  <2>3. ASSUME NEW profile \in Profiles
        PROVE  Cardinality(Active(profile)') <= MaxSlots[profile]
    <3>1. IsFiniteSet(Active(profile)) /\ Cardinality(Active(profile)) \in Nat
      BY FS_Subset, FS_CardinalityType DEF CapInv, Active
    <3>2. MaxSlots[profile] \in Nat
      BY ConstantsAssumption
    <3>3. CASE profile = mine
      <4>1. Active(profile)' = Active(profile) \cup {Lease(p)}
        BY <2>1, <3>3 DEF Active, Lease
      <4>2. Cardinality(Active(profile)') <= Cardinality(Active(profile)) + 1
        BY <3>1, <4>1, FS_AddElement
      <4>3. Cardinality(Active(profile)') \in Nat
        BY <3>1, <4>1, FS_AddElement, FS_CardinalityType
      <4>. QED  BY <2>1, <3>1, <3>2, <3>3, <4>2, <4>3
    <3>4. CASE profile # mine
      <4>1. Active(profile)' = Active(profile)
        BY <2>1, <3>4 DEF Active, Lease
      <4>. QED  BY <4>1 DEF CapInv, SlotCap
    <3>. QED  BY <3>3, <3>4
  <2>. QED  BY <2>2, <2>3 DEF CapInv, SlotCap
<1>3. ASSUME NEW p \in Procs, ~AcquireSlot(p),
             Command(p) \/ Step(p) \/ Crash(p) \/ CallRaises(p)
      PROVE  leases' \in SUBSET leases
  BY <1>3 DEF Command, Step, StartRun, StartRetry, StartResume, StartBatch,
       BatchNext, Register, ReadNumber, ProbeDependency, CreateReady,
       CreateBlocked, CreateRetry, Collision, SlotConflict, MarkAttemptRunning,
       MarkTaskRunning, WorkerDone, WorkerFails, WriteResult, UpdateAttempt,
       UpdateTask, Record, ReleaseSlot, Crash, CallRaises, db
<1>4. CASE UNCHANGED vars
  BY <1>1, <1>4 DEF vars, db
<1>. QED  BY <1>1, <1>2, <1>3, <1>4 DEF Next

\* The inductive invariant of the admission slots.
IInv == TypeOK /\ PhaseInv /\ OwnerInv /\ CapInv

LEMMA InitIInv == Init => IInv
<1>. SUFFICES ASSUME Init PROVE IInv
  OBVIOUS
<1>. USE ConstantsAssumption DEF Init
<1>1. TypeOK
  BY DEF TypeOK, States, Blocked, Finals, Labels
<1>2. PhaseInv
  BY DEF PhaseInv, Phase
<1>3. OwnerInv
  BY DEF OwnerInv, Owning, Numbering
<1>4. CapInv
  <2>1. \A profile \in Profiles : Active(profile) = {}
    BY DEF Active
  <2>2. IsFiniteSet(leases)
    BY FS_EmptySet
  <2>3. \A profile \in Profiles : Cardinality(Active(profile)) = 0
    BY <2>1, FS_EmptySet
  <2>4. \A profile \in Profiles : 0 <= MaxSlots[profile]
    OBVIOUS
  <2>5. SlotCap
    BY <2>3, <2>4 DEF SlotCap
  <2>. QED  BY <2>2, <2>5 DEF CapInv
<1>. QED  BY <1>1, <1>2, <1>3, <1>4 DEF IInv

LEMMA StepIInv == IInv /\ [Next]_vars => IInv'
BY TypedStep, OwnerStep, CapStep DEF IInv

LEMMA IInvHolds == Spec => []IInv
BY InitIInv, StepIInv, PTL DEF Spec

\* Every variable of the kernel keeps its type: no row, file or process ever
\* holds a state the code does not know.
THEOREM TypeCorrect == Spec => []TypeOK
<1>1. IInv => TypeOK
  BY DEF IInv
<1>. QED  BY <1>1, IInvHolds, PTL

\* No profile ever has more unreleased leases than its max_active_leases, with
\* any number of processes, crashes and raised calls.
THEOREM SlotCapHolds == Spec => []SlotCap
<1>1. IInv => SlotCap
  BY DEF IInv, CapInv
<1>. QED  BY <1>1, IInvHolds, PTL

\* Every run past acquire_slot holds a lease of its own, although the attempt
\* number it is named after is read and inserted in two transactions.
THEOREM OwnsSlotHolds == Spec => []OwnsSlot
<1>1. IInv => OwnsSlot
  BY DEF IInv, OwnerInv, OwnsSlot, Owning
<1>. QED  BY <1>1, IInvHolds, PTL

\* Distinct working processes hold distinct leases, so they are at most as many.
LEMMA WorkersHaveSlots ==
  ASSUME IInv
  PROVE  WorkerCap
<1>. SUFFICES ASSUME NEW profile \in Profiles
              PROVE  Cardinality(Working(profile)) <= MaxSlots[profile]
  BY DEF WorkerCap
<1>. DEFINE f == [p \in Working(profile) |-> Lease(p)]
<1>1. \A p \in Working(profile) : /\ p \in Procs /\ task[p] \in Tasks
                                  /\ handler[p] # "none"
                                  /\ Profile[task[p]] = profile
  BY DEF IInv, PhaseInv, Phase, Working, At
<1>2. \A p \in Working(profile) : Lease(p) \in Active(profile)
  BY <1>1 DEF IInv, OwnerInv, Active, Lease
<1>3. \A p, q \in Working(profile) : p # q => Lease(p) # Lease(q)
  BY <1>1 DEF IInv, OwnerInv, Owning
<1>4. f \in Injection(Working(profile), Active(profile))
  <2>1. f \in [Working(profile) -> Active(profile)]
    BY <1>2
  <2>2. \A p, q \in Working(profile) : f[p] = f[q] => p = q
    BY <1>3
  <2>. QED  BY <2>1, <2>2, Fun_IsInj
<1>5. IsFiniteSet(Active(profile))
  BY FS_Subset DEF IInv, CapInv, Active
<1>6. /\ Cardinality(Working(profile)) <= Cardinality(Active(profile))
      /\ Cardinality(Working(profile)) \in Nat
      /\ Cardinality(Active(profile)) \in Nat
  BY <1>4, <1>5, FS_Injection, FS_CardinalityType
<1>7. Cardinality(Active(profile)) <= MaxSlots[profile] /\ MaxSlots[profile] \in Nat
  BY ConstantsAssumption DEF IInv, CapInv, SlotCap
<1>. QED  BY <1>6, <1>7

\* At most max_active_leases workers of a profile run at any time.
THEOREM WorkerCapHolds == Spec => []WorkerCap
<1>1. IInv => WorkerCap
  BY WorkersHaveSlots
<1>. QED  BY <1>1, IInvHolds, PTL

-----------------------------------------------------------------------------
(* The pool of workers, step by step, and the leases nobody will return.   *)

\* The processes that hold a slot, and the three sets WorkerPool is about: the
\* leases of a holder, those whose holder is gone, and those of a worker.
Holders == {p \in Procs : handler[p] # "none"}
Live == {Lease(p) : p \in {q \in Procs : handler[q] # "none"}}
Lost == leases \ Live
AtWork == {Lease(p) : p \in {q \in Procs : At(q, "work")}}

\* WorkerPool counts with the same function.
LEMMA SameCount == \A S : Pool!Cardinality(S) = Cardinality(S)
  BY Zenon DEF Pool!Cardinality, Cardinality

\* The steps of WorkerPool in terms of its three sets here.
LEMMA AdmitStep ==
  ASSUME NEW a, a \notin leases, Live \subseteq leases,
         Cardinality(Active(Profile[a[1]])) < MaxSlots[Profile[a[1]]],
         Live' = Live \cup {a}, UNCHANGED <<Lost, AtWork>>
  PROVE  Pool!Next
<1>1. Pool!Taken(Profile[a[1]]) = Active(Profile[a[1]])
  <2>1. Live \cup (leases \ Live) = leases
    OBVIOUS
  <2> QED BY <2>1 DEF Pool!Taken, Active, Live
<1>2. Pool!Cardinality(Pool!Taken(Profile[a[1]])) < MaxSlots[Profile[a[1]]]
  BY <1>1, SameCount
<1>3. a \in Live' \ (Live \cup (leases \ Live))
  OBVIOUS
<1>4. Pool!Admit
  BY <1>2, <1>3 DEF Pool!Admit, Live, Lost, AtWork
<1> QED BY <1>4 DEF Pool!Next

LEMMA BeginStep ==
  ASSUME NEW a \in Live \ AtWork, AtWork' = AtWork \cup {a}, UNCHANGED <<Live, Lost>>
  PROVE  Pool!Next
<1>1. Pool!Begin
  BY DEF Pool!Begin, Live, Lost, AtWork
<1> QED BY <1>1 DEF Pool!Next

LEMMA EndStep ==
  ASSUME NEW a \in AtWork, AtWork' = AtWork \ {a}, UNCHANGED <<Live, Lost>>
  PROVE  Pool!Next
<1>1. Pool!End
  BY DEF Pool!End, Live, Lost, AtWork
<1> QED BY <1>1 DEF Pool!Next

LEMMA ReturnStep ==
  ASSUME NEW a \in Live \ AtWork, Live' = Live \ {a}, UNCHANGED <<Lost, AtWork>>
  PROVE  Pool!Next
<1>1. Pool!Return
  BY DEF Pool!Return, Live, Lost, AtWork
<1> QED BY <1>1 DEF Pool!Next

LEMMA LoseStep ==
  ASSUME NEW a \in Live, Live' = Live \ {a}, Lost' = Lost \cup {a}, AtWork' = AtWork \ {a}
  PROVE  Pool!Next
<1>1. Pool!Lose
  BY DEF Pool!Lose, Live, Lost, AtWork
<1> QED BY <1>1 DEF Pool!Next

LEMMA Stutter ==
  ASSUME UNCHANGED <<Live, Lost, AtWork>> PROVE UNCHANGED Pool!vars
BY DEF Pool!vars, Live, Lost, AtWork

-----------------------------------------------------------------------------
(* What a step of p means for slots, workers and owners.                   *)

Same(p) == \A q \in Procs \ {p} : /\ pc'[q] = pc[q] /\ task'[q] = task[q]
                                  /\ num'[q] = num[q] /\ handler'[q] = handler[q]

\* Nothing.
Neutral(p) ==
  /\ Same(p) /\ UNCHANGED leases
  /\ pc'[p] # "admit" /\ (pc'[p] = "work" <=> pc[p] = "work")
  /\ handler'[p] = "none" <=> handler[p] = "none"
  /\ handler[p] # "none" => task'[p] = task[p] /\ num'[p] = num[p]

\* Its worker begins, or ends.
Begins(p) ==
  /\ Same(p) /\ UNCHANGED <<leases, task, num, handler>>
  /\ handler[p] # "none" /\ pc[p] # "work" /\ pc'[p] = "work"
Ends(p) ==
  /\ Same(p) /\ UNCHANGED <<leases, task, num>>
  /\ handler[p] # "none" /\ handler'[p] # "none"
  /\ pc[p] = "work" /\ pc'[p] \notin {"work", "admit"}

\* It dies or gives up with its lease.
Loses(p) ==
  /\ Same(p) /\ UNCHANGED leases
  /\ handler[p] # "none" /\ handler'[p] = "none" /\ pc'[p] = "idle"
  /\ crashed' + erred' = crashed + erred + 1

Effect(p) == Neutral(p) \/ Begins(p) \/ Ends(p) \/ Loses(p)

LEMMA EffectStep ==
  ASSUME TypeOK, PhaseInv, [Next]_vars
  PROVE  \/ UNCHANGED vars
         \/ \E p \in Procs : Effect(p) \/ CreateReady(p) \/ AcquireSlot(p) \/ ReleaseSlot(p)
<1>. USE DEF Goto, At
<1>0. /\ \A q \in Procs : handler[q] # "none" => pc[q] \in Holding
      /\ \A q \in Procs : handler[q] = "none" =>
           pc[q] \notin {"mark_attempt", "mark_task", "work", "release"}
      /\ \A q \in Procs : pc[q] \in {"idle", "number", "probe", "create_blocked",
                                     "create_retry", "admit", "register"} => handler[q] = "none"
      /\ pc \in [Procs -> Labels] /\ task \in [Procs -> Tasks \cup {NoTask}]
      /\ num \in [Procs -> Nat] /\ handler \in [Procs -> {"none", "try", "except"}]
      /\ crashed \in Nat /\ erred \in Nat
  BY DEF PhaseInv, Phase, TypeOK, Holding
<1>1. ASSUME NEW p \in Procs, NEW t \in Tasks, StartRun(p, t)
      PROVE  Neutral(p)
  BY <1>0, <1>1 DEF StartRun, Neutral, Same, Holding, db, locals, spent, Leave, EnterExcept
<1>2. ASSUME NEW p \in Procs, NEW t \in Tasks, StartRetry(p, t)
      PROVE  Neutral(p)
  BY <1>0, <1>2 DEF StartRetry, Neutral, Same, Holding, db, locals, spent, Leave, EnterExcept
<1>3. ASSUME NEW p \in Procs, NEW t \in Tasks, NEW n \in DOMAIN attempts[t], StartResume(p, t, n)
      PROVE  Neutral(p)
  BY <1>0, <1>3 DEF StartResume, Neutral, Same, Holding, db, locals, spent, Leave, EnterExcept
<1>4. ASSUME NEW p \in Procs, StartBatch(p)
      PROVE  Neutral(p)
  BY <1>0, <1>4 DEF StartBatch, Neutral, Same, Holding, db, locals, spent, Leave, EnterExcept
<1>5. ASSUME NEW p \in Procs, NEW t \in Tasks, BatchNext(p, t)
      PROVE  Neutral(p)
  BY <1>0, <1>5 DEF BatchNext, Neutral, Same, Holding, db, locals, spent, Leave, EnterExcept
<1>6. ASSUME NEW p \in Procs, Register(p)
      PROVE  Neutral(p)
  BY <1>0, <1>6 DEF Register, Neutral, Same, Holding, db, locals, spent, Leave, EnterExcept
<1>7. ASSUME NEW p \in Procs, ReadNumber(p)
      PROVE  Neutral(p)
  BY <1>0, <1>7 DEF ReadNumber, Neutral, Same, Holding, db, locals, spent, Leave, EnterExcept
<1>8. ASSUME NEW p \in Procs, CreateBlocked(p)
      PROVE  Neutral(p)
  BY <1>0, <1>8 DEF CreateBlocked, Neutral, Same, Holding, db, locals, spent, Leave, EnterExcept
<1>9. ASSUME NEW p \in Procs, CreateRetry(p)
      PROVE  Neutral(p)
  BY <1>0, <1>9 DEF CreateRetry, Neutral, Same, Holding, db, locals, spent, Leave, EnterExcept
<1>10. ASSUME NEW p \in Procs, Collision(p)
      PROVE  Neutral(p)
  BY <1>0, <1>10 DEF Collision, Neutral, Same, Holding, db, locals, spent, Leave, EnterExcept
<1>11. ASSUME NEW p \in Procs, SlotConflict(p)
      PROVE  Neutral(p)
  BY <1>0, <1>11 DEF SlotConflict, Neutral, Same, Holding, db, locals, spent, Leave, EnterExcept
<1>12. ASSUME NEW p \in Procs, MarkAttemptRunning(p)
      PROVE  Neutral(p)
  BY <1>0, <1>12 DEF MarkAttemptRunning, Neutral, Same, Holding, db, locals, spent, Leave, EnterExcept
<1>13. ASSUME NEW p \in Procs, WriteResult(p)
      PROVE  Neutral(p)
  BY <1>0, <1>13 DEF WriteResult, Neutral, Same, Holding, db, locals, spent, Leave, EnterExcept
<1>14. ASSUME NEW p \in Procs, UpdateAttempt(p)
      PROVE  Neutral(p)
  BY <1>0, <1>14 DEF UpdateAttempt, Neutral, Same, Holding, db, locals, spent, Leave, EnterExcept
<1>15. ASSUME NEW p \in Procs, UpdateTask(p)
      PROVE  Neutral(p)
  BY <1>0, <1>15 DEF UpdateTask, Neutral, Same, Holding, db, locals, spent, Leave, EnterExcept
<1>16. ASSUME NEW p \in Procs, NEW d \in Tasks, ProbeDependency(p, d)
      PROVE  Neutral(p)
  <2>1. CASE status[d] = "completed"
    <3>1. UNCHANGED pc
      BY <1>16, <2>1 DEF ProbeDependency
    <3>. QED  BY <1>0, <1>16, <3>1 DEF ProbeDependency, Neutral, Same, Holding, db, locals, spent, Leave, EnterExcept
  <2>2. CASE status[d] # "completed"
    <3>1. Goto(p, "create_blocked")
      BY <1>16, <2>2 DEF ProbeDependency
    <3>. QED  BY <1>0, <1>16, <3>1 DEF ProbeDependency, Neutral, Same, Holding, db, locals, spent, Leave, EnterExcept
  <2>. QED  BY <2>1, <2>2
<1>17. ASSUME NEW p \in Procs, Record(p)
      PROVE  Neutral(p)
  <2>1. CASE handler[p] = "none"
    <3>1. Leave(p, todo[p])
      BY <1>17, <2>1 DEF Record
    <3>. QED  BY <1>0, <1>17, <2>1, <3>1 DEF Record, Neutral, Same, Holding, db, locals, spent, Leave, EnterExcept
  <2>2. CASE handler[p] # "none"
    <3>1. Goto(p, "release") /\ UNCHANGED locals
      BY <1>17, <2>2 DEF Record
    <3>. QED  BY <1>0, <1>17, <2>2, <3>1 DEF Record, Neutral, Same, Holding, db, locals, spent, Leave, EnterExcept
  <2>. QED  BY <2>1, <2>2
<1>18. ASSUME NEW p \in Procs, MarkTaskRunning(p)
      PROVE  Begins(p)
  BY <1>0, <1>18 DEF MarkTaskRunning, Begins, Same, locals
<1>19. ASSUME NEW p \in Procs, WorkerDone(p)
      PROVE  Ends(p)
  BY <1>0, <1>19 DEF WorkerDone, Ends, Same, EnterExcept, db
<1>20. ASSUME NEW p \in Procs, WorkerFails(p)
      PROVE  Ends(p)
  BY <1>0, <1>20 DEF WorkerFails, Ends, Same, EnterExcept, db
<1>21. ASSUME NEW p \in Procs, UNCHANGED db, NEW S, Leave(p, S),
             crashed' + erred' = crashed + erred + 1
      PROVE  Neutral(p) \/ Loses(p)
  BY <1>0, <1>21 DEF Loses, Neutral, Same, Holding, db, locals, spent, Leave, EnterExcept
<1>22. ASSUME NEW p \in Procs, Crash(p)
      PROVE  Neutral(p) \/ Loses(p)
  BY <1>0, <1>21, <1>22 DEF Crash
<1>23. ASSUME NEW p \in Procs, CallRaises(p)
      PROVE  Effect(p)
  <2>. UNCHANGED <<db, crashed>> /\ erred' = erred + 1
    BY <1>23 DEF CallRaises
  <2>1. CASE handler[p] = "try" /\ pc[p] # "release"
    <3>1. EnterExcept(p) /\ UNCHANGED <<task, num, unread, todo>>
      BY <1>23, <2>1 DEF CallRaises
    <3>2. CASE pc[p] = "work"
      BY <1>0, <2>1, <3>1, <3>2 DEF Effect, Ends, Same, EnterExcept, db
    <3>3. CASE pc[p] # "work"
      BY <1>0, <2>1, <3>1, <3>3 DEF Effect, Neutral, Same, Holding, db, locals, spent, Leave, EnterExcept
    <3>. QED  BY <3>2, <3>3
  <2>2. CASE handler[p] = "except" /\ pc[p] # "release"
    <3>1. Goto(p, "release") /\ UNCHANGED <<task, num, unread, outcome, handler>>
      BY <1>23, <2>2 DEF CallRaises
    <3>2. CASE pc[p] = "work"
      BY <1>0, <2>2, <3>1, <3>2 DEF Effect, Ends, Same, db
    <3>3. CASE pc[p] # "work"
      BY <1>0, <2>2, <3>1, <3>3 DEF Effect, Neutral, Same, Holding, db, locals, spent, Leave, EnterExcept
    <3>. QED  BY <3>2, <3>3
  <2>3. CASE ~(handler[p] \in {"try", "except"} /\ pc[p] # "release")
    <3>1. Leave(p, {})
      BY <1>23, <2>3 DEF CallRaises
    <3>. QED  BY <1>0, <1>21, <3>1 DEF Effect
  <2>. QED  BY <2>1, <2>2, <2>3
<1>. QED
  BY <1>1, <1>2, <1>3, <1>4, <1>5, <1>6, <1>7, <1>8, <1>9, <1>10, <1>11, <1>12, <1>13, <1>14, <1>15, <1>16, <1>17, <1>18, <1>19, <1>20, <1>22, <1>23 DEF Next, Command, Step, Effect

-----------------------------------------------------------------------------
(* Leases name attempts that exist; a run about to be admitted has none.   *)

LeaseInv ==
  /\ \A l \in leases : l[2] <= Len(attempts[l[1]])
  /\ \A p \in Procs : pc[p] = "admit" => Lease(p) \notin leases

LEMMA LeaseStep ==
  ASSUME IInv, IInv', LeaseInv, [Next]_vars
  PROVE  LeaseInv'
<1>1. /\ \A t \in Tasks : Len(attempts[t]) \in Nat /\ Len(attempts'[t]) \in Nat
      /\ \A q \in Procs : pc[q] = "admit" => task[q] \in Tasks /\ num[q] \in Nat
      /\ leases \subseteq Tasks \X Nat /\ leases' \subseteq Tasks \X Nat
      /\ pc \in [Procs -> Labels]
  BY DEF IInv, TypeOK, PhaseInv, Phase
<1>2. \A t \in Tasks : Len(attempts'[t]) >= Len(attempts[t])
  <2>1. ASSUME NEW p \in Procs, CreateReady(p)
        PROVE  \A t \in Tasks : Len(attempts'[t]) >= Len(attempts[t])
    BY <1>1, <2>1 DEF CreateReady, InsertAttempt, IInv, TypeOK
  <2>2. ASSUME NEW p \in Procs, AcquireSlot(p) \/ ReleaseSlot(p)
        PROVE  UNCHANGED attempts
    BY <2>2 DEF AcquireSlot, ReleaseSlot
  <2>3. CASE UNCHANGED vars
    BY <1>1, <2>3 DEF vars, db
  <2> QED BY <1>1, <2>1, <2>2, <2>3, KeepsStep DEF IInv, Keeps
\* Leases that stay, and owners that stay away from them.
<1>3. ASSUME leases' \subseteq leases,
             \A q \in Procs : pc'[q] = "admit" =>
               pc[q] = "admit" /\ task'[q] = task[q] /\ num'[q] = num[q]
      PROVE  LeaseInv'
  <2>1. \A l \in leases' : l[1] \in Tasks /\ l[2] \in Nat
    BY <1>1
  <2> QED BY <1>1, <1>2, <1>3, <2>1 DEF LeaseInv, Lease
<1>4. ASSUME NEW p \in Procs, Effect(p) PROVE LeaseInv'
  BY <1>3, <1>4 DEF Effect, Neutral, Begins, Ends, Loses, Same
<1>5. ASSUME NEW p \in Procs, CreateReady(p) PROVE LeaseInv'
  <2>1. /\ pc[p] = "probe" /\ task[p] \in Tasks /\ UNCHANGED <<leases, task, num>>
        /\ num[p] = Len(attempts[task[p]]) + 1
        /\ \A q \in Procs \ {p} : pc'[q] = pc[q]
    <3>1. /\ pc[p] = "probe" /\ UNCHANGED <<leases, task, num>>
          /\ num[p] \notin DOMAIN attempts[task[p]]
          /\ \E label : pc' = [pc EXCEPT ![p] = label]
      BY <1>5 DEF CreateReady, InsertAttempt, Collides, At, Goto
    <3>2. task[p] \in Tasks /\ num[p] \in 1..(Len(attempts[task[p]]) + 1)
      BY <3>1 DEF IInv, PhaseInv, Phase, OwnerInv, Numbering
    <3>3. DOMAIN attempts[task[p]] = 1..Len(attempts[task[p]])
      BY <3>2 DEF IInv, TypeOK
    <3> QED BY <1>1, <3>1, <3>2, <3>3
  <2>2. Lease(p) \notin leases
    <3>1. \A l \in leases : l[1] = task[p] => l[2] # num[p]
      BY <1>1, <2>1 DEF LeaseInv
    <3>2. Lease(p)[1] = task[p] /\ Lease(p)[2] = num[p]
      BY DEF Lease
    <3> QED BY <3>1, <3>2
  <2>3. Lease(p)' = Lease(p)
    BY <2>1 DEF Lease
  <2>4. \A q \in Procs \ {p} : Lease(q)' = Lease(q)
    BY <2>1 DEF Lease
  <2>5. \A l \in leases' : l[2] <= Len(attempts'[l[1]])
    BY <1>1, <1>2, <2>1 DEF LeaseInv
  <2> QED BY <2>1, <2>2, <2>3, <2>4, <2>5 DEF LeaseInv
<1>6. ASSUME NEW p \in Procs, AcquireSlot(p) PROVE LeaseInv'
  <2>1. /\ pc[p] = "admit" /\ pc' = [pc EXCEPT ![p] = "mark_attempt"]
        /\ UNCHANGED <<attempts, task, num>> /\ leases' = leases \cup {Lease(p)}
    BY <1>6 DEF AcquireSlot, At, Goto
  <2>2. Lease(p)[2] <= Len(attempts[Lease(p)[1]])
    BY <1>1, <2>1 DEF Lease, IInv, OwnerInv, Owning
  <2>3. \A q \in Procs : pc'[q] = "admit" => /\ pc[q] = "admit" /\ q # p
                                             /\ Lease(q)' = Lease(q) /\ Lease(q) # Lease(p)
    BY <1>1, <2>1 DEF IInv, OwnerInv, Owning, Lease
  <2> QED BY <1>1, <2>1, <2>2, <2>3 DEF LeaseInv
<1>7. ASSUME NEW p \in Procs, ReleaseSlot(p) PROVE LeaseInv'
  BY <1>1, <1>3, <1>7 DEF ReleaseSlot, Leave, Goto, IInv, TypeOK
<1>8. CASE UNCHANGED vars
  BY <1>3, <1>8 DEF vars, db, locals
<1> QED BY <1>4, <1>5, <1>6, <1>7, <1>8, EffectStep DEF IInv

-----------------------------------------------------------------------------
(* Refinement.                                                             *)

LEMMA LiveHeld == ASSUME IInv PROVE Live \subseteq leases /\ AtWork \subseteq Live
<1>1. \A q \in Procs : At(q, "work") => handler[q] # "none"
  BY DEF IInv, PhaseInv, Phase, At
<1> QED BY <1>1 DEF Live, AtWork, IInv, OwnerInv

\* Steps that leave the other runs alone change the sets by the lease of p.
LEMMA SetsOfOthers ==
  ASSUME IInv, NEW p \in Procs, Same(p)
  PROVE  /\ handler[p] # "none" => Live \ {Lease(p)} = {Lease(q) : q \in Holders \ {p}}
         /\ handler[p] = "none" => Live = {Lease(q) : q \in Holders \ {p}}
         /\ handler'[p] # "none" => Live' = {Lease(q) : q \in Holders \ {p}} \cup {Lease(p)'}
         /\ handler'[p] = "none" => Live' = {Lease(q) : q \in Holders \ {p}}
         /\ At(p, "work") => AtWork \ {Lease(p)} = {Lease(q) : q \in {r \in Procs : At(r, "work")} \ {p}}
         /\ ~At(p, "work") => AtWork = {Lease(q) : q \in {r \in Procs : At(r, "work")} \ {p}}
         /\ pc'[p] = "work" => AtWork' = {Lease(q) : q \in {r \in Procs : At(r, "work")} \ {p}} \cup {Lease(p)'}
         /\ pc'[p] # "work" => AtWork' = {Lease(q) : q \in {r \in Procs : At(r, "work")} \ {p}}
<1>1. \A q \in Procs : At(q, "work") => handler[q] # "none"
  BY DEF IInv, PhaseInv, Phase, At
<1>2. \A q \in Procs \ {p} : /\ Lease(q)' = Lease(q)
                             /\ q \in Holders' <=> q \in Holders
                             /\ At(q, "work")' <=> At(q, "work")
  BY DEF Same, Lease, Holders, At
<1>3. handler[p] # "none" => \A q \in Holders \ {p} : Lease(q) # Lease(p)
  BY DEF IInv, OwnerInv, Owning, Holders
<1>4. At(p, "work") => \A q \in Procs \ {p} : At(q, "work") => Lease(q) # Lease(p)
  BY <1>1, <1>3 DEF Holders
<1>5. At(p, "work")' <=> pc'[p] = "work"
  BY DEF At
<1>6. Live = {Lease(q) : q \in Holders} /\ Live' = {Lease(q)' : q \in Holders'}
  BY DEF Live, Holders
<1>7. /\ p \in Holders <=> handler[p] # "none"
      /\ p \in Holders' <=> handler'[p] # "none"
      /\ Holders \subseteq Procs /\ Holders' \subseteq Procs
  BY DEF Holders
<1>8. /\ handler[p] # "none" => Live \ {Lease(p)} = {Lease(q) : q \in Holders \ {p}}
      /\ handler[p] = "none" => Live = {Lease(q) : q \in Holders \ {p}}
  BY <1>3, <1>6, <1>7
<1>9. /\ handler'[p] # "none" => Live' = {Lease(q) : q \in Holders \ {p}} \cup {Lease(p)'}
      /\ handler'[p] = "none" => Live' = {Lease(q) : q \in Holders \ {p}}
  BY <1>2, <1>6, <1>7
<1>10. /\ At(p, "work") => AtWork \ {Lease(p)} = {Lease(q) : q \in {r \in Procs : At(r, "work")} \ {p}}
       /\ ~At(p, "work") => AtWork = {Lease(q) : q \in {r \in Procs : At(r, "work")} \ {p}}
  BY <1>4 DEF AtWork
<1>11. /\ pc'[p] = "work" => AtWork' = {Lease(q) : q \in {r \in Procs : At(r, "work")} \ {p}} \cup {Lease(p)'}
       /\ pc'[p] # "work" => AtWork' = {Lease(q) : q \in {r \in Procs : At(r, "work")} \ {p}}
  BY <1>2, <1>5 DEF AtWork
<1> QED BY <1>8, <1>9, <1>10, <1>11

LEMMA NeutralPool ==
  ASSUME IInv, NEW p \in Procs, Neutral(p) PROVE UNCHANGED <<Live, Lost, AtWork>>
<1>1. handler[p] # "none" => Lease(p)' = Lease(p)
  BY DEF Neutral, Lease
<1>2. pc[p] = "work" => handler[p] # "none"
  BY DEF IInv, PhaseInv, Phase
<1>3. /\ handler[p] # "none" => Lease(p) \in Live
      /\ At(p, "work") => Lease(p) \in AtWork
  BY DEF Live, AtWork
<1>4. Live' = Live
  <2>1. CASE handler[p] = "none"
    BY <2>1, SetsOfOthers DEF Neutral
  <2>2. CASE handler[p] # "none"
    <3> DEFINE X == {Lease(q) : q \in Holders \ {p}}
    <3>1. Live \ {Lease(p)} = X /\ Live' = X \cup {Lease(p)} /\ Lease(p) \in Live
      BY <1>1, <1>3, <2>2, SetsOfOthers DEF Neutral
    <3> HIDE DEF X
    <3> QED BY <3>1
  <2> QED BY <2>1, <2>2
<1>5. AtWork' = AtWork
  <2>1. CASE pc[p] = "work"
    BY <1>1, <1>2, <1>3, <2>1, SetsOfOthers DEF Neutral, At
  <2>2. CASE pc[p] # "work"
    BY <2>2, SetsOfOthers DEF Neutral, At
  <2> QED BY <2>1, <2>2
<1> QED BY <1>4, <1>5 DEF Lost, Neutral

LEMMA BeginsPool ==
  ASSUME IInv, NEW p \in Procs, Begins(p)
  PROVE  /\ Lease(p) \in Live \ AtWork /\ AtWork' = AtWork \cup {Lease(p)}
         /\ UNCHANGED <<Live, Lost>>
<1>1. Lease(p)' = Lease(p) /\ Lease(p) \in Live
  BY DEF Begins, Lease, Live
<1>2. \A q \in Procs \ {p} : At(q, "work") => Lease(q) # Lease(p)
  BY DEF IInv, PhaseInv, Phase, OwnerInv, Owning, Begins, At
<1>3. Live' = Live /\ AtWork' = AtWork \cup {Lease(p)} /\ Lease(p) \notin AtWork
  BY <1>1, <1>2, SetsOfOthers DEF Begins, At
<1> QED BY <1>1, <1>3 DEF Lost, Begins

LEMMA EndsPool ==
  ASSUME IInv, NEW p \in Procs, Ends(p)
  PROVE  /\ Lease(p) \in AtWork /\ AtWork' = AtWork \ {Lease(p)}
         /\ UNCHANGED <<Live, Lost>>
<1>1. Lease(p)' = Lease(p) /\ Lease(p) \in Live /\ Lease(p) \in AtWork
  BY DEF Ends, Lease, Live, AtWork, At
<1>2. Live' = Live /\ AtWork' = AtWork \ {Lease(p)}
  BY <1>1, SetsOfOthers DEF Ends, At
<1> QED BY <1>1, <1>2 DEF Lost, Ends

LEMMA LosesPool ==
  ASSUME IInv, NEW p \in Procs, Loses(p)
  PROVE  /\ Lease(p) \in Live /\ Live' = Live \ {Lease(p)}
         /\ Lost' = Lost \cup {Lease(p)} /\ AtWork' = AtWork \ {Lease(p)}
<1>1. Lease(p) \in Live /\ Lease(p) \in leases
  BY LiveHeld DEF Loses, Live
<1>2. \A q \in Procs \ {p} : At(q, "work") => Lease(q) # Lease(p)
  BY DEF IInv, PhaseInv, Phase, OwnerInv, Owning, Loses, At
<1>3. ~At(p, "work") => Lease(p) \notin AtWork
  BY <1>2, SetsOfOthers DEF Loses
<1>4. Live' = Live \ {Lease(p)} /\ AtWork' = AtWork \ {Lease(p)}
  BY <1>3, SetsOfOthers DEF Loses
<1>5. Lost' = Lost \cup {Lease(p)}
  BY <1>1, <1>4 DEF Lost, Loses
<1> QED BY <1>1, <1>4, <1>5

LEMMA CreatePool ==
  ASSUME IInv, NEW p \in Procs, CreateReady(p) PROVE UNCHANGED <<Live, Lost, AtWork>>
<1>1. /\ UNCHANGED <<leases, task, num, handler>> /\ pc[p] = "probe"
      /\ \E label \in {"write_result", "admit"} : pc' = [pc EXCEPT ![p] = label]
  BY DEF CreateReady, At, Goto
<1>2. \A q \in Procs : (At(q, "work")' <=> At(q, "work")) /\ Lease(q)' = Lease(q)
  BY <1>1 DEF At, Lease, IInv, TypeOK
<1> QED BY <1>1, <1>2 DEF Live, Lost, AtWork

LEMMA AcquirePool ==
  ASSUME IInv, LeaseInv, NEW p \in Procs, AcquireSlot(p)
  PROVE  /\ Lease(p) \notin leases
         /\ Cardinality(Active(Profile[Lease(p)[1]])) < MaxSlots[Profile[Lease(p)[1]]]
         /\ Live' = Live \cup {Lease(p)} /\ UNCHANGED <<Lost, AtWork>>
<1>1. /\ UNCHANGED <<task, num>> /\ leases' = leases \cup {Lease(p)}
      /\ pc[p] = "admit" /\ pc' = [pc EXCEPT ![p] = "mark_attempt"]
      /\ handler' = [handler EXCEPT ![p] = "try"]
      /\ Cardinality(Active(Profile[task[p]])) < MaxSlots[Profile[task[p]]]
  BY DEF AcquireSlot, At, Goto
<1>2. /\ handler[p] = "none" /\ handler'[p] = "try" /\ pc'[p] = "mark_attempt"
      /\ Same(p)
  BY <1>1 DEF IInv, PhaseInv, Phase, Holding, TypeOK, Same
<1>3. Lease(p)' = Lease(p) /\ Lease(p)[1] = task[p]
  BY <1>1 DEF Lease
<1>4. Live' = Live \cup {Lease(p)} /\ AtWork' = AtWork
  BY <1>1, <1>2, <1>3, SetsOfOthers DEF At
<1>5. Lease(p) \notin leases
  BY <1>1 DEF LeaseInv
<1>6. Lost' = Lost
  BY <1>1, <1>4, <1>5 DEF Lost
<1> QED BY <1>1, <1>3, <1>4, <1>5, <1>6

LEMMA ReleasePool ==
  ASSUME IInv, NEW p \in Procs, ReleaseSlot(p)
  PROVE  /\ Lease(p) \in Live \ AtWork /\ Live' = Live \ {Lease(p)}
         /\ UNCHANGED <<Lost, AtWork>>
<1>1. /\ leases' = leases \ {Lease(p)} /\ pc[p] = "release"
      /\ pc'[p] = "idle" /\ handler'[p] = "none" /\ Same(p)
  BY DEF ReleaseSlot, Leave, At, Goto, IInv, TypeOK, Same
<1>2. handler[p] # "none"
  BY <1>1 DEF IInv, PhaseInv, Phase
<1>3. \A q \in Procs \ {p} : At(q, "work") => Lease(q) # Lease(p)
  BY <1>2 DEF IInv, PhaseInv, Phase, OwnerInv, Owning, At
<1>4. Lease(p) \in Live /\ Lease(p) \notin AtWork
  BY <1>1, <1>2, <1>3 DEF Live, AtWork, At
<1>5. Live' = Live \ {Lease(p)} /\ AtWork' = AtWork
  BY <1>1, <1>2, SetsOfOthers DEF At
<1>6. Lost' = Lost
  BY <1>1, <1>4, <1>5 DEF Lost
<1> QED BY <1>4, <1>5, <1>6

\* A step of the kernel is a step of the pool or changes nothing of it.
LEMMA PoolStep ==
  ASSUME IInv, LeaseInv, [Next]_vars
  PROVE  Pool!Next \/ UNCHANGED Pool!vars
<1>1. CASE UNCHANGED vars
  <2>1. UNCHANGED <<Live, Lost, AtWork>>
    BY <1>1 DEF vars, db, locals, Live, Lost, AtWork, Lease, At
  <2> QED BY <2>1, Stutter
<1>2. ASSUME NEW p \in Procs, Neutral(p) PROVE UNCHANGED Pool!vars
  BY <1>2, NeutralPool, Stutter
<1>3. ASSUME NEW p \in Procs, Begins(p) PROVE Pool!Next
  BY <1>3, BeginsPool, BeginStep
<1>4. ASSUME NEW p \in Procs, Ends(p) PROVE Pool!Next
  BY <1>4, EndsPool, EndStep
<1>5. ASSUME NEW p \in Procs, Loses(p) PROVE Pool!Next
  BY <1>5, LosesPool, LoseStep
<1>6. ASSUME NEW p \in Procs, CreateReady(p) PROVE UNCHANGED Pool!vars
  BY <1>6, CreatePool, Stutter
<1>7. ASSUME NEW p \in Procs, AcquireSlot(p) PROVE Pool!Next
  BY <1>7, AcquirePool, AdmitStep, LiveHeld
<1>8. ASSUME NEW p \in Procs, ReleaseSlot(p) PROVE Pool!Next
  BY <1>8, ReleasePool, ReturnStep
<1> QED BY <1>1, <1>2, <1>3, <1>4, <1>5, <1>6, <1>7, <1>8, EffectStep DEF Effect, IInv

LEMMA LeaseInvariant == Spec => [](IInv /\ LeaseInv)
<1>1. Init => LeaseInv
  BY DEF Init, LeaseInv
<1>2. IInv /\ IInv' /\ LeaseInv /\ [Next]_vars => LeaseInv'
  BY LeaseStep
<1> QED BY <1>1, <1>2, IInvHolds, PTL DEF Spec

\* The kernel implements the abstract pool of workers: whatever commands,
\* crashes and raised calls are interleaved, each step admits, begins, ends,
\* returns or loses one slot as WorkerPool allows, or does nothing to it.
THEOREM ImplementsPoolHolds == Spec => ImplementsPool
<1>1. Init => Pool!Init
  BY DEF Init, Pool!Init, At
<1>2. IInv /\ LeaseInv /\ [Next]_vars => [Pool!Next]_(Pool!vars)
  BY PoolStep
<1> QED BY <1>1, <1>2, LeaseInvariant, PTL DEF Spec, ImplementsPool, Pool!Spec

-----------------------------------------------------------------------------
(* Lost slots are counted.                                                 *)

LostInv == IsFiniteSet(Lost) /\ Cardinality(Lost) <= crashed + erred

LEMMA LostStep ==
  ASSUME IInv, IInv', LeaseInv, LostInv, [Next]_vars
  PROVE  LostInv'
<1>1. /\ crashed \in Nat /\ erred \in Nat /\ crashed' \in Nat /\ erred' \in Nat
      /\ IsFiniteSet(Lost) /\ Cardinality(Lost) \in Nat
  BY FS_CardinalityType DEF IInv, TypeOK, LostInv
<1>2. crashed' >= crashed /\ erred' >= erred
  <2>1. ASSUME NEW p \in Procs, Crash(p) \/ CallRaises(p)
        PROVE  crashed' >= crashed /\ erred' >= erred
    BY <1>1, <2>1 DEF Crash, CallRaises
  <2>2. ASSUME NEW p \in Procs, Command(p) \/ Step(p) PROVE UNCHANGED <<crashed, erred>>
    BY <2>2 DEF Command, Step, StartRun, StartRetry, StartResume, StartBatch,
       BatchNext, Register, ReadNumber, ProbeDependency, CreateReady,
       CreateBlocked, CreateRetry, Collision, AcquireSlot, SlotConflict,
       MarkAttemptRunning, MarkTaskRunning, WorkerDone, WorkerFails, WriteResult,
       UpdateAttempt, UpdateTask, Record, ReleaseSlot, spent
  <2>3. CASE UNCHANGED vars
    BY <1>1, <2>3 DEF vars, spent
  <2> QED BY <1>1, <2>1, <2>2, <2>3 DEF Next
<1>3. ASSUME UNCHANGED Lost PROVE LostInv'
  BY <1>1, <1>2, <1>3 DEF LostInv
<1>4. ASSUME NEW p \in Procs, Loses(p) PROVE LostInv'
  <2>1. Lost' = Lost \cup {Lease(p)} /\ crashed' + erred' = crashed + erred + 1
    BY <1>4, LosesPool DEF Loses
  <2>2. IsFiniteSet(Lost') /\ Cardinality(Lost') <= Cardinality(Lost) + 1
    BY <1>1, <2>1, FS_AddElement
  <2>3. Cardinality(Lost') \in Nat
    BY <2>2, FS_CardinalityType
  <2>4. Cardinality(Lost') <= crashed' + erred'
    <3>1. Cardinality(Lost) <= crashed + erred
      BY DEF LostInv
    <3>2. crashed' + erred' = crashed + erred + 1
      BY <2>1
    <3>3. \A m, n, c, e, d, f \in Nat : m <= n + 1 /\ n <= c + e /\ d + f = c + e + 1 => m <= d + f
      OBVIOUS
    <3>4. Cardinality(Lost') \in Nat /\ Cardinality(Lost) \in Nat
          /\ Cardinality(Lost') <= Cardinality(Lost) + 1
      BY <1>1, <2>2, <2>3
    <3>5. crashed \in Nat /\ erred \in Nat /\ crashed' \in Nat /\ erred' \in Nat
      BY <1>1
    <3> QED BY <3>1, <3>2, <3>3, <3>4, <3>5
  <2> QED BY <2>2, <2>4 DEF LostInv
<1>5. CASE UNCHANGED vars
  BY <1>3, <1>5 DEF vars, db, locals, Lost, Live, Lease
<1> QED BY <1>3, <1>4, <1>5, EffectStep, NeutralPool, BeginsPool, EndsPool, CreatePool,
           AcquirePool, ReleasePool DEF Effect, IInv

\* Distinct holders have distinct leases, and the rest is lost.
LEMMA LostAccounts ==
  ASSUME IInv, LostInv PROVE SlotsAccounted
<1>1. IsFiniteSet(Holders) /\ Cardinality(Holders) \in Nat
  BY ConstantsAssumption, FS_Subset, FS_CardinalityType DEF Holders
<1> DEFINE f == [p \in Holders |-> Lease(p)]
<1>2. f \in Surjection(Holders, Live)
  <2>1. f \in [Holders -> Live] /\ \A l \in Live : \E p \in Holders : f[p] = l
    BY DEF Live, Holders
  <2> QED BY <2>1, Fun_IsSurj
<1>3. IsFiniteSet(Live) /\ Cardinality(Live) <= Cardinality(Holders)
  BY <1>1, <1>2, FS_Surjection
<1>4. /\ leases = Live \cup Lost /\ IsFiniteSet(Lost)
      /\ Cardinality(Live) \in Nat /\ Cardinality(Lost) \in Nat
  BY <1>3, LiveHeld, FS_CardinalityType DEF Lost, LostInv
<1>5. Cardinality(leases) <= Cardinality(Live) + Cardinality(Lost)
      /\ Cardinality(leases) \in Nat
  <2>1. Live \cap Lost = {}
    BY DEF Lost
  <2>2. /\ IsFiniteSet(Live \cup Lost)
        /\ Cardinality(Live \cup Lost) = Cardinality(Live) + Cardinality(Lost) - Cardinality(Live \cap Lost)
    BY <1>3, <1>4, FS_Union
  <2>3. Cardinality(Live \cap Lost) = 0
    BY <2>1, FS_EmptySet
  <2> QED BY <1>4, <2>2, <2>3
<1>6. crashed \in Nat /\ erred \in Nat
  BY DEF IInv, TypeOK
<1> QED BY <1>1, <1>3, <1>4, <1>5, <1>6 DEF LostInv, SlotsAccounted, Holders

\* No path loses a slot but a crash and a raised call, and each loses one.
THEOREM SlotsAccountedHolds == Spec => []SlotsAccounted
<1>1. Init => LostInv
  <2>1. Init => Lost = {}
    BY DEF Init, Lost
  <2>2. Init => crashed = 0 /\ erred = 0
    BY DEF Init
  <2>3. IsFiniteSet({}) /\ Cardinality({}) = 0
    BY FS_EmptySet
  <2> QED BY <2>1, <2>2, <2>3 DEF LostInv
<1>2. IInv /\ IInv' /\ LeaseInv /\ LostInv /\ [Next]_vars => LostInv'
  BY LostStep
<1>3. IInv /\ LostInv => SlotsAccounted
  BY LostAccounts
<1> QED BY <1>1, <1>2, <1>3, LeaseInvariant, PTL DEF Spec

\* Without crashes and raised calls every slot is back once no command runs;
\* with them, one is missing for each at most.
THEOREM QuietSlotsBack ==
  Spec => [](Quiet => /\ Cardinality(leases) <= crashed + erred
                      /\ crashed = 0 /\ erred = 0 => leases = {})
<1>1. ASSUME IInv, SlotsAccounted, Quiet
      PROVE  /\ Cardinality(leases) <= crashed + erred
             /\ crashed = 0 /\ erred = 0 => leases = {}
  <2>1. {p \in Procs : handler[p] # "none"} = {}
    BY <1>1 DEF IInv, PhaseInv, Phase, Holding, Quiet, At
  <2>2. Cardinality({p \in Procs : handler[p] # "none"}) = 0
    BY <2>1, FS_EmptySet
  <2>3. /\ crashed \in Nat /\ erred \in Nat
        /\ IsFiniteSet(leases) /\ Cardinality(leases) \in Nat
    BY <1>1, FS_CardinalityType DEF IInv, TypeOK, CapInv
  <2>4. Cardinality(leases) <= crashed + erred
    BY <1>1, <2>2, <2>3 DEF SlotsAccounted
  <2>5. crashed = 0 /\ erred = 0 => Cardinality(leases) = 0
    BY <2>3, <2>4
  <2> QED BY <2>3, <2>4, <2>5, FS_EmptySet
<1> QED BY <1>1, IInvHolds, SlotsAccountedHolds, PTL

-----------------------------------------------------------------------------
(* Rows that say running.                                                  *)

\* The calls of a run between the two upsert_task calls, running and final.
Closing == {"work", "write_result", "update_attempt", "update_task"}

Stranded ==
  {t \in Tasks : status[t] = "running"
                 /\ ~\E p \in Procs : task[p] = t /\ pc[p] \in Closing}

\* No run records "running" as the outcome of a task.
OutcomeInv ==
  \A p \in Procs : pc[p] \in {"create_retry", "write_result", "update_attempt",
                              "update_task"} => outcome[p] # "running"

StrandedInv == IsFiniteSet(Stranded) /\ Cardinality(Stranded) <= crashed + erred

LEMMA OutcomeStep ==
  ASSUME TypeOK, OutcomeInv, [Next]_vars
  PROVE  OutcomeInv'
<1> USE DEF OutcomeInv, TypeOK, Goto, At
<1>1. ASSUME NEW p \in Procs, Command(p)  PROVE  OutcomeInv'
  BY <1>1 DEF Command, StartRun, StartRetry, StartResume, StartBatch, db, spent
<1>2. ASSUME NEW p \in Procs, Step(p)  PROVE  OutcomeInv'
  <2>1. CASE \/ \E t \in Tasks : BatchNext(p, t)
             \/ Register(p) \/ ReadNumber(p) \/ \E d \in Tasks : ProbeDependency(p, d)
    BY <2>1 DEF BatchNext, Register, ReadNumber, ProbeDependency, locals
  <2>2. CASE CreateReady(p) \/ CreateBlocked(p) \/ CreateRetry(p) \/ SlotConflict(p)
    BY <2>2 DEF CreateReady, CreateBlocked, CreateRetry, SlotConflict, locals,
                PolicyBlockedState, DependencyBlockedState, SlotPausedState
  <2>3. CASE Collision(p) \/ Record(p) \/ ReleaseSlot(p)
    BY <2>3 DEF Collision, Record, ReleaseSlot, Leave, locals
  <2>4. CASE AcquireSlot(p) \/ MarkAttemptRunning(p) \/ MarkTaskRunning(p)
    BY <2>4 DEF AcquireSlot, MarkAttemptRunning, MarkTaskRunning, locals
  <2>5. CASE WorkerDone(p)
    <3>1. \E surface, gateFailed \in BOOLEAN : outcome'[p] =
            FinalState(Policy[task[p]], surface, gateFailed)
      BY <2>5 DEF WorkerDone
    <3>2. outcome'[p] # "running"
      BY <3>1 DEF FinalState
    <3> QED BY <2>5, <3>2 DEF WorkerDone
  <2>6. CASE WorkerFails(p)
    BY <2>6 DEF WorkerFails, EnterExcept, FailureState
  <2>7. CASE WriteResult(p) \/ UpdateAttempt(p) \/ UpdateTask(p)
    BY <2>7 DEF WriteResult, UpdateAttempt, UpdateTask, locals
  <2> QED BY <1>2, <2>1, <2>2, <2>3, <2>4, <2>5, <2>6, <2>7 DEF Step
<1>3. ASSUME NEW p \in Procs, Crash(p)  PROVE  OutcomeInv'
  BY <1>3 DEF Crash, Leave
<1>4. ASSUME NEW p \in Procs, CallRaises(p)  PROVE  OutcomeInv'
  BY <1>4 DEF CallRaises, EnterExcept, Leave, FailureState
<1>5. CASE UNCHANGED vars
  BY <1>5 DEF vars, locals
<1> QED BY <1>1, <1>2, <1>3, <1>4, <1>5 DEF Next

\* A call that returns strands no row: whoever leaves Closing has recorded the
\* outcome of its task.
LEMMA NoneStranded ==
  ASSUME TypeOK, OutcomeInv, NEW p \in Procs, Command(p) \/ Step(p)
  PROVE  Stranded' \subseteq Stranded /\ UNCHANGED <<crashed, erred>>
<1> USE DEF TypeOK, Goto, At, Closing
<1> DEFINE Steady == /\ \A t \in Tasks : status'[t] = "running" => status[t] = "running"
                     /\ \A q \in Procs : pc[q] \in Closing =>
                          pc'[q] \in Closing /\ task'[q] = task[q]
                     /\ UNCHANGED <<crashed, erred>>
<1>1. ASSUME Steady  PROVE  Stranded' \subseteq Stranded /\ UNCHANGED <<crashed, erred>>
  BY <1>1 DEF Stranded
<1>2. CASE Command(p)
  <2>1. Steady
    BY <1>2 DEF Command, StartRun, StartRetry, StartResume, StartBatch, db, spent
  <2> QED BY <1>1, <2>1
<1>3. CASE \/ \E t \in Tasks : BatchNext(p, t)
           \/ Register(p) \/ ReadNumber(p) \/ \E d \in Tasks : ProbeDependency(p, d)
           \/ CreateReady(p) \/ CreateBlocked(p) \/ CreateRetry(p) \/ Collision(p)
  <2>1. Steady
    BY <1>3 DEF BatchNext, Register, ReadNumber, ProbeDependency, CreateReady, CreateBlocked,
                CreateRetry, Collision, Leave, locals, db, spent
  <2> QED BY <1>1, <2>1
<1>4. CASE \/ AcquireSlot(p) \/ SlotConflict(p) \/ MarkAttemptRunning(p)
           \/ WorkerDone(p) \/ WorkerFails(p) \/ WriteResult(p) \/ UpdateAttempt(p)
           \/ Record(p) \/ ReleaseSlot(p)
  <2>1. Steady
    BY <1>4 DEF AcquireSlot, SlotConflict, MarkAttemptRunning, WorkerDone, WorkerFails,
                EnterExcept, WriteResult, UpdateAttempt, Record, ReleaseSlot, Leave, locals,
                db, spent
  <2> QED BY <1>1, <2>1
<1>5. CASE MarkTaskRunning(p)
  <2>1. /\ pc'[p] = "work" /\ UNCHANGED <<task, crashed, erred>>
        /\ \A q \in Procs \ {p} : pc'[q] = pc[q]
        /\ \A t \in Tasks \ {task[p]} : status'[t] = status[t]
        /\ pc[p] \notin Closing
    BY <1>5 DEF MarkTaskRunning, locals, spent
  <2> QED BY <2>1 DEF Stranded
<1>6. CASE UpdateTask(p)
  <2>1. /\ UNCHANGED <<task, crashed, erred>>
        /\ \A q \in Procs \ {p} : pc'[q] = pc[q]
        /\ \A t \in Tasks : status'[t] = IF t = task[p] THEN outcome[p] ELSE status[t]
        /\ outcome[p] # "running"
    BY <1>6 DEF UpdateTask, locals, spent, OutcomeInv
  <2> QED BY <2>1 DEF Stranded
<1> QED BY <1>2, <1>3, <1>4, <1>5, <1>6 DEF Step

\* A kill or a raised call strands at most the row of its task.
LEMMA OneStranded ==
  ASSUME TypeOK, NEW p \in Procs, Crash(p) \/ CallRaises(p)
  PROVE  /\ Stranded' \subseteq Stranded \cup {task[p]}
         /\ crashed' + erred' = crashed + erred + 1
<1> USE DEF TypeOK
<1>1. UNCHANGED status /\ \A q \in Procs \ {p} : pc'[q] = pc[q] /\ task'[q] = task[q]
  BY DEF Crash, CallRaises, EnterExcept, Leave, Goto, db
<1>2. crashed' + erred' = crashed + erred + 1
  BY DEF Crash, CallRaises
<1> QED BY <1>1, <1>2 DEF Stranded

LEMMA StrandedStep ==
  ASSUME TypeOK, TypeOK', OutcomeInv, StrandedInv, [Next]_vars
  PROVE  StrandedInv'
<1>1. /\ crashed \in Nat /\ erred \in Nat /\ crashed' \in Nat /\ erred' \in Nat
      /\ IsFiniteSet(Stranded) /\ Cardinality(Stranded) \in Nat
  BY FS_CardinalityType DEF TypeOK, StrandedInv
<1>2. ASSUME Stranded' \subseteq Stranded, UNCHANGED <<crashed, erred>>
      PROVE  StrandedInv'
  <2>1. /\ IsFiniteSet(Stranded') /\ Cardinality(Stranded') \in Nat
        /\ Cardinality(Stranded') <= Cardinality(Stranded)
    BY <1>1, <1>2, FS_Subset, FS_CardinalityType
  <2> QED BY <1>1, <1>2, <2>1 DEF StrandedInv
<1>3. ASSUME NEW t, Stranded' \subseteq Stranded \cup {t},
             crashed' + erred' = crashed + erred + 1
      PROVE  StrandedInv'
  <2>1. /\ IsFiniteSet(Stranded \cup {t}) /\ Cardinality(Stranded \cup {t}) \in Nat
        /\ Cardinality(Stranded \cup {t}) \in {Cardinality(Stranded), Cardinality(Stranded) + 1}
    BY <1>1, FS_AddElement, FS_CardinalityType
  <2>2. /\ IsFiniteSet(Stranded') /\ Cardinality(Stranded') \in Nat
        /\ Cardinality(Stranded') <= Cardinality(Stranded \cup {t})
    BY <1>3, <2>1, FS_Subset, FS_CardinalityType
  <2>3. Cardinality(Stranded') <= Cardinality(Stranded) + 1
    <3>1. \A m, k, n \in Nat : m <= k /\ k \in {n, n + 1} => m <= n + 1
      OBVIOUS
    <3> QED BY <1>1, <2>1, <2>2, <3>1
  <2>4. Cardinality(Stranded') <= crashed' + erred'
    <3>1. \A m, n, c, e, d, f \in Nat :
            m <= n + 1 /\ n <= c + e /\ d + f = c + e + 1 => m <= d + f
      OBVIOUS
    <3>2. Cardinality(Stranded) <= crashed + erred /\ crashed' + erred' = crashed + erred + 1
      BY <1>3 DEF StrandedInv
    <3> QED BY <1>1, <2>2, <2>3, <3>1, <3>2
  <2> QED BY <2>2, <2>4 DEF StrandedInv
<1>4. CASE UNCHANGED vars
  <2>1. Stranded' \subseteq Stranded /\ UNCHANGED <<crashed, erred>>
    BY <1>4 DEF vars, db, locals, spent, Stranded
  <2> QED BY <1>2, <2>1
<1> QED BY <1>2, <1>3, <1>4, NoneStranded, OneStranded DEF Next

\* A row says running while a run is on its way to record the outcome; one that
\* says so for ever is the trace of a kill or of a raised call, one each, however
\* many processes run the same task at once.
THEOREM RunningRowsTraced ==
  Spec => [](/\ IsFiniteSet(Stranded)
             /\ Cardinality(Stranded) <= crashed + erred)
<1>1. Init => OutcomeInv /\ StrandedInv
  <2> SUFFICES ASSUME Init PROVE OutcomeInv /\ StrandedInv
    OBVIOUS
  <2>1. Stranded = {} /\ crashed = 0 /\ erred = 0
    BY DEF Init, Stranded
  <2>2. IsFiniteSet(Stranded) /\ Cardinality(Stranded) = 0
    BY <2>1, FS_EmptySet
  <2> QED BY <2>1, <2>2 DEF Init, OutcomeInv, StrandedInv
<1>2. IInv /\ IInv' /\ OutcomeInv /\ StrandedInv /\ [Next]_vars => OutcomeInv' /\ StrandedInv'
  BY OutcomeStep, StrandedStep DEF IInv
<1>3. StrandedInv => IsFiniteSet(Stranded) /\ Cardinality(Stranded) <= crashed + erred
  BY DEF StrandedInv
<1> QED BY <1>1, <1>2, <1>3, IInvHolds, PTL DEF Spec

-----------------------------------------------------------------------------
(* What WorkerPool promises, from its own steps.                           *)

Held(profile) == {l \in Live \cup Lost : Profile[l[1]] = profile}

LEMMA PoolCases ==
  ASSUME Pool!Next
  PROVE  \/ \E a : /\ a \notin Live \cup Lost
                   /\ Cardinality(Held(Profile[a[1]])) < MaxSlots[Profile[a[1]]]
                   /\ Live' = Live \cup {a} /\ UNCHANGED <<Lost, AtWork>>
         \/ \E a \in Live : AtWork' = AtWork \cup {a} /\ UNCHANGED <<Live, Lost>>
         \/ \E a \in AtWork : AtWork' = AtWork \ {a} /\ UNCHANGED <<Live, Lost>>
         \/ \E a \in Live \ AtWork : Live' = Live \ {a} /\ UNCHANGED <<Lost, AtWork>>
         \/ \E a \in Live : /\ Live' = Live \ {a} /\ Lost' = Lost \cup {a}
                            /\ AtWork' = AtWork \ {a}
<1>1. CASE Pool!Admit
  <2>1. PICK a \in Live' \ (Live \cup Lost) :
          /\ Pool!Cardinality(Pool!Taken(Profile[a[1]])) < MaxSlots[Profile[a[1]]]
          /\ Live' = Live \cup {a} /\ UNCHANGED <<Lost, AtWork>>
    BY <1>1 DEF Pool!Admit, Live, Lost, AtWork
  <2>2. Pool!Taken(Profile[a[1]]) = Held(Profile[a[1]])
    BY DEF Pool!Taken, Held, Live, Lost
  <2> QED BY <2>1, <2>2, SameCount
<1>2. CASE Pool!Begin
  BY <1>2 DEF Pool!Begin, Live, Lost, AtWork
<1>3. CASE Pool!End
  BY <1>3 DEF Pool!End, Live, Lost, AtWork
<1>4. CASE Pool!Return
  BY <1>4 DEF Pool!Return, Live, Lost, AtWork
<1>5. CASE Pool!Lose
  BY <1>5 DEF Pool!Lose, Live, Lost, AtWork
<1> QED BY <1>1, <1>2, <1>3, <1>4, <1>5 DEF Pool!Next

PoolInv ==
  /\ IsFiniteSet(Live \cup Lost) /\ AtWork \subseteq Live
  /\ \A profile \in Profiles : Cardinality(Held(profile)) <= MaxSlots[profile]

LEMMA PoolInvStep ==
  ASSUME PoolInv, Pool!Next \/ UNCHANGED Pool!vars
  PROVE  PoolInv'
<1> DEFINE All == Live \cup Lost
<1>1. ASSUME NEW a, a \notin All, All' = All \cup {a},
             Cardinality(Held(Profile[a[1]])) < MaxSlots[Profile[a[1]]],
             Live \subseteq Live', UNCHANGED AtWork
      PROVE  PoolInv'
  <2>1. IsFiniteSet(All') /\ AtWork' \subseteq Live'
    BY <1>1, FS_AddElement DEF PoolInv
  <2>2. ASSUME NEW profile \in Profiles
        PROVE  Cardinality(Held(profile)') <= MaxSlots[profile]
    <3>1. Held(profile) \subseteq All /\ IsFiniteSet(Held(profile))
          /\ Cardinality(Held(profile)) \in Nat
      BY FS_Subset, FS_CardinalityType DEF PoolInv, Held
    <3>2. CASE Profile[a[1]] = profile
      <4>1. Held(profile)' = Held(profile) \cup {a} /\ a \notin Held(profile)
        BY <1>1, <3>1, <3>2 DEF Held
      <4>2. Cardinality(Held(profile)') = Cardinality(Held(profile)) + 1
        BY <3>1, <4>1, FS_AddElement
      <4> QED BY <1>1, <3>1, <3>2, <4>2, ConstantsAssumption
    <3>3. CASE Profile[a[1]] # profile
      <4>1. Held(profile)' = Held(profile)
        BY <1>1, <3>3 DEF Held
      <4> QED BY <4>1 DEF PoolInv
    <3> QED BY <3>2, <3>3
  <2> QED BY <2>1, <2>2 DEF PoolInv
<1>2. ASSUME All' \subseteq All, AtWork' \subseteq Live'  PROVE  PoolInv'
  <2>1. IsFiniteSet(All')
    BY <1>2, FS_Subset DEF PoolInv
  <2>2. ASSUME NEW profile \in Profiles
        PROVE  Cardinality(Held(profile)') <= MaxSlots[profile]
    <3>1. Held(profile) \subseteq All /\ Held(profile)' \subseteq Held(profile)
      BY <1>2 DEF Held
    <3>2. IsFiniteSet(Held(profile)) /\ Cardinality(Held(profile)) \in Nat
      BY <3>1, FS_Subset, FS_CardinalityType DEF PoolInv
    <3>3. /\ Cardinality(Held(profile)') <= Cardinality(Held(profile))
          /\ Cardinality(Held(profile)') \in Nat
      BY <3>1, <3>2, FS_Subset, FS_CardinalityType
    <3>4. Cardinality(Held(profile)) <= MaxSlots[profile] /\ MaxSlots[profile] \in Nat
      BY ConstantsAssumption DEF PoolInv
    <3> QED BY <3>2, <3>3, <3>4
  <2> QED BY <1>2, <2>1, <2>2 DEF PoolInv
<1>3. CASE Pool!Next
  BY <1>1, <1>2, <1>3, PoolCases DEF PoolInv
<1>4. CASE UNCHANGED Pool!vars
  <2>1. UNCHANGED <<Live, Lost, AtWork>>
    BY <1>4 DEF Pool!vars, Live, Lost, AtWork
  <2> QED BY <1>2, <2>1 DEF PoolInv
<1> QED BY <1>3, <1>4

\* The abstract pool promises what a reader of it takes it for: its steps keep
\* the workers of a profile within max_active_leases, lost slots included.  So
\* does any other program whose steps are steps of it.
THEOREM PoolKeepsCap ==
  Pool!Spec => [](\A profile \in Profiles :
                    Cardinality({a \in AtWork : Profile[a[1]] = profile})
                      <= MaxSlots[profile])
<1>1. Pool!Init => PoolInv
  <2> SUFFICES ASSUME Pool!Init PROVE PoolInv
    OBVIOUS
  <2>1. Live = {} /\ Lost = {} /\ AtWork = {}
    BY DEF Pool!Init, Live, Lost, AtWork
  <2>2. \A profile \in Profiles : Held(profile) = {}
    BY <2>1 DEF Held
  <2>3. IsFiniteSet({}) /\ Cardinality({}) = 0
    BY FS_EmptySet
  <2>4. ASSUME NEW profile \in Profiles
        PROVE  Cardinality(Held(profile)) <= MaxSlots[profile]
    <3>1. Held(profile) = {} /\ MaxSlots[profile] \in Nat
      BY <2>2, ConstantsAssumption
    <3>2. Cardinality(Held(profile)) = 0
      BY <2>3, <3>1
    <3> QED BY <3>1, <3>2
  <2>5. Live \cup Lost = {}
    BY <2>1
  <2> QED BY <2>1, <2>3, <2>4, <2>5 DEF PoolInv
<1>2. PoolInv /\ [Pool!Next]_(Pool!vars) => PoolInv'
  BY PoolInvStep
<1>3. ASSUME PoolInv, NEW profile \in Profiles
      PROVE  Cardinality({a \in AtWork : Profile[a[1]] = profile}) <= MaxSlots[profile]
  <2> DEFINE Workers == {a \in AtWork : Profile[a[1]] = profile}
  <2>1. Workers \subseteq Held(profile) /\ Held(profile) \subseteq Live \cup Lost
    BY <1>3 DEF PoolInv, Held
  <2>2. IsFiniteSet(Held(profile)) /\ Cardinality(Held(profile)) \in Nat
    BY <1>3, <2>1, FS_Subset, FS_CardinalityType DEF PoolInv
  <2>3. Cardinality(Workers) <= Cardinality(Held(profile)) /\ Cardinality(Workers) \in Nat
    BY <2>1, <2>2, FS_Subset, FS_CardinalityType
  <2>4. Cardinality(Held(profile)) <= MaxSlots[profile] /\ MaxSlots[profile] \in Nat
    BY <1>3, ConstantsAssumption DEF PoolInv
  <2> QED BY <2>2, <2>3, <2>4
<1>4. PoolInv => \A profile \in Profiles :
        Cardinality({a \in AtWork : Profile[a[1]] = profile}) <= MaxSlots[profile]
  BY <1>3
<1> QED BY <1>1, <1>2, <1>4, PTL DEF Pool!Spec

\* A slot whose holder is gone stays taken: no step of the kernel hands it to
\* another run, and none frees it (no lease expires or is reaped).
THEOREM LostForGood == Spec => [][Lost \subseteq Lost']_vars
<1>1. ASSUME IInv, LeaseInv, [Next]_vars  PROVE  Lost \subseteq Lost'
  <2>1. CASE Pool!Next
    BY <2>1, PoolCases
  <2>2. CASE UNCHANGED Pool!vars
    BY <2>2 DEF Pool!vars, Lost, Live
  <2> QED BY <1>1, <2>1, <2>2, PoolStep
<1> QED BY <1>1, LeaseInvariant, PTL DEF Spec

-----------------------------------------------------------------------------
(* No command goes on for ever.                                            *)

\* The calls a process has left for its task, at most.  Inside the try block
\* four more: a call that raises there starts the handler's records.
Length == [idle |-> 0, release |-> 1, record |-> 2, update_task |-> 3,
           update_attempt |-> 4, write_result |-> 5, create_retry |-> 4,
           work |-> 10, mark_task |-> 11, mark_attempt |-> 12, admit |-> 13,
           create_blocked |-> 14, probe |-> 14, number |-> 15, register |-> 16]

CallsLeft(p) ==
  Length[pc[p]]
    + (IF handler[p] = "try" /\ pc[p] \in {"record", "update_task", "update_attempt", "write_result"}
       THEN 4 ELSE 0)
    + (IF pc[p] = "probe" THEN Cardinality(unread[p])
       ELSE IF pc[p] \in {"number", "register"} THEN Cardinality(Tasks) ELSE 0)

\* A call of p that returns or raises, or a kill.
ComesNearer(p) ==
  /\ todo'[p] \subseteq todo[p]
  /\ todo'[p] = todo[p] => CallsLeft(p)' < CallsLeft(p)

Elsewhere(p) == /\ pc'[p] = pc[p] /\ handler'[p] = handler[p]
                /\ unread'[p] = unread[p] /\ todo'[p] = todo[p]

LEMMA Lengths ==
  /\ Length["idle"] = 0 /\ Length["release"] = 1 /\ Length["record"] = 2
  /\ Length["update_task"] = 3 /\ Length["update_attempt"] = 4
  /\ Length["write_result"] = 5 /\ Length["create_retry"] = 4 /\ Length["work"] = 10
  /\ Length["mark_task"] = 11 /\ Length["mark_attempt"] = 12 /\ Length["admit"] = 13
  /\ Length["create_blocked"] = 14 /\ Length["probe"] = 14 /\ Length["number"] = 15
  /\ Length["register"] = 16
  /\ \A l \in Labels : Length[l] \in 0..16
BY DEF Length, Labels

LEMMA CallsType ==
  ASSUME TypeOK, IsFiniteSet(Tasks), NEW p \in Procs
  PROVE  /\ Cardinality(Tasks) \in Nat
         /\ \A S \in SUBSET Tasks : /\ IsFiniteSet(S) /\ Cardinality(S) \in Nat
                                    /\ Cardinality(S) <= Cardinality(Tasks)
         /\ CallsLeft(p) \in 0..(Cardinality(Tasks) + 16)
<1>1. Cardinality(Tasks) \in Nat
  BY FS_CardinalityType
<1>2. \A S \in SUBSET Tasks : /\ IsFiniteSet(S) /\ Cardinality(S) \in Nat
                              /\ Cardinality(S) <= Cardinality(Tasks)
  BY FS_Subset, FS_CardinalityType
<1>3. pc[p] \in Labels /\ unread[p] \in SUBSET Tasks
  BY DEF TypeOK
<1>4. Cardinality(unread[p]) \in Nat /\ Cardinality(unread[p]) <= Cardinality(Tasks)
  BY <1>2, <1>3
<1>5. Length[pc[p]] \in 0..16
  BY <1>3, Lengths
<1>6. pc[p] \in {"record", "update_task", "update_attempt", "write_result"} => Length[pc[p]] <= 5
  BY Lengths
<1> QED BY <1>1, <1>2, <1>4, <1>5, <1>6 DEF CallsLeft

\* Only p moves, and it proceeds.
LEMMA ProceedsStep ==
  ASSUME TypeOK, TypeOK', PhaseInv, IsFiniteSet(Tasks), NEW p \in Procs,
         Step(p) \/ Crash(p) \/ CallRaises(p)
  PROVE  ComesNearer(p) /\ \A q \in Procs \ {p} : Elsewhere(q)
<1> DEFINE N == Cardinality(Tasks)
           Alone == \A q \in Procs \ {p} : Elsewhere(q)
<1>1. /\ pc \in [Procs -> Labels] /\ task \in [Procs -> Tasks \cup {NoTask}]
      /\ num \in [Procs -> Nat] /\ unread \in [Procs -> SUBSET Tasks]
      /\ handler \in [Procs -> {"none", "try", "except"}]
      /\ todo \in [Procs -> SUBSET Tasks] /\ Phase(p)
      /\ \A t \in Tasks : Deps[t] \in SUBSET Tasks
  BY ConstantsAssumption DEF TypeOK, PhaseInv
<1>2. /\ N \in Nat /\ CallsLeft(p) \in Nat
      /\ \A S \in SUBSET Tasks : /\ IsFiniteSet(S) /\ Cardinality(S) \in Nat
                                 /\ Cardinality(S) <= N
  BY CallsType
<1> HIDE DEF N
<1> USE <1>1, <1>2, Lengths DEF Goto, At, Elsewhere, ComesNearer
<1>3. ASSUME NEW t \in Tasks, BatchNext(p, t)  PROVE  ComesNearer(p) /\ Alone
  <2>1. todo'[p] = todo[p] \ {t} /\ t \in todo[p]
    BY <1>3 DEF BatchNext
  <2> QED BY <1>3, <2>1 DEF BatchNext
<1>4. CASE Register(p)
  <2>1. CallsLeft(p) = 16 + N /\ CallsLeft(p)' = 15 + N
    BY <1>4 DEF Register, CallsLeft, N, locals
  <2> QED BY <1>4, <2>1 DEF Register, locals
<1>5. CASE ReadNumber(p)
  <2>1. task[p] \in Tasks /\ Cardinality(Deps[task[p]]) <= N /\ Cardinality(Deps[task[p]]) \in Nat
    BY <1>5 DEF ReadNumber, Phase
  <2>2. CallsLeft(p) = 15 + N /\ CallsLeft(p)' = 14 + Cardinality(Deps[task[p]])
    BY <1>5, <2>1 DEF ReadNumber, CallsLeft, N
  <2>3. CallsLeft(p)' < CallsLeft(p)
    BY <2>1, <2>2
  <2> QED BY <1>5, <2>3 DEF ReadNumber
<1>6. ASSUME NEW d \in Tasks, ProbeDependency(p, d)  PROVE  ComesNearer(p) /\ Alone
  <2>1. /\ d \in unread[p] /\ pc[p] = "probe" /\ unread[p] \in SUBSET Tasks
        /\ Cardinality(unread[p]) \in Nat /\ Cardinality(unread[p] \ {d}) \in Nat
        /\ Cardinality(unread[p] \ {d}) = Cardinality(unread[p]) - 1
    BY <1>6, FS_RemoveElement DEF ProbeDependency
  <2>2. CallsLeft(p) = 14 + Cardinality(unread[p])
    BY <2>1 DEF CallsLeft
  <2>3. CASE status[d] = "completed"
    <3>1. unread'[p] = unread[p] \ {d} /\ pc'[p] = "probe"
      BY <1>6, <2>1, <2>3 DEF ProbeDependency
    <3>2. CallsLeft(p)' = 14 + Cardinality(unread[p] \ {d})
      BY <1>6, <2>1, <2>3, <3>1 DEF ProbeDependency, CallsLeft
    <3> QED BY <1>6, <2>1, <2>2, <2>3, <3>2 DEF ProbeDependency
  <2>4. CASE status[d] # "completed"
    <3>1. CallsLeft(p)' = 14
      BY <1>6, <2>1, <2>4 DEF ProbeDependency, CallsLeft
    <3> QED BY <1>6, <2>1, <2>2, <2>4, <3>1 DEF ProbeDependency
  <2> QED BY <2>3, <2>4
<1>7. CASE CreateReady(p)
  <2>1. CallsLeft(p) >= 14
    BY <1>7 DEF CreateReady, CallsLeft
  <2>2. CallsLeft(p)' <= 13 /\ CallsLeft(p)' \in Nat
    BY <1>7 DEF CreateReady, CallsLeft, Phase
  <2>3. UNCHANGED <<todo, unread, handler>> /\ Alone
    BY <1>7 DEF CreateReady
  <2> QED BY <2>1, <2>2, <2>3
<1>8. CASE CreateBlocked(p)
  BY <1>8 DEF CreateBlocked, CallsLeft, Phase, Holding
<1>9. CASE CreateRetry(p)
  BY <1>9 DEF CreateRetry, CallsLeft, Phase, Holding, locals
<1>10. CASE Collision(p)
  <2>1. CallsLeft(p) >= 4
    BY <1>10 DEF Collision, CallsLeft
  <2>2. CallsLeft(p)' = 0
    BY <1>10 DEF Collision, Leave, CallsLeft
  <2> QED BY <1>10, <2>1, <2>2 DEF Collision, Leave
<1>11. CASE AcquireSlot(p)
  BY <1>11 DEF AcquireSlot, CallsLeft
<1>12. CASE SlotConflict(p)
  BY <1>12 DEF SlotConflict, CallsLeft, Phase, Holding
<1>13. CASE MarkAttemptRunning(p)
  BY <1>13 DEF MarkAttemptRunning, CallsLeft, locals
<1>14. CASE MarkTaskRunning(p)
  BY <1>14 DEF MarkTaskRunning, CallsLeft, locals
<1>15. CASE WorkerDone(p)
  BY <1>15 DEF WorkerDone, CallsLeft
<1>16. CASE WorkerFails(p)
  BY <1>16 DEF WorkerFails, EnterExcept, CallsLeft
<1>17. CASE WriteResult(p)
  BY <1>17 DEF WriteResult, CallsLeft, locals
<1>18. CASE UpdateAttempt(p)
  BY <1>18 DEF UpdateAttempt, CallsLeft, locals
<1>19. CASE UpdateTask(p)
  BY <1>19 DEF UpdateTask, CallsLeft, locals
<1>20. CASE Record(p)
  <2>1. CASE handler[p] = "none"
    BY <1>20, <2>1 DEF Record, Leave, CallsLeft
  <2>2. CASE handler[p] # "none"
    BY <1>20, <2>2 DEF Record, CallsLeft, locals
  <2> QED BY <2>1, <2>2
<1>21. CASE ReleaseSlot(p)
  BY <1>21 DEF ReleaseSlot, Leave, CallsLeft
<1>22. CASE Crash(p)
  <2>1. CallsLeft(p) > 0
    BY <1>22 DEF Crash, CallsLeft, Labels
  <2>2. CallsLeft(p)' = 0
    BY <1>22 DEF Crash, Leave, CallsLeft
  <2> QED BY <1>22, <2>1, <2>2 DEF Crash, Leave
<1>23. CASE CallRaises(p)
  <2>1. CASE handler[p] = "try" /\ ~At(p, "release")
    <3>1. CallsLeft(p) >= 6
      BY <1>23, <2>1 DEF CallRaises, CallsLeft, Phase, Holding
    <3>2. CallsLeft(p)' = 5
      BY <1>23, <2>1 DEF CallRaises, EnterExcept, CallsLeft
    <3> QED BY <1>23, <2>1, <3>1, <3>2 DEF CallRaises, EnterExcept
  <2>2. CASE handler[p] = "except" /\ ~At(p, "release")
    <3>1. CallsLeft(p) >= 2
      BY <1>23, <2>2 DEF CallRaises, CallsLeft, Phase, Holding
    <3>2. CallsLeft(p)' = 1
      BY <1>23, <2>2 DEF CallRaises, CallsLeft
    <3> QED BY <1>23, <2>2, <3>1, <3>2 DEF CallRaises
  <2>3. CASE ~(handler[p] \in {"try", "except"} /\ ~At(p, "release"))
    <3>1. Leave(p, {}) /\ pc[p] # "idle"
      BY <1>23, <2>3 DEF CallRaises
    <3>2. CallsLeft(p) > 0
      BY <3>1 DEF CallsLeft, Labels
    <3>3. CallsLeft(p)' = 0
      BY <3>1 DEF Leave, CallsLeft
    <3> QED BY <3>1, <3>2, <3>3 DEF Leave
  <2> QED BY <2>1, <2>2, <2>3
<1> QED BY <1>3, <1>4, <1>5, <1>6, <1>7, <1>8, <1>9, <1>10, <1>11, <1>12, <1>13, <1>14,
           <1>15, <1>16, <1>17, <1>18, <1>19, <1>20, <1>21, <1>22, <1>23 DEF Step

\* A command moves its own process only.
LEMMA CommandStep ==
  ASSUME TypeOK, NEW p \in Procs, Command(p)
  PROVE  \A q \in Procs \ {p} : Elsewhere(q)
BY DEF TypeOK, Command, StartRun, StartRetry, StartResume, StartBatch, Goto, At, Elsewhere,
       db, locals

\* Each command ends: a step of the kernel either starts a command of a process,
\* or leaves the process where it is, or brings it nearer the end of the task it
\* runs or of the list it works through, whatever others do, raises or is killed.
\* What a process has left for a task is bounded by the number of tasks: only
\* one of its own calls that does not return can keep it from its end.
THEOREM CommandsEnd ==
  ASSUME IsFiniteSet(Tasks)
  PROVE  /\ Spec => [](\A p \in Procs : CallsLeft(p) \in 0..(Cardinality(Tasks) + 16))
         /\ Spec => [][\A p \in Procs : Command(p) \/ ComesNearer(p) \/ Elsewhere(p)]_vars
<1>1. IInv => \A p \in Procs : CallsLeft(p) \in 0..(Cardinality(Tasks) + 16)
  BY CallsType DEF IInv
<1>2. ASSUME IInv, IInv', [Next]_vars
      PROVE  (\A p \in Procs : Command(p) \/ ComesNearer(p) \/ Elsewhere(p)) \/ UNCHANGED vars
  <2> SUFFICES ASSUME ~UNCHANGED vars
               PROVE  \A p \in Procs : Command(p) \/ ComesNearer(p) \/ Elsewhere(p)
    OBVIOUS
  <2>1. PICK p \in Procs : Command(p) \/ Step(p) \/ Crash(p) \/ CallRaises(p)
    BY <1>2 DEF Next
  <2>2. /\ Command(p) \/ ComesNearer(p)
        /\ \A q \in Procs \ {p} : Elsewhere(q)
    BY <1>2, <2>1, ProceedsStep, CommandStep DEF IInv
  <2> QED BY <2>2
<1>3. IInv /\ IInv' /\ [Next]_vars =>
        (\A p \in Procs : Command(p) \/ ComesNearer(p) \/ Elsewhere(p)) \/ UNCHANGED vars
  BY <1>2
<1> QED BY <1>1, <1>3, IInvHolds, PTL DEF Spec
=============================================================================
