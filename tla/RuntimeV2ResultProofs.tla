----------------------- MODULE RuntimeV2ResultProofs -----------------------
(***************************************************************************)
(* What the rows of RuntimeV2 say is backed by result files, for any number*)
(* of tasks, processes, operators and crashes, as long as no call raises:  *)
(* a result is written once, by the one process that inserted its attempt, *)
(* and the rows follow it.  Where nothing fails, every task is settled in  *)
(* the end.                                                                *)
(***************************************************************************)
EXTENDS RuntimeV2Proofs

Settled == Finals \cup Blocked

\* The process that inserted an attempt, before and after its result.
Fresh(p) == pc[p] \in {"admit", "mark_attempt", "mark_task", "work", "write_result"}
Settling(p) == pc[p] = "update_attempt" /\ outcome[p] # "ready"
Author(p) == Fresh(p) \/ Settling(p)

Done(d) == \E n \in DOMAIN results[d] : results[d][n] = "completed"

\* What each process relies on.
Local(p) ==
  /\ Fresh(p) =>
       /\ num[p] \in 1..Len(attempts[task[p]])
       /\ attempts[task[p]][num[p]] \notin Finals
       /\ results[task[p]][num[p]] = "none"
  /\ pc[p] = "update_attempt" => num[p] \in 1..Len(attempts[task[p]])
  /\ Settling(p) => attempts[task[p]][num[p]] \notin Finals
  /\ pc[p] \in {"update_attempt", "update_task"} /\ outcome[p] \in Settled =>
       /\ num[p] \in 1..Len(attempts[task[p]])
       /\ results[task[p]][num[p]] = outcome[p]
  /\ pc[p] = "create_retry" => outcome[p] = "queued"
  /\ pc[p] = "probe" => \A d \in Deps[task[p]] \ unread[p] : Done(d)
  /\ pc[p] = "admit" \/ handler[p] # "none" => \A d \in Deps[task[p]] : Done(d)

RowsBacked ==
  /\ \A t \in Tasks : Len(results[t]) = Len(attempts[t])
  /\ \A t \in Tasks : \A n \in DOMAIN attempts[t] :
       attempts[t][n] \in Finals => results[t][n] = attempts[t][n]
  /\ \A t \in Tasks : status[t] \in Settled =>
       \E n \in DOMAIN results[t] : results[t][n] = status[t]

OneAuthor == \A p, q \in Procs : p # q /\ Author(p) /\ Author(q) => Lease(p) # Lease(q)

Core == (\A p \in Procs : Local(p)) /\ RowsBacked /\ OneAuthor
ResultInv == erred = 0 => Core

-----------------------------------------------------------------------------
(* Sequences.                                                              *)

LEMMA SeqDomain ==
  ASSUME NEW S, NEW s \in Seq(S)
  PROVE  Len(s) \in Nat /\ DOMAIN s = 1..Len(s) /\ \A i \in 1..Len(s) : s[i] \in S
  OBVIOUS

LEMMA SeqPut ==
  ASSUME NEW S, NEW s \in Seq(S), NEW i \in 1..Len(s), NEW e \in S
  PROVE  /\ Len([s EXCEPT ![i] = e]) = Len(s)
         /\ [s EXCEPT ![i] = e][i] = e
         /\ \A j \in 1..Len(s) : j # i => [s EXCEPT ![i] = e][j] = s[j]
<1>1. DOMAIN s = 1..Len(s)
  OBVIOUS
<1> QED BY <1>1, SeqExcept

LEMMA SeqAdd ==
  ASSUME NEW S, NEW s \in Seq(S), NEW e \in S
  PROVE  /\ Len(Append(s, e)) = Len(s) + 1
         /\ Append(s, e)[Len(s) + 1] = e
         /\ \A j \in 1..Len(s) : Append(s, e)[j] = s[j]
  OBVIOUS

-----------------------------------------------------------------------------
(* A step of p as the others see it.                                       *)

Others(p) ==
  \A q \in Procs \ {p} : /\ pc'[q] = pc[q] /\ task'[q] = task[q] /\ num'[q] = num[q]
                         /\ outcome'[q] = outcome[q] /\ unread'[q] = unread[q]
                         /\ handler'[q] = handler[q]

\* Rows and files are only appended, save those of the attempt p is author
\* of; anybody may make an attempt unfinished again.
Spares(p) ==
  /\ Others(p)
  /\ \A t \in Tasks :
       /\ Len(attempts'[t]) \in Nat /\ Len(attempts'[t]) >= Len(attempts[t])
       /\ Len(results'[t]) = Len(attempts'[t])
       /\ \A n \in 1..Len(attempts[t]) :
            /\ \/ attempts'[t][n] = attempts[t][n] \/ attempts'[t][n] \notin Finals
               \/ Author(p) /\ <<t, n>> = Lease(p)
            /\ results'[t][n] = results[t][n] \/ (Fresh(p) /\ <<t, n>> = Lease(p))

\* Spares, from its parts.
LEMMA SparesIntro ==
  ASSUME NEW p \in Procs, Others(p),
         \A t \in Tasks : /\ Len(attempts'[t]) \in Nat /\ Len(attempts'[t]) >= Len(attempts[t])
                          /\ Len(results'[t]) = Len(attempts'[t]),
         \A t \in Tasks : \A n \in 1..Len(attempts[t]) :
           \/ attempts'[t][n] = attempts[t][n] \/ attempts'[t][n] \notin Finals
           \/ Author(p) /\ <<t, n>> = Lease(p),
         \A t \in Tasks : \A n \in 1..Len(attempts[t]) :
           results'[t][n] = results[t][n] \/ (Fresh(p) /\ <<t, n>> = Lease(p))
  PROVE  Spares(p)
  BY Zenon DEF Spares

LEMMA Typed ==
  ASSUME TypeOK
  PROVE  \A t \in Tasks :
           /\ attempts[t] \in Seq(States)
           /\ results[t] \in Seq(Blocked \cup Finals \cup {"none"})
           /\ Len(attempts[t]) \in Nat /\ Len(results[t]) \in Nat
           /\ DOMAIN attempts[t] = 1..Len(attempts[t])
           /\ DOMAIN results[t] = 1..Len(results[t])
  BY DEF TypeOK

\* What was written stays.
LEMMA WrittenStays ==
  ASSUME TypeOK, TypeOK', Core, NEW p \in Procs, Spares(p)
  PROVE  /\ \A t \in Tasks : \A n \in DOMAIN results[t] :
              results[t][n] # "none" => n \in DOMAIN results'[t] /\ results'[t][n] = results[t][n]
         /\ \A d \in Tasks : Done(d) => Done(d)'
<1>1. ASSUME NEW t \in Tasks, NEW n \in DOMAIN results[t], results[t][n] # "none"
      PROVE  n \in DOMAIN results'[t] /\ results'[t][n] = results[t][n]
  <2>1. n \in 1..Len(attempts[t]) /\ n \in DOMAIN results'[t]
    BY <1>1, Typed, SMTT(20) DEF Core, RowsBacked, Spares, TypeOK
  <2>2. Fresh(p) => <<t, n>> # Lease(p)
    BY <1>1 DEF Core, Local, Lease
  <2> QED BY <2>1, <2>2 DEF Spares
<1> QED BY <1>1 DEF Done

LEMMA OthersKeep ==
  ASSUME IInv, IInv', Core, NEW p \in Procs, Spares(p)
  PROVE  \A q \in Procs \ {p} : Local(q)' /\ (Author(q)' => Author(q) /\ Lease(q)' = Lease(q))
<1> SUFFICES ASSUME NEW q \in Procs \ {p}
             PROVE  Local(q)' /\ (Author(q)' => Author(q) /\ Lease(q)' = Lease(q))
  OBVIOUS
<1>1. TypeOK /\ TypeOK' /\ Local(q) /\ (pc[q] # "idle" => task[q] \in Tasks)
  BY DEF IInv, Core, PhaseInv, Phase
<1>2. /\ pc'[q] = pc[q] /\ task'[q] = task[q] /\ num'[q] = num[q]
      /\ outcome'[q] = outcome[q] /\ unread'[q] = unread[q] /\ handler'[q] = handler[q]
  BY DEF Spares, Others
<1>3. Fresh(q)' = Fresh(q) /\ Settling(q)' = Settling(q) /\ Lease(q)' = Lease(q)
  BY <1>2 DEF Fresh, Settling, Lease
<1>4. handler[q] # "none" => pc[q] # "idle"
  BY DEF IInv, PhaseInv, Phase, Holding
<1>5. task[q] \in Tasks => Deps[task[q]] \subseteq Tasks
  BY ConstantsAssumption
<1>6. ASSUME Author(q)
      PROVE  /\ num[q] \in 1..Len(attempts'[task[q]])
             /\ attempts'[task[q]][num[q]] \notin Finals
             /\ Fresh(q) => results'[task[q]][num[q]] = "none"
  <2>1. /\ task[q] \in Tasks /\ num[q] \in 1..Len(attempts[task[q]])
        /\ attempts[task[q]][num[q]] \notin Finals
        /\ Fresh(q) => results[task[q]][num[q]] = "none"
    BY <1>1, <1>6 DEF Author, Fresh, Settling, Local
  <2>2. Author(p) => <<task[q], num[q]>> # Lease(p)
    BY <1>6 DEF Core, OneAuthor, Lease
  <2>3. Fresh(p) => Author(p)
    BY DEF Author
  <2>4. /\ \/ attempts'[task[q]][num[q]] = attempts[task[q]][num[q]]
           \/ attempts'[task[q]][num[q]] \notin Finals
           \/ Author(p) /\ <<task[q], num[q]>> = Lease(p)
        /\ \/ results'[task[q]][num[q]] = results[task[q]][num[q]]
           \/ Fresh(p) /\ <<task[q], num[q]>> = Lease(p)
        /\ Len(attempts'[task[q]]) \in Nat /\ Len(attempts'[task[q]]) >= Len(attempts[task[q]])
    BY <2>1 DEF Spares
  <2>5. Len(attempts[task[q]]) \in Nat
    BY <1>1, <2>1, Typed
  <2> QED BY <2>1, <2>2, <2>3, <2>4, <2>5
<1>7. ASSUME pc[q] \in {"update_attempt", "update_task"}, outcome[q] \in Settled
      PROVE  /\ num[q] \in 1..Len(attempts'[task[q]])
             /\ results'[task[q]][num[q]] = outcome[q]
  <2>1. task[q] \in Tasks /\ num[q] \in 1..Len(attempts[task[q]])
        /\ results[task[q]][num[q]] = outcome[q]
    BY <1>1, <1>7 DEF Local
  <2>2. outcome[q] # "none" /\ num[q] \in DOMAIN results[task[q]]
    BY <1>1, <1>7, <2>1, Typed DEF Settled, Finals, Blocked, Core, RowsBacked
  <2>3. results'[task[q]][num[q]] = outcome[q]
    BY <1>1, <2>1, <2>2, WrittenStays
  <2>4. num[q] \in 1..Len(attempts'[task[q]])
    BY <1>1, <2>1, Typed DEF Spares
  <2> QED BY <2>3, <2>4
<1>8. \A d \in Tasks : Done(d) => Done(d)'
  BY <1>1, WrittenStays
<1>9. pc[q] = "update_attempt" => num[q] \in 1..Len(attempts'[task[q]])
  BY <1>1, Typed DEF Local, Spares
<1>10. Local(q)'
  BY <1>1, <1>2, <1>3, <1>4, <1>5, <1>6, <1>7, <1>8, <1>9 DEF Local, Author
<1> QED BY <1>3, <1>10 DEF Author

\* It is then enough to look at p itself, at the rows and at a new author.
LEMMA CoreStep ==
  ASSUME IInv, IInv', Core, NEW p \in Procs, Spares(p), Local(p)', RowsBacked',
         Author(p)' => \/ Author(p) /\ Lease(p)' = Lease(p)
                       \/ /\ task'[p] \in Tasks
                          /\ num'[p] > Len(attempts[task'[p]])
  PROVE  Core'
<1>1. \A q \in Procs \ {p} : Local(q)' /\ (Author(q)' => Author(q) /\ Lease(q)' = Lease(q))
  BY OthersKeep
<1>2. ASSUME NEW q \in Procs \ {p}, Author(q)', Author(p)' PROVE Lease(q)' # Lease(p)'
  <2>1. Author(q) /\ Lease(q)' = Lease(q) /\ Lease(q) = <<task[q], num[q]>>
        /\ Lease(p)' = <<task'[p], num'[p]>>
    BY <1>1, <1>2 DEF Lease
  <2>2. num[q] \in 1..Len(attempts[task[q]])
    BY <2>1 DEF Core, Local, Author, Fresh, Settling
  <2>3. CASE Author(p) /\ Lease(p)' = Lease(p)
    BY <2>1, <2>3 DEF Core, OneAuthor
  <2>4. CASE task'[p] \in Tasks /\ num'[p] > Len(attempts[task'[p]])
    <3>1. Len(attempts[task'[p]]) \in Nat /\ num'[p] \in Nat
      BY <2>4, Typed DEF IInv, TypeOK
    <3>2. task[q] = task'[p] => num[q] # num'[p]
      BY <2>2, <2>4, <3>1
    <3> QED BY <2>1, <3>2
  <2> QED BY <1>2, <2>3, <2>4
<1> QED BY <1>1, <1>2 DEF Core, OneAuthor

-----------------------------------------------------------------------------
(* Each step.                                                              *)

\* Steps that touch neither attempts nor results.
LEMMA SparesRows ==
  ASSUME TypeOK, RowsBacked, NEW p \in Procs, Others(p), UNCHANGED <<attempts, results>>
  PROVE  Spares(p) /\ \A d : Done(d)' <=> Done(d)
<1>1. ASSUME NEW t \in Tasks
      PROVE  /\ Len(attempts'[t]) \in Nat /\ Len(attempts'[t]) >= Len(attempts[t])
             /\ Len(results'[t]) = Len(attempts'[t])
             /\ attempts'[t] = attempts[t] /\ results'[t] = results[t]
  BY Typed DEF RowsBacked
<1>2. Spares(p)
  <2>1. \A u \in Tasks : /\ Len(attempts'[u]) \in Nat /\ Len(attempts'[u]) >= Len(attempts[u])
                         /\ Len(results'[u]) = Len(attempts'[u])
    BY <1>1
  <2>2. \A u \in Tasks : \A n \in 1..Len(attempts[u]) :
          \/ attempts'[u][n] = attempts[u][n] \/ attempts'[u][n] \notin Finals
          \/ Author(p) /\ <<u, n>> = Lease(p)
    BY <1>1
  <2>3. \A u \in Tasks : \A n \in 1..Len(attempts[u]) :
          results'[u][n] = results[u][n] \/ (Fresh(p) /\ <<u, n>> = Lease(p))
    BY <1>1
  <2> QED BY <2>1, <2>2, <2>3, SparesIntro
<1> QED BY <1>2 DEF Done

LEMMA SameRows ==
  ASSUME RowsBacked, UNCHANGED <<attempts, results, status>> PROVE RowsBacked'
BY DEF RowsBacked

\* Before its attempt and after its last row a process relies on nothing.
Passive(p) ==
  /\ Others(p) /\ UNCHANGED <<attempts, results, status>>
  /\ handler'[p] = "none" /\ pc'[p] \in {"idle", "register", "number", "create_blocked"}

LEMMA PassiveStep ==
  ASSUME IInv, IInv', Core, NEW p \in Procs, Passive(p) PROVE Core'
<1>1. Local(p)' /\ ~Author(p)'
  BY DEF Passive, Local, Author, Fresh, Settling
<1>2. Spares(p) /\ RowsBacked'
  BY SparesRows, SameRows DEF Passive, Core, IInv
<1> QED BY <1>1, <1>2, CoreStep

\* A process goes on with its attempt; a slot may be acquired.
Proceeds(p) ==
  /\ Others(p) /\ UNCHANGED <<attempts, results, status, task, num>>
  /\ Fresh(p) /\ Fresh(p)' /\ pc'[p] # "admit"
  /\ handler'[p] # "none" => handler[p] # "none" \/ pc[p] = "admit"

LEMMA ProceedStep ==
  ASSUME IInv, IInv', Core, NEW p \in Procs, Proceeds(p) PROVE Core'
<1>1. Spares(p) /\ RowsBacked' /\ \A d : Done(d)' <=> Done(d)
  BY SparesRows, SameRows DEF Proceeds, Core, IInv
<1>2. Local(p) /\ Fresh(p) /\ Fresh(p)' /\ ~Settling(p)'
  BY DEF Core, Proceeds, Fresh, Settling
<1>3. Local(p)'
  BY <1>1, <1>2 DEF Local, Proceeds, Fresh
<1>4. Author(p) /\ Lease(p)' = Lease(p)
  BY DEF Proceeds, Author, Lease
<1> QED BY <1>1, <1>3, <1>4, CoreStep

LEMMA StartStep ==
  ASSUME IInv, IInv', Core, NEW p \in Procs,
         \/ \E t \in Tasks : StartRun(p, t) \/ StartRetry(p, t) \/ BatchNext(p, t)
         \/ \E t \in Tasks : \E n \in DOMAIN attempts[t] : StartResume(p, t, n)
         \/ StartBatch(p) \/ ReadNumber(p)
  PROVE  Core'
<1>. USE DEF Goto, At
<1>0. /\ pc[p] \in {"idle", "number"} => handler[p] = "none"
      /\ pc \in [Procs -> Labels] /\ task \in [Procs -> Tasks \cup {NoTask}]
      /\ num \in [Procs -> Nat] /\ handler \in [Procs -> {"none", "try", "except"}]
      /\ outcome \in [Procs -> States \cup {"none"}] /\ unread \in [Procs -> SUBSET Tasks]
  BY DEF IInv, PhaseInv, Phase, TypeOK, Holding
<1>1. ASSUME NEW t \in Tasks, StartRun(p, t) PROVE Core'
  <2>1. Passive(p)
    BY <1>0, <1>1 DEF StartRun, Passive, Others, db
  <2> QED BY <2>1, PassiveStep
<1>2. ASSUME NEW t \in Tasks, BatchNext(p, t) PROVE Core'
  <2>1. Passive(p)
    BY <1>0, <1>2 DEF BatchNext, Passive, Others, db
  <2> QED BY <2>1, PassiveStep
<1>3. CASE StartBatch(p)
  <2>1. Passive(p)
    BY <1>0, <1>3 DEF StartBatch, Passive, Others, db
  <2> QED BY <2>1, PassiveStep
<1>4. ASSUME NEW t \in Tasks, StartRetry(p, t) PROVE Core'
  <2>1. /\ Others(p) /\ UNCHANGED <<attempts, results, status>>
        /\ pc'[p] = "create_retry" /\ outcome'[p] = "queued" /\ handler'[p] = "none"
    BY <1>0, <1>4 DEF StartRetry, Others, db
  <2>2. Local(p)' /\ ~Author(p)'
    BY <2>1 DEF Local, Author, Fresh, Settling
  <2>3. Spares(p) /\ RowsBacked'
    BY <2>1, SparesRows, SameRows DEF Core, IInv
  <2> QED BY <2>2, <2>3, CoreStep
<1>5. ASSUME NEW t \in Tasks, NEW n \in DOMAIN attempts[t], StartResume(p, t, n) PROVE Core'
  <2>1. /\ Others(p) /\ UNCHANGED <<attempts, results, status>>
        /\ pc'[p] = "update_attempt" /\ outcome'[p] = "ready" /\ handler'[p] = "none"
        /\ task'[p] = t /\ num'[p] = n
    BY <1>0, <1>5 DEF StartResume, Others, db
  <2>2. n \in 1..Len(attempts'[t])
    BY <2>1, Typed DEF IInv
  <2>3. Local(p)' /\ ~Author(p)'
    BY <2>1, <2>2 DEF Local, Author, Fresh, Settling, Settled, Finals, Blocked
  <2>4. Spares(p) /\ RowsBacked'
    BY <2>1, SparesRows, SameRows DEF Core, IInv
  <2> QED BY <2>3, <2>4, CoreStep
<1>6. CASE ReadNumber(p)
  <2>1. /\ Others(p) /\ UNCHANGED <<attempts, results, status>>
        /\ pc'[p] = "probe" /\ handler'[p] = "none"
        /\ Deps[task'[p]] \ unread'[p] = {}
    BY <1>0, <1>6 DEF ReadNumber, Others, db
  <2>2. Local(p)' /\ ~Author(p)'
    BY <2>1 DEF Local, Author, Fresh, Settling
  <2>3. Spares(p) /\ RowsBacked'
    BY <2>1, SparesRows, SameRows DEF Core, IInv
  <2> QED BY <2>2, <2>3, CoreStep
<1> QED BY <1>1, <1>2, <1>3, <1>4, <1>5, <1>6

\* A dependency that counts as completed has a result that says so.
LEMMA ProbeStep ==
  ASSUME IInv, IInv', Core, NEW p \in Procs, NEW d \in Tasks, ProbeDependency(p, d)
  PROVE  Core'
<1>0. /\ pc[p] = "probe" /\ handler[p] = "none" /\ pc \in [Procs -> Labels]
      /\ unread \in [Procs -> SUBSET Tasks]
      /\ UNCHANGED <<attempts, results, status, task, num, outcome, handler>>
  BY DEF ProbeDependency, At, IInv, PhaseInv, Phase, TypeOK, Holding, db
<1>1. CASE status[d] = "completed"
  <2>1. unread' = [unread EXCEPT ![p] = @ \ {d}] /\ UNCHANGED pc
    BY <1>1 DEF ProbeDependency
  <2>2. Others(p) /\ pc'[p] = "probe" /\ unread'[p] = unread[p] \ {d}
    BY <1>0, <2>1 DEF Others
  <2>3. Done(d)
    BY <1>1 DEF Core, RowsBacked, Done, Settled, Finals
  <2>4. Spares(p) /\ RowsBacked' /\ \A e : Done(e)' <=> Done(e)
    BY <1>0, <2>2, SparesRows, SameRows DEF Core, IInv
  <2>5. \A e \in Deps[task[p]] \ unread[p] : Done(e)
    BY <1>0 DEF Core, Local
  <2>6. \A e \in Deps[task'[p]] \ unread'[p] : Done(e)'
    BY <1>0, <2>2, <2>3, <2>4, <2>5
  <2>7. Local(p)' /\ ~Author(p)'
    BY <1>0, <2>2, <2>6 DEF Local, Author, Fresh, Settling
  <2> QED BY <2>4, <2>7, CoreStep
<1>2. CASE status[d] # "completed"
  <2>1. unread' = [unread EXCEPT ![p] = {}] /\ Goto(p, "create_blocked")
    BY <1>2 DEF ProbeDependency
  <2>2. Passive(p)
    BY <1>0, <2>1 DEF Passive, Others, Goto
  <2> QED BY <2>2, PassiveStep
<1> QED BY <1>1, <1>2

\* The attempt a process inserts is new, so nobody else is its author.
LEMMA InsertStep ==
  ASSUME IInv, IInv', Core, NEW p \in Procs, NEW s \in States \ Finals, InsertAttempt(p, s),
         pc[p] \in Numbering, Others(p), UNCHANGED <<status, task, num>>
  PROVE  /\ Spares(p) /\ RowsBacked'
         /\ task[p] \in Tasks /\ num[p] = Len(attempts[task[p]]) + 1
         /\ num[p] \in 1..Len(attempts'[task[p]])
         /\ attempts'[task[p]][num[p]] = s /\ results'[task[p]][num[p]] = "none"
         /\ \A d \in Tasks : Done(d) => Done(d)'
<1> DEFINE t == task[p]
           k == Len(attempts[t]) + 1
<1>1. TypeOK /\ TypeOK' /\ t \in Tasks /\ num[p] \in 1..k
  BY DEF IInv, PhaseInv, Phase, OwnerInv, Numbering
<1>2. /\ num[p] \notin DOMAIN attempts[t]
      /\ attempts' = [attempts EXCEPT ![t] = Append(@, s)]
      /\ results' = [results EXCEPT ![t] = Append(@, "none")]
  BY DEF InsertAttempt, Collides
<1>3. num[p] = k /\ Len(results[t]) = Len(attempts[t])
  BY <1>1, <1>2, Typed DEF Core, RowsBacked
<1>4. /\ attempts'[t] = Append(attempts[t], s) /\ results'[t] = Append(results[t], "none")
      /\ \A u \in Tasks : u # t => attempts'[u] = attempts[u] /\ results'[u] = results[u]
  BY <1>1, <1>2 DEF TypeOK
<1>5. /\ Len(attempts'[t]) = k /\ attempts'[t][k] = s
      /\ \A j \in 1..Len(attempts[t]) : attempts'[t][j] = attempts[t][j]
  BY <1>1, <1>4, SeqAdd DEF TypeOK
<1>6. /\ Len(results'[t]) = k /\ results'[t][k] = "none"
      /\ \A j \in 1..Len(attempts[t]) : results'[t][j] = results[t][j]
  <2>1. results[t] \in Seq(Blocked \cup Finals \cup {"none"})
    BY <1>1, Typed
  <2>2. "none" \in Blocked \cup Finals \cup {"none"}
    OBVIOUS
  <2> QED BY <1>3, <1>4, <2>1, <2>2, SeqAdd
<1>7. Spares(p)
  <2>1. ASSUME NEW u \in Tasks
        PROVE  /\ Len(attempts'[u]) \in Nat /\ Len(attempts'[u]) >= Len(attempts[u])
               /\ Len(results'[u]) = Len(attempts'[u])
               /\ \A n \in 1..Len(attempts[u]) : /\ attempts'[u][n] = attempts[u][n]
                                               /\ results'[u][n] = results[u][n]
    <3>1. CASE u = t
      BY <1>1, <1>5, <1>6, <3>1, Typed
    <3>2. CASE u # t
      BY <1>1, <1>4, <3>2, Typed DEF Core, RowsBacked
    <3> QED BY <3>1, <3>2
  <2>2. \A u \in Tasks : /\ Len(attempts'[u]) \in Nat /\ Len(attempts'[u]) >= Len(attempts[u])
                         /\ Len(results'[u]) = Len(attempts'[u])
    BY <2>1
  <2>3. \A u \in Tasks : \A n \in 1..Len(attempts[u]) :
          \/ attempts'[u][n] = attempts[u][n] \/ attempts'[u][n] \notin Finals
          \/ Author(p) /\ <<u, n>> = Lease(p)
    BY <2>1
  <2>4. \A u \in Tasks : \A n \in 1..Len(attempts[u]) :
          results'[u][n] = results[u][n] \/ (Fresh(p) /\ <<u, n>> = Lease(p))
    BY <2>1
  <2> QED BY <2>2, <2>3, <2>4, SparesIntro
<1>8. /\ \A u \in Tasks : \A n \in DOMAIN results[u] :
           results[u][n] # "none" => n \in DOMAIN results'[u] /\ results'[u][n] = results[u][n]
      /\ \A d \in Tasks : Done(d) => Done(d)'
  BY <1>1, <1>7, WrittenStays
<1>9. RowsBacked'
  <2>1. \A u \in Tasks : Len(results'[u]) = Len(attempts'[u])
    BY <1>7 DEF Spares
  <2>2. ASSUME NEW u \in Tasks, NEW n \in DOMAIN attempts'[u], attempts'[u][n] \in Finals
        PROVE  results'[u][n] = attempts'[u][n]
    <3>1. CASE u # t
      BY <1>4, <2>2, <3>1 DEF Core, RowsBacked
    <3>2. CASE u = t /\ n = k
      BY <1>5, <2>2, <3>2
    <3>3. CASE u = t /\ n # k
      <4>1. n \in 1..Len(attempts[t])
        BY <1>1, <1>5, <3>3, Typed
      <4>2. n \in DOMAIN attempts[t]
        BY <1>1, <4>1, Typed
      <4> QED BY <1>1, <1>5, <1>6, <2>2, <3>3, <4>1, <4>2 DEF Core, RowsBacked
    <3> QED BY <3>1, <3>2, <3>3
  <2>3. ASSUME NEW u \in Tasks, status'[u] \in Settled
        PROVE  \E n \in DOMAIN results'[u] : results'[u][n] = status'[u]
    BY <1>8, <2>3 DEF Core, RowsBacked, Settled, Finals, Blocked
  <2> QED BY <2>1, <2>2, <2>3 DEF RowsBacked
<1> QED BY <1>1, <1>3, <1>5, <1>6, <1>7, <1>8, <1>9

LEMMA CreateStep ==
  ASSUME IInv, IInv', Core, NEW p \in Procs,
         CreateReady(p) \/ CreateBlocked(p) \/ CreateRetry(p)
  PROVE  Core'
<1>. USE DEF Goto, At
<1>0. /\ pc[p] \in Numbering => handler[p] = "none"
      /\ pc \in [Procs -> Labels] /\ outcome \in [Procs -> States \cup {"none"}]
      /\ task \in [Procs -> Tasks \cup {NoTask}] /\ num \in [Procs -> Nat]
      /\ Deps \in [Tasks -> SUBSET Tasks]
  BY ConstantsAssumption DEF IInv, PhaseInv, Phase, TypeOK, Holding, Numbering
<1>1. CASE CreateReady(p)
  <2>1. /\ pc[p] = "probe" /\ unread[p] = {} /\ InsertAttempt(p, "ready")
        /\ UNCHANGED <<status, task, num, unread, handler>>
    BY <1>1 DEF CreateReady
  <2>2. Others(p) /\ pc'[p] \in {"write_result", "admit"}
    <3>1. CASE GuardBlocks(task[p])
      <4>1. outcome' = [outcome EXCEPT ![p] = PolicyBlockedState] /\ Goto(p, "write_result")
        BY <1>1, <3>1 DEF CreateReady
      <4> QED BY <1>0, <2>1, <4>1 DEF Others
    <3>2. CASE ~GuardBlocks(task[p])
      <4>1. Goto(p, "admit") /\ UNCHANGED outcome
        BY <1>1, <3>2 DEF CreateReady
      <4> QED BY <1>0, <2>1, <4>1 DEF Others
    <3> QED BY <3>1, <3>2
  <2>3. "ready" \in States \ Finals
    BY DEF States, Finals, Blocked
  <2>4. /\ Spares(p) /\ RowsBacked'
        /\ task[p] \in Tasks /\ num[p] = Len(attempts[task[p]]) + 1
        /\ num[p] \in 1..Len(attempts'[task[p]])
        /\ attempts'[task[p]][num[p]] = "ready" /\ results'[task[p]][num[p]] = "none"
        /\ \A d \in Tasks : Done(d) => Done(d)'
    BY <2>1, <2>2, <2>3, InsertStep DEF Numbering
  <2>5. \A d \in Deps[task'[p]] : Done(d)'
    <3>1. \A d \in Deps[task[p]] : d \in Tasks /\ Done(d)
      BY <1>0, <2>1, <2>4 DEF Core, Local
    <3> QED BY <2>1, <2>4, <3>1
  <2>6. Local(p)'
    BY <2>1, <2>2, <2>3, <2>4, <2>5 DEF Local, Fresh, Settling
  <2>7. num'[p] > Len(attempts[task'[p]])
    BY <2>1, <2>4, Typed DEF IInv
  <2> QED BY <2>1, <2>4, <2>6, <2>7, CoreStep
<1>2. CASE CreateBlocked(p)
  <2>1. /\ pc[p] = "create_blocked" /\ InsertAttempt(p, "dependency_blocked")
        /\ UNCHANGED <<status, task, num, unread, handler>>
        /\ Others(p) /\ pc'[p] = "write_result" /\ handler'[p] = "none"
    BY <1>0, <1>2 DEF CreateBlocked, DependencyBlockedState, Others, Numbering
  <2>2. "dependency_blocked" \in States \ Finals
    BY DEF States, Finals, Blocked
  <2>3. /\ Spares(p) /\ RowsBacked'
        /\ task[p] \in Tasks /\ num[p] = Len(attempts[task[p]]) + 1
        /\ num[p] \in 1..Len(attempts'[task[p]])
        /\ attempts'[task[p]][num[p]] = "dependency_blocked"
        /\ results'[task[p]][num[p]] = "none"
    BY <2>1, <2>2, InsertStep DEF Numbering
  <2>4. Local(p)'
    BY <2>1, <2>2, <2>3 DEF Local, Fresh, Settling
  <2>5. num'[p] > Len(attempts[task'[p]])
    BY <2>1, <2>3, Typed DEF IInv
  <2> QED BY <2>1, <2>3, <2>4, <2>5, CoreStep
<1>3. CASE CreateRetry(p)
  <2>1. /\ pc[p] = "create_retry" /\ InsertAttempt(p, "queued")
        /\ UNCHANGED <<status, task, num, outcome>>
        /\ Others(p) /\ pc'[p] = "update_task" /\ handler'[p] = "none"
    BY <1>0, <1>3 DEF CreateRetry, Others, locals, Numbering
  <2>2. "queued" \in States \ Finals /\ "queued" \notin Settled
    BY DEF States, Finals, Blocked, Settled
  <2>3. Spares(p) /\ RowsBacked'
    BY <2>1, <2>2, InsertStep DEF Numbering
  <2>4. outcome'[p] = "queued"
    BY <2>1 DEF Core, Local
  <2>5. Local(p)' /\ ~Author(p)'
    BY <2>1, <2>2, <2>4 DEF Local, Author, Fresh, Settling
  <2> QED BY <2>3, <2>5, CoreStep
<1> QED BY <1>1, <1>2, <1>3

LEMMA RegisterStep ==
  ASSUME IInv, IInv', Core, NEW p \in Procs, Register(p) \/ MarkTaskRunning(p)
  PROVE  Core'
<1>0. /\ pc \in [Procs -> Labels] /\ status \in [Tasks -> States \cup {"absent"}]
      /\ "queued" \notin Settled /\ "running" \notin Settled
  BY DEF IInv, TypeOK, Settled, Finals, Blocked
<1>1. PICK s \in {"queued", "running"} : status' = [status EXCEPT ![task[p]] = s]
  BY DEF Register, MarkTaskRunning
<1>2. RowsBacked'
  <2>1. UNCHANGED <<attempts, results>>
    BY DEF Register, MarkTaskRunning
  <2>2. \A t \in Tasks : status'[t] = status[t] \/ status'[t] \notin Settled
    BY <1>0, <1>1
  <2> QED BY <2>1, <2>2 DEF Core, RowsBacked
<1>3. /\ Others(p) /\ UNCHANGED <<attempts, results, task, num, handler>>
      /\ \/ pc[p] = "register" /\ pc'[p] = "number"
         \/ pc[p] = "mark_task" /\ pc'[p] = "work"
  BY <1>0 DEF Register, MarkTaskRunning, At, Goto, locals, Others
<1>4. Spares(p) /\ \A d : Done(d)' <=> Done(d)
  BY <1>3, SparesRows DEF Core, IInv
<1>5. pc[p] = "register" => handler[p] = "none"
  BY DEF IInv, PhaseInv, Phase, Holding
<1>6. Local(p)'
  BY <1>3, <1>4, <1>5 DEF Core, Local, Fresh, Settling
<1>7. Author(p)' => Author(p) /\ Lease(p)' = Lease(p)
  BY <1>3 DEF Author, Fresh, Settling, Lease
<1> QED BY <1>2, <1>4, <1>6, <1>7, CoreStep

\* Writing element num of the attempts of the task.
LEMMA PutAttempt ==
  ASSUME IInv, IInv', Core, NEW p \in Procs, NEW e \in States,
         task[p] \in Tasks, num[p] \in 1..Len(attempts[task[p]]),
         attempts' = [attempts EXCEPT ![task[p]][num[p]] = e], UNCHANGED <<results, status>>,
         Others(p), e \in Finals => Author(p) /\ results[task[p]][num[p]] = e
  PROVE  /\ Spares(p) /\ RowsBacked' /\ attempts'[task[p]][num[p]] = e
         /\ num[p] \in 1..Len(attempts'[task[p]]) /\ \A d : Done(d)' <=> Done(d)
<1> DEFINE t == task[p]
<1>1. /\ attempts'[t] = [attempts[t] EXCEPT ![num[p]] = e]
      /\ \A u \in Tasks : u # t => attempts'[u] = attempts[u]
  BY DEF IInv, TypeOK
<1>2. attempts[t] \in Seq(States)
  BY Typed DEF IInv
<1>3. /\ Len(attempts'[t]) = Len(attempts[t]) /\ attempts'[t][num[p]] = e
      /\ \A j \in 1..Len(attempts[t]) : j # num[p] => attempts'[t][j] = attempts[t][j]
  BY <1>1, <1>2, SeqPut
<1>4. \A u \in Tasks : /\ Len(attempts'[u]) = Len(attempts[u]) /\ Len(attempts[u]) \in Nat
                       /\ Len(results[u]) = Len(attempts[u])
                       /\ DOMAIN attempts'[u] = 1..Len(attempts[u])
                       /\ DOMAIN attempts[u] = 1..Len(attempts[u])
  <2>1. TypeOK /\ TypeOK'
    BY DEF IInv
  <2>2. \A u \in Tasks : DOMAIN attempts'[u] = 1..Len(attempts'[u])
    BY <2>1 DEF TypeOK
  <2> QED BY <1>1, <1>3, <2>1, <2>2, Typed DEF Core, RowsBacked
<1>5. \A u \in Tasks : \A n \in 1..Len(attempts[u]) :
        attempts'[u][n] = attempts[u][n] \/ (u = t /\ n = num[p] /\ attempts'[u][n] = e)
  BY <1>1, <1>3
<1>6. Spares(p)
  <2>1. \A u \in Tasks : /\ Len(attempts'[u]) \in Nat /\ Len(attempts'[u]) >= Len(attempts[u])
                         /\ Len(results'[u]) = Len(attempts'[u])
    BY <1>4
  <2>2. \A u \in Tasks : \A n \in 1..Len(attempts[u]) :
          \/ attempts'[u][n] = attempts[u][n] \/ attempts'[u][n] \notin Finals
          \/ Author(p) /\ <<u, n>> = Lease(p)
    BY <1>5 DEF Lease
  <2>3. \A u \in Tasks : \A n \in 1..Len(attempts[u]) :
          results'[u][n] = results[u][n] \/ (Fresh(p) /\ <<u, n>> = Lease(p))
    OBVIOUS
  <2> QED BY <2>1, <2>2, <2>3, SparesIntro
<1>7. RowsBacked'
  BY <1>4, <1>5 DEF Core, RowsBacked
<1> QED BY <1>3, <1>4, <1>6, <1>7 DEF Done

LEMMA MarkStep ==
  ASSUME IInv, IInv', Core, NEW p \in Procs, MarkAttemptRunning(p)
  PROVE  Core'
<1>1. /\ pc[p] = "mark_attempt" /\ pc'[p] = "mark_task" /\ Others(p)
      /\ attempts' = [attempts EXCEPT ![task[p]][num[p]] = "running"]
      /\ UNCHANGED <<results, status, task, num, handler>>
  BY DEF MarkAttemptRunning, At, Goto, locals, Others, IInv, TypeOK
<1>2. /\ task[p] \in Tasks /\ num[p] \in 1..Len(attempts[task[p]])
      /\ results[task[p]][num[p]] = "none"
  BY <1>1 DEF IInv, PhaseInv, Phase, Core, Local, Fresh
<1>3. "running" \in States /\ "running" \notin Finals
  BY DEF States, Finals
<1>4. /\ Spares(p) /\ RowsBacked' /\ attempts'[task[p]][num[p]] = "running"
      /\ num[p] \in 1..Len(attempts'[task[p]]) /\ \A d : Done(d)' <=> Done(d)
  BY <1>1, <1>2, <1>3, PutAttempt
<1>5. Local(p)'
  BY <1>1, <1>2, <1>3, <1>4 DEF Core, Local, Fresh, Settling
<1>6. Author(p) /\ Lease(p)' = Lease(p)
  BY <1>1 DEF Author, Fresh, Lease
<1> QED BY <1>4, <1>5, <1>6, CoreStep

LEMMA UpdateStep ==
  ASSUME IInv, IInv', Core, NEW p \in Procs, UpdateAttempt(p)
  PROVE  Core'
<1>1. /\ pc[p] = "update_attempt" /\ pc'[p] = "update_task" /\ Others(p)
      /\ attempts' = [attempts EXCEPT ![task[p]][num[p]] = outcome[p]]
      /\ UNCHANGED <<results, status, task, num, outcome, handler>>
  BY DEF UpdateAttempt, At, Goto, locals, Others, IInv, TypeOK
<1>2. /\ task[p] \in Tasks /\ num[p] \in 1..Len(attempts[task[p]])
      /\ outcome[p] \in States
      /\ outcome[p] \in Settled => results[task[p]][num[p]] = outcome[p]
  BY <1>1 DEF IInv, PhaseInv, Phase, Core, Local
<1>3. outcome[p] \in Finals => Author(p) /\ outcome[p] \in Settled
  BY <1>1 DEF Author, Settling, Finals, Settled
<1>4. /\ Spares(p) /\ RowsBacked'
      /\ num[p] \in 1..Len(attempts'[task[p]]) /\ \A d : Done(d)' <=> Done(d)
  BY <1>1, <1>2, <1>3, PutAttempt
<1>5. Local(p)' /\ ~Author(p)'
  BY <1>1, <1>2, <1>4 DEF Core, Local, Author, Fresh, Settling
<1> QED BY <1>4, <1>5, CoreStep

\* The one write of a result.
LEMMA ResultStep ==
  ASSUME IInv, IInv', Core, NEW p \in Procs, WriteResult(p)
  PROVE  Core'
<1> DEFINE t == task[p]
<1>1. /\ pc[p] = "write_result" /\ pc'[p] = "update_attempt" /\ Others(p)
      /\ results' = [results EXCEPT ![t][num[p]] = outcome[p]]
      /\ UNCHANGED <<attempts, status, task, num, outcome, handler>>
  BY DEF WriteResult, At, Goto, locals, Others, IInv, TypeOK
<1>2. /\ t \in Tasks /\ num[p] \in 1..Len(attempts[t]) /\ outcome[p] \in Settled
      /\ attempts[t][num[p]] \notin Finals /\ results[t][num[p]] = "none"
  BY <1>1 DEF IInv, PhaseInv, Phase, Core, Local, Fresh, Settled
<1>3. results[t] \in Seq(Blocked \cup Finals \cup {"none"}) /\ Len(results[t]) = Len(attempts[t])
      /\ outcome[p] \in Blocked \cup Finals \cup {"none"}
  BY <1>2, Typed DEF IInv, Core, RowsBacked, Settled
<1>4. /\ results'[t] = [results[t] EXCEPT ![num[p]] = outcome[p]]
      /\ \A u \in Tasks : u # t => results'[u] = results[u]
  BY <1>1, <1>2 DEF IInv, TypeOK
<1>5. /\ Len(results'[t]) = Len(results[t]) /\ results'[t][num[p]] = outcome[p]
      /\ \A j \in 1..Len(results[t]) : j # num[p] => results'[t][j] = results[t][j]
  BY <1>2, <1>3, <1>4, SeqPut
<1>6. \A u \in Tasks : /\ Len(attempts[u]) \in Nat /\ Len(results[u]) = Len(attempts[u])
                       /\ Len(results'[u]) = Len(attempts[u])
                       /\ DOMAIN attempts[u] = 1..Len(attempts[u])
  BY <1>4, <1>5, Typed DEF IInv, Core, RowsBacked
<1>7. \A u \in Tasks : \A n \in 1..Len(attempts[u]) :
        results'[u][n] = results[u][n] \/ (u = t /\ n = num[p])
  BY <1>3, <1>4, <1>5
<1>8. Fresh(p) /\ Author(p) /\ Lease(p)' = Lease(p) /\ Lease(p) = <<t, num[p]>>
  BY <1>1 DEF Author, Fresh, Lease
<1>9. Spares(p)
  <2>1. \A u \in Tasks : /\ Len(attempts'[u]) \in Nat /\ Len(attempts'[u]) >= Len(attempts[u])
                         /\ Len(results'[u]) = Len(attempts'[u])
    BY <1>1, <1>6
  <2>2. \A u \in Tasks : \A n \in 1..Len(attempts[u]) :
          \/ attempts'[u][n] = attempts[u][n] \/ attempts'[u][n] \notin Finals
          \/ Author(p) /\ <<u, n>> = Lease(p)
    BY <1>1
  <2>3. \A u \in Tasks : \A n \in 1..Len(attempts[u]) :
          results'[u][n] = results[u][n] \/ (Fresh(p) /\ <<u, n>> = Lease(p))
    <3>1. ASSUME NEW u \in Tasks, NEW n \in 1..Len(attempts[u])
          PROVE  results'[u][n] = results[u][n] \/ (Fresh(p) /\ <<u, n>> = Lease(p))
      <4>1. CASE u = t /\ n = num[p]
        BY <1>8, <4>1
      <4>2. CASE ~(u = t /\ n = num[p])
        BY <1>7, <4>2
      <4> QED BY <4>1, <4>2
    <3> QED BY <3>1
  <2> QED BY <1>1, <2>1, <2>2, <2>3, SparesIntro
<1>10. /\ \A u \in Tasks : \A n \in DOMAIN results[u] :
            results[u][n] # "none" => n \in DOMAIN results'[u] /\ results'[u][n] = results[u][n]
       /\ \A d \in Tasks : Done(d) => Done(d)'
  BY <1>9, WrittenStays DEF IInv
<1>11. RowsBacked'
  <2>1. \A u \in Tasks : \A n \in DOMAIN attempts'[u] :
          attempts'[u][n] \in Finals => results'[u][n] = attempts'[u][n]
    BY <1>1, <1>2, <1>6, <1>7 DEF Core, RowsBacked
  <2>2. ASSUME NEW u \in Tasks, status'[u] \in Settled
        PROVE  \E n \in DOMAIN results'[u] : results'[u][n] = status'[u]
    BY <1>1, <1>10, <2>2 DEF Core, RowsBacked, Settled, Finals, Blocked
  <2> QED BY <1>1, <1>6, <2>1, <2>2 DEF RowsBacked
<1>12. \A d \in Deps[t] : d \in Tasks
  BY <1>2, ConstantsAssumption
<1>13. Local(p)'
  BY <1>1, <1>2, <1>5, <1>10, <1>12 DEF Core, Local, Fresh, Settling
<1> QED BY <1>8, <1>9, <1>11, <1>13, CoreStep

LEMMA TaskStep ==
  ASSUME IInv, IInv', Core, NEW p \in Procs, UpdateTask(p)
  PROVE  Core'
<1>1. /\ pc[p] = "update_task" /\ pc'[p] = "record" /\ Others(p)
      /\ status' = [status EXCEPT ![task[p]] = outcome[p]]
      /\ UNCHANGED <<attempts, results, task, num, outcome, handler>>
  BY DEF UpdateTask, At, Goto, locals, Others, IInv, TypeOK
<1>2. /\ task[p] \in Tasks
      /\ outcome[p] \in Settled => /\ num[p] \in 1..Len(attempts[task[p]])
                                   /\ results[task[p]][num[p]] = outcome[p]
  BY <1>1 DEF IInv, PhaseInv, Phase, Core, Local
<1>3. \A u \in Tasks : status'[u] = IF u = task[p] THEN outcome[p] ELSE status[u]
  BY <1>1 DEF IInv, TypeOK
<1>4. RowsBacked'
  <2>1. ASSUME NEW u \in Tasks, status'[u] \in Settled
        PROVE  \E n \in DOMAIN results[u] : results[u][n] = status'[u]
    <3>1. CASE u = task[p]
      <4>1. num[p] \in DOMAIN results[u]
        BY <1>2, <1>3, <2>1, <3>1, Typed DEF IInv, Core, RowsBacked
      <4> QED BY <1>2, <1>3, <2>1, <3>1, <4>1
    <3>2. CASE u # task[p]
      BY <1>3, <2>1, <3>2 DEF Core, RowsBacked
    <3> QED BY <3>1, <3>2
  <2> QED BY <1>1, <2>1 DEF Core, RowsBacked
<1>5. Spares(p) /\ \A d : Done(d)' <=> Done(d)
  BY <1>1, SparesRows DEF Core, IInv
<1>6. Local(p)' /\ ~Author(p)'
  BY <1>1, <1>5 DEF Core, Local, Author, Fresh, Settling
<1> QED BY <1>4, <1>5, <1>6, CoreStep

\* Steps after the last row, or of a killed process.
LEMMA LeaveStep ==
  ASSUME IInv, IInv', Core, NEW p \in Procs,
         Record(p) \/ ReleaseSlot(p) \/ Collision(p) \/ Crash(p)
  PROVE  Core'
<1>. USE DEF Goto, At
<1>0. /\ pc \in [Procs -> Labels] /\ task \in [Procs -> Tasks \cup {NoTask}]
      /\ num \in [Procs -> Nat] /\ handler \in [Procs -> {"none", "try", "except"}]
      /\ outcome \in [Procs -> States \cup {"none"}] /\ unread \in [Procs -> SUBSET Tasks]
  BY DEF IInv, TypeOK
<1>1. UNCHANGED <<attempts, results, status>>
  BY DEF Record, ReleaseSlot, Collision, Crash, db
<1>2. ASSUME NEW rest, Leave(p, rest) PROVE Core'
  <2>1. Passive(p)
    BY <1>0, <1>1, <1>2 DEF Leave, Passive, Others
  <2> QED BY <2>1, PassiveStep
<1>3. CASE Record(p) /\ handler[p] # "none"
  <2>1. pc[p] = "record" /\ Goto(p, "release") /\ UNCHANGED locals
    BY <1>3 DEF Record
  <2>2. Others(p) /\ pc'[p] = "release" /\ UNCHANGED <<task, num, handler>>
    BY <1>0, <2>1 DEF Others, locals
  <2>3. Spares(p) /\ RowsBacked' /\ \A d : Done(d)' <=> Done(d)
    BY <1>1, <2>2, SparesRows, SameRows DEF Core, IInv
  <2>4. Local(p)' /\ ~Author(p)'
    BY <2>1, <2>2, <2>3 DEF Core, Local, Author, Fresh, Settling
  <2> QED BY <2>3, <2>4, CoreStep
<1>4. CASE Record(p) /\ handler[p] = "none"
  BY <1>2, <1>4 DEF Record
<1> QED BY <1>2, <1>3, <1>4 DEF ReleaseSlot, Collision, Crash

LEMMA RunStep ==
  ASSUME IInv, IInv', Core, NEW p \in Procs,
         AcquireSlot(p) \/ SlotConflict(p) \/ WorkerDone(p) \/ WorkerFails(p)
  PROVE  Core'
<1>1. /\ pc \in [Procs -> Labels] /\ handler \in [Procs -> {"none", "try", "except"}]
      /\ outcome \in [Procs -> States \cup {"none"}]
      /\ pc[p] = "work" => handler[p] # "none"
  BY DEF IInv, PhaseInv, Phase, TypeOK
<1>. USE DEF Goto, At
<1>2. CASE AcquireSlot(p)
  BY <1>1, <1>2, ProceedStep DEF AcquireSlot, Proceeds, Others, Fresh
<1>3. CASE SlotConflict(p)
  BY <1>1, <1>3, ProceedStep DEF SlotConflict, Proceeds, Others, Fresh, db
<1>4. CASE WorkerDone(p)
  BY <1>1, <1>4, ProceedStep DEF WorkerDone, Proceeds, Others, Fresh, db
<1>5. CASE WorkerFails(p)
  BY <1>1, <1>5, ProceedStep DEF WorkerFails, EnterExcept, Proceeds, Others, Fresh, db
<1> QED BY <1>2, <1>3, <1>4, <1>5

LEMMA ResultInvStep ==
  ASSUME IInv, IInv', ResultInv, [Next]_vars
  PROVE  ResultInv'
<1>1. ASSUME NEW p \in Procs, CallRaises(p) PROVE ResultInv'
  BY <1>1 DEF CallRaises, ResultInv, IInv, TypeOK
<1>2. CASE UNCHANGED vars
  BY <1>2 DEF vars, db, locals, spent, ResultInv, Core, Local, RowsBacked, OneAuthor,
     Author, Fresh, Settling, Done, Lease
<1>3. ASSUME NEW p \in Procs, Command(p) \/ Step(p) \/ Crash(p) PROVE ResultInv'
  <2>1. UNCHANGED erred
    BY <1>3 DEF Command, Step, StartRun, StartRetry, StartResume, StartBatch,
       BatchNext, Register, ReadNumber, ProbeDependency, CreateReady,
       CreateBlocked, CreateRetry, Collision, AcquireSlot, SlotConflict,
       MarkAttemptRunning, MarkTaskRunning, WorkerDone, WorkerFails, WriteResult,
       UpdateAttempt, UpdateTask, Record, ReleaseSlot, Crash, spent
  <2>2. ASSUME Core PROVE Core'
    BY <1>3, <2>2, StartStep, ProbeStep, CreateStep, RegisterStep, MarkStep, UpdateStep,
       ResultStep, TaskStep, LeaveStep, RunStep DEF Command, Step
  <2> QED BY <2>1, <2>2 DEF ResultInv
<1> QED BY <1>1, <1>2, <1>3 DEF Next

LEMMA InitResult == Init => ResultInv
<1> SUFFICES ASSUME Init PROVE Core
  BY DEF ResultInv
<1>1. \A p \in Procs : Local(p) /\ ~Author(p)
  BY DEF Init, Local, Author, Fresh, Settling
<1>2. RowsBacked
  BY DEF Init, RowsBacked, Settled, Finals, Blocked
<1> QED BY <1>1, <1>2 DEF Core, OneAuthor

LEMMA ResultInvariant == Spec => [](IInv /\ ResultInv)
<1>1. IInv /\ IInv' /\ ResultInv /\ [Next]_vars => ResultInv'
  BY ResultInvStep
<1> QED BY <1>1, InitResult, IInvHolds, PTL DEF Spec

-----------------------------------------------------------------------------
(* Theorems.                                                               *)

\* The result of a final attempt exists and says the same, as long as no call
\* has raised, whatever crashes and operators do between file and row.
THEOREM ResultBacksAttemptHolds == Spec => []ResultBacksAttempt
<1>1. ResultInv => ResultBacksAttempt
  BY DEF ResultInv, Core, RowsBacked, ResultBacksAttempt
<1> QED BY <1>1, ResultInvariant, PTL

\* A task is never reported in a final or blocked state without a result that
\* says so, as long as no call has raised.
THEOREM ResultBacksTaskHolds == Spec => []ResultBacksTask
<1>1. ResultInv => ResultBacksTask
  BY DEF ResultInv, Core, RowsBacked, ResultBacksTask, Settled
<1> QED BY <1>1, ResultInvariant, PTL

\* No worker is admitted before every dependency has a completed result, for
\* any graph of dependencies, as long as no call has raised.
THEOREM DependenciesDoneHolds == Spec => []DependenciesDone
<1>1. ResultInv => DependenciesDone
  BY DEF ResultInv, Core, Local, Done, DependenciesDone
<1> QED BY <1>1, ResultInvariant, PTL

-----------------------------------------------------------------------------
(* Completed attempts.                                                     *)

\* Without operators no process records that an attempt is ready again.
NoReady == \A p \in Procs : outcome[p] # "ready"

LEMMA NoReadyStep ==
  ASSUME Operators = FALSE, TypeOK, NoReady, [Next]_vars PROVE NoReady'
<1>0. outcome \in [Procs -> States \cup {"none"}]
  BY DEF TypeOK
<1>1. ASSUME NEW p \in Procs, NEW e \in Finals \cup Blocked \cup {"none"},
             outcome' = [outcome EXCEPT ![p] = e]
      PROVE  NoReady'
  BY <1>0, <1>1 DEF NoReady, Finals, Blocked
<1>2. ASSUME UNCHANGED outcome PROVE NoReady'
  BY <1>2 DEF NoReady
<1>3. ASSUME NEW p \in Procs, NEW rest, Leave(p, rest) PROVE NoReady'
  BY <1>1, <1>3 DEF Leave
<1>4. ASSUME NEW p \in Procs, EnterExcept(p) PROVE NoReady'
  <2>1. FailureState \in Finals
    BY DEF FailureState, Finals
  <2> QED BY <1>1, <1>4, <2>1 DEF EnterExcept
<1>5. ASSUME NEW p \in Procs, CreateReady(p) PROVE NoReady'
  <2>1. UNCHANGED outcome \/ outcome' = [outcome EXCEPT ![p] = PolicyBlockedState]
    BY <1>5 DEF CreateReady
  <2>2. PolicyBlockedState \in Blocked
    BY DEF PolicyBlockedState, Blocked
  <2> QED BY <1>1, <1>2, <2>1, <2>2
<1>6. ASSUME NEW p \in Procs, CreateBlocked(p) PROVE NoReady'
  <2>1. DependencyBlockedState \in Blocked
    BY DEF DependencyBlockedState, Blocked
  <2> QED BY <1>1, <1>6, <2>1 DEF CreateBlocked
<1>7. ASSUME NEW p \in Procs, SlotConflict(p) PROVE NoReady'
  <2>1. SlotPausedState \in Finals
    BY DEF SlotPausedState, Finals
  <2> QED BY <1>1, <1>7, <2>1 DEF SlotConflict
<1>8. ASSUME NEW p \in Procs, WorkerDone(p) PROVE NoReady'
  <2>1. PICK surface \in BOOLEAN, gateFailed \in BOOLEAN : outcome' =
          [outcome EXCEPT ![p] = FinalState(Policy[task[p]], surface, gateFailed)]
    BY <1>8 DEF WorkerDone
  <2>2. FinalState(Policy[task[p]], surface, gateFailed) \in Finals
    BY DEF FinalState, Finals
  <2> QED BY <1>1, <2>1, <2>2
<1>9. ASSUME NEW p \in Procs, Record(p) PROVE NoReady'
  BY <1>2, <1>3, <1>9 DEF Record, locals
<1>10. ASSUME NEW p \in Procs, CallRaises(p) PROVE NoReady'
  BY <1>2, <1>3, <1>4, <1>10 DEF CallRaises
<1>11. ASSUME NEW p \in Procs, Command(p) PROVE NoReady'
  BY <1>2, <1>11 DEF Command, StartRun, StartRetry, StartResume, StartBatch
<1>12. ASSUME NEW p \in Procs, Step(p) PROVE NoReady'
  <2>1. CASE \/ \E t \in Tasks : BatchNext(p, t) \/ ProbeDependency(p, t)
             \/ Register(p) \/ ReadNumber(p) \/ CreateRetry(p) \/ AcquireSlot(p)
             \/ MarkAttemptRunning(p) \/ MarkTaskRunning(p) \/ WriteResult(p)
             \/ UpdateAttempt(p) \/ UpdateTask(p)
    BY <1>2, <2>1 DEF BatchNext, ProbeDependency, Register, ReadNumber, CreateRetry,
       AcquireSlot, MarkAttemptRunning, MarkTaskRunning, WriteResult, UpdateAttempt,
       UpdateTask, locals
  <2>2. CASE WorkerFails(p)
    BY <1>4, <2>2 DEF WorkerFails
  <2>3. CASE Collision(p) \/ ReleaseSlot(p)
    BY <1>3, <2>3 DEF Collision, ReleaseSlot
  <2> QED BY <1>5, <1>6, <1>7, <1>8, <1>9, <1>12, <2>1, <2>2, <2>3 DEF Step
<1>13. ASSUME NEW p \in Procs, Crash(p) PROVE NoReady'
  BY <1>3, <1>13 DEF Crash
<1>14. CASE UNCHANGED vars
  BY <1>2, <1>14 DEF vars, locals
<1> QED BY <1>10, <1>11, <1>12, <1>13, <1>14 DEF Next

\* An attempt changes only by the process at work on it, which is its author.
LEMMA AttemptStep ==
  ASSUME IInv, Core, NoReady, Next, NEW t \in Tasks, NEW n \in DOMAIN attempts[t],
         attempts[t][n] = "completed"
  PROVE  attempts'[t][n] = "completed"
<1>1. /\ attempts \in [Tasks -> Seq(States)] /\ attempts[t] \in Seq(States)
      /\ n \in 1..Len(attempts[t]) /\ Len(attempts[t]) \in Nat
  BY Typed DEF IInv, TypeOK
<1>2. ASSUME UNCHANGED attempts PROVE attempts'[t][n] = "completed"
  BY <1>2
<1>3. ASSUME NEW p \in Procs, NEW e, pc[p] \in {"mark_attempt", "update_attempt"},
             attempts' = [attempts EXCEPT ![task[p]][num[p]] = e]
      PROVE  attempts'[t][n] = "completed"
  <2>1. attempts[task[p]][num[p]] \notin Finals /\ task[p] \in Tasks
    BY <1>3 DEF Core, Local, Fresh, Settling, NoReady, IInv, PhaseInv, Phase
  <2>2. task[p] # t \/ num[p] # n
    BY <2>1 DEF Finals
  <2>3. attempts'[t] = IF task[p] = t THEN [attempts[t] EXCEPT ![num[p]] = e] ELSE attempts[t]
    BY <1>1, <1>3, <2>1
  <2>4. DOMAIN attempts[t] = 1..Len(attempts[t])
    BY <1>1
  <2> QED BY <1>1, <2>2, <2>3, <2>4
<1>4. ASSUME NEW p \in Procs, NEW s, InsertAttempt(p, s), pc[p] \in Numbering
      PROVE  attempts'[t][n] = "completed"
  <2>1. task[p] \in Tasks
    BY <1>4 DEF IInv, PhaseInv, Phase, Numbering
  <2>2. attempts'[t] = IF task[p] = t THEN Append(attempts[t], s) ELSE attempts[t]
    BY <1>1, <1>4, <2>1 DEF InsertAttempt
  <2>3. Append(attempts[t], s)[n] = attempts[t][n]
    BY <1>1
  <2> QED BY <2>2, <2>3
<1>5. ASSUME NEW p \in Procs, CreateReady(p) \/ CreateBlocked(p) \/ CreateRetry(p)
      PROVE  attempts'[t][n] = "completed"
  BY <1>4, <1>5 DEF CreateReady, CreateBlocked, CreateRetry, Numbering, At
<1>6. ASSUME NEW p \in Procs, MarkAttemptRunning(p) \/ UpdateAttempt(p)
      PROVE  attempts'[t][n] = "completed"
  BY <1>3, <1>6 DEF MarkAttemptRunning, UpdateAttempt, At
<1>7. ASSUME NEW p \in Procs, Command(p) \/ Crash(p) \/ CallRaises(p)
      PROVE  UNCHANGED attempts
  BY <1>7 DEF Command, StartRun, StartRetry, StartResume, StartBatch, Crash, CallRaises, db
<1>8. ASSUME NEW p \in Procs, Step(p)
      PROVE  attempts'[t][n] = "completed"
  <2>1. CASE \/ \E d \in Tasks : BatchNext(p, d) \/ ProbeDependency(p, d)
             \/ Register(p) \/ ReadNumber(p) \/ Collision(p) \/ AcquireSlot(p)
             \/ SlotConflict(p) \/ MarkTaskRunning(p) \/ WorkerDone(p) \/ WorkerFails(p)
             \/ WriteResult(p) \/ UpdateTask(p) \/ Record(p) \/ ReleaseSlot(p)
    BY <1>2, <2>1 DEF BatchNext, ProbeDependency, Register, ReadNumber, Collision,
       AcquireSlot, SlotConflict, MarkTaskRunning, WorkerDone, WorkerFails, WriteResult,
       UpdateTask, Record, ReleaseSlot, db
  <2> QED BY <1>5, <1>6, <1>8, <2>1 DEF Step
<1> QED BY <1>2, <1>7, <1>8 DEF Next

\* An attempt that completed is never touched again, where operators resume
\* and retry nothing and no call raises, for any number of processes that
\* collide on attempt numbers or are killed.
THEOREM CompletedStaysHolds ==
  ASSUME Operators = FALSE, MaxErrors = 0
  PROVE  Spec => CompletedStays
<1> DEFINE Kept == \A t \in Tasks : \A n \in DOMAIN attempts[t] :
                     attempts[t][n] = "completed" => attempts'[t][n] = "completed"
           Calm == NoReady /\ erred = 0
<1>1. Init => Calm
  BY DEF Init, NoReady
<1>2. IInv /\ Calm /\ [Next]_vars => Calm'
  <2>1. ASSUME IInv, erred = 0, [Next]_vars PROVE erred' = 0
    <3>1. \A p \in Procs : ~CallRaises(p)
      BY <2>1 DEF CallRaises
    <3>2. ASSUME NEW p \in Procs, Command(p) \/ Step(p) \/ Crash(p) PROVE UNCHANGED erred
      BY <3>2 DEF Command, Step, StartRun, StartRetry, StartResume, StartBatch,
         BatchNext, Register, ReadNumber, ProbeDependency, CreateReady,
         CreateBlocked, CreateRetry, Collision, AcquireSlot, SlotConflict,
         MarkAttemptRunning, MarkTaskRunning, WorkerDone, WorkerFails, WriteResult,
         UpdateAttempt, UpdateTask, Record, ReleaseSlot, Crash, spent
    <3> QED BY <2>1, <3>1, <3>2 DEF Next, vars, spent
  <2> QED BY <2>1, NoReadyStep DEF IInv
<1>3. IInv /\ ResultInv /\ Calm /\ [Next]_vars => [Kept]_vars
  <2> SUFFICES ASSUME IInv, ResultInv, Calm, Next PROVE Kept
    OBVIOUS
  <2> QED BY AttemptStep DEF ResultInv
<1> QED BY <1>1, <1>2, <1>3, ResultInvariant, PTL DEF Spec, CompletedStays

-----------------------------------------------------------------------------
(* Settled tasks.                                                          *)

\* The process that inserted an attempt, until the row of its task is written.
Writing(p) == pc[p] \in {"admit", "mark_attempt", "mark_task", "work",
                         "write_result", "update_attempt", "update_task"}

\* What a process knows of its attempt, which is its own.
Mine(p) ==
  /\ pc[p] # "create_retry"
  /\ Writing(p) => num[p] \in 1..Len(attempts[task[p]])
  /\ pc[p] \in {"write_result", "update_attempt", "update_task"} => outcome[p] \in Settled
  /\ pc[p] = "update_task" => attempts[task[p]][num[p]] = outcome[p]

OneWriter == \A p, q \in Procs : p # q /\ Writing(p) /\ Writing(q) => Lease(p) # Lease(q)
WriterInv == (\A p \in Procs : Mine(p)) /\ OneWriter

\* A task rests in the state of one of its attempts, or a process that will
\* not collide is going to write its row: the one that inserts a number first
\* does so in the place of those that read it too.
Rests(t) ==
  status[t] \in Settled /\ \E n \in 1..Len(attempts[t]) : attempts[t][n] = status[t]
Owes(p, t) ==
  /\ task[p] = t
  /\ \/ pc[p] = "number" \/ Writing(p)
     \/ pc[p] \in {"probe", "create_blocked"} /\ num[p] = Len(attempts[t]) + 1
Served(t) == status[t] = "absent" \/ Rests(t) \/ \E p \in Procs : Owes(p, t)
QuietInv == WriterInv /\ \A t \in Tasks : Served(t)

\* A step of p: rows are appended by a process that then owes the task, and
\* only the row of the process's own attempt changes.
Advances(p) ==
  /\ Others(p)
  /\ \A t \in Tasks :
       /\ Len(attempts'[t]) \in Nat /\ Len(attempts'[t]) >= Len(attempts[t])
       /\ Len(attempts'[t]) # Len(attempts[t]) => Owes(p, t)'
       /\ \A n \in 1..Len(attempts[t]) :
            attempts'[t][n] = attempts[t][n] \/ (Writing(p) /\ <<t, n>> = Lease(p))

LEMMA WriterStep ==
  ASSUME IInv, IInv', WriterInv, NEW p \in Procs, Advances(p), Mine(p)',
         Writing(p)' => \/ Writing(p) /\ Lease(p)' = Lease(p)
                        \/ /\ task'[p] \in Tasks
                           /\ num'[p] > Len(attempts[task'[p]])
  PROVE  WriterInv'
<1>0. \A t \in Tasks : Len(attempts[t]) \in Nat
  BY Typed DEF IInv
<1>1. ASSUME NEW q \in Procs \ {p}
      PROVE  /\ pc'[q] = pc[q] /\ task'[q] = task[q] /\ num'[q] = num[q]
             /\ outcome'[q] = outcome[q] /\ Lease(q)' = Lease(q)
             /\ Writing(q)' <=> Writing(q)
  BY DEF Advances, Others, Writing, Lease
<1>2. ASSUME NEW q \in Procs \ {p}, Writing(q)
      PROVE  task[q] \in Tasks /\ num[q] \in 1..Len(attempts[task[q]])
  BY <1>2 DEF WriterInv, Mine, Writing, IInv, PhaseInv, Phase
<1>3. ASSUME NEW q \in Procs \ {p} PROVE Mine(q)'
  <2>1. Mine(q)
    BY DEF WriterInv
  <2>2. ASSUME Writing(q) PROVE num[q] \in 1..Len(attempts'[task[q]])
    BY <1>0, <1>2, <2>2 DEF Advances
  <2>3. ASSUME pc[q] = "update_task" PROVE attempts'[task[q]][num[q]] = outcome[q]
    <3>1. Writing(q)
      BY <2>3 DEF Writing
    <3>2. Writing(p) => <<task[q], num[q]>> # Lease(p)
      BY <3>1 DEF WriterInv, OneWriter, Lease
    <3> QED BY <1>2, <2>1, <2>3, <3>1, <3>2 DEF Advances, Mine
  <2> QED BY <1>1, <2>1, <2>2, <2>3 DEF Mine
<1>4. ASSUME NEW q \in Procs \ {p}, Writing(q), Writing(p)' PROVE Lease(q) # Lease(p)'
  <2>1. CASE Writing(p) /\ Lease(p)' = Lease(p)
    BY <1>4, <2>1 DEF WriterInv, OneWriter
  <2>2. CASE task'[p] \in Tasks /\ num'[p] > Len(attempts[task'[p]])
    <3>1. Len(attempts[task'[p]]) \in Nat /\ num'[p] \in Nat
      BY <1>0, <2>2 DEF IInv, TypeOK
    <3>2. task[q] = task'[p] => num[q] # num'[p]
      BY <1>2, <1>4, <2>2, <3>1
    <3> QED BY <3>2 DEF Lease
  <2> QED BY <1>4, <2>1, <2>2
<1>5. OneWriter'
  <2> SUFFICES ASSUME NEW q \in Procs, NEW r \in Procs, q # r, Writing(q)', Writing(r)'
               PROVE  Lease(q)' # Lease(r)'
    BY DEF OneWriter
  <2>1. CASE q = p
    BY <1>1, <1>4, <2>1
  <2>2. CASE r = p
    BY <1>1, <1>4, <2>2
  <2>3. CASE q # p /\ r # p
    BY <1>1, <2>3 DEF WriterInv, OneWriter
  <2> QED BY <2>1, <2>2, <2>3
<1> QED BY <1>3, <1>5 DEF WriterInv

LEMMA ServedStep ==
  ASSUME IInv, QuietInv, NEW p \in Procs, Advances(p),
         \A t \in Tasks : \/ status'[t] = status[t]
                          \/ Owes(p, t)' \/ Rests(t)',
         \A t \in Tasks : Owes(p, t) => Owes(p, t)' \/ Rests(t)'
  PROVE  \A t \in Tasks : Served(t)'
<1> SUFFICES ASSUME NEW t \in Tasks, status'[t] = status[t], ~Owes(p, t)', ~Rests(t)'
             PROVE  Served(t)'
  BY DEF Served
<1>0. Len(attempts[t]) \in Nat /\ Len(attempts'[t]) = Len(attempts[t]) /\ ~Owes(p, t)
  BY Typed DEF IInv, Advances
<1>1. CASE status[t] = "absent"
  BY <1>1 DEF Served
<1>2. CASE Rests(t)
  <2>1. PICK n \in 1..Len(attempts[t]) : attempts[t][n] = status[t]
    BY <1>2 DEF Rests
  <2>2. attempts'[t][n] = attempts[t][n]
    BY <1>0, <2>1 DEF Advances, Owes, Lease
  <2> QED BY <1>0, <1>2, <2>1, <2>2 DEF Rests
<1>3. ASSUME NEW q \in Procs, Owes(q, t) PROVE Owes(q, t)'
  <2>1. q # p
    BY <1>0, <1>3
  <2>2. pc'[q] = pc[q] /\ task'[q] = task[q] /\ num'[q] = num[q]
    BY <2>1 DEF Advances, Others
  <2> QED BY <1>0, <1>3, <2>2 DEF Owes, Writing
<1> QED BY <1>1, <1>2, <1>3 DEF QuietInv, Served

LEMMA QuietStep ==
  ASSUME IInv, IInv', QuietInv, NEW p \in Procs, Advances(p), Mine(p)',
         Writing(p)' => \/ Writing(p) /\ Lease(p)' = Lease(p)
                        \/ /\ task'[p] \in Tasks
                           /\ num'[p] > Len(attempts[task'[p]]),
         \A t \in Tasks : \/ status'[t] = status[t]
                          \/ Owes(p, t)' \/ Rests(t)',
         \A t \in Tasks : Owes(p, t) => Owes(p, t)' \/ Rests(t)'
  PROVE  QuietInv'
BY WriterStep, ServedStep DEF QuietInv

\* A process that owes nothing, before it has read a number and at its end.
Silent(p) ==
  /\ Others(p) /\ UNCHANGED <<attempts, status>>
  /\ pc'[p] \in {"idle", "register"}
  /\ pc[p] \notin {"number"} /\ ~Writing(p)
  /\ pc[p] \in {"probe", "create_blocked"} => num[p] \in DOMAIN attempts[task[p]]

LEMMA SilentStep ==
  ASSUME IInv, IInv', QuietInv, NEW p \in Procs, Silent(p) PROVE QuietInv'
<1>0. \A t \in Tasks : Len(attempts[t]) \in Nat /\ DOMAIN attempts[t] = 1..Len(attempts[t])
  BY Typed DEF IInv
<1>1. Advances(p)
  BY <1>0 DEF Silent, Advances
<1>2. Mine(p)' /\ ~Writing(p)'
  BY DEF Silent, Mine, Writing
<1>3. \A t \in Tasks : ~Owes(p, t)
  BY <1>0 DEF Silent, Owes
<1> QED BY <1>1, <1>2, <1>3, QuietStep DEF Silent

\* A process that registers its task, reads a number and its dependencies.
Reads(p) ==
  /\ Others(p) /\ UNCHANGED <<attempts, task>> /\ task[p] \in Tasks
  /\ \A t \in Tasks : t # task[p] => status'[t] = status[t]
  /\ ~Writing(p)
  /\ \/ pc'[p] = "number"
     \/ /\ pc'[p] \in {"probe", "create_blocked"} /\ UNCHANGED status
        /\ \/ num'[p] = Len(attempts[task[p]]) + 1
           \/ pc[p] = "probe" /\ num'[p] = num[p]

LEMMA ReadsStep ==
  ASSUME IInv, IInv', QuietInv, NEW p \in Procs, Reads(p) PROVE QuietInv'
<1>0. \A t \in Tasks : Len(attempts[t]) \in Nat
  BY Typed DEF IInv
<1>1. Advances(p)
  BY <1>0 DEF Reads, Advances
<1>2. Mine(p)' /\ ~Writing(p)'
  BY DEF Reads, Mine, Writing
<1>3. \A t \in Tasks : status'[t] = status[t] \/ Owes(p, t)'
  BY DEF Reads, Owes
<1>4. \A t \in Tasks : Owes(p, t) => Owes(p, t)'
  BY DEF Reads, Owes, Writing
<1> QED BY <1>1, <1>2, <1>3, <1>4, QuietStep

\* A process that goes on with its attempt.
WritesOn(p) ==
  /\ Others(p) /\ UNCHANGED <<task, num>> /\ Writing(p) /\ Writing(p)'
  /\ \A t \in Tasks : t # task[p] => status'[t] = status[t]
  /\ pc'[p] \in {"write_result", "update_attempt", "update_task"} => outcome'[p] \in Settled
  /\ \/ UNCHANGED attempts /\ pc'[p] # "update_task"
     \/ \E e \in States : /\ attempts' = [attempts EXCEPT ![task[p]][num[p]] = e]
                          /\ pc'[p] = "update_task" => e = outcome'[p]

LEMMA WritesOnStep ==
  ASSUME IInv, IInv', QuietInv, NEW p \in Procs, WritesOn(p) PROVE QuietInv'
<1>0. /\ attempts \in [Tasks -> Seq(States)]
      /\ \A t \in Tasks : /\ attempts[t] \in Seq(States) /\ Len(attempts[t]) \in Nat
                          /\ DOMAIN attempts[t] = 1..Len(attempts[t])
  BY Typed DEF IInv, TypeOK
<1>1. task[p] \in Tasks /\ num[p] \in 1..Len(attempts[task[p]])
  BY DEF WritesOn, QuietInv, WriterInv, Mine, Writing, IInv, PhaseInv, Phase
<1>2. /\ \A t \in Tasks : Len(attempts'[t]) = Len(attempts[t])
      /\ \A t \in Tasks : \A n \in 1..Len(attempts[t]) :
           attempts'[t][n] = attempts[t][n] \/ <<t, n>> = Lease(p)
      /\ pc'[p] = "update_task" => attempts'[task[p]][num[p]] = outcome'[p]
  <2>1. CASE UNCHANGED attempts /\ pc'[p] # "update_task"
    BY <2>1
  <2>2. ASSUME NEW e \in States, attempts' = [attempts EXCEPT ![task[p]][num[p]] = e],
               pc'[p] = "update_task" => e = outcome'[p]
        PROVE  <1>2!1 /\ <1>2!2 /\ <1>2!3
    <3>1. \A t \in Tasks : attempts'[t] = IF t = task[p] THEN [attempts[t] EXCEPT ![num[p]] = e]
                                          ELSE attempts[t]
      BY <1>0, <1>1, <2>2
    <3>2. /\ Len([attempts[task[p]] EXCEPT ![num[p]] = e]) = Len(attempts[task[p]])
          /\ [attempts[task[p]] EXCEPT ![num[p]] = e][num[p]] = e
          /\ \A j \in 1..Len(attempts[task[p]]) : j # num[p] =>
               [attempts[task[p]] EXCEPT ![num[p]] = e][j] = attempts[task[p]][j]
      BY <1>0, <1>1, SeqPut
    <3> QED BY <1>1, <2>2, <3>1, <3>2 DEF Lease
  <2> QED BY <2>1, <2>2 DEF WritesOn
<1>3. Advances(p)
  BY <1>0, <1>2 DEF WritesOn, Advances
<1>4. Mine(p)'
  BY <1>1, <1>2 DEF WritesOn, Mine, Writing
<1>5. Lease(p)' = Lease(p) /\ Writing(p)
  BY DEF WritesOn, Lease
<1>6. \A t \in Tasks : /\ status'[t] = status[t] \/ Owes(p, t)'
                       /\ Owes(p, t) => Owes(p, t)'
  BY DEF WritesOn, Owes
<1> QED BY <1>3, <1>4, <1>5, <1>6, QuietStep

\* A process that inserts an attempt.
Inserts(p) ==
  /\ Others(p) /\ UNCHANGED <<status, task, num>>
  /\ pc[p] \in {"probe", "create_blocked"} /\ pc'[p] \in {"admit", "write_result"}
  /\ pc'[p] = "write_result" => outcome'[p] \in Settled
  /\ \E s \in States : InsertAttempt(p, s)

LEMMA InsertsStep ==
  ASSUME IInv, IInv', QuietInv, NEW p \in Procs, Inserts(p) PROVE QuietInv'
<1>. USE DEF Inserts
<1>s. PICK s \in States : InsertAttempt(p, s)
  OBVIOUS
<1>0. /\ attempts \in [Tasks -> Seq(States)] /\ task[p] \in Tasks
      /\ num[p] \in 1..(Len(attempts[task[p]]) + 1)
      /\ \A t \in Tasks : /\ attempts[t] \in Seq(States) /\ Len(attempts[t]) \in Nat
                          /\ DOMAIN attempts[t] = 1..Len(attempts[t])
  BY Typed DEF IInv, TypeOK, PhaseInv, Phase, OwnerInv, Numbering
<1>1. num[p] = Len(attempts[task[p]]) + 1
  BY <1>s, <1>0 DEF InsertAttempt, Collides
<1>2. \A t \in Tasks : attempts'[t] = IF t = task[p] THEN Append(attempts[t], s) ELSE attempts[t]
  BY <1>s, <1>0 DEF InsertAttempt
<1>3. /\ Len(Append(attempts[task[p]], s)) = Len(attempts[task[p]]) + 1
      /\ \A j \in 1..Len(attempts[task[p]]) : Append(attempts[task[p]], s)[j] = attempts[task[p]][j]
  BY <1>0, SeqAdd
<1>4. Writing(p)' /\ \A t \in Tasks : t = task[p] => Owes(p, t)'
  BY DEF Writing, Owes
<1>5. Advances(p)
  <2>1. ASSUME NEW t \in Tasks
        PROVE  /\ Len(attempts'[t]) \in Nat /\ Len(attempts'[t]) >= Len(attempts[t])
               /\ t # task[p] => Len(attempts'[t]) = Len(attempts[t])
               /\ \A n \in 1..Len(attempts[t]) : attempts'[t][n] = attempts[t][n]
    <3>1. CASE t = task[p]
      <4>1. attempts'[t] = Append(attempts[t], s) /\ Len(attempts[t]) \in Nat
        BY <1>0, <1>2, <3>1
      <4>2. /\ Len(Append(attempts[t], s)) = Len(attempts[t]) + 1
            /\ \A n \in 1..Len(attempts[t]) : Append(attempts[t], s)[n] = attempts[t][n]
        BY <1>3, <3>1
      <4>3. /\ Len(attempts'[t]) = Len(attempts[t]) + 1
            /\ \A n \in 1..Len(attempts[t]) : attempts'[t][n] = attempts[t][n]
        BY <4>1, <4>2, Zenon
      <4> QED BY <3>1, <4>1, <4>3
    <3>2. CASE t # task[p]
      BY <1>0, <1>2, <3>2
    <3> QED BY <3>1, <3>2
  <2> QED BY <1>4, <2>1 DEF Advances
<1>6. Mine(p)'
  BY <1>0, <1>1, <1>2, <1>3 DEF Mine
<1>7. \A t \in Tasks : Owes(p, t) => Owes(p, t)'
  BY <1>4 DEF Owes
<1>8. task'[p] \in Tasks /\ num'[p] > Len(attempts[task'[p]])
  BY <1>0, <1>1
<1>9. \A t \in Tasks : status'[t] = status[t] \/ Owes(p, t)' \/ Rests(t)'
  OBVIOUS
<1>10. \A t \in Tasks : Owes(p, t) => Owes(p, t)' \/ Rests(t)'
  BY <1>7
<1>11. Writing(p)' => \/ Writing(p) /\ Lease(p)' = Lease(p)
                      \/ task'[p] \in Tasks /\ num'[p] > Len(attempts[task'[p]])
  BY <1>8
<1> HIDE DEF Inserts
<1> QED BY <1>5, <1>6, <1>9, <1>10, <1>11, QuietStep

LEMMA UpdateTaskRests ==
  ASSUME IInv, IInv', QuietInv, NEW p \in Procs, UpdateTask(p) PROVE QuietInv'
<1>0. /\ status \in [Tasks -> States \cup {"absent"}] /\ task[p] \in Tasks
      /\ pc \in [Procs -> Labels] /\ pc[p] = "update_task" /\ pc'[p] = "record"
      /\ \A t \in Tasks : Len(attempts[t]) \in Nat
  BY Typed DEF UpdateTask, At, Goto, IInv, TypeOK, PhaseInv, Phase
<1>1. /\ num[p] \in 1..Len(attempts[task[p]]) /\ outcome[p] \in Settled
      /\ attempts[task[p]][num[p]] = outcome[p]
  BY <1>0 DEF QuietInv, WriterInv, Mine, Writing
<1>2. Others(p) /\ UNCHANGED <<attempts, task, num, outcome>>
  BY <1>0 DEF UpdateTask, Goto, Others, locals
<1>3. \A t \in Tasks : t = task[p] => Rests(t)'
  BY <1>0, <1>1, <1>2 DEF UpdateTask, Rests
<1>4. Advances(p)
  BY <1>0, <1>2 DEF Advances
<1>5. Mine(p)' /\ ~Writing(p)'
  BY <1>0 DEF Mine, Writing
<1>6. \A t \in Tasks : /\ status'[t] = status[t] \/ Rests(t)'
                       /\ Owes(p, t) => Rests(t)'
  BY <1>0, <1>3 DEF UpdateTask, Owes
<1> QED BY <1>4, <1>5, <1>6, QuietStep

LEMMA QuietInvStep ==
  ASSUME Operators = FALSE, MaxCrashes = 0, MaxErrors = 0,
         IInv, IInv', crashed = 0, erred = 0, QuietInv, [Next]_vars
  PROVE  QuietInv'
<1>. USE DEF Goto, At
<1>0. /\ pc \in [Procs -> Labels] /\ task \in [Procs -> Tasks \cup {NoTask}]
      /\ num \in [Procs -> Nat] /\ handler \in [Procs -> {"none", "try", "except"}]
      /\ outcome \in [Procs -> States \cup {"none"}] /\ unread \in [Procs -> SUBSET Tasks]
      /\ status \in [Tasks -> States \cup {"absent"}]
      /\ \A q \in Procs : pc[q] # "idle" => task[q] \in Tasks
      /\ \A q \in Procs : pc[q] # "create_retry"
  BY DEF IInv, PhaseInv, Phase, TypeOK, QuietInv, WriterInv, Mine
<1>1. ASSUME NEW p \in Procs, Command(p) PROVE QuietInv'
  <2>1. (\E t \in Tasks : StartRun(p, t)) \/ StartBatch(p)
    BY <1>1 DEF Command, StartRetry, StartResume
  <2>2. Silent(p)
    BY <1>0, <2>1 DEF StartRun, StartBatch, Silent, Others, Writing, db
  <2> QED BY <2>2, SilentStep
<1>2. ASSUME NEW p \in Procs, (\E t \in Tasks : BatchNext(p, t)) \/ Collision(p)
      PROVE  QuietInv'
  <2>1. Silent(p)
    BY <1>0, <1>2 DEF BatchNext, Collision, Collides, Leave, Silent, Others, Writing, db
  <2> QED BY <2>1, SilentStep
<1>3. ASSUME NEW p \in Procs, Record(p) \/ ReleaseSlot(p) PROVE QuietInv'
  <2>1. CASE pc'[p] = "idle"
    <3>1. Silent(p)
      BY <1>0, <1>3, <2>1 DEF Record, ReleaseSlot, Leave, Silent, Others, Writing, locals, db
    <3> QED BY <3>1, SilentStep
  <2>2. CASE pc'[p] # "idle"
    <3>1. /\ Others(p) /\ UNCHANGED <<attempts, status>> /\ pc'[p] = "release"
          /\ pc[p] = "record"
      BY <1>0, <1>3, <2>2 DEF Record, ReleaseSlot, Leave, Others, locals, db
    <3>2. Advances(p)
      BY <3>1, Typed DEF Advances, IInv
    <3>3. Mine(p)' /\ ~Writing(p)' /\ \A t \in Tasks : ~Owes(p, t)
      BY <3>1 DEF Mine, Writing, Owes
    <3> QED BY <3>1, <3>2, <3>3, QuietStep
  <2> QED BY <2>1, <2>2
<1>4. ASSUME NEW p \in Procs, Register(p) \/ ReadNumber(p) PROVE QuietInv'
  <2>1. Reads(p)
    BY <1>0, <1>4 DEF Register, ReadNumber, Reads, Others, Writing, locals, db
  <2> QED BY <2>1, ReadsStep
<1>5. ASSUME NEW p \in Procs, NEW d \in Tasks, ProbeDependency(p, d) PROVE QuietInv'
  <2>1. Others(p) /\ UNCHANGED <<attempts, status, task, num>> /\ pc[p] = "probe"
        /\ pc'[p] \in {"probe", "create_blocked"}
    BY <1>0, <1>5 DEF ProbeDependency, Others, db
  <2>2. Reads(p)
    BY <1>0, <2>1 DEF Reads, Writing
  <2> QED BY <2>2, ReadsStep
<1>6. ASSUME NEW p \in Procs, CreateReady(p) \/ CreateBlocked(p) PROVE QuietInv'
  <2>1. PICK s \in States : InsertAttempt(p, s)
    BY <1>6 DEF CreateReady, CreateBlocked, DependencyBlockedState, States, Blocked
  <2>2. /\ Others(p) /\ UNCHANGED <<status, task, num>>
        /\ pc[p] \in {"probe", "create_blocked"} /\ pc'[p] \in {"admit", "write_result"}
    BY <1>0, <1>6 DEF CreateReady, CreateBlocked, Others
  <2>3. pc'[p] = "write_result" => outcome'[p] \in Settled
    BY <1>0, <1>6 DEF CreateReady, CreateBlocked, PolicyBlockedState, DependencyBlockedState,
       Settled, Blocked
  <2>4. Inserts(p)
    BY <2>1, <2>2, <2>3 DEF Inserts
  <2> QED BY <2>4, InsertsStep
<1>7. ASSUME NEW p \in Procs,
             \/ AcquireSlot(p) \/ SlotConflict(p) \/ MarkAttemptRunning(p)
             \/ MarkTaskRunning(p) \/ WorkerDone(p) \/ WorkerFails(p)
             \/ WriteResult(p) \/ UpdateAttempt(p)
      PROVE  QuietInv'
  <2>0. /\ Mine(p) /\ SlotPausedState \in Settled /\ FailureState \in Settled
        /\ "running" \in States /\ Settled \subseteq States
        /\ \A policy, surface, gateFailed : FinalState(policy, surface, gateFailed) \in Settled
    BY DEF QuietInv, WriterInv, SlotPausedState, FailureState, FinalState, Settled, Finals,
       Blocked, States
  <2>1. /\ Others(p) /\ UNCHANGED <<task, num>> /\ Writing(p) /\ Writing(p)'
        /\ \A t \in Tasks : t # task[p] => status'[t] = status[t]
    BY <1>0, <1>7 DEF AcquireSlot, SlotConflict, MarkAttemptRunning, MarkTaskRunning,
       WorkerDone, WorkerFails, EnterExcept, WriteResult, UpdateAttempt, Others, Writing,
       locals, db
  <2>2. pc'[p] \in {"write_result", "update_attempt", "update_task"} => outcome'[p] \in Settled
    BY <1>0, <1>7, <2>0 DEF AcquireSlot, SlotConflict, MarkAttemptRunning, MarkTaskRunning,
       WorkerDone, WorkerFails, EnterExcept, WriteResult, UpdateAttempt, Mine, locals
  <2>3. CASE MarkAttemptRunning(p)
    BY <1>0, <2>0, <2>1, <2>2, <2>3, WritesOnStep DEF MarkAttemptRunning, WritesOn
  <2>4. CASE UpdateAttempt(p)
    <3>1. outcome[p] \in States /\ UNCHANGED outcome
      BY <1>0, <2>0, <2>4 DEF UpdateAttempt, Mine, locals
    <3> QED BY <2>1, <2>2, <2>4, <3>1, WritesOnStep DEF UpdateAttempt, WritesOn
  <2>5. CASE ~MarkAttemptRunning(p) /\ ~UpdateAttempt(p)
    <3>1. UNCHANGED attempts /\ pc'[p] # "update_task"
      BY <1>0, <1>7, <2>5 DEF AcquireSlot, SlotConflict, MarkTaskRunning,
         WorkerDone, WorkerFails, EnterExcept, WriteResult, db
    <3> QED BY <2>1, <2>2, <3>1, WritesOnStep DEF WritesOn
  <2> QED BY <2>3, <2>4, <2>5
<1>8. ASSUME NEW p \in Procs, Step(p) PROVE QuietInv'
  BY <1>0, <1>2, <1>3, <1>4, <1>5, <1>6, <1>7, <1>8, UpdateTaskRests DEF Step, CreateRetry
<1>9. \A p \in Procs : ~Crash(p) /\ ~CallRaises(p)
  BY DEF Crash, CallRaises
<1>10. CASE UNCHANGED vars
  <2>1. /\ UNCHANGED <<attempts, status, pc, task, num, outcome>>
    BY <1>10 DEF vars, db, locals
  <2> QED BY <2>1 DEF QuietInv, WriterInv, Mine, OneWriter, Writing, Lease, Served, Rests, Owes
<1> QED BY <1>1, <1>8, <1>9, <1>10 DEF Next

\* When no process runs, every task that was ever registered is in the final or
\* blocked state of one of its attempts, for any number of processes that
\* collided on attempt numbers, where operators resume and retry nothing, no
\* process is killed and no call raises.
THEOREM QuietTasksSettledHolds ==
  ASSUME Operators = FALSE, MaxCrashes = 0, MaxErrors = 0
  PROVE  Spec => []QuietTasksSettled
<1> DEFINE Inv == crashed = 0 /\ erred = 0 /\ QuietInv
<1>1. Init => Inv
  BY DEF Init, QuietInv, WriterInv, Mine, OneWriter, Writing, Served
<1>2. IInv /\ IInv' /\ Inv /\ [Next]_vars => Inv'
  <2> SUFFICES ASSUME IInv, IInv', Inv, [Next]_vars PROVE Inv'
    OBVIOUS
  <2>1. \A p \in Procs : ~Crash(p) /\ ~CallRaises(p)
    BY DEF Crash, CallRaises
  <2>2. ASSUME NEW p \in Procs, Command(p) \/ Step(p) PROVE UNCHANGED <<crashed, erred>>
    BY <2>2 DEF Command, Step, StartRun, StartRetry, StartResume, StartBatch,
       BatchNext, Register, ReadNumber, ProbeDependency, CreateReady,
       CreateBlocked, CreateRetry, Collision, AcquireSlot, SlotConflict,
       MarkAttemptRunning, MarkTaskRunning, WorkerDone, WorkerFails, WriteResult,
       UpdateAttempt, UpdateTask, Record, ReleaseSlot, spent
  <2>3. crashed' = 0 /\ erred' = 0
    BY <2>1, <2>2 DEF Next, vars, spent
  <2> QED BY <2>3, QuietInvStep
<1>3. IInv /\ Inv => QuietTasksSettled
  <2> SUFFICES ASSUME IInv, Inv, Quiet, NEW t \in Tasks, status[t] # "absent"
               PROVE  /\ status[t] \in Settled
                      /\ \E n \in DOMAIN attempts[t] : attempts[t][n] = status[t]
    BY DEF QuietTasksSettled, Settled
  <2>1. \A p \in Procs : ~Owes(p, t)
    BY DEF Quiet, At, Owes, Writing
  <2> QED BY <2>1, Typed DEF QuietInv, Served, Rests, IInv
<1> QED BY <1>1, <1>2, <1>3, IInvHolds, PTL DEF Spec
=============================================================================
