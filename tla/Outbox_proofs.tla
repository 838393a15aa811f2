---------------------------- MODULE Outbox_proofs ----------------------------
(***************************************************************************)
(* Proofs about Outbox for every number of rows and workers, every policy  *)
(* and every layout of sources and keys.                                   *)
(***************************************************************************)
EXTENDS Outbox, FiniteSetTheorems, TLAPS

\* Sets of rows are finite, so the counts in the claim statement are numbers.
LEMMA CountIsNat == \A S \in SUBSET Rows : Cardinality(S) \in Nat
<1>1. NumRows \in Int BY ConstantsOK DEF ConstantsOK
<1>2. IsFiniteSet(Rows) BY <1>1, FS_Interval DEF Rows
<1>. QED BY <1>2, FS_Subset, FS_CardinalityType

\* Every variable keeps a value of its type: the model of the claim, publish,
\* mark and maintenance handlers never leaves the columns of keiro_outbox.
THEOREM TypeCorrect == Spec => []TypeOK
<1>. USE DEF Statuses, Claimable, Terminal, Outcomes, Phases, Nobody
<1>1. Init => TypeOK
  BY ConstantsOK DEF ConstantsOK, Init, TypeOK
<1>2. TypeOK /\ [Next]_vars => TypeOK'
  <2>. SUFFICES ASSUME TypeOK, [Next]_vars PROVE TypeOK'
    OBVIOUS
  <2>. USE DEF TypeOK, table, worker, broker
  <2>1. ASSUME NEW r \in Rows, Enqueue(r) PROVE TypeOK'
    BY <2>1 DEF Enqueue
  <2>2. ASSUME NEW r \in Rows, BackoffElapses(r) PROVE TypeOK'
    BY <2>2 DEF BackoffElapses
  <2>3. ASSUME NEW r \in Rows, CollectSent(r) PROVE TypeOK'
    BY <2>3 DEF CollectSent
  <2>4. ASSUME NEW w \in Workers, ClaimSnapshot(w) PROVE TypeOK'
    BY <2>4 DEF ClaimSnapshot
  <2>5. ASSUME NEW w \in Workers, ClaimLock(w) PROVE TypeOK'
    <3>1. FirstOf({r \in cand[w] : Due(r) /\ ~LockedByOther(w, r)}, BatchSize) \in SUBSET Rows
      BY DEF FirstOf
    <3>. QED BY <2>5, <3>1 DEF ClaimLock
  <2>6. ASSUME NEW w \in Workers, ClaimCommit(w) PROVE TypeOK'
    <3>. DEFINE ready == {r \in batch[w] : PostFilter(w, r)}
    <3>1. ready \in SUBSET Rows
      OBVIOUS
    <3>2. Cardinality(InFlight) \in Nat
      BY CountIsNat DEF InFlight
    <3>3. \A r \in Rows : ClaimRank(r) \in Nat
      BY CountIsNat DEF ClaimRank, InFlight
    <3>4. claimedAt' \in [Rows -> Nat]
      BY <2>6, <3>2, <3>3 DEF ClaimCommit
    <3>5. status' \in [Rows -> Statuses] /\ attempts' \in [Rows -> Nat]
          /\ holder' \in [Rows -> Workers \cup {Nobody}]
      BY <2>6 DEF ClaimCommit
    <3>6. pc' \in [Workers -> Phases] /\ batch' \in [Workers -> SUBSET Rows]
          /\ cand' \in [Workers -> SUBSET Rows] /\ open' \in [Workers -> SUBSET Rows]
      BY <2>6, <3>1 DEF ClaimCommit
    <3>. QED BY <2>6, <3>4, <3>5, <3>6 DEF ClaimCommit
  <2>7. ASSUME NEW w \in Workers, PublishBatch(w) PROVE TypeOK'
    <3>1. PICK o \in [batch[w] -> Outcomes] : Answer(w, o, batch[w])
      BY <2>7 DEF PublishBatch
    <3>. QED BY <2>7, <3>1 DEF PublishBatch, Answer
  <2>8. ASSUME NEW w \in Workers, PublishNext(w) PROVE TypeOK'
    <3>. DEFINE left == {r \in batch[w] : outcome[w][r] = "none"}
    <3>1. PICK r \in FirstOf(left, 1) : \E o \in [{r} -> Outcomes] :
            /\ Answer(w, o, {r})
            /\ pc' = [pc EXCEPT ![w] =
                 IF o[r] = "failed" \/ left = {r} THEN "marking" ELSE "publishing"]
      BY <2>8 DEF PublishNext
    <3>2. r \in Rows
      BY <3>1 DEF FirstOf
    <3>3. PICK o \in [{r} -> Outcomes] :
            /\ Answer(w, o, {r})
            /\ pc' = [pc EXCEPT ![w] =
                 IF o[r] = "failed" \/ left = {r} THEN "marking" ELSE "publishing"]
      BY <3>1
    <3>. QED BY <2>8, <3>2, <3>3 DEF PublishNext, Answer
  <2>9. ASSUME NEW w \in Workers, Mark(w) PROVE TypeOK'
    <3>1. \A r \in Rows : MarkedStatus(w, r) \in Statuses
      BY DEF MarkedStatus
    <3>2. \A r \in Rows : MarkedAttempts(w, r) \in Nat
      BY DEF MarkedAttempts
    <3>3. status' \in [Rows -> Statuses] /\ attempts' \in [Rows -> Nat]
      BY <2>9, <3>1, <3>2 DEF Mark
    <3>4. due' \in [Rows -> BOOLEAN]
      BY <2>9 DEF Mark
    <3>5. holder' \in [Rows -> Workers \cup {Nobody}] /\ claimedAt' \in [Rows -> Nat]
      BY <2>9 DEF Mark
    <3>6. faults' \in [Rows -> Nat]
      BY <2>9 DEF Mark
    <3>7. pc' \in [Workers -> Phases] /\ batch' \in [Workers -> SUBSET Rows]
          /\ outcome' \in [Workers -> [Rows -> Outcomes \cup {"none"}]]
      BY <2>9 DEF Mark
    <3>8. UNCHANGED <<cand, open, acked, refused, crashes>>
      BY <2>9 DEF Mark
    <3>. QED BY <3>3, <3>4, <3>5, <3>6, <3>7, <3>8
  <2>10. ASSUME NEW w \in Workers, Crash(w) PROVE TypeOK'
    BY <2>10, ConstantsOK DEF Crash, ConstantsOK
  <2>11. ASSUME RequeueStuck PROVE TypeOK'
    BY <2>11 DEF RequeueStuck
  <2>12. CASE UNCHANGED vars
    BY <2>12 DEF vars
  <2>. QED
    BY <2>1, <2>2, <2>3, <2>4, <2>5, <2>6, <2>7, <2>8, <2>9, <2>10, <2>11, <2>12
       DEF Next, WorkerStep
<1>. QED BY <1>1, <1>2, PTL DEF Spec

-----------------------------------------------------------------------------
(* Row locks *)

\* The claim statement changes no row that another statement has changed since
\* it was locked: FOR UPDATE keeps the rows of an open claim as they are.
THEOREM LocksHold == Spec => []LockInv
<1>1. Init => LockInv
  BY DEF Init, LockInv
<1>2. TypeOK /\ LockInv /\ [Next]_vars => LockInv'
  <2>. SUFFICES ASSUME TypeOK, LockInv, [Next]_vars PROVE LockInv'
    OBVIOUS
  <2>. USE DEF TypeOK, LockInv, table, worker, broker, Claimable
  <2>1. ASSUME NEW r \in Rows, Enqueue(r) PROVE LockInv'
    BY <2>1 DEF Enqueue
  <2>2. ASSUME NEW r \in Rows, BackoffElapses(r) PROVE LockInv'
    BY <2>2 DEF BackoffElapses
  <2>3. ASSUME NEW r \in Rows, CollectSent(r) PROVE LockInv'
    BY <2>3 DEF CollectSent
  <2>4. ASSUME NEW w \in Workers, ClaimSnapshot(w) PROVE LockInv'
    BY <2>4 DEF ClaimSnapshot
  <2>5. ASSUME NEW w \in Workers, ClaimLock(w) PROVE LockInv'
    BY <2>5 DEF ClaimLock, FirstOf, Due, LockedByOther
  <2>6. ASSUME NEW w \in Workers, ClaimCommit(w) PROVE LockInv'
    <3>1. pc'[w] # "claiming" /\ \A v \in Workers \ {w} : pc'[v] = pc[v] /\ batch'[v] = batch[v]
      BY <2>6 DEF ClaimCommit
    <3>2. \A r \in Rows : r \notin batch[w] => status'[r] = status[r]
      BY <2>6 DEF ClaimCommit
    <3>. QED BY <2>6, <3>1, <3>2 DEF ClaimCommit
  <2>7. ASSUME NEW w \in Workers, PublishBatch(w) PROVE LockInv'
    BY <2>7 DEF PublishBatch
  <2>8. ASSUME NEW w \in Workers, PublishNext(w) PROVE LockInv'
    <3>1. status' = status /\ batch' = batch /\ pc'[w] # "claiming"
          /\ \A v \in Workers \ {w} : pc'[v] = pc[v]
      BY <2>8 DEF PublishNext
    <3>. QED BY <3>1
  <2>9. ASSUME NEW w \in Workers, Mark(w) PROVE LockInv'
    <3>1. pc'[w] # "claiming" /\ \A v \in Workers \ {w} : pc'[v] = pc[v] /\ batch'[v] = batch[v]
      BY <2>9 DEF Mark
    <3>2. \A r \in Rows : status[r] # "publishing" => status'[r] = status[r]
      BY <2>9 DEF Mark, Markable, InFlight
    <3>. QED BY <3>1, <3>2
  <2>10. ASSUME NEW w \in Workers, Crash(w) PROVE LockInv'
    BY <2>10 DEF Crash
  <2>11. ASSUME RequeueStuck PROVE LockInv'
    <3>1. \A r \in Rows : status[r] # "publishing" => status'[r] = status[r]
      BY <2>11 DEF RequeueStuck, InFlight
    <3>2. pc' = pc /\ batch' = batch
      BY <2>11 DEF RequeueStuck
    <3>. QED BY <3>1, <3>2
  <2>12. CASE UNCHANGED vars
    BY <2>12 DEF vars
  <2>. QED
    BY <2>1, <2>2, <2>3, <2>4, <2>5, <2>6, <2>7, <2>8, <2>9, <2>10, <2>11, <2>12
       DEF Next, WorkerStep
<1>. QED BY <1>1, <1>2, TypeCorrect, PTL DEF Spec

-----------------------------------------------------------------------------
(* Terminal rows *)

\* How a step may change the status of a row.
LEMMA StatusStep ==
  ASSUME TypeOK, LockInv, [Next]_vars, NEW r \in Rows, status'[r] # status[r]
  PROVE  \/ status[r] = "absent" /\ status'[r] = "pending"
         \/ status[r] \in Claimable /\ status'[r] = "publishing"
         \/ status[r] = "publishing" /\ status'[r] \in {"failed", "dead", "rejected", "sent"}
         \/ status[r] = "sent" /\ status'[r] = "deleted"
<1>. USE DEF TypeOK, table, worker, broker
<1>1. ASSUME NEW q \in Rows, Enqueue(q) \/ BackoffElapses(q) \/ CollectSent(q)
      PROVE  \/ status[r] = "absent" /\ status'[r] = "pending"
             \/ status[r] = "sent" /\ status'[r] = "deleted"
  BY <1>1 DEF Enqueue, BackoffElapses, CollectSent
<1>2. ASSUME NEW w \in Workers,
             ClaimSnapshot(w) \/ ClaimLock(w) \/ PublishBatch(w) \/ PublishNext(w) \/ Crash(w)
      PROVE  FALSE
  BY <1>2 DEF ClaimSnapshot, ClaimLock, PublishBatch, PublishNext, Crash
<1>3. ASSUME NEW w \in Workers, ClaimCommit(w)
      PROVE  status[r] \in Claimable /\ status'[r] = "publishing"
  BY <1>3 DEF ClaimCommit, LockInv
<1>4. ASSUME NEW w \in Workers, Mark(w)
      PROVE  status[r] = "publishing" /\ status'[r] \in {"failed", "dead", "rejected", "sent"}
  BY <1>4 DEF Mark, Markable, InFlight, MarkedStatus
<1>5. ASSUME RequeueStuck
      PROVE  status[r] = "publishing" /\ status'[r] \in {"failed", "dead"}
  BY <1>5 DEF RequeueStuck, InFlight
<1>6. CASE UNCHANGED vars
  BY <1>6 DEF vars
<1>. QED BY <1>1, <1>2, <1>3, <1>4, <1>5, <1>6 DEF Next, WorkerStep

\* sent, dead and rejected are final, and only sent rows are deleted: no late
\* mark, requeue or claim, however they interleave, revives a settled row.
THEOREM TerminalStaysFinal == Spec => TerminalIsFinal
<1>1. TypeOK /\ LockInv /\ [Next]_vars =>
        [\A r \in Rows :
           status[r] \in Terminal \cup {"deleted"} /\ status'[r] # status[r] =>
             status[r] = "sent" /\ status'[r] = "deleted"]_vars
  BY StatusStep DEF Terminal, Claimable
<1>. QED BY <1>1, TypeCorrect, LocksHold, PTL DEF Spec, TerminalIsFinal

-----------------------------------------------------------------------------
(* The attempt budget *)

\* However claims, late marks, skips and requeues interleave, a row that may be
\* claimed again has attempts left, and a claim never exceeds the budget.
THEOREM BudgetHolds == Spec => []AttemptBudget
<1>1. Init => BudgetInv
  BY ConstantsOK DEF ConstantsOK, Init, BudgetInv, AttemptBudget, Claimable
<1>2. TypeOK /\ LockInv /\ BudgetInv /\ [Next]_vars => BudgetInv'
  <2>. SUFFICES ASSUME TypeOK, LockInv, BudgetInv, [Next]_vars PROVE BudgetInv'
    OBVIOUS
  <2>. USE ConstantsOK DEF ConstantsOK, TypeOK, BudgetInv, AttemptBudget, table, worker, broker, Claimable
  <2>1. ASSUME NEW r \in Rows, Enqueue(r) PROVE BudgetInv'
    BY <2>1 DEF Enqueue
  <2>2. ASSUME NEW r \in Rows, BackoffElapses(r) \/ CollectSent(r) PROVE BudgetInv'
    BY <2>2 DEF BackoffElapses, CollectSent
  <2>3. ASSUME NEW w \in Workers,
               ClaimSnapshot(w) \/ ClaimLock(w) \/ PublishBatch(w) \/ PublishNext(w) \/ Crash(w)
        PROVE  BudgetInv'
    BY <2>3 DEF ClaimSnapshot, ClaimLock, PublishBatch, PublishNext, Crash
  <2>4. ASSUME NEW w \in Workers, ClaimCommit(w) PROVE BudgetInv'
    BY <2>4 DEF ClaimCommit, LockInv
  <2>5. ASSUME NEW w \in Workers, Mark(w) PROVE BudgetInv'
    BY <2>5 DEF Mark, Markable, InFlight, MarkedStatus, MarkedAttempts
  <2>6. ASSUME RequeueStuck PROVE BudgetInv'
    BY <2>6 DEF RequeueStuck, InFlight
  <2>7. CASE UNCHANGED vars
    BY <2>7 DEF vars
  <2>. QED BY <2>1, <2>2, <2>3, <2>4, <2>5, <2>6, <2>7 DEF Next, WorkerStep
<1>3. BudgetInv => AttemptBudget
  BY DEF BudgetInv
<1>. QED BY <1>1, <1>2, <1>3, TypeCorrect, LocksHold, PTL DEF Spec

-----------------------------------------------------------------------------
(* Marks *)

\* The first row of a set has no row of the set before it.
LEMMA FirstIsLeast ==
  ASSUME NEW S \in SUBSET Rows, NEW r \in FirstOf(S, 1)
  PROVE  r \in S /\ \A q \in S : ~(q < r)
<1>. DEFINE before == {q \in S : q < r}
<1>1. NumRows \in Int BY ConstantsOK DEF ConstantsOK
<1>2. IsFiniteSet(Rows) BY <1>1, FS_Interval DEF Rows
<1>3. IsFiniteSet(before) BY <1>2, FS_Subset
<1>4. r \in S /\ Cardinality(before) < 1 BY DEF FirstOf
<1>5. Cardinality(before) = 0 BY <1>3, <1>4, FS_CardinalityType
<1>6. before = {} BY <1>3, <1>5, FS_EmptySet
<1>. QED BY <1>4, <1>6

\* A row that a worker marks and that no failure precedes has an answer.
LEMMA MarkedHasAnswer ==
  ASSUME PhaseInv, NEW w \in Workers, pc[w] = "marking", NEW r \in batch[w], ~Skipped(w, r)
  PROVE  outcome[w][r] # "none"
<1>. SUFFICES ASSUME outcome[w][r] = "none" PROVE FALSE
  OBVIOUS
<1>1. PICK q \in batch[w] : q < r /\ outcome[w][q] = "failed" /\ Policy = "StopTheLine"
  BY DEF PhaseInv
<1>. QED BY <1>1 DEF Skipped, SameGroup

LEMMA AnswerStep ==
  ASSUME TypeOK, LockInv, AnswerInv, [Next]_vars
  PROVE  AnswerInv'
<1>. USE DEF AnswerInv, TypeOK, table, worker, broker
<1>1. ASSUME NEW r \in Rows, Enqueue(r) \/ BackoffElapses(r) \/ CollectSent(r)
      PROVE  AnswerInv'
  <2>1. MarksAreAnswers'
    BY <1>1 DEF Enqueue, BackoffElapses, CollectSent, MarksAreAnswers
  <2>2. UNCHANGED <<worker, broker>>
    BY <1>1 DEF Enqueue, BackoffElapses, CollectSent
  <2>. QED BY <2>1, <2>2 DEF OutcomeInv, PhaseInv
<1>2. ASSUME NEW w \in Workers, ClaimSnapshot(w) \/ ClaimLock(w) \/ ClaimCommit(w)
      PROVE  AnswerInv'
  <2>1. UNCHANGED <<outcome, broker>>
    BY <1>2 DEF ClaimSnapshot, ClaimLock, ClaimCommit
  <2>2. \A q \in Rows : status'[q] # status[q] => status'[q] = "publishing"
    BY <1>2 DEF ClaimSnapshot, ClaimLock, ClaimCommit
  <2>3. \A v \in Workers : v # w => pc'[v] = pc[v] /\ batch'[v] = batch[v]
    BY <1>2 DEF ClaimSnapshot, ClaimLock, ClaimCommit
  <2>4. pc[w] \in {"idle", "locking", "claiming"} /\ pc'[w] # "marking"
    BY <1>2 DEF ClaimSnapshot, ClaimLock, ClaimCommit
  <2>5. MarksAreAnswers'
    BY <2>1, <2>2 DEF MarksAreAnswers
  <2>6. OutcomeInv' /\ PhaseInv'
    BY <2>1, <2>3, <2>4 DEF OutcomeInv, PhaseInv
  <2>. QED BY <2>5, <2>6
<1>3. ASSUME NEW w \in Workers, PublishBatch(w)
      PROVE  AnswerInv'
  <2>1. PICK o \in [batch[w] -> Outcomes] : Answer(w, o, batch[w])
    BY <1>3 DEF PublishBatch
  <2>2. /\ UNCHANGED <<batch, table>> /\ pc'[w] = "marking"
        /\ \A v \in Workers : v # w => pc'[v] = pc[v]
    BY <1>3 DEF PublishBatch
  <2>3. /\ \A r \in batch[w] : outcome'[w][r] = o[r] /\ o[r] \in Outcomes
        /\ \A r \in Rows \ batch[w] : outcome'[w][r] = outcome[w][r]
        /\ \A v \in Workers : v # w => outcome'[v] = outcome[v]
        /\ acked' = acked \cup {r \in batch[w] : o[r] = "succeeded"}
        /\ refused' = refused \cup {r \in batch[w] : o[r] = "rejected"}
    BY <2>1 DEF Answer
  <2>4. MarksAreAnswers' /\ OutcomeInv'
    BY <2>2, <2>3 DEF MarksAreAnswers, OutcomeInv
  <2>5. \A r \in batch'[w] : outcome'[w][r] # "none"
    BY <2>2, <2>3 DEF Outcomes
  <2>. QED BY <2>2, <2>3, <2>4, <2>5 DEF PhaseInv
<1>4. ASSUME NEW w \in Workers, PublishNext(w)
      PROVE  AnswerInv'
  <2>. DEFINE left == {q \in batch[w] : outcome[w][q] = "none"}
  <2>1. PICK r \in FirstOf(left, 1) : \E o \in [{r} -> Outcomes] :
          /\ Answer(w, o, {r})
          /\ pc' = [pc EXCEPT ![w] =
               IF o[r] = "failed" \/ left = {r} THEN "marking" ELSE "publishing"]
    BY <1>4 DEF PublishNext
  <2>2. PICK o \in [{r} -> Outcomes] :
          /\ Answer(w, o, {r})
          /\ pc' = [pc EXCEPT ![w] =
               IF o[r] = "failed" \/ left = {r} THEN "marking" ELSE "publishing"]
    BY <2>1
  <2>3. r \in left /\ r \in Rows /\ \A q \in left : ~(q < r)
    <3>1. left \in SUBSET Rows
      OBVIOUS
    <3>. QED BY <2>1, <3>1, FirstIsLeast
  <2>4. /\ UNCHANGED <<batch, table>>
        /\ pc[w] = "publishing" /\ Policy = "StopTheLine"
        /\ \A v \in Workers : v # w => pc'[v] = pc[v]
    BY <1>4, <2>2 DEF PublishNext
  <2>5. /\ outcome'[w][r] = o[r] /\ o[r] \in Outcomes
        /\ \A q \in Rows \ {r} : outcome'[w][q] = outcome[w][q]
        /\ \A v \in Workers : v # w => outcome'[v] = outcome[v]
        /\ acked' = IF o[r] = "succeeded" THEN acked \cup {r} ELSE acked
        /\ refused' = IF o[r] = "rejected" THEN refused \cup {r} ELSE refused
    BY <2>2, <2>3 DEF Answer
  <2>6. MarksAreAnswers' /\ OutcomeInv'
    BY <2>4, <2>5 DEF MarksAreAnswers, OutcomeInv
  <2>7. CASE o[r] = "failed"
    <3>1. pc'[w] = "marking"
      BY <2>2, <2>7
    <3>2. \A q \in batch[w] : outcome'[w][q] = "none" => r < q
      <4>. SUFFICES ASSUME NEW q \in batch[w], outcome'[w][q] = "none" PROVE r < q
        OBVIOUS
      <4>1. q \in left /\ q # r
        BY <2>5, <2>7
      <4>2. q \in Int /\ r \in Int
        BY <2>3 DEF Rows
      <4>. QED BY <2>3, <4>1, <4>2
    <3>3. PhaseInv'
      BY <2>3, <2>4, <2>5, <2>7, <3>1, <3>2 DEF PhaseInv
    <3>. QED BY <2>6, <3>3
  <2>8. CASE o[r] # "failed" /\ left = {r}
    <3>1. pc'[w] = "marking"
      BY <2>2, <2>8
    <3>2. \A q \in batch[w] : outcome'[w][q] # "none"
      BY <2>5, <2>8 DEF Outcomes
    <3>3. PhaseInv'
      BY <2>3, <2>4, <2>5, <2>8, <3>1, <3>2 DEF PhaseInv
    <3>. QED BY <2>6, <3>3
  <2>9. CASE o[r] # "failed" /\ left # {r}
    <3>1. pc'[w] = "publishing"
      BY <2>2, <2>9
    <3>2. \A q \in Rows : outcome'[w][q] # "failed"
      <4>1. \A q \in Rows : outcome[w][q] # "failed"
        BY <2>4 DEF PhaseInv
      <4>. QED BY <2>5, <2>9, <4>1
    <3>3. PhaseInv'
      BY <2>4, <2>5, <3>1, <3>2 DEF PhaseInv
    <3>. QED BY <2>6, <3>3
  <2>. QED BY <2>7, <2>8, <2>9
<1>5. ASSUME NEW w \in Workers, Mark(w) \/ Crash(w)
      PROVE  AnswerInv'
  <2>1. /\ pc'[w] = "idle" /\ \A r \in Rows : outcome'[w][r] = "none"
        /\ \A v \in Workers : v # w =>
             pc'[v] = pc[v] /\ batch'[v] = batch[v] /\ outcome'[v] = outcome[v]
    <3>1. /\ pc' = [pc EXCEPT ![w] = "idle"]
          /\ batch' = [batch EXCEPT ![w] = {}]
          /\ outcome' = [outcome EXCEPT ![w] = [r \in Rows |-> "none"]]
      BY <1>5 DEF Mark, Crash
    <3>. QED BY <3>1
  <2>2. UNCHANGED broker
    BY <1>5 DEF Mark, Crash
  <2>3. OutcomeInv'
    BY <2>1, <2>2 DEF OutcomeInv
  <2>4. PhaseInv'
    BY <2>1 DEF PhaseInv
  <2>5. CASE Mark(w)
    <3>1. ASSUME NEW r \in Markable(w)
          PROVE  /\ MarkedStatus(w, r) = "sent" => r \in acked
                 /\ MarkedStatus(w, r) = "rejected" => r \in refused
                 /\ MarkedStatus(w, r) # "deleted"
      <4>1. r \in batch[w] /\ r \in Rows
        BY DEF Markable, InFlight
      <4>2. ~Skipped(w, r) => outcome[w][r] # "none"
        BY <2>5, <4>1, MarkedHasAnswer DEF Mark
      <4>3. outcome[w][r] \in Outcomes \cup {"none"}
        BY <4>1
      <4>. QED BY <4>1, <4>2, <4>3 DEF MarkedStatus, Pivot, OutcomeInv, Outcomes
    <3>2. \A r \in Rows : status'[r] = IF r \in Markable(w) THEN MarkedStatus(w, r) ELSE status[r]
      BY <2>5 DEF Mark
    <3>3. MarksAreAnswers'
      BY <2>2, <3>1, <3>2 DEF MarksAreAnswers
    <3>. QED BY <2>3, <2>4, <3>3
  <2>6. CASE Crash(w)
    <3>1. MarksAreAnswers'
      BY <2>6 DEF Crash, MarksAreAnswers
    <3>. QED BY <2>3, <2>4, <3>1
  <2>. QED BY <1>5, <2>5, <2>6
<1>6. ASSUME RequeueStuck
      PROVE  AnswerInv'
  <2>1. MarksAreAnswers'
    BY <1>6 DEF RequeueStuck, MarksAreAnswers
  <2>2. UNCHANGED <<worker, broker>>
    BY <1>6 DEF RequeueStuck
  <2>. QED BY <2>1, <2>2 DEF OutcomeInv, PhaseInv
<1>7. CASE UNCHANGED vars
  BY <1>7 DEF vars, MarksAreAnswers, OutcomeInv, PhaseInv
<1>. QED BY <1>1, <1>2, <1>3, <1>4, <1>5, <1>6, <1>7 DEF Next, WorkerStep

LEMMA AnswersHold == Spec => []AnswerInv
<1>1. Init => AnswerInv
  BY DEF Init, AnswerInv, MarksAreAnswers, OutcomeInv, PhaseInv
<1>. QED BY <1>1, AnswerStep, TypeCorrect, LocksHold, PTL DEF Spec

\* No interleaving of claims, late marks, crashes and requeues marks a row with an
\* answer that the transport did not give for it.
THEOREM MarksRepeatAnswers == Spec => []MarksAreAnswers
<1>1. AnswerInv => MarksAreAnswers
  BY DEF AnswerInv
<1>. QED BY <1>1, AnswersHold, PTL

-----------------------------------------------------------------------------
(* In-order delivery *)

\* The order a policy keeps within a run is transitive.
LEMMA AheadTransitive ==
  ASSUME NEW p \in Rows, NEW q \in Rows, NEW r \in Rows, Ahead(p, q), Ahead(q, r)
  PROVE  Ahead(p, r)
<1>1. p < r
  <2>1. p \in Int /\ q \in Int /\ r \in Int /\ p < q /\ q < r
    BY ConstantsOK DEF ConstantsOK, Rows, Ahead
  <2>. QED BY <2>1
<1>. QED BY <1>1 DEF Ahead, SameKey

\* What the transport has answered and what is dead stays so.
LEMMA SettledStays ==
  ASSUME TypeOK, LockInv, [Next]_vars
  PROVE  /\ acked \subseteq acked'
         /\ refused \subseteq refused'
         /\ \A r \in Rows : Settled(r) => Settled(r)'
<1>. USE DEF TypeOK, table, worker, broker
<1>1. acked \subseteq acked' /\ refused \subseteq refused'
  <2>1. ASSUME NEW r \in Rows, Enqueue(r) \/ BackoffElapses(r) \/ CollectSent(r)
        PROVE  acked \subseteq acked' /\ refused \subseteq refused'
    BY <2>1 DEF Enqueue, BackoffElapses, CollectSent
  <2>2. ASSUME NEW w \in Workers,
               ClaimSnapshot(w) \/ ClaimLock(w) \/ ClaimCommit(w) \/ Mark(w) \/ Crash(w)
        PROVE  acked \subseteq acked' /\ refused \subseteq refused'
    BY <2>2 DEF ClaimSnapshot, ClaimLock, ClaimCommit, Mark, Crash
  <2>3. ASSUME NEW w \in Workers, PublishBatch(w) \/ PublishNext(w)
        PROVE  acked \subseteq acked' /\ refused \subseteq refused'
    BY <2>3 DEF PublishBatch, PublishNext, Answer
  <2>4. CASE RequeueStuck \/ UNCHANGED vars
    BY <2>4 DEF RequeueStuck, vars
  <2>. QED BY <2>1, <2>2, <2>3, <2>4 DEF Next, WorkerStep
<1>2. \A r \in Rows : status[r] = "dead" => status'[r] = "dead"
  BY StatusStep DEF Claimable
<1>. QED BY <1>1, <1>2 DEF Settled

\* Producers and time: no row is passed over.
LEMMA ProducerKeepsDelivery ==
  ASSUME TypeOK, LockInv, DeliveryInv, [Next]_vars, Serialized,
         NEW r \in Rows, Enqueue(r) \/ BackoffElapses(r) \/ CollectSent(r)
  PROVE  DeliveryInv'
<1>. USE DEF DeliveryInv, AnswerInv, TypeOK, table, worker, broker
<1>1. UNCHANGED <<worker, broker>>
  BY DEF Enqueue, BackoffElapses, CollectSent
<1>2. AnswerInv'
  BY AnswerStep
<1>3. EnqueueInv'
  <2>1. CASE Enqueue(r)
    <3>1. \A q \in Rows : q < r /\ SourceOf[q] = SourceOf[r] => status[q] # "absent"
      BY <2>1 DEF Enqueue
    <3>2. status'[r] = "pending" /\ \A q \in Rows \ {r} : status'[q] = status[q]
      BY <2>1 DEF Enqueue
    <3>. QED BY <3>1, <3>2 DEF EnqueueInv
  <2>2. CASE BackoffElapses(r) \/ CollectSent(r)
    BY <2>2 DEF BackoffElapses, CollectSent, EnqueueInv
  <2>. QED BY <2>1, <2>2
<1>5. \A q \in Rows : Settled(q) => Settled(q)'
  BY SettledStays
<1>6. SnapshotInv' /\ ClaimInv'
  BY <1>1, <1>5 DEF SnapshotInv, ClaimInv
<1>7. InOrderDelivery'
  BY <1>1, <1>5 DEF InOrderDelivery, Settled
<1>. QED BY <1>2, <1>3, <1>6, <1>7

\* The claim statement: what precedes a row of the batch is in it or settled.
LEMMA ClaimKeepsDelivery ==
  ASSUME TypeOK, LockInv, DeliveryInv, [Next]_vars, Serialized,
         NEW w \in Workers, ClaimSnapshot(w) \/ ClaimLock(w) \/ ClaimCommit(w)
  PROVE  DeliveryInv'
<1>. USE DEF DeliveryInv, AnswerInv, TypeOK, table, worker, broker
<1>1. UNCHANGED <<outcome, broker>>
  BY DEF ClaimSnapshot, ClaimLock, ClaimCommit
<1>2. \A q \in Rows : status'[q] # status[q] =>
        status[q] \in {"pending", "failed"} /\ status'[q] = "publishing"
  <2>1. CASE ClaimSnapshot(w) \/ ClaimLock(w)
    <3>1. status' = status
      BY <2>1 DEF ClaimSnapshot, ClaimLock
    <3>. QED BY <3>1
  <2>2. CASE ClaimCommit(w)
    <3>1. pc[w] = "claiming"
      BY <2>2 DEF ClaimCommit
    <3>2. \A q \in Rows : status'[q] = IF q \in batch[w] /\ PostFilter(w, q) THEN "publishing" ELSE status[q]
      BY <2>2 DEF ClaimCommit
    <3>. QED BY <3>1, <3>2 DEF LockInv, Claimable
  <2>. QED BY <2>1, <2>2
<1>3. EnqueueInv'
  BY <1>2 DEF EnqueueInv
<1>4. AnswerInv'
  BY AnswerStep
<1>6. \A q \in Rows : Settled(q) => Settled(q)'
  BY SettledStays
<1>7. \A v \in Workers : v # w =>
        pc'[v] = pc[v] /\ batch'[v] = batch[v] /\ cand'[v] = cand[v] /\ open'[v] = open[v]
  BY DEF ClaimSnapshot, ClaimLock, ClaimCommit
<1>8. SnapshotInv' /\ ClaimInv'
  <2>1. CASE ClaimSnapshot(w)
    <3>1. pc'[w] = "locking" /\ cand'[w] = {r \in Rows : Due(r) /\ PreFilter(r)}
          /\ open'[w] = {r \in Rows : Open(r)}
      BY <2>1 DEF ClaimSnapshot
    <3>2. ASSUME NEW r \in cand'[w], NEW q \in Rows, Ahead(q, r) PROVE q \in open'[w] \/ Settled(q)
      <4>1. q < r /\ SourceOf[q] = SourceOf[r]
        BY <3>2 DEF Ahead, SameKey
      <4>2. r \in Rows /\ status[r] # "absent"
        BY <3>1 DEF Due, Claimable
      <4>3. status[q] # "absent"
        BY <4>1, <4>2 DEF EnqueueInv
      <4>. QED BY <3>1, <4>3 DEF Open, Settled, MarksAreAnswers, Statuses, Claimable, Terminal
    <3>. QED BY <1>6, <1>7, <3>1, <3>2 DEF SnapshotInv, ClaimInv
  <2>2. CASE ClaimLock(w)
    <3>1. pc[w] = "locking" /\ pc'[w] = "claiming" /\ cand' = cand /\ open' = open
          /\ batch'[w] \subseteq cand[w]
      BY <2>2 DEF ClaimLock, FirstOf
    <3>. QED BY <1>6, <1>7, <3>1 DEF SnapshotInv, ClaimInv
  <2>3. CASE ClaimCommit(w)
    <3>1. pc[w] = "claiming" /\ pc'[w] \in {"idle", "publishing"}
          /\ batch'[w] = {r \in batch[w] : PostFilter(w, r)}
      BY <2>3 DEF ClaimCommit
    <3>2. ASSUME NEW r \in batch'[w], NEW q \in Rows, Ahead(q, r) PROVE q \in batch'[w] \/ Settled(q)
      <4>1. r \in batch[w] /\ r \in cand[w] /\ PostFilter(w, r)
        BY <3>1 DEF SnapshotInv
      <4>2. CASE q \in open[w]
        <5>1. q \in batch[w]
          BY <3>2, <4>1, <4>2 DEF PostFilter
        <5>2. \A p \in open[w] : Ahead(p, q) => p \in batch[w]
          <6>. SUFFICES ASSUME NEW p \in open[w], Ahead(p, q) PROVE p \in batch[w]
            OBVIOUS
          <6>1. p \in Rows /\ Ahead(p, r)
            BY <3>2, <4>1, AheadTransitive
          <6>. QED BY <4>1, <6>1 DEF PostFilter
        <5>. QED BY <3>1, <5>1, <5>2 DEF PostFilter
      <4>3. CASE q \notin open[w]
        BY <3>1, <3>2, <4>1, <4>3 DEF SnapshotInv
      <4>. QED BY <4>2, <4>3
    <3>. QED BY <1>6, <1>7, <3>1, <3>2 DEF SnapshotInv, ClaimInv
  <2>. QED BY <2>1, <2>2, <2>3
<1>9. InOrderDelivery'
  BY <1>1, <1>6 DEF InOrderDelivery, Settled
<1>. QED BY <1>3, <1>4, <1>8, <1>9

\* Publishing a whole batch: the answers of one call are in order.
LEMMA PublishBatchKeepsDelivery ==
  ASSUME TypeOK, LockInv, DeliveryInv, [Next]_vars,
         NEW w \in Workers, PublishBatch(w)
  PROVE  DeliveryInv'
<1>. USE DEF DeliveryInv, AnswerInv, TypeOK, table, worker, broker
<1>1. PICK o \in [batch[w] -> Outcomes] : KeepsOrder(o, batch[w]) /\ Answer(w, o, batch[w])
  BY DEF PublishBatch
<1>2. /\ UNCHANGED <<cand, open, batch, table>>
      /\ pc[w] = "publishing" /\ pc'[w] = "marking" /\ Policy # "StopTheLine"
      /\ \A v \in Workers : v # w => pc'[v] = pc[v]
  BY DEF PublishBatch
<1>3. /\ \A r \in batch[w] : outcome'[w][r] = o[r] /\ o[r] \in Outcomes
      /\ \A r \in Rows \ batch[w] : outcome'[w][r] = outcome[w][r]
      /\ \A v \in Workers : v # w => outcome'[v] = outcome[v]
      /\ acked' = acked \cup {r \in batch[w] : o[r] = "succeeded"}
      /\ refused' = refused \cup {r \in batch[w] : o[r] = "rejected"}
  BY <1>1 DEF Answer
<1>4. \A q \in Rows : Settled(q) => Settled(q)'
  BY SettledStays
<1>5. EnqueueInv'
  BY <1>2 DEF EnqueueInv
<1>6. AnswerInv'
  BY AnswerStep
<1>8. SnapshotInv' /\ ClaimInv'
  BY <1>2, <1>4 DEF SnapshotInv, ClaimInv
<1>9. InOrderDelivery'
  <2>. SUFFICES ASSUME NEW q \in Rows, NEW r \in Rows, Ahead(q, r), r \in acked' PROVE Settled(q)'
    BY DEF InOrderDelivery, Settled
  <2>1. CASE r \in acked
    BY <1>4, <2>1 DEF InOrderDelivery, Settled
  <2>2. CASE r \in batch[w] /\ o[r] = "succeeded"
    <3>1. CASE q \in batch[w]
      BY <1>1, <1>3, <2>2, <3>1 DEF KeepsOrder, Outcomes, Settled
    <3>2. CASE q \notin batch[w]
      BY <1>2, <1>4, <2>2, <3>2 DEF ClaimInv
    <3>. QED BY <3>1, <3>2
  <2>. QED BY <1>3, <2>1, <2>2
<1>. QED BY <1>5, <1>6, <1>8, <1>9

\* Publishing row by row: what precedes the row was answered in this pass.
LEMMA PublishNextKeepsDelivery ==
  ASSUME TypeOK, LockInv, DeliveryInv, [Next]_vars,
         NEW w \in Workers, PublishNext(w)
  PROVE  DeliveryInv'
<1>. USE DEF DeliveryInv, AnswerInv, TypeOK, table, worker, broker
<1>. DEFINE left == {q \in batch[w] : outcome[w][q] = "none"}
<1>1. PICK r \in FirstOf(left, 1) : \E o \in [{r} -> Outcomes] :
        /\ Answer(w, o, {r})
        /\ pc' = [pc EXCEPT ![w] =
             IF o[r] = "failed" \/ left = {r} THEN "marking" ELSE "publishing"]
  BY DEF PublishNext
<1>2. PICK o \in [{r} -> Outcomes] :
        /\ Answer(w, o, {r})
        /\ pc' = [pc EXCEPT ![w] =
             IF o[r] = "failed" \/ left = {r} THEN "marking" ELSE "publishing"]
  BY <1>1
<1>3. r \in left /\ r \in Rows /\ \A q \in left : ~(q < r)
  <2>1. left \in SUBSET Rows
    OBVIOUS
  <2>. QED BY <1>1, <2>1, FirstIsLeast
<1>4. /\ UNCHANGED <<cand, open, batch, table>>
      /\ pc[w] = "publishing" /\ Policy = "StopTheLine"
      /\ \A v \in Workers : v # w => pc'[v] = pc[v]
  BY <1>2 DEF PublishNext
<1>5. /\ outcome'[w][r] = o[r] /\ o[r] \in Outcomes
      /\ \A q \in Rows \ {r} : outcome'[w][q] = outcome[w][q]
      /\ \A v \in Workers : v # w => outcome'[v] = outcome[v]
      /\ acked' = IF o[r] = "succeeded" THEN acked \cup {r} ELSE acked
      /\ refused' = IF o[r] = "rejected" THEN refused \cup {r} ELSE refused
  BY <1>2, <1>3 DEF Answer
<1>6. \A q \in Rows : Settled(q) => Settled(q)'
  BY SettledStays
<1>7. EnqueueInv'
  BY <1>4 DEF EnqueueInv
<1>8. AnswerInv'
  BY AnswerStep
<1>10. SnapshotInv' /\ ClaimInv'
  <2>1. pc'[w] \in {"publishing", "marking"}
    BY <1>2
  <2>2. SnapshotInv'
    BY <1>4, <1>6, <2>1 DEF SnapshotInv
  <2>3. ClaimInv'
    BY <1>4, <1>6, <2>1 DEF ClaimInv
  <2>. QED BY <2>2, <2>3
<1>11. InOrderDelivery'
  <2>. SUFFICES ASSUME NEW q \in Rows, NEW p \in Rows, Ahead(q, p), p \in acked' PROVE Settled(q)'
    BY DEF InOrderDelivery, Settled
  <2>1. CASE p \in acked
    BY <1>6, <2>1 DEF InOrderDelivery, Settled
  <2>2. CASE p = r
    <3>1. q < r
      BY <2>2 DEF Ahead
    <3>2. CASE q \in batch[w]
      <4>1. outcome[w][q] \in {"succeeded", "rejected"}
        BY <1>3, <1>4, <3>1, <3>2 DEF PhaseInv, Outcomes
      <4>2. Settled(q)
        BY <4>1 DEF OutcomeInv, Settled
      <4>. QED BY <1>6, <4>2
    <3>3. CASE q \notin batch[w]
      BY <1>3, <1>4, <1>6, <2>2, <3>3 DEF ClaimInv
    <3>. QED BY <3>2, <3>3
  <2>. QED BY <1>5, <2>1, <2>2
<1>. QED BY <1>7, <1>8, <1>10, <1>11

\* Marking, crashing and maintenance.
LEMMA SettlingKeepsDelivery ==
  ASSUME TypeOK, LockInv, DeliveryInv, [Next]_vars,
         \/ \E w \in Workers : Mark(w) \/ Crash(w)
         \/ RequeueStuck
  PROVE  DeliveryInv'
<1>. USE DEF DeliveryInv, AnswerInv, TypeOK, table, worker, broker
<1>1. UNCHANGED broker
  BY DEF Mark, Crash, RequeueStuck
<1>2. \A r \in Rows : Settled(r) => Settled(r)'
  BY SettledStays
<1>3. InOrderDelivery'
  BY <1>1, <1>2 DEF InOrderDelivery, Settled
<1>4. EnqueueInv'
  <2>1. \A r \in Rows : status[r] = "absent" <=> status'[r] = "absent"
    <3>1. ASSUME NEW w \in Workers, Mark(w) PROVE \A r \in Rows : status[r] = "absent" <=> status'[r] = "absent"
      BY <3>1 DEF Mark, Markable, InFlight, MarkedStatus
    <3>2. ASSUME NEW w \in Workers, Crash(w) PROVE \A r \in Rows : status[r] = "absent" <=> status'[r] = "absent"
      BY <3>2 DEF Crash
    <3>3. ASSUME RequeueStuck PROVE \A r \in Rows : status[r] = "absent" <=> status'[r] = "absent"
      BY <3>3 DEF RequeueStuck, InFlight
    <3>. QED BY <3>1, <3>2, <3>3
  <2>. QED BY <2>1 DEF EnqueueInv
<1>5. ASSUME NEW w \in Workers, Mark(w) \/ Crash(w)
      PROVE  /\ pc'[w] = "idle" /\ \A r \in Rows : outcome'[w][r] = "none"
             /\ \A v \in Workers : v # w =>
                  /\ pc'[v] = pc[v] /\ cand'[v] = cand[v] /\ open'[v] = open[v]
                  /\ batch'[v] = batch[v] /\ outcome'[v] = outcome[v]
  <2>1. CASE Mark(w)
    <3>1. /\ pc' = [pc EXCEPT ![w] = "idle"]
          /\ batch' = [batch EXCEPT ![w] = {}]
          /\ outcome' = [outcome EXCEPT ![w] = [r \in Rows |-> "none"]]
          /\ cand' = cand /\ open' = open
      BY <2>1 DEF Mark
    <3>. QED BY <3>1
  <2>2. CASE Crash(w)
    <3>1. /\ pc' = [pc EXCEPT ![w] = "idle"]
          /\ batch' = [batch EXCEPT ![w] = {}]
          /\ outcome' = [outcome EXCEPT ![w] = [r \in Rows |-> "none"]]
          /\ cand' = [cand EXCEPT ![w] = {}] /\ open' = [open EXCEPT ![w] = {}]
      BY <2>2 DEF Crash
    <3>. QED BY <3>1
  <2>. QED BY <1>5, <2>1, <2>2
<1>6. RequeueStuck => UNCHANGED worker
  BY DEF RequeueStuck
<1>7. SnapshotInv' /\ ClaimInv'
  <2>1. ASSUME NEW w \in Workers, Mark(w) \/ Crash(w) PROVE SnapshotInv' /\ ClaimInv'
    BY <1>2, <1>5, <2>1 DEF SnapshotInv, ClaimInv
  <2>2. ASSUME RequeueStuck PROVE SnapshotInv' /\ ClaimInv'
    BY <1>2, <1>6, <2>2 DEF SnapshotInv, ClaimInv
  <2>. QED BY <2>1, <2>2
<1>8. AnswerInv'
  BY AnswerStep
<1>. QED BY <1>3, <1>4, <1>7, <1>8

\* With serialized producers and a transport that keeps the order of one call,
\* every ordered policy delivers every run in order, for any number of racing,
\* crashing and late workers.
THEOREM DeliveryInOrder == Serialized => (Spec => []InOrderDelivery)
<1>. SUFFICES ASSUME Serialized PROVE Spec => []InOrderDelivery
  OBVIOUS
<1>1. Init => DeliveryInv
  BY DEF Init, DeliveryInv, AnswerInv, MarksAreAnswers, EnqueueInv, OutcomeInv, PhaseInv,
         SnapshotInv, ClaimInv, InOrderDelivery
<1>2. TypeOK /\ LockInv /\ DeliveryInv /\ [Next]_vars => DeliveryInv'
  <2>. SUFFICES ASSUME TypeOK, LockInv, DeliveryInv, [Next]_vars PROVE DeliveryInv'
    OBVIOUS
  <2>1. CASE UNCHANGED vars
    BY <2>1 DEF vars, table, worker, broker, DeliveryInv, AnswerInv, MarksAreAnswers, EnqueueInv, OutcomeInv,
                PhaseInv, SnapshotInv, ClaimInv, InOrderDelivery, Settled, PostFilter
  <2>. QED
    BY <2>1, ProducerKeepsDelivery, ClaimKeepsDelivery, PublishBatchKeepsDelivery,
       PublishNextKeepsDelivery, SettlingKeepsDelivery DEF Next, WorkerStep
<1>3. DeliveryInv => InOrderDelivery
  BY DEF DeliveryInv
<1>. QED BY <1>1, <1>2, <1>3, TypeCorrect, LocksHold, PTL DEF Spec

-----------------------------------------------------------------------------
(* Own failures *)

\* Under every policy and however late the marks are, a row that is dead failed
\* MaxAttempts times itself: what a failing neighbour costs it is refunded.
THEOREM DeadOfOwnFaults == Spec => []DeadByOwnFaults
<1>1. Init => FaultInv
  BY DEF Init, FaultInv, Claimable
<1>2. TypeOK /\ LockInv /\ FaultInv /\ [Next]_vars => FaultInv'
  <2>. SUFFICES ASSUME TypeOK, LockInv, FaultInv, [Next]_vars PROVE FaultInv'
    OBVIOUS
  <2>. USE ConstantsOK DEF ConstantsOK, TypeOK, FaultInv, table, worker, broker, Claimable
  <2>1. ASSUME NEW r \in Rows, Enqueue(r) PROVE FaultInv'
    BY <2>1 DEF Enqueue
  <2>2. ASSUME NEW r \in Rows, BackoffElapses(r) \/ CollectSent(r) PROVE FaultInv'
    BY <2>2 DEF BackoffElapses, CollectSent
  <2>3. ASSUME NEW w \in Workers,
               ClaimSnapshot(w) \/ ClaimLock(w) \/ PublishBatch(w) \/ PublishNext(w) \/ Crash(w)
        PROVE  FaultInv'
    BY <2>3 DEF ClaimSnapshot, ClaimLock, PublishBatch, PublishNext, Crash
  <2>4. ASSUME NEW w \in Workers, ClaimCommit(w) PROVE FaultInv'
    BY <2>4 DEF ClaimCommit, LockInv
  <2>5. ASSUME NEW w \in Workers, Mark(w) PROVE FaultInv'
    BY <2>5 DEF Mark, Markable, InFlight, MarkedStatus, MarkedAttempts, Pivot
  <2>6. ASSUME RequeueStuck PROVE FaultInv'
    BY <2>6 DEF RequeueStuck, InFlight
  <2>7. CASE UNCHANGED vars
    BY <2>7 DEF vars
  <2>. QED BY <2>1, <2>2, <2>3, <2>4, <2>5, <2>6, <2>7 DEF Next, WorkerStep
<1>3. FaultInv => DeadByOwnFaults
  BY DEF FaultInv, DeadByOwnFaults
<1>. QED BY <1>1, <1>2, <1>3, TypeCorrect, LocksHold, PTL DEF Spec

-----------------------------------------------------------------------------
(* Gapless runs *)

\* Ranking the claims in flight keeps their order and leaves room for a newer one.
LEMMA RankKeepsOrder ==
  ASSUME TypeOK, NEW q \in InFlight, NEW r \in InFlight
  PROVE  /\ ClaimRank(r) < Cardinality(InFlight)
         /\ ClaimRank(q) = ClaimRank(r) <=> claimedAt[q] = claimedAt[r]
<1>1. NumRows \in Int BY ConstantsOK DEF ConstantsOK
<1>2. IsFiniteSet(Rows) BY <1>1, FS_Interval DEF Rows
<1>3. InFlight \in SUBSET Rows BY DEF InFlight
<1>4. IsFiniteSet(InFlight) BY <1>2, <1>3, FS_Subset
<1>5. \A p \in InFlight : claimedAt[p] \in Nat BY <1>3 DEF TypeOK
<1>. DEFINE before(p) == {x \in InFlight : claimedAt[x] < claimedAt[p]}
<1>6. ASSUME NEW S, IsFiniteSet(S), NEW T \in SUBSET S, NEW p \in S, p \notin T
      PROVE  Cardinality(T) < Cardinality(S)
  <2>1. IsFiniteSet(T) /\ Cardinality(T) <= Cardinality(S) /\ Cardinality(S) # Cardinality(T)
    BY <1>6, FS_Subset
  <2>2. Cardinality(T) \in Nat /\ Cardinality(S) \in Nat
    BY <1>6, <2>1, FS_CardinalityType
  <2>. QED BY <2>1, <2>2
<1>7. ClaimRank(r) < Cardinality(InFlight)
  <2>1. before(r) \in SUBSET InFlight /\ r \notin before(r)
    BY <1>5
  <2>. QED BY <1>4, <1>6, <2>1 DEF ClaimRank
<1>8. ASSUME NEW a \in InFlight, NEW b \in InFlight, claimedAt[a] < claimedAt[b]
      PROVE  ClaimRank(a) < ClaimRank(b)
  <2>1. before(a) \in SUBSET before(b) /\ a \in before(b) /\ a \notin before(a)
    BY <1>5, <1>8
  <2>2. before(b) \in SUBSET InFlight
    OBVIOUS
  <2>3. IsFiniteSet(before(b))
    BY <1>4, <2>2, FS_Subset
  <2>. QED BY <1>6, <2>1, <2>3 DEF ClaimRank
<1>9. ClaimRank(q) \in Nat /\ ClaimRank(r) \in Nat
  BY <1>3, CountIsNat DEF ClaimRank
<1>10. claimedAt[q] = claimedAt[r] => ClaimRank(q) = ClaimRank(r)
  BY DEF ClaimRank
<1>11. claimedAt[q] # claimedAt[r] => ClaimRank(q) # ClaimRank(r)
  <2>1. CASE claimedAt[q] < claimedAt[r]
    BY <1>8, <1>9, <2>1
  <2>2. CASE claimedAt[r] < claimedAt[q]
    BY <1>8, <1>9, <2>2
  <2>. QED BY <1>5, <2>1, <2>2
<1>. QED BY <1>7, <1>10, <1>11

\* An open row ahead of an enqueued one was enqueued before it.
LEMMA AheadIsEnqueued ==
  ASSUME TypeOK, EnqueueInv, NEW q \in Rows, NEW r \in Rows, Ahead(q, r), status[r] # "absent"
  PROVE  status[q] \in Claimable \cup {"publishing"} \cup Terminal \cup {"deleted"}
<1>1. q < r /\ SourceOf[q] = SourceOf[r]
  BY DEF Ahead, SameKey
<1>2. status[q] # "absent"
  BY <1>1 DEF EnqueueInv
<1>. QED BY <1>2 DEF TypeOK, Statuses

\* A settled row stays settled in the table.
LEMMA TerminalStep ==
  ASSUME TypeOK, LockInv, [Next]_vars, NEW r \in Rows, status[r] \in Terminal \cup {"deleted"}
  PROVE  status'[r] \in Terminal \cup {"deleted"}
<1>. QED BY StatusStep DEF Terminal, Claimable

\* Producers and time: a new row is the last of its run.
LEMMA ProducerKeepsRuns ==
  ASSUME TypeOK, LockInv, RunInv, [Next]_vars, Serialized,
         NEW p \in Rows, Enqueue(p) \/ BackoffElapses(p) \/ CollectSent(p)
  PROVE  RunInv'
<1>. USE DEF RunInv, TypeOK, table, worker, broker
<1>1. UNCHANGED <<worker, broker, claimedAt>>
  BY DEF Enqueue, BackoffElapses, CollectSent
<1>2. EnqueueInv'
  <2>1. CASE Enqueue(p)
    <3>1. \A q \in Rows : q < p /\ SourceOf[q] = SourceOf[p] => status[q] # "absent"
      BY <2>1 DEF Enqueue
    <3>2. status'[p] = "pending" /\ \A q \in Rows \ {p} : status'[q] = status[q]
      BY <2>1 DEF Enqueue
    <3>. QED BY <3>1, <3>2 DEF EnqueueInv
  <2>2. CASE BackoffElapses(p) \/ CollectSent(p)
    BY <2>2 DEF BackoffElapses, CollectSent, EnqueueInv
  <2>. QED BY <2>1, <2>2
<1>3. OpenInv'
  BY <1>1, TerminalStep DEF OpenInv
<1>4. InFlight' = InFlight
  BY DEF Enqueue, BackoffElapses, CollectSent, InFlight
<1>5. LiveInv'
  BY <1>1, <1>4 DEF LiveInv
<1>6. GaplessRuns'
  <2>. SUFFICES ASSUME NEW q \in Rows, NEW r \in Rows, Ahead(q, r)
       PROVE  /\ status'[r] = "publishing" /\ Open(q)' =>
                   status'[q] = "publishing" /\ claimedAt'[q] = claimedAt'[r]
              /\ status'[r] \in {"sent", "deleted"} => status'[q] \in Terminal \cup {"deleted"}
    BY DEF GaplessRuns
  <2>1. status'[r] \in {"publishing", "sent", "deleted"} =>
          status[r] # "absent" /\ (status[r] = "publishing" <=> status'[r] = "publishing")
    BY DEF Enqueue, BackoffElapses, CollectSent
  <2>2. status'[r] \in {"sent", "deleted"} => status[r] \in {"sent", "deleted"}
    BY DEF Enqueue, BackoffElapses, CollectSent
  <2>3. status[r] # "absent" => status[q] # "absent"
    BY AheadIsEnqueued DEF Claimable, Terminal
  <2>4. status[q] # "absent" /\ Open(q)' => Open(q) /\ status'[q] = status[q]
    BY DEF Enqueue, BackoffElapses, CollectSent, Open, Claimable
  <2>5. CASE status'[r] = "publishing" /\ Open(q)'
    BY <1>1, <2>1, <2>3, <2>4, <2>5 DEF GaplessRuns
  <2>6. CASE status'[r] \in {"sent", "deleted"}
    <3>1. status[q] \in Terminal \cup {"deleted"}
      BY <2>2, <2>6 DEF GaplessRuns
    <3>. QED BY <2>6, <3>1, TerminalStep
  <2>. QED BY <2>5, <2>6
<1>. QED BY <1>2, <1>3, <1>5, <1>6

\* The snapshot, the locks and the transport: no row changes.
LEMMA QuietKeepsRuns ==
  ASSUME TypeOK, LockInv, RunInv, [Next]_vars, NEW w \in Workers,
         ClaimSnapshot(w) \/ ClaimLock(w) \/ PublishBatch(w) \/ PublishNext(w) \/ Crash(w)
  PROVE  RunInv'
<1>. USE DEF RunInv, TypeOK, table, worker, broker
<1>1. UNCHANGED <<status, claimedAt>>
  BY DEF ClaimSnapshot, ClaimLock, PublishBatch, PublishNext, Crash
<1>2. EnqueueInv' /\ GaplessRuns' /\ InFlight' = InFlight
  BY <1>1 DEF EnqueueInv, GaplessRuns, Open, InFlight
<1>3. \A v \in Workers : v # w =>
        pc'[v] = pc[v] /\ batch'[v] = batch[v] /\ cand'[v] = cand[v] /\ open'[v] = open[v]
  <2>1. CASE ClaimSnapshot(w) \/ ClaimLock(w) \/ PublishBatch(w) \/ Crash(w)
    BY <2>1 DEF ClaimSnapshot, ClaimLock, PublishBatch, Crash
  <2>2. CASE PublishNext(w)
    BY <2>2 DEF PublishNext
  <2>. QED BY <2>1, <2>2
<1>4. OpenInv' /\ LiveInv'
  <2>1. CASE ClaimSnapshot(w)
    <3>1. pc'[w] = "locking" /\ cand'[w] = {r \in Rows : Due(r) /\ PreFilter(r)}
          /\ open'[w] = {r \in Rows : Open(r)}
      BY <2>1 DEF ClaimSnapshot
    <3>2. ASSUME NEW r \in cand'[w], NEW q \in Rows, Ahead(q, r)
          PROVE  q \in open'[w] \/ status'[q] \in Terminal \cup {"deleted"}
      <4>1. r \in Rows /\ status[r] # "absent"
        BY <3>1 DEF Due, Claimable
      <4>2. status[q] \in Claimable \cup {"publishing"} \cup Terminal \cup {"deleted"}
        BY <3>2, <4>1, AheadIsEnqueued
      <4>. QED BY <1>1, <3>1, <4>2 DEF Open
    <3>. QED BY <1>1, <1>2, <1>3, <3>1, <3>2 DEF OpenInv, LiveInv
  <2>2. CASE ClaimLock(w)
    <3>1. pc[w] = "locking" /\ pc'[w] = "claiming" /\ cand' = cand /\ open' = open
          /\ batch'[w] \subseteq cand[w]
      BY <2>2 DEF ClaimLock, FirstOf
    <3>. QED BY <1>1, <1>2, <1>3, <3>1 DEF OpenInv, LiveInv
  <2>3. CASE PublishBatch(w)
    <3>1. pc[w] = "publishing" /\ pc'[w] = "marking" /\ batch' = batch
      BY <2>3 DEF PublishBatch
    <3>. QED BY <1>1, <1>2, <1>3, <3>1 DEF OpenInv, LiveInv
  <2>4. CASE PublishNext(w)
    <3>1. pc[w] = "publishing" /\ pc'[w] \in {"publishing", "marking"} /\ batch' = batch
      BY <2>4 DEF PublishNext
    <3>2. OpenInv'
      BY <1>1, <1>3, <3>1 DEF OpenInv
    <3>3. \A v \in Workers : pc'[v] \in {"publishing", "marking"} => pc[v] \in {"publishing", "marking"}
      BY <1>3, <3>1
    <3>4. LiveInv'
      BY <1>1, <1>2, <3>1, <3>3 DEF LiveInv
    <3>. QED BY <3>2, <3>4
  <2>5. CASE Crash(w)
    <3>1. pc'[w] = "idle"
      BY <2>5 DEF Crash
    <3>. QED BY <1>1, <1>2, <1>3, <3>1 DEF OpenInv, LiveInv
  <2>. QED BY <2>1, <2>2, <2>3, <2>4, <2>5
<1>. QED BY <1>2, <1>4

\* The claim: with a row of its batch the statement takes every open row ahead of it.
LEMMA ClaimKeepsRuns ==
  ASSUME TypeOK, LockInv, RunInv, [Next]_vars, NEW w \in Workers, ClaimCommit(w)
  PROVE  RunInv'
<1>. USE DEF RunInv, TypeOK, table, worker, broker
<1>. DEFINE ready == {r \in batch[w] : PostFilter(w, r)}
<1>1. /\ pc[w] = "claiming" /\ ready \in SUBSET Rows
      /\ \A r \in Rows : status'[r] = IF r \in ready THEN "publishing" ELSE status[r]
      /\ \A r \in Rows : claimedAt'[r] =
           IF r \in ready THEN Cardinality(InFlight) ELSE IF r \in InFlight THEN ClaimRank(r) ELSE 0
      /\ batch'[w] = ready
      /\ pc'[w] \in {"idle", "publishing"}
  BY DEF ClaimCommit
<1>2. \A v \in Workers : v # w =>
        pc'[v] = pc[v] /\ batch'[v] = batch[v] /\ cand'[v] = cand[v] /\ open'[v] = open[v]
  BY DEF ClaimCommit
<1>3. \A r \in ready : r \in cand[w] /\ status[r] \in Claimable /\ r \notin InFlight
  BY <1>1 DEF OpenInv, LockInv, Claimable, InFlight
<1>4. \A r \in Rows : r \in InFlight' <=> r \in InFlight \/ r \in ready
  BY <1>1 DEF InFlight
<1>5. InFlight \subseteq Rows /\ InFlight' \subseteq Rows
  BY DEF InFlight
<1>6. ASSUME NEW q \in InFlight', NEW r \in InFlight', claimedAt'[q] = claimedAt'[r]
      PROVE  \/ q \in ready /\ r \in ready
             \/ q \in InFlight /\ r \in InFlight /\ claimedAt[q] = claimedAt[r]
  <2>1. \A p \in InFlight : claimedAt'[p] = ClaimRank(p) /\ ClaimRank(p) \in Nat
    BY <1>1, <1>3, <1>5, CountIsNat DEF ClaimRank
  <2>2. \A p \in InFlight : ClaimRank(p) # Cardinality(InFlight)
    BY <2>1, CountIsNat, <1>5, RankKeepsOrder
  <2>3. \A p \in ready : claimedAt'[p] = Cardinality(InFlight)
    BY <1>1
  <2>4. CASE q \in ready /\ r \in ready
    BY <2>4
  <2>5. CASE q \in InFlight /\ r \in InFlight
    BY <1>6, <2>1, <2>5, RankKeepsOrder
  <2>. QED BY <1>4, <1>5, <1>6, <2>1, <2>2, <2>3, <2>4, <2>5
<1>7. EnqueueInv'
  <2>1. \A r \in Rows : status[r] = "absent" <=> status'[r] = "absent"
    BY <1>1, <1>3 DEF Claimable
  <2>. QED BY <2>1 DEF EnqueueInv
<1>8. OpenInv'
  BY <1>1, <1>2, TerminalStep DEF OpenInv
<1>9. LiveInv'
  <2>. SUFFICES ASSUME NEW v \in Workers, pc'[v] \in {"publishing", "marking"}
       PROVE  /\ batch'[v] \subseteq InFlight'
              /\ \A r \in batch'[v], q \in InFlight' : claimedAt'[q] = claimedAt'[r] => q \in batch'[v]
              /\ \A u \in Workers \ {v} :
                   pc'[u] \in {"publishing", "marking"} => batch'[u] \cap batch'[v] = {}
    BY DEF LiveInv
  <2>1. \A u \in Workers \ {w} : pc'[u] \in {"publishing", "marking"} =>
          pc[u] \in {"publishing", "marking"} /\ batch'[u] = batch[u] /\ batch[u] \subseteq InFlight
    BY <1>2 DEF LiveInv
  <2>2. CASE v = w
    <3>1. batch'[v] = ready
      BY <1>1, <2>2
    <3>2. batch'[v] \subseteq InFlight'
      BY <1>1, <1>4, <3>1
    <3>3. \A r \in batch'[v], q \in InFlight' : claimedAt'[q] = claimedAt'[r] => q \in batch'[v]
      BY <1>3, <1>6, <3>1, <3>2
    <3>4. \A u \in Workers \ {v} :
            pc'[u] \in {"publishing", "marking"} => batch'[u] \cap batch'[v] = {}
      BY <1>3, <2>1, <2>2, <3>1
    <3>. QED BY <3>2, <3>3, <3>4
  <2>3. CASE v # w
    <3>1. pc[v] \in {"publishing", "marking"} /\ batch'[v] = batch[v] /\ batch[v] \subseteq InFlight
      BY <2>1, <2>3
    <3>2. batch'[v] \subseteq InFlight'
      BY <1>4, <1>5, <3>1
    <3>3. \A r \in batch'[v], q \in InFlight' : claimedAt'[q] = claimedAt'[r] => q \in batch'[v]
      <4>. SUFFICES ASSUME NEW r \in batch[v], NEW q \in InFlight', claimedAt'[q] = claimedAt'[r]
           PROVE q \in batch[v]
        BY <3>1
      <4>1. r \in InFlight /\ r \in InFlight' /\ r \notin ready
        BY <1>3, <3>1, <3>2
      <4>2. q \in InFlight /\ claimedAt[q] = claimedAt[r]
        BY <1>6, <4>1
      <4>. QED BY <3>1, <4>2 DEF LiveInv
    <3>4. ASSUME NEW u \in Workers \ {v}, pc'[u] \in {"publishing", "marking"}
          PROVE  batch'[u] \cap batch'[v] = {}
      <4>1. CASE u = w
        BY <1>1, <1>3, <3>1, <4>1
      <4>2. CASE u # w
        BY <2>1, <3>1, <3>4, <4>2 DEF LiveInv
      <4>. QED BY <4>1, <4>2
    <3>. QED BY <3>2, <3>3, <3>4
  <2>. QED BY <2>2, <2>3
<1>10. GaplessRuns'
  <2>. SUFFICES ASSUME NEW q \in Rows, NEW r \in Rows, Ahead(q, r)
       PROVE  /\ status'[r] = "publishing" /\ Open(q)' =>
                   status'[q] = "publishing" /\ claimedAt'[q] = claimedAt'[r]
              /\ status'[r] \in {"sent", "deleted"} => status'[q] \in Terminal \cup {"deleted"}
    BY DEF GaplessRuns
  <2>1. CASE r \in ready
    <3>1. status'[r] = "publishing"
      BY <1>1, <2>1
    <3>2. ASSUME Open(q)' PROVE q \in ready
      <4>1. SUFFICES ASSUME q \notin ready PROVE FALSE
        OBVIOUS
      <4>2. status'[q] = status[q]
        BY <1>1, <4>1
      <4>3. status[q] \notin Terminal \cup {"deleted"}
        BY <3>2, <4>2 DEF Open, Claimable, Terminal
      <4>4. q \in open[w]
        BY <1>1, <1>3, <2>1, <4>3 DEF OpenInv
      <4>5. q \in batch[w]
        BY <2>1, <4>4 DEF PostFilter
      <4>6. \A p \in open[w] : Ahead(p, q) => p \in batch[w]
        <5>. SUFFICES ASSUME NEW p \in open[w], Ahead(p, q) PROVE p \in batch[w]
          OBVIOUS
        <5>1. Ahead(p, r)
          BY AheadTransitive
        <5>. QED BY <2>1, <5>1 DEF PostFilter
      <4>. QED BY <4>1, <4>5, <4>6 DEF PostFilter
    <3>. QED BY <1>1, <2>1, <3>1, <3>2
  <2>2. CASE r \notin ready
    <3>1. status'[r] = status[r]
      BY <1>1, <2>2
    <3>2. ASSUME status[r] = "publishing", Open(q)'
          PROVE  status'[q] = "publishing" /\ claimedAt'[q] = claimedAt'[r]
      <4>1. Open(q)
        BY <1>1, <1>3, <3>2 DEF Open
      <4>2. status[q] = "publishing" /\ claimedAt[q] = claimedAt[r]
        BY <3>2, <4>1 DEF GaplessRuns
      <4>3. q \in InFlight /\ r \in InFlight /\ q \notin ready
        BY <1>3, <3>2, <4>2 DEF InFlight
      <4>4. claimedAt'[q] = ClaimRank(q) /\ claimedAt'[r] = ClaimRank(r)
        BY <1>1, <2>2, <4>3
      <4>5. ClaimRank(q) = ClaimRank(r)
        BY <4>2, <4>3, RankKeepsOrder
      <4>. QED BY <1>1, <4>2, <4>3, <4>4, <4>5
    <3>3. ASSUME status[r] \in {"sent", "deleted"}
          PROVE  status'[q] \in Terminal \cup {"deleted"}
      <4>1. status[q] \in Terminal \cup {"deleted"}
        BY <3>3 DEF GaplessRuns
      <4>. QED BY <4>1, TerminalStep
    <3>. QED BY <3>1, <3>2, <3>3
  <2>. QED BY <2>1, <2>2
<1>. QED BY <1>7, <1>8, <1>9, <1>10

\* What fails ahead of a row of the batch fails the row as well.
LEMMA SkipSpreads ==
  ASSUME TypeOK, NEW w \in Workers, NEW q \in batch[w], NEW r \in batch[w], Ahead(q, r),
         outcome[w][q] = "failed" \/ Skipped(w, q)
  PROVE  Skipped(w, r)
<1>1. q < r /\ SameGroup(q, r)
  BY DEF Ahead, SameGroup
<1>2. CASE outcome[w][q] = "failed"
  BY <1>1, <1>2 DEF Skipped
<1>3. CASE Skipped(w, q)
  <2>1. PICK p \in batch[w] : p < q /\ SameGroup(p, q) /\ outcome[w][p] = "failed"
    BY <1>3 DEF Skipped
  <2>2. p \in Int /\ q \in Int /\ r \in Int
    BY ConstantsOK DEF ConstantsOK, TypeOK, Rows
  <2>3. p < r
    BY <1>1, <2>1, <2>2
  <2>4. SameGroup(p, r)
    BY <2>1, <2>2 DEF SameGroup, Ahead, SameKey
  <2>. QED BY <2>1, <2>3, <2>4 DEF Skipped
<1>. QED BY <1>2, <1>3

\* The marks: the batch is a whole claim, and no row is sent past a failure.
LEMMA MarkKeepsRuns ==
  ASSUME TypeOK, LockInv, AnswerInv, RunInv, [Next]_vars, NEW w \in Workers, Mark(w)
  PROVE  RunInv'
<1>. USE DEF RunInv, TypeOK, table, worker, broker
<1>1. /\ pc[w] = "marking" /\ pc'[w] = "idle"
      /\ \A v \in Workers : v # w => pc'[v] = pc[v] /\ batch'[v] = batch[v]
      /\ cand' = cand /\ open' = open
  BY DEF Mark
<1>2. batch[w] \subseteq InFlight /\ InFlight \subseteq Rows
  BY <1>1 DEF LiveInv, InFlight
<1>3. /\ \A r \in Rows : status'[r] = IF r \in batch[w] THEN MarkedStatus(w, r) ELSE status[r]
      /\ \A r \in Rows : r \notin batch[w] => claimedAt'[r] = claimedAt[r]
  BY <1>2 DEF Mark, Markable
<1>4. \A r \in Rows : MarkedStatus(w, r) \in {"failed", "dead", "rejected", "sent"}
  BY DEF MarkedStatus
<1>5. EnqueueInv'
  <2>1. \A r \in Rows : status[r] = "absent" <=> status'[r] = "absent"
    BY <1>2, <1>3, <1>4 DEF InFlight
  <2>. QED BY <2>1 DEF EnqueueInv
<1>6. OpenInv'
  <2>1. \A v \in Workers : pc'[v] \in {"locking", "claiming"} =>
          pc[v] = pc'[v] /\ batch'[v] = batch[v]
    BY <1>1
  <2>. QED BY <1>1, <2>1, TerminalStep DEF OpenInv
<1>7. InFlight' = InFlight \ batch[w]
  BY <1>2, <1>3, <1>4 DEF InFlight
<1>8. LiveInv'
  <2>. SUFFICES ASSUME NEW v \in Workers, pc'[v] \in {"publishing", "marking"}
       PROVE  /\ batch'[v] \subseteq InFlight'
              /\ \A r \in batch'[v], q \in InFlight' : claimedAt'[q] = claimedAt'[r] => q \in batch'[v]
              /\ \A u \in Workers \ {v} :
                   pc'[u] \in {"publishing", "marking"} => batch'[u] \cap batch'[v] = {}
    BY DEF LiveInv
  <2>1. v # w /\ pc[v] \in {"publishing", "marking"} /\ batch'[v] = batch[v]
    BY <1>1
  <2>2. batch[v] \cap batch[w] = {} /\ batch[v] \subseteq InFlight
    BY <1>1, <2>1 DEF LiveInv
  <2>3. batch'[v] \subseteq InFlight'
    BY <1>7, <2>1, <2>2
  <2>4. \A r \in batch'[v], q \in InFlight' : claimedAt'[q] = claimedAt'[r] => q \in batch'[v]
    <3>1. \A p \in InFlight' : p \in InFlight /\ claimedAt'[p] = claimedAt[p]
      BY <1>2, <1>3, <1>7
    <3>. QED BY <2>1, <2>3, <3>1 DEF LiveInv
  <2>5. \A u \in Workers \ {v} :
          pc'[u] \in {"publishing", "marking"} => batch'[u] \cap batch'[v] = {}
    BY <1>1, <2>1 DEF LiveInv
  <2>. QED BY <2>3, <2>4, <2>5
<1>9. GaplessRuns'
  <2>. SUFFICES ASSUME NEW q \in Rows, NEW r \in Rows, Ahead(q, r)
       PROVE  /\ status'[r] = "publishing" /\ Open(q)' =>
                   status'[q] = "publishing" /\ claimedAt'[q] = claimedAt'[r]
              /\ status'[r] \in {"sent", "deleted"} => status'[q] \in Terminal \cup {"deleted"}
    BY DEF GaplessRuns
  <2>1. \A p \in Rows : p \in batch[w] <=> p \in batch[w] /\ p \in InFlight /\ status[p] = "publishing"
    BY <1>2 DEF InFlight
  <2>2. status[r] = "publishing" /\ Open(q) => (q \in batch[w] <=> r \in batch[w])
    <3>. SUFFICES ASSUME status[r] = "publishing", Open(q) PROVE q \in batch[w] <=> r \in batch[w]
      OBVIOUS
    <3>1. q \in InFlight /\ r \in InFlight /\ claimedAt[q] = claimedAt[r]
      BY DEF GaplessRuns, InFlight
    <3>. QED BY <1>1, <3>1 DEF LiveInv
  <2>3. ASSUME status'[r] = "publishing", Open(q)'
        PROVE  status'[q] = "publishing" /\ claimedAt'[q] = claimedAt'[r]
    <3>1. r \notin batch[w] /\ status[r] = "publishing"
      BY <1>3, <1>4, <2>3
    <3>2. Open(q)
      BY <1>3, <2>1, <2>3 DEF Open
    <3>3. q \notin batch[w]
      BY <2>2, <3>1, <3>2
    <3>. QED BY <1>3, <3>1, <3>2, <3>3 DEF GaplessRuns
  <2>4. ASSUME status'[r] \in {"sent", "deleted"}
        PROVE  status'[q] \in Terminal \cup {"deleted"}
    <3>1. CASE r \notin batch[w]
      <4>1. status[q] \in Terminal \cup {"deleted"}
        BY <1>3, <2>4, <3>1 DEF GaplessRuns
      <4>. QED BY <4>1, TerminalStep
    <3>2. CASE r \in batch[w]
      <4>1. status[r] = "publishing" /\ MarkedStatus(w, r) = "sent"
        BY <1>3, <1>4, <2>1, <2>4, <3>2
      <4>2. ~Skipped(w, r)
        BY <4>1 DEF MarkedStatus
      <4>3. CASE Open(q)
        <5>1. q \in batch[w]
          BY <2>2, <3>2, <4>1, <4>3
        <5>2. outcome[w][q] # "failed" /\ ~Skipped(w, q)
          BY <3>2, <4>2, <5>1, SkipSpreads
        <5>3. MarkedStatus(w, q) \in {"rejected", "sent"}
          BY <5>2 DEF MarkedStatus, Pivot
        <5>. QED BY <1>3, <5>1, <5>3 DEF Terminal
      <4>4. CASE ~Open(q)
        <5>1. status[q] \in Terminal \cup {"deleted"}
          BY <4>1, <4>4, AheadIsEnqueued DEF Open
        <5>. QED BY <5>1, TerminalStep
      <4>. QED BY <4>3, <4>4
    <3>. QED BY <3>1, <3>2
  <2>. QED BY <2>3, <2>4
<1>. QED BY <1>5, <1>6, <1>8, <1>9

\* Maintenance: it returns whole claims, and none of a live worker.
LEMMA RequeueKeepsRuns ==
  ASSUME TypeOK, LockInv, RunInv, [Next]_vars, Timely, RequeueStuck
  PROVE  RunInv'
<1>. USE DEF RunInv, TypeOK, table, worker, broker
<1>1. PICK c \in {claimedAt[r] : r \in InFlight} :
        LET stuck == {r \in InFlight : claimedAt[r] <= c} IN
        /\ stuck \cap Held = {}
        /\ status' = [r \in Rows |->
             IF r \in stuck
             THEN IF attempts[r] >= MaxAttempts THEN "dead" ELSE "failed"
             ELSE status[r]]
        /\ claimedAt' = [r \in Rows |-> IF r \in stuck THEN 0 ELSE claimedAt[r]]
  BY DEF RequeueStuck
<1>. DEFINE stuck == {r \in InFlight : claimedAt[r] <= c}
<1>2. /\ stuck \cap Held = {}
      /\ \A r \in Rows : r \in stuck => status[r] = "publishing" /\ status'[r] \in {"failed", "dead"}
      /\ \A r \in Rows : r \notin stuck => status'[r] = status[r] /\ claimedAt'[r] = claimedAt[r]
  BY <1>1 DEF InFlight
<1>3. \A q, r \in InFlight : claimedAt[q] = claimedAt[r] => (q \in stuck <=> r \in stuck)
  OBVIOUS
<1>4. UNCHANGED worker
  BY DEF RequeueStuck
<1>5. EnqueueInv'
  <2>1. \A r \in Rows : status[r] = "absent" <=> status'[r] = "absent"
    BY <1>2
  <2>. QED BY <2>1 DEF EnqueueInv
<1>6. OpenInv'
  BY <1>4, TerminalStep DEF OpenInv
<1>7. InFlight' = InFlight \ stuck
  BY <1>2 DEF InFlight
<1>8. LiveInv'
  <2>1. \A v \in Workers : pc[v] \in {"publishing", "marking"} => batch[v] \cap stuck = {}
    BY <1>2 DEF Held
  <2>2. \A p \in InFlight' : p \in InFlight /\ claimedAt'[p] = claimedAt[p]
    BY <1>2, <1>7 DEF InFlight
  <2>. QED BY <1>4, <1>7, <2>1, <2>2 DEF LiveInv
<1>9. GaplessRuns'
  <2>. SUFFICES ASSUME NEW q \in Rows, NEW r \in Rows, Ahead(q, r)
       PROVE  /\ status'[r] = "publishing" /\ Open(q)' =>
                   status'[q] = "publishing" /\ claimedAt'[q] = claimedAt'[r]
              /\ status'[r] \in {"sent", "deleted"} => status'[q] \in Terminal \cup {"deleted"}
    BY DEF GaplessRuns
  <2>1. ASSUME status'[r] = "publishing", Open(q)'
        PROVE  status'[q] = "publishing" /\ claimedAt'[q] = claimedAt'[r]
    <3>1. r \notin stuck /\ status[r] = "publishing"
      BY <1>2, <2>1
    <3>2. Open(q)
      BY <1>2, <2>1 DEF Open
    <3>3. q \in InFlight /\ r \in InFlight /\ claimedAt[q] = claimedAt[r]
      BY <3>1, <3>2 DEF GaplessRuns, InFlight
    <3>4. q \notin stuck
      BY <1>3, <3>1, <3>3
    <3>. QED BY <1>2, <3>1, <3>3, <3>4 DEF InFlight
  <2>2. ASSUME status'[r] \in {"sent", "deleted"}
        PROVE  status'[q] \in Terminal \cup {"deleted"}
    <3>1. status[q] \in Terminal \cup {"deleted"}
      BY <1>2, <2>2 DEF GaplessRuns
    <3>. QED BY <3>1, TerminalStep
  <2>. QED BY <2>1, <2>2
<1>. QED BY <1>5, <1>6, <1>8, <1>9

\* With serialized producers and while no live worker outlives the publishing
\* timeout, every claim is a gapless run, whichever workers race, crash or are
\* requeued, and a run is finished in order in the table.
THEOREM RunsGapless == Serialized /\ Timely => (Spec => []GaplessRuns)
<1>. SUFFICES ASSUME Serialized, Timely PROVE Spec => []GaplessRuns
  OBVIOUS
<1>1. Init => RunInv
  BY DEF Init, RunInv, EnqueueInv, OpenInv, LiveInv, GaplessRuns
<1>2. TypeOK /\ LockInv /\ AnswerInv /\ RunInv /\ [Next]_vars => RunInv'
  <2>. SUFFICES ASSUME TypeOK, LockInv, AnswerInv, RunInv, [Next]_vars PROVE RunInv'
    OBVIOUS
  <2>1. CASE UNCHANGED vars
    BY <2>1 DEF vars, table, worker, broker, RunInv, EnqueueInv, OpenInv, LiveInv, GaplessRuns,
                Open, InFlight
  <2>. QED
    BY <2>1, ProducerKeepsRuns, QuietKeepsRuns, ClaimKeepsRuns, MarkKeepsRuns, RequeueKeepsRuns
       DEF Next, WorkerStep
<1>3. RunInv => GaplessRuns
  BY DEF RunInv
<1>. QED BY <1>1, <1>2, <1>3, TypeCorrect, LocksHold, AnswersHold, PTL DEF Spec

-----------------------------------------------------------------------------
(* Late marks *)

\* What markOutboxFailedTx is documented to rule out is ruled out by the timeout and
\* by nothing else: while no live worker outlives it, no mark touches a row that
\* another worker's claim holds.
THEOREM MarksSpareReclaimed == Timely => (Spec => LateMarkSparesReclaimed)
<1>. SUFFICES ASSUME Timely PROVE Spec => LateMarkSparesReclaimed
  OBVIOUS
<1>. DEFINE Spares == \A w \in Workers, r \in Rows :
       pc[w] = "marking" /\ pc'[w] = "idle" /\ crashes' = crashes
         /\ holder[r] \notin {w, Nobody}
         => status'[r] = status[r]
<1>1. Init => OwnerInv
  BY DEF Init, OwnerInv
<1>2. TypeOK /\ LockInv /\ OwnerInv /\ [Next]_vars => OwnerInv'
  <2>. SUFFICES ASSUME TypeOK, LockInv, OwnerInv, [Next]_vars PROVE OwnerInv'
    OBVIOUS
  <2>. USE DEF TypeOK, table, worker, broker
  <2>1. ASSUME NEW r \in Rows, Enqueue(r) \/ BackoffElapses(r) \/ CollectSent(r) PROVE OwnerInv'
    BY <2>1 DEF Enqueue, BackoffElapses, CollectSent, OwnerInv
  <2>2. ASSUME NEW w \in Workers, ClaimSnapshot(w) \/ ClaimLock(w) \/ PublishBatch(w) \/ Crash(w)
        PROVE  OwnerInv'
    <3>1. UNCHANGED <<status, holder>> /\ \A v \in Workers : v # w => pc'[v] = pc[v] /\ batch'[v] = batch[v]
      BY <2>2 DEF ClaimSnapshot, ClaimLock, PublishBatch, Crash
    <3>2. CASE pc'[w] \in {"publishing", "marking"}
      <4>1. pc[w] = "publishing" /\ batch' = batch
        BY <2>2, <3>2 DEF ClaimSnapshot, ClaimLock, PublishBatch, Crash
      <4>. QED BY <3>1, <4>1 DEF OwnerInv
    <3>. QED BY <3>1, <3>2 DEF OwnerInv
  <2>3. ASSUME NEW w \in Workers, PublishNext(w) PROVE OwnerInv'
    <3>1. /\ UNCHANGED <<batch, status, holder>> /\ pc[w] = "publishing"
          /\ \A v \in Workers : v # w => pc'[v] = pc[v]
      BY <2>3 DEF PublishNext
    <3>. QED BY <3>1 DEF OwnerInv
  <2>4. ASSUME NEW w \in Workers, ClaimCommit(w) PROVE OwnerInv'
    <3>. DEFINE ready == {r \in batch[w] : PostFilter(w, r)}
    <3>1. /\ \A r \in Rows : status'[r] = IF r \in ready THEN "publishing" ELSE status[r]
          /\ \A r \in Rows : holder'[r] = IF r \in ready THEN w ELSE holder[r]
          /\ batch'[w] = ready
          /\ \A v \in Workers : v # w => pc'[v] = pc[v] /\ batch'[v] = batch[v]
      BY <2>4 DEF ClaimCommit
    <3>2. \A r \in ready : status[r] # "publishing"
      BY <2>4 DEF ClaimCommit, LockInv, Claimable
    <3>. QED BY <3>1, <3>2 DEF OwnerInv
  <2>5. ASSUME NEW w \in Workers, Mark(w) PROVE OwnerInv'
    <3>1. /\ pc[w] = "marking" /\ pc'[w] = "idle"
          /\ \A v \in Workers : v # w => pc'[v] = pc[v] /\ batch'[v] = batch[v]
          /\ \A r \in Rows \ batch[w] : status'[r] = status[r] /\ holder'[r] = holder[r]
      BY <2>5 DEF Mark, Markable
    <3>2. \A v \in Workers : v # w /\ pc[v] \in {"publishing", "marking"} => batch[v] \cap batch[w] = {}
      BY <3>1 DEF OwnerInv
    <3>. QED BY <3>1, <3>2 DEF OwnerInv
  <2>6. ASSUME RequeueStuck PROVE OwnerInv'
    <3>1. /\ UNCHANGED worker
          /\ \A r \in Held : status'[r] = status[r] /\ holder'[r] = holder[r]
      BY <2>6 DEF RequeueStuck, Held
    <3>. QED BY <3>1 DEF OwnerInv, Held
  <2>7. CASE UNCHANGED vars
    BY <2>7 DEF vars, OwnerInv
  <2>. QED BY <2>1, <2>2, <2>3, <2>4, <2>5, <2>6, <2>7 DEF Next, WorkerStep
<1>3. TypeOK /\ LockInv /\ OwnerInv /\ [Next]_vars => Spares
  <2>. SUFFICES ASSUME TypeOK, OwnerInv, [Next]_vars, NEW w \in Workers, NEW r \in Rows,
                       pc[w] = "marking", pc'[w] = "idle", crashes' = crashes,
                       holder[r] \notin {w, Nobody}
       PROVE  status'[r] = status[r]
    OBVIOUS
  <2>. USE DEF TypeOK, table, worker, broker
  <2>1. r \notin batch[w]
    BY DEF OwnerInv
  <2>2. CASE Mark(w)
    BY <2>1, <2>2 DEF Mark, Markable
  <2>3. ASSUME NEW v \in Workers, v # w, WorkerStep(v) PROVE FALSE
    BY <2>3 DEF WorkerStep, ClaimSnapshot, ClaimLock, ClaimCommit, PublishBatch, PublishNext, Mark
  <2>4. ASSUME NEW v \in Workers, Crash(v) PROVE FALSE
    BY <2>4, ConstantsOK DEF Crash, ConstantsOK
  <2>5. ASSUME ClaimSnapshot(w) \/ ClaimLock(w) \/ ClaimCommit(w) \/ PublishBatch(w) \/ PublishNext(w)
        PROVE  FALSE
    BY <2>5 DEF ClaimSnapshot, ClaimLock, ClaimCommit, PublishBatch, PublishNext
  <2>6. ASSUME RequeueStuck \/ UNCHANGED vars PROVE FALSE
    BY <2>6 DEF RequeueStuck, vars
  <2>7. ASSUME NEW q \in Rows, Enqueue(q) \/ BackoffElapses(q) \/ CollectSent(q) PROVE FALSE
    BY <2>7 DEF Enqueue, BackoffElapses, CollectSent
  <2>. QED BY <2>2, <2>3, <2>4, <2>5, <2>6, <2>7 DEF Next, WorkerStep
<1>4. TypeOK /\ LockInv /\ OwnerInv /\ [Next]_vars => [Spares]_vars
  BY <1>3
<1>. QED BY <1>1, <1>2, <1>4, TypeCorrect, LocksHold, PTL DEF Spec, LateMarkSparesReclaimed
=============================================================================
