---------------------------- MODULE Timer_proofs ----------------------------
(***************************************************************************)
(* Proofs about Timer, for any number of timers, workers and sessions.     *)
(***************************************************************************)
EXTENDS Timer, TLAPS

\* What the table's columns and the workers' state can be (TypeOK of Timer).
THEOREM TypeCorrect == Spec => []TypeOK
<1>1. Init => TypeOK
  BY ConstantsOK DEF ConstantsOK, Init, TypeOK, Statuses, Phases, None
<1>2. TypeOK /\ [Next]_vars => TypeOK'
  <2>. SUFFICES ASSUME TypeOK, [Next]_vars PROVE TypeOK'
    OBVIOUS
  <2>. USE ConstantsOK DEF ConstantsOK, TypeOK, Statuses, Phases, Settled, None
  <2>1. ASSUME NEW t \in Timers, Schedule(t) PROVE TypeOK'
    BY <2>1 DEF Schedule, pass, session
  <2>2. ASSUME NEW t \in Timers, Tick(t) PROVE TypeOK'
    <3>1. CASE BecomesDue(t)
      BY <3>1 DEF BecomesDue, pass, session
    <3>2. CASE GoesStale(t)
      BY <3>2 DEF GoesStale, pass, session
    <3>3. CASE LeaseExpires(t)
      BY <3>3 DEF LeaseExpires, pass
    <3>. QED BY <2>2, <3>1, <3>2, <3>3 DEF Tick
  <2>3. ASSUME NEW t \in Timers, Operate(t) PROVE TypeOK'
    BY <2>3 DEF Operate, Move, pass, session
  <2>4. ASSUME NEW w \in Workers, WorkerStep(w) PROVE TypeOK'
    <3>1. CASE StartPass(w)
      BY <3>1 DEF StartPass, RecoverExpired, session
    <3>2. CASE RequeueStuckTimers(w)
      BY <3>2 DEF RequeueStuckTimers, session
    <3>3. ASSUME NEW t \in Timers, ClaimDueTimer(w, t) PROVE TypeOK'
      BY <3>3 DEF ClaimDueTimer, session
    <3>4. CASE NothingDue(w)
      BY <3>4 DEF NothingDue, row, session
    <3>5. CASE FireProduces(w)
      BY <3>5 DEF FireProduces, row, session
    <3>6. CASE FireDeclines(w)
      BY <3>6 DEF FireDeclines, NextTimer, row, session
    <3>7. CASE MarkTimerFired(w)
      BY <3>7 DEF MarkTimerFired, Move, NextTimer, session
    <3>8. CASE DeadLetterExceeded(w)
      BY <3>8 DEF DeadLetterExceeded, Move, NextTimer, session
    <3>. QED BY <2>4, <3>1, <3>2, <3>3, <3>4, <3>5, <3>6, <3>7, <3>8 DEF WorkerStep
  <2>5. ASSUME NEW w \in Workers, CrashWorker(w) PROVE TypeOK'
    BY <2>5 DEF CrashWorker, row, session
  <2>6. ASSUME NEW s \in Sessions, FinishResume(s) PROVE TypeOK'
    <3>1. CASE Owns(s, hold[s])
      <4>1. PICK to \in Settled : status' = [status EXCEPT ![hold[s]] = to]
        BY <2>6, <3>1 DEF FinishResume
      <4>. QED BY <2>6, <3>1, <4>1 DEF FinishResume, Forget, pass
    <3>2. CASE ~Owns(s, hold[s])
      BY <2>6, <3>2 DEF FinishResume, Forget, pass
    <3>. QED BY <3>1, <3>2
  <2>7. ASSUME NEW s \in Sessions, RenewRefused(s) PROVE TypeOK'
    BY <2>7 DEF RenewRefused, Forget, row, pass
  <2>8. ASSUME NEW s \in Sessions, CrashSession(s) PROVE TypeOK'
    BY <2>8 DEF CrashSession, Forget, row, pass
  <2>9. ASSUME NEW s \in Sessions, NEW t \in Timers, ClaimDeadTimer(s, t) PROVE TypeOK'
    BY <2>9 DEF ClaimDeadTimer, pass
  <2>10. CASE HostRecovers
    BY <2>10 DEF HostRecovers, RecoverExpired, pass, session
  <2>11. CASE UNCHANGED vars
    BY <2>11 DEF vars, row, pass, session
  <2>12. Next \/ UNCHANGED vars
    OBVIOUS
  <2>. HIDE DEF TypeOK
  <2>. QED
    BY <2>1, <2>2, <2>3, <2>4, <2>5, <2>6, <2>7, <2>8, <2>9, <2>10, <2>11, <2>12
      DEF Next, SessionStep
<1>. QED BY <1>1, <1>2, PTL DEF Spec

-----------------------------------------------------------------------------
(* The fire action and the attempt ceiling *)

\* Every fire action was paid for by an attempt, and none was started beyond the
\* ceiling: attempts never decrease, so the claim's check is enough.
FireInv == \A t \in Timers : fires[t] <= attempts[t] /\ fires[t] <= Ceiling

LEMMA FireInvInvariant == Spec => []FireInv
<1>1. Init => FireInv
  BY ConstantsOK DEF ConstantsOK, Init, FireInv
<1>2. TypeOK /\ FireInv /\ [Next]_vars => FireInv'
  <2>. SUFFICES ASSUME TypeOK, FireInv, [Next]_vars PROVE FireInv'
    OBVIOUS
  <2>. USE ConstantsOK DEF ConstantsOK, TypeOK, FireInv
  <2>1. ASSUME UNCHANGED <<attempts, fires>> PROVE FireInv'
    BY <2>1
  <2>2. ASSUME NEW w \in Workers, NEW t \in Timers, ClaimDueTimer(w, t) PROVE FireInv'
    BY <2>2 DEF ClaimDueTimer, Exceeds
  <2>3. ASSUME NEW s \in Sessions, NEW t \in Timers, ClaimDeadTimer(s, t) PROVE FireInv'
    BY <2>3 DEF ClaimDeadTimer
  <2>4. ASSUME NEW w \in Workers, WorkerStep(w) PROVE FireInv'
    <3>1. CASE \E t \in Timers : ClaimDueTimer(w, t)
      BY <3>1, <2>2
    <3>2. CASE StartPass(w)
      BY <3>2, <2>1 DEF StartPass, RecoverExpired
    <3>3. CASE RequeueStuckTimers(w)
      BY <3>3, <2>1 DEF RequeueStuckTimers
    <3>4. CASE NothingDue(w) \/ FireProduces(w) \/ FireDeclines(w)
      BY <3>4, <2>1 DEF NothingDue, FireProduces, FireDeclines, row
    <3>5. CASE MarkTimerFired(w) \/ DeadLetterExceeded(w)
      BY <3>5, <2>1 DEF MarkTimerFired, DeadLetterExceeded
    <3>. QED BY <2>4, <3>1, <3>2, <3>3, <3>4, <3>5 DEF WorkerStep
  <2>5. ASSUME NEW t \in Timers, Schedule(t) \/ Tick(t) \/ Operate(t) PROVE FireInv'
    BY <2>5, <2>1 DEF Schedule, Tick, BecomesDue, GoesStale, LeaseExpires, Operate
  <2>6. ASSUME NEW w \in Workers, CrashWorker(w) PROVE FireInv'
    BY <2>6, <2>1 DEF CrashWorker, row
  <2>7. ASSUME NEW s \in Sessions, SessionStep(s) \/ CrashSession(s) PROVE FireInv'
    BY <2>7, <2>1 DEF SessionStep, FinishResume, RenewRefused, CrashSession, row
  <2>8. CASE HostRecovers
    BY <2>8, <2>1 DEF HostRecovers, RecoverExpired
  <2>9. CASE UNCHANGED vars
    BY <2>9, <2>1 DEF vars, row
  <2>. QED
    BY <2>3, <2>4, <2>5, <2>6, <2>7, <2>8, <2>9 DEF Next
<1>. QED BY <1>1, <1>2, TypeCorrect, PTL DEF Spec

\* Whatever crashes, stalls and requeues happen, the workers start the fire
\* action of a timer at most Ceiling times (runTimerWorkerWith).
THEOREM FiresBounded == Spec => []FiresWithinCeiling
<1>1. FireInv => FiresWithinCeiling
  BY DEF FireInv, FiresWithinCeiling
<1>. QED BY <1>1, FireInvInvariant, PTL

-----------------------------------------------------------------------------
(* Foreground ownership *)

\* A granted lease that has not run out is the row's lease; ownership columns
\* stand only on firing rows.
LeaseInv == OwnedIsFiring /\ LiveLeaseHolds /\ \A s \in Sessions : running[s] => hold[s] \in Timers

LEMMA LeaseInvInvariant == Spec => []LeaseInv
<1>. USE ConstantsOK DEF ConstantsOK, LeaseInv, OwnedIsFiring, LiveLeaseHolds, Owns, None
<1>1. Init => LeaseInv
  BY DEF Init
<1>2. TypeOK /\ LeaseInv /\ [Next]_vars => LeaseInv'
  <2>. SUFFICES ASSUME TypeOK, LeaseInv, [Next]_vars PROVE LeaseInv'
    OBVIOUS
  <2>. USE DEF TypeOK
  <2>1. ASSUME UNCHANGED <<token, live, session>>,
               \A t \in Timers : token[t] # None => status'[t] = status[t]
        PROVE  LeaseInv'
    BY <2>1 DEF session
  <2>2. ASSUME RecoverExpired, UNCHANGED session PROVE LeaseInv'
    BY <2>2 DEF RecoverExpired, Expired, session
  <2>3. ASSUME NEW t \in Timers, Schedule(t) PROVE LeaseInv'
    BY <2>1, <2>3 DEF Schedule, Armable
  <2>4. ASSUME NEW t \in Timers, Tick(t) PROVE LeaseInv'
    <3>1. CASE BecomesDue(t) \/ GoesStale(t)
      BY <2>1, <3>1 DEF BecomesDue, GoesStale
    <3>2. CASE LeaseExpires(t)
      <4>1. /\ live' = [live EXCEPT ![t] = FALSE]
            /\ running' = [s \in Sessions |-> running[s] /\ ~(hold[s] = t /\ token[t] = s)]
            /\ UNCHANGED <<status, token, hold>>
        BY <3>2 DEF LeaseExpires
      <4>2. ASSUME NEW s \in Sessions, running'[s] PROVE running[s] /\ hold[s] # t
        BY <4>1, <4>2
      <4>3. OwnedIsFiring'
        BY <4>1
      <4>. QED BY <4>1, <4>2, <4>3
    <3>. QED BY <2>4, <3>1, <3>2 DEF Tick
  <2>5. ASSUME NEW t \in Timers, Operate(t) PROVE LeaseInv'
    BY <2>1, <2>5 DEF Operate, Move, Ordinary
  <2>6. ASSUME NEW w \in Workers, WorkerStep(w) PROVE LeaseInv'
    <3>1. CASE StartPass(w)
      BY <2>2, <3>1 DEF StartPass
    <3>2. CASE RequeueStuckTimers(w)
      BY <2>1, <3>2 DEF RequeueStuckTimers, Stuck, Ordinary
    <3>3. ASSUME NEW t \in Timers, ClaimDueTimer(w, t) PROVE LeaseInv'
      BY <2>1, <3>3 DEF ClaimDueTimer, Claimable
    <3>4. CASE NothingDue(w) \/ FireProduces(w) \/ FireDeclines(w)
      BY <2>1, <3>4 DEF NothingDue, FireProduces, FireDeclines, row
    <3>5. CASE MarkTimerFired(w)
      BY <2>1, <3>5 DEF MarkTimerFired, Move, Ordinary
    <3>6. CASE DeadLetterExceeded(w)
      BY <2>1, <3>6 DEF DeadLetterExceeded, Move, Ordinary
    <3>. QED BY <2>6, <3>1, <3>2, <3>3, <3>4, <3>5, <3>6 DEF WorkerStep
  <2>7. ASSUME NEW w \in Workers, CrashWorker(w) PROVE LeaseInv'
    BY <2>1, <2>7 DEF CrashWorker, row
  <2>8. ASSUME NEW s \in Sessions, FinishResume(s) PROVE LeaseInv'
    <3>1. CASE Owns(s, hold[s])
      BY <2>8, <3>1 DEF FinishResume, Forget, Settled
    <3>2. CASE ~Owns(s, hold[s])
      BY <2>8, <3>2 DEF FinishResume, Forget
    <3>. QED BY <3>1, <3>2
  <2>9. ASSUME NEW s \in Sessions, RenewRefused(s) \/ CrashSession(s) PROVE LeaseInv'
    BY <2>9 DEF RenewRefused, CrashSession, Forget, row
  <2>10. ASSUME NEW s \in Sessions, NEW t \in Timers, ClaimDeadTimer(s, t) PROVE LeaseInv'
    BY <2>10 DEF ClaimDeadTimer
  <2>11. CASE HostRecovers
    BY <2>2, <2>11 DEF HostRecovers
  <2>12. CASE UNCHANGED vars
    BY <2>1, <2>12 DEF vars, row
  <2>. QED
    BY <2>3, <2>4, <2>5, <2>6, <2>7, <2>8, <2>9, <2>10, <2>11, <2>12
      DEF Next, SessionStep
<1>. QED BY <1>1, <1>2, TypeCorrect, PTL DEF Spec

\* A session whose lease has not run out owns its row, whatever late workers,
\* requeues, recoveries and operators do (mutateTimerResumeStmt).
THEOREM LeaseIsExclusive == Spec => [](LiveLeaseHolds /\ OwnedIsFiring)
<1>1. LeaseInv => LiveLeaseHolds /\ OwnedIsFiring
  BY DEF LeaseInv
<1>. QED BY <1>1, LeaseInvInvariant, PTL

\* Fired and cancelled timers stay so and only a foreground claim takes a dead
\* one up again (the guards of the statements of Timer/Schema.hs).
THEOREM SettledStaysFinal == Spec => SettledIsFinal
<1>. DEFINE Final ==
  \A t \in Timers :
    /\ status[t] \in {"fired", "cancelled"} => status'[t] = status[t]
    /\ status[t] = "dead" => status'[t] = "dead" \/ token'[t] # None
<1>1. TypeOK /\ LeaseInv /\ [Next]_vars => Final
  <2>. SUFFICES ASSUME TypeOK, LeaseInv, [Next]_vars PROVE Final
    OBVIOUS
  <2>. USE ConstantsOK DEF ConstantsOK, TypeOK, None
  <2>1. ASSUME NEW t \in Timers, Schedule(t) PROVE Final
    BY <2>1 DEF Schedule, Armable
  <2>2. ASSUME NEW t \in Timers, Tick(t) PROVE Final
    BY <2>2 DEF Tick, BecomesDue, GoesStale, LeaseExpires
  <2>3. ASSUME NEW t \in Timers, Operate(t) PROVE Final
    BY <2>3 DEF Operate, Move, Ordinary
  <2>4. ASSUME NEW w \in Workers, WorkerStep(w) PROVE Final
    BY <2>4 DEF WorkerStep, StartPass, RecoverExpired, Expired, RequeueStuckTimers, Stuck,
      Ordinary, ClaimDueTimer, Claimable, NothingDue, FireProduces, FireDeclines,
      MarkTimerFired, DeadLetterExceeded, Move, row
  <2>5. ASSUME NEW w \in Workers, CrashWorker(w) PROVE Final
    BY <2>5 DEF CrashWorker, row
  <2>6. ASSUME NEW s \in Sessions, SessionStep(s) \/ CrashSession(s) PROVE Final
    BY <2>6 DEF SessionStep, FinishResume, Owns, RenewRefused, CrashSession, row
  <2>7. ASSUME NEW s \in Sessions, NEW t \in Timers, ClaimDeadTimer(s, t) PROVE Final
    BY <2>7 DEF ClaimDeadTimer
  <2>8. CASE HostRecovers
    BY <2>8 DEF HostRecovers, RecoverExpired, Expired
  <2>9. CASE UNCHANGED vars
    BY <2>9 DEF vars, row
  <2>. QED BY <2>1, <2>2, <2>3, <2>4, <2>5, <2>6, <2>7, <2>8, <2>9 DEF Next
<1>. QED BY <1>1, TypeCorrect, LeaseInvInvariant, PTL DEF Spec, SettledIsFinal
=============================================================================
