-------------------------------- MODULE Timer --------------------------------
(***************************************************************************)
(* Durable timers: the table keiro_timers (keiro/src/Keiro/Timer/          *)
(* Schema.hs), the workers that claim and fire due timers (keiro/src/      *)
(* Keiro/Timer.hs), the operator's transitions, and the foreground         *)
(* sessions that resume a dead timer under a lease.                        *)
(*                                                                         *)
(* Every table operation is one statement (or a row lock and a statement), *)
(* hence one step.  The fire action runs outside every transaction: a      *)
(* worker may outlive its claim, which carries no identity.                *)
(***************************************************************************)
EXTENDS Integers, FiniteSets

CONSTANTS
  Timers,
  Workers,
  Sessions,      \* foreground resume sessions
  Ceiling,       \* maxAttempts of the workers
  ResumeCeiling, \* maxAttempts of the foreground claims
  Rescheduling,  \* process managers push deadlines back
  MaxCrashes     \* bound: how many crashes a behaviour has

ASSUME ConstantsOK ==
  /\ Ceiling \in Nat
  /\ ResumeCeiling \in Nat
  /\ Rescheduling \in BOOLEAN
  /\ MaxCrashes \in Nat
  /\ "none" \notin Timers \cup Workers \cup Sessions

VARIABLES
  status,   \* the status column, "absent" before the first schedule
  attempts, \* the attempts column
  due,      \* fire_at <= now
  stale,    \* updated_at of the claim is requeueStuckAfter old
  token,    \* resume_claim_token: the session that holds the row
  live,     \* resume_lease_until > now
  pc,       \* where the worker is in its pass
  job,      \* the timer it claimed
  hold,     \* the timer the session believes to hold
  running,  \* the lease the session was granted has not run out
  holder,   \* history: the worker of the row's latest ordinary claim
  fires,    \* history: ordinary fire actions started for the timer
  crashes   \* how many workers and sessions have crashed

row == <<status, attempts, due, stale, token, live>>
pass == <<pc, job>>
session == <<hold, running>>
vars == <<row, pass, session, holder, fires, crashes>>

Statuses == {"absent", "scheduled", "firing", "fired", "cancelled", "dead"}
Settled == {"fired", "cancelled", "dead"}
Phases == {"idle", "requeue", "claim", "over", "firing", "mark"}
None == "none"

\* The guard of the ordinary transitions: the row is in one of the states, and
\* no foreground session owns it.
Ordinary(t, from) == status[t] \in from /\ token[t] = None

-----------------------------------------------------------------------------
Init ==
  /\ status = [t \in Timers |-> "absent"]
  /\ attempts = [t \in Timers |-> 0]
  /\ due = [t \in Timers |-> FALSE]
  /\ stale = [t \in Timers |-> FALSE]
  /\ token = [t \in Timers |-> None]
  /\ live = [t \in Timers |-> FALSE]
  /\ pc = [w \in Workers |-> "idle"]
  /\ job = [w \in Workers |-> None]
  /\ hold = [s \in Sessions |-> None]
  /\ running = [s \in Sessions |-> FALSE]
  /\ holder = [t \in Timers |-> None]
  /\ fires = [t \in Timers |-> 0]
  /\ crashes = 0

\* Mutant: the upsert is not limited to scheduled rows.
Armable_Any == {"absent", "scheduled", "firing", "fired", "cancelled", "dead"}

\* The statuses a schedule takes effect in.
Armable == {"absent"} \cup (IF Rescheduling THEN {"scheduled"} ELSE {})

\* scheduleTimerTx, and scheduleTimerOnceTx for a new timer. On a row in any
\* other state they change nothing.
Schedule(t) ==
  /\ status[t] \in Armable
  /\ status' = [status EXCEPT ![t] = "scheduled"]
  /\ due' = [due EXCEPT ![t] = FALSE]
  /\ UNCHANGED <<attempts, stale, token, live, pass, session, holder, fires, crashes>>

(* Time passes. *)

BecomesDue(t) ==
  /\ status[t] = "scheduled"
  /\ ~due[t]
  /\ due' = [due EXCEPT ![t] = TRUE]
  /\ UNCHANGED <<status, attempts, stale, token, live, pass, session, holder, fires, crashes>>

GoesStale(t) ==
  /\ Ordinary(t, {"firing"})
  /\ ~stale[t]
  /\ stale' = [stale EXCEPT ![t] = TRUE]
  /\ UNCHANGED <<status, attempts, due, token, live, pass, session, holder, fires, crashes>>

\* The lease on the row runs out, and so does the one granted to its owner.
LeaseExpires(t) ==
  /\ live[t]
  /\ live' = [live EXCEPT ![t] = FALSE]
  /\ running' = [s \in Sessions |-> running[s] /\ ~(hold[s] = t /\ token[t] = s)]
  /\ UNCHANGED <<status, attempts, due, stale, token, pass, hold, holder, fires, crashes>>

-----------------------------------------------------------------------------
(* A worker pass: timerPassPreamble, then claimAndFireOne up to the limit. *)

\* Mutant: a foreground claim is recovered before its lease has run out.
Expired_Owned == {t \in Timers : status[t] = "firing" /\ token[t] # None}

Expired == {t \in Timers : status[t] = "firing" /\ token[t] # None /\ ~live[t]}

\* recoverExpiredTimerResumes re-parks expired foreground claims.
RecoverExpired ==
  /\ status' = [t \in Timers |-> IF t \in Expired THEN "dead" ELSE status[t]]
  /\ token' = [t \in Timers |-> IF t \in Expired THEN None ELSE token[t]]
  /\ live' = [t \in Timers |-> t \notin Expired /\ live[t]]
  /\ UNCHANGED <<attempts, due, stale>>

\* A foreground-only host runs the recovery on its own.
HostRecovers ==
  /\ Expired # {}
  /\ RecoverExpired
  /\ UNCHANGED <<pass, session, holder, fires, crashes>>

StartPass(w) ==
  /\ pc[w] = "idle"
  /\ pc' = [pc EXCEPT ![w] = "requeue"]
  /\ RecoverExpired
  /\ UNCHANGED <<job, session, holder, fires, crashes>>

\* Mutant: timers beyond the ceiling are not requeued.
Stuck_WithinCeiling ==
  {t \in Timers : Ordinary(t, {"firing"}) /\ stale[t] /\ attempts[t] <= Ceiling}

Stuck == {t \in Timers : Ordinary(t, {"firing"}) /\ stale[t]}

RequeueStuckTimers(w) ==
  /\ pc[w] = "requeue"
  /\ pc' = [pc EXCEPT ![w] = "claim"]
  /\ status' = [t \in Timers |-> IF t \in Stuck THEN "scheduled" ELSE status[t]]
  /\ stale' = [t \in Timers |-> t \notin Stuck /\ stale[t]]
  /\ UNCHANGED <<attempts, due, token, live, job, session, holder, fires, crashes>>

\* Mutant: the ceiling is compared with the count before the claim.
Exceeds_BeforeClaim(n) == n - 1 > Ceiling

\* The post-claim count n is beyond the ceiling.
Exceeds(n) == n > Ceiling

Claimable == {t \in Timers : status[t] = "scheduled" /\ due[t]}

\* claimDueTimer takes the earliest due timer that is not locked, and any timer
\* may be that one: the fire action is entered at once unless the row's count
\* exceeds the ceiling.
ClaimDueTimer(w, t) ==
  /\ pc[w] = "claim"
  /\ t \in Claimable
  /\ status' = [status EXCEPT ![t] = "firing"]
  /\ attempts' = [attempts EXCEPT ![t] = @ + 1]
  /\ stale' = [stale EXCEPT ![t] = FALSE]
  /\ holder' = [holder EXCEPT ![t] = w]
  /\ job' = [job EXCEPT ![w] = t]
  /\ IF Exceeds(attempts[t] + 1)
     THEN pc' = [pc EXCEPT ![w] = "over"] /\ UNCHANGED fires
     ELSE /\ pc' = [pc EXCEPT ![w] = "firing"]
          /\ fires' = [fires EXCEPT ![t] = @ + 1]
  /\ UNCHANGED <<due, token, live, session, crashes>>

\* Mutant: the timer is forgotten, the phase is not.
NextTimer_Stays(w) == UNCHANGED pc /\ job' = [job EXCEPT ![w] = None]

\* The claimed timer is done with; the drain's limit decides what comes next.
NextTimer(w) ==
  /\ \E phase \in {"claim", "idle"} : pc' = [pc EXCEPT ![w] = phase]
  /\ job' = [job EXCEPT ![w] = None]

NothingDue(w) ==
  /\ pc[w] = "claim"
  /\ Claimable = {}
  /\ pc' = [pc EXCEPT ![w] = "idle"]
  /\ UNCHANGED <<row, job, session, holder, fires, crashes>>

FireProduces(w) ==
  /\ pc[w] = "firing"
  /\ pc' = [pc EXCEPT ![w] = "mark"]
  /\ UNCHANGED <<row, job, session, holder, fires, crashes>>

\* The action returns Nothing, or throws out of the pass: the row stays firing.
FireDeclines(w) ==
  /\ pc[w] = "firing"
  /\ NextTimer(w)
  /\ UNCHANGED <<row, session, holder, fires, crashes>>

\* Set the status of t unless the guard refuses.
Move(t, from, to) ==
  /\ status' = [status EXCEPT ![t] = IF Ordinary(t, from) THEN to ELSE @]
  /\ stale' = [stale EXCEPT ![t] = @ /\ ~Ordinary(t, from)]

MarkTimerFired(w) ==
  /\ pc[w] = "mark"
  /\ Move(job[w], {"firing"}, "fired")
  /\ NextTimer(w)
  /\ UNCHANGED <<attempts, due, token, live, session, holder, fires, crashes>>

DeadLetterExceeded(w) ==
  /\ pc[w] = "over"
  /\ Move(job[w], {"scheduled", "firing"}, "dead")
  /\ NextTimer(w)
  /\ UNCHANGED <<attempts, due, token, live, session, holder, fires, crashes>>

CrashWorker(w) ==
  /\ pc[w] # "idle"
  /\ crashes < MaxCrashes
  /\ crashes' = crashes + 1
  /\ pc' = [pc EXCEPT ![w] = "idle"]
  /\ job' = [job EXCEPT ![w] = None]
  /\ UNCHANGED <<row, session, holder, fires>>

-----------------------------------------------------------------------------
(* The operator's transitions: cancelTimer, deadLetterTimer, requeueStuckTimer. *)

Operate(t) ==
  /\ \/ Ordinary(t, {"scheduled", "firing"}) /\ Move(t, {"scheduled", "firing"}, "cancelled")
     \/ Ordinary(t, {"scheduled", "firing"}) /\ Move(t, {"scheduled", "firing"}, "dead")
     \/ Ordinary(t, {"firing"}) /\ Move(t, {"firing"}, "scheduled")
  /\ UNCHANGED <<attempts, due, token, live, pass, session, holder, fires, crashes>>

-----------------------------------------------------------------------------
(* Foreground resume of a dead timer *)

ClaimDeadTimer(s, t) ==
  /\ hold[s] = None
  /\ status[t] = "dead"
  /\ attempts[t] < ResumeCeiling
  /\ status' = [status EXCEPT ![t] = "firing"]
  /\ attempts' = [attempts EXCEPT ![t] = @ + 1]
  /\ token' = [token EXCEPT ![t] = s]
  /\ live' = [live EXCEPT ![t] = TRUE]
  /\ hold' = [hold EXCEPT ![s] = t]
  /\ running' = [running EXCEPT ![s] = TRUE]
  /\ UNCHANGED <<due, stale, pass, holder, fires, crashes>>

\* The guard of mutateTimerResumeStmt.
Owns(s, t) == token[t] = s /\ status[t] = "firing" /\ live[t]

Forget(s) ==
  /\ hold' = [hold EXCEPT ![s] = None]
  /\ running' = [running EXCEPT ![s] = FALSE]

\* completeTimerResume, cancelTimerResume and parkTimerResume; refused, they
\* change nothing and the session knows it lost the row.
FinishResume(s) ==
  /\ hold[s] # None
  /\ LET t == hold[s] IN
       IF Owns(s, t)
       THEN /\ \E to \in Settled : status' = [status EXCEPT ![t] = to]
            /\ token' = [token EXCEPT ![t] = None]
            /\ live' = [live EXCEPT ![t] = FALSE]
       ELSE UNCHANGED <<status, token, live>>
  /\ Forget(s)
  /\ UNCHANGED <<attempts, due, stale, pass, holder, fires, crashes>>

\* renewTimerResume is refused. (Granted, it keeps the lease as it is.)
RenewRefused(s) ==
  /\ hold[s] # None
  /\ ~Owns(s, hold[s])
  /\ Forget(s)
  /\ UNCHANGED <<row, pass, holder, fires, crashes>>

CrashSession(s) ==
  /\ hold[s] # None
  /\ crashes < MaxCrashes
  /\ crashes' = crashes + 1
  /\ Forget(s)
  /\ UNCHANGED <<row, pass, holder, fires>>

-----------------------------------------------------------------------------
WorkerStep(w) ==
  \/ StartPass(w) \/ RequeueStuckTimers(w)
  \/ \E t \in Timers : ClaimDueTimer(w, t)
  \/ NothingDue(w) \/ FireProduces(w) \/ FireDeclines(w)
  \/ MarkTimerFired(w) \/ DeadLetterExceeded(w)

SessionStep(s) == FinishResume(s) \/ RenewRefused(s)

Tick(t) == BecomesDue(t) \/ GoesStale(t) \/ LeaseExpires(t)

Next ==
  \/ \E t \in Timers : Schedule(t) \/ Tick(t) \/ Operate(t)
  \/ \E w \in Workers : WorkerStep(w) \/ CrashWorker(w)
  \/ \E s \in Sessions : SessionStep(s) \/ CrashSession(s)
  \/ \E s \in Sessions, t \in Timers : ClaimDeadTimer(s, t)
  \/ HostRecovers

Spec == Init /\ [][Next]_vars

\* Time passes, the worker loop keeps running passes and every step of a pass
\* ends. Nothing is assumed of the operator and of the foreground sessions.
FairSpec ==
  /\ Spec
  /\ \A t \in Timers : WF_vars(Tick(t))
  /\ \A w \in Workers : WF_vars(WorkerStep(w))

-----------------------------------------------------------------------------
(* Correctness *)

TypeOK ==
  /\ status \in [Timers -> Statuses]
  /\ attempts \in [Timers -> Nat]
  /\ due \in [Timers -> BOOLEAN]
  /\ stale \in [Timers -> BOOLEAN]
  /\ token \in [Timers -> Sessions \cup {None}]
  /\ live \in [Timers -> BOOLEAN]
  /\ pc \in [Workers -> Phases]
  /\ job \in [Workers -> Timers \cup {None}]
  /\ \A w \in Workers : pc[w] \in {"over", "firing", "mark"} => job[w] \in Timers
  /\ hold \in [Sessions -> Timers \cup {None}]
  /\ running \in [Sessions -> BOOLEAN]
  /\ holder \in [Timers -> Workers \cup {None}]
  /\ fires \in [Timers -> Nat]
  /\ crashes \in 0 .. MaxCrashes

\* A session whose lease has not run out owns its row (TimerResumeClaim): no
\* late worker, requeue, recovery or operator has moved it.
LiveLeaseHolds ==
  \A s \in Sessions : running[s] => Owns(s, hold[s])

\* Ownership columns are set together and only on a firing row: a row in any
\* other state can be claimed, cancelled or resumed again.
OwnedIsFiring ==
  \A t \in Timers :
    /\ token[t] # None => status[t] = "firing"
    /\ live[t] => token[t] # None

\* "With Just 2 the third claim" dead-letters (runTimerWorkerWith): whatever
\* crashes, stalls and requeues happen, workers start the fire action at most
\* Ceiling times.
FiresWithinCeiling == \A t \in Timers : fires[t] <= Ceiling

\* Fired and cancelled timers stay so, and only a foreground claim takes a dead
\* one up again: a late mark or dead-letter, a requeue or a reschedule does not.
SettledIsFinal ==
  [][\A t \in Timers :
       /\ status[t] \in {"fired", "cancelled"} => status'[t] = status[t]
       /\ status[t] = "dead" => status'[t] = "dead" \/ token'[t] # None]_vars

\* A process manager pushes back the deadline of a due timer.
Postponed(t) ==
  due[t] /\ ~due'[t] /\ status[t] = "scheduled" /\ status'[t] = "scheduled"

\* Every scheduled timer ends up settled for good, unless it is pushed back for
\* ever: requeue and lease recovery bring back the claim of a worker or session
\* that crashed or stalled.
EverySettled ==
  (\A t \in Timers : <>[][~Postponed(t)]_vars) =>
    \A t \in Timers : status[t] = "scheduled" ~> [](status[t] \in Settled)
=============================================================================
