------------------------------ MODULE Workflow ------------------------------
(***************************************************************************)
(* One durable workflow: its journal and step index (keiro/src/Keiro/      *)
(* Workflow/Journal.hs, Schema.hs), its instance row (Instance.hs), the    *)
(* runs that replay and extend the journal (Workflow.hs), the resume       *)
(* workers that lease the row (Resume.hs), and its wake sources, sleeps    *)
(* (Sleep.hs) and awakeables (Awakeable.hs).                               *)
(*                                                                         *)
(* The body of the workflow is a fixed list of boundaries that every run   *)
(* passes in order.  At its end a run rotates to the next generation or,   *)
(* in the last one, completes.                                             *)
(*                                                                         *)
(* A transaction that appends a step, or decides whether a run parks, is   *)
(* two steps: what it reads under the advisory lock of the step, and its   *)
(* commit.  The other transactions are one step: nothing that they read    *)
(* can change before they commit.                                          *)
(***************************************************************************)
EXTENDS Integers, FiniteSets

CONSTANTS
  Length,       \* number of boundaries of the body
  Body,         \* Body[i]: the kind of the i-th one
  LastGen,      \* bound: the generation that completes
  Workers,      \* resume workers
  Direct,       \* callers of runWorkflow, which take no lease
  MaxAttempts,  \* maxAttempts of WorkflowResumeOptions
  Snapshotting, \* runs hydrate from snapshots
  Timely,       \* leaseTtl exceeds every stretch between two boundaries
  MaxCrashes,   \* bound: killed runs and workers, and store errors
  MaxInterventions \* bound: resurrections and forced releases by the operator

Boundaries == 1 .. Length
Gens == 0 .. LastGen
Runners == Workers \cup Direct
\* alloc and await are the two halves of awakeableNamed.
Kinds == {"step", "alloc", "await", "sleep"}

ASSUME ConstantsOK ==
  /\ Length \in Nat \ {0}
  /\ Body \in [Boundaries -> Kinds]
  /\ \A i \in Boundaries : Body[i] = "await" => i > 1 /\ Body[i - 1] = "alloc"
  /\ LastGen \in Nat
  /\ Workers \cap Direct = {}
  /\ "nobody" \notin Workers
  /\ MaxAttempts \in Nat \ {0}
  /\ Snapshotting \in BOOLEAN
  /\ Timely \in BOOLEAN
  /\ MaxCrashes \in Nat
  /\ MaxInterventions \in Nat

\* A step key: the i-th boundary as named by generation g. The names of
\* awakeables are unique, those of sleeps are pinned to their generation.
Keys == Gens \X Boundaries
NoKey == <<0, 0>>
Nobody == "nobody"

VARIABLES
  journal,   \* journal[g]: keys of the steps recorded in generation g
  marks,     \* marks[g]: its lifecycle markers
  opened,    \* the highest generation with a step row
  status,    \* status column of the instance row, or "absent"
  attempts,  \* its attempts column, up to MaxAttempts
  paced,     \* next_attempt_at > now
  leasedBy,  \* its leased_by column
  leaseLive, \* lease_expires_at >= now
  wake,      \* the sleep whose deadline is in wake_after, or NoKey
  timer,     \* what has become of the timer of a sleep
  due,       \* timers whose deadline has passed
  promise,   \* status of the row of an awakeable, or "absent"
  sig,       \* the signal under way
  run,       \* where a runner is, the generation it runs, the boundaries it holds the
             \* result of and (history) the actions it started too late
  crashes,
  interventions

log == <<journal, marks, opened>>
lease == <<leasedBy, leaseLive>>
row == <<status, attempts, paced, lease, wake>>
sources == <<timer, due, promise, sig>>
budgets == <<crashes, interventions>>
vars == <<log, row, sources, run, budgets>>

Stopping == {"cancelled", "failed"}
Markers == Stopping \cup {"completed", "continued"}
Terminal == {"completed", "cancelled", "failed"}
Statuses == Terminal \cup {"absent", "running", "suspended"}
Phases == {"idle", "found", "begin", "load", "run", "act", "append", "fresh", "park",
           "suspend", "resume", "ok", "crashed", "fail", "stop"}
\* A worker in these phases is working for the instance.
Driving == Phases \ {"idle", "found"}
\* firing, looked, fresh and delivered: a timer worker is at work on the row.
TimerPhases == {"absent", "scheduled", "firing", "looked", "fresh", "delivered",
                "fired", "cancelled"}
Firing == {"firing", "looked", "fresh", "delivered"}
PromiseStatuses == {"absent", "pending", "completed", "cancelled"}
NotRunning(p) == [pc |-> p, gen |-> 0, map |-> {}, late |-> 0]
NoSignal == [phase |-> "none", key |-> NoKey, gen |-> 0]

Sleeps == {k \in Keys : Body[k[2]] = "sleep"}
Promises == {k \in Keys : Body[k[2]] = "await"}
IsAwait(i) == Body[i] \in {"sleep", "await"}

-----------------------------------------------------------------------------
Init ==
  /\ journal = [g \in Gens |-> {}]
  /\ marks = [g \in Gens |-> {}]
  /\ opened = 0
  /\ status = "absent"
  /\ attempts = 0
  /\ paced = FALSE
  /\ leasedBy = Nobody
  /\ leaseLive = FALSE
  /\ wake = NoKey
  /\ timer = [k \in Sleeps |-> "absent"]
  /\ due = {}
  /\ promise = [k \in Promises |-> "absent"]
  /\ sig = NoSignal
  /\ run = [r \in Runners |-> NotRunning("idle")]
  /\ crashes = 0
  /\ interventions = 0

\* The first boundary that r has no result of is i.
At(r, i) == i \notin run[r].map /\ \A j \in 1 .. i - 1 : j \in run[r].map
AtEnd(r) == run[r].map = Boundaries
Key(r, i) == <<run[r].gen, i>>

\* upsertInstanceTx with a status that is not terminal: a terminal row stays.
Upsert(s) == IF status \in Terminal THEN status ELSE s

\* Mutant: no step is refused and no run is stopped.
Stops_Never(g) == {}

\* terminalMarkersTx: the markers that stop the steps of a generation.
Stops(g) == marks[g] \cap Stopping

\* No transaction holds the advisory lock of key k in generation g.
Free(g, k) ==
  /\ \A r \in Runners, i \in Boundaries :
       run[r].pc \in {"fresh", "suspend", "resume"} /\ At(r, i)
         => <<run[r].gen, Key(r, i)>> # <<g, k>>
  /\ k \in Sleeps /\ timer[k] = "fresh" => g # k[1]
  /\ sig.phase = "fresh" => <<sig.gen, sig.key>> # <<g, k>>

\* A run of a worker ends in phase p, that of a direct caller at once.
EndRun(r, p) == run' = [run EXCEPT ![r] = NotRunning(IF r \in Direct THEN "idle" ELSE p)]
Goto(r, p) == run' = [run EXCEPT ![r].pc = p]
Learn(r, i) == run' = [run EXCEPT ![r].pc = "run", ![r].map = @ \cup {i}]

-----------------------------------------------------------------------------
(* Resume workers: discovery and the lease (Resume.hs, Instance.hs) *)

\* findUnfinishedWorkflowIds
Discoverable ==
  \/ status = "running"
  \/ status = "suspended" /\ wake # NoKey /\ wake \in due

Discover(w) ==
  /\ run[w].pc = "idle"
  /\ Discoverable
  /\ Goto(w, "found")
  /\ UNCHANGED <<log, row, sources, budgets>>

\* claimInstance, by the time the row may have changed.
Claim(w) ==
  /\ run[w].pc = "found"
  /\ IF status \in {"running", "suspended"} /\ ~leaseLive /\ ~paced
     THEN leasedBy' = w /\ leaseLive' = TRUE /\ Goto(w, "begin")
     ELSE Goto(w, "idle") /\ UNCHANGED lease
  /\ UNCHANGED <<log, status, attempts, paced, wake, sources,
                 budgets>>

\* Mutant: the expiry outlives the owner.
ClearLease_OwnerOnly == leasedBy' = Nobody /\ leaseLive' = leaseLive

\* leased_by and lease_expires_at become NULL.
ClearLease == leasedBy' = Nobody /\ leaseLive' = FALSE

\* releaseInstance: a run that came to an outcome clears the crash record.
Release(w) ==
  /\ run[w].pc \in {"ok", "stop"}
  /\ Goto(w, "idle")
  /\ IF leasedBy # w THEN UNCHANGED <<lease, attempts, paced>> ELSE
       /\ ClearLease
       /\ attempts' = IF run[w].pc = "ok" THEN 0 ELSE attempts
       /\ paced' = IF run[w].pc = "ok" THEN FALSE ELSE paced
  /\ UNCHANGED <<log, status, wake, sources, budgets>>

\* recordCrashTx
RecordCrash(w) ==
  /\ run[w].pc = "crashed"
  /\ IF status \in Terminal THEN Goto(w, "stop") /\ UNCHANGED <<attempts, paced>> ELSE
       /\ attempts' = IF attempts < MaxAttempts THEN attempts + 1 ELSE attempts
       /\ paced' = TRUE
       /\ Goto(w, IF attempts' >= MaxAttempts THEN "fail" ELSE "stop")
  /\ UNCHANGED <<log, status, lease, wake, sources, budgets>>

\* Mutant: the failure marker does not look for another one.
FailureLands_Always == TRUE

\* The generation has no other ending yet.
FailureLands == marks[opened] = {}

\* The worker gives the workflow up: the failure marker of the current generation.
MarkFailed(w) ==
  /\ run[w].pc = "fail"
  /\ IF FailureLands
     THEN marks' = [marks EXCEPT ![opened] = @ \cup {"failed"}] /\ status' = Upsert("failed")
     ELSE UNCHANGED <<marks, status>>
  /\ Goto(w, "stop")
  /\ UNCHANGED <<journal, opened, attempts, paced, lease, wake, sources,
                 budgets>>

LeaseExpires ==
  /\ leaseLive
  /\ Timely => leasedBy \in Workers /\ run[leasedBy].pc \notin Driving
  /\ leaseLive' = FALSE
  /\ UNCHANGED <<log, status, attempts, paced, leasedBy, wake, sources, run, budgets>>

PaceElapses ==
  /\ paced
  /\ paced' = FALSE
  /\ UNCHANGED <<log, status, attempts, lease, wake, sources, run, budgets>>

-----------------------------------------------------------------------------
(* A run (Workflow.hs) *)

\* A caller runs the workflow without a lease.
CallDirectly(d) ==
  /\ run[d].pc = "idle"
  /\ Goto(d, "begin")
  /\ UNCHANGED <<log, row, sources, budgets>>

\* The run resolves its generation once.
Begin(r) ==
  /\ run[r].pc = "begin"
  /\ run' = [run EXCEPT ![r] = [NotRunning("load") EXCEPT !.gen = opened]]
  /\ UNCHANGED <<log, row, sources, budgets>>

\* A stopped workflow is not run. The journal read may miss wakes that were
\* recorded while a snapshotting run was in flight.
Load(r) ==
  /\ run[r].pc = "load"
  /\ LET known == {i \in Boundaries : Key(r, i) \in journal[run[r].gen]} IN
     IF Stops(run[r].gen) # {} THEN EndRun(r, "ok") ELSE
       \E missed \in SUBSET {i \in known : Snapshotting /\ IsAwait(i)} :
         run' = [run EXCEPT ![r].pc = "run", ![r].map = known \ missed]
  /\ UNCHANGED <<log, row, sources, budgets>>

\* An await that the map misses is looked up in the step index.
FindWake(r) ==
  /\ run[r].pc = "run"
  /\ \E i \in Boundaries :
       /\ At(r, i)
       /\ IsAwait(i)
       /\ Key(r, i) \in journal[run[r].gen]
       /\ Learn(r, i)
  /\ UNCHANGED <<log, row, sources, budgets>>

\* renewLease and checkTerminalPending, before a boundary that is not replayed.
Probe(r) ==
  /\ run[r].pc = "run"
  /\ \E i \in Boundaries : At(r, i) /\ (IsAwait(i) => Key(r, i) \notin journal[run[r].gen])
  /\ IF r \in Workers /\ leasedBy # r THEN Goto(r, "stop") /\ UNCHANGED leaseLive ELSE
       /\ leaseLive' = IF r \in Workers THEN TRUE ELSE leaseLive
       /\ IF Stops(run[r].gen) # {} THEN EndRun(r, "ok") ELSE Goto(r, "act")
  /\ UNCHANGED <<log, status, attempts, paced, leasedBy, wake, sources,
                 budgets>>

\* The run has been stopped or has lost its lease, and may not know it yet.
Stopped(r) == marks[run[r].gen] \cap Stopping # {} \/ (r \in Workers /\ leasedBy # r)
Acted(r, p) ==
  run' = [run EXCEPT ![r].pc = p, ![r].late = IF Stopped(r) /\ @ < 2 THEN @ + 1 ELSE @]

\* The action of a step returns. That of alloc has registered the awakeable.
Act(r) ==
  /\ run[r].pc = "act"
  /\ \E i \in Boundaries :
       /\ At(r, i)
       /\ ~IsAwait(i)
       /\ promise' = [k \in Promises |->
            IF k = Key(r, i + 1) /\ promise[k] = "absent" THEN "pending" ELSE promise[k]]
  /\ Acted(r, "append")
  /\ UNCHANGED <<log, row, timer, due, sig, budgets>>

\* prepareJournalAppend: the append transaction under the lock of the step.
AppendCheck(r) ==
  /\ run[r].pc = "append"
  /\ \E i \in Boundaries :
       /\ At(r, i)
       /\ Free(run[r].gen, Key(r, i))
       /\ \/ Key(r, i) \in journal[run[r].gen] /\ Learn(r, i)
          \/ /\ Key(r, i) \notin journal[run[r].gen]
             /\ IF Stops(run[r].gen) # {} THEN EndRun(r, "ok") ELSE Goto(r, "fresh")
  /\ UNCHANGED <<log, row, sources, budgets>>

AppendCommit(r) ==
  /\ run[r].pc = "fresh"
  /\ \E i \in Boundaries :
       /\ At(r, i)
       /\ journal' = [journal EXCEPT ![run[r].gen] = @ \cup {Key(r, i)}]
       /\ Learn(r, i)
  /\ status' = Upsert("running")
  /\ UNCHANGED <<marks, opened, attempts, paced, lease, wake, sources,
                 budgets>>

\* sleepNamed: the first arm creates the timer and leaves the wake hint.
ArmSleep(r) ==
  /\ run[r].pc = "act"
  /\ \E i \in Boundaries :
       /\ At(r, i)
       /\ Body[i] = "sleep"
       /\ LET k == Key(r, i) IN
          IF timer[k] # "absent" THEN UNCHANGED <<timer, wake>> ELSE
            /\ timer' = [timer EXCEPT ![k] = "scheduled"]
            /\ wake' = IF status = "absent" THEN wake ELSE k
  /\ Acted(r, "park")
  /\ UNCHANGED <<log, status, attempts, paced, lease, due, promise, sig,
                 budgets>>

\* awaitCancellable: a cancelled awakeable throws, a completed one whose step was
\* refused is recorded now in the generation it finds, any other is left pending.
ArmAwait(r) ==
  /\ run[r].pc = "act"
  /\ \E i \in Boundaries :
       /\ At(r, i)
       /\ Body[i] = "await"
       /\ LET k == Key(r, i) IN
          \/ /\ promise[k] = "cancelled"
             /\ EndRun(r, "crashed")
             /\ UNCHANGED <<journal, status, promise>>
          \/ /\ promise[k] = "completed"
             /\ \E g \in run[r].gen .. opened :
                  /\ Free(g, k)
                  /\ IF k \notin journal[g] /\ Stops(g) = {}
                     THEN /\ journal' = [journal EXCEPT ![g] = @ \cup {k}]
                          /\ status' = Upsert("running")
                     ELSE UNCHANGED <<journal, status>>
             /\ Acted(r, "park")
             /\ UNCHANGED promise
          \/ /\ promise[k] \in {"absent", "pending"}
             /\ promise' = [promise EXCEPT ![k] = "pending"]
             /\ Acted(r, "park")
             /\ UNCHANGED <<journal, status>>
  /\ UNCHANGED <<marks, opened, attempts, paced, lease, wake, timer, due, sig,
                 budgets>>

\* Mutant: the suspended status is written without looking for the wake.
Resolved_Unchecked(r, k) == FALSE

\* What markInstanceSuspendedAwaiting re-checks.
Resolved(r, k) ==
  \/ k \in journal[run[r].gen]
  \/ k \in Promises /\ promise[k] \notin {"absent", "pending"}

ParkCheck(r) ==
  /\ run[r].pc = "park"
  /\ \E i \in Boundaries :
       /\ At(r, i)
       /\ Free(run[r].gen, Key(r, i))
       /\ Goto(r, IF Resolved(r, Key(r, i)) THEN "resume" ELSE "suspend")
  /\ UNCHANGED <<log, row, sources, budgets>>

ParkCommit(r) ==
  /\ run[r].pc \in {"suspend", "resume"}
  /\ status' = Upsert(IF run[r].pc = "suspend" THEN "suspended" ELSE "running")
  /\ EndRun(r, "ok")
  /\ UNCHANGED <<log, attempts, paced, lease, wake, sources,
                 budgets>>

\* The completion marker, unless the generation has an ending.
Complete(r) ==
  /\ run[r].pc = "run"
  /\ AtEnd(r)
  /\ run[r].gen = LastGen
  /\ IF marks[run[r].gen] = {}
     THEN /\ marks' = [marks EXCEPT ![run[r].gen] = {"completed"}]
          /\ status' = Upsert("completed")
     ELSE UNCHANGED <<marks, status>>
  /\ EndRun(r, "ok")
  /\ UNCHANGED <<journal, opened, attempts, paced, lease, wake, sources,
                 budgets>>

\* The rotation marker is new or already there.
Rotates(g) == marks[g] \subseteq {"continued"}

\* rotateGeneration: the marker and the seed of the next generation.
Rotate(r) ==
  /\ run[r].pc = "run"
  /\ AtEnd(r)
  /\ run[r].gen < LastGen
  /\ IF Rotates(run[r].gen)
     THEN /\ marks' = [marks EXCEPT ![run[r].gen] = @ \cup {"continued"}]
          /\ opened' = IF opened > run[r].gen THEN opened ELSE run[r].gen + 1
          /\ status' = IF opened > run[r].gen THEN status ELSE Upsert("running")
     ELSE UNCHANGED <<marks, opened, status>>
  /\ EndRun(r, "ok")
  /\ UNCHANGED <<journal, attempts, paced, lease, wake, sources,
                 budgets>>

\* The body throws: an action fails, or a recorded result does not decode.
Throw(r) ==
  /\ run[r].pc \in {"run", "act"}
  /\ EndRun(r, "crashed")
  /\ UNCHANGED <<log, row, sources, budgets>>

\* A statement fails in the database: the worker lets the row go.
StoreError(r) ==
  /\ run[r].pc \in Driving \ {"ok", "stop"}
  /\ crashes < MaxCrashes
  /\ crashes' = crashes + 1
  /\ EndRun(r, "stop")
  /\ UNCHANGED <<log, row, sources, interventions>>

\* The process dies: the lease stays.
Kill(r) ==
  /\ run[r].pc \in Driving
  /\ crashes < MaxCrashes
  /\ crashes' = crashes + 1
  /\ run' = [run EXCEPT ![r] = NotRunning("idle")]
  /\ UNCHANGED <<log, row, sources, interventions>>

-----------------------------------------------------------------------------
(* Sleeps: the timer worker with workflowSleepFireAction (Sleep.hs) *)

TimerDue(k) ==
  /\ timer[k] # "absent"
  /\ k \notin due
  /\ due' = due \cup {k}
  /\ UNCHANGED <<log, row, timer, promise, sig, run, budgets>>

SetTimer(k, p) ==
  /\ timer' = [timer EXCEPT ![k] = p]
  /\ UNCHANGED <<due, promise, sig>>

ClaimTimer(k) ==
  /\ timer[k] = "scheduled"
  /\ k \in due
  /\ SetTimer(k, "firing")
  /\ UNCHANGED <<log, row, run, budgets>>

\* The timer of a workflow that has ended is cancelled.
LookAtOwner(k) ==
  /\ timer[k] = "firing"
  /\ SetTimer(k, IF status \in Terminal THEN "cancelled" ELSE "looked")
  /\ UNCHANGED <<log, row, run, budgets>>

\* The append transaction to the generation that armed the timer.
FireCheck(k) ==
  /\ timer[k] = "looked"
  /\ Free(k[1], k)
  /\ SetTimer(k, IF k \in journal[k[1]] \/ Stops(k[1]) # {} THEN "delivered" ELSE "fresh")
  /\ UNCHANGED <<log, row, run, budgets>>

\* Mutant: the wake does not make the row discoverable.
WokenStatus_Kept == status

\* The status that a delivered wake leaves behind.
WokenStatus == Upsert("running")

FireCommit(k) ==
  /\ timer[k] = "fresh"
  /\ SetTimer(k, "delivered")
  /\ journal' = [journal EXCEPT ![k[1]] = @ \cup {k}]
  /\ status' = WokenStatus
  /\ wake' = NoKey
  /\ UNCHANGED <<marks, opened, attempts, paced, lease, run, budgets>>

MarkFired(k) ==
  /\ timer[k] = "delivered"
  /\ SetTimer(k, "fired")
  /\ UNCHANGED <<log, row, run, budgets>>

\* The timer worker dies and the row is requeued.
RequeueTimer(k) ==
  /\ timer[k] \in Firing
  /\ crashes < MaxCrashes
  /\ crashes' = crashes + 1
  /\ SetTimer(k, "scheduled")
  /\ UNCHANGED <<log, row, run, interventions>>

-----------------------------------------------------------------------------
(* Awakeables: signals and cancellation from outside (Awakeable.hs) *)

\* signalAwakeable reads the row and the owner's generation.
SignalRead(k) ==
  /\ sig = NoSignal
  /\ promise[k] \in {"pending", "completed"}
  /\ sig' = [phase |-> "read", key |-> k, gen |-> opened]
  /\ UNCHANGED <<log, row, timer, due, promise, run, budgets>>

\* signalAwakeableFrom: the row is completed if it is still pending; the step
\* is appended if the row is completed by then.
SignalCheck ==
  /\ sig.phase = "read"
  /\ Free(sig.gen, sig.key)
  /\ LET k == sig.key IN
     \/ /\ promise[k] = "cancelled"
        /\ sig' = NoSignal
        /\ UNCHANGED promise
     \/ /\ promise[k] # "cancelled"
        /\ IF k \notin journal[sig.gen] /\ Stops(sig.gen) = {}
           THEN sig' = [sig EXCEPT !.phase = "fresh"] /\ UNCHANGED promise
           ELSE /\ sig' = NoSignal
                /\ promise' = [promise EXCEPT ![k] = "completed"]
  /\ UNCHANGED <<log, row, timer, due, run, budgets>>

SignalCommit ==
  /\ sig.phase = "fresh"
  /\ promise' = [promise EXCEPT ![sig.key] = "completed"]
  /\ journal' = [journal EXCEPT ![sig.gen] = @ \cup {sig.key}]
  /\ status' = WokenStatus
  /\ sig' = NoSignal
  /\ UNCHANGED <<marks, opened, attempts, paced, lease, wake, timer, due, run,
                 budgets>>

\* cancelAwakeable, under the lock of the step in the generation that it has read.
\* It waits for a signal that has completed the row and not committed.
CancelAwakeable(k) ==
  /\ promise[k] = "pending"
  /\ \E g \in k[1] .. opened : Free(g, k)
  /\ ~(sig.phase = "fresh" /\ sig.key = k)
  /\ promise' = [promise EXCEPT ![k] = "cancelled"]
  /\ status' = WokenStatus
  /\ UNCHANGED <<log, attempts, paced, lease, wake, timer, due, sig, run, budgets>>

-----------------------------------------------------------------------------
(* The operator (Instance.hs) *)

\* cancelWorkflow: it follows a rotation to the current generation.
CancelWorkflow ==
  /\ status \in {"running", "suspended"}
  /\ marks[opened] = {}
  /\ marks' = [marks EXCEPT ![opened] = {"cancelled"}]
  /\ status' = "cancelled"
  /\ UNCHANGED <<journal, opened, attempts, paced, lease, wake, sources, run, budgets>>

ResurrectFailedWorkflow ==
  /\ status = "failed"
  /\ interventions < MaxInterventions
  /\ interventions' = interventions + 1
  /\ status' = "running"
  /\ attempts' = 0
  /\ paced' = FALSE
  /\ ClearLease
  /\ marks' = [marks EXCEPT ![opened] = @ \ {"failed"}]
  /\ run' = [r \in Runners |-> [run[r] EXCEPT !.late = 0]]
  /\ UNCHANGED <<journal, opened, wake, sources, crashes>>

ForceReleaseLease ==
  /\ leasedBy # Nobody
  /\ interventions < MaxInterventions
  /\ interventions' = interventions + 1
  /\ ClearLease
  /\ UNCHANGED <<log, status, attempts, paced, wake, sources, run, crashes>>

-----------------------------------------------------------------------------
WorkerStep(w) == Discover(w) \/ Claim(w) \/ Release(w) \/ RecordCrash(w) \/ MarkFailed(w)

RunStep(r) ==
  \/ Begin(r) \/ Load(r) \/ FindWake(r) \/ Probe(r) \/ Act(r) \/ AppendCheck(r)
  \/ AppendCommit(r) \/ ArmSleep(r) \/ ArmAwait(r) \/ ParkCheck(r) \/ ParkCommit(r)
  \/ Complete(r) \/ Rotate(r)

TimerStep(k) ==
  ClaimTimer(k) \/ LookAtOwner(k) \/ FireCheck(k) \/ FireCommit(k) \/ MarkFired(k)

Next ==
  \/ \E w \in Workers : WorkerStep(w)
  \/ \E d \in Direct : CallDirectly(d)
  \/ \E r \in Runners : RunStep(r) \/ Throw(r) \/ StoreError(r) \/ Kill(r)
  \/ LeaseExpires \/ PaceElapses
  \/ \E k \in Sleeps : TimerDue(k) \/ TimerStep(k) \/ RequeueTimer(k)
  \/ \E k \in Promises : SignalRead(k) \/ CancelAwakeable(k)
  \/ SignalCheck \/ SignalCommit
  \/ CancelWorkflow \/ ResurrectFailedWorkflow \/ ForceReleaseLease

Spec == Init /\ [][Next]_vars

\* Resume and timer workers are scheduled, time passes, and whoever holds an
\* awakeable signals it. Steps that wait for a step lock get it in their turn
\* (PostgreSQL queues them), hence SF. Nothing obliges a direct caller to call,
\* a failure to happen or the operator to act.
FairSpec ==
  /\ Spec
  /\ \A w \in Workers : SF_vars(WorkerStep(w) \/ RunStep(w))
  /\ \A d \in Direct : SF_vars(RunStep(d))
  /\ WF_vars(LeaseExpires) /\ WF_vars(PaceElapses)
  /\ \A k \in Sleeps : WF_vars(TimerDue(k)) /\ SF_vars(TimerStep(k))
  /\ \A k \in Promises : SF_vars(promise[k] = "pending" /\ SignalRead(k))
  /\ SF_vars(SignalCheck) /\ WF_vars(SignalCommit)

-----------------------------------------------------------------------------
(* Correctness *)

TypeOK ==
  /\ journal \in [Gens -> SUBSET Keys]
  /\ marks \in [Gens -> SUBSET Markers]
  /\ opened \in Gens
  /\ status \in Statuses
  /\ attempts \in 0 .. MaxAttempts
  /\ paced \in BOOLEAN
  /\ leasedBy \in Workers \cup {Nobody}
  /\ leaseLive \in BOOLEAN
  /\ leaseLive => leasedBy # Nobody
  /\ wake \in Sleeps \cup {NoKey}
  /\ timer \in [Sleeps -> TimerPhases]
  /\ due \in SUBSET Sleeps
  /\ promise \in [Promises -> PromiseStatuses]
  /\ sig \in {NoSignal} \cup [phase : {"read", "fresh"}, key : Promises, gen : Gens]
  /\ run \in [Runners -> [pc : Phases, gen : Gens, map : SUBSET Boundaries, late : 0 .. 2]]
  /\ crashes \in 0 .. MaxCrashes
  /\ interventions \in 0 .. MaxInterventions

\* The row and the journal agree on how the workflow ended: a generation has one
\* lifecycle marker, a later one is opened by rotation only, and the row is
\* terminal exactly when the current generation has the marker of that ending.
EndsOnce ==
  /\ \A g \in Gens : Cardinality(marks[g]) <= 1
  /\ \A g \in Gens : g < opened => marks[g] = {"continued"}
  /\ \A s \in Terminal : status = s <=> s \in marks[opened]

\* A run parked on the i-th boundary of the current generation can still be woken.
ParkedOn(i) ==
  /\ IsAwait(i)
  /\ \A j \in 1 .. i - 1 : <<opened, j>> \in journal[opened]
  /\ <<opened, i>> \notin journal[opened]
  /\ Body[i] = "await" => promise[<<opened, i>>] = "pending"

\* "No resolved wake is left behind a suspended status"
\* (markInstanceSuspendedAwaiting): the row is suspended only on an await of the
\* current generation that nothing has resolved or abandoned. A suspended row is
\* not discovered, so a wake missed here would strand the workflow.
NoWakeLost == status = "suspended" => \E i \in Boundaries : ParkedOn(i)

\* "No later boundary may start" (cancelWorkflow, WorkflowLeaseLost): a run that
\* has been cancelled, failed or deprived of its lease starts at most the one
\* action for which it has already been let through.
OneLateAction == \A r \in Runners : run[r].late <= 1

\* "Every path that resolves or abandons a wake writes the instance row in the
\* same transaction" (findUnfinishedWorkflowIds): a workflow suspended on a
\* sleep has a timer that will still fire.
SleepHasTimer ==
  status = "suspended" =>
    \A i \in Boundaries :
      ParkedOn(i) /\ Body[i] = "sleep" =>
        timer[<<opened, i>>] \in Firing \cup {"scheduled"}

\* Whatever crashes, a workflow that has begun ends.
EveryEnds == status = "running" ~> status \in Terminal
=============================================================================
