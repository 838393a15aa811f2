--------------------------- MODULE Workflow_proofs ---------------------------
(***************************************************************************)
(* Proofs about Workflow, for any body, number of generations and workers. *)
(***************************************************************************)
EXTENDS Workflow, FiniteSetTheorems, TLAPS

\* The state of a run.
Runs == [pc : Phases, gen : Gens, map : SUBSET Boundaries, late : 0 .. 2]

LEMMA RunTypes ==
  ASSUME TypeOK, NEW r \in Runners
  PROVE  /\ run[r].pc \in Phases
         /\ run[r].gen \in Gens
         /\ run[r].map \in SUBSET Boundaries
         /\ run[r].late \in 0 .. 2
         /\ \A i \in Boundaries : Key(r, i) \in Keys
BY DEF TypeOK, Key, Keys

LEMMA GotoTypes ==
  ASSUME TypeOK, NEW r \in Runners, NEW p \in Phases, Goto(r, p)
  PROVE  run' \in [Runners -> Runs]
BY DEF TypeOK, Goto, Runs

LEMMA LearnTypes ==
  ASSUME TypeOK, NEW r \in Runners, NEW i \in Boundaries, Learn(r, i)
  PROVE  run' \in [Runners -> Runs]
<1>1. run \in [Runners -> Runs] BY DEF TypeOK, Runs
<1>2. [run[r] EXCEPT !.pc = "run", !.map = @ \cup {i}] \in Runs BY <1>1 DEF Runs, Phases
<1>3. run' = [run EXCEPT ![r] = [run[r] EXCEPT !.pc = "run", !.map = @ \cup {i}]]
  BY DEF Learn
<1>. QED BY <1>1, <1>2, <1>3

LEMMA NotRunningTypes ==
  ASSUME NEW p \in Phases
  PROVE  NotRunning(p) \in Runs
BY ConstantsOK DEF NotRunning, Runs, Gens, ConstantsOK

LEMMA EndRunTypes ==
  ASSUME TypeOK, NEW r \in Runners, NEW p \in Phases, EndRun(r, p)
  PROVE  run' \in [Runners -> Runs]
<1>1. NotRunning("idle") \in Runs /\ NotRunning(p) \in Runs BY NotRunningTypes DEF Phases
<1>2. run \in [Runners -> Runs] BY DEF TypeOK, Runs
<1>. QED BY <1>1, <1>2 DEF EndRun

LEMMA ActedTypes ==
  ASSUME TypeOK, NEW r \in Runners, NEW p \in Phases, Acted(r, p)
  PROVE  run' \in [Runners -> Runs]
<1>1. run \in [Runners -> Runs] BY DEF TypeOK, Runs
<1>2. run[r].late \in 0 .. 2 BY RunTypes
<1>3. (IF Stopped(r) /\ run[r].late < 2 THEN run[r].late + 1 ELSE run[r].late) \in 0 .. 2
  BY <1>2
<1>. QED BY <1>1, <1>3 DEF Acted, Runs

-----------------------------------------------------------------------------
(* Types *)

LEMMA WorkerKeepsTypes ==
  ASSUME TypeOK, NEW w \in Workers, WorkerStep(w)
  PROVE  TypeOK'
<1>. w \in Runners /\ w # Nobody BY ConstantsOK DEF Runners, Nobody, ConstantsOK
<1>1. CASE Discover(w)
  <2>1. run' \in [Runners -> Runs] BY <1>1, GotoTypes DEF Discover, Phases
  <2>. QED BY <1>1, <2>1 DEF Discover, TypeOK, Runs, log, row, lease, sources, budgets
<1>2. CASE Claim(w)
  <2>1. run' \in [Runners -> Runs] BY <1>2, GotoTypes DEF Claim, Phases
  <2>. QED BY <1>2, <2>1 DEF Claim, TypeOK, Runs, log, lease, sources, budgets
<1>3. CASE Release(w)
  <2>1. run' \in [Runners -> Runs] BY <1>3, GotoTypes DEF Release, Phases
  <2>2. 0 \in 0 .. MaxAttempts BY ConstantsOK DEF ConstantsOK
  <2>. QED BY <1>3, <2>1, <2>2 DEF Release, ClearLease, TypeOK, Runs, log, lease, sources, budgets
<1>4. CASE RecordCrash(w)
  <2>1. run' \in [Runners -> Runs] BY <1>4, GotoTypes DEF RecordCrash, Phases
  <2>2. attempts' \in 0 .. MaxAttempts
    BY <1>4, ConstantsOK DEF RecordCrash, TypeOK, ConstantsOK
  <2>3. paced' \in BOOLEAN BY <1>4 DEF RecordCrash, TypeOK
  <2>. QED BY <1>4, <2>1, <2>2, <2>3 DEF RecordCrash, TypeOK, Runs, log, lease, sources, budgets
<1>5. CASE MarkFailed(w)
  <2>1. run' \in [Runners -> Runs] BY <1>5, GotoTypes DEF MarkFailed, Phases
  <2>2. marks' \in [Gens -> SUBSET Markers]
    BY <1>5 DEF MarkFailed, TypeOK, Markers, Stopping
  <2>3. status' \in Statuses BY <1>5 DEF MarkFailed, TypeOK, Upsert, Statuses, Terminal
  <2>. QED BY <1>5, <2>1, <2>2, <2>3 DEF MarkFailed, TypeOK, Runs, lease, sources, budgets
<1>. QED BY <1>1, <1>2, <1>3, <1>4, <1>5 DEF WorkerStep

LEMMA RunKeepsTypes ==
  ASSUME TypeOK, NEW r \in Runners, RunStep(r)
  PROVE  TypeOK'
<1>. run[r].gen \in Gens BY RunTypes
<1>1. CASE Begin(r)
  <2>1. run' \in [Runners -> Runs]
    <3>1. [NotRunning("load") EXCEPT !.gen = opened] \in Runs
      BY NotRunningTypes DEF TypeOK, Runs, Phases
    <3>. QED BY <1>1, <3>1 DEF Begin, TypeOK, Runs
  <2>. QED BY <1>1, <2>1 DEF Begin, TypeOK, Runs, log, row, lease, sources, budgets
<1>2. CASE Load(r)
  <2>1. run' \in [Runners -> Runs]
    <3>1. CASE EndRun(r, "ok") BY <3>1, EndRunTypes DEF Phases
    <3>2. CASE ~EndRun(r, "ok")
      <4>1. PICK known \in SUBSET Boundaries :
              run' = [run EXCEPT ![r].pc = "run", ![r].map = known]
        BY <1>2, <3>2 DEF Load
      <4>2. [run[r] EXCEPT !.pc = "run", !.map = known] \in Runs
        BY RunTypes DEF TypeOK, Runs, Phases
      <4>3. run' = [run EXCEPT ![r] = [run[r] EXCEPT !.pc = "run", !.map = known]]
        BY <4>1
      <4>. QED BY <4>2, <4>3 DEF TypeOK, Runs
    <3>. QED BY <3>1, <3>2
  <2>. QED BY <1>2, <2>1 DEF Load, TypeOK, Runs, log, row, lease, sources, budgets
<1>3. CASE FindWake(r)
  <2>1. run' \in [Runners -> Runs] BY <1>3, LearnTypes DEF FindWake
  <2>. QED BY <1>3, <2>1 DEF FindWake, TypeOK, Runs, log, row, lease, sources, budgets
<1>4. CASE Probe(r)
  <2>1. run' \in [Runners -> Runs] BY <1>4, GotoTypes, EndRunTypes DEF Probe, Phases
  <2>2. leaseLive' \in BOOLEAN /\ (leaseLive' => leasedBy # Nobody)
    BY <1>4, ConstantsOK DEF Probe, TypeOK, Runners, Nobody, ConstantsOK
  <2>. QED BY <1>4, <2>1, <2>2 DEF Probe, TypeOK, Runs, log, sources, budgets
<1>5. CASE Act(r)
  <2>1. run' \in [Runners -> Runs] BY <1>5, ActedTypes DEF Act, Phases
  <2>2. promise' \in [Promises -> PromiseStatuses]
    BY <1>5 DEF Act, TypeOK, PromiseStatuses
  <2>. QED BY <1>5, <2>1, <2>2 DEF Act, TypeOK, Runs, log, row, lease, budgets
<1>6. CASE AppendCheck(r)
  <2>1. run' \in [Runners -> Runs]
    BY <1>6, LearnTypes, EndRunTypes, GotoTypes DEF AppendCheck, Phases
  <2>. QED BY <1>6, <2>1 DEF AppendCheck, TypeOK, Runs, log, row, lease, sources, budgets
<1>7. CASE AppendCommit(r)
  <2>1. PICK i \in Boundaries :
          /\ journal' = [journal EXCEPT ![run[r].gen] = @ \cup {Key(r, i)}]
          /\ Learn(r, i)
    BY <1>7 DEF AppendCommit
  <2>2. run' \in [Runners -> Runs] BY <2>1, LearnTypes
  <2>3. journal' \in [Gens -> SUBSET Keys] BY <2>1, RunTypes DEF TypeOK
  <2>4. status' \in Statuses BY <1>7 DEF AppendCommit, TypeOK, Upsert, Statuses
  <2>. QED BY <1>7, <2>2, <2>3, <2>4 DEF AppendCommit, TypeOK, Runs, lease, sources, budgets
<1>8. CASE ArmSleep(r)
  <2>1. run' \in [Runners -> Runs] BY <1>8, ActedTypes DEF ArmSleep, Phases
  <2>2. PICK i \in Boundaries :
          /\ Body[i] = "sleep"
          /\ IF timer[Key(r, i)] # "absent" THEN UNCHANGED <<timer, wake>> ELSE
               /\ timer' = [timer EXCEPT ![Key(r, i)] = "scheduled"]
               /\ wake' = IF status = "absent" THEN wake ELSE Key(r, i)
    BY <1>8 DEF ArmSleep
  <2>3. Key(r, i) \in Sleeps BY <2>2, RunTypes DEF Sleeps, Key
  <2>4. timer' \in [Sleeps -> TimerPhases] BY <2>2 DEF TypeOK, TimerPhases
  <2>5. wake' \in Sleeps \cup {NoKey} BY <2>2, <2>3 DEF TypeOK
  <2>. QED BY <1>8, <2>1, <2>4, <2>5 DEF ArmSleep, TypeOK, Runs, log, lease, budgets
<1>9. CASE ArmAwait(r)
  <2>1. run' \in [Runners -> Runs] BY <1>9, ActedTypes, EndRunTypes DEF ArmAwait, Phases
  <2>2. PICK i \in Boundaries :
          \/ UNCHANGED <<journal, status, promise>>
          \/ /\ \E g \in Gens :
                  \/ /\ journal' = [journal EXCEPT ![g] = @ \cup {Key(r, i)}]
                     /\ status' = Upsert("running")
                  \/ UNCHANGED <<journal, status>>
             /\ UNCHANGED promise
          \/ /\ promise' = [promise EXCEPT ![Key(r, i)] = "pending"]
             /\ UNCHANGED <<journal, status>>
    <3>1. \A g \in run[r].gen .. opened : g \in Gens
      BY ConstantsOK DEF TypeOK, Gens, ConstantsOK
    <3>. QED BY <1>9, <3>1 DEF ArmAwait
  <2>3. Key(r, i) \in Keys BY RunTypes
  <2>4. journal' \in [Gens -> SUBSET Keys] BY <2>2, <2>3 DEF TypeOK
  <2>5. status' \in Statuses BY <2>2 DEF TypeOK, Upsert, Statuses
  <2>6. promise' \in [Promises -> PromiseStatuses] BY <2>2 DEF TypeOK, PromiseStatuses
  <2>. QED BY <1>9, <2>1, <2>4, <2>5, <2>6 DEF ArmAwait, TypeOK, Runs, lease, budgets
<1>10. CASE ParkCheck(r)
  <2>1. run' \in [Runners -> Runs] BY <1>10, GotoTypes DEF ParkCheck, Phases
  <2>. QED BY <1>10, <2>1 DEF ParkCheck, TypeOK, Runs, log, row, lease, sources, budgets
<1>11. CASE ParkCommit(r)
  <2>1. run' \in [Runners -> Runs] BY <1>11, EndRunTypes DEF ParkCommit, Phases
  <2>2. status' \in Statuses BY <1>11 DEF ParkCommit, TypeOK, Upsert, Statuses
  <2>. QED BY <1>11, <2>1, <2>2 DEF ParkCommit, TypeOK, Runs, log, lease, sources, budgets
<1>12. CASE Complete(r)
  <2>1. run' \in [Runners -> Runs] BY <1>12, EndRunTypes DEF Complete, Phases
  <2>2. marks' \in [Gens -> SUBSET Markers] BY <1>12 DEF Complete, TypeOK, Markers
  <2>3. status' \in Statuses BY <1>12 DEF Complete, TypeOK, Upsert, Statuses, Terminal
  <2>. QED BY <1>12, <2>1, <2>2, <2>3 DEF Complete, TypeOK, Runs, lease, sources, budgets
<1>13. CASE Rotate(r)
  <2>1. run' \in [Runners -> Runs] BY <1>13, EndRunTypes DEF Rotate, Phases
  <2>2. marks' \in [Gens -> SUBSET Markers] BY <1>13 DEF Rotate, TypeOK, Markers
  <2>3. status' \in Statuses BY <1>13 DEF Rotate, TypeOK, Upsert, Statuses
  <2>4. opened' \in Gens BY <1>13, ConstantsOK DEF Rotate, TypeOK, Gens, ConstantsOK
  <2>. QED BY <1>13, <2>1, <2>2, <2>3, <2>4 DEF Rotate, TypeOK, Runs, lease, sources, budgets
<1>. QED
  BY <1>1, <1>2, <1>3, <1>4, <1>5, <1>6, <1>7, <1>8, <1>9, <1>10, <1>11, <1>12, <1>13 DEF RunStep

LEMMA FailureKeepsTypes ==
  ASSUME TypeOK, NEW r \in Runners, Throw(r) \/ StoreError(r) \/ Kill(r)
  PROVE  TypeOK'
<1>1. run' \in [Runners -> Runs]
  <2>1. CASE Throw(r) BY <2>1, EndRunTypes DEF Throw, Phases
  <2>2. CASE StoreError(r) BY <2>2, EndRunTypes DEF StoreError, Phases
  <2>3. CASE Kill(r)
    <3>1. NotRunning("idle") \in Runs BY NotRunningTypes DEF Phases
    <3>. QED BY <2>3, <3>1 DEF Kill, TypeOK, Runs
  <2>. QED BY <2>1, <2>2, <2>3
<1>2. crashes' \in 0 .. MaxCrashes
  BY ConstantsOK DEF Throw, StoreError, Kill, TypeOK, ConstantsOK, budgets
<1>. QED BY <1>1, <1>2
  DEF Throw, StoreError, Kill, TypeOK, Runs, log, row, lease, sources, budgets

LEMMA TimeKeepsTypes ==
  ASSUME TypeOK, LeaseExpires \/ PaceElapses
  PROVE  TypeOK'
<1>1. CASE LeaseExpires
  <2>1. leaseLive' \in BOOLEAN /\ (leaseLive' => leasedBy' # Nobody) BY <1>1 DEF LeaseExpires
  <2>. QED BY <1>1, <2>1 DEF LeaseExpires, TypeOK, log, sources, budgets
<1>2. CASE PaceElapses
  <2>1. paced' \in BOOLEAN BY <1>2 DEF PaceElapses
  <2>. QED BY <1>2, <2>1 DEF PaceElapses, TypeOK, log, lease, sources, budgets
<1>. QED BY <1>1, <1>2

LEMMA CallKeepsTypes ==
  ASSUME TypeOK, NEW d \in Direct, CallDirectly(d)
  PROVE  TypeOK'
<1>1. run' \in [Runners -> Runs] BY GotoTypes DEF CallDirectly, Phases, Runners
<1>. QED BY <1>1 DEF CallDirectly, TypeOK, Runs, log, row, lease, sources, budgets

LEMMA TimerKeepsTypes ==
  ASSUME TypeOK, NEW k \in Sleeps, TimerDue(k) \/ TimerStep(k) \/ RequeueTimer(k)
  PROVE  TypeOK'
<1>1. \A p \in TimerPhases : SetTimer(k, p) => timer' \in [Sleeps -> TimerPhases]
  BY DEF SetTimer, TypeOK
<1>2. CASE TimerDue(k)
  BY <1>2 DEF TimerDue, TypeOK, log, row, lease, budgets
<1>3. CASE FireCommit(k)
  <2>1. timer' \in [Sleeps -> TimerPhases] BY <1>1, <1>3 DEF FireCommit, TimerPhases
  <2>2. k \in Keys /\ k[1] \in Gens BY DEF Sleeps, Keys
  <2>3. journal' \in [Gens -> SUBSET Keys] BY <1>3, <2>2 DEF FireCommit, TypeOK
  <2>4. status' \in Statuses BY <1>3 DEF FireCommit, WokenStatus, Upsert, TypeOK, Statuses
  <2>. QED BY <1>3, <2>1, <2>3, <2>4 DEF FireCommit, SetTimer, TypeOK, lease, budgets
<1>4. CASE RequeueTimer(k)
  <2>1. timer' \in [Sleeps -> TimerPhases] BY <1>1, <1>4 DEF RequeueTimer, TimerPhases
  <2>2. crashes' \in 0 .. MaxCrashes
    BY <1>4, ConstantsOK DEF RequeueTimer, TypeOK, ConstantsOK
  <2>. QED BY <1>4, <2>1, <2>2 DEF RequeueTimer, SetTimer, TypeOK, log, row, lease
<1>5. CASE ClaimTimer(k) \/ LookAtOwner(k) \/ FireCheck(k) \/ MarkFired(k)
  <2>1. timer' \in [Sleeps -> TimerPhases]
    BY <1>1, <1>5 DEF ClaimTimer, LookAtOwner, FireCheck, MarkFired, TimerPhases
  <2>. QED BY <1>5, <2>1 DEF ClaimTimer, LookAtOwner, FireCheck, MarkFired, SetTimer,
                             TypeOK, log, row, lease, budgets
<1>. QED BY <1>2, <1>3, <1>4, <1>5 DEF TimerStep

LEMMA AwakeableKeepsTypes ==
  ASSUME TypeOK,
         \/ SignalCheck
         \/ SignalCommit
         \/ \E k \in Promises : SignalRead(k) \/ CancelAwakeable(k)
  PROVE  TypeOK'
<1>. DEFINE Sigs == {NoSignal} \cup [phase : {"read", "fresh"}, key : Promises, gen : Gens]
<1>1. sig.phase # "none" => sig \in [phase : {"read", "fresh"}, key : Promises, gen : Gens]
  BY DEF TypeOK, NoSignal
<1>2. CASE SignalCheck
  <2>1. [sig EXCEPT !.phase = "fresh"] \in Sigs BY <1>1, <1>2 DEF SignalCheck
  <2>2. sig' \in Sigs
    <3>1. NoSignal \in Sigs OBVIOUS
    <3>. HIDE DEF Sigs
    <3>. QED BY <1>2, <2>1, <3>1 DEF SignalCheck
  <2>3. promise' \in [Promises -> PromiseStatuses]
    BY <1>2 DEF SignalCheck, TypeOK, PromiseStatuses
  <2>. QED BY <1>2, <2>2, <2>3 DEF SignalCheck, TypeOK, log, row, lease, budgets
<1>3. CASE SignalCommit
  <2>1. promise' \in [Promises -> PromiseStatuses]
    BY <1>3 DEF SignalCommit, TypeOK, PromiseStatuses
  <2>2. sig' \in Sigs BY <1>3 DEF SignalCommit
  <2>3. status' \in Statuses BY <1>3 DEF SignalCommit, WokenStatus, Upsert, TypeOK, Statuses
  <2>4. journal' \in [Gens -> SUBSET Keys]
    <3>1. sig.key \in Keys BY <1>1, <1>3 DEF SignalCommit, Promises
    <3>. QED BY <1>3, <3>1 DEF SignalCommit, TypeOK
  <2>. QED BY <1>3, <2>1, <2>2, <2>3, <2>4 DEF SignalCommit, TypeOK, lease, budgets
<1>4. ASSUME NEW k \in Promises, SignalRead(k)
      PROVE  TypeOK'
  <2>1. sig' \in Sigs BY <1>4 DEF SignalRead, TypeOK
  <2>. QED BY <1>4, <2>1 DEF SignalRead, TypeOK, log, row, lease, budgets
<1>5. ASSUME NEW k \in Promises, CancelAwakeable(k)
      PROVE  TypeOK'
  <2>1. promise' \in [Promises -> PromiseStatuses]
    BY <1>5 DEF CancelAwakeable, TypeOK, PromiseStatuses
  <2>2. status' \in Statuses
    BY <1>5 DEF CancelAwakeable, WokenStatus, Upsert, TypeOK, Statuses
  <2>. QED BY <1>5, <2>1, <2>2 DEF CancelAwakeable, TypeOK, log, lease, budgets
<1>. QED BY <1>2, <1>3, <1>4, <1>5

LEMMA OperatorKeepsTypes ==
  ASSUME TypeOK, CancelWorkflow \/ ResurrectFailedWorkflow \/ ForceReleaseLease
  PROVE  TypeOK'
<1>1. CASE CancelWorkflow
  <2>1. marks' \in [Gens -> SUBSET Markers]
    BY <1>1 DEF CancelWorkflow, TypeOK, Markers, Stopping
  <2>. QED BY <1>1, <2>1 DEF CancelWorkflow, TypeOK, Statuses, Terminal, lease, sources, budgets
<1>2. CASE ResurrectFailedWorkflow
  <2>1. marks' \in [Gens -> SUBSET Markers] BY <1>2 DEF ResurrectFailedWorkflow, TypeOK
  <2>2. run' \in [Runners -> Runs]
    <3>1. \A r \in Runners : [run[r] EXCEPT !.late = 0] \in Runs BY DEF TypeOK, Runs
    <3>. QED BY <1>2, <3>1 DEF ResurrectFailedWorkflow
  <2>3. interventions' \in 0 .. MaxInterventions /\ attempts' \in 0 .. MaxAttempts
    BY <1>2, ConstantsOK DEF ResurrectFailedWorkflow, TypeOK, ConstantsOK
  <2>. QED BY <1>2, <2>1, <2>2, <2>3
    DEF ResurrectFailedWorkflow, ClearLease, TypeOK, Runs, Statuses, sources
<1>3. CASE ForceReleaseLease
  <2>1. interventions' \in 0 .. MaxInterventions
    BY <1>3, ConstantsOK DEF ForceReleaseLease, TypeOK, ConstantsOK
  <2>. QED BY <1>3, <2>1 DEF ForceReleaseLease, ClearLease, TypeOK, log, sources
<1>. QED BY <1>1, <1>2, <1>3

LEMMA NextKeepsTypes == TypeOK /\ [Next]_vars => TypeOK'
<1>. SUFFICES ASSUME TypeOK, Next \/ UNCHANGED vars
              PROVE  TypeOK'
  OBVIOUS
<1>1. CASE UNCHANGED vars BY <1>1 DEF vars, TypeOK, log, row, lease, sources, budgets
<1>2. CASE Next
  <2>. HIDE DEF TypeOK
  <2>. QED BY <1>2, WorkerKeepsTypes, CallKeepsTypes, RunKeepsTypes, FailureKeepsTypes,
              TimeKeepsTypes, TimerKeepsTypes, AwakeableKeepsTypes, OperatorKeepsTypes
           DEF Next
<1>. QED BY <1>1, <1>2

LEMMA InitTypes == Init => TypeOK
<1>. SUFFICES ASSUME Init PROVE TypeOK OBVIOUS
<1>1. run \in [Runners -> Runs] BY NotRunningTypes DEF Init, Phases
<1>2. 0 \in Gens /\ 0 \in 0 .. MaxAttempts /\ 0 \in 0 .. MaxCrashes
        /\ 0 \in 0 .. MaxInterventions
  BY ConstantsOK DEF Gens, ConstantsOK
<1>. QED BY <1>1, <1>2 DEF Init, TypeOK, Runs, Statuses, TimerPhases, PromiseStatuses, NoSignal

\* The journal, the instance row, the lease, the timers, the awakeables and the
\* runs stay what Workflow.hs, Instance.hs, Sleep.hs and Awakeable.hs say they
\* are; a live lease has an owner.
THEOREM TypeCorrect == Spec => []TypeOK
BY InitTypes, NextKeepsTypes, PTL DEF Spec

-----------------------------------------------------------------------------
(* Endings *)

\* What makes EndsOnce inductive: a generation is rotated in the step that opens
\* the next one, so that the current one is never marked continued and later ones
\* have no marker; and no run is ahead of the journal.
Ends ==
  /\ \A g \in Gens : \A m, n \in marks[g] : m = n
  /\ \A g \in Gens : g < opened => marks[g] = {"continued"}
  /\ \A g \in Gens : g > opened => marks[g] = {}
  /\ "continued" \notin marks[opened]
  /\ \A s \in Terminal : status = s <=> s \in marks[opened]
  /\ \A r \in Runners : run[r].gen <= opened

EndsInv == TypeOK /\ Ends

\* A runner keeps its generation or is no longer running.
LEMMA GenStays ==
  ASSUME TypeOK, Ends, NEW r \in Runners, NEW p,
         \/ Goto(r, p)
         \/ EndRun(r, p)
         \/ Acted(r, p)
         \/ \E i \in Boundaries : Learn(r, i)
  PROVE  \A q \in Runners : run'[q].gen <= opened
<1>1. 0 <= opened BY ConstantsOK DEF TypeOK, Gens, ConstantsOK
<1>2. run \in [Runners -> Runs] BY DEF TypeOK, Runs
<1>3. \A q \in Runners : run'[q].gen \in {run[q].gen, 0}
  <2>1. CASE Goto(r, p) BY <1>2, <2>1 DEF Goto, Runs
  <2>2. CASE EndRun(r, p) BY <1>2, <2>2 DEF EndRun, NotRunning
  <2>3. CASE Acted(r, p) BY <1>2, <2>3 DEF Acted, Runs
  <2>4. CASE \E i \in Boundaries : Learn(r, i)
    <3>1. PICK i \in Boundaries :
            run' = [run EXCEPT ![r] = [run[r] EXCEPT !.pc = "run", !.map = @ \cup {i}]]
      BY <2>4 DEF Learn
    <3>. QED BY <1>2, <3>1 DEF Runs
  <2>. QED BY <2>1, <2>2, <2>3, <2>4
<1>. QED BY <1>1, <1>3 DEF Ends

\* A step that writes no marker and does not make the row terminal.
LEMMA MarksStay ==
  ASSUME TypeOK, Ends, UNCHANGED <<marks, opened>>,
         status' = status \/ \E s \in Statuses \ Terminal : status' = Upsert(s),
         \A q \in Runners : run'[q].gen <= opened
  PROVE  Ends'
<1>1. \A s \in Terminal : status' = s <=> status = s BY DEF Upsert
<1>. QED BY <1>1 DEF Ends

\* A step that gives the current generation its first marker, that of the
\* ending which it writes to the row.
LEMMA MarkEnds ==
  ASSUME TypeOK, Ends, NEW s \in Terminal, marks[opened] = {},
         marks' = [marks EXCEPT ![opened] = {s}], status' = s, UNCHANGED opened,
         \A q \in Runners : run'[q].gen <= opened
  PROVE  Ends'
<1>1. \A g \in Gens : marks'[g] = IF g = opened THEN {s} ELSE marks[g] BY DEF TypeOK
<1>2. opened \in Gens /\ opened <= opened /\ ~(opened < opened) BY DEF TypeOK, Gens
<1>3. s # "continued" BY DEF Terminal
<1>. QED BY <1>1, <1>2, <1>3 DEF Ends

LEMMA WorkerKeepsEnds ==
  ASSUME TypeOK, Ends, NEW w \in Workers, WorkerStep(w)
  PROVE  Ends'
<1>. w \in Runners BY DEF Runners
<1>1. \A q \in Runners : run'[q].gen <= opened
  BY GenStays DEF WorkerStep, Discover, Claim, Release, RecordCrash, MarkFailed
<1>2. CASE MarkFailed(w) /\ FailureLands
  <2>1. marks[opened] = {} BY <1>2 DEF FailureLands
  <2>2. marks' = [marks EXCEPT ![opened] = {"failed"}] BY <1>2, <2>1 DEF MarkFailed
  <2>3. status' = "failed" BY <1>2, <2>1 DEF MarkFailed, Upsert, Ends
  <2>. QED BY <1>1, <1>2, <2>1, <2>2, <2>3, MarkEnds DEF MarkFailed, Terminal
<1>3. CASE ~(MarkFailed(w) /\ FailureLands)
  <2>1. UNCHANGED <<marks, opened, status>>
    BY <1>3 DEF WorkerStep, Discover, Claim, Release, RecordCrash, MarkFailed, log, row
  <2>. QED BY <1>1, <2>1, MarksStay
<1>. QED BY <1>2, <1>3

LEMMA RunKeepsEnds ==
  ASSUME TypeOK, Ends, NEW r \in Runners, RunStep(r)
  PROVE  Ends'
<1>1. \A q \in Runners : run'[q].gen <= opened
  <2>1. CASE Begin(r)
    <3>1. \A q \in Runners : run'[q].gen = IF q = r THEN opened ELSE run[q].gen
      BY <2>1 DEF Begin, NotRunning, TypeOK
    <3>. QED BY <3>1 DEF Ends, TypeOK, Gens
  <2>2. CASE Load(r)
    <3>1. CASE EndRun(r, "ok") BY <3>1, GenStays
    <3>2. CASE ~EndRun(r, "ok")
      <4>1. PICK known \in SUBSET Boundaries :
              run' = [run EXCEPT ![r] = [run[r] EXCEPT !.pc = "run", !.map = known]]
        BY <2>2, <3>2 DEF Load
      <4>2. \A q \in Runners : run'[q].gen = run[q].gen BY <4>1 DEF TypeOK
      <4>. QED BY <4>2 DEF Ends
    <3>. QED BY <3>1, <3>2
  <2>3. CASE ~Begin(r) /\ ~Load(r)
    BY <2>3, GenStays DEF RunStep, FindWake, Probe, Act, AppendCheck, AppendCommit,
      ArmSleep, ArmAwait, ParkCheck, ParkCommit, Complete, Rotate
  <2>. QED BY <2>1, <2>2, <2>3
<1>2. CASE Complete(r)
  <2>1. CASE marks[run[r].gen] = {}
    <3>1. run[r].gen = opened BY <1>2 DEF Complete, Ends, TypeOK, Gens
    <3>2. status' = "completed" BY <1>2, <2>1, <3>1 DEF Complete, Upsert, Ends
    <3>. QED BY <1>1, <1>2, <2>1, <3>1, <3>2, MarkEnds DEF Complete, Terminal
  <2>2. CASE marks[run[r].gen] # {}
    BY <1>1, <1>2, <2>2, MarksStay DEF Complete
  <2>. QED BY <2>1, <2>2
<1>3. CASE Rotate(r)
  <2>. DEFINE g == run[r].gen
  <2>. g \in Gens /\ opened \in Gens /\ g < LastGen BY <1>3, RunTypes DEF TypeOK, Rotate
  <2>. HIDE DEF g
  <2>1. CASE ~Rotates(g) BY <1>1, <1>3, <2>1, MarksStay DEF Rotate, g
  <2>2. CASE Rotates(g) /\ opened > g
    <3>1. marks[g] = {"continued"} BY <2>2 DEF Ends
    <3>2. UNCHANGED <<opened, status>> BY <1>3, <2>2 DEF Rotate, g
    <3>3. marks' = [marks EXCEPT ![g] = marks[g] \cup {"continued"}]
      BY <1>3, <2>2 DEF Rotate, g
    <3>4. marks' = marks BY <3>1, <3>3 DEF TypeOK
    <3>. QED BY <1>1, <3>2, <3>4, MarksStay
  <2>3. CASE Rotates(g) /\ ~(opened > g)
    <3>1. g = opened BY <2>3 DEF Ends, Gens, g
    <3>2. marks[g] = {} BY <2>3, <3>1 DEF Rotates, Ends
    <3>3. opened' = g + 1 /\ g + 1 \in Gens
      BY <1>3, <2>3, ConstantsOK DEF Rotate, g, Gens, ConstantsOK
    <3>4. \A h \in Gens : marks'[h] = IF h = g THEN {"continued"} ELSE marks[h]
      BY <1>3, <2>3, <3>2 DEF Rotate, TypeOK, g
    <3>5. status \notin Terminal BY <3>1, <3>2 DEF Ends
    <3>6. status' = "running" BY <1>3, <2>3, <3>5 DEF Rotate, Upsert, g
    <3>7. marks[g + 1] = {} BY <3>1, <3>3 DEF Ends, Gens
    <3>8. \A h \in Gens : /\ h < opened' => h = g \/ (h < opened /\ h # g)
                          /\ h > opened' => h > opened /\ h # g
      BY <3>1, <3>3 DEF Gens
    <3>9. \A q \in Runners : run'[q].gen <= opened'
      <4>1. \A q \in Runners : run'[q].gen \in Gens
        BY <1>3, EndRunTypes DEF Rotate, Phases, Runs
      <4>. QED BY <1>1, <3>1, <3>3, <4>1 DEF Gens
    <3>10. \A s \in Terminal : status' = s <=> s \in marks'[opened']
      <4>1. marks'[opened'] = {} BY <3>3, <3>4, <3>7 DEF Gens
      <4>. QED BY <3>6, <4>1 DEF Terminal
    <3>11. \A h \in Gens : \A m, n \in marks'[h] : m = n BY <3>4 DEF Ends
    <3>12. \A h \in Gens : h < opened' => marks'[h] = {"continued"}
      <4>1. \A h \in Gens : h < opened => marks[h] = {"continued"} BY DEF Ends
      <4>. QED BY <3>4, <3>8, <4>1
    <3>13. \A h \in Gens : h > opened' => marks'[h] = {}
      <4>1. \A h \in Gens : h > opened => marks[h] = {} BY DEF Ends
      <4>. QED BY <3>4, <3>8, <4>1
    <3>14. "continued" \notin marks'[opened'] BY <3>3, <3>4, <3>7 DEF Gens
    <3>. QED BY <3>9, <3>10, <3>11, <3>12, <3>13, <3>14 DEF Ends
  <2>. QED BY <2>1, <2>2, <2>3
<1>4. CASE ~Complete(r) /\ ~Rotate(r)
  <2>1. UNCHANGED <<marks, opened>>
    BY <1>4 DEF RunStep, Begin, Load, FindWake, Probe, Act, AppendCheck, AppendCommit,
      ArmSleep, ArmAwait, ParkCheck, ParkCommit, log
  <2>2. status' = status \/ \E s \in Statuses \ Terminal : status' = Upsert(s)
    BY <1>4 DEF RunStep, Begin, Load, FindWake, Probe, Act, AppendCheck, AppendCommit,
      ArmSleep, ArmAwait, ParkCheck, ParkCommit, row, Statuses, Terminal
  <2>. QED BY <1>1, <2>1, <2>2, MarksStay
<1>. QED BY <1>2, <1>3, <1>4

LEMMA OperatorKeepsEnds ==
  ASSUME TypeOK, Ends, CancelWorkflow \/ ResurrectFailedWorkflow \/ ForceReleaseLease
  PROVE  Ends'
<1>1. \A q \in Runners : run'[q].gen <= opened
  <2>1. \A q \in Runners : run'[q].gen = run[q].gen
    BY DEF CancelWorkflow, ResurrectFailedWorkflow, ForceReleaseLease, TypeOK
  <2>. QED BY <2>1 DEF Ends
<1>2. CASE CancelWorkflow BY <1>1, <1>2, MarkEnds DEF CancelWorkflow, Terminal
<1>3. CASE ResurrectFailedWorkflow
  <2>1. marks[opened] = {"failed"} BY <1>3 DEF ResurrectFailedWorkflow, Ends, TypeOK, Terminal
  <2>2. \A g \in Gens : marks'[g] = IF g = opened THEN {} ELSE marks[g]
    BY <1>3, <2>1 DEF ResurrectFailedWorkflow, TypeOK
  <2>3. status' = "running" /\ opened' = opened BY <1>3 DEF ResurrectFailedWorkflow
  <2>4. opened \in Gens /\ ~(opened < opened) BY DEF TypeOK, Gens
  <2>. QED BY <1>1, <2>2, <2>3, <2>4 DEF Ends, Terminal
<1>4. CASE ForceReleaseLease BY <1>1, <1>4, MarksStay DEF ForceReleaseLease, log
<1>. QED BY <1>2, <1>3, <1>4

LEMMA NextKeepsEnds == EndsInv /\ [Next]_vars => EndsInv'
<1>. SUFFICES ASSUME TypeOK, Ends, Next \/ UNCHANGED vars
              PROVE  Ends'
  BY NextKeepsTypes DEF EndsInv
<1>1. CASE \E r \in Runners : Throw(r) \/ StoreError(r) \/ Kill(r)
  <2>1. PICK r \in Runners : Throw(r) \/ StoreError(r) \/ Kill(r) BY <1>1
  <2>2. \/ EndRun(r, "crashed")
        \/ EndRun(r, "stop")
        \/ run' = [run EXCEPT ![r] = NotRunning("idle")]
    BY <2>1 DEF Throw, StoreError, Kill
  <2>3. \A q \in Runners : run'[q].gen \in {run[q].gen, 0}
    BY <2>2 DEF EndRun, NotRunning, TypeOK
  <2>4. \A q \in Runners : run'[q].gen <= opened
    <3>1. 0 <= opened BY ConstantsOK DEF TypeOK, Gens, ConstantsOK
    <3>. QED BY <2>3, <3>1 DEF Ends
  <2>5. UNCHANGED <<marks, opened, status>> BY <2>1 DEF Throw, StoreError, Kill, log, row
  <2>. QED BY <2>4, <2>5, MarksStay
<1>2. CASE \E d \in Direct : CallDirectly(d)
  <2>1. PICK d \in Direct : CallDirectly(d) BY <1>2
  <2>2. \A q \in Runners : run'[q].gen <= opened
    BY <2>1, GenStays DEF CallDirectly, Runners
  <2>. QED BY <2>1, <2>2, MarksStay DEF CallDirectly, log, row
<1>3. CASE \/ LeaseExpires
           \/ PaceElapses
           \/ SignalCheck
           \/ SignalCommit
           \/ \E k \in Sleeps : TimerDue(k) \/ TimerStep(k) \/ RequeueTimer(k)
           \/ \E k \in Promises : SignalRead(k) \/ CancelAwakeable(k)
           \/ UNCHANGED vars
  <2>1. UNCHANGED <<marks, opened, run>>
    BY <1>3 DEF LeaseExpires, PaceElapses, SignalCheck, SignalCommit, TimerDue, TimerStep,
      ClaimTimer, LookAtOwner, FireCheck, FireCommit, MarkFired, RequeueTimer, SignalRead,
      CancelAwakeable, log, vars
  <2>2. status' = status \/ status' = Upsert("running")
    BY <1>3 DEF LeaseExpires, PaceElapses, SignalCheck, SignalCommit, TimerDue, TimerStep,
      ClaimTimer, LookAtOwner, FireCheck, FireCommit, MarkFired, RequeueTimer, SignalRead,
      CancelAwakeable, WokenStatus, row, vars
  <2>3. \A q \in Runners : run'[q].gen <= opened BY <2>1 DEF Ends
  <2>. QED BY <2>1, <2>2, <2>3, MarksStay DEF Statuses, Terminal
<1>. QED BY <1>1, <1>2, <1>3, WorkerKeepsEnds, RunKeepsEnds, OperatorKeepsEnds DEF Next

LEMMA InitEnds == Init => EndsInv
<1>. SUFFICES ASSUME Init PROVE Ends BY InitTypes DEF EndsInv
<1>. QED BY ConstantsOK DEF Init, Ends, Terminal, NotRunning, Gens, ConstantsOK

LEMMA EndsInvImplies == EndsInv => EndsOnce
<1>. SUFFICES ASSUME TypeOK, Ends PROVE EndsOnce BY DEF EndsInv
<1>1. ASSUME NEW g \in Gens
      PROVE  Cardinality(marks[g]) <= 1
  <2>1. CASE marks[g] = {} BY <2>1, FS_EmptySet
  <2>2. ASSUME NEW m \in marks[g]
        PROVE  Cardinality(marks[g]) <= 1
    <3>1. marks[g] = {m} BY DEF Ends
    <3>. QED BY <3>1, FS_Singleton
  <2>. QED BY <2>1, <2>2
<1>. QED BY <1>1 DEF Ends, EndsOnce

\* However runs, crashes, cancellations, resurrections and rotations interleave, a
\* generation ends once, only a rotation opens another one, and the instance row is
\* terminal exactly when the journal says so (Workflow.hs, Instance.hs).
THEOREM EndsOnceCorrect == Spec => []EndsOnce
BY InitEnds, NextKeepsEnds, EndsInvImplies, PTL DEF Spec

-----------------------------------------------------------------------------
(* How a step moves a run *)

\* A run keeps its generation and what it holds, and moves to one of the phases P.
Hops(q, P) ==
  /\ run'[q].gen = run[q].gen /\ run'[q].map = run[q].map /\ run'[q].late = run[q].late
  /\ run'[q].pc \in P

\* A run ends or a new one begins: it holds nothing and has started nothing.
Resets(q) ==
  /\ run'[q].map = {} /\ run'[q].late = 0
  /\ run'[q].pc \in {"idle", "load", "ok", "crashed", "stop"}

\* A run gets the results of the boundaries M, all of them recorded.
Reads(q, M) ==
  /\ run'[q].gen = run[q].gen /\ run'[q].late = run[q].late
  /\ run'[q].pc = "run" /\ run'[q].map = M
  /\ M \subseteq Boundaries /\ \A i \in M : i \in run[q].map \/ Key(q, i) \in journal'[run[q].gen]

\* A run has started an action.
Starts(q, p) ==
  /\ run'[q].gen = run[q].gen /\ run'[q].map = run[q].map
  /\ run'[q].late = (IF Stopped(q) /\ run[q].late < 2 THEN run[q].late + 1 ELSE run[q].late)
  /\ run'[q].pc = p

LEMMA GotoMoves ==
  ASSUME TypeOK, NEW r \in Runners, NEW p, Goto(r, p)
  PROVE  Hops(r, {p}) /\ \A q \in Runners \ {r} : run'[q] = run[q]
BY DEF TypeOK, Goto, Hops

LEMMA EndRunMoves ==
  ASSUME TypeOK, NEW r \in Runners, NEW p \in {"idle", "ok", "crashed", "stop"}, EndRun(r, p)
  PROVE  Resets(r) /\ \A q \in Runners \ {r} : run'[q] = run[q]
BY DEF TypeOK, EndRun, NotRunning, Resets

LEMMA LearnMoves ==
  ASSUME TypeOK, NEW r \in Runners, NEW i \in Boundaries, Learn(r, i),
         Key(r, i) \in journal'[run[r].gen]
  PROVE  /\ Reads(r, run[r].map \cup {i})
         /\ \A q \in Runners \ {r} : run'[q] = run[q]
<1>1. run' = [run EXCEPT ![r] = [run[r] EXCEPT !.pc = "run", !.map = @ \cup {i}]]
  BY DEF Learn
<1>2. run \in [Runners -> Runs] BY DEF TypeOK, Runs
<1>3. run'[r] = [run[r] EXCEPT !.pc = "run", !.map = @ \cup {i}] BY <1>1, <1>2
<1>4. run[r].map \subseteq Boundaries BY <1>2 DEF Runs
<1>. QED BY <1>1, <1>2, <1>3, <1>4 DEF Reads, Runs

LEMMA ActedMoves ==
  ASSUME TypeOK, NEW r \in Runners, NEW p, Acted(r, p)
  PROVE  Starts(r, p) /\ \A q \in Runners \ {r} : run'[q] = run[q]
<1>1. run \in [Runners -> Runs] BY DEF TypeOK, Runs
<1>. QED BY <1>1 DEF Acted, Starts, Runs

\* What a step of a runner does to a run, its own or another's.
LEMMA RunStepMoves ==
  ASSUME TypeOK, NEW r \in Runners, RunStep(r)
  PROVE  /\ \A q \in Runners \ {r} : run'[q] = run[q]
         /\ \/ Resets(r)
            \/ Probe(r) /\ Hops(r, {"stop", "act"})
            \/ AppendCheck(r) /\ Hops(r, {"fresh"})
            \/ ParkCheck(r) /\ Hops(r, {"suspend", "resume"})
            \/ Load(r) /\ \E M : Reads(r, M)
            \/ run[r].pc \in {"run", "append", "fresh"} /\ \E M : Reads(r, M)
            \/ Act(r) /\ Starts(r, "append")
            \/ (ArmSleep(r) \/ ArmAwait(r)) /\ Starts(r, "park")
<1>1. CASE Begin(r)
  <2>1. run' = [run EXCEPT ![r] = [NotRunning("load") EXCEPT !.gen = opened]]
    BY <1>1 DEF Begin
  <2>2. run'[r] = [NotRunning("load") EXCEPT !.gen = opened]
    BY <2>1 DEF TypeOK
  <2>3. run'[r].pc = "load" /\ run'[r].map = {} /\ run'[r].late = 0
    BY <2>2 DEF NotRunning
  <2>. QED BY <2>1, <2>3 DEF TypeOK, Resets
<1>2. CASE Load(r)
  <2>1. CASE EndRun(r, "ok") BY <2>1, EndRunMoves
  <2>2. CASE ~EndRun(r, "ok")
    <3>1. PICK missed : run' = [run EXCEPT ![r].pc = "run",
            ![r].map = {i \in Boundaries : Key(r, i) \in journal[run[r].gen]} \ missed]
      BY <1>2, <2>2 DEF Load
    <3>. DEFINE M == {i \in Boundaries : Key(r, i) \in journal[run[r].gen]} \ missed
    <3>2. run' = [run EXCEPT ![r] = [run[r] EXCEPT !.pc = "run", !.map = M]] BY <3>1
    <3>3. run \in [Runners -> Runs] BY DEF TypeOK, Runs
    <3>4. run'[r] = [run[r] EXCEPT !.pc = "run", !.map = M] BY <3>2, <3>3
    <3>5. journal' = journal BY <1>2 DEF Load, log
    <3>6. \A i \in M : Key(r, i) \in journal'[run[r].gen] BY <3>5
    <3>7. M \subseteq Boundaries OBVIOUS
    <3>. HIDE DEF M
    <3>8. Reads(r, M) BY <3>3, <3>4, <3>6, <3>7 DEF Reads, Runs
    <3>9. \A q \in Runners \ {r} : run'[q] = run[q] BY <3>2, <3>3
    <3>. QED BY <1>2, <3>8, <3>9
  <2>. QED BY <2>1, <2>2
<1>3. CASE FindWake(r)
  <2>1. run[r].pc = "run" /\ journal' = journal BY <1>3 DEF FindWake, log
  <2>2. PICK i \in Boundaries : Learn(r, i) /\ Key(r, i) \in journal[run[r].gen] BY <1>3 DEF FindWake
  <2>. QED BY <2>1, <2>2, LearnMoves
<1>4. CASE Probe(r)
  <2>1. Goto(r, "stop") \/ Goto(r, "act") \/ EndRun(r, "ok") BY <1>4 DEF Probe
  <2>2. CASE Goto(r, "stop") BY <1>4, <2>2, GotoMoves DEF Hops
  <2>3. CASE Goto(r, "act") BY <1>4, <2>3, GotoMoves DEF Hops
  <2>4. CASE EndRun(r, "ok") BY <2>4, EndRunMoves
  <2>. QED BY <2>1, <2>2, <2>3, <2>4
<1>5. CASE Act(r)
  BY <1>5, ActedMoves DEF Act
<1>6. CASE AppendCheck(r)
  <2>1. run[r].pc = "append" /\ journal' = journal BY <1>6 DEF AppendCheck, log
  <2>2. PICK i \in Boundaries : \/ Learn(r, i) /\ Key(r, i) \in journal[run[r].gen]
                                \/ EndRun(r, "ok")
                                \/ Goto(r, "fresh")
    BY <1>6 DEF AppendCheck
  <2>3. CASE Learn(r, i) /\ Key(r, i) \in journal[run[r].gen] BY <2>1, <2>3, LearnMoves
  <2>4. CASE EndRun(r, "ok") BY <2>4, EndRunMoves
  <2>5. CASE Goto(r, "fresh") BY <1>6, <2>5, GotoMoves
  <2>. QED BY <2>2, <2>3, <2>4, <2>5
<1>7. CASE AppendCommit(r)
  <2>1. run[r].pc = "fresh" BY <1>7 DEF AppendCommit
  <2>2. PICK i \in Boundaries :
          /\ journal' = [journal EXCEPT ![run[r].gen] = @ \cup {Key(r, i)}]
          /\ Learn(r, i)
    BY <1>7 DEF AppendCommit
  <2>3. Key(r, i) \in journal'[run[r].gen] BY <2>2, RunTypes DEF TypeOK
  <2>. QED BY <2>1, <2>2, <2>3, LearnMoves
<1>8. CASE ArmSleep(r)
  BY <1>8, ActedMoves DEF ArmSleep
<1>9. CASE ArmAwait(r)
  <2>1. EndRun(r, "crashed") \/ Acted(r, "park") BY <1>9 DEF ArmAwait
  <2>. QED BY <1>9, <2>1, ActedMoves, EndRunMoves
<1>10. CASE ParkCheck(r)
  <2>1. Goto(r, "resume") \/ Goto(r, "suspend") BY <1>10 DEF ParkCheck
  <2>. QED BY <1>10, <2>1, GotoMoves DEF Hops
<1>11. CASE ParkCommit(r)
  BY <1>11, EndRunMoves DEF ParkCommit
<1>12. CASE Complete(r)
  BY <1>12, EndRunMoves DEF Complete
<1>13. CASE Rotate(r)
  BY <1>13, EndRunMoves DEF Rotate
<1>. QED
  BY <1>1, <1>2, <1>3, <1>4, <1>5, <1>6, <1>7, <1>8, <1>9, <1>10, <1>11, <1>12, <1>13 DEF RunStep

\* What a step does to any run.
LEMMA RunMoves ==
  ASSUME TypeOK, Next, ~ResurrectFailedWorkflow, NEW q \in Runners
  PROVE  \/ run'[q] = run[q]
         \/ Resets(q)
         \/ Hops(q, {"idle", "found", "begin", "stop", "fail"})
         \/ Probe(q) /\ Hops(q, {"act"})
         \/ AppendCheck(q) /\ Hops(q, {"fresh"})
         \/ ParkCheck(q) /\ Hops(q, {"suspend", "resume"})
         \/ Load(q) /\ \E M : Reads(q, M)
         \/ run[q].pc \in {"run", "append", "fresh"} /\ \E M : Reads(q, M)
         \/ Act(q) /\ Starts(q, "append")
         \/ (ArmSleep(q) \/ ArmAwait(q)) /\ Starts(q, "park")
<1>1. ASSUME NEW w \in Workers, WorkerStep(w)
      PROVE  \/ run'[q] = run[q] \/ Hops(q, {"idle", "found", "begin", "stop", "fail"})
  <2>1. w \in Runners BY DEF Runners
  <2>2. PICK p \in {"idle", "found", "begin", "stop", "fail"} : Goto(w, p)
    BY <1>1 DEF WorkerStep, Discover, Claim, Release, RecordCrash, MarkFailed
  <2>. QED BY <2>1, <2>2, GotoMoves DEF Hops
<1>2. ASSUME NEW d \in Direct, CallDirectly(d)
      PROVE  run'[q] = run[q] \/ Hops(q, {"idle", "found", "begin", "stop", "fail"})
  <2>1. d \in Runners BY DEF Runners
  <2>. QED BY <1>2, <2>1, GotoMoves DEF CallDirectly, Hops
<1>3. ASSUME NEW r \in Runners, Throw(r) \/ StoreError(r) \/ Kill(r)
      PROVE  run'[q] = run[q] \/ Resets(q)
  <2>1. CASE Throw(r) BY <2>1, EndRunMoves DEF Throw
  <2>2. CASE StoreError(r) BY <2>2, EndRunMoves DEF StoreError
  <2>3. CASE Kill(r) BY <2>3 DEF Kill, TypeOK, NotRunning, Resets
  <2>. QED BY <1>3, <2>1, <2>2, <2>3
<1>4. CASE \/ LeaseExpires
           \/ PaceElapses
           \/ SignalCheck
           \/ SignalCommit
           \/ \E k \in Sleeps : TimerDue(k) \/ TimerStep(k) \/ RequeueTimer(k)
           \/ \E k \in Promises : SignalRead(k) \/ CancelAwakeable(k)
           \/ CancelWorkflow
           \/ ForceReleaseLease
  BY <1>4 DEF LeaseExpires, PaceElapses, SignalCheck, SignalCommit, TimerDue, TimerStep,
    ClaimTimer, LookAtOwner, FireCheck, FireCommit, MarkFired, RequeueTimer, SignalRead,
    CancelAwakeable, CancelWorkflow, ForceReleaseLease
<1>5. ASSUME NEW r \in Runners, RunStep(r)
      PROVE  \/ run'[q] = run[q]
             \/ Resets(q)
             \/ Hops(q, {"idle", "found", "begin", "stop", "fail"})
             \/ Probe(q) /\ Hops(q, {"act"})
             \/ AppendCheck(q) /\ Hops(q, {"fresh"})
             \/ ParkCheck(q) /\ Hops(q, {"suspend", "resume"})
             \/ Load(q) /\ \E M : Reads(q, M)
             \/ run[q].pc \in {"run", "append", "fresh"} /\ \E M : Reads(q, M)
             \/ Act(q) /\ Starts(q, "append")
             \/ (ArmSleep(q) \/ ArmAwait(q)) /\ Starts(q, "park")
  <2>1. Hops(q, {"stop", "act"}) =>
          Hops(q, {"idle", "found", "begin", "stop", "fail"}) \/ Hops(q, {"act"})
    BY DEF Hops
  <2>. QED BY <1>5, <2>1, RunStepMoves
<1>. QED BY <1>1, <1>2, <1>3, <1>4, <1>5 DEF Next

-----------------------------------------------------------------------------
(* Late actions *)

\* A run in these phases is past the probe of a boundary, or will probe the next one.
Active == {"run", "append", "fresh", "park", "suspend", "resume"}

\* What makes OneLateAction inductive: a run that has started an action too late is
\* stopped for good, so that the next probe ends it.
LateInv ==
  \A r \in Runners :
    /\ run[r].late <= 1
    /\ run[r].pc \in {"load", "act"} => run[r].late = 0
    /\ run[r].late = 1 /\ run[r].pc \in Active => Stopped(r)

\* Only a resurrection takes a lifecycle marker away.
LEMMA MarksGrow ==
  ASSUME TypeOK, [Next]_vars, ~ResurrectFailedWorkflow, NEW g \in Gens
  PROVE  marks[g] \subseteq marks'[g]
<1>. USE DEF TypeOK
<1>1. ASSUME NEW w \in Workers, WorkerStep(w)
      PROVE  marks[g] \subseteq marks'[g]
  BY <1>1 DEF WorkerStep, Discover, Claim, Release, RecordCrash, MarkFailed, log
<1>2. ASSUME NEW r \in Runners, RunStep(r)
      PROVE  marks[g] \subseteq marks'[g]
  <2>1. CASE Complete(r) BY <2>1 DEF Complete
  <2>2. CASE Rotate(r) BY <2>2 DEF Rotate
  <2>3. CASE ~Complete(r) /\ ~Rotate(r)
    BY <1>2, <2>3 DEF RunStep, Begin, Load, FindWake, Probe, Act, AppendCheck, AppendCommit,
      ArmSleep, ArmAwait, ParkCheck, ParkCommit, log
  <2>. QED BY <2>1, <2>2, <2>3
<1>3. CASE CancelWorkflow BY <1>3 DEF CancelWorkflow
<1>4. CASE \/ LeaseExpires
           \/ PaceElapses
           \/ SignalCheck
           \/ SignalCommit
           \/ ForceReleaseLease
           \/ \E d \in Direct : CallDirectly(d)
           \/ \E r \in Runners : Throw(r) \/ StoreError(r) \/ Kill(r)
           \/ \E k \in Sleeps : TimerDue(k) \/ TimerStep(k) \/ RequeueTimer(k)
           \/ \E k \in Promises : SignalRead(k) \/ CancelAwakeable(k)
           \/ UNCHANGED vars
  <2>1. marks' = marks
    BY <1>4 DEF LeaseExpires, PaceElapses, SignalCheck, SignalCommit, ForceReleaseLease,
      CallDirectly, Throw, StoreError, Kill, TimerDue, TimerStep, ClaimTimer, LookAtOwner,
      FireCheck, FireCommit, MarkFired, RequeueTimer, SignalRead, CancelAwakeable, log, vars
  <2>. QED BY <2>1
<1>. QED BY <1>1, <1>2, <1>3, <1>4 DEF Next

\* A lease changes hands only to a worker that claims it.
LEMMA LeaseMoves ==
  ASSUME TypeOK, [Next]_vars, NEW w \in Workers, leasedBy # w, leasedBy' = w
  PROVE  Claim(w) /\ run'[w].pc = "begin"
<1>. w # Nobody /\ w \in Runners BY ConstantsOK DEF ConstantsOK, Nobody, Runners
<1>1. ASSUME NEW v \in Workers, WorkerStep(v)
      PROVE  Claim(w) /\ run'[w].pc = "begin"
  <2>1. CASE Claim(v)
    <3>1. v = w /\ Goto(w, "begin") BY <2>1 DEF Claim, lease
    <3>. QED BY <2>1, <3>1, GotoMoves DEF Hops
  <2>2. CASE ~Claim(v)
    BY <1>1, <2>2 DEF WorkerStep, Discover, Release, RecordCrash, MarkFailed, ClearLease, row, lease
  <2>. QED BY <2>1, <2>2
<1>2. ASSUME NEW r \in Runners, RunStep(r)
      PROVE  FALSE
  BY <1>2 DEF RunStep, Begin, Load, FindWake, Probe, Act, AppendCheck, AppendCommit,
    ArmSleep, ArmAwait, ParkCheck, ParkCommit, Complete, Rotate, row, lease
<1>3. CASE CancelWorkflow \/ ResurrectFailedWorkflow \/ ForceReleaseLease
  BY <1>3 DEF CancelWorkflow, ResurrectFailedWorkflow, ForceReleaseLease, ClearLease, lease
<1>4. CASE \/ LeaseExpires
           \/ PaceElapses
           \/ SignalCheck
           \/ SignalCommit
           \/ \E d \in Direct : CallDirectly(d)
           \/ \E r \in Runners : Throw(r) \/ StoreError(r) \/ Kill(r)
           \/ \E k \in Sleeps : TimerDue(k) \/ TimerStep(k) \/ RequeueTimer(k)
           \/ \E k \in Promises : SignalRead(k) \/ CancelAwakeable(k)
           \/ UNCHANGED vars
  BY <1>4 DEF LeaseExpires, PaceElapses, SignalCheck, SignalCommit,
    CallDirectly, Throw, StoreError, Kill, TimerDue, TimerStep, ClaimTimer, LookAtOwner,
    FireCheck, FireCommit, MarkFired, RequeueTimer, SignalRead, CancelAwakeable, row, lease, vars
<1>. QED BY <1>1, <1>2, <1>3, <1>4 DEF Next

\* A run that has been stopped stays stopped.
LEMMA StoppedStays ==
  ASSUME TypeOK, [Next]_vars, ~ResurrectFailedWorkflow, NEW q \in Runners, Stopped(q),
         run'[q].gen = run[q].gen, run'[q].pc # "begin"
  PROVE  Stopped(q)'
<1>1. CASE marks[run[q].gen] \cap Stopping # {}
  <2>1. marks[run[q].gen] \subseteq marks'[run[q].gen]
    BY RunTypes, MarksGrow
  <2>. QED BY <1>1, <2>1 DEF Stopped
<1>2. CASE q \in Workers /\ leasedBy # q
  BY <1>2, LeaseMoves DEF Stopped
<1>. QED BY <1>1, <1>2 DEF Stopped

LEMMA NextKeepsLate == TypeOK /\ LateInv /\ [Next]_vars => LateInv'
<1>. SUFFICES ASSUME TypeOK, LateInv, Next \/ UNCHANGED vars
              PROVE  LateInv'
  OBVIOUS
<1>1. CASE UNCHANGED vars
  BY <1>1 DEF vars, LateInv, Stopped, log, row, lease
<1>2. CASE ResurrectFailedWorkflow
  <2>1. \A r \in Runners : run'[r].late = 0 BY <1>2 DEF ResurrectFailedWorkflow, TypeOK
  <2>. QED BY <2>1 DEF LateInv
<1>3. ASSUME Next, ~ResurrectFailedWorkflow, NEW q \in Runners
      PROVE  /\ run'[q].late <= 1
             /\ run'[q].pc \in {"load", "act"} => run'[q].late = 0
             /\ run'[q].late = 1 /\ run'[q].pc \in Active => Stopped(q)'
  <2>. run[q].late \in 0 .. 2 /\ run[q].late <= 1 BY RunTypes DEF LateInv
  <2>. [Next]_vars BY <1>3
  <2>. "begin" \notin Active BY DEF Active
  <2>1. CASE run'[q] = run[q]
    BY <1>3, <2>1, StoppedStays DEF LateInv
  <2>2. CASE Resets(q)
    BY <2>2 DEF Resets
  <2>3. CASE Hops(q, {"idle", "found", "begin", "stop", "fail"})
    BY <2>3 DEF Hops, Active
  <2>4. CASE Probe(q) /\ Hops(q, {"act"})
    <3>1. run[q].pc = "run" /\ ~Stopped(q)
      <4>1. ~Goto(q, "stop") /\ ~EndRun(q, "ok")
        BY <2>4, GotoMoves, EndRunMoves DEF Hops, Resets
      <4>. QED BY <2>4, <4>1 DEF Probe, Stopped, Stops
    <3>2. run[q].late = 0 BY <3>1 DEF LateInv, Active
    <3>. QED BY <2>4, <3>2 DEF Hops
  <2>5. CASE AppendCheck(q) /\ Hops(q, {"fresh"})
    BY <1>3, <2>5, StoppedStays DEF Hops, AppendCheck, LateInv, Active
  <2>6. CASE ParkCheck(q) /\ Hops(q, {"suspend", "resume"})
    BY <1>3, <2>6, StoppedStays DEF Hops, ParkCheck, LateInv, Active
  <2>7. CASE Load(q) /\ \E M : Reads(q, M)
    BY <2>7 DEF Load, Reads, LateInv
  <2>8. CASE run[q].pc \in {"run", "append", "fresh"} /\ \E M : Reads(q, M)
    BY <1>3, <2>8, StoppedStays DEF Reads, LateInv, Active
  <2>9. CASE \/ Act(q) /\ Starts(q, "append")
             \/ (ArmSleep(q) \/ ArmAwait(q)) /\ Starts(q, "park")
    <3>1. run[q].pc = "act" BY <2>9 DEF Act, ArmSleep, ArmAwait
    <3>2. run[q].late = 0 BY <3>1 DEF LateInv
    <3>3. run'[q].gen = run[q].gen /\ run'[q].pc \in {"append", "park"}
          /\ run'[q].late = IF Stopped(q) THEN 1 ELSE 0
      BY <2>9, <3>2 DEF Starts
    <3>4. Stopped(q) => Stopped(q)' BY <1>3, <3>3, StoppedStays
    <3>. QED BY <3>3, <3>4
  <2>. QED BY <1>3, <2>1, <2>2, <2>3, <2>4, <2>5, <2>6, <2>7, <2>8, <2>9, RunMoves
<1>. QED BY <1>1, <1>2, <1>3 DEF LateInv

\* A run that was cancelled or failed, or whose worker lost its lease, starts at most
\* the one action for which it was let through, whatever happens to its lease later.
THEOREM LateActions == Spec => []OneLateAction
<1>1. Init => LateInv
  BY DEF Init, LateInv, NotRunning
<1>2. LateInv => OneLateAction
  BY DEF LateInv, OneLateAction
<1>. QED BY <1>1, <1>2, NextKeepsLate, TypeCorrect, PTL DEF Spec

-----------------------------------------------------------------------------
(* Lost wakes *)

\* What a run holds is recorded in its generation.
MapInv == \A r \in Runners : \A i \in run[r].map : Key(r, i) \in journal[run[r].gen]

\* A generation is left only when all its boundaries are recorded.
ClosedInv == \A g \in Gens : g < opened => \A i \in Boundaries : <<g, i>> \in journal[g]

\* Awakeables are registered and signalled in generations that have begun.
KnownInv ==
  /\ \A k \in Promises : promise[k] # "absent" => k[1] <= opened
  /\ sig.phase # "none" => sig.key[1] <= sig.gen /\ sig.gen <= opened

\* A run that parks stands at an await that it has armed.
ArmedInv ==
  \A r \in Runners : run[r].pc \in {"park", "suspend", "resume"} =>
    \E i \in Boundaries :
      /\ At(r, i)
      /\ IsAwait(i)
      /\ Body[i] = "await" => promise[Key(r, i)] # "absent"
      /\ Body[i] = "sleep" => timer[Key(r, i)] # "absent"

\* Nobody is about to record key k in generation g.
NobodyWrites(g, k) ==
  /\ \A r \in Runners, i \in Boundaries :
       run[r].pc = "fresh" /\ At(r, i) => <<run[r].gen, Key(r, i)>> # <<g, k>>
  /\ k \in Sleeps /\ timer[k] = "fresh" => g # k[1]
  /\ sig.phase = "fresh" => <<sig.gen, sig.key>> # <<g, k>>

\* What a run has found under the lock of its await holds until it commits.
ParkInv ==
  \A r \in Runners, i \in Boundaries : run[r].pc = "suspend" /\ At(r, i) =>
    ~Resolved(r, Key(r, i)) /\ NobodyWrites(run[r].gen, Key(r, i))

WakeInv == MapInv /\ ClosedInv /\ KnownInv /\ ArmedInv /\ ParkInv /\ NoWakeLost

\* A run stands at one boundary at most.
LEMMA AtUnique ==
  ASSUME NEW r \in Runners, NEW i \in Boundaries, NEW j \in Boundaries, At(r, i), At(r, j)
  PROVE  i = j
<1>1. i \in Int /\ j \in Int /\ 1 <= i /\ 1 <= j BY ConstantsOK DEF Boundaries, ConstantsOK
<1>2. ~(i < j) BY <1>1 DEF At
<1>3. ~(j < i) BY <1>1 DEF At
<1>. QED BY <1>1, <1>2, <1>3

\* Who records a step: whoever found it missing under its lock, or holds the lock now.
\* Whoever does so writes to the row that the workflow runs.
LEMMA JournalStep ==
  ASSUME TypeOK, [Next]_vars, NEW g \in Gens
  PROVE  /\ journal[g] \subseteq journal'[g]
         /\ \A k \in journal'[g] \ journal[g] :
              status' # "suspended" /\ (Free(g, k) \/ ~NobodyWrites(g, k))
<1>. USE DEF TypeOK
<1>1. ASSUME NEW r \in Runners, AppendCommit(r)
      PROVE  /\ journal[g] \subseteq journal'[g]
             /\ \A k \in journal'[g] \ journal[g] : status' # "suspended" /\ ~NobodyWrites(g, k)
  <2>1. PICK i \in Boundaries :
          /\ At(r, i)
          /\ journal' = [journal EXCEPT ![run[r].gen] = @ \cup {Key(r, i)}]
    BY <1>1 DEF AppendCommit
  <2>2. run[r].pc = "fresh" /\ status' = Upsert("running") BY <1>1 DEF AppendCommit
  <2>3. status' # "suspended" BY <2>2 DEF Upsert, Terminal
  <2>4. \A h \in Gens : journal'[h] = IF h = run[r].gen THEN journal[h] \cup {Key(r, i)} ELSE journal[h]
    BY <2>1
  <2>. QED BY <2>1, <2>2, <2>3, <2>4 DEF NobodyWrites
<1>2. ASSUME NEW r \in Runners, ArmAwait(r)
      PROVE  /\ journal[g] \subseteq journal'[g]
             /\ \A k \in journal'[g] \ journal[g] : status' # "suspended" /\ Free(g, k)
  <2>1. CASE UNCHANGED journal BY <2>1
  <2>2. CASE ~UNCHANGED journal
    <3>1. PICK i \in Boundaries : \E h \in run[r].gen .. opened :
            /\ Free(h, Key(r, i))
            /\ journal' = [journal EXCEPT ![h] = @ \cup {Key(r, i)}]
            /\ status' = Upsert("running")
      BY <1>2, <2>2 DEF ArmAwait
    <3>2. PICK h \in run[r].gen .. opened :
            /\ Free(h, Key(r, i))
            /\ journal' = [journal EXCEPT ![h] = @ \cup {Key(r, i)}]
            /\ status' = Upsert("running")
      BY <3>1
    <3>3. status' # "suspended" BY <3>2 DEF Upsert, Terminal
    <3>4. journal'[g] = IF g = h THEN journal[g] \cup {Key(r, i)} ELSE journal[g]
      BY <3>2
    <3>. QED BY <3>2, <3>3, <3>4
  <2>. QED BY <2>1, <2>2
<1>3. ASSUME NEW k \in Sleeps, FireCommit(k)
      PROVE  /\ journal[g] \subseteq journal'[g]
             /\ \A l \in journal'[g] \ journal[g] : status' # "suspended" /\ ~NobodyWrites(g, l)
  <2>1. journal' = [journal EXCEPT ![k[1]] = @ \cup {k}] /\ timer[k] = "fresh"
    BY <1>3 DEF FireCommit
  <2>2. status' # "suspended" BY <1>3 DEF FireCommit, WokenStatus, Upsert, Terminal
  <2>3. journal'[g] = IF g = k[1] THEN journal[g] \cup {k} ELSE journal[g] BY <2>1
  <2>. QED BY <2>1, <2>2, <2>3 DEF NobodyWrites
<1>4. ASSUME SignalCommit
      PROVE  /\ journal[g] \subseteq journal'[g]
             /\ \A l \in journal'[g] \ journal[g] : status' # "suspended" /\ ~NobodyWrites(g, l)
  <2>1. journal' = [journal EXCEPT ![sig.gen] = @ \cup {sig.key}] /\ sig.phase = "fresh"
    BY <1>4 DEF SignalCommit
  <2>2. status' # "suspended" BY <1>4 DEF SignalCommit, WokenStatus, Upsert, Terminal
  <2>3. journal'[g] = IF g = sig.gen THEN journal[g] \cup {sig.key} ELSE journal[g] BY <2>1
  <2>. QED BY <2>1, <2>2, <2>3 DEF NobodyWrites
<1>5. ASSUME NEW r \in Runners, RunStep(r), ~AppendCommit(r), ~ArmAwait(r)
      PROVE  journal' = journal
  BY <1>5 DEF RunStep, Begin, Load, FindWake, Probe, Act, AppendCheck,
    ArmSleep, ParkCheck, ParkCommit, Complete, Rotate, log
<1>6. ASSUME NEW k \in Sleeps, TimerDue(k) \/ TimerStep(k) \/ RequeueTimer(k), ~FireCommit(k)
      PROVE  journal' = journal
  BY <1>6 DEF TimerDue, TimerStep, ClaimTimer, LookAtOwner, FireCheck, MarkFired, RequeueTimer, log
<1>7. ASSUME \/ LeaseExpires
             \/ PaceElapses
             \/ SignalCheck
             \/ CancelWorkflow
             \/ ResurrectFailedWorkflow
             \/ ForceReleaseLease
             \/ \E w \in Workers : WorkerStep(w)
             \/ \E d \in Direct : CallDirectly(d)
             \/ \E r \in Runners : Throw(r) \/ StoreError(r) \/ Kill(r)
             \/ \E k \in Promises : SignalRead(k) \/ CancelAwakeable(k)
             \/ UNCHANGED vars
      PROVE  journal' = journal
  BY <1>7 DEF LeaseExpires, PaceElapses, SignalCheck, CancelWorkflow, ResurrectFailedWorkflow,
    ForceReleaseLease, WorkerStep, Discover, Claim, Release, RecordCrash, MarkFailed,
    CallDirectly, Throw, StoreError, Kill, SignalRead, CancelAwakeable, log, vars
<1>. QED BY <1>1, <1>2, <1>3, <1>4, <1>5, <1>6, <1>7 DEF Next, TimerStep

\* The generation advances by a rotation of the current one, which runs the workflow.
LEMMA OpenedStep ==
  ASSUME TypeOK, Ends, [Next]_vars, opened' # opened
  PROVE  /\ opened' = opened + 1 /\ status' # "suspended"
         /\ \E r \in Runners : Rotate(r) /\ run[r].gen = opened
<1>1. ASSUME NEW r \in Runners, Rotate(r)
      PROVE  opened' = opened + 1 /\ status' # "suspended" /\ run[r].gen = opened
  <2>1. ~(opened > run[r].gen) /\ opened' = run[r].gen + 1 /\ status' = Upsert("running")
    BY <1>1 DEF Rotate
  <2>2. run[r].gen = opened BY <2>1, RunTypes DEF Ends, TypeOK, Gens
  <2>. QED BY <2>1, <2>2 DEF Upsert, Terminal
<1>2. ASSUME NEW r \in Runners, RunStep(r), ~Rotate(r)
      PROVE  FALSE
  BY <1>2 DEF RunStep, Begin, Load, FindWake, Probe, Act, AppendCheck, AppendCommit,
    ArmSleep, ArmAwait, ParkCheck, ParkCommit, Complete, log
<1>3. ASSUME NEW k \in Sleeps, TimerDue(k) \/ TimerStep(k) \/ RequeueTimer(k)
      PROVE  FALSE
  BY <1>3 DEF TimerDue, TimerStep, ClaimTimer, LookAtOwner, FireCheck, FireCommit, MarkFired,
    RequeueTimer, log
<1>4. ASSUME \/ LeaseExpires
             \/ PaceElapses
             \/ SignalCheck
             \/ SignalCommit
             \/ CancelWorkflow
             \/ ResurrectFailedWorkflow
             \/ ForceReleaseLease
             \/ \E w \in Workers : WorkerStep(w)
             \/ \E d \in Direct : CallDirectly(d)
             \/ \E r \in Runners : Throw(r) \/ StoreError(r) \/ Kill(r)
             \/ \E k \in Promises : SignalRead(k) \/ CancelAwakeable(k)
             \/ UNCHANGED vars
      PROVE  FALSE
  BY <1>4 DEF LeaseExpires, PaceElapses, SignalCheck, SignalCommit, CancelWorkflow,
    ResurrectFailedWorkflow, ForceReleaseLease, WorkerStep, Discover, Claim, Release, RecordCrash,
    MarkFailed, CallDirectly, Throw, StoreError, Kill, SignalRead, CancelAwakeable, log, vars
<1>. QED BY <1>1, <1>2, <1>3, <1>4 DEF Next

\* How an awakeable changes: a run of its generation registers it, and it is settled
\* under the lock of its step, with the wake recorded, abandoned or written to the row.
LEMMA PromiseStep ==
  ASSUME TypeOK, Ends, [Next]_vars, NEW k \in Promises, promise'[k] # promise[k]
  PROVE  \/ promise[k] = "absent" /\ promise'[k] = "pending" /\ \E r \in Runners : run[r].gen = k[1]
         \/ /\ promise[k] = "pending" /\ promise'[k] = "cancelled" /\ status' # "suspended"
            /\ \E g \in k[1] .. opened : Free(g, k)
         \/ /\ sig.phase # "none" /\ sig.key = k /\ promise'[k] = "completed"
            /\ \/ sig.phase = "fresh" /\ status' # "suspended"
               \/ Free(sig.gen, k) /\ (k \in journal[sig.gen] \/ Stops(sig.gen) # {})
<1>. USE DEF TypeOK
<1>1. ASSUME NEW r \in Runners, Act(r)
      PROVE  promise[k] = "absent" /\ promise'[k] = "pending" /\ run[r].gen = k[1]
  BY <1>1 DEF Act, Key
<1>2. ASSUME NEW r \in Runners, ArmAwait(r)
      PROVE  promise[k] = "absent" /\ promise'[k] = "pending" /\ run[r].gen = k[1]
  <2>1. PICK i \in Boundaries : /\ promise[Key(r, i)] \in {"absent", "pending"}
                                /\ promise' = [promise EXCEPT ![Key(r, i)] = "pending"]
    BY <1>2 DEF ArmAwait
  <2>. QED BY <2>1 DEF Key
<1>3. ASSUME NEW l \in Promises, CancelAwakeable(l)
      PROVE  /\ promise[k] = "pending" /\ promise'[k] = "cancelled" /\ status' # "suspended"
             /\ \E g \in k[1] .. opened : Free(g, k)
  <2>1. l = k BY <1>3 DEF CancelAwakeable
  <2>. QED BY <1>3, <2>1 DEF CancelAwakeable, WokenStatus, Upsert, Terminal
<1>4. ASSUME SignalCommit
      PROVE  /\ sig.phase = "fresh" /\ sig.key = k /\ promise'[k] = "completed" /\ status' # "suspended"
  BY <1>4 DEF SignalCommit, WokenStatus, Upsert, Terminal
<1>5. ASSUME SignalCheck
      PROVE  /\ sig.phase = "read" /\ sig.key = k /\ promise'[k] = "completed"
             /\ Free(sig.gen, k) /\ (k \in journal[sig.gen] \/ Stops(sig.gen) # {})
  BY <1>5 DEF SignalCheck
<1>6. ASSUME NEW r \in Runners, RunStep(r), ~Act(r), ~ArmAwait(r)
      PROVE  FALSE
  BY <1>6 DEF RunStep, Begin, Load, FindWake, Probe, AppendCheck, AppendCommit,
    ArmSleep, ParkCheck, ParkCommit, Complete, Rotate, sources
<1>7. ASSUME NEW l \in Sleeps, TimerDue(l) \/ TimerStep(l) \/ RequeueTimer(l)
      PROVE  FALSE
  BY <1>7 DEF TimerDue, TimerStep, ClaimTimer, LookAtOwner, FireCheck, FireCommit, MarkFired,
    RequeueTimer, SetTimer, sources
<1>8. ASSUME \/ LeaseExpires
             \/ PaceElapses
             \/ CancelWorkflow
             \/ ResurrectFailedWorkflow
             \/ ForceReleaseLease
             \/ \E w \in Workers : WorkerStep(w)
             \/ \E d \in Direct : CallDirectly(d)
             \/ \E r \in Runners : Throw(r) \/ StoreError(r) \/ Kill(r)
             \/ \E l \in Promises : SignalRead(l)
             \/ UNCHANGED vars
      PROVE  FALSE
  BY <1>8 DEF LeaseExpires, PaceElapses, CancelWorkflow,
    ResurrectFailedWorkflow, ForceReleaseLease, WorkerStep, Discover, Claim, Release, RecordCrash,
    MarkFailed, CallDirectly, Throw, StoreError, Kill, SignalRead, sources, vars
<1>. QED BY <1>1, <1>2, <1>3, <1>4, <1>5, <1>6, <1>7, <1>8 DEF Next

\* Only the signal itself moves it.
LEMMA SignalStep ==
  ASSUME [Next]_vars
  PROVE  sig' = sig \/ SignalCheck \/ SignalCommit \/ \E k \in Promises : SignalRead(k)
<1>1. ASSUME NEW r \in Runners, RunStep(r)
      PROVE  sig' = sig
  BY <1>1 DEF RunStep, Begin, Load, FindWake, Probe, Act, AppendCheck, AppendCommit,
    ArmSleep, ArmAwait, ParkCheck, ParkCommit, Complete, Rotate, sources
<1>2. ASSUME NEW l \in Sleeps, TimerDue(l) \/ TimerStep(l) \/ RequeueTimer(l)
      PROVE  sig' = sig
  BY <1>2 DEF TimerDue, TimerStep, ClaimTimer, LookAtOwner, FireCheck, FireCommit, MarkFired,
    RequeueTimer, SetTimer, sources
<1>3. ASSUME \/ LeaseExpires
             \/ PaceElapses
             \/ CancelWorkflow
             \/ ResurrectFailedWorkflow
             \/ ForceReleaseLease
             \/ \E w \in Workers : WorkerStep(w)
             \/ \E d \in Direct : CallDirectly(d)
             \/ \E r \in Runners : Throw(r) \/ StoreError(r) \/ Kill(r)
             \/ \E l \in Promises : CancelAwakeable(l)
             \/ UNCHANGED vars
      PROVE  sig' = sig
  BY <1>3 DEF LeaseExpires, PaceElapses, CancelWorkflow,
    ResurrectFailedWorkflow, ForceReleaseLease, WorkerStep, Discover, Claim, Release, RecordCrash,
    MarkFailed, CallDirectly, Throw, StoreError, Kill, CancelAwakeable, sources, vars
<1>. QED BY <1>1, <1>2, <1>3 DEF Next

\* Whoever starts to write a step found its lock free.
LEMMA WriterStep ==
  ASSUME TypeOK, [Next]_vars, NEW g \in Gens, NEW k, NobodyWrites(g, k), ~Free(g, k)
  PROVE  NobodyWrites(g, k)'
<1>1. ASSUME NEW r \in Runners, NEW i \in Boundaries, run'[r].pc = "fresh", At(r, i)'
      PROVE  <<run'[r].gen, <<run'[r].gen, i>>>> # <<g, k>>
  <2>1. CASE run'[r].gen = run[r].gen /\ run'[r].map = run[r].map /\ run[r].pc = "fresh"
    <3>1. At(r, i) BY <1>1, <2>1 DEF At
    <3>. QED BY <2>1, <3>1 DEF NobodyWrites, Key
  <2>2. CASE AppendCheck(r) /\ Hops(r, {"fresh"})
    <3>1. PICK j \in Boundaries : At(r, j) /\ Free(run[r].gen, Key(r, j))
      BY <2>2 DEF AppendCheck
    <3>2. At(r, i) /\ run'[r].gen = run[r].gen BY <1>1, <2>2 DEF At, Hops
    <3>3. i = j BY <3>1, <3>2, AtUnique
    <3>. QED BY <3>1, <3>2, <3>3 DEF Key
  <2>3. CASE ResurrectFailedWorkflow
    BY <1>1, <2>1, <2>3 DEF ResurrectFailedWorkflow, TypeOK
  <2>4. CASE UNCHANGED vars
    BY <1>1, <2>1, <2>4 DEF vars
  <2>5. CASE Next /\ ~ResurrectFailedWorkflow
    BY <1>1, <2>1, <2>2, <2>5, RunMoves DEF Hops, Resets, Reads, Starts
  <2>. QED BY <2>3, <2>4, <2>5
<1>2. ASSUME k \in Sleeps, timer'[k] = "fresh"
      PROVE  g # k[1]
  <2>1. CASE timer[k] = "fresh" BY <1>2, <2>1 DEF NobodyWrites
  <2>2. CASE timer[k] # "fresh"
    <3>1. ASSUME NEW l \in Sleeps, TimerDue(l) \/ TimerStep(l) \/ RequeueTimer(l)
          PROVE  Free(k[1], k)
      <4>1. CASE FireCheck(l)
        <5>1. l = k BY <1>2, <2>2, <4>1 DEF FireCheck, SetTimer, TypeOK
        <5>. QED BY <4>1, <5>1 DEF FireCheck
      <4>2. CASE ~FireCheck(l)
        BY <1>2, <2>2, <3>1, <4>2 DEF TimerDue, TimerStep, ClaimTimer, LookAtOwner, FireCommit,
          MarkFired, RequeueTimer, SetTimer, TypeOK
      <4>. QED BY <4>1, <4>2
    <3>2. ASSUME NEW r \in Runners, RunStep(r)
          PROVE  FALSE
      <4>1. CASE ArmSleep(r)
        <5>1. PICK i \in Boundaries : timer' = timer \/ timer' = [timer EXCEPT ![Key(r, i)] = "scheduled"]
          BY <4>1 DEF ArmSleep
        <5>. QED BY <1>2, <2>2, <5>1 DEF TypeOK
      <4>2. CASE ~ArmSleep(r)
        BY <1>2, <2>2, <3>2, <4>2 DEF RunStep, Begin, Load, FindWake, Probe, Act, AppendCheck, AppendCommit,
          ArmAwait, ParkCheck, ParkCommit, Complete, Rotate, sources
      <4>. QED BY <4>1, <4>2
    <3>3. ASSUME \/ LeaseExpires
                 \/ PaceElapses
                 \/ SignalCheck
                 \/ SignalCommit
                 \/ CancelWorkflow
                 \/ ResurrectFailedWorkflow
                 \/ ForceReleaseLease
                 \/ \E w \in Workers : WorkerStep(w)
                 \/ \E d \in Direct : CallDirectly(d)
                 \/ \E r \in Runners : Throw(r) \/ StoreError(r) \/ Kill(r)
                 \/ \E l \in Promises : SignalRead(l) \/ CancelAwakeable(l)
                 \/ UNCHANGED vars
          PROVE  FALSE
      BY <1>2, <2>2, <3>3 DEF LeaseExpires, PaceElapses, SignalCheck, SignalCommit, CancelWorkflow,
        ResurrectFailedWorkflow, ForceReleaseLease, WorkerStep, Discover, Claim, Release, RecordCrash,
        MarkFailed, CallDirectly, Throw, StoreError, Kill, SignalRead, CancelAwakeable, sources, vars
    <3>. QED BY <3>1, <3>2, <3>3 DEF Next
  <2>. QED BY <2>1, <2>2
<1>3. ASSUME sig'.phase = "fresh"
      PROVE  <<sig'.gen, sig'.key>> # <<g, k>>
  <2>1. CASE sig' = sig BY <1>3, <2>1 DEF NobodyWrites
  <2>2. CASE SignalCheck
    <3>1. sig' = [sig EXCEPT !.phase = "fresh"] /\ sig.phase = "read" /\ Free(sig.gen, sig.key)
      BY <1>3, <2>2 DEF SignalCheck, NoSignal
    <3>2. sig'.gen = sig.gen /\ sig'.key = sig.key BY <3>1 DEF TypeOK, NoSignal
    <3>. QED BY <3>1, <3>2
  <2>3. CASE SignalCommit \/ \E l \in Promises : SignalRead(l)
    BY <1>3, <2>3 DEF SignalCommit, SignalRead, NoSignal
  <2>. QED BY <2>1, <2>2, <2>3, SignalStep
<1>. QED BY <1>1, <1>2, <1>3 DEF NobodyWrites, Key

LEMMA NextKeepsMap ==
  ASSUME TypeOK, MapInv, [Next]_vars
  PROVE  MapInv'
<1>1. \A g \in Gens : journal[g] \subseteq journal'[g] BY JournalStep
<1>. SUFFICES ASSUME NEW q \in Runners, NEW i \in run'[q].map
              PROVE  <<run'[q].gen, i>> \in journal'[run'[q].gen]
  BY DEF MapInv, Key
<1>2. CASE run'[q].gen = run[q].gen /\ run'[q].map = run[q].map
  BY <1>1, <1>2, RunTypes DEF MapInv, Key
<1>3. CASE \E M : Reads(q, M)
  BY <1>1, <1>3, RunTypes DEF Reads, MapInv, Key
<1>4. CASE ResurrectFailedWorkflow
  BY <1>2, <1>4 DEF ResurrectFailedWorkflow, TypeOK
<1>5. CASE UNCHANGED vars
  BY <1>2, <1>5 DEF vars
<1>6. CASE Next /\ ~ResurrectFailedWorkflow
  BY <1>2, <1>3, <1>6, RunMoves DEF Resets, Hops, Starts
<1>. QED BY <1>4, <1>5, <1>6

LEMMA NextKeepsClosed ==
  ASSUME TypeOK, Ends, MapInv, ClosedInv, [Next]_vars
  PROVE  ClosedInv'
<1>1. \A g \in Gens : journal[g] \subseteq journal'[g] BY JournalStep
<1>2. CASE opened' = opened
  BY <1>1, <1>2 DEF ClosedInv
<1>3. CASE opened' # opened
  <2>1. PICK r \in Runners : Rotate(r) /\ run[r].gen = opened BY <1>3, OpenedStep
  <2>2. opened' = opened + 1 BY <1>3, OpenedStep
  <2>3. \A i \in Boundaries : <<opened, i>> \in journal[opened]
    BY <2>1 DEF Rotate, AtEnd, MapInv, Key
  <2>4. opened \in Gens /\ \A g \in Gens : g < opened' => g < opened \/ g = opened
    BY <2>2 DEF TypeOK, Gens
  <2>. QED BY <1>1, <2>3, <2>4 DEF ClosedInv
<1>. QED BY <1>2, <1>3

LEMMA NextKeepsKnown ==
  ASSUME TypeOK, Ends, KnownInv, [Next]_vars
  PROVE  KnownInv'
<1>1. opened <= opened' /\ opened \in Int /\ opened' \in Int
  BY OpenedStep, ConstantsOK DEF TypeOK, Gens, ConstantsOK
<1>2. ASSUME NEW k \in Promises, promise'[k] # "absent"
      PROVE  k[1] <= opened'
  <2>1. k[1] \in Int BY ConstantsOK DEF Promises, Keys, Gens, ConstantsOK
  <2>2. CASE promise[k] # "absent"
    BY <1>1, <2>1, <2>2 DEF KnownInv
  <2>3. CASE promise[k] = "absent"
    <3>1. CASE \E r \in Runners : run[r].gen = k[1]
      BY <1>1, <2>1, <3>1 DEF Ends
    <3>2. CASE sig.phase # "none" /\ sig.key = k
      <4>1. sig.gen \in Int /\ k[1] <= sig.gen /\ sig.gen <= opened
        BY <3>2, ConstantsOK DEF KnownInv, TypeOK, Gens, ConstantsOK, NoSignal
      <4>. QED BY <1>1, <2>1, <4>1
    <3>. QED BY <1>2, <2>3, <3>1, <3>2, PromiseStep
  <2>. QED BY <2>2, <2>3
<1>3. ASSUME sig'.phase # "none"
      PROVE  sig'.key[1] <= sig'.gen /\ sig'.gen <= opened'
  <2>1. CASE sig'.key = sig.key /\ sig'.gen = sig.gen /\ sig.phase # "none"
    <3>1. sig.gen \in Int /\ sig.gen <= opened
      BY <2>1, ConstantsOK DEF KnownInv, TypeOK, Gens, ConstantsOK, NoSignal
    <3>. QED BY <1>1, <2>1, <3>1 DEF KnownInv
  <2>2. CASE sig' = sig BY <1>3, <2>1, <2>2
  <2>3. ASSUME NEW k \in Promises, SignalRead(k)
        PROVE  sig'.key[1] <= sig'.gen /\ sig'.gen <= opened'
    <3>1. promise[k] # "absent" /\ sig'.key = k /\ sig'.gen = opened
      BY <2>3 DEF SignalRead
    <3>. QED BY <1>1, <3>1 DEF KnownInv
  <2>4. CASE SignalCheck
    <3>1. sig' = [sig EXCEPT !.phase = "fresh"] /\ sig.phase = "read"
      BY <1>3, <2>4 DEF SignalCheck, NoSignal
    <3>2. sig'.gen = sig.gen /\ sig'.key = sig.key BY <3>1 DEF TypeOK, NoSignal
    <3>. QED BY <2>1, <3>1, <3>2
  <2>5. CASE SignalCommit BY <1>3, <2>5 DEF SignalCommit, NoSignal
  <2>. QED BY <2>2, <2>3, <2>4, <2>5, SignalStep
<1>. QED BY <1>2, <1>3 DEF KnownInv

\* How a timer changes: a run of its generation creates it, and it leaves the queue when
\* its sleep is recorded or its workflow has ended.
LEMMA TimerMoves ==
  ASSUME TypeOK, [Next]_vars, NEW k \in Sleeps, timer'[k] # timer[k]
  PROVE  \/ /\ timer[k] = "absent" /\ timer'[k] = "scheduled"
            /\ \E r \in Runners : run[r].gen = k[1]
         \/ /\ timer[k] # "absent"
            /\ \/ timer'[k] \in {"scheduled", "firing", "looked", "fresh"}
               \/ timer'[k] = "cancelled" /\ status \in Terminal
               \/ timer'[k] = "delivered" /\ (k \in journal'[k[1]] \/ Stops(k[1]) # {})
               \/ timer'[k] = "fired" /\ timer[k] = "delivered"
<1>. USE DEF TypeOK
<1>1. ASSUME NEW r \in Runners, ArmSleep(r)
      PROVE  /\ timer[k] = "absent" /\ timer'[k] = "scheduled"
             /\ \E q \in Runners : run[q].gen = k[1]
  <2>1. PICK i \in Boundaries : /\ timer[Key(r, i)] = "absent"
                                /\ timer' = [timer EXCEPT ![Key(r, i)] = "scheduled"]
    BY <1>1 DEF ArmSleep
  <2>2. k = Key(r, i) BY <2>1
  <2>. QED BY <2>1, <2>2 DEF Key
<1>2. ASSUME NEW r \in Runners, RunStep(r), ~ArmSleep(r)
      PROVE  FALSE
  BY <1>2 DEF RunStep, Begin, Load, FindWake, Probe, Act, AppendCheck, AppendCommit,
    ArmAwait, ParkCheck, ParkCommit, Complete, Rotate, sources
<1>3. ASSUME NEW l \in Sleeps, TimerDue(l) \/ TimerStep(l) \/ RequeueTimer(l)
      PROVE  /\ timer[k] # "absent"
             /\ \/ timer'[k] \in {"scheduled", "firing", "looked", "fresh"}
                \/ timer'[k] = "cancelled" /\ status \in Terminal
                \/ timer'[k] = "delivered" /\ (k \in journal'[k[1]] \/ Stops(k[1]) # {})
                \/ timer'[k] = "fired" /\ timer[k] = "delivered"
  <2>1. l = k BY <1>3 DEF TimerDue, TimerStep, ClaimTimer, LookAtOwner, FireCheck, FireCommit,
                          MarkFired, RequeueTimer, SetTimer
  <2>2. k[1] \in Gens BY DEF Sleeps, Keys
  <2>3. CASE FireCommit(k)
    BY <2>2, <2>3 DEF FireCommit, SetTimer
  <2>4. CASE FireCheck(k)
    BY <2>2, <2>4 DEF FireCheck, SetTimer, log
  <2>5. CASE TimerDue(k) \/ ClaimTimer(k) \/ LookAtOwner(k) \/ MarkFired(k) \/ RequeueTimer(k)
    BY <2>5 DEF TimerDue, ClaimTimer, LookAtOwner, MarkFired, RequeueTimer, SetTimer, Firing
  <2>. QED BY <1>3, <2>1, <2>3, <2>4, <2>5 DEF TimerStep
<1>4. ASSUME \/ LeaseExpires
             \/ PaceElapses
             \/ SignalCheck
             \/ SignalCommit
             \/ CancelWorkflow
             \/ ResurrectFailedWorkflow
             \/ ForceReleaseLease
             \/ \E w \in Workers : WorkerStep(w)
             \/ \E d \in Direct : CallDirectly(d)
             \/ \E r \in Runners : Throw(r) \/ StoreError(r) \/ Kill(r)
             \/ \E l \in Promises : SignalRead(l) \/ CancelAwakeable(l)
             \/ UNCHANGED vars
      PROVE  FALSE
  BY <1>4 DEF LeaseExpires, PaceElapses, SignalCheck, SignalCommit, CancelWorkflow,
    ResurrectFailedWorkflow, ForceReleaseLease, WorkerStep, Discover, Claim, Release, RecordCrash,
    MarkFailed, CallDirectly, Throw, StoreError, Kill, SignalRead, CancelAwakeable, sources, vars
<1>. QED BY <1>1, <1>2, <1>3, <1>4 DEF Next

LEMMA NextKeepsArmed ==
  ASSUME TypeOK, Ends, ArmedInv, [Next]_vars
  PROVE  ArmedInv'
<1>. SUFFICES ASSUME NEW r \in Runners, run'[r].pc \in {"park", "suspend", "resume"}
              PROVE  \E i \in Boundaries :
                       /\ At(r, i)'
                       /\ IsAwait(i)
                       /\ Body[i] = "await" => promise'[Key(r, i)'] # "absent"
                       /\ Body[i] = "sleep" => timer'[Key(r, i)'] # "absent"
  BY DEF ArmedInv, IsAwait
<1>1. /\ \A k \in Promises : promise[k] # "absent" => promise'[k] # "absent"
      /\ \A k \in Sleeps : timer[k] # "absent" => timer'[k] # "absent"
  BY PromiseStep, TimerMoves
<1>2. ASSUME run'[r].map = run[r].map, run'[r].gen = run[r].gen,
             NEW i \in Boundaries, At(r, i), IsAwait(i),
             Body[i] = "await" => promise[Key(r, i)] # "absent" \/ promise'[Key(r, i)] # "absent",
             Body[i] = "sleep" => timer[Key(r, i)] # "absent" \/ timer'[Key(r, i)] # "absent"
      PROVE  /\ At(r, i)' /\ IsAwait(i)
             /\ Body[i] = "await" => promise'[Key(r, i)'] # "absent"
             /\ Body[i] = "sleep" => timer'[Key(r, i)'] # "absent"
  <2>1. At(r, i)' /\ Key(r, i)' = Key(r, i) BY <1>2 DEF At, Key
  <2>2. /\ Body[i] = "await" => Key(r, i) \in Promises
        /\ Body[i] = "sleep" => Key(r, i) \in Sleeps
    BY RunTypes DEF Promises, Sleeps, Key
  <2>. QED BY <1>1, <1>2, <2>1, <2>2
<1>3. CASE run'[r].map = run[r].map /\ run'[r].gen = run[r].gen
           /\ run[r].pc \in {"park", "suspend", "resume"}
  <2>1. PICK i \in Boundaries : /\ At(r, i) /\ IsAwait(i)
                                /\ Body[i] = "await" => promise[Key(r, i)] # "absent"
                                /\ Body[i] = "sleep" => timer[Key(r, i)] # "absent"
    BY <1>3 DEF ArmedInv
  <2>. QED BY <1>2, <1>3, <2>1
<1>4. CASE (ArmSleep(r) \/ ArmAwait(r)) /\ Starts(r, "park")
  <2>1. run'[r].map = run[r].map /\ run'[r].gen = run[r].gen BY <1>4 DEF Starts
  <2>2. CASE ArmSleep(r)
    <3>1. PICK i \in Boundaries :
            /\ At(r, i) /\ Body[i] = "sleep"
            /\ timer[Key(r, i)] # "absent" \/ timer' = [timer EXCEPT ![Key(r, i)] = "scheduled"]
      BY <2>2 DEF ArmSleep
    <3>2. Key(r, i) \in Sleeps BY <3>1, RunTypes DEF Sleeps, Key
    <3>3. timer[Key(r, i)] # "absent" \/ timer'[Key(r, i)] # "absent"
      BY <3>1, <3>2 DEF TypeOK
    <3>. QED BY <1>2, <2>1, <3>1, <3>3 DEF IsAwait
  <2>3. CASE ArmAwait(r)
    <3>1. ~EndRun(r, "crashed") BY EndRunMoves DEF Resets
    <3>2. PICK i \in Boundaries :
            /\ At(r, i) /\ Body[i] = "await"
            /\ promise[Key(r, i)] = "completed" \/ promise' = [promise EXCEPT ![Key(r, i)] = "pending"]
      BY <2>3, <3>1 DEF ArmAwait
    <3>3. Key(r, i) \in Promises BY <3>2, RunTypes DEF Promises, Key
    <3>4. promise[Key(r, i)] # "absent" \/ promise'[Key(r, i)] # "absent"
      BY <3>2, <3>3 DEF TypeOK
    <3>. QED BY <1>2, <2>1, <3>2, <3>4 DEF IsAwait
  <2>. QED BY <1>4, <2>2, <2>3
<1>5. CASE ResurrectFailedWorkflow
  BY <1>3, <1>5 DEF ResurrectFailedWorkflow, TypeOK
<1>6. CASE UNCHANGED vars
  BY <1>3, <1>6 DEF vars
<1>7. CASE Next /\ ~ResurrectFailedWorkflow
  BY <1>3, <1>4, <1>7, RunMoves DEF Hops, Resets, Reads, Starts, ParkCheck
<1>. QED BY <1>5, <1>6, <1>7

\* While a generation misses a key of its own, no wake of that key goes elsewhere.
LEMMA WakeIsHere ==
  ASSUME TypeOK, ClosedInv, KnownInv, NEW k \in Promises, k \notin journal[k[1]], k[1] <= opened
  PROVE  /\ k[1] = opened
         /\ sig.phase # "none" /\ sig.key = k => sig.gen = k[1]
<1>1. k[1] \in Gens /\ k[2] \in Boundaries /\ k = <<k[1], k[2]>> BY DEF Promises, Keys
<1>2. ~(k[1] < opened) BY <1>1 DEF ClosedInv
<1>3. k[1] = opened BY <1>1, <1>2, ConstantsOK DEF Gens, TypeOK, ConstantsOK
<1>4. sig.phase # "none" => sig.gen \in Gens BY DEF TypeOK, NoSignal
<1>5. sig.phase # "none" /\ sig.key = k => sig.gen = k[1]
  BY <1>1, <1>3, <1>4, ConstantsOK DEF KnownInv, Gens, ConstantsOK
<1>. QED BY <1>3, <1>5

LEMMA NextKeepsPark ==
  ASSUME TypeOK, Ends, ClosedInv, KnownInv, ParkInv, [Next]_vars
  PROVE  ParkInv'
<1>. SUFFICES ASSUME NEW r \in Runners, NEW i \in Boundaries, run'[r].pc = "suspend", At(r, i)'
              PROVE  ~Resolved(r, Key(r, i))' /\ NobodyWrites(run[r].gen, Key(r, i))'
  BY DEF ParkInv
<1>. DEFINE g == run[r].gen
            k == Key(r, i)
<1>1. g \in Gens /\ k \in Keys /\ k[1] = g BY RunTypes DEF Key
<1>2. CASE run'[r].map = run[r].map /\ run'[r].gen = run[r].gen /\ run[r].pc = "suspend"
  <2>1. At(r, i) BY <1>2 DEF At
  <2>2. ~Resolved(r, k) /\ NobodyWrites(g, k) BY <1>2, <2>1 DEF ParkInv
  <2>3. ~Free(g, k) BY <1>2, <2>1 DEF Free
  <2>4. \A h : Free(h, k) => h # g BY <2>3
  <2>5. run'[r].gen = g /\ Key(r, i)' = k BY <1>2 DEF Key
  <2>6. k \notin journal'[g] BY <1>1, <2>2, <2>3, JournalStep DEF Resolved
  <2>7. ASSUME k \in Promises PROVE promise'[k] \in {"absent", "pending"}
    <3>1. promise[k] \in {"absent", "pending"} /\ k \notin journal[g] BY <2>2, <2>7 DEF Resolved
    <3>2. g <= opened /\ g = opened /\ (sig.phase # "none" /\ sig.key = k => sig.gen = g)
      BY <1>1, <2>7, <3>1, WakeIsHere DEF Ends
    <3>3. \A h \in g .. opened : h = g BY <1>1, <3>2 DEF Gens
    <3>4. ~(sig.phase = "fresh" /\ sig.key = k) BY <2>2, <3>2 DEF NobodyWrites
    <3>5. CASE promise'[k] = promise[k] BY <3>1, <3>5
    <3>6. CASE promise'[k] # promise[k]
      BY <1>1, <2>3, <2>7, <3>2, <3>3, <3>4, <3>6, PromiseStep
    <3>. QED BY <3>5, <3>6
  <2>8. ~Resolved(r, Key(r, i))' BY <2>5, <2>6, <2>7 DEF Resolved
  <2>. HIDE DEF g, k
  <2>9. NobodyWrites(g, k)' <=> NobodyWrites(run[r].gen, Key(r, i))'
    BY <1>2 DEF g, k, Key
  <2>10. NobodyWrites(g, k)'
    <3>1. PICK h, l : h = g /\ l = k OBVIOUS
    <3>2. NobodyWrites(h, l)' BY <1>1, <2>2, <2>3, <3>1, WriterStep
    <3>3. h = g' /\ l = k' BY <1>2, <3>1 DEF g, k, Key
    <3>. QED BY <3>2, <3>3
  <2>. QED BY <2>8, <2>9, <2>10
<1>3. CASE ParkCheck(r) /\ Hops(r, {"suspend", "resume"})
  <2>1. run'[r].gen = g /\ run'[r].map = run[r].map BY <1>3 DEF Hops
  <2>2. At(r, i) /\ Key(r, i)' = k BY <2>1 DEF At, Key
  <2>3. PICK j \in Boundaries : /\ At(r, j) /\ Free(g, Key(r, j))
                                /\ Goto(r, IF Resolved(r, Key(r, j)) THEN "resume" ELSE "suspend")
    BY <1>3 DEF ParkCheck
  <2>4. j = i BY <2>2, <2>3, AtUnique
  <2>5. ~Resolved(r, k) BY <2>3, <2>4, GotoMoves DEF Hops
  <2>6. \A q \in Runners \ {r} : run'[q] = run[q] BY <2>3, GotoMoves
  <2>7. UNCHANGED <<journal, promise, timer, sig>> BY <1>3 DEF ParkCheck, log, sources
  <2>8. ~Resolved(r, Key(r, i))' BY <2>1, <2>2, <2>5, <2>7 DEF Resolved
  <2>9. ASSUME NEW q \in Runners, NEW n \in Boundaries, run'[q].pc = "fresh", At(q, n)'
        PROVE  <<run'[q].gen, Key(q, n)'>> # <<g, k>>
    <3>1. q # r BY <2>9
    <3>2. At(q, n) /\ run[q].pc = "fresh" /\ run'[q].gen = run[q].gen /\ Key(q, n)' = Key(q, n)
      BY <2>6, <2>9, <3>1 DEF At, Key
    <3>. QED BY <2>3, <2>4, <3>2 DEF Free
  <2>10. k \in Sleeps /\ timer'[k] = "fresh" => g # k[1] BY <2>3, <2>4, <2>7 DEF Free
  <2>11. sig'.phase = "fresh" => <<sig'.gen, sig'.key>> # <<g, k>> BY <2>3, <2>4, <2>7 DEF Free
  <2>12. NobodyWrites(run[r].gen, Key(r, i))'
    BY <2>1, <2>2, <2>9, <2>10, <2>11 DEF NobodyWrites
  <2>. QED BY <2>8, <2>12
<1>4. CASE ResurrectFailedWorkflow
  BY <1>2, <1>4 DEF ResurrectFailedWorkflow, TypeOK
<1>5. CASE UNCHANGED vars
  BY <1>2, <1>5 DEF vars
<1>6. CASE Next /\ ~ResurrectFailedWorkflow
  <2>. HIDE DEF g, k
  <2>. QED BY <1>2, <1>3, <1>6, RunMoves DEF Hops, Resets, Reads, Starts
<1>. QED BY <1>4, <1>5, <1>6

\* The row is suspended by a run that has looked for its wake under the lock.
LEMMA SuspendStep ==
  ASSUME TypeOK, [Next]_vars, status' = "suspended", status # "suspended"
  PROVE  \E r \in Runners : ParkCommit(r) /\ run[r].pc = "suspend"
<1>. USE DEF TypeOK, Upsert, Terminal, WokenStatus
<1>1. ASSUME NEW r \in Runners, RunStep(r)
      PROVE  ParkCommit(r) /\ run[r].pc = "suspend"
  BY <1>1 DEF RunStep, Begin, Load, FindWake, Probe, Act, AppendCheck, AppendCommit,
    ArmSleep, ArmAwait, ParkCheck, ParkCommit, Complete, Rotate, row
<1>2. ASSUME NEW l \in Sleeps, TimerDue(l) \/ TimerStep(l) \/ RequeueTimer(l)
      PROVE  FALSE
  BY <1>2 DEF TimerDue, TimerStep, ClaimTimer, LookAtOwner, FireCheck, FireCommit, MarkFired,
    RequeueTimer, row
<1>3. ASSUME \/ LeaseExpires
             \/ PaceElapses
             \/ SignalCheck
             \/ SignalCommit
             \/ CancelWorkflow
             \/ ResurrectFailedWorkflow
             \/ ForceReleaseLease
             \/ \E w \in Workers : WorkerStep(w)
             \/ \E d \in Direct : CallDirectly(d)
             \/ \E r \in Runners : Throw(r) \/ StoreError(r) \/ Kill(r)
             \/ \E l \in Promises : SignalRead(l) \/ CancelAwakeable(l)
             \/ UNCHANGED vars
      PROVE  FALSE
  BY <1>3 DEF LeaseExpires, PaceElapses, SignalCheck, SignalCommit, CancelWorkflow,
    ResurrectFailedWorkflow, ForceReleaseLease, WorkerStep, Discover, Claim, Release, RecordCrash,
    MarkFailed, CallDirectly, Throw, StoreError, Kill, SignalRead, CancelAwakeable, row, vars
<1>. QED BY <1>1, <1>2, <1>3 DEF Next

LEMMA NextKeepsWakes ==
  ASSUME TypeOK, Ends, WakeInv, [Next]_vars
  PROVE  NoWakeLost'
<1>. USE DEF WakeInv
<1>. SUFFICES ASSUME status' = "suspended" PROVE \E i \in Boundaries : ParkedOn(i)'
  BY DEF NoWakeLost
<1>1. opened' = opened /\ opened \in Gens BY OpenedStep DEF TypeOK
<1>2. journal'[opened] = journal[opened] BY <1>1, JournalStep
<1>3. ASSUME NEW i \in Boundaries, ParkedOn(i),
             Body[i] = "await" => promise'[<<opened, i>>] = "pending"
      PROVE  ParkedOn(i)'
  BY <1>1, <1>2, <1>3 DEF ParkedOn, IsAwait
<1>4. CASE status = "suspended"
  <2>1. PICK i \in Boundaries : ParkedOn(i) BY <1>4 DEF NoWakeLost
  <2>2. ASSUME Body[i] = "await" PROVE promise'[<<opened, i>>] = "pending"
    <3>. DEFINE k == <<opened, i>>
    <3>1. k \in Promises /\ k[1] = opened BY <1>1, <2>2 DEF Promises, Keys
    <3>2. promise[k] = "pending" /\ k \notin journal[opened] BY <2>1, <2>2 DEF ParkedOn
    <3>3. opened <= opened BY <1>1, ConstantsOK DEF Gens, ConstantsOK
    <3>4. sig.phase # "none" /\ sig.key = k => sig.gen = opened
      BY <3>1, <3>2, <3>3, WakeIsHere
    <3>5. Stops(opened) = {}
      <4>1. marks[opened] \cap Stopping = {} BY <1>4 DEF Ends, Stopping, Terminal
      <4>. QED BY <4>1 DEF Stops
    <3>. HIDE DEF k
    <3>6. promise'[k] = promise[k]
      BY <3>1, <3>2, <3>4, <3>5, PromiseStep
    <3>. QED BY <3>2, <3>6 DEF k
  <2>. QED BY <1>3, <2>1, <2>2
<1>5. CASE status # "suspended"
  <2>1. PICK r \in Runners : ParkCommit(r) /\ run[r].pc = "suspend" BY <1>5, SuspendStep
  <2>2. PICK i \in Boundaries : /\ At(r, i) /\ IsAwait(i)
                                /\ Body[i] = "await" => promise[Key(r, i)] # "absent"
    BY <2>1 DEF ArmedInv
  <2>3. ~Resolved(r, Key(r, i)) BY <2>1, <2>2 DEF ParkInv
  <2>4. run[r].gen = opened
    <3>1. run[r].gen \in Gens /\ run[r].gen <= opened BY RunTypes DEF Ends
    <3>2. ~(run[r].gen < opened) BY <2>3, <3>1 DEF ClosedInv, Resolved, Key
    <3>. QED BY <1>1, <3>1, <3>2, ConstantsOK DEF Gens, ConstantsOK
  <2>5. Key(r, i) = <<opened, i>> /\ \A j \in Boundaries : Key(r, j) = <<opened, j>>
    BY <2>4 DEF Key
  <2>6. \A j \in 1 .. i - 1 : <<opened, j>> \in journal[opened]
    BY <2>2, <2>4 DEF At, MapInv, Key
  <2>7. Body[i] = "await" => <<opened, i>> \in Promises /\ promise[<<opened, i>>] = "pending"
    <3>. SUFFICES ASSUME Body[i] = "await"
                  PROVE  <<opened, i>> \in Promises /\ promise[<<opened, i>>] = "pending"
      OBVIOUS
    <3>1. <<opened, i>> \in Promises BY <1>1 DEF Promises, Keys
    <3>. QED BY <2>2, <2>3, <2>5, <3>1 DEF Resolved
  <2>8. ParkedOn(i) BY <2>2, <2>3, <2>4, <2>5, <2>6, <2>7 DEF ParkedOn, Resolved
  <2>9. promise' = promise BY <2>1 DEF ParkCommit, sources
  <2>. QED BY <1>3, <2>7, <2>8, <2>9
<1>. QED BY <1>4, <1>5

\* "No resolved wake is left behind a suspended status": for any body, number of
\* generations, workers and direct callers, a row is suspended only on an await of the
\* current generation that nothing has resolved or abandoned.
THEOREM WakesKept == Spec => []NoWakeLost
<1>1. Init => WakeInv
  BY ConstantsOK DEF Init, WakeInv, MapInv, ClosedInv, KnownInv, ArmedInv, ParkInv, NoWakeLost,
    NotRunning, NoSignal, Gens, ConstantsOK
<1>2. EndsInv /\ WakeInv /\ [Next]_vars => WakeInv'
  BY NextKeepsMap, NextKeepsClosed, NextKeepsKnown, NextKeepsArmed, NextKeepsPark, NextKeepsWakes
     DEF WakeInv, EndsInv
<1>3. WakeInv => NoWakeLost
  BY DEF WakeInv
<1>. QED BY <1>1, <1>2, <1>3, InitEnds, NextKeepsEnds, PTL DEF Spec

-----------------------------------------------------------------------------
(* Sleeps *)

\* A timer leaves the queue only when its sleep is recorded or its generation has ended.
TimerInv ==
  \A k \in Sleeps :
    /\ timer[k] # "absent" => k[1] <= opened
    /\ timer[k] \in {"delivered", "fired", "cancelled"} =>
         k \in journal[k[1]] \/ marks[k[1]] \cap Terminal # {}

\* A row is suspended on a sleep only after its timer was created.
SleepInv ==
  status = "suspended" =>
    \A i \in Boundaries : ParkedOn(i) /\ Body[i] = "sleep" => timer[<<opened, i>>] # "absent"

LEMMA NextKeepsTimers ==
  ASSUME TypeOK, Ends, WakeInv, TimerInv, [Next]_vars, ~ResurrectFailedWorkflow
  PROVE  TimerInv'
<1>. SUFFICES ASSUME NEW k \in Sleeps
              PROVE  /\ timer'[k] # "absent" => k[1] <= opened'
                     /\ timer'[k] \in {"delivered", "fired", "cancelled"} =>
                          k \in journal'[k[1]] \/ marks'[k[1]] \cap Terminal # {}
  BY DEF TimerInv
<1>1. k[1] \in Gens /\ k[2] \in Boundaries /\ k = <<k[1], k[2]>> BY DEF Sleeps, Keys
<1>2. journal[k[1]] \subseteq journal'[k[1]] /\ marks[k[1]] \subseteq marks'[k[1]]
  BY <1>1, JournalStep, MarksGrow
<1>3. opened <= opened' /\ opened \in Int /\ opened' \in Int /\ k[1] \in Int
  BY <1>1, OpenedStep, ConstantsOK DEF TypeOK, Gens, ConstantsOK
<1>4. ASSUME timer'[k] # "absent" PROVE k[1] <= opened'
  <2>1. timer[k] # "absent" \/ \E r \in Runners : run[r].gen = k[1] BY <1>4, TimerMoves
  <2>2. k[1] <= opened BY <2>1 DEF TimerInv, Ends
  <2>. QED BY <1>3, <2>2
<1>5. ASSUME timer'[k] \in {"delivered", "fired", "cancelled"}
      PROVE  k \in journal'[k[1]] \/ marks'[k[1]] \cap Terminal # {}
  <2>1. CASE timer[k] \in {"delivered", "fired", "cancelled"}
    BY <1>2, <2>1 DEF TimerInv
  <2>2. CASE timer'[k] = "cancelled" /\ timer[k] # "absent" /\ status \in Terminal
    <3>1. CASE k[1] < opened
      BY <1>1, <1>2, <3>1 DEF WakeInv, ClosedInv
    <3>2. CASE ~(k[1] < opened)
      <4>1. k[1] = opened BY <1>3, <2>2, <3>2 DEF TimerInv
      <4>2. status \in marks[opened] BY <2>2 DEF Ends
      <4>. QED BY <1>2, <2>2, <4>1, <4>2
    <3>. QED BY <3>1, <3>2
  <2>3. CASE timer'[k] = "delivered" /\ (k \in journal'[k[1]] \/ Stops(k[1]) # {})
    BY <1>2, <2>3 DEF Stops, Stopping, Terminal
  <2>4. timer'[k] = timer[k] \/ timer'[k] # timer[k] OBVIOUS
  <2>. QED BY <1>5, <2>1, <2>2, <2>3, <2>4, TimerMoves
<1>. QED BY <1>4, <1>5

LEMMA NextKeepsSleeps ==
  ASSUME TypeOK, Ends, WakeInv, SleepInv, [Next]_vars
  PROVE  SleepInv'
<1>. USE DEF WakeInv
<1>. SUFFICES ASSUME status' = "suspended", NEW i \in Boundaries, ParkedOn(i)', Body[i] = "sleep"
              PROVE  timer'[<<opened', i>>] # "absent"
  BY DEF SleepInv
<1>1. opened' = opened /\ opened \in Gens BY OpenedStep DEF TypeOK
<1>2. journal'[opened] = journal[opened] BY <1>1, JournalStep
<1>3. <<opened, i>> \in Sleeps BY <1>1 DEF Sleeps, Keys
<1>4. ParkedOn(i) BY <1>1, <1>2 DEF ParkedOn, IsAwait
<1>5. CASE status = "suspended"
  BY <1>1, <1>3, <1>4, <1>5, TimerMoves DEF SleepInv
<1>6. CASE status # "suspended"
  <2>1. PICK r \in Runners : ParkCommit(r) /\ run[r].pc = "suspend" BY <1>6, SuspendStep
  <2>2. PICK j \in Boundaries : /\ At(r, j) /\ IsAwait(j)
                                /\ Body[j] = "sleep" => timer[Key(r, j)] # "absent"
    BY <2>1 DEF ArmedInv
  <2>3. ~Resolved(r, Key(r, j)) BY <2>1, <2>2 DEF ParkInv
  <2>4. run[r].gen = opened
    <3>1. run[r].gen \in Gens /\ run[r].gen <= opened BY RunTypes DEF Ends
    <3>2. ~(run[r].gen < opened) BY <2>3, <3>1 DEF ClosedInv, Resolved, Key
    <3>. QED BY <1>1, <3>1, <3>2, ConstantsOK DEF Gens, ConstantsOK
  <2>5. i = j
    <3>1. i \in Int /\ j \in Int /\ 1 <= i /\ 1 <= j
      BY ConstantsOK DEF Boundaries, ConstantsOK
    <3>2. ~(j < i)
      BY <1>4, <2>3, <2>4, <3>1 DEF ParkedOn, Resolved, Key
    <3>3. ~(i < j)
      BY <1>4, <2>2, <2>4, <3>1 DEF ParkedOn, At, MapInv, Key
    <3>. QED BY <3>1, <3>2, <3>3
  <2>6. timer[<<opened, i>>] # "absent" BY <2>2, <2>4, <2>5 DEF Key
  <2>. QED BY <1>1, <1>3, <2>6, TimerMoves
<1>. QED BY <1>5, <1>6

\* Sleeps are lost to resurrection and to nothing else: while no operator resurrects the
\* workflow, a row suspended on a sleep has a timer that will still fire.
THEOREM SleepsKept == Spec /\ [][~ResurrectFailedWorkflow]_vars => []SleepHasTimer
<1>1. Init => WakeInv /\ TimerInv /\ SleepInv
  BY ConstantsOK DEF Init, WakeInv, MapInv, ClosedInv, KnownInv, ArmedInv, ParkInv, NoWakeLost,
    NotRunning, NoSignal, Gens, ConstantsOK, TimerInv, SleepInv
<1>2. EndsInv /\ WakeInv /\ [Next]_vars => WakeInv'
  BY NextKeepsMap, NextKeepsClosed, NextKeepsKnown, NextKeepsArmed, NextKeepsPark, NextKeepsWakes
     DEF WakeInv, EndsInv
<1>3. EndsInv /\ WakeInv /\ TimerInv /\ SleepInv /\ [Next]_vars /\ [~ResurrectFailedWorkflow]_vars
        => TimerInv' /\ SleepInv'
  <2>. SUFFICES ASSUME TypeOK, Ends, WakeInv, TimerInv, SleepInv, [Next]_vars,
                       ~ResurrectFailedWorkflow \/ UNCHANGED vars
                PROVE  TimerInv' /\ SleepInv'
    BY DEF EndsInv
  <2>1. CASE UNCHANGED vars
    BY <2>1 DEF vars, log, row, sources, TimerInv, SleepInv, ParkedOn, IsAwait
  <2>2. CASE ~ResurrectFailedWorkflow
    BY <2>2, NextKeepsTimers, NextKeepsSleeps
  <2>. QED BY <2>1, <2>2
<1>4. EndsInv /\ WakeInv /\ TimerInv /\ SleepInv => SleepHasTimer
  <2>. SUFFICES ASSUME TypeOK, Ends, TimerInv, SleepInv, status = "suspended",
                       NEW i \in Boundaries, ParkedOn(i), Body[i] = "sleep"
                PROVE  timer[<<opened, i>>] \in Firing \cup {"scheduled"}
    BY DEF EndsInv, SleepHasTimer
  <2>. DEFINE k == <<opened, i>>
  <2>1. k \in Sleeps /\ k[1] = opened BY DEF TypeOK, Sleeps, Keys
  <2>2. timer[k] \in TimerPhases /\ timer[k] # "absent" BY <2>1 DEF TypeOK, SleepInv
  <2>3. k \notin journal[opened] BY DEF ParkedOn
  <2>4. marks[opened] \cap Terminal = {} BY DEF Ends, Terminal
  <2>5. timer[k] \notin {"delivered", "fired", "cancelled"} BY <2>1, <2>3, <2>4 DEF TimerInv
  <2>. QED BY <2>2, <2>5 DEF TimerPhases, Firing
<1>. QED BY <1>1, <1>2, <1>3, <1>4, InitEnds, NextKeepsEnds, PTL DEF Spec
=============================================================================
