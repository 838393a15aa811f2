---------------------------- MODULE ReleaseGate ----------------------------
(***************************************************************************)
(* The release gate: just release-gate (class Gate of scripts/             *)
(* release_workflow.py), the check of its manifest by just release-ready,  *)
(* and the review of a failed guard (release-gates/0.24.0.0-publication).  *)
(*                                                                         *)
(* A gate runs the correctness stage and then the guards.  Each attempt at *)
(* a stage leaves a receipt with the inputs it is for; a later gate for    *)
(* the same inputs reuses the latest receipt when it passed and is fresh.  *)
(* Only receipts of the gate's own schema, with an unchanged log, are      *)
(* represented: any other is skipped by the code, and so is a manifest     *)
(* that was never finished.                                                *)
(***************************************************************************)
EXTENDS Workspace

CONSTANTS
  Guards,       \* the benchmark guards, in the order they run
  Reviewed,     \* the guard whose failure a review may except
  MaxAttempts   \* bound: attempts at stages

GuardSet == {Guards[i] : i \in DOMAIN Guards}
Stages == {"correctness"} \cup GuardSet

ASSUME GateOK ==
  /\ Guards \in Seq(STRING)
  /\ "correctness" \notin GuardSet
  /\ Reviewed \in GuardSet
  /\ MaxAttempts \in Nat

VARIABLES
  fresh,      \* --fresh was given
  chosen,     \* gate: the attempt it has recorded per stage; others: their manifest
  attempts,   \* the receipts, in the order they started
  manifests   \* the finished manifests

gateVars == <<fresh, chosen, attempts, manifests>>

Receipts == [stage : Stages, inputs : Inputs, status : {"none", "pass", "red"},
             finished : 0..MaxNow, saw : SUBSET Trees]
Recorded == [Stages -> 0..MaxAttempts]
Manifests == [inputs : Inputs, stages : Recorded, accepted : BOOLEAN]

\* execute: correctness, then the guards.
StageOrder == <<"correctness">> \o Guards
Attempts == DOMAIN attempts

GateTypeOK ==
  /\ WorkspaceTypeOK
  /\ fresh \in [Terminals -> BOOLEAN]
  /\ chosen \in [Terminals -> Recorded \cup Manifests \cup {None}]
  /\ attempts \in Seq(Receipts) /\ Len(attempts) <= MaxAttempts
  /\ manifests \subseteq Manifests

-----------------------------------------------------------------------------
(* What the checks decide. *)

\* reusable: passed for these inputs, and fresh.
Reusable(i, in) ==
  /\ attempts[i].inputs = in
  /\ attempts[i].status = "pass"
  /\ Fresh(attempts[i].finished)

Tried(s, in) == {i \in Attempts : attempts[i].stage = s /\ attempts[i].inputs = in}

\* The attempt that started last.
Latest(i, s, in) ==
  /\ i \in Tried(s, in)
  /\ \A j \in Tried(s, in) : j <= i

\* Mutant: attempts since the manifest are not looked at.
ManifestOK_NoLater(m, in) ==
  /\ m.accepted
  /\ m.inputs = in
  /\ \A s \in Stages : m.stages[s] # 0 /\ Reusable(m.stages[s], in)

\* check_manifest: accepted for these inputs, each receipt reusable, and so
\* is every later attempt at its stage.
ManifestOK(m, in) ==
  /\ m.accepted
  /\ m.inputs = in
  /\ \A s \in Stages :
       /\ m.stages[s] # 0
       /\ \A i \in Tried(s, in) \cup {m.stages[s]} : i >= m.stages[s] => Reusable(i, in)

\* The review's check: the reviewed guard failed, the other stages are
\* reusable, and nothing was tried again since.
ReviewedOK(m, in) ==
  /\ m.inputs = in
  /\ \A s \in Stages :
       /\ m.stages[s] # 0
       /\ IF s = Reviewed THEN attempts[m.stages[s]].status = "red"
                          ELSE Reusable(m.stages[s], in)
       /\ \A i \in Tried(s, in) : i <= m.stages[s]

-----------------------------------------------------------------------------
GateInit ==
  /\ WorkspaceInit
  /\ fresh = [t \in Terminals |-> FALSE]
  /\ chosen = [t \in Terminals |-> None]
  /\ attempts = <<>> /\ manifests = {}

\* A release command is interrupted, killed, or refuses.
GateLeave(t) ==
  /\ Leave(t)
  /\ fresh' = [fresh EXCEPT ![t] = FALSE]
  /\ chosen' = [chosen EXCEPT ![t] = None]

GateStop(t) ==
  /\ ~At(t, "idle")
  /\ GateLeave(t)
  /\ UNCHANGED <<worktree, attempts, manifests>>

GateStart(t, f) ==
  /\ Clean
  /\ Start(t, "preflight")
  /\ fresh' = [fresh EXCEPT ![t] = f]
  /\ UNCHANGED <<worktree, cand, saw, chosen, attempts, manifests>>

\* Preflight has passed: identity fixes what this gate is for.
GateInputs(t) ==
  /\ At(t, "preflight")
  /\ cand' = [cand EXCEPT ![t] = CurrentInputs]
  /\ chosen' = [chosen EXCEPT ![t] = [s \in Stages |-> 0]]
  /\ Go(t, "stage")
  /\ UNCHANGED <<worktree, saw, fresh, attempts, manifests>>

\* Mutant: the guards run whatever the correctness stage says.
CorrectnessFailed_No(t) == FALSE

CorrectnessFailed(t) ==
  LET i == chosen[t]["correctness"] IN i # 0 /\ attempts[i].status # "pass"

\* The gate's next stage is s: the first one without a record.
NextStage(t, s) ==
  /\ ~CorrectnessFailed(t)
  /\ \E i \in DOMAIN StageOrder :
       /\ StageOrder[i] = s
       /\ chosen[t][s] = 0
       /\ \A j \in 1 .. i - 1 : chosen[t][StageOrder[j]] # 0

NoMoreStages(t) == CorrectnessFailed(t) \/ \A s \in Stages : chosen[t][s] # 0

\* The latest attempt at the stage stands, and --fresh was not given.
Reuses(t, s, i) == ~fresh[t] /\ Latest(i, s, cand[t]) /\ Reusable(i, cand[t])

\* Gate.record
Record(t, s, i) == chosen' = [chosen EXCEPT ![t] = [@ EXCEPT ![s] = i]]

\* Gate.stage when the latest receipt is good: nothing runs.
StageReuse(t, s) ==
  /\ At(t, "stage")
  /\ NextStage(t, s)
  /\ \E i \in Attempts : Reuses(t, s, i) /\ Record(t, s, i)
  /\ UNCHANGED <<workspace, fresh, attempts, manifests>>

\* Otherwise a receipt without a status is written and the command started.
StageRun(t, s) ==
  /\ At(t, "stage")
  /\ NextStage(t, s)
  /\ ~\E i \in Attempts : Reuses(t, s, i)
  /\ Len(attempts) < MaxAttempts
  /\ attempts' = Append(attempts, [stage |-> s, inputs |-> cand[t], status |-> "none",
                                   finished |-> 0, saw |-> {}])
  /\ saw' = [saw EXCEPT ![t] = {tree}]
  /\ Go(t, "running")
  /\ UNCHANGED <<worktree, cand, fresh, chosen, manifests>>

\* Mutant: the source is not compared at the end.
StageStatus_Unchecked(t, exit) == exit

\* Mutant: a status of its own for it, which no reader knows.
StageStatus_Changed(t, exit) == IF tree # cand[t].source THEN "changed" ELSE exit

\* A command that passed while the source became another has failed.
StageStatus(t, exit) == IF tree # cand[t].source THEN "red" ELSE exit

\* The command has ended: the receipt gets its status, the manifest names it.
\* When it finished, and what it saw, is kept for those that passed.
StageEnd(t, exit) ==
  LET i == Len(attempts)
      status == StageStatus(t, exit)
  IN  /\ At(t, "running")
      /\ attempts' = [attempts EXCEPT ![i] =
           IF status = "pass" THEN [@ EXCEPT !.status = status, !.finished = now, !.saw = saw[t]]
                              ELSE [@ EXCEPT !.status = status]]
      /\ Record(t, attempts[i].stage, i)
      /\ saw' = [saw EXCEPT ![t] = {}]
      /\ Go(t, "stage")
      /\ UNCHANGED <<worktree, cand, fresh, manifests>>

\* Every stage has passed and the source is still the candidate's.
Accepts(t) ==
  /\ \A s \in Stages : chosen[t][s] # 0 /\ attempts[chosen[t][s]].status = "pass"
  /\ tree = cand[t].source

\* The end of execute, and Gate.finish.
Finish(t) ==
  /\ At(t, "stage")
  /\ NoMoreStages(t)
  /\ manifests' = manifests \cup
       {[inputs |-> cand[t], stages |-> chosen[t], accepted |-> Accepts(t)]}
  /\ GateLeave(t)
  /\ UNCHANGED <<worktree, attempts>>

-----------------------------------------------------------------------------
\* release-ready with the manifest m: after preflight, its check.
ReadyStart(t, m) ==
  /\ Clean
  /\ Start(t, "ready-manifest")
  /\ chosen' = [chosen EXCEPT ![t] = m]
  /\ UNCHANGED <<worktree, cand, saw, fresh, attempts, manifests>>

\* What follows in the command is in Publication.
ReadyManifest(t) ==
  /\ At(t, "ready-manifest")
  /\ ManifestOK(chosen[t], CurrentInputs)
  /\ cand' = [cand EXCEPT ![t] = CurrentInputs]
  /\ Go(t, "manifest-ok")
  /\ UNCHANGED <<worktree, saw, fresh, chosen, attempts, manifests>>

\* The review names a manifest of this source.
ReviewStart(t, m) ==
  /\ Clean
  /\ Start(t, "review")
  /\ chosen' = [chosen EXCEPT ![t] = m]
  /\ UNCHANGED <<worktree, cand, saw, fresh, attempts, manifests>>

ReviewManifest(t) ==
  /\ At(t, "review")
  /\ ReviewedOK(chosen[t], CurrentInputs)
  /\ cand' = [cand EXCEPT ![t] = CurrentInputs]
  /\ Go(t, "review-ok")
  /\ UNCHANGED <<worktree, saw, fresh, chosen, attempts, manifests>>

GateCommand(t) ==
  \/ \E f \in BOOLEAN : GateStart(t, f)
  \/ GateInputs(t)
  \/ \E s \in Stages : StageReuse(t, s) \/ StageRun(t, s)
  \/ \E exit \in {"pass", "red"} : StageEnd(t, exit)
  \/ Finish(t)
  \/ \E m \in manifests : ReadyStart(t, m)
  \/ ReadyManifest(t)
  \/ \E m \in manifests : ReviewStart(t, m)
  \/ ReviewManifest(t)
  \/ GateStop(t)

GateNext ==
  \/ (Developer \/ Restart) /\ UNCHANGED gateVars
  \/ \E t \in Terminals : GateCommand(t)

-----------------------------------------------------------------------------
\* When release-ready has accepted a manifest, the last attempt at every
\* stage for the current inputs has passed: neither a later failure nor an
\* interrupted attempt hides behind an older pass.  A review excepts only the
\* failure of the reviewed guard.
LatestPassed ==
  \A t \in Terminals : \A s \in Stages :
    At(t, "manifest-ok") \/ (At(t, "review-ok") /\ s # Reviewed) =>
      \E i \in Tried(s, cand[t]) :
        /\ attempts[i].status = "pass"
        /\ \A j \in Tried(s, cand[t]) : j > i => attempts[j].status = "pass"

\* The stages of an accepted manifest ran on the source it is for and saw no
\* other bytes, unless older bytes were put back while a command ran.
RanOnItsSource ==
  \A m \in manifests : m.accepted /\ ~restored =>
    \A s \in Stages : attempts[m.stages[s]].saw = {m.inputs.source}

\* No guard is measured unless the last correctness attempt for the same
\* inputs before it has passed.
GuardsAfterCorrectness ==
  \A i \in Attempts : attempts[i].stage \in GuardSet =>
    LET before == {j \in Tried("correctness", attempts[i].inputs) : j < i}
    IN  \E j \in before : attempts[j].status = "pass" /\ \A k \in before : k <= j

GateSpec == GateInit /\ [][GateNext]_<<workspace, gateVars>>
=============================================================================
