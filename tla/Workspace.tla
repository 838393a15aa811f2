----------------------------- MODULE Workspace -----------------------------
(***************************************************************************)
(* The workspace that the release commands share (scripts/                 *)
(* release_workflow.py, scripts/release_consumer.py): the tracked files,   *)
(* which the developer edits and commits at any moment, and the workspace  *)
(* lock, which lets one command run at a time.  ReleaseGate and            *)
(* Publication add the commands.                                           *)
(*                                                                         *)
(* A command is a sequence of steps of a terminal.  It may stop at any of  *)
(* them: a check refuses, an external command fails, it is interrupted or  *)
(* killed.  What it has written stays.                                     *)
(***************************************************************************)
EXTENDS Integers, Sequences, FiniteSets

CONSTANTS
  Terminals,    \* where release commands are started
  None,         \* no value
  MaxAge,       \* how long evidence stays fresh
  MaxChanges,   \* bound: edits and changes of the environment, together
  MaxNow        \* bound: the clock

ASSUME WorkspaceOK ==
  /\ None \notin Terminals
  /\ MaxAge \in Nat /\ MaxChanges \in Nat /\ MaxNow \in Nat

VARIABLES
  tree,       \* the tracked bytes on disk, what source_identity hashes
  head,       \* those of the commit that is checked out
  edits,      \* the newest bytes there have been
  restored,   \* history: older bytes were put back while a command ran
  env,        \* plan, compiler, PostgreSQL server: the other inputs of a stage
  now,        \* the clock
  lock,       \* the terminal that holds the workspace lock
  pc,         \* where a terminal's command is
  cand,       \* the inputs the command works for
  saw         \* history: the bytes an external command may have read

worktree == <<tree, head, edits, restored, env, now>>
command == <<lock, pc, cand, saw>>
workspace == <<worktree, command>>

\* Where the commands of ReleaseGate and of Publication can be.
Phases ==
  {"idle", "preflight", "stage", "running", "ready-manifest", "manifest-ok", "review", "review-ok",
   "sdist", "haddock", "list", "consumer", "consumer-build", "consumer-end",
   "ready-preflight", "ready-artifacts", "ready"}

Trees == 0..MaxChanges
Inputs == [source : Trees, env : 0..MaxChanges]
\* identity
CurrentInputs == [source |-> tree, env |-> env]
\* The part of reusable and of check_artifacts that is about age.
Fresh(finished) == now - finished <= MaxAge

WorkspaceTypeOK ==
  /\ tree \in 0..edits /\ head \in 0..edits /\ edits \in Trees /\ restored \in BOOLEAN
  /\ env \in 0..MaxChanges /\ now \in 0..MaxNow
  /\ lock \in Terminals \cup {None}
  /\ pc \in [Terminals -> Phases]
  /\ cand \in [Terminals -> Inputs \cup {None}]
  /\ saw \in [Terminals -> SUBSET Trees]

WorkspaceInit ==
  /\ tree = 0 /\ head = 0 /\ edits = 0 /\ restored = FALSE /\ env = 0 /\ now = 0
  /\ lock = None
  /\ pc = [t \in Terminals |-> "idle"]
  /\ cand = [t \in Terminals |-> None]
  /\ saw = [t \in Terminals |-> {}]

-----------------------------------------------------------------------------
(* The developer, the machine and the clock. *)

\* The bytes become s under the commands that are running.
Becomes(s) ==
  /\ tree' = s
  /\ saw' = [t \in Terminals |-> IF saw[t] = {} THEN {} ELSE saw[t] \cup {s}]
  /\ UNCHANGED <<head, env, now, lock, pc, cand>>

\* New bytes are written: by hand, or by prepare, which formats and generates.
Edit ==
  /\ edits + env < MaxChanges
  /\ edits' = edits + 1
  /\ Becomes(edits + 1)
  /\ UNCHANGED restored

\* Bytes that were there before are put back, by an undo or a checkout.
Restore(s) ==
  /\ s \in 0..edits \ {tree}
  /\ Becomes(s)
  /\ restored' = (restored \/ lock # None)
  /\ UNCHANGED edits

Commit ==
  /\ head # tree
  /\ head' = tree
  /\ UNCHANGED <<tree, edits, restored, env, now, command>>

\* PostgreSQL is restarted, or the shell or the dependency plan changes.
Restart ==
  /\ edits + env < MaxChanges
  /\ env' = env + 1
  /\ UNCHANGED <<tree, head, edits, restored, now, command>>

Tick ==
  /\ now < MaxNow
  /\ now' = now + 1
  /\ UNCHANGED <<tree, head, edits, restored, env, command>>

Developer ==
  \/ Edit
  \/ \E s \in Trees : Restore(s)
  \/ Commit
  \/ Tick

-----------------------------------------------------------------------------
(* Commands. *)

\* workspace_lock: exclusive, and refused at once when it is held.
LockFree == lock = None

\* require_clean
Clean == tree = head

At(t, phase) == pc[t] = phase

\* The command takes the lock.
Start(t, phase) ==
  /\ LockFree
  /\ At(t, "idle")
  /\ lock' = t
  /\ pc' = [pc EXCEPT ![t] = phase]

Go(t, phase) ==
  /\ pc' = [pc EXCEPT ![t] = phase]
  /\ UNCHANGED lock

\* The command ends, in whatever way: the lock goes with the process.
Leave(t) ==
  /\ lock' = IF lock = t THEN None ELSE lock
  /\ pc' = [pc EXCEPT ![t] = "idle"]
  /\ cand' = [cand EXCEPT ![t] = None]
  /\ saw' = [saw EXCEPT ![t] = {}]
=============================================================================
