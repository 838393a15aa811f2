------------------------------ MODULE Preflight ------------------------------
(***************************************************************************)
(* The preflight of a release (scripts/release_workflow.py): the static    *)
(* policies, the upgrade blueprints, and the dependencies that a user who  *)
(* installs the packages gets, each of which must be released on Hackage.  *)
(*                                                                         *)
(* The dependencies are collected from the Cabal plan by a walk over its   *)
(* units and then looked up by a pool of threads, with retries.  A version *)
(* is a number.  The working trees and the registry do not change during   *)
(* the preflight; its requests may fail at any time.                       *)
(***************************************************************************)
EXTENDS Integers, Sequences, FiniteSets, SequencesExt

CONSTANTS
  Candidates,      \* the states of the workspace a preflight may find
  PoolSize,        \* max_workers
  LookupAttempts   \* how often a lookup is tried

ASSUME PreflightOK == PoolSize \in Nat \ {0} /\ LookupAttempts \in Nat \ {0}

\* A Cabal plan has finitely many units and lists every one that a unit depends on.
ASSUME CandidatesOK == \A w \in Candidates :
  /\ w.tags \subseteq Int
  /\ IsFiniteSet(DOMAIN w.units)
  /\ \A u \in DOMAIN w.units : w.units[u].depends \in Seq(DOMAIN w.units)

VARIABLES
  found,    \* the workspace: versions, static, tags, current, migrations,
            \* blueprints, units, registry
  stage,    \* what the preflight does next, or how it ended
  pending,  \* the units to visit, the last one first
  seen,     \* those visited
  needed,   \* the packages to look up
  lookup,   \* of each of them: its status, and how many attempts have failed
  broken    \* a lookup has failed: the queued ones are cancelled

preflightVars == <<found, stage, pending, seen, needed, lookup, broken>>

-----------------------------------------------------------------------------
(* blueprint_preflight *)

\* version: the packages of the release have one version.
OneVersion == ToSet(found.versions) = {found.current}

\* The releases before this one.
Earlier == {v \in found.tags : v < found.current}

\* The migrations a user of the release before this one goes through.
Selected ==
  {m \in found.migrations : Max(Earlier) <= m.from /\ m.to <= found.current}

\* published_blueprint: what the owner has here is what its default branch has.
Published(b) == b.known /\ ~b.edited /\ b.local = b.remote

BlueprintsOK ==
  Earlier # {} =>
    \A m \in Selected : \A b \in m.entails : Published(found.blueprints[b])

-----------------------------------------------------------------------------
(* published_dependencies *)

Ours(u) == found.units[u].ours

\* The libraries and executables of the release.
Roots == {u \in DOMAIN found.units : Ours(u) /\ found.units[u].component \in {"lib", "exe"}}

\* A unit whose package a user gets from the registry.
External(u) == ~Ours(u) /\ ~found.units[u].installed

\* Mutant: the units behind a package of the release are not followed.
Successors_External(u) == IF Ours(u) THEN <<>> ELSE found.units[u].depends

Successors(u) == found.units[u].depends

\* One unit off the list.
Visit ==
  /\ stage = "closure"
  /\ pending # <<>>
  /\ LET u == Last(pending) IN
       IF u \in seen
       THEN pending' = Front(pending) /\ UNCHANGED <<seen, needed, stage>>
       ELSE /\ seen' = seen \cup {u}
            /\ pending' = Front(pending) \o Successors(u)
            /\ IF ~External(u)
               THEN UNCHANGED <<needed, stage>>
               ELSE IF found.units[u].source = "hackage"
                    THEN needed' = needed \cup {found.units[u].package} /\ UNCHANGED stage
                    ELSE stage' = "failed" /\ UNCHANGED needed
  /\ UNCHANGED <<found, lookup, broken>>

\* The walk is over: the pool gets all the lookups.
Submit ==
  /\ stage = "closure"
  /\ pending = <<>>
  /\ IF seen = {}
     THEN stage' = "failed" /\ UNCHANGED lookup
     ELSE stage' = "lookup" /\ lookup' = [p \in needed |-> [status |-> "queued", failures |-> 0]]
  /\ UNCHANGED <<found, pending, seen, needed, broken>>

-----------------------------------------------------------------------------
(* check_publication, in the threads of the pool *)

Status(p) == lookup[p].status
Running == {p \in DOMAIN lookup : Status(p) = "running"}

Set(p, status) ==
  /\ lookup' = [lookup EXCEPT ![p].status = status]
  /\ UNCHANGED <<found, stage, pending, seen, needed, broken>>

TakeUp(p) ==
  /\ Status(p) = "queued"
  /\ ~broken
  /\ Cardinality(Running) < PoolSize
  /\ Set(p, "running")

\* The registry answers: only a version with the status normal will do.
Answered(p) ==
  /\ p \in Running
  /\ Set(p, IF found.registry[p] = "normal" THEN "released" ELSE "refused")

\* An error 4xx other than 429 is final.
Rejected(p) ==
  /\ p \in Running
  /\ Set(p, "refused")

\* Any other failure is tried again, up to the limit.
AfterFailure(l) ==
  IF l.failures + 1 = LookupAttempts
  THEN [l EXCEPT !.status = "refused"]
  ELSE [l EXCEPT !.failures = @ + 1]

Unanswered(p) ==
  /\ p \in Running
  /\ lookup' = [lookup EXCEPT ![p] = AfterFailure(@)]
  /\ UNCHANGED <<found, stage, pending, seen, needed, broken>>

\* as_completed meets a failure: what is queued is cancelled, what runs is
\* waited for.
CancelQueued ==
  /\ stage = "lookup"
  /\ ~broken
  /\ \E p \in DOMAIN lookup : Status(p) = "refused"
  /\ broken' = TRUE
  /\ lookup' = [p \in DOMAIN lookup |->
                 IF Status(p) = "queued" THEN [lookup[p] EXCEPT !.status = "cancelled"] ELSE lookup[p]]
  /\ UNCHANGED <<found, stage, pending, seen, needed>>

Over == \A p \in DOMAIN lookup : Status(p) \in {"released", "refused", "cancelled"}

\* The pool is shut down.
LookedUp ==
  /\ stage = "lookup"
  /\ Over
  /\ (\E p \in DOMAIN lookup : Status(p) = "refused") => broken
  /\ stage' = IF broken THEN "failed" ELSE "corpus"
  /\ UNCHANGED <<found, pending, seen, needed, lookup, broken>>

-----------------------------------------------------------------------------
PreflightInit ==
  /\ found \in Candidates
  /\ stage = "static"
  /\ pending = <<>>
  /\ seen = {}
  /\ needed = {}
  /\ lookup = <<>>
  /\ broken = FALSE

\* preflight, in its order: the policies, the blueprints, the plan and, last, the
\* conformance corpus.
Static ==
  /\ stage = "static"
  /\ IF OneVersion /\ found.static /\ BlueprintsOK
     THEN stage' = "closure" /\ pending' = SetToSeq(Roots)
     ELSE stage' = "failed" /\ UNCHANGED pending
  /\ UNCHANGED <<found, seen, needed, lookup, broken>>

Corpus ==
  /\ stage = "corpus"
  /\ stage' \in {"passed", "failed"}
  /\ UNCHANGED <<found, pending, seen, needed, lookup, broken>>

PreflightEnded == stage \in {"passed", "failed"} /\ UNCHANGED preflightVars

PreflightNext ==
  \/ Static \/ Visit \/ Submit \/ CancelQueued \/ LookedUp \/ Corpus
  \/ \E p \in DOMAIN lookup : TakeUp(p) \/ Answered(p) \/ Rejected(p) \/ Unanswered(p)
  \/ PreflightEnded

PreflightSpec == PreflightInit /\ [][PreflightNext]_preflightVars

-----------------------------------------------------------------------------
(* Correctness *)

\* What the libraries and executables of the release depend on, directly or not.
Closed(S) ==
  /\ Roots \subseteq S
  /\ \A u \in S : ToSet(found.units[u].depends) \subseteq S
Reachable ==
  {u \in DOMAIN found.units : \A S \in SUBSET DOMAIN found.units : Closed(S) => u \in S}

\* A preflight that passes has found every dependency a user will get to be a
\* normal release on Hackage, however its requests failed, and every blueprint
\* that a migration of this release needs to be the one its owner has published.
PreflightSound ==
  stage = "passed" =>
    /\ \A u \in Reachable : External(u) =>
         found.units[u].source = "hackage" /\ found.registry[found.units[u].package] = "normal"
    /\ \A m \in found.migrations, b \in DOMAIN found.blueprints :
         /\ b \in m.entails
         /\ \E v \in Earlier : (\A w \in Earlier : w <= v) /\ v <= m.from
         /\ m.to <= found.current
         => found.blueprints[b].local = found.blueprints[b].remote
=============================================================================
