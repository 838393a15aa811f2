------------------------------ MODULE Consumer ------------------------------
(***************************************************************************)
(* The consumer of a release (scripts/release_consumer.py): a project of   *)
(* its own that depends on the packages, as archives (mode "staged") or    *)
(* from Hackage (mode "published"), is solved, built, and its server asked *)
(* for its health on a scratch database.  Publication has the files that   *)
(* go in and the result that comes out; here is what happens in between.   *)
(*                                                                         *)
(* An entry of the plan is a record; "none" stands for a field it lacks.   *)
(* Seconds are polls of the server's output.  Whatever may raise does so   *)
(* at any time, an interrupt from the terminal included.                   *)
(***************************************************************************)
EXTENDS Integers, Sequences, SequencesExt

CONSTANTS
  Packages,  \* PACKAGES
  Current,   \* the version of the candidate
  Plans(_),  \* the plans cabal may find in a mode
  Attempts,  \* ATTEMPTS
  Deadline   \* how many polls the server has to tell its port

ASSUME ConsumerOK == Attempts \in Nat \ {0} /\ Deadline \in Nat

VARIABLES
  mode,      \* "staged" or "published"
  at,        \* what it does next, or how it ended
  tried,     \* how often the solver has failed
  plan,
  database,  \* the scratch database exists
  server,    \* "none", "running" or "exited"
  said,      \* what the server has written that was not read: "nothing", a
             \* "word", the "port", or a "partial" line
  polls,
  health,    \* what the server answered: "none", "ok" or "other"
  left       \* the clean-up itself was cut short

solveVars == <<mode, tried, plan>>
serverVars == <<server, said>>
consumerVars == <<mode, at, tried, plan, database, server, said, polls, health, left>>

-----------------------------------------------------------------------------
(* solve and validate_plan *)

\* Only a published cohort may still be missing from the index.
Tries == IF mode = "published" THEN Attempts ELSE 1

Update ==
  /\ at = "update"
  /\ at' \in {"dry-run", "failed"}
  /\ UNCHANGED <<solveVars, database, serverVars, polls, health, left>>

\* The solver ends with a plan, without one, or not at all within its time; only
\* the second is tried again.
DryRun ==
  /\ at = "dry-run"
  /\ \/ at' = "plan" /\ plan' \in Plans(mode) /\ UNCHANGED tried
     \/ tried' = tried + 1 /\ at' = (IF tried + 1 < Tries THEN "update" ELSE "failed") /\ UNCHANGED plan
     \/ at' = "failed" /\ UNCHANGED <<tried, plan>>
  /\ UNCHANGED <<mode, database, serverVars, polls, health, left>>

FromHackage(e) == e.source = "repo-tar" /\ e.uri = "https://hackage.haskell.org/"

EntryOK(e) ==
  /\ e.name \in Packages =>
       /\ e.version = Current
       /\ e.source = IF mode = "staged" THEN "local-tar" ELSE "repo-tar"
  /\ e.name \notin Packages /\ e.name # "release-consumer" /\ e.type # "pre-existing" =>
       e.source = "repo-tar"
  /\ e.source = "repo-tar" => FromHackage(e)

PlanOK ==
  /\ \A e \in ToSet(plan) : EntryOK(e)
  /\ Packages \subseteq {e.name : e \in ToSet(plan)}

ValidatePlan ==
  /\ at = "plan"
  /\ at' = IF PlanOK THEN "build" ELSE "failed"
  /\ UNCHANGED <<solveVars, database, serverVars, polls, health, left>>

BuildAll ==
  /\ at = "build"
  /\ at' \in {"createdb", "failed"}
  /\ UNCHANGED <<solveVars, database, serverVars, polls, health, left>>

-----------------------------------------------------------------------------
(* health_check *)

\* An interrupted createdb may have created the database: the clean-up begins
\* only after it.
CreateDb ==
  /\ at = "createdb"
  /\ \/ at' = "migrate" /\ database' = TRUE /\ UNCHANGED left
     \/ at' = "failed" /\ UNCHANGED <<database, left>>
     \/ at' = "failed" /\ database' = TRUE /\ left' = TRUE
  /\ UNCHANGED <<solveVars, serverVars, polls, health>>

Body == {"migrate", "spawn", "listen", "health"}

\* Anything the body raises.
Raise ==
  /\ at \in Body
  /\ at' = "cleanup"
  /\ UNCHANGED <<solveVars, database, serverVars, polls, health, left>>

Migrate ==
  /\ at = "migrate"
  /\ at' = "spawn"
  /\ UNCHANGED <<solveVars, database, serverVars, polls, health, left>>

Spawn ==
  /\ at = "spawn"
  /\ at' = "listen"
  /\ server' = "running"
  /\ UNCHANGED <<solveVars, database, said, polls, health, left>>

\* One turn of the loop: a whole line is read, or nothing was written for a
\* second; of a partial line the rest is waited for, however long it takes.
Poll ==
  /\ at = "listen"
  /\ IF polls = Deadline \/ server = "exited"
     THEN at' = "cleanup" /\ UNCHANGED <<polls, said>>
     ELSE /\ said # "partial"
          /\ polls' = polls + 1
          /\ said' = "nothing"
          /\ at' = IF said = "port" THEN "health" ELSE "listen"
  /\ UNCHANGED <<solveVars, database, server, health, left>>

\* A healthy answer ends the body; any other raises.
AskHealth ==
  /\ at = "health"
  /\ health' \in IF server = "running" THEN {"ok", "other", "none"} ELSE {"none"}
  /\ at' = "cleanup"
  /\ UNCHANGED <<solveVars, database, serverVars, polls, left>>

\* The server, on its own.
ServerWrites ==
  /\ server = "running"
  /\ said' \in CASE said = "nothing" -> {"word", "port", "partial"}
                 [] said = "partial" -> {"word", "port"}
                 [] OTHER -> {}
  /\ UNCHANGED <<solveVars, at, database, server, polls, health, left>>

ServerExits ==
  /\ server = "running"
  /\ server' = "exited"
  /\ said' = IF said = "partial" THEN "word" ELSE said
  /\ UNCHANGED <<solveVars, at, database, polls, health, left>>

-----------------------------------------------------------------------------
(* The clean-up of health_check, whichever way its body ended *)

\* Mutant: without a server there is nothing to clean up.
AfterCleanUp_Server == IF server = "running" THEN "wait" ELSE IF server = "none" THEN "failed" ELSE "drop"

\* A server that still runs is interrupted; else the database is dropped.
AfterCleanUp == IF server = "running" THEN "wait" ELSE "drop"

CleanUp ==
  /\ at = "cleanup"
  /\ at' = AfterCleanUp
  /\ UNCHANGED <<solveVars, database, serverVars, polls, health, left>>

\* The server has ten seconds, and when killed another ten; after these the
\* database stays.
Wait ==
  /\ at \in {"wait", "killed"}
  /\ \/ server = "exited" /\ at' = "drop" /\ UNCHANGED left
     \/ at = "wait" /\ at' = "killed" /\ UNCHANGED left
     \/ at' = "failed" /\ left' = TRUE
  /\ UNCHANGED <<solveVars, database, serverVars, polls, health>>

DropDb ==
  /\ at = "drop"
  /\ \/ database' = FALSE /\ at' = (IF health = "ok" THEN "identity" ELSE "failed") /\ UNCHANGED left
     \/ at' = "failed" /\ left' = TRUE /\ UNCHANGED database
  /\ UNCHANGED <<solveVars, serverVars, polls, health>>

\* The sources are compared, as Publication has it.
Identify ==
  /\ at = "identity"
  /\ at' \in {"passed", "failed"}
  /\ UNCHANGED <<solveVars, database, serverVars, polls, health, left>>

-----------------------------------------------------------------------------
ConsumerInit ==
  /\ mode \in {"staged", "published"}
  /\ at = "update"
  /\ tried = 0
  /\ plan = <<>>
  /\ database = FALSE
  /\ server = "none"
  /\ said = "nothing"
  /\ polls = 0
  /\ health = "none"
  /\ left = FALSE

ConsumerNext ==
  \/ Update \/ DryRun \/ ValidatePlan \/ BuildAll
  \/ CreateDb \/ Migrate \/ Spawn \/ Poll \/ AskHealth \/ Raise
  \/ ServerWrites \/ ServerExits
  \/ CleanUp \/ Wait \/ DropDb \/ Identify

ConsumerSpec == ConsumerInit /\ [][ConsumerNext]_consumerVars

-----------------------------------------------------------------------------
(* Correctness *)

\* "These files are generated only by us": a consumer that passed linked the
\* packages of the candidate and nothing that is not from Hackage or GHC, and its
\* server answered that it is healthy; and however a consumer ends, it leaves no
\* server and no scratch database behind, unless the clean-up itself was cut short.
ConsumerSound ==
  /\ at = "passed" =>
       /\ \A p \in Packages : \E e \in ToSet(plan) : e.name = p /\ e.version = Current
       /\ \A e \in ToSet(plan) :
            \/ e.name = "release-consumer" \/ e.type = "pre-existing"
            \/ FromHackage(e)
            \/ mode = "staged" /\ e.name \in Packages /\ e.source = "local-tar"
       /\ health = "ok"
       /\ ~left
  /\ at \in {"passed", "failed"} /\ ~left => ~database /\ server # "running"
  /\ tried > 1 => mode = "published"
=============================================================================
