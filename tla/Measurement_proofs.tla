------------------------- MODULE Measurement_proofs -------------------------
(***************************************************************************)
(* Proofs about Consumer and Comparison, the two scripts of a release that *)
(* start processes of their own: for any plans that cabal finds, packages, *)
(* reports and bounds on attempts, polls and samples.                      *)
(***************************************************************************)
EXTENDS Consumer, Comparison, TLAPS

-----------------------------------------------------------------------------
(* Consumer *)

\* Where the plan has been found to be good.
Planned == {"build", "createdb", "migrate", "spawn", "listen", "health", "cleanup", "wait", "killed",
            "drop", "identity", "passed"}
\* Before there is a server, and before there is a database.
Serverless == {"update", "dry-run", "plan", "build", "createdb", "migrate", "spawn"}
Databaseless == Serverless \ {"migrate", "spawn"}
\* The clean-up has seen the server out.
Done == {"identity", "passed"}

ConsumerInv ==
  /\ mode \in {"staged", "published"}
  /\ tried \in Nat /\ tried <= Tries
  /\ at \in {"update", "dry-run"} => tried < Tries
  /\ at \in Planned => PlanOK
  /\ server \in {"none", "running", "exited"}
  /\ at \in Serverless => server = "none"
  /\ at \in Databaseless => ~database
  /\ at \in Done \cup {"drop"} => server # "running"
  /\ at \in Done => ~database /\ health = "ok"
  /\ left => at = "failed"
  /\ at = "failed" /\ ~left => ~database /\ server # "running"

\* Whatever the plans, the solver's failures, the server's exits and the interrupts, a
\* consumer that passed linked what is released and left nothing behind.
THEOREM ConsumerIsSound == ConsumerSpec => []ConsumerSound
<1>. USE DEF Planned, Serverless, Databaseless, Done
<1>1. ConsumerInit => ConsumerInv
  BY ConsumerOK DEF ConsumerOK, ConsumerInit, ConsumerInv, Tries
<1>2. ConsumerInv /\ [ConsumerNext]_consumerVars => ConsumerInv'
  <2>. SUFFICES ASSUME ConsumerInv, [ConsumerNext]_consumerVars PROVE ConsumerInv'
    OBVIOUS
  <2>. USE DEF ConsumerInv, solveVars, serverVars
  <2>1. ASSUME UNCHANGED plan, UNCHANGED mode PROVE PlanOK' = PlanOK /\ Tries' = Tries
    BY <2>1 DEF PlanOK, EntryOK, FromHackage, Tries
  <2>2. CASE Update BY <2>1, <2>2 DEF Update
  <2>3. CASE DryRun
    BY <2>1, <2>3, ConsumerOK DEF DryRun, ConsumerOK, Tries
  <2>4. CASE ValidatePlan BY <2>1, <2>4 DEF ValidatePlan
  <2>5. CASE BuildAll BY <2>1, <2>5 DEF BuildAll
  <2>6. CASE CreateDb BY <2>1, <2>6 DEF CreateDb
  <2>7. CASE Migrate BY <2>1, <2>7 DEF Migrate
  <2>8. CASE Spawn BY <2>1, <2>8 DEF Spawn
  <2>9. CASE Poll BY <2>1, <2>9 DEF Poll
  <2>10. CASE AskHealth BY <2>1, <2>10 DEF AskHealth
  <2>11. CASE Raise BY <2>1, <2>11 DEF Raise, Body
  <2>12. CASE ServerWrites BY <2>1, <2>12 DEF ServerWrites
  <2>13. CASE ServerExits BY <2>1, <2>13 DEF ServerExits
  <2>14. CASE CleanUp BY <2>1, <2>14 DEF CleanUp, AfterCleanUp
  <2>15. CASE Wait BY <2>1, <2>15 DEF Wait
  <2>16. CASE DropDb BY <2>1, <2>16 DEF DropDb
  <2>17. CASE Identify BY <2>1, <2>17 DEF Identify
  <2>18. CASE UNCHANGED consumerVars BY <2>1, <2>18 DEF consumerVars
  <2>. QED BY <2>2, <2>3, <2>4, <2>5, <2>6, <2>7, <2>8, <2>9, <2>10, <2>11, <2>12, <2>13, <2>14,
              <2>15, <2>16, <2>17, <2>18 DEF ConsumerNext
<1>3. ConsumerInv => ConsumerSound
  <2>. SUFFICES ASSUME ConsumerInv PROVE ConsumerSound
    OBVIOUS
  <2>. USE DEF ConsumerInv
  <2>1. ASSUME PlanOK, NEW p \in Packages PROVE \E e \in ToSet(plan) : e.name = p /\ e.version = Current
    BY <2>1 DEF PlanOK, EntryOK
  <2>2. ASSUME PlanOK, NEW e \in ToSet(plan)
        PROVE  \/ e.name = "release-consumer" \/ e.type = "pre-existing"
               \/ FromHackage(e)
               \/ mode = "staged" /\ e.name \in Packages /\ e.source = "local-tar"
    BY <2>2 DEF PlanOK, EntryOK
  <2>3. tried > 1 => mode = "published"
    BY DEF Tries
  <2>. QED BY <2>1, <2>2, <2>3 DEF ConsumerSound
<1>. QED BY <1>1, <1>2, <1>3, PTL DEF ConsumerSpec

-----------------------------------------------------------------------------
(* Comparison *)

\* Where the script has seen the benchmark end, or has given it up.
Ending == {"record", "summary", "passed", "failed"}

\* The reports that are there are what the benchmark can leave.
Evidence ==
  /\ evidence = [r \in DOMAIN evidence |-> evidence[r]]
  /\ \A r \in DOMAIN evidence : evidence[r] \in {Sound(r)} \cup Flawed(r)

Measured == DOMAIN evidence = ToSet(Reports)

ComparisonInv ==
  /\ Evidence
  /\ step \in {"check", "preflight", "poll", "sample", "wait", "rewait", "finally"} \cup Ending
  /\ step \notin {"check", "failed"} => RequiredChecks \subseteq matching
  /\ benchmark \in {"none", "running", "ok", "error"}
  /\ step = "check" => benchmark = "none"
  /\ step \in Ending /\ benchmark = "running" => orphan
  /\ benchmark = "ok" => Measured
  /\ raised => step \in {"finally", "record", "failed"}
  /\ sighted => contaminated \/ raised
  /\ exitCode # "none" =>
       /\ step \in Ending \cup {"finally"}
       /\ exitCode = benchmark /\ benchmark # "running"
       /\ sighted => contaminated
  /\ \A x \in execution : step \in Ending \ {"record"} /\ x.code = exitCode /\ x.contaminated = contaminated
  /\ step = "passed" => Verdict

\* Another report leaves the evidence what the benchmark can leave.
LEMMA AnotherReport ==
  ASSUME Evidence, NEW s, NEW e \in {Sound(s)} \cup Flawed(s), evidence' = With(s, e)
  PROVE  Evidence'
BY DEF Evidence, With

\* What the summary looks at tells a sound report from any flawed one.
LEMMA FlawsShow ==
  ASSUME NEW r, NEW e \in {Sound(r)} \cup Flawed(r),
         e.counts, e.pass, e.durable, e.raw, r \in FixedArrival => e.matches = 1,
         r \notin Sustained => e.ratios = Pairs
  PROVE  e = Sound(r)
BY ComparisonOK DEF ComparisonOK, Sound, Flawed

\* However the benchmark, the host and interrupts interleave with the script, what it passes
\* was measured to the end on a host that no sample found busy.
THEOREM ComparisonIsSound == ComparisonSpec => []ComparisonSound
<1>. USE DEF Ending
<1>1. ComparisonInit => ComparisonInv
  BY DEF ComparisonInit, ComparisonInv, Evidence, Measured
<1>2. ComparisonInv /\ [ComparisonNext]_comparisonVars => ComparisonInv'
  <2>. SUFFICES ASSUME ComparisonInv, [ComparisonNext]_comparisonVars PROVE ComparisonInv'
    OBVIOUS
  <2>. USE DEF ComparisonInv, hostVars, outcome
  <2>0. RequiredChecks' = RequiredChecks
    BY DEF RequiredChecks, ComparisonNext, comparisonVars, CheckIdentity, PreflightSample, StartBenchmark,
       PollBenchmark, SampleHost, WaitForExit, Abandon, FinallyStop, RecordExecution, CutShort, Summarize,
       Measure, BenchmarkEnds, HostChanges
  <2>1. ASSUME UNCHANGED evidence PROVE Evidence' /\ Measured' = Measured
    BY <2>1 DEF Evidence, Measured
  <2>2. ASSUME UNCHANGED <<evidence, contaminated, exitCode>> PROVE Verdict' = Verdict
    BY <2>2 DEF Verdict, SummaryPasses, Complete, Present
  <2>3. CASE CheckIdentity BY <2>0, <2>1, <2>2, <2>3 DEF CheckIdentity
  <2>4. CASE PreflightSample BY <2>0, <2>1, <2>2, <2>4 DEF PreflightSample
  <2>5. CASE StartBenchmark BY <2>0, <2>1, <2>2, <2>5 DEF StartBenchmark
  <2>6. CASE PollBenchmark BY <2>0, <2>1, <2>2, <2>6 DEF PollBenchmark
  <2>7. CASE SampleHost BY <2>0, <2>1, <2>2, <2>7 DEF SampleHost
  <2>8. CASE WaitForExit BY <2>0, <2>1, <2>2, <2>8 DEF WaitForExit
  <2>9. CASE Abandon BY <2>0, <2>1, <2>2, <2>9 DEF Abandon
  <2>10. CASE FinallyStop BY <2>0, <2>1, <2>2, <2>10 DEF FinallyStop
  <2>11. CASE RecordExecution BY <2>0, <2>1, <2>2, <2>11 DEF RecordExecution
  <2>12. CASE CutShort BY <2>0, <2>1, <2>2, <2>12 DEF CutShort
  <2>13. CASE Summarize BY <2>0, <2>1, <2>2, <2>13 DEF Summarize
  <2>14. CASE Measure
    <3>1. Evidence'
      BY <2>14, AnotherReport DEF Measure
    <3>. QED BY <2>0, <2>14, <3>1 DEF Measure, Verdict
  <2>15. CASE BenchmarkEnds BY <2>0, <2>1, <2>2, <2>15 DEF BenchmarkEnds, Measured
  <2>16. CASE HostChanges BY <2>0, <2>1, <2>2, <2>16 DEF HostChanges
  <2>17. CASE UNCHANGED comparisonVars BY <2>0, <2>1, <2>2, <2>17 DEF comparisonVars
  <2>. QED BY <2>3, <2>4, <2>5, <2>6, <2>7, <2>8, <2>9, <2>10, <2>11, <2>12, <2>13, <2>14, <2>15, <2>16,
              <2>17 DEF ComparisonNext
<1>3. ComparisonInv => ComparisonSound
  <2>. SUFFICES ASSUME ComparisonInv PROVE ComparisonSound
    OBVIOUS
  <2>. USE DEF ComparisonInv
  <2>1. {"dependencies", "compiler", "harness", "baseline"} \subseteq RequiredChecks
    BY DEF RequiredChecks, CellChecks, LocalChecks
  <2>2. ASSUME step = "passed" PROVE ~sighted /\ benchmark = "ok" /\ Measured
    BY <2>2 DEF Verdict
  <2>3. ASSUME step = "passed", NEW r \in ToSet(Reports) PROVE evidence[r] = Sound(r)
    <3>1. r \in DOMAIN evidence /\ evidence[r] \in {Sound(r)} \cup Flawed(r)
      BY <2>2, <2>3 DEF Measured, Evidence
    <3>2. /\ evidence[r].counts /\ evidence[r].pass /\ evidence[r].durable /\ evidence[r].raw
          /\ r \in FixedArrival => evidence[r].matches = 1
          /\ r \notin Sustained => evidence[r].ratios = Pairs
      BY <2>3, <3>1 DEF Verdict, SummaryPasses, Complete, Present
    <3>. QED BY <3>1, <3>2, FlawsShow
  <2>4. step = "passed" => evidence = [r \in ToSet(Reports) |-> Sound(r)]
    BY <2>2, <2>3 DEF Measured, Evidence
  <2>5. \A x \in execution : x.code = "ok" /\ ~x.contaminated => ~sighted /\ benchmark = "ok" /\ Measured
    OBVIOUS
  <2>. QED BY <2>1, <2>2, <2>4, <2>5 DEF ComparisonSound, Measured
<1>. QED BY <1>1, <1>2, <1>3, PTL DEF ComparisonSpec
=============================================================================
