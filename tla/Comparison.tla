------------------------------ MODULE Comparison ------------------------------
(***************************************************************************)
(* The guarded-catalog comparison: a benchmark measures a candidate        *)
(* against a retained baseline while the script samples what else the host *)
(* runs (scripts/run-guarded-catalog-comparison.py), or the same in a      *)
(* leased cell (run-guarded-catalog-cell.py, "leased").  What it leaves in *)
(* the output directory is summarised at the end                           *)
(* (summarize-guarded-catalog-evidence.py).                                *)
(*                                                                         *)
(* The script, the benchmark and the host take their steps on their own.   *)
(* Whatever may raise does so at any time, an interrupt included.          *)
(***************************************************************************)
EXTENDS Naturals, Sequences, SequencesExt

CONSTANTS
  Reports,          \* the required reports, in the order the benchmark writes them
  FixedArrival,     \* those named after the measured capacity
  Sustained,        \* the ten-minute runs, which are not paired
  Pairs,            \* how often a workload is measured on both sides
  PreflightSamples  \* how often the host is looked at before the benchmark

ASSUME ComparisonOK == Pairs \in Nat /\ PreflightSamples \in Nat

VARIABLES
  leased,        \* it runs in a cell
  matching,      \* what of the two builds and the run was found to be as required
  step,          \* what the script does next, or how it ended
  sampled,       \* how many samples of the preflight found the host quiet
  busy,          \* a competing build or test runs on the host
  benchmark,     \* "none", "running", or how it ended: "ok" or "error"
  contaminated,
  exitCode,      \* what the script has of it: "none", "ok" or "error"
  raised,        \* the measurement was left by an exception
  execution,     \* execution.json, if it was written
  evidence,      \* per report: what the directory has on it
  sighted,          \* a competitor stands in host-activity.jsonl
  orphan         \* the benchmark was left running

hostVars == <<leased, matching, busy>>
outcome == <<contaminated, exitCode, raised>>
comparisonVars == <<leased, matching, step, sampled, busy, benchmark, contaminated, exitCode,
                    raised, execution, evidence, sighted, orphan>>

-----------------------------------------------------------------------------
(* The identities checked before anything is measured *)

LocalChecks == {"new output", "shell", "committed", "dependencies", "compiler", "harness", "baseline"}
CellChecks == {"work", "library", "dependencies", "compiler", "harness", "baseline", "candidate", "lease"}
RequiredChecks == IF leased THEN CellChecks ELSE LocalChecks

CheckIdentity ==
  /\ step = "check"
  /\ step' = IF RequiredChecks \subseteq matching THEN "preflight" ELSE "failed"
  /\ UNCHANGED <<hostVars, sampled, benchmark, outcome, execution, evidence, sighted, orphan>>

-----------------------------------------------------------------------------
(* The measurement *)

\* Compilers, builds and tests: all that a sample is taken for.
Blockers == busy

PreflightSample ==
  /\ step = "preflight" /\ sampled < PreflightSamples
  /\ IF Blockers
     THEN sighted' = TRUE /\ raised' = TRUE /\ step' = "finally" /\ UNCHANGED sampled
     ELSE sampled' = sampled + 1 /\ UNCHANGED <<sighted, raised, step>>
  /\ UNCHANGED <<hostVars, benchmark, contaminated, exitCode, execution, evidence, orphan>>

\* An interrupt before the process is assigned leaves it to itself.
StartBenchmark ==
  /\ step = "preflight" /\ sampled = PreflightSamples
  /\ benchmark' = "running"
  /\ \/ step' = "poll" /\ UNCHANGED <<raised, orphan>>
     \/ step' = "record" /\ raised' = TRUE /\ orphan' = TRUE
  /\ UNCHANGED <<hostVars, sampled, contaminated, exitCode, execution, evidence, sighted>>

PollBenchmark ==
  /\ step = "poll"
  /\ step' = IF benchmark = "running" THEN "sample" ELSE "wait"
  /\ UNCHANGED <<hostVars, sampled, benchmark, outcome, execution, evidence, sighted, orphan>>

\* The sample is written, then looked at; a competitor ends the benchmark (SIGINT).
SampleHost ==
  /\ step = "sample"
  /\ IF Blockers
     THEN sighted' = TRUE /\ contaminated' = TRUE /\ step' = "wait"
     ELSE step' = "poll" /\ UNCHANGED <<sighted, contaminated>>
  /\ UNCHANGED <<hostVars, sampled, benchmark, exitCode, raised, execution, evidence, orphan>>

\* Thirty seconds to end, then SIGTERM and thirty more, then an exception.
WaitForExit ==
  /\ step \in {"wait", "rewait"}
  /\ \/ /\ benchmark # "running"
        /\ exitCode' = benchmark
        /\ step' = "finally"
        /\ UNCHANGED raised
     \/ /\ benchmark = "running"
        /\ step' = IF step = "wait" THEN "rewait" ELSE "finally"
        /\ raised' = (step = "rewait")
        /\ UNCHANGED exitCode
  /\ UNCHANGED <<hostVars, sampled, benchmark, contaminated, execution, evidence, sighted, orphan>>

\* Anything the measurement raises, possibly between the writing of a sample
\* and the look at it.
Abandon ==
  /\ step \in {"preflight", "poll", "sample", "wait", "rewait", "finally"}
  /\ step' = "finally"
  /\ raised' = TRUE
  /\ sighted' \in {sighted, sighted \/ (Blockers /\ step \in {"preflight", "sample"})}
  /\ UNCHANGED <<hostVars, sampled, benchmark, contaminated, exitCode, execution, evidence, orphan>>

\* A benchmark that still runs is interrupted and has thirty seconds.
FinallyStop ==
  /\ step = "finally"
  /\ \/ benchmark # "running" /\ step' = "record" /\ UNCHANGED orphan
     \/ benchmark = "running" /\ step' = "failed" /\ orphan' = TRUE
  /\ UNCHANGED <<hostVars, sampled, benchmark, outcome, execution, evidence, sighted>>

\* In a cell execution.json is written by the clean-up, else only after a
\* measurement that did not raise.
RecordExecution ==
  /\ step = "record"
  /\ execution' = IF leased \/ ~raised THEN {[code |-> exitCode, contaminated |-> contaminated]} ELSE {}
  /\ step' = IF raised THEN "failed" ELSE "summary"
  /\ UNCHANGED <<hostVars, sampled, benchmark, outcome, evidence, sighted, orphan>>

\* What is raised outside the measurement ends the script.
CutShort ==
  /\ step \in {"finally", "record", "summary"}
  /\ step' = "failed"
  /\ orphan' = (benchmark = "running")
  /\ UNCHANGED <<hostVars, sampled, benchmark, outcome, execution, evidence, sighted>>

-----------------------------------------------------------------------------
(* The summary of the evidence *)

\* The report of a fixed arrival rate is the only one at its part of the capacity.
Present(r) ==
  /\ r \in DOMAIN evidence
  /\ r \in FixedArrival => evidence[r].matches = 1

Complete ==
  \A r \in ToSet(Reports) :
    /\ Present(r)
    /\ evidence[r].raw
    /\ r \notin Sustained => evidence[r].ratios = Pairs

SummaryPasses ==
  /\ \A r \in DOMAIN evidence : evidence[r].counts /\ evidence[r].pass /\ evidence[r].durable
  /\ Complete

\* Mutant: a benchmark that ended well in spite of its signal counts.
Verdict_Exit == exitCode = "ok" /\ SummaryPasses

Verdict == ~contaminated /\ exitCode = "ok" /\ SummaryPasses

Summarize ==
  /\ step = "summary"
  /\ step' = IF Verdict THEN "passed" ELSE "failed"
  /\ UNCHANGED <<hostVars, sampled, benchmark, outcome, execution, evidence, sighted, orphan>>

-----------------------------------------------------------------------------
(* The benchmark and the host *)

Sound(r) ==
  [pass |-> TRUE, ratios |-> IF r \in Sustained THEN 0 ELSE Pairs, matches |-> 1,
   raw |-> TRUE, counts |-> TRUE, durable |-> TRUE]

\* A budget that is missed, events that are lost, settings that are not durable;
\* and files of the directory that are lost or stand there twice.
Flawed(r) == LET e == Sound(r) IN
  {[e EXCEPT !.pass = FALSE], [e EXCEPT !.raw = FALSE], [e EXCEPT !.counts = FALSE],
   [e EXCEPT !.durable = FALSE]}
    \cup (IF r \in FixedArrival THEN {[e EXCEPT !.matches = n] : n \in {0, 2}} ELSE {})
    \cup (IF r \in Sustained THEN {} ELSE {[e EXCEPT !.ratios = @ - 1]})

AllPass == \A r \in DOMAIN evidence : evidence[r].pass

With(s, e) == [r \in DOMAIN evidence \cup {s} |-> IF r = s THEN e ELSE evidence[r]]

\* The next report; a budget that was missed is the last.
Measure ==
  /\ benchmark = "running" /\ AllPass
  /\ \E i \in DOMAIN Reports :
       /\ DOMAIN evidence = {Reports[j] : j \in 1 .. i - 1}
       /\ \E e \in {Sound(Reports[i])} \cup Flawed(Reports[i]) : evidence' = With(Reports[i], e)
  /\ UNCHANGED <<hostVars, step, sampled, benchmark, outcome, execution, sighted, orphan>>

\* It may fail at any time, a signal included, or may end in spite of one.
BenchmarkEnds ==
  /\ benchmark = "running"
  /\ benchmark' \in {"error"} \cup (IF AllPass /\ DOMAIN evidence = ToSet(Reports) THEN {"ok"} ELSE {})
  /\ UNCHANGED <<hostVars, step, sampled, outcome, execution, evidence, sighted, orphan>>

HostChanges ==
  /\ step \notin {"passed", "failed"}
  /\ busy' = ~busy
  /\ UNCHANGED <<leased, matching, step, sampled, benchmark, outcome, execution, evidence, sighted, orphan>>

-----------------------------------------------------------------------------
ComparisonInit ==
  /\ leased \in BOOLEAN
  /\ \E c \in RequiredChecks \cup {"none"} : matching = RequiredChecks \ {c}
  /\ step = "check"
  /\ sampled = 0
  /\ busy \in BOOLEAN
  /\ benchmark = "none"
  /\ contaminated = FALSE
  /\ exitCode = "none"
  /\ raised = FALSE
  /\ execution = {}
  /\ evidence = <<>>
  /\ sighted = FALSE
  /\ orphan = FALSE

ComparisonNext ==
  \/ CheckIdentity \/ PreflightSample \/ StartBenchmark \/ PollBenchmark \/ SampleHost
  \/ WaitForExit \/ Abandon \/ FinallyStop \/ RecordExecution \/ CutShort \/ Summarize
  \/ Measure \/ BenchmarkEnds \/ HostChanges

ComparisonSpec == ComparisonInit /\ [][ComparisonNext]_comparisonVars

-----------------------------------------------------------------------------
(* Correctness *)

\* "retaining host contamination": a comparison that passed measured two builds of
\* one compiler, one freeze file and one harness, on a host on which no sample, of
\* the preflight or of the run, shows a competitor, to the end of the matrix and
\* with all of its evidence in order; an execution.json that says 0 and clean says
\* no less of the host and the benchmark, whatever else befell the script; and a
\* script that ended leaves no benchmark behind unless it was cut short itself.
ComparisonSound ==
  /\ step = "passed" =>
       /\ {"dependencies", "compiler", "harness", "baseline"} \subseteq matching
       /\ ~sighted /\ benchmark = "ok"
       /\ evidence = [r \in ToSet(Reports) |-> Sound(r)]
  /\ \A x \in execution : x.code = "ok" /\ ~x.contaminated =>
       ~sighted /\ benchmark = "ok" /\ DOMAIN evidence = ToSet(Reports)
  /\ step \in {"passed", "failed"} /\ benchmark = "running" => orphan
=============================================================================
