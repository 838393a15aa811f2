----------------------------- MODULE ReplayCheck -----------------------------
(***************************************************************************)
(* The replay-compatibility gate (scripts/check-replay-compatibility.py):  *)
(* an inventory says which cases a new version must replay, two reports    *)
(* say what the baseline and the candidate observed, and the script        *)
(* decides whether the candidate may follow the baseline.                  *)
(*                                                                         *)
(* A case is its identity and its surface, the part of it a report could   *)
(* give another meaning.  An observation is a function of its four parts;  *)
(* what is in a part is a value, "nothing" if it is empty.  Errors are a   *)
(* set of words.  Wrong shapes inside of a file are left out, except for   *)
(* the values a broken one is read as.                                     *)
(***************************************************************************)
EXTENDS Integers, Sequences, SequencesExt

CONSTANTS
  Inventoried,  \* INVENTORY_SOURCES
  Parts,        \* durableState, continuations, durableIdentities, freshAllocations
  Observed,     \* what an observation can have in a part
  GoodInventory,
  GoodReport(_),        \* valid evidence: the inventory, and a report for a role
  OtherInventories(_),
  OtherReports(_),      \* evidence that differs from some in one field
  MaxVaried             \* bound: how many fields differ from the valid evidence

ASSUME ReplayOK ==
  /\ "nothing" \in Observed
  /\ MaxVaried \in Nat

VARIABLES
  inventory,
  baseline,   \* the baseline's report
  candidate,  \* and the candidate's
  requireAll, \* --require-all
  replay,     \* of the last check: "none", "pass" or "fail"
  varied      \* how many fields differ

replayVars == <<inventory, baseline, candidate, requireAll, replay, varied>>

\* The words of S for which the test is true.
Errors(S) == {e[1] : e \in {x \in S : x[2]}}

\* indexed: a repeated key is an error; the first item keeps it.
Repeats(keys) == \E i, j \in DOMAIN keys : i # j /\ keys[i] = keys[j]
FirstOf(items, keys, k) ==
  items[CHOOSE i \in DOMAIN keys :
          keys[i] = k /\ \A j \in DOMAIN keys \ {i} : keys[j] = k => i < j]

SourcesOf(contributions) == [i \in DOMAIN contributions |-> contributions[i].source]
CaseIdsOf(results) == [i \in DOMAIN results |-> results[i].case.id]
StreamsOf(marks) == [i \in DOMAIN marks |-> marks[i].stream]

-----------------------------------------------------------------------------
(* load_json: the file is there and is one JSON object without a repeated key. *)
Loads(file) == file.loads

-----------------------------------------------------------------------------
(* validate_inventory *)

\* One contribution: its cases must fit its applicability.
ContributionErrors(c) == Errors({
  <<"unverified", c.status = "unverified">>,
  <<"applicable without cases", c.status = "applicable" /\ c.cases = <<>>>>,
  <<"no reason", c.status = "not-applicable" /\ ~c.reason>>,
  <<"cases of what does not apply", c.status = "not-applicable" /\ c.cases # <<>>>>,
  <<"unsupported applicability",
    c.status \notin {"applicable", "not-applicable", "unverified"}>>})

\* The contribution of each source, the first if it is repeated.
Contributions(inv) ==
  LET sources == SourcesOf(inv.contributions)
  IN  {FirstOf(inv.contributions, sources, s) : s \in ToSet(sources)}

Declared(inv) == UNION {ToSet(c.cases) : c \in Contributions(inv)}

\* The required cases: of conflicting definitions one is kept.
Required(inv) ==
  {CHOOSE c \in Declared(inv) : c.id = id : id \in {c.id : c \in Declared(inv)}}

InventoryErrors(inv, all) ==
  Errors({
    <<"unsupported inventory version", ~inv.supported>>,
    <<"repeated source", Repeats(SourcesOf(inv.contributions))>>,
    <<"omitted source", all /\ ~(Inventoried \subseteq ToSet(SourcesOf(inv.contributions)))>>,
    <<"unsupported source", all /\ ~(ToSet(SourcesOf(inv.contributions)) \subseteq Inventoried)>>,
    <<"conflicting definitions", \E c, d \in Declared(inv) : c.id = d.id /\ c # d>>,
    <<"no required cases", all /\ Required(inv) = {}>>})
  \cup UNION {ContributionErrors(c) : c \in Contributions(inv)}

-----------------------------------------------------------------------------
(* validate_report *)

\* observation_empty
Empty(observation) == \A p \in Parts : observation[p] = "nothing"

Reported(report) == ToSet(CaseIdsOf(report.results))
ResultOf(report, id) == FirstOf(report.results, CaseIdsOf(report.results), id)

\* Surfaces are compared as a whole: whatever the order of their fields, they are
\* written in one way (canonical).
Selects(report, case) == case.surface \in report.selected

\* Mutant: the definition a result repeats is not compared.
CaseErrors_AnyDefinition(report, case) ==
  IF case.id \notin Reported(report) THEN {"omitted case"}
  ELSE LET result == ResultOf(report, case.id) IN Errors({
    <<"omitted surface", ~Selects(report, case)>>,
    <<"not passed", result.verdict # "passed">>,
    <<"empty observation", result.verdict = "passed" /\ Empty(result.observation)>>})

\* Whether a report shows a required case as it was required.
CaseErrors(report, case) ==
  IF case.id \notin Reported(report) THEN {"omitted case"}
  ELSE LET result == ResultOf(report, case.id) IN Errors({
    <<"changed definition", result.case # case>>,
    <<"omitted surface", ~Selects(report, case)>>,
    <<"not passed", result.verdict # "passed">>,
    <<"empty observation", result.verdict = "passed" /\ Empty(result.observation)>>})

\* Without --require-all only the cases a report has are looked at.
ReportErrors(report, role, inv, all) ==
  Errors({
    <<"unsupported report version", ~report.supported>>,
    <<"wrong role", report.role # role>>,
    <<"other build pair", report.buildPair # inv.buildPair>>,
    <<"other inventory", report.inventoryId # inv.inventoryId>>,
    <<"no marks", report.marks = <<>>>>,
    <<"repeated mark", Repeats(StreamsOf(report.marks))>>,
    <<"repeated result", Repeats(CaseIdsOf(report.results))>>})
  \cup UNION {CaseErrors(report, c) :
                c \in {r \in Required(inv) : all \/ r.id \in Reported(report)}}

-----------------------------------------------------------------------------
(* compare_reports *)

\* first_difference, of two observations.
Differ(old, new) == \E p \in Parts : old[p] # new[p]

\* The cases whose observations are compared; without --require-all also ones
\* the inventory does not have.
Compared(old, new, inv, all) ==
  IF all THEN {c.id : c \in Required(inv)} ELSE Reported(old) \cap Reported(new)

CompareErrors(old, new, inv, all) ==
  LET ids == Compared(old, new, inv, all) IN Errors({
    <<"corpora differ", old.corpus # new.corpus>>,
    <<"contracts differ", old.contract # new.contract>>,
    <<"determinism inputs differ", old.determinism # new.determinism>>,
    <<"marks differ", ToSet(old.marks) # ToSet(new.marks)>>,
    <<"no matched cases", ids = {}>>,
    <<"divergence", \E id \in ids \cap Reported(old) \cap Reported(new) :
        Differ(ResultOf(old, id).observation, ResultOf(new, id).observation)>>})

\* check
ReplayErrors(old, new, inv, all) ==
  InventoryErrors(inv, all)
    \cup ReportErrors(old, "baseline", inv, all)
    \cup ReportErrors(new, "candidate", inv, all)
    \cup CompareErrors(old, new, inv, all)

\* main
ReplayVerdict(old, new, inv, all) ==
  IF (\A file \in {old, new, inv} : Loads(file)) /\ ReplayErrors(old, new, inv, all) = {}
  THEN "pass" ELSE "fail"

-----------------------------------------------------------------------------
(* The evidence: valid, but for at most MaxVaried fields *)

ReplayInit ==
  /\ inventory = GoodInventory
  /\ baseline = GoodReport("baseline")
  /\ candidate = GoodReport("candidate")
  /\ requireAll \in BOOLEAN
  /\ replay = "none"
  /\ varied = 0

\* The evidence comes out otherwise in one field.
Vary ==
  /\ varied < MaxVaried
  /\ varied' = varied + 1
  /\ replay' = "none"
  /\ \/ inventory' \in OtherInventories(inventory) /\ UNCHANGED <<baseline, candidate>>
     \/ baseline' \in OtherReports(baseline) /\ UNCHANGED <<inventory, candidate>>
     \/ candidate' \in OtherReports(candidate) /\ UNCHANGED <<inventory, baseline>>
  /\ UNCHANGED requireAll

CheckReplay ==
  /\ replay' = ReplayVerdict(baseline, candidate, inventory, requireAll)
  /\ UNCHANGED <<inventory, baseline, candidate, requireAll, varied>>

ReplayNext == Vary \/ CheckReplay

ReplaySpec == ReplayInit /\ [][ReplayNext]_replayVars

-----------------------------------------------------------------------------
(* Correctness *)

\* The case was replayed as it is defined, and something was observed.
Replayed(report, case) ==
  \E i \in DOMAIN report.results :
    /\ report.results[i].case = case
    /\ report.results[i].verdict = "passed"
    /\ \E p \in Parts : report.results[i].observation[p] # "nothing"

\* Both replayed it and no part of any two observations of it differs.
Compatible(old, new, case) ==
  /\ Replayed(old, case)
  /\ Replayed(new, case)
  /\ \A i \in DOMAIN old.results, j \in DOMAIN new.results :
       old.results[i].case.id = case.id /\ new.results[j].case.id = case.id
       => \A p \in Parts : old.results[i].observation[p] = new.results[j].observation[p]

\* A passing check is about the same corpus, and compares what two builds
\* observed; with --require-all every case that any contribution lists was
\* replayed by both with the same outcome, and every source was heard.
ReplaySound ==
  replay = "pass" =>
    /\ baseline.corpus = candidate.corpus
    /\ ToSet(baseline.marks) = ToSet(candidate.marks)
    /\ \E c \in Reported(baseline) : c \in Reported(candidate)
    /\ requireAll =>
         /\ Inventoried = {inventory.contributions[i].source : i \in DOMAIN inventory.contributions}
         /\ \A i \in DOMAIN inventory.contributions :
              /\ inventory.contributions[i].status # "unverified"
              /\ \A j \in DOMAIN inventory.contributions[i].cases :
                   Compatible(baseline, candidate, inventory.contributions[i].cases[j])
=============================================================================
