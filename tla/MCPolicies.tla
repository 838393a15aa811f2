------------------------------ MODULE MCPolicies ------------------------------
(***************************************************************************)
(* Small instances of the checks a release passes through.  They share no  *)
(* state and are checked side by side: `part' says which of them a         *)
(* behaviour is of, the state of the others stays as it is.                *)
(*                                                                         *)
(* The evidence a check reads is varied from what is valid: Other...       *)
(* differs from it in one field, so that each bound below says in how many *)
(* fields at once.                                                         *)
(***************************************************************************)
EXTENDS RecordManifests, ReplayCheck, MappingGates, PackagePolicies, Preflight, Consumer, Comparison, TLC

VARIABLE part

-----------------------------------------------------------------------------
(* RecordManifests: declarations of keiro-dsl whose labels meet one rule of *)
(* target_names each.                                                       *)

SomeRecords == <<
  [manifest |-> "package", owner |-> "DispatchNode", kind |-> "data",
   labels |-> <<<<"disp", "target">>, <<"disposition">>>>],
  [manifest |-> "generated", owner |-> "MappingKey", kind |-> "data",
   labels |-> <<<<"mapping", "type">>, <<"mapping", "key", "path">>>>],
  [manifest |-> "generated", owner |-> "Context", kind |-> "newtype",
   labels |-> <<<<"un", "context">>>>]>>
SomeNew == {<<"key">>, <<"mapping", "spec">>}
SomeTokens == [DispatchNode |-> <<"dispatch", "node">>,
               MappingKey |-> <<"mapping", "key">>,
               Context |-> <<"context">>]
SomeSpellings(run) ==
  CASE run = <<"mapping">> -> {"mapping"}
    [] run = <<"mapping", "key">> -> {"mk", "mappingkey"}
    [] run = <<"key">> -> {"key"}
    [] run = <<"dispatch">> -> {"dispatch"}
    [] run = <<"dispatch", "node">> -> {"dn", "dispatchnode"}
    [] run = <<"node">> -> {"node"}
    [] OTHER -> {"context"}
SomePrefixes == [DispatchNode |-> "disp"]
SomeRest == <<"disp", "disposition">> :> "osition"
SomeExplicit == <<"MappingKey", <<"mapping", "spec">>>> :> <<"specification">>
SomeReserved == <<"type">> :> <<"value", "type">>

\* What each label of a declaration was made from: of any of these labels, in
\* any combination, the names are stable.
SomeOrigins == <<
  <<"disp", "target">> :> <<"disp", "target">> @@ <<"target">> :> <<"disp", "target">>
    @@ <<"disposition">> :> <<"disposition">> @@ <<"osition">> :> <<"disposition">>
    @@ [label \in SomeNew |-> label],
  <<"mapping", "type">> :> <<"mapping", "type">> @@ <<"value", "type">> :> <<"mapping", "type">>
    @@ <<"mapping", "key", "path">> :> <<"mapping", "key", "path">>
    @@ <<"key", "path">> :> <<"mapping", "key", "path">>
    @@ <<"specification">> :> <<"mapping", "spec">> @@ [label \in SomeNew |-> label],
  <<"un", "context">> :> <<"un", "context">> @@ [label \in SomeNew |-> label]>>

ASSUME SomeNamesStable == \A i \in DOMAIN SomeOrigins :
  \A labels \in SUBSET DOMAIN SomeOrigins[i] \ {{}} :
    TargetsStable(i, SomeOrigins[i],
                  SetToSeq({[label |-> l, was |-> NoLabel] : l \in labels}))

\* Not of all labels: beside a field keyOrder the adopted keyPath gets the target
\* path, and the row of keyPath is not looked up any more.
ASSUME SharedTokenUnstable ==
  LET order == <<"key", "order">>
      Field(l) == [label |-> l, was |-> NoLabel]
  IN ~TargetsStable(2, SomeOrigins[2] @@ (order :> order), <<Field(<<"key", "path">>), Field(order)>>)

-----------------------------------------------------------------------------
(* ReplayCheck: two cases of the first of two sources *)

Cases == {[id |-> "case1", surface |-> "state"], [id |-> "case2", surface |-> "timer"]}

ValidReport(role) ==
  [loads |-> TRUE, supported |-> TRUE, role |-> role, buildPair |-> "pair", inventoryId |-> "inventory",
   corpus |-> "corpus", contract |-> "contract", determinism |-> "inputs",
   marks |-> <<[stream |-> "stream", revision |-> 1]>>,
   selected |-> {c.surface : c \in Cases},
   results |-> SetToSeq({[case |-> c, verdict |-> "passed",
                          observation |-> CHOOSE o \in [Parts -> Observed] : ~Empty(o)] : c \in Cases})]

ValidInventory ==
  LET sources == SetToSeq(Inventoried) IN
    [loads |-> TRUE, supported |-> TRUE, buildPair |-> "pair", inventoryId |-> "inventory",
     contributions |-> [i \in DOMAIN sources |->
       [source |-> sources[i],
        status |-> IF i = 1 THEN "applicable" ELSE "not-applicable",
        reason |-> TRUE,
        cases |-> IF i = 1 THEN SetToSeq(Cases) ELSE <<>>]]]

VariedResults(r) ==
  {[r EXCEPT !.verdict = v] : v \in {"failed", "malformed"}}
    \cup {[r EXCEPT !.case.surface = c.surface] : c \in Cases}
    \cup {[r EXCEPT !.observation[p] = v] : p \in Parts, v \in Observed}

VariedReports(r) ==
  {[r EXCEPT !.loads = FALSE], [r EXCEPT !.supported = FALSE], [r EXCEPT !.role = "other"],
   [r EXCEPT !.buildPair = "other"], [r EXCEPT !.inventoryId = "other"],
   [r EXCEPT !.corpus = "other"], [r EXCEPT !.contract = "other"],
   [r EXCEPT !.determinism = "other"], [r EXCEPT !.marks = <<>>],
   [r EXCEPT !.marks = @ \o @]}
    \cup {[r EXCEPT !.marks[i].revision = 2] : i \in DOMAIN r.marks}
    \cup {[r EXCEPT !.selected = @ \ {s}] : s \in r.selected}
    \cup {[r EXCEPT !.results = RemoveAt(@, i)] : i \in DOMAIN r.results}
    \cup UNION {UNION {{[r EXCEPT !.results[i] = x], [r EXCEPT !.results = Append(@, x)]} :
                         x \in VariedResults(r.results[i])} : i \in DOMAIN r.results}

VariedContributions(c) ==
  {[c EXCEPT !.reason = FALSE], [c EXCEPT !.cases = <<>>], [c EXCEPT !.cases = SetToSeq(Cases)]}
    \cup {[c EXCEPT !.status = s] : s \in {"applicable", "not-applicable", "unverified", "malformed"}}
    \cup {[c EXCEPT !.cases[i].surface = d.surface] : i \in DOMAIN c.cases, d \in Cases}

VariedInventories(v) ==
  {[v EXCEPT !.loads = FALSE], [v EXCEPT !.supported = FALSE], [v EXCEPT !.buildPair = "other"]}
    \cup {[v EXCEPT !.contributions = RemoveAt(@, i)] : i \in DOMAIN v.contributions}
    \cup {[v EXCEPT !.contributions[i].source = "other"] : i \in DOMAIN v.contributions}
    \cup UNION {{[v EXCEPT !.contributions[i] = c] : c \in VariedContributions(v.contributions[i])} :
                  i \in DOMAIN v.contributions}

-----------------------------------------------------------------------------
(* MappingGates: the first three gates eligible on full evidence *)

SomeTree == [plan |-> {"text"}, vector |-> {"text"}, golden |-> {"text"}, reader |-> {"decode"}]

ValidGate == [result |-> "eligible", action |-> "not-performed", basis |-> TRUE,
              missing |-> FALSE, consumer |-> "hospital", blocked |-> TRUE, readers |-> TRUE]

ValidManifest ==
  [loads |-> TRUE, schema |-> TRUE,
   gates |-> [g \in Gates |-> ValidGate],
   policies |-> <<[identity |-> "p", status |-> "frozen", vectors |-> {"vector"}, goldens |-> {"golden"}]>>,
   retained |-> <<[role |-> "reader", path |-> "reader", anchor |-> "decode"]>>,
   plans |-> {"plan"},
   milestones |-> {"integratedCorpus", "evolutionMatrix", "consumerHistory", "retirementRehearsal"},
   history |-> [structured |-> TRUE, digests |-> Digests, patch |-> "patch", consumer |-> "hospital",
                private |-> FALSE, identical |-> TRUE, failures |-> 0, outbound |-> FALSE,
                checkpointBefore |-> 7, checkpointAfter |-> 7, deadLetters |-> 0,
                instances |-> 0, workflows |-> "not-applicable-empty-history"],
   rehearsal |-> [structured |-> TRUE, opaque |-> TRUE, patch |-> "patch",
                  passed |-> {"oldHistory", "processContinuation", "requiredReaderNegativeMutation"}]]

VariedGates(g) ==
  {[g EXCEPT !.result = r] : r \in {"pending", "ineligible", "done"}}
    \cup {[g EXCEPT !.action = "performed"], [g EXCEPT !.basis = FALSE], [g EXCEPT !.missing = TRUE],
          [g EXCEPT !.consumer = "other"], [g EXCEPT !.blocked = FALSE], [g EXCEPT !.readers = FALSE]}

VariedManifests(m) ==
  {[m EXCEPT !.loads = FALSE], [m EXCEPT !.schema = FALSE], [m EXCEPT !.plans = @ \cup {"absent"}],
   [m EXCEPT !.policies = <<>>], [m EXCEPT !.policies = @ \o @],
   [m EXCEPT !.retained = <<>>], [m EXCEPT !.retained = @ \o @]}
    \cup {[m EXCEPT !.gates = [h \in DOMAIN m.gates \ {g} |-> m.gates[h]]] : g \in DOMAIN m.gates}
    \cup UNION {{[m EXCEPT !.gates[g] = h] : h \in VariedGates(m.gates[g])} : g \in DOMAIN m.gates}
    \cup UNION {{[m EXCEPT !.policies[i].status = "draft"], [m EXCEPT !.policies[i].vectors = {}],
                 [m EXCEPT !.policies[i].goldens = {"absent"}]} : i \in DOMAIN m.policies}
    \cup UNION {{[m EXCEPT !.retained[i].path = "absent"], [m EXCEPT !.retained[i].path = "/abs"],
                 [m EXCEPT !.retained[i].anchor = "encode"]} : i \in DOMAIN m.retained}
    \cup {[m EXCEPT !.milestones = @ \ {s}] : s \in m.milestones}
    \cup {[m EXCEPT !.history = h] : h \in
           {[m.history EXCEPT !.structured = FALSE], [m.history EXCEPT !.digests = {}],
            [m.history EXCEPT !.patch = "other"], [m.history EXCEPT !.consumer = "other"],
            [m.history EXCEPT !.private = TRUE], [m.history EXCEPT !.identical = FALSE],
            [m.history EXCEPT !.failures = 1], [m.history EXCEPT !.outbound = TRUE],
            [m.history EXCEPT !.checkpointAfter = 8], [m.history EXCEPT !.deadLetters = 1],
            [m.history EXCEPT !.instances = 1], [m.history EXCEPT !.workflows = "passed"]}}
    \cup {[m EXCEPT !.rehearsal = r] : r \in
           {[m.rehearsal EXCEPT !.structured = FALSE], [m.rehearsal EXCEPT !.opaque = FALSE],
            [m.rehearsal EXCEPT !.patch = "other"], [m.rehearsal EXCEPT !.passed = @ \ {"oldHistory"}]}}

-----------------------------------------------------------------------------
(* PackagePolicies: one protected module, and every export list of it of at *)
(* most four of some items, and then at most one other change.  One of the  *)
(* items does not close its parenthesis, one is a comment.                  *)

Items == {
  <<"PreparedMove">>, <<"type", "PreparedMove">>, <<"PreparedMove", "(", ")">>,
  <<"PreparedMove", "(", "Move", ",", "moved", ")">>, <<"movePath">>, <<>>, <<"(">>, <<"{-">>}

Joined(items) ==
  IF items = <<>> THEN <<>>
  ELSE Tail(FlattenSeq([i \in DOMAIN items |-> <<",">> \o items[i]]))

SomeExports == {Joined(items) : items \in UNION {[1 .. n -> Items] : n \in 0 .. 4}}

\* All of them are of the form that lists which compile have.
ASSUME SomeWellFormed == \A tokens \in SomeExports : WellFormed(tokens)

SomeProtected == [SidecarMigration |-> [abstract |-> {"PreparedMove"}, required |-> {"movePath"}]]

SomePackages ==
  [libraries |-> <<[exposed |-> <<"SidecarMigration">>]>>,
   privates |-> <<[exposed |-> <<"GeneratedHaskellLanguage">>, visibility |-> <<"private">>,
                   dirs |-> <<"internal">>]>>,
   internal |-> TRUE,
   sources |-> [SidecarMigration |->
     [formatted |-> TRUE, name |-> "SidecarMigration", exports |-> <<"PreparedMove", ",", "movePath">>]],
   core |-> {"Keiro.Inbox", "Keiro.Outbox"},
   reexports |-> {<<"keiro-core", "Keiro.Inbox">>},
   emitted |-> {"Keiro.Inbox", "Keiro.Dsl"},
   allowed |-> {}]

VariedSources(sources) ==
  {<<>>} \cup
  {[m \in DOMAIN sources |-> [sources[m] EXCEPT !.exports = ts]] :
     ts \in IF sources = SomePackages.sources THEN SomeExports ELSE {}} \cup
  {[m \in DOMAIN sources |-> [sources[m] EXCEPT !.formatted = FALSE]],
   [m \in DOMAIN sources |-> [sources[m] EXCEPT !.name = "Other"]]}

VariedPrivates(ps) ==
  {<<>>, ps \o ps}
  \cup UNION {{[ps EXCEPT ![i].exposed = <<>>], [ps EXCEPT ![i].exposed = @ \o @],
              [ps EXCEPT ![i].visibility = <<"public">>], [ps EXCEPT ![i].dirs = <<"src">>]} :
               i \in DOMAIN ps}

VariedLibraries(ls) ==
  {<<>>, ls \o ls}
  \cup UNION {{[ls EXCEPT ![i].exposed = <<>>],
              [ls EXCEPT ![i].exposed = Append(@, "GeneratedHaskellLanguage")]} : i \in DOMAIN ls}

VariedPackages(p) ==
  {[p EXCEPT !.sources = s] : s \in VariedSources(p.sources)}
  \cup {[p EXCEPT !.privates = ps] : ps \in VariedPrivates(p.privates)}
  \cup {[p EXCEPT !.libraries = ls] : ls \in VariedLibraries(p.libraries)}
  \cup {[p EXCEPT !.internal = FALSE],
        [p EXCEPT !.core = @ \ {"Keiro.Inbox"}],
        [p EXCEPT !.reexports = {}], [p EXCEPT !.reexports = {<<"keiro-pgmq", "Keiro.Inbox">>}],
        [p EXCEPT !.emitted = @ \cup {"Keiro.Outbox"}],
        [p EXCEPT !.allowed = {"Keiro.Outbox"}]}

-----------------------------------------------------------------------------
(* Preflight: the library of a package of ours uses our private library, it *)
(* and our executable use what is from the registry; a test does too.       *)

Unit(own, component, installed, from, depends) ==
  [ours |-> own, component |-> component, installed |-> installed, source |-> from,
   depends |-> depends]

PlanOf(from, last) ==
  [lib |-> Unit(TRUE, "lib", FALSE, "local", <<"private", "aeson">>),
   private |-> Unit(TRUE, "lib:private", FALSE, "local", <<"hasql", "base">>),
   exe |-> Unit(TRUE, "exe", FALSE, "local", <<"lib">>),
   test |-> Unit(TRUE, "test", FALSE, "local", <<"tasty", "lib">>),
   aeson |-> Unit(FALSE, "lib", FALSE, "hackage", last),
   hasql |-> Unit(FALSE, "lib", FALSE, from, <<"base">>),
   tasty |-> Unit(FALSE, "lib", FALSE, "git", <<>>),
   base |-> Unit(FALSE, "lib", TRUE, "none", <<>>)]

Blueprint(local, remote) == [known |-> TRUE, edited |-> FALSE, local |-> local, remote |-> remote]

WorkspaceOf(tags, blueprint, units, hasql) ==
  [versions |-> <<4, 4>>, static |-> TRUE, tags |-> tags, current |-> 4,
   migrations |-> {[from |-> 1, to |-> 2, entails |-> {"old"}],
                   [from |-> 3, to |-> 4, entails |-> {"kiroku"}]},
   blueprints |-> [old |-> Blueprint(1, 2), kiroku |-> blueprint],
   units |-> [u \in DOMAIN units |-> [package |-> u] @@ units[u]],
   registry |-> [p \in DOMAIN units |-> IF p = "hasql" THEN hasql ELSE "normal"]]

SomeWorkspaces ==
  {WorkspaceOf(tags, blueprint, PlanOf(from, last), hasql) :
     tags \in {{}, {1, 3}, {3, 5}, {1}},
     blueprint \in {Blueprint(1, 1), Blueprint(1, 2), [Blueprint(1, 1) EXCEPT !.edited = TRUE]},
     from \in {"hackage", "git"},
     last \in {<<>>, <<"hasql", "aeson">>},
     hasql \in {"normal", "deprecated"}}
  \cup {[WorkspaceOf({3}, Blueprint(1, 1), PlanOf("hackage", <<>>), "normal") EXCEPT !.static = FALSE],
        [WorkspaceOf({3}, Blueprint(1, 1), PlanOf("hackage", <<>>), "normal") EXCEPT !.versions[2] = 3],
        [WorkspaceOf({3}, Blueprint(1, 1), [tasty |-> PlanOf("hackage", <<>>).tasty], "normal")
           EXCEPT !.static = TRUE]}

-----------------------------------------------------------------------------
(* Consumer: plans of two packages and a dependency of theirs *)

Entry(name, version, type, from, uri) ==
  [name |-> name, version |-> version, type |-> type, source |-> from, uri |-> uri]

PlanEntries(m) ==
  LET hackage == "https://hackage.haskell.org/"
      Candidate(name) == IF m = "staged" THEN Entry(name, 4, "configured", "local-tar", "none")
                    ELSE Entry(name, 4, "configured", "repo-tar", hackage)
  IN <<Candidate("keiro"), Candidate("keiro-core"), Entry("aeson", 2, "configured", "repo-tar", hackage),
       Entry("base", 4, "pre-existing", "none", "none"),
       Entry("release-consumer", 0, "configured", "local", "none")>>

SomePlans(m) == LET entries == PlanEntries(m) IN
  {entries}
    \cup {RemoveAt(entries, i) : i \in DOMAIN entries}
    \cup {[entries EXCEPT ![i].version = 3] : i \in DOMAIN entries}
    \cup {[entries EXCEPT ![i].source = s] : i \in DOMAIN entries, s \in {"local-tar", "repo-tar", "source-repo"}}
    \cup {[entries EXCEPT ![i].uri = "http://hackage.haskell.org/"] : i \in DOMAIN entries}
    \cup {Append(entries, [entries[i] EXCEPT !.version = 3]) : i \in DOMAIN entries}

-----------------------------------------------------------------------------
(* Comparison: one report of each kind *)

SomeReports == <<"refactor", "fixed-arrival", "sustained">>

-----------------------------------------------------------------------------
Init ==
  /\ part \in {"records", "replay", "mapping", "packages", "preflight", "consumer", "comparison"}
  /\ RecordsInit
  /\ ReplayInit /\ (part # "replay" => requireAll)
  /\ MappingInit
  /\ PackagesInit
  /\ PreflightInit
  /\ (part # "preflight" => found = CHOOSE w \in SomeWorkspaces : TRUE)
  /\ ConsumerInit /\ (part # "consumer" => mode = "staged")
  /\ ComparisonInit /\ (part # "comparison" => leased /\ ~busy /\ matching = RequiredChecks)

Next ==
  /\ UNCHANGED part
  /\ \/ /\ part = "records" /\ RecordsNext
        /\ UNCHANGED <<replayVars, mappingVars, packageVars, preflightVars, consumerVars, comparisonVars>>
     \/ /\ part = "replay" /\ ReplayNext
        /\ UNCHANGED <<recordVars, mappingVars, packageVars, preflightVars, consumerVars, comparisonVars>>
     \/ /\ part = "mapping" /\ MappingNext
        /\ UNCHANGED <<recordVars, replayVars, packageVars, preflightVars, consumerVars, comparisonVars>>
     \/ /\ part = "packages" /\ PackagesNext
        /\ UNCHANGED <<recordVars, replayVars, mappingVars, preflightVars, consumerVars, comparisonVars>>
     \/ /\ part = "preflight" /\ PreflightNext
        /\ UNCHANGED <<recordVars, replayVars, mappingVars, packageVars, consumerVars, comparisonVars>>
     \/ /\ part = "consumer" /\ ConsumerNext
        /\ UNCHANGED <<recordVars, replayVars, mappingVars, packageVars, preflightVars, comparisonVars>>
     \/ /\ part = "comparison" /\ ComparisonNext
        /\ UNCHANGED <<recordVars, replayVars, mappingVars, packageVars, preflightVars, consumerVars>>

Spec ==
  Init /\ [][Next]_<<part, recordVars, replayVars, mappingVars, packageVars, preflightVars,
                     consumerVars, comparisonVars>>
=============================================================================
