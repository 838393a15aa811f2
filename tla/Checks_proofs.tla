---------------------------- MODULE Checks_proofs ----------------------------
(***************************************************************************)
(* What a release check that passes has shown, for whatever evidence it    *)
(* is given: the gates of the checked mappings, the replay-compatibility   *)
(* gate, the preflight, the policies of the packages and the manifests of  *)
(* the record fields.                                                      *)
(***************************************************************************)
EXTENDS MappingGates, ReplayCheck, PackagePolicies, RecordManifests, Preflight, FiniteSetTheorems,
        SequenceTheorems, WellFoundedInduction, TLAPS

-----------------------------------------------------------------------------
(* MappingGates: a verdict is about the manifest and the tree it was given *)

MappingChecked == release = "pass" => ManifestLoads /\ MappingErrors = {}

\* A check without errors has found none of its tests true.
LEMMA NoneWrong ==
  ASSUME NEW S, Wrong(S) = {}
  PROVE  \A x \in S : ~x[2]
BY DEF Wrong

\* What is not among the unusable paths is a file of the tree.
LEMMA UsableAreFiles ==
  ASSUME NEW P, Unusable(P) = {}
  PROVE  P \subseteq DOMAIN tree
BY DEF Unusable

\* A manifest in which the tests that hold of any manifest find nothing.
LEMMA RepositoryShows ==
  ASSUME RepositoryErrors = {}
  PROVE  /\ \A name \in Gates : manifest.gates[name].action = "not-performed"
         /\ \A i \in DOMAIN manifest.retained :
              /\ manifest.retained[i].path \in DOMAIN tree
              /\ manifest.retained[i].anchor \in tree[manifest.retained[i].path]
         /\ RepositoryPaths \subseteq DOMAIN tree
<1>1. ASSUME NEW name \in Gates
      PROVE  manifest.gates[name].action = "not-performed"
  <2> DEFINE g == manifest.gates[name]
             S == {<<"unsupported result", g.result \notin {"eligible", "pending", "ineligible"}>>,
                   <<"performed", g.action # "not-performed">>,
                   <<"no basis", ~g.basis>>}
  <2>1. GateErrors = {}  BY DEF RepositoryErrors
  <2>2. Wrong(S) = {}  BY <2>1, <1>1 DEF GateErrors
  <2>3. <<"performed", g.action # "not-performed">> \in S  OBVIOUS
  <2>4. ~<<"performed", g.action # "not-performed">>[2]  BY <2>2, <2>3, NoneWrong
  <2> QED  BY <2>4
<1>2. ASSUME NEW i \in DOMAIN manifest.retained
      PROVE  /\ manifest.retained[i].path \in DOMAIN tree
             /\ manifest.retained[i].anchor \in tree[manifest.retained[i].path]
  <2> DEFINE r == manifest.retained[i]
             t1 == <<"no path", Unusable({r.path}) # {}>>
             t2 == <<"no anchor", r.path \in DOMAIN tree /\ r.anchor \notin tree[r.path]>>
  <2>1. RetainedErrors = {}  BY DEF RepositoryErrors
  <2>2. r \in ToSet(manifest.retained)  BY <1>2 DEF ToSet
  <2>3. Wrong({t1, t2}) = {}  BY <2>1, <2>2 DEF RetainedErrors
  <2>4. ~t1[2] /\ ~t2[2]
    <3> HIDE DEF t1, t2
    <3> QED  BY <2>3, NoneWrong
  <2>5. Unusable({r.path}) = {}  BY <2>4
  <2>6. r.path \in DOMAIN tree  BY <2>5, UsableAreFiles
  <2> QED  BY <2>4, <2>6
<1>3. RepositoryPaths \subseteq DOMAIN tree
  <2> DEFINE t == <<"evidence path", Unusable(RepositoryPaths) # {}>>
             s == <<"unsupported schema", ~manifest.schema>>
  <2>1. Wrong({s, t}) = {}  BY DEF RepositoryErrors
  <2>2. ~t[2]
    <3> HIDE DEF s, t
    <3> QED  BY <2>1, NoneWrong
  <2>3. Unusable(RepositoryPaths) = {}  BY <2>2
  <2> QED  BY <2>3, UsableAreFiles
<1> QED  BY <1>1, <1>2, <1>3

\* A consumer-adoption gate whose evidence has no errors.
LEMMA AdoptionShows ==
  ASSUME AdoptionErrors = {}
  PROVE  HistoryProven
<1> DEFINE h == manifest.history
           gate == manifest.gates["consumer-adoption"]
           expected == IF h.instances = 0 THEN "not-applicable-empty-history" ELSE "passed"
           missing == <<"no history", "consumerHistory" \notin manifest.milestones>>
           evidence == <<"missing evidence", gate.missing>>
           structured == <<"unstructured history", ~h.structured>>
<1>1. Wrong({missing, evidence, structured}) = {}
  BY DEF AdoptionErrors
<1>2. ~structured[2]
  <2> HIDE DEF missing, evidence, structured
  <2> QED  BY <1>1, NoneWrong
<1>3. h.structured
  BY <1>2
<1>4. HistoryErrors = {}
  BY <1>3 DEF AdoptionErrors
<1> DEFINE t1 == <<"invalid digest", h.digests # Digests>>
           t2 == <<"other consumer", h.consumer # gate.consumer>>
           t3 == <<"private payloads", h.private>>
           t4 == <<"reports differ", ~h.identical>>
           t5 == <<"unexpected failures", h.failures # 0>>
           t6 == <<"outbound effects", h.outbound>>
           t7 == <<"checkpoint not restored", h.checkpointAfter # h.checkpointBefore>>
           t8 == <<"dead letters", h.deadLetters # 0>>
           t9 == <<"workflow result", h.workflows # expected>>
<1>5. Wrong({t1, t2, t3, t4, t5, t6, t7, t8, t9}) = {}
  BY <1>4 DEF HistoryErrors
<1>6. ~t2[2] /\ ~t3[2] /\ ~t4[2] /\ ~t5[2] /\ ~t6[2] /\ ~t7[2] /\ ~t8[2] /\ ~t9[2]
  <2> HIDE DEF t1, t2, t3, t4, t5, t6, t7, t8, t9
  <2> QED  BY <1>5, NoneWrong
<1>7. /\ h.consumer = gate.consumer
      /\ ~h.private /\ h.identical /\ h.failures = 0 /\ ~h.outbound
      /\ h.checkpointAfter = h.checkpointBefore /\ h.deadLetters = 0
      /\ h.workflows = expected
  BY <1>6
<1>8. h.instances > 0 => h.workflows = "passed"
  <2>1. h.instances > 0 => h.instances # 0  OBVIOUS
  <2> QED  BY <1>7, <2>1
<1> QED  BY <1>3, <1>7, <1>8 DEF HistoryProven

\* A retirement gate whose evidence has no errors, when the consumer's has none.
LEMMA RetirementShows ==
  ASSUME RetirementErrors = {}, Eligible("consumer-adoption") => HistoryProven
  PROVE  /\ HistoryProven
         /\ manifest.rehearsal.patch = manifest.history.patch
         /\ manifest.rehearsal.passed # {}
<1> DEFINE r == manifest.rehearsal
           adoption == <<"adoption not eligible", ~Eligible("consumer-adoption")>>
           missing == <<"no rehearsal", "retirementRehearsal" \notin manifest.milestones>>
           structured == <<"unstructured rehearsal", ~r.structured>>
<1>1. Wrong({adoption, missing, structured}) = {}
  BY DEF RetirementErrors
<1>2. ~adoption[2] /\ ~structured[2]
  <2> HIDE DEF adoption, missing, structured
  <2> QED  BY <1>1, NoneWrong
<1>3. HistoryProven /\ r.structured
  BY <1>2
<1>4. RehearsalErrors = {}
  BY <1>3 DEF RetirementErrors
<1> DEFINE done == {"oldHistory", "processContinuation", "requiredReaderNegativeMutation"}
           patch == IF manifest.history.structured THEN manifest.history.patch ELSE "none"
           t1 == <<"rehearsal", r.passed # done>>
           t2 == <<"generic support", ~r.opaque>>
           t3 == <<"other patch", r.patch # patch>>
<1>5. Wrong({t1, t2, t3}) = {}
  BY <1>4 DEF RehearsalErrors
<1>6. ~t1[2] /\ ~t3[2]
  <2> HIDE DEF t1, t2, t3
  <2> QED  BY <1>5, NoneWrong
<1>7. r.passed = done /\ r.patch = patch
  BY <1>6
<1>8. manifest.history.structured
  BY <1>3 DEF HistoryProven
<1> QED  BY <1>3, <1>7, <1>8

\* The verdict of one check.
LEMMA MappingShows ==
  ASSUME MappingErrors = {}
  PROVE  /\ \A name \in Gates : manifest.gates[name].action = "not-performed"
         /\ \A i \in DOMAIN manifest.retained :
              /\ manifest.retained[i].path \in DOMAIN tree
              /\ manifest.retained[i].anchor \in tree[manifest.retained[i].path]
         /\ Eligible("language-publication") =>
              /\ Eligible("package-release")
              /\ RepositoryPaths \subseteq DOMAIN tree
         /\ Eligible("consumer-adoption") => HistoryProven
         /\ Eligible("implementation-retirement") =>
              /\ HistoryProven
              /\ manifest.rehearsal.patch = manifest.history.patch
              /\ manifest.rehearsal.passed # {}
              /\ manifest.gates["implementation-retirement"].readers
<1> DEFINE a == manifest.gates["consumer-adoption"]
           b == manifest.gates["implementation-retirement"]
           t1 == <<"pending adoption", Pending("consumer-adoption") /\ ~a.missing>>
           t2 == <<"pending retirement", Pending("implementation-retirement") /\ ~b.blocked>>
           t3 == <<"legacy readers", ~b.readers>>
<1>1. DOMAIN manifest.gates = Gates
  BY DEF MappingErrors
<1>2. /\ RepositoryErrors = {}
      /\ Eligible("language-publication") => PublicationErrors = {}
      /\ Eligible("consumer-adoption") => AdoptionErrors = {}
      /\ Eligible("implementation-retirement") => RetirementErrors = {}
      /\ Wrong({t1, t2, t3}) = {}
  BY <1>1 DEF MappingErrors
<1>3. b.readers
  <2>1. ~t3[2]
    <3> HIDE DEF t1, t2, t3
    <3> QED  BY <1>2, NoneWrong
  <2> QED  BY <2>1
<1>4. ASSUME Eligible("language-publication")  PROVE  Eligible("package-release")
  <2> DEFINE p1 == <<"package not eligible", ~Eligible("package-release")>>
             p2 == <<"no corpus or matrix",
                     ~({"integratedCorpus", "evolutionMatrix"} \subseteq manifest.milestones)>>
  <2>1. Wrong({p1, p2}) = {}  BY <1>2, <1>4 DEF PublicationErrors
  <2>2. ~p1[2]
    <3> HIDE DEF p1, p2
    <3> QED  BY <2>1, NoneWrong
  <2> QED  BY <2>2
<1>5. Eligible("consumer-adoption") => HistoryProven
  BY <1>2, AdoptionShows
<1>6. Eligible("implementation-retirement") =>
        /\ HistoryProven
        /\ manifest.rehearsal.patch = manifest.history.patch
        /\ manifest.rehearsal.passed # {}
  BY <1>2, <1>5, RetirementShows
<1> QED  BY <1>2, <1>3, <1>4, <1>5, <1>6, RepositoryShows

\* Whatever the manifest and the tree: when the gates pass, a later gate is eligible only
\* on the earlier ones, on a history proven with the same candidate, and nothing is gone.
THEOREM MappingIsSound == MappingSpec => []MappingSound
<1>1. MappingInit => MappingChecked
  BY DEF MappingInit, MappingChecked
<1>2. MappingChecked /\ [MappingNext]_mappingVars => MappingChecked'
  <2> SUFFICES ASSUME MappingChecked, [MappingNext]_mappingVars  PROVE MappingChecked'
    OBVIOUS
  <2>1. CASE ReviseManifest
    BY <2>1 DEF ReviseManifest, MappingChecked
  <2>2. ASSUME NEW p \in DOMAIN tree, ReviseTree(p)  PROVE MappingChecked'
    BY <2>2 DEF ReviseTree, MappingChecked
  <2>3. ASSUME UNCHANGED <<manifest, tree>>
        PROVE  (ManifestLoads /\ MappingErrors = {})' = (ManifestLoads /\ MappingErrors = {})
    BY <2>3 DEF ManifestLoads, MappingErrors, RepositoryErrors, GateErrors, PolicyErrors,
      RetainedErrors, RepositoryPaths, Unusable, Eligible, Pending, PublicationErrors,
      AdoptionErrors, HistoryErrors, RetirementErrors, RehearsalErrors
  <2>4. CASE CheckMapping
    BY <2>3, <2>4 DEF CheckMapping, MappingChecked
  <2>5. CASE UNCHANGED mappingVars
    BY <2>3, <2>5 DEF mappingVars, MappingChecked
  <2> QED  BY <2>1, <2>2, <2>4, <2>5 DEF MappingNext
<1>3. MappingChecked => MappingSound
  BY MappingShows DEF MappingChecked, MappingSound
<1> QED  BY <1>1, <1>2, <1>3, PTL DEF MappingSpec
-----------------------------------------------------------------------------
(* ReplayCheck: a verdict is about the evidence there is *)

ReplayChecked ==
  replay = "pass" => ReplayErrors(baseline, candidate, inventory, requireAll) = {}

\* A check without errors has found none of its tests true.
LEMMA NoErrors ==
  ASSUME NEW S, Errors(S) = {}
  PROVE  \A x \in S : ~x[2]
BY DEF Errors

\* Without a repeated key, what a key finds is the one item that has it.
LEMMA UniqueIsFirst ==
  ASSUME NEW items, NEW keys, ~Repeats(keys), NEW i \in DOMAIN keys
  PROVE  FirstOf(items, keys, keys[i]) = items[i]
<1> DEFINE First(j) == keys[j] = keys[i] /\ \A h \in DOMAIN keys \ {j} : keys[h] = keys[i] => j < h
<1>1. \A j \in DOMAIN keys : keys[j] = keys[i] => j = i
  BY DEF Repeats
<1>2. First(i)
  BY <1>1
<1>3. \A j \in DOMAIN keys : First(j) => j = i
  BY <1>1
<1>4. (CHOOSE j \in DOMAIN keys : First(j)) = i
  <2> HIDE DEF First
  <2> QED  BY <1>2, <1>3
<1> QED  BY <1>4 DEF FirstOf

\* What a report without repeated results has about a case is what each result of the
\* case says.
LEMMA ResultIsUnique ==
  ASSUME NEW report, ~Repeats(CaseIdsOf(report.results)), NEW i \in DOMAIN report.results
  PROVE  ResultOf(report, report.results[i].case.id) = report.results[i]
<1> DEFINE keys == CaseIdsOf(report.results)
<1>1. ~Repeats(keys) /\ i \in DOMAIN keys /\ keys[i] = report.results[i].case.id
  BY DEF CaseIdsOf
<1>2. FirstOf(report.results, keys, keys[i]) = report.results[i]
  <2> HIDE DEF keys
  <2> QED  BY <1>1, UniqueIsFirst
<1> QED  BY <1>1, <1>2 DEF ResultOf

\* A report without an error about a case has replayed it as it is required.
LEMMA CaseShows ==
  ASSUME NEW report, ~Repeats(CaseIdsOf(report.results)), NEW case, CaseErrors(report, case) = {}
  PROVE  case.id \in Reported(report) /\ Replayed(report, case)
<1>1. case.id \in Reported(report)
  BY DEF CaseErrors
<1>2. PICK i \in DOMAIN report.results : report.results[i].case.id = case.id
  BY <1>1 DEF Reported, CaseIdsOf, ToSet
<1> DEFINE result == report.results[i]
           t1 == <<"changed definition", result.case # case>>
           t2 == <<"omitted surface", ~Selects(report, case)>>
           t3 == <<"not passed", result.verdict # "passed">>
           t4 == <<"empty observation", result.verdict = "passed" /\ Empty(result.observation)>>
<1>3. ResultOf(report, case.id) = result
  BY <1>2, ResultIsUnique
<1>4. Errors({t1, t2, t3, t4}) = {}
  BY <1>1, <1>3 DEF CaseErrors
<1>5. ~t1[2] /\ ~t3[2] /\ ~t4[2]
  <2> HIDE DEF t1, t2, t3, t4
  <2> QED  BY <1>4, NoErrors
<1>6. result.case = case /\ result.verdict = "passed" /\ ~Empty(result.observation)
  BY <1>5
<1> QED  BY <1>1, <1>6 DEF Replayed, Empty

\* A report without errors names a result once and shows every case it is asked for.
LEMMA ReportShows ==
  ASSUME NEW report, NEW role, NEW inv, NEW all, ReportErrors(report, role, inv, all) = {}
  PROVE  /\ ~Repeats(CaseIdsOf(report.results))
         /\ all => \A c \in Required(inv) : CaseErrors(report, c) = {}
<1> DEFINE t1 == <<"unsupported report version", ~report.supported>>
           t2 == <<"wrong role", report.role # role>>
           t3 == <<"other build pair", report.buildPair # inv.buildPair>>
           t4 == <<"other inventory", report.inventoryId # inv.inventoryId>>
           t5 == <<"no marks", report.marks = <<>>>>
           t6 == <<"repeated mark", Repeats(StreamsOf(report.marks))>>
           t7 == <<"repeated result", Repeats(CaseIdsOf(report.results))>>
           asked == {r \in Required(inv) : all \/ r.id \in Reported(report)}
<1>1. Errors({t1, t2, t3, t4, t5, t6, t7}) = {} /\ UNION {CaseErrors(report, c) : c \in asked} = {}
  BY DEF ReportErrors
<1>2. ~t7[2]
  <2> HIDE DEF t1, t2, t3, t4, t5, t6, t7
  <2> QED  BY <1>1, NoErrors
<1>3. \A c \in asked : CaseErrors(report, c) = {}
  BY <1>1
<1> QED  BY <1>2, <1>3

\* Every contribution of an inventory without errors was read, none is unverified, and
\* every case one of them lists is required.
LEMMA InventoryShows ==
  ASSUME NEW inv, NEW all, all, InventoryErrors(inv, all) = {}
  PROVE  /\ Inventoried = {inv.contributions[i].source : i \in DOMAIN inv.contributions}
         /\ \A i \in DOMAIN inv.contributions :
              /\ inv.contributions[i].status # "unverified"
              /\ \A j \in DOMAIN inv.contributions[i].cases :
                   inv.contributions[i].cases[j] \in Required(inv)
<1> DEFINE sources == SourcesOf(inv.contributions)
           t1 == <<"unsupported inventory version", ~inv.supported>>
           t2 == <<"repeated source", Repeats(sources)>>
           t3 == <<"omitted source", all /\ ~(Inventoried \subseteq ToSet(sources))>>
           t4 == <<"unsupported source", all /\ ~(ToSet(sources) \subseteq Inventoried)>>
           t5 == <<"conflicting definitions", \E c, d \in Declared(inv) : c.id = d.id /\ c # d>>
           t6 == <<"no required cases", all /\ Required(inv) = {}>>
<1>1. /\ Errors({t1, t2, t3, t4, t5, t6}) = {}
      /\ \A c \in Contributions(inv) : ContributionErrors(c) = {}
  BY DEF InventoryErrors
<1>2. ~t2[2] /\ ~t3[2] /\ ~t4[2] /\ ~t5[2]
  <2> HIDE DEF t1, t2, t3, t4, t5, t6
  <2> QED  BY <1>1, NoErrors
<1>3. /\ ~Repeats(sources)
      /\ Inventoried = ToSet(sources)
      /\ \A c, d \in Declared(inv) : c.id = d.id => c = d
  BY <1>2
<1>4. ToSet(sources) = {inv.contributions[i].source : i \in DOMAIN inv.contributions}
  BY DEF SourcesOf, ToSet
<1>5. ASSUME NEW i \in DOMAIN inv.contributions
      PROVE  /\ inv.contributions[i].status # "unverified"
             /\ \A j \in DOMAIN inv.contributions[i].cases :
                  inv.contributions[i].cases[j] \in Required(inv)
  <2> DEFINE c == inv.contributions[i]
  <2>1. i \in DOMAIN sources
    BY <1>5 DEF SourcesOf
  <2>2. FirstOf(inv.contributions, sources, sources[i]) = c /\ sources[i] \in ToSet(sources)
    <3>1. sources[i] \in ToSet(sources)  BY <2>1 DEF ToSet
    <3> HIDE DEF sources
    <3> QED  BY <1>3, <2>1, <3>1, UniqueIsFirst
  <2>3. c \in Contributions(inv)
    BY <2>2 DEF Contributions
  <2> DEFINE s1 == <<"unverified", c.status = "unverified">>
             s2 == <<"applicable without cases", c.status = "applicable" /\ c.cases = <<>>>>
             s3 == <<"no reason", c.status = "not-applicable" /\ ~c.reason>>
             s4 == <<"cases of what does not apply", c.status = "not-applicable" /\ c.cases # <<>>>>
             s5 == <<"unsupported applicability",
                     c.status \notin {"applicable", "not-applicable", "unverified"}>>
  <2>4. Errors({s1, s2, s3, s4, s5}) = {}
    BY <1>1, <2>3 DEF ContributionErrors
  <2>5. ~s1[2]
    <3> HIDE DEF s1, s2, s3, s4, s5
    <3> QED  BY <2>4, NoErrors
  <2>6. ASSUME NEW j \in DOMAIN c.cases  PROVE c.cases[j] \in Required(inv)
    <3>1. c.cases[j] \in ToSet(c.cases)  BY <2>6 DEF ToSet
    <3>2. c.cases[j] \in Declared(inv)  BY <2>3, <3>1 DEF Declared
    <3>3. (CHOOSE d \in Declared(inv) : d.id = c.cases[j].id) = c.cases[j]
      BY <1>3, <3>2
    <3> QED  BY <3>2, <3>3 DEF Required
  <2> QED  BY <2>5, <2>6
<1> QED  BY <1>3, <1>4, <1>5
\* A comparison without errors.
LEMMA CompareShows ==
  ASSUME NEW old, NEW new, NEW inv, NEW all, CompareErrors(old, new, inv, all) = {}
  PROVE  /\ old.corpus = new.corpus
         /\ ToSet(old.marks) = ToSet(new.marks)
         /\ Compared(old, new, inv, all) # {}
         /\ \A id \in Compared(old, new, inv, all) \cap Reported(old) \cap Reported(new) :
              ~Differ(ResultOf(old, id).observation, ResultOf(new, id).observation)
<1> DEFINE ids == Compared(old, new, inv, all)
           t1 == <<"corpora differ", old.corpus # new.corpus>>
           t2 == <<"contracts differ", old.contract # new.contract>>
           t3 == <<"determinism inputs differ", old.determinism # new.determinism>>
           t4 == <<"marks differ", ToSet(old.marks) # ToSet(new.marks)>>
           t5 == <<"no matched cases", ids = {}>>
           t6 == <<"divergence", \E id \in ids \cap Reported(old) \cap Reported(new) :
                     Differ(ResultOf(old, id).observation, ResultOf(new, id).observation)>>
<1>1. Errors({t1, t2, t3, t4, t5, t6}) = {}
  BY DEF CompareErrors
<1>2. ~t1[2] /\ ~t4[2] /\ ~t5[2] /\ ~t6[2]
  <2> HIDE DEF t1, t2, t3, t4, t5, t6
  <2> QED  BY <1>1, NoErrors
<1> QED  BY <1>2

\* Two results of a case that two reports compare differ in no part.
LEMMA SameShows ==
  ASSUME NEW old, NEW new, NEW inv, NEW all, NEW id,
         id \in Compared(old, new, inv, all), CompareErrors(old, new, inv, all) = {},
         ~Repeats(CaseIdsOf(old.results)), ~Repeats(CaseIdsOf(new.results)),
         NEW i \in DOMAIN old.results, old.results[i].case.id = id,
         NEW j \in DOMAIN new.results, new.results[j].case.id = id
  PROVE  \A p \in Parts : old.results[i].observation[p] = new.results[j].observation[p]
<1>1. id \in Reported(old) /\ id \in Reported(new)
  BY DEF Reported, CaseIdsOf, ToSet
<1>2. ResultOf(old, id) = old.results[i] /\ ResultOf(new, id) = new.results[j]
  BY ResultIsUnique
<1>3. ~Differ(ResultOf(old, id).observation, ResultOf(new, id).observation)
  BY <1>1, CompareShows
<1> QED  BY <1>2, <1>3 DEF Differ

\* A check without errors compares at least one case that both have replayed, and with
\* --require-all every case that any contribution lists.
LEMMA ReplayShows ==
  ASSUME NEW old, NEW new, NEW inv, NEW all, ReplayErrors(old, new, inv, all) = {}
  PROVE  /\ old.corpus = new.corpus
         /\ ToSet(old.marks) = ToSet(new.marks)
         /\ \E c \in Reported(old) : c \in Reported(new)
         /\ all =>
              /\ Inventoried = {inv.contributions[i].source : i \in DOMAIN inv.contributions}
              /\ \A i \in DOMAIN inv.contributions :
                   /\ inv.contributions[i].status # "unverified"
                   /\ \A j \in DOMAIN inv.contributions[i].cases :
                        Compatible(old, new, inv.contributions[i].cases[j])
<1>1. /\ InventoryErrors(inv, all) = {}
      /\ ReportErrors(old, "baseline", inv, all) = {}
      /\ ReportErrors(new, "candidate", inv, all) = {}
      /\ CompareErrors(old, new, inv, all) = {}
  BY DEF ReplayErrors
<1>2. /\ ~Repeats(CaseIdsOf(old.results))
      /\ ~Repeats(CaseIdsOf(new.results))
      /\ all => \A c \in Required(inv) : CaseErrors(old, c) = {} /\ CaseErrors(new, c) = {}
  BY <1>1, ReportShows
<1>3. /\ old.corpus = new.corpus
      /\ ToSet(old.marks) = ToSet(new.marks)
      /\ Compared(old, new, inv, all) # {}
  BY <1>1, CompareShows
<1>4. \E c \in Reported(old) : c \in Reported(new)
  <2>1. CASE all
    <3>1. PICK c \in Required(inv) : TRUE  BY <1>3, <2>1 DEF Compared
    <3>2. c.id \in Reported(old) /\ c.id \in Reported(new)  BY <1>2, <2>1, <3>1, CaseShows
    <3> QED  BY <3>2
  <2>2. CASE ~all
    BY <1>3, <2>2 DEF Compared
  <2> QED  BY <2>1, <2>2
<1>5. ASSUME all, NEW case \in Required(inv)  PROVE Compatible(old, new, case)
  <2>1. Replayed(old, case) /\ Replayed(new, case)
    BY <1>2, <1>5, CaseShows
  <2>2. case.id \in Compared(old, new, inv, all)
    BY <1>5 DEF Compared
  <2>3. ASSUME NEW i \in DOMAIN old.results, NEW j \in DOMAIN new.results,
               old.results[i].case.id = case.id, new.results[j].case.id = case.id
        PROVE  \A p \in Parts : old.results[i].observation[p] = new.results[j].observation[p]
    BY <1>1, <1>2, <2>2, <2>3, SameShows
  <2> QED  BY <2>1, <2>3 DEF Compatible
<1>6. ASSUME all
      PROVE  /\ Inventoried = {inv.contributions[i].source : i \in DOMAIN inv.contributions}
             /\ \A i \in DOMAIN inv.contributions :
                  /\ inv.contributions[i].status # "unverified"
                  /\ \A j \in DOMAIN inv.contributions[i].cases :
                       inv.contributions[i].cases[j] \in Required(inv)
  BY <1>1, <1>6, InventoryShows
<1> QED  BY <1>3, <1>4, <1>5, <1>6

\* Whatever the inventory and the two reports: when the check passes, the builds replayed
\* the same corpus and no case that both were compared on came out otherwise.
THEOREM ReplayIsSound == ReplaySpec => []ReplaySound
<1>1. ReplayInit => ReplayChecked
  BY DEF ReplayInit, ReplayChecked
<1>2. ReplayChecked /\ [ReplayNext]_replayVars => ReplayChecked'
  <2> SUFFICES ASSUME ReplayChecked, [ReplayNext]_replayVars  PROVE ReplayChecked'
    OBVIOUS
  <2>1. CASE Vary
    BY <2>1 DEF Vary, ReplayChecked
  <2>2. CASE CheckReplay
    BY <2>2 DEF CheckReplay, ReplayVerdict, ReplayChecked
  <2>3. CASE UNCHANGED replayVars
    BY <2>3 DEF replayVars, ReplayChecked
  <2> QED  BY <2>1, <2>2, <2>3 DEF ReplayNext
<1>3. ReplayChecked => ReplaySound
  BY ReplayShows DEF ReplayChecked, ReplaySound
<1> QED  BY <1>1, <1>2, <1>3, PTL DEF ReplaySpec
-----------------------------------------------------------------------------
(* Preflight: sequences of units *)

LEMMA WithoutLast ==
  ASSUME NEW T, NEW s \in Seq(T), s # <<>>
  PROVE  /\ Last(s) \in T
         /\ Front(s) \in Seq(T)
         /\ ToSet(s) = ToSet(Front(s)) \cup {Last(s)}
<1>1. Len(s) \in Nat \ {0} /\ DOMAIN s = 1..Len(s)
  OBVIOUS
<1>2. /\ Front(s) \in Seq(T)
      /\ DOMAIN Front(s) = 1..(Len(s) - 1)
      /\ \A i \in 1..(Len(s) - 1) : Front(s)[i] = s[i]
  BY <1>1 DEF Front
<1>3. ToSet(s) = ToSet(Front(s)) \cup {Last(s)}
  <2>1. \A i \in DOMAIN s : i \in 1..(Len(s) - 1) \/ i = Len(s)
    BY <1>1
  <2>2. \A i \in 1..(Len(s) - 1) : i \in DOMAIN s
    BY <1>1
  <2>3. Len(s) \in DOMAIN s
    BY <1>1
  <2> QED  BY <1>2, <2>1, <2>2, <2>3 DEF ToSet, Last
<1> QED  BY <1>1, <1>2, <1>3 DEF Last

LEMMA SetOfConcat ==
  ASSUME NEW T, NEW s \in Seq(T), NEW t \in Seq(T)
  PROVE  s \o t \in Seq(T) /\ ToSet(s \o t) = ToSet(s) \cup ToSet(t)
<1>1. /\ s \o t \in Seq(T)
      /\ Len(s) \in Nat /\ DOMAIN s = 1..Len(s)
      /\ Len(t) \in Nat /\ DOMAIN t = 1..Len(t)
      /\ DOMAIN (s \o t) = 1..(Len(s) + Len(t))
      /\ \A i \in 1..(Len(s) + Len(t)) :
           (s \o t)[i] = IF i <= Len(s) THEN s[i] ELSE t[i - Len(s)]
  OBVIOUS
<1>2. ToSet(s \o t) \subseteq ToSet(s) \cup ToSet(t)
  BY <1>1 DEF ToSet
<1>3. ASSUME NEW i \in DOMAIN s  PROVE s[i] \in ToSet(s \o t)
  <2>1. i \in DOMAIN (s \o t) /\ (s \o t)[i] = s[i]  BY <1>1, <1>3
  <2> QED  BY <2>1 DEF ToSet
<1>4. ASSUME NEW i \in DOMAIN t  PROVE t[i] \in ToSet(s \o t)
  <2>1. Len(s) + i \in DOMAIN (s \o t) /\ (s \o t)[Len(s) + i] = t[i]  BY <1>1, <1>4
  <2> QED  BY <2>1 DEF ToSet
<1>5. ToSet(s) \cup ToSet(t) \subseteq ToSet(s \o t)
  BY <1>3, <1>4 DEF ToSet
<1> QED  BY <1>1, <1>2, <1>5

\* A finite set, made a sequence, has the same members.
LEMMA SetOfSequence ==
  ASSUME NEW S, IsFiniteSet(S)
  PROVE  SetToSeq(S) \in Seq(S) /\ ToSet(SetToSeq(S)) = S
<1> DEFINE n == Cardinality(S)
           s == SetToSeq(S)
<1>1. n \in Nat /\ ExistsBijection(1..n, S)
  BY FS_CardinalityType
<1>2. \E f \in [1..n -> S] : IsInjective(f)
  BY <1>1 DEF ExistsBijection, Bijection, Injection
<1>3. s \in [1..n -> S] /\ IsInjective(s)
  BY <1>2 DEF SetToSeq
<1>4. Cardinality(1..n) = n
  <2>1. 1 \in Int /\ n \in Int  BY <1>1
  <2> HIDE DEF n
  <2> QED  BY <1>1, <2>1, FS_Interval
<1>5. s \in Injection(1..n, S)
  BY <1>3 DEF Injection
<1>6. s \in Surjection(1..n, S)
  <2> HIDE DEF s
  <2> QED  BY <1>4, <1>5, FS_Injection
<1>7. s \in Seq(S)
  <2> HIDE DEF s, n
  <2> QED  BY <1>1, <1>3
<1>8. ToSet(s) = S
  <2> HIDE DEF s, n
  <2> QED  BY <1>3, <1>6 DEF Surjection, ToSet
<1> QED  BY <1>7, <1>8
-----------------------------------------------------------------------------
(* Preflight *)

Statuses == {"queued", "running", "released", "refused", "cancelled"}

PreflightShape ==
  /\ found \in Candidates
  /\ stage \in {"static", "closure", "lookup", "corpus", "passed", "failed"}
  /\ pending \in Seq(DOMAIN found.units)
  /\ seen \subseteq DOMAIN found.units
  /\ broken \in BOOLEAN
  /\ \A p \in DOMAIN lookup : lookup[p] \in [status : Statuses, failures : Nat]

\* The walk has seen, or has on its list, whatever it must visit, and asks for what of
\* it comes from the registry.
Walked ==
  /\ stage = "static" => seen = {}
  /\ stage \in {"closure", "lookup", "corpus", "passed"} =>
       /\ BlueprintsOK
       /\ Roots \subseteq seen \cup ToSet(pending)
       /\ \A u \in seen : ToSet(Successors(u)) \subseteq seen \cup ToSet(pending)
       /\ \A u \in seen : External(u) =>
            found.units[u].source = "hackage" /\ found.units[u].package \in needed

\* A lookup succeeds only if the registry says so, and only a failure cancels one.
Asked ==
  /\ stage \in {"static", "closure"} => DOMAIN lookup = {}
  /\ stage \in {"lookup", "corpus", "passed"} => pending = <<>> /\ DOMAIN lookup = needed
  /\ stage \in {"corpus", "passed"} => \A p \in DOMAIN lookup : Status(p) = "released"
  /\ \A p \in DOMAIN lookup :
       /\ Status(p) = "released" => found.registry[p] = "normal"
       /\ Status(p) = "cancelled" => broken

PreflightInv == PreflightShape /\ Walked /\ Asked
LEMMA PreflightStarts == PreflightInit => PreflightInv
<1> SUFFICES ASSUME PreflightInit  PROVE PreflightInv
  OBVIOUS
<1>1. /\ found \in Candidates /\ stage = "static" /\ pending = <<>> /\ seen = {}
      /\ lookup = <<>> /\ broken = FALSE
  BY DEF PreflightInit
<1>2. DOMAIN lookup = {}
  BY <1>1
<1>3. PreflightShape
  <2>1. <<>> \in Seq(DOMAIN found.units)
    OBVIOUS
  <2>2. pending \in Seq(DOMAIN found.units) /\ broken \in BOOLEAN
    BY <1>1, <2>1
  <2>3. \A p \in DOMAIN lookup : lookup[p] \in [status : Statuses, failures : Nat]
    BY <1>2
  <2> QED  BY <1>1, <2>2, <2>3 DEF PreflightShape
<1> QED  BY <1>1, <1>2, <1>3 DEF PreflightInv, Walked, Asked

\* The policies pass: the walk begins at the roots.
LEMMA StaticKeeps ==
  ASSUME PreflightInv, Static
  PROVE  PreflightInv'
<1>1. /\ stage = "static" /\ seen = {} /\ DOMAIN lookup = {}
      /\ UNCHANGED <<found, seen, needed, lookup, broken>>
  BY DEF Static, PreflightInv, Walked, Asked
<1>2. CASE stage' = "failed" /\ pending' = pending
  BY <1>1, <1>2 DEF PreflightInv, PreflightShape, Walked, Asked, Status
<1>3. CASE BlueprintsOK /\ stage' = "closure" /\ pending' = SetToSeq(Roots)
  <2>1. IsFiniteSet(DOMAIN found.units) /\ Roots \subseteq DOMAIN found.units
    BY CandidatesOK DEF CandidatesOK, PreflightInv, PreflightShape, Roots
  <2>2. IsFiniteSet(Roots)
    BY <2>1, FS_Subset
  <2>3. pending' \in Seq(Roots) /\ ToSet(pending') = Roots
    BY <1>3, <2>2, SetOfSequence
  <2>4. pending' \in Seq(DOMAIN found.units)
    BY <2>1, <2>3
  <2>5. Roots' = Roots /\ (BlueprintsOK)' = BlueprintsOK /\ ToSet(pending)' = ToSet(pending')
    BY <1>1 DEF Roots, Ours, BlueprintsOK, Earlier, Selected, ToSet
  <2>6. PreflightShape'
    BY <1>1, <1>3, <2>4 DEF PreflightInv, PreflightShape
  <2>7. Walked'
    BY <1>1, <1>3, <2>3, <2>5 DEF Walked
  <2>8. Asked'
    BY <1>1, <1>3 DEF PreflightInv, Asked, Status
  <2> QED  BY <2>6, <2>7, <2>8 DEF PreflightInv
<1> QED  BY <1>2, <1>3 DEF Static

\* A unit off the list: its successors are on it, and it is asked for if it is external.
LEMMA VisitKeeps ==
  ASSUME PreflightInv, Visit
  PROVE  PreflightInv'
<1> DEFINE u == Last(pending)
           D == DOMAIN found.units
<1>1. /\ stage = "closure" /\ pending # <<>> /\ pending \in Seq(D) /\ seen \subseteq D
      /\ DOMAIN lookup = {}
      /\ UNCHANGED <<found, lookup, broken>>
  BY DEF Visit, PreflightInv, PreflightShape, Asked
<1>2. u \in D /\ Front(pending) \in Seq(D) /\ ToSet(pending) = ToSet(Front(pending)) \cup {u}
  <2> HIDE DEF D
  <2> QED  BY <1>1, WithoutLast
<1>3. /\ Roots' = Roots /\ (BlueprintsOK)' = BlueprintsOK /\ ToSet(pending)' = ToSet(pending')
      /\ \A v : (Successors(v))' = Successors(v) /\ (External(v))' = External(v)
  BY <1>1 DEF Roots, Ours, BlueprintsOK, Earlier, Selected, ToSet, Successors, External
<1>4. /\ BlueprintsOK
      /\ Roots \subseteq seen \cup ToSet(pending)
      /\ \A v \in seen : ToSet(Successors(v)) \subseteq seen \cup ToSet(pending)
      /\ \A v \in seen : External(v) =>
           found.units[v].source = "hackage" /\ found.units[v].package \in needed
  BY <1>1 DEF PreflightInv, Walked
<1>5. Asked'
  <2>1. stage' \in {"closure", "failed"} /\ (DOMAIN lookup)' = {}
    BY <1>1 DEF Visit
  <2> QED  BY <2>1 DEF Asked
<1>6. CASE u \in seen
  <2>1. /\ pending' = Front(pending) /\ UNCHANGED <<seen, needed, stage>>
    BY <1>6 DEF Visit
  <2>2. ToSet(pending) \subseteq seen \cup ToSet(pending')
    BY <1>2, <1>6, <2>1
  <2>3. PreflightShape'
    BY <1>1, <1>2, <2>1 DEF PreflightInv, PreflightShape
  <2>4. /\ Roots' \subseteq seen' \cup ToSet(pending')
        /\ \A v \in seen' : ToSet((Successors(v))') \subseteq seen' \cup ToSet(pending')
    BY <1>3, <1>4, <2>1, <2>2
  <2>5. Walked'
    BY <1>1, <1>3, <1>4, <2>1, <2>4 DEF Walked, Successors, ToSet
  <2> QED  BY <1>5, <2>3, <2>5 DEF PreflightInv
<1>7. CASE u \notin seen
  <2>1. /\ seen' = seen \cup {u}
        /\ pending' = Front(pending) \o Successors(u)
        /\ \/ ~External(u) /\ UNCHANGED <<needed, stage>>
           \/ /\ found.units[u].source = "hackage"
              /\ needed' = needed \cup {found.units[u].package}
              /\ UNCHANGED stage
           \/ stage' = "failed" /\ UNCHANGED needed
    BY <1>7 DEF Visit
  <2>2. Successors(u) \in Seq(D)
    BY <1>2, CandidatesOK DEF CandidatesOK, PreflightInv, PreflightShape, Successors
  <2>3. pending' \in Seq(D) /\ ToSet(pending') = ToSet(Front(pending)) \cup ToSet(Successors(u))
    <3> HIDE DEF D, u
    <3> QED  BY <1>2, <2>1, <2>2, SetOfConcat
  <2>4. PreflightShape'
    <3>1. stage' \in {"closure", "failed"}  BY <1>1, <2>1
    <3> QED  BY <1>1, <1>2, <2>1, <2>3, <3>1 DEF PreflightInv, PreflightShape
  <2>5. seen \cup ToSet(pending) \subseteq seen' \cup ToSet(pending')
    BY <1>2, <2>1, <2>3
  <2>6. ToSet(Successors(u)) \subseteq seen' \cup ToSet(pending')
    BY <2>3
  <2>7. /\ Roots' \subseteq seen' \cup ToSet(pending')
        /\ \A v \in seen' : ToSet((Successors(v))') \subseteq seen' \cup ToSet(pending')
    BY <1>3, <1>4, <2>1, <2>5, <2>6
  <2>8. stage' # "failed" => \A v \in seen' : External(v) =>
          found.units[v].source = "hackage" /\ found.units[v].package \in needed'
    BY <1>4, <2>1
  <2>9. Walked'
    <3>1. CASE stage' = "failed"  BY <3>1 DEF Walked
    <3>2. CASE stage' # "failed"
      BY <1>1, <1>3, <1>4, <2>1, <2>7, <2>8, <3>2 DEF Walked, Successors, ToSet
    <3> QED  BY <3>1, <3>2
  <2> QED  BY <1>5, <2>4, <2>9 DEF PreflightInv
<1> QED  BY <1>6, <1>7
\* Once the walk is over, what it found does not change.
LEMMA WalkStays ==
  ASSUME Walked, UNCHANGED <<found, pending, seen, needed>>,
         \/ stage' = stage
         \/ stage' = "failed"
         \/ stage \in {"closure", "lookup", "corpus"}
            /\ stage' \in {"lookup", "corpus", "passed"}
  PROVE  Walked'
<1>1. /\ Roots' = Roots /\ (BlueprintsOK)' = BlueprintsOK /\ ToSet(pending)' = ToSet(pending)
      /\ \A v : (Successors(v))' = Successors(v) /\ (External(v))' = External(v)
  BY DEF Roots, Ours, BlueprintsOK, Earlier, Selected, ToSet, Successors, External
<1>2. CASE stage' = "failed"
  BY <1>2 DEF Walked
<1>3. CASE stage' = stage
  BY <1>1, <1>3 DEF Walked, Successors, ToSet
<1>4. CASE stage \in {"closure", "lookup", "corpus"} /\ stage' \in {"lookup", "corpus", "passed"}
  BY <1>1, <1>4 DEF Walked, Successors, ToSet
<1> QED  BY <1>2, <1>3, <1>4

\* The walk is over.
LEMMA SubmitKeeps ==
  ASSUME PreflightInv, Submit
  PROVE  PreflightInv'
<1>1. /\ stage = "closure" /\ pending = <<>> /\ DOMAIN lookup = {}
      /\ UNCHANGED <<found, pending, seen, needed, broken>>
  BY DEF Submit, PreflightInv, Asked
<1>2. CASE stage' = "failed" /\ lookup' = lookup
  <2>1. Walked'  BY <1>1, <1>2, WalkStays DEF PreflightInv
  <2>2. PreflightShape'  BY <1>1, <1>2 DEF PreflightInv, PreflightShape
  <2>3. Asked'  BY <1>1, <1>2 DEF Asked
  <2> QED  BY <2>1, <2>2, <2>3 DEF PreflightInv
<1>3. CASE stage' = "lookup" /\ lookup' = [p \in needed |-> [status |-> "queued", failures |-> 0]]
  <2>1. Walked'  BY <1>1, <1>3, WalkStays DEF PreflightInv
  <2>2. PreflightShape'  BY <1>1, <1>3 DEF PreflightInv, PreflightShape, Statuses
  <2>3. Asked'  BY <1>1, <1>3 DEF Asked, Status
  <2> QED  BY <2>1, <2>2, <2>3 DEF PreflightInv
<1> QED  BY <1>2, <1>3 DEF Submit

\* One lookup, of those that are not over, takes a step.
LEMMA LookupKeeps ==
  ASSUME PreflightInv,
         NEW p \in DOMAIN lookup, Status(p) \in {"queued", "running"},
         NEW l \in [status : {"running", "released", "refused"}, failures : Nat],
         l.status = "released" => found.registry[p] = "normal",
         lookup' = [lookup EXCEPT ![p] = l],
         UNCHANGED <<found, stage, pending, seen, needed, broken>>
  PROVE  PreflightInv'
<1>1. Walked'
  BY WalkStays DEF PreflightInv
<1>2. /\ DOMAIN lookup' = DOMAIN lookup
      /\ \A q \in DOMAIN lookup : lookup'[q] = IF q = p THEN l ELSE lookup[q]
  OBVIOUS
<1>3. PreflightShape'
  BY <1>2 DEF PreflightInv, PreflightShape, Statuses
<1>4. stage \notin {"corpus", "passed"}
  BY DEF PreflightInv, Asked
<1>5. Asked'
  BY <1>2, <1>4 DEF PreflightInv, Asked, Status
<1> QED  BY <1>1, <1>3, <1>5 DEF PreflightInv

LEMMA PoolKeeps ==
  ASSUME PreflightInv, NEW p \in DOMAIN lookup,
         TakeUp(p) \/ Answered(p) \/ Rejected(p) \/ Unanswered(p)
  PROVE  PreflightInv'
<1>1. lookup[p] \in [status : Statuses, failures : Nat]
  BY DEF PreflightInv, PreflightShape
<1> DEFINE With(status) == [lookup[p] EXCEPT !.status = status]
<1>2. \A status \in {"running", "released", "refused"} :
        /\ With(status) \in [status : {"running", "released", "refused"}, failures : Nat]
        /\ With(status).status = status
  BY <1>1
<1>3. ASSUME NEW status \in {"running", "released", "refused"}, Set(p, status),
             Status(p) \in {"queued", "running"},
             status = "released" => found.registry[p] = "normal"
      PROVE  PreflightInv'
  <2>1. /\ lookup' = [lookup EXCEPT ![p] = With(status)]
        /\ UNCHANGED <<found, stage, pending, seen, needed, broken>>
    BY <1>3 DEF Set
  <2>2. With(status).status = "released" => found.registry[p] = "normal"
    BY <1>2, <1>3
  <2>3. With(status) \in [status : {"running", "released", "refused"}, failures : Nat]
    BY <1>2, <1>3
  <2> HIDE DEF With
  <2> QED  BY <1>3, <2>1, <2>2, <2>3, LookupKeeps
<1>4. CASE TakeUp(p)
  BY <1>3, <1>4 DEF TakeUp
<1>5. CASE Answered(p)
  <2>1. Status(p) = "running"  BY <1>5 DEF Answered, Running
  <2>2. CASE found.registry[p] = "normal"
    BY <1>3, <1>5, <2>1, <2>2 DEF Answered
  <2>3. CASE found.registry[p] # "normal"
    BY <1>3, <1>5, <2>1, <2>3 DEF Answered
  <2> QED  BY <2>2, <2>3
<1>6. CASE Rejected(p)
  <2>1. Status(p) = "running"  BY <1>6 DEF Rejected, Running
  <2> QED  BY <1>3, <1>6, <2>1 DEF Rejected
<1>7. CASE Unanswered(p)
  <2> DEFINE l == AfterFailure(lookup[p])
  <2>1. Status(p) = "running"  BY <1>7 DEF Unanswered, Running
  <2>2. /\ lookup' = [lookup EXCEPT ![p] = l]
        /\ UNCHANGED <<found, stage, pending, seen, needed, broken>>
    BY <1>7 DEF Unanswered
  <2>3. /\ l \in [status : {"running", "released", "refused"}, failures : Nat]
        /\ l.status # "released"
    BY <1>1, <2>1 DEF AfterFailure, Status
  <2> HIDE DEF l
  <2> QED  BY <2>1, <2>2, <2>3, LookupKeeps
<1> QED  BY <1>4, <1>5, <1>6, <1>7

\* A lookup has failed: the queued ones are cancelled.
LEMMA CancelKeeps ==
  ASSUME PreflightInv, CancelQueued
  PROVE  PreflightInv'
<1>1. /\ stage = "lookup" /\ broken' = TRUE
      /\ UNCHANGED <<found, stage, pending, seen, needed>>
      /\ lookup' = [p \in DOMAIN lookup |->
           IF Status(p) = "queued" THEN [lookup[p] EXCEPT !.status = "cancelled"] ELSE lookup[p]]
  BY DEF CancelQueued
<1>2. Walked'
  BY <1>1, WalkStays DEF PreflightInv
<1>3. \A p \in DOMAIN lookup : lookup[p] \in [status : Statuses, failures : Nat]
  BY DEF PreflightInv, PreflightShape
<1>4. /\ DOMAIN lookup' = DOMAIN lookup
      /\ \A p \in DOMAIN lookup :
           /\ lookup'[p] \in [status : Statuses, failures : Nat]
           /\ lookup'[p].status = "released" => Status(p) = "released"
  BY <1>1, <1>3 DEF Statuses, Status
<1>5. PreflightShape'
  BY <1>1, <1>4 DEF PreflightInv, PreflightShape
<1>6. Asked'
  BY <1>1, <1>4 DEF PreflightInv, Asked, Status
<1> QED  BY <1>2, <1>5, <1>6 DEF PreflightInv

\* The pool is shut down: unless a lookup failed, all of them succeeded.
LEMMA LookedUpKeeps ==
  ASSUME PreflightInv, LookedUp
  PROVE  PreflightInv'
<1>1. /\ stage = "lookup" /\ Over
      /\ (\E p \in DOMAIN lookup : Status(p) = "refused") => broken
      /\ stage' = IF broken THEN "failed" ELSE "corpus"
      /\ UNCHANGED <<found, pending, seen, needed, lookup, broken>>
  BY DEF LookedUp
<1>2. stage' \in {"failed", "corpus"}
  BY <1>1
<1>3. Walked'
  BY <1>1, <1>2, WalkStays DEF PreflightInv
<1>4. PreflightShape'
  BY <1>1, <1>2 DEF PreflightInv, PreflightShape
<1>5. ~broken => \A p \in DOMAIN lookup : Status(p) = "released"
  BY <1>1 DEF Over, PreflightInv, Asked
<1>6. stage' = "corpus" => ~broken
  BY <1>1
<1>7. Asked'
  BY <1>1, <1>2, <1>5, <1>6 DEF PreflightInv, Asked, Status
<1> QED  BY <1>3, <1>4, <1>7 DEF PreflightInv

LEMMA CorpusKeeps ==
  ASSUME PreflightInv, Corpus
  PROVE  PreflightInv'
<1>1. /\ stage = "corpus" /\ stage' \in {"passed", "failed"}
      /\ UNCHANGED <<found, pending, seen, needed, lookup, broken>>
  BY DEF Corpus
<1>2. Walked'
  BY <1>1, WalkStays DEF PreflightInv
<1>3. PreflightShape'
  BY <1>1 DEF PreflightInv, PreflightShape
<1>4. Asked'
  BY <1>1 DEF PreflightInv, Asked, Status
<1> QED  BY <1>2, <1>3, <1>4 DEF PreflightInv

LEMMA PreflightStutters ==
  ASSUME PreflightInv, UNCHANGED preflightVars
  PROVE  PreflightInv'
<1>1. UNCHANGED <<found, stage, pending, seen, needed, lookup, broken>>
  BY DEF preflightVars
<1>2. Walked'
  BY <1>1, WalkStays DEF PreflightInv
<1>3. PreflightShape' /\ Asked'
  BY <1>1 DEF PreflightInv, PreflightShape, Asked, Status
<1> QED  BY <1>2, <1>3 DEF PreflightInv

\* What a preflight that has passed has seen is closed under dependencies: every unit a
\* user gets is among it.
LEMMA PassedIsSound == PreflightInv => PreflightSound
<1> SUFFICES ASSUME PreflightInv, stage = "passed"  PROVE PreflightSound
  BY DEF PreflightSound
<1>1. /\ BlueprintsOK /\ pending = <<>> /\ DOMAIN lookup = needed
      /\ Roots \subseteq seen \cup ToSet(pending)
      /\ \A u \in seen : ToSet(Successors(u)) \subseteq seen \cup ToSet(pending)
      /\ \A u \in seen : External(u) =>
           found.units[u].source = "hackage" /\ found.units[u].package \in needed
      /\ \A p \in needed : found.registry[p] = "normal"
      /\ seen \subseteq DOMAIN found.units
      /\ found \in Candidates
  BY DEF PreflightInv, PreflightShape, Walked, Asked
<1>2. ToSet(pending) = {}
  BY <1>1 DEF ToSet
<1>3. Closed(seen)
  BY <1>1, <1>2 DEF Closed, Successors
<1>4. Reachable \subseteq seen
  BY <1>1, <1>3 DEF Reachable
<1>5. \A u \in Reachable : External(u) =>
        found.units[u].source = "hackage" /\ found.registry[found.units[u].package] = "normal"
  BY <1>1, <1>4
<1>6. ASSUME NEW m \in found.migrations, NEW b \in DOMAIN found.blueprints,
             b \in m.entails, m.to <= found.current,
             NEW v \in Earlier, \A w \in Earlier : w <= v, v <= m.from
      PROVE  found.blueprints[b].local = found.blueprints[b].remote
  <2>1. Earlier \subseteq Int
    BY <1>1, CandidatesOK DEF CandidatesOK, Earlier
  <2>2. Max(Earlier) = v
    <3>1. \A w \in Earlier : v >= w
      BY <1>6, <2>1
    <3>2. \A x \in Earlier : (\A w \in Earlier : x >= w) => x = v
      BY <1>6, <2>1
    <3> QED  BY <3>1, <3>2 DEF Max
  <2>3. m \in Selected
    BY <1>6, <2>2 DEF Selected
  <2> QED  BY <1>1, <1>6, <2>3 DEF BlueprintsOK, Published
<1> QED  BY <1>5, <1>6 DEF PreflightSound

\* Whatever the workspace, the plan and the registry, and however the lookups fail and
\* interleave: a preflight that passes found every dependency a user gets released and
\* every blueprint that matters published.
THEOREM PreflightIsSound == PreflightSpec => []PreflightSound
<1>1. PreflightInv /\ [PreflightNext]_preflightVars => PreflightInv'
  <2> SUFFICES ASSUME PreflightInv, [PreflightNext]_preflightVars  PROVE PreflightInv'
    OBVIOUS
  <2>1. ASSUME NEW p \in DOMAIN lookup, TakeUp(p) \/ Answered(p) \/ Rejected(p) \/ Unanswered(p)
        PROVE  PreflightInv'
    BY <2>1, PoolKeeps
  <2>2. CASE PreflightEnded
    BY <2>2, PreflightStutters DEF PreflightEnded
  <2> QED
    BY <2>1, <2>2, StaticKeeps, VisitKeeps, SubmitKeeps, CancelKeeps, LookedUpKeeps, CorpusKeeps,
      PreflightStutters DEF PreflightNext
<1> QED  BY <1>1, PreflightStarts, PassedIsSound, PTL DEF PreflightSpec

-----------------------------------------------------------------------------
(* PackagePolicies: what split_top_level_exports makes of an export list.   *)
(* Facts about every prefix of it are proved of the shortest one that       *)
(* would be an exception.                                                   *)

LEMMA LeastPrefix ==
  ASSUME NEW T, T \subseteq Nat, T # {}
  PROVE  \E x \in T : \A y \in T : x <= y
<1>. DEFINE R == OpToRel(<, Nat)
<1>1. IsWellFoundedOn(R, Nat)  BY NatLessThanWellFounded
<1>2. \A x, y \in Nat : y < x => <<y, x>> \in R  BY DEF OpToRel
<1>. HIDE DEF R
<1>3. PICK x \in T : \A y \in T : ~ (<<y, x>> \in R)  BY <1>1, WFMin
<1>4. ASSUME NEW y \in T  PROVE x <= y
  <2>1. x \in Nat /\ y \in Nat /\ ~(y < x)  BY <1>2, <1>3
  <2>. QED  BY <2>1
<1>. QED  BY <1>4

NothingRead == [depth |-> 0, items |-> <<>>, item |-> <<>>, failed |-> FALSE]

\* What is read of a list is what one token after the other makes of it.
LEMMA ReadingSteps ==
  ASSUME NEW tokens, Len(tokens) \in Nat
  PROVE  /\ Reading(tokens)[0] = NothingRead
         /\ \A n \in 1 .. Len(tokens) :
              Reading(tokens)[n] = ReadToken(Reading(tokens)[n - 1], tokens[n])
<1>. DEFINE Step(f, n) == IF n = 0 THEN NothingRead ELSE ReadToken(f[n - 1], tokens[n])
            Reads(f, m) == f = [n \in 0 .. m |-> Step(f, n)]
            Bad == {m \in 0 .. Len(tokens) : ~\E f : Reads(f, m)}
<1>1. Bad = {}
  <2>. SUFFICES ASSUME Bad # {}  PROVE FALSE  OBVIOUS
  <2>0. Bad \subseteq Nat  OBVIOUS
  <2>1. PICK m \in Bad : \A k \in Bad : m <= k
    <3>. HIDE DEF Bad
    <3>. QED  BY <2>0, LeastPrefix
  <2>2. m \in 0 .. Len(tokens)  BY <2>1
  <2>3. CASE m = 0
    <3>. DEFINE f == [n \in 0 .. 0 |-> NothingRead]
    <3>1. Reads(f, 0)  OBVIOUS
    <3>. QED  BY <3>1, <2>3
  <2>4. CASE m > 0
    <3>0. m - 1 \in 0 .. Len(tokens) /\ ~(m <= m - 1)  BY <2>2, <2>4
    <3>1. m - 1 \in 0 .. Len(tokens) /\ m - 1 \notin Bad
      <4>. HIDE DEF Bad
      <4>. QED  BY <3>0, <2>1
    <3>2. PICK f : Reads(f, m - 1)  BY <3>1
    <3>. DEFINE g == [n \in 0 .. m |-> IF n = m THEN ReadToken(f[m - 1], tokens[m]) ELSE f[n]]
    <3>3. ASSUME NEW n \in 0 .. m  PROVE g[n] = Step(g, n)
      <4>1. CASE n = m
        <5>1. g[m] = ReadToken(f[m - 1], tokens[m])  OBVIOUS
        <5>2. g[m - 1] = f[m - 1]  BY <2>2, <2>4
        <5>. QED  BY <5>1, <5>2, <4>1, <2>4
      <4>2. CASE n # m
        <5>1. n \in 0 .. m - 1  BY <4>2, <2>2
        <5>2. f[n] = Step(f, n)  BY <3>2, <5>1
        <5>3. n > 0 => g[n - 1] = f[n - 1]  BY <5>1, <2>2
        <5>4. g[n] = f[n]  BY <4>2
        <5>. QED  BY <5>1, <5>2, <5>3, <5>4
      <4>. QED  BY <4>1, <4>2
    <3>4. Reads(g, m)  BY <3>3
    <3>. QED  BY <3>4
  <2>. QED  BY <2>2, <2>3, <2>4
<1>2. \E f : Reads(f, Len(tokens))  BY <1>1
<1>3. Reading(tokens) = CHOOSE f : Reads(f, Len(tokens))  BY DEF Reading, NothingRead
<1>4. Reads(Reading(tokens), Len(tokens))  BY <1>2, <1>3
<1>. HIDE DEF Reads
<1>5. ASSUME NEW n \in 0 .. Len(tokens)
      PROVE  Reading(tokens)[n] = Step(Reading(tokens), n)
  BY <1>4 DEF Reads
<1>. QED  BY <1>5

-----------------------------------------------------------------------------
(* Depth *)

LEMMA DepthSteps ==
  ASSUME NEW tokens, NEW i \in Nat, i > 0
  PROVE  /\ DepthAt(tokens, 1) = 0
         /\ DepthAt(tokens, i) \in Int
         /\ DepthAt(tokens, i + 1) =
              DepthAt(tokens, i) + (IF tokens[i] = "(" THEN 1 ELSE IF tokens[i] = ")" THEN -1 ELSE 0)
<1>. DEFINE Has(n, t) == {j \in 1 .. n - 1 : tokens[j] = t}
<1>1. ASSUME NEW n \in Nat, NEW t  PROVE IsFiniteSet(Has(n, t)) /\ Cardinality(Has(n, t)) \in Nat
  <2>1. IsFiniteSet(1 .. n - 1)  BY FS_Interval
  <2>2. IsFiniteSet(Has(n, t))  BY <2>1, FS_Subset
  <2>. QED  BY <2>2, FS_CardinalityType
<1>2. ASSUME NEW t
      PROVE  Cardinality(Has(i + 1, t)) = Cardinality(Has(i, t)) + (IF tokens[i] = t THEN 1 ELSE 0)
  <2>1. CASE tokens[i] = t
    <3>1. Has(i + 1, t) = Has(i, t) \cup {i} /\ i \notin Has(i, t)  BY <2>1
    <3>2. IsFiniteSet(Has(i, t))  BY <1>1
    <3>. HIDE DEF Has
    <3>. QED  BY <2>1, <3>1, <3>2, FS_AddElement
  <2>2. CASE tokens[i] # t
    <3>1. Has(i + 1, t) = Has(i, t)  BY <2>2
    <3>2. Cardinality(Has(i, t)) \in Nat  BY <1>1
    <3>. HIDE DEF Has
    <3>. QED  BY <2>2, <3>1, <3>2
  <2>. QED  BY <2>1, <2>2
<1>3. \A n \in Nat : DepthAt(tokens, n) = Cardinality(Has(n, "(")) - Cardinality(Has(n, ")"))
  BY DEF DepthAt
<1>4. ASSUME NEW t  PROVE Cardinality(Has(1, t)) = 0
  <2>1. Has(1, t) = {}  OBVIOUS
  <2>. QED  BY <2>1, FS_EmptySet
<1>5. /\ Cardinality(Has(i, "(")) \in Nat
      /\ Cardinality(Has(i, ")")) \in Nat
  BY <1>1
<1>6. /\ Cardinality(Has(1, "(")) = 0
      /\ Cardinality(Has(1, ")")) = 0
  BY <1>4
<1>7. /\ Cardinality(Has(i + 1, "(")) = Cardinality(Has(i, "(")) + (IF tokens[i] = "(" THEN 1 ELSE 0)
      /\ Cardinality(Has(i + 1, ")")) = Cardinality(Has(i, ")")) + (IF tokens[i] = ")" THEN 1 ELSE 0)
  BY <1>2
<1>. HIDE DEF Has
<1>8. DepthAt(tokens, i) = Cardinality(Has(i, "(")) - Cardinality(Has(i, ")"))  BY <1>3
<1>9. DepthAt(tokens, i + 1) = Cardinality(Has(i + 1, "(")) - Cardinality(Has(i + 1, ")"))  BY <1>3
<1>10. DepthAt(tokens, 1) = Cardinality(Has(1, "(")) - Cardinality(Has(1, ")"))  BY <1>3
<1>. QED  BY <1>5, <1>6, <1>7, <1>8, <1>9, <1>10
-----------------------------------------------------------------------------
(* Items *)

Words == Seq(STRING)

\* No comma outside parentheses is in the stretch, and one is before it.
Alone(tokens, a, b) ==
  /\ Starts(tokens, a)
  /\ \A j \in a .. b : ~TopComma(tokens, j)

LEMMA AloneOnce ==
  ASSUME NEW tokens, NEW b \in Nat, NEW a \in 1 .. b + 1, NEW c \in 1 .. b + 1,
         Alone(tokens, a, b), Alone(tokens, c, b)
  PROVE  a = c
<1>1. ~(a < c)
  <2>. SUFFICES ASSUME a < c  PROVE FALSE  OBVIOUS
  <2>1. c - 1 \in a .. b  OBVIOUS
  <2>2. TopComma(tokens, c - 1)  BY DEF Alone, Starts
  <2>. QED  BY <2>1, <2>2 DEF Alone
<1>2. ~(c < a)
  <2>. SUFFICES ASSUME c < a  PROVE FALSE  OBVIOUS
  <2>1. a - 1 \in c .. b  OBVIOUS
  <2>2. TopComma(tokens, a - 1)  BY DEF Alone, Starts
  <2>. QED  BY <2>1, <2>2 DEF Alone
<1>. QED  BY <1>1, <1>2

\* An item that is empty is dropped.
LEMMA FlushKeeps ==
  ASSUME NEW items \in Seq(Words), NEW item \in Words
  PROVE  /\ Flush(items, item) \in Seq(Words)
         /\ ToSet(Flush(items, item)) = ToSet(items) \cup (IF item = <<>> THEN {} ELSE {item})
<1>1. CASE item = <<>>  BY <1>1 DEF Flush
<1>2. CASE item # <<>>
  <2>. DEFINE f == Append(items, item)
  <2>1. /\ f \in Seq(Words)
        /\ Len(f) = Len(items) + 1
        /\ \A i \in 1 .. Len(items) : f[i] = items[i]
        /\ f[Len(items) + 1] = item
    BY AppendProperties
  <2>2. DOMAIN items = 1 .. Len(items) /\ DOMAIN f = 1 .. Len(f) /\ Len(items) \in Nat
    BY <2>1, LenProperties
  <2>3. Flush(items, item) = f  BY <1>2 DEF Flush
  <2>. HIDE DEF f
  <2>4. ToSet(f) = ToSet(items) \cup {item}
    <3>1. ASSUME NEW i \in DOMAIN f  PROVE f[i] \in ToSet(items) \cup {item}
      BY <2>1, <2>2 DEF ToSet
    <3>2. ASSUME NEW i \in DOMAIN items  PROVE items[i] \in ToSet(f)
      BY <2>1, <2>2 DEF ToSet
    <3>3. item \in ToSet(f)  BY <2>1, <2>2 DEF ToSet
    <3>. QED  BY <3>1, <3>2, <3>3 DEF ToSet
  <2>. QED  BY <1>2, <2>1, <2>3, <2>4
<1>. QED  BY <1>1, <1>2

\* What has been read of a list before it is refused: how deep the reader is,
\* the beginning of the present item, and as items nothing but stretches that
\* begin one, all those that a comma ends.
ReadTo(tokens, n) == LET s == Reading(tokens)[n] IN
  /\ s \in [depth : Int, items : Seq(Words), item : Words, failed : BOOLEAN]
  /\ ~s.failed =>
       /\ s.depth = DepthAt(tokens, n + 1)
       /\ \A j \in 1 .. n + 1 : DepthAt(tokens, j) >= 0
       /\ \E a \in 1 .. n + 1 : Alone(tokens, a, n) /\ s.item = SubSeq(tokens, a, n)
       /\ \A x \in ToSet(s.items) : \E a, b \in 1 .. n :
            a <= b /\ Starts(tokens, a) /\ x = SubSeq(tokens, a, b)
       /\ \A a, b \in 1 .. n :
            a <= b /\ b < n /\ Alone(tokens, a, b) /\ TopComma(tokens, b + 1)
              => SubSeq(tokens, a, b) \in ToSet(s.items)

LEMMA NothingIsRead ==
  ASSUME NEW tokens \in Words
  PROVE  ReadTo(tokens, 0)
<1>1. Len(tokens) \in Nat  BY LenProperties DEF Words
<1>2. Reading(tokens)[0] = NothingRead  BY <1>1, ReadingSteps
<1>3. DepthAt(tokens, 1) = 0  BY DepthSteps
<1>4. <<>> \in Words  BY EmptySeq DEF Words
<1>5. <<>> \in Seq(Words)  BY EmptySeq
<1>6. ToSet(<<>>) = {}  BY DEF ToSet
<1>7. SubSeq(tokens, 1, 0) = <<>>  BY SubSeqEmpty
<1>8. Alone(tokens, 1, 0)  BY DEF Alone, Starts
<1>. QED  BY <1>2, <1>3, <1>4, <1>5, <1>6, <1>7, <1>8 DEF ReadTo, NothingRead

LEMMA ReadKeeps ==
  ASSUME NEW tokens \in Words, NEW n \in 1 .. Len(tokens), ReadTo(tokens, n - 1)
  PROVE  ReadTo(tokens, n)
<1>. DEFINE s == Reading(tokens)[n - 1]
            t == tokens[n]
            u == Reading(tokens)[n]
            d == s.depth + (IF t = "(" THEN 1 ELSE IF t = ")" THEN -1 ELSE 0)
<1>1. Len(tokens) \in Nat /\ DOMAIN tokens = 1 .. Len(tokens) /\ t \in STRING
  BY LenProperties DEF Words
<1>2. u = ReadToken(s, t)  BY <1>1, ReadingSteps
<1>3. s \in [depth : Int, items : Seq(Words), item : Words, failed : BOOLEAN]  BY DEF ReadTo
<1>a. n - 1 + 1 = n /\ d \in Int /\ s.depth \in Int
  <2>. HIDE DEF s, t
  <2>. QED  BY <1>3
<1>4. CASE s.failed \/ d < 0 \/ t = "{-"
  <2>1. u = [s EXCEPT !.failed = TRUE]  BY <1>2, <1>4 DEF ReadToken
  <2>2. u \in [depth : Int, items : Seq(Words), item : Words, failed : BOOLEAN] /\ u.failed
    <3>. HIDE DEF s, u
    <3>. QED  BY <2>1, <1>3
  <2>. QED  BY <2>2 DEF ReadTo
<1>5. CASE ~(s.failed \/ d < 0 \/ t = "{-")
  <2>1. /\ s.depth = DepthAt(tokens, n)
        /\ \A j \in 1 .. n : DepthAt(tokens, j) >= 0
        /\ \A x \in ToSet(s.items) : \E a, b \in 1 .. n - 1 :
             a <= b /\ Starts(tokens, a) /\ x = SubSeq(tokens, a, b)
        /\ \A a, b \in 1 .. n - 1 :
             a <= b /\ b < n - 1 /\ Alone(tokens, a, b) /\ TopComma(tokens, b + 1)
               => SubSeq(tokens, a, b) \in ToSet(s.items)
    BY <1>5, <1>a DEF ReadTo
  <2>b. t \notin {"(", ")"} => d = s.depth
    <3>. HIDE DEF s, t
    <3>. QED  BY <1>a
  <2>2. PICK c \in 1 .. n : Alone(tokens, c, n - 1) /\ s.item = SubSeq(tokens, c, n - 1)
    BY <1>5, <1>a DEF ReadTo
  <2>3. d = DepthAt(tokens, n + 1) /\ DepthAt(tokens, n) \in Int
    BY <2>1, DepthSteps
  <2>4. \A j \in 1 .. n + 1 : DepthAt(tokens, j) >= 0
    <3>0. ~(d < 0)  BY <1>5
    <3>1. d >= 0
      <4>. HIDE DEF d
      <4>. QED  BY <3>0, <1>a
    <3>2. DepthAt(tokens, n + 1) >= 0  BY <3>1, <2>3
    <3>3. ASSUME NEW j \in 1 .. n + 1  PROVE j \in 1 .. n \/ j = n + 1  OBVIOUS
    <3>. QED  BY <2>1, <3>2, <3>3
  <2>5. CASE t = "," /\ d = 0
    <3>1. u = [s EXCEPT !.items = Flush(@, s.item), !.item = <<>>]
      BY <1>2, <1>5, <2>5 DEF ReadToken
    <3>2. <<>> \in Words  BY EmptySeq DEF Words
    <3>3. /\ Flush(s.items, s.item) \in Seq(Words)
          /\ ToSet(Flush(s.items, s.item)) =
               ToSet(s.items) \cup (IF s.item = <<>> THEN {} ELSE {s.item})
      <4>. HIDE DEF s
      <4>. QED  BY <1>3, FlushKeeps
    <3>4. /\ u \in [depth : Int, items : Seq(Words), item : Words, failed : BOOLEAN]
          /\ u.depth = s.depth /\ u.item = <<>> /\ u.items = Flush(s.items, s.item)
      <4>. HIDE DEF s, u
      <4>. QED  BY <3>1, <3>2, <3>3, <1>3
    <3>5. DepthAt(tokens, n) = 0 /\ d = s.depth
      <4>. HIDE DEF s, t, d
      <4>. QED  BY <2>1, <2>b, <2>5
    <3>6. TopComma(tokens, n)  BY <2>5, <3>5 DEF TopComma
    <3>7. Alone(tokens, n + 1, n)
      <4>1. Starts(tokens, n + 1)  BY <3>6 DEF Starts
      <4>. QED  BY <4>1 DEF Alone
    <3>8. SubSeq(tokens, n + 1, n) = <<>>  BY SubSeqEmpty
    <3>9. s.item # <<>> => c <= n - 1  BY <2>2, SubSeqEmpty
    <3>10. ASSUME NEW x \in ToSet(u.items)
           PROVE  \E a, b \in 1 .. n : a <= b /\ Starts(tokens, a) /\ x = SubSeq(tokens, a, b)
      <4>1. CASE x \in ToSet(s.items)
        <5>1. PICK a, b \in 1 .. n - 1 : a <= b /\ Starts(tokens, a) /\ x = SubSeq(tokens, a, b)
          BY <4>1, <2>1
        <5>2. a \in 1 .. n /\ b \in 1 .. n  BY <5>1
        <5>. QED  BY <5>1, <5>2
      <4>2. CASE x = s.item /\ s.item # <<>>
        <5>1. c \in 1 .. n /\ n - 1 \in 1 .. n /\ c <= n - 1  BY <3>9, <4>2
        <5>2. Starts(tokens, c)  BY <2>2 DEF Alone
        <5>. QED  BY <5>1, <5>2, <2>2, <4>2
      <4>. QED  BY <3>3, <3>4, <4>1, <4>2
    <3>11. ASSUME NEW a \in 1 .. n, NEW b \in 1 .. n,
                  a <= b, b < n, Alone(tokens, a, b), TopComma(tokens, b + 1)
           PROVE  SubSeq(tokens, a, b) \in ToSet(u.items)
      <4>1. CASE b < n - 1
        <5>1. SubSeq(tokens, a, b) \in ToSet(s.items)  BY <2>1, <3>11, <4>1
        <5>. QED  BY <5>1, <3>3, <3>4
      <4>2. CASE b = n - 1
        <5>1. a = c  BY <2>2, <3>11, <4>2, AloneOnce
        <5>2. Len(SubSeq(tokens, a, b)) = b - a + 1
          BY <3>11, <1>1, SubSeqProperties, ElementOfSeq DEF Words
        <5>3. s.item # <<>>
          <6>1. s.item = SubSeq(tokens, a, b)  BY <5>1, <2>2, <4>2
          <6>2. b - a + 1 > 0  BY <3>11
          <6>3. Len(<<>>) = 0  OBVIOUS
          <6>. HIDE DEF s
          <6>4. Len(s.item) > 0  BY <6>1, <6>2, <5>2
          <6>. QED  BY <6>3, <6>4
        <5>. QED  BY <5>1, <5>3, <2>2, <4>2, <3>3, <3>4
      <4>. QED  BY <4>1, <4>2, <3>11
    <3>12. u.depth = DepthAt(tokens, n + 1)  BY <3>4, <3>5, <2>3
    <3>. HIDE DEF s, u, d
    <3>13. n + 1 \in 1 .. n + 1 /\ Alone(tokens, n + 1, n) /\ u.item = SubSeq(tokens, n + 1, n)
      BY <3>4, <3>7, <3>8
    <3>. QED  BY <3>4, <3>10, <3>11, <3>12, <3>13, <2>4 DEF ReadTo, u
  <2>6. CASE ~(t = "," /\ d = 0)
    <3>1. u = [s EXCEPT !.depth = d, !.item = Append(@, t)]
      BY <1>2, <1>5, <2>6 DEF ReadToken
    <3>2. Append(s.item, t) \in Words  BY <1>1, <1>3, AppendProperties DEF Words
    <3>3. d \in Int  BY <1>3
    <3>4. /\ u \in [depth : Int, items : Seq(Words), item : Words, failed : BOOLEAN]
          /\ u.depth = d /\ u.item = Append(s.item, t) /\ u.items = s.items
      <4>. HIDE DEF s, u, d
      <4>. QED  BY <3>1, <3>2, <3>3, <1>3
    <3>5. ~TopComma(tokens, n)  
      <4>1. TopComma(tokens, n) => t = "," /\ s.depth = 0  BY <2>1 DEF TopComma
      <4>. HIDE DEF s, t, d
      <4>. QED  BY <4>1, <2>b, <2>6
    <3>6. Alone(tokens, c, n)
      <4>1. ASSUME NEW j \in c .. n  PROVE ~TopComma(tokens, j)
        <5>1. CASE j = n  BY <5>1, <3>5
        <5>2. CASE j # n
          <6>1. j \in c .. n - 1  BY <5>2
          <6>. QED  BY <6>1, <2>2 DEF Alone
        <5>. QED  BY <5>1, <5>2
      <4>. QED  BY <4>1, <2>2 DEF Alone
    <3>7. u.item = SubSeq(tokens, c, n)
      <4>1. SubSeq(tokens, c, n) = SubSeq(tokens, c, n - 1) \o <<t>>
        BY <1>1, SubSeqRecursiveSecond DEF Words
      <4>2. Append(s.item, t) = s.item \o <<t>>  BY <1>1, <1>3, AppendIsConcat DEF Words
      <4>. QED  BY <4>1, <4>2, <3>4, <2>2
    <3>10. ASSUME NEW x \in ToSet(u.items)
           PROVE  \E a, b \in 1 .. n : a <= b /\ Starts(tokens, a) /\ x = SubSeq(tokens, a, b)
      <4>1. PICK a, b \in 1 .. n - 1 : a <= b /\ Starts(tokens, a) /\ x = SubSeq(tokens, a, b)
        BY <3>4, <2>1
      <4>2. a \in 1 .. n /\ b \in 1 .. n  BY <4>1
      <4>. QED  BY <4>1, <4>2
    <3>11. ASSUME NEW a \in 1 .. n, NEW b \in 1 .. n,
                  a <= b, b < n, Alone(tokens, a, b), TopComma(tokens, b + 1)
           PROVE  SubSeq(tokens, a, b) \in ToSet(u.items)
      <4>1. b + 1 # n  BY <3>11, <3>5
      <4>2. a \in 1 .. n - 1 /\ b \in 1 .. n - 1 /\ b < n - 1  BY <3>11, <4>1
      <4>. QED  BY <4>2, <2>1, <3>11, <3>4
    <3>12. u.depth = DepthAt(tokens, n + 1)  BY <3>4, <2>3
    <3>. HIDE DEF s, u, d
    <3>13. c \in 1 .. n + 1  OBVIOUS
    <3>. QED  BY <3>4, <3>6, <3>7, <3>10, <3>11, <3>12, <3>13, <2>4 DEF ReadTo, u
  <2>. QED  BY <2>5, <2>6
<1>. QED  BY <1>4, <1>5

\* Every prefix of a list is read so.
LEMMA ListIsRead ==
  ASSUME NEW tokens \in Words
  PROVE  ReadTo(tokens, Len(tokens))
<1>. DEFINE Bad == {n \in 0 .. Len(tokens) : ~ReadTo(tokens, n)}
<1>1. Len(tokens) \in Nat  BY LenProperties DEF Words
<1>2. Bad = {}
  <2>. SUFFICES ASSUME Bad # {}  PROVE FALSE  OBVIOUS
  <2>1. Bad \subseteq Nat  BY <1>1
  <2>2. PICK n \in Bad : \A k \in Bad : n <= k
    <3>. HIDE DEF Bad
    <3>. QED  BY <2>1, LeastPrefix
  <2>3. n \in 0 .. Len(tokens) /\ ~ReadTo(tokens, n)  BY <2>2
  <2>4. n # 0  BY <2>3, NothingIsRead
  <2>5. n \in 1 .. Len(tokens) /\ n - 1 \in 0 .. Len(tokens) /\ ~(n <= n - 1)  BY <1>1, <2>3, <2>4
  <2>6. n - 1 \notin Bad
    <3>. HIDE DEF Bad
    <3>. QED  BY <2>2, <2>5
  <2>7. ReadTo(tokens, n - 1)  BY <2>5, <2>6
  <2>. QED  BY <2>3, <2>5, <2>7, ReadKeeps
<1>. QED  BY <1>1, <1>2
\* The items of a list that is not refused are the stretches between its commas.
LEMMA SplitShows ==
  ASSUME NEW tokens \in Words, ~SplitTopLevel(tokens).failed
  PROVE  LET items == SplitTopLevel(tokens).items IN
         /\ items \in Seq(Words)
         /\ DepthAt(tokens, Len(tokens) + 1) = 0
         /\ \A j \in 1 .. Len(tokens) + 1 : DepthAt(tokens, j) >= 0
         /\ \A x \in ToSet(items) : \E a, b \in 1 .. Len(tokens) :
              a <= b /\ Starts(tokens, a) /\ x = SubSeq(tokens, a, b)
         /\ \A a, b \in 1 .. Len(tokens) :
              a <= b /\ Alone(tokens, a, b) /\ (b = Len(tokens) \/ TopComma(tokens, b + 1))
                => SubSeq(tokens, a, b) \in ToSet(items)
<1>. DEFINE n == Len(tokens)
            s == Reading(tokens)[n]
            items == SplitTopLevel(tokens).items
<1>1. n \in Nat /\ DOMAIN tokens = 1 .. n  BY LenProperties DEF Words
<1>2. ReadTo(tokens, n)  BY ListIsRead
<1>3. s \in [depth : Int, items : Seq(Words), item : Words, failed : BOOLEAN]
  BY <1>2 DEF ReadTo
<1>4. ~s.failed /\ s.depth = 0  BY DEF SplitTopLevel
<1>5. items = Flush(s.items, s.item)  BY DEF SplitTopLevel
<1>6. /\ DepthAt(tokens, n + 1) = 0
      /\ \A j \in 1 .. n + 1 : DepthAt(tokens, j) >= 0
      /\ \A x \in ToSet(s.items) : \E a, b \in 1 .. n :
           a <= b /\ Starts(tokens, a) /\ x = SubSeq(tokens, a, b)
      /\ \A a, b \in 1 .. n :
           a <= b /\ b < n /\ Alone(tokens, a, b) /\ TopComma(tokens, b + 1)
             => SubSeq(tokens, a, b) \in ToSet(s.items)
  BY <1>2, <1>4 DEF ReadTo
<1>7. PICK c \in 1 .. n + 1 : Alone(tokens, c, n) /\ s.item = SubSeq(tokens, c, n)
  BY <1>2, <1>4 DEF ReadTo
<1>8. /\ items \in Seq(Words)
      /\ ToSet(items) = ToSet(s.items) \cup (IF s.item = <<>> THEN {} ELSE {s.item})
  <2>. HIDE DEF s, items
  <2>. QED  BY <1>3, <1>5, FlushKeeps
<1>. HIDE DEF s, items, n
<1>9. ASSUME NEW x \in ToSet(items)
      PROVE  \E a, b \in 1 .. n : a <= b /\ Starts(tokens, a) /\ x = SubSeq(tokens, a, b)
  <2>1. CASE x \in ToSet(s.items)  BY <2>1, <1>6
  <2>2. CASE x = s.item /\ s.item # <<>>
    <3>1. c <= n  BY <2>2, <1>1, <1>7, SubSeqEmpty
    <3>2. c \in 1 .. n /\ n \in 1 .. n  BY <3>1, <1>1
    <3>3. Starts(tokens, c)  BY <1>7 DEF Alone
    <3>. QED  BY <3>1, <3>2, <3>3, <2>2, <1>7
  <2>. QED  BY <1>8, <2>1, <2>2
<1>10. ASSUME NEW a \in 1 .. n, NEW b \in 1 .. n, a <= b, Alone(tokens, a, b),
              b = n \/ TopComma(tokens, b + 1)
       PROVE  SubSeq(tokens, a, b) \in ToSet(items)
  <2>1. CASE b < n
    <3>1. SubSeq(tokens, a, b) \in ToSet(s.items)  BY <2>1, <1>10, <1>6
    <3>. QED  BY <3>1, <1>8
  <2>2. CASE b = n
    <3>1. a = c  BY <2>2, <1>7, <1>10, <1>1, AloneOnce
    <3>2. Len(SubSeq(tokens, a, b)) = b - a + 1
      <4>0. \A j \in 1 .. n : tokens[j] \in STRING  BY ElementOfSeq DEF Words, n
      <4>1. \A j \in a .. b : tokens[j] \in STRING  BY <4>0, <1>1, <1>10
      <4>. QED  BY <4>1, <1>1, <1>10, SubSeqProperties
    <3>3. Len(s.item) > 0  BY <3>1, <3>2, <2>2, <1>7, <1>10, <1>1
    <3>4. Len(<<>>) = 0  OBVIOUS
    <3>5. s.item # <<>>  BY <3>3, <3>4
    <3>. QED  BY <3>1, <3>5, <2>2, <1>7, <1>8
  <2>. QED  BY <2>1, <2>2, <1>1
<1>. QED  BY <1>6, <1>8, <1>9, <1>10 DEF items, n

\* Neither words nor commas change the depth: an export starts outside parentheses.
LEMMA DepthStays ==
  ASSUME NEW tokens, NEW i \in Nat, i > 0, tokens[i] # "(", tokens[i] # ")"
  PROVE  DepthAt(tokens, i + 1) = DepthAt(tokens, i)
<1>1. /\ DepthAt(tokens, i) \in Int
      /\ DepthAt(tokens, i + 1) =
           DepthAt(tokens, i) + (IF tokens[i] = "(" THEN 1 ELSE IF tokens[i] = ")" THEN -1 ELSE 0)
  BY DepthSteps
<1>. QED  BY <1>1

LEMMA StartsOutside ==
  ASSUME NEW tokens, NEW a \in Nat, a > 0, Starts(tokens, a)
  PROVE  DepthAt(tokens, a) = 0
<1>1. CASE a = 1  BY <1>1, DepthSteps
<1>2. CASE a > 1
  <2>0. TopComma(tokens, a - 1)  BY <1>2 DEF Starts
  <2>1. tokens[a - 1] = "," /\ DepthAt(tokens, a - 1) = 0  BY <2>0 DEF TopComma
  <2>2. a - 1 \in Nat /\ a - 1 > 0 /\ a - 1 + 1 = a  BY <1>2
  <2>3. tokens[a - 1] # "(" /\ tokens[a - 1] # ")"  BY <2>1
  <2>4. DepthAt(tokens, a - 1 + 1) = DepthAt(tokens, a - 1)  BY <2>2, <2>3, DepthStays
  <2>. QED  BY <2>1, <2>2, <2>4
<1>. QED  BY <1>1, <1>2

\* A word that is an item is a word the list exports.
LEMMA WordIsExported ==
  ASSUME NEW tokens \in Words, ~SplitTopLevel(tokens).failed,
         NEW word, <<word>> \in ToSet(SplitTopLevel(tokens).items)
  PROVE  \E i \in DOMAIN tokens : ExportsAt(tokens, i, word)
<1>1. Len(tokens) \in Nat /\ DOMAIN tokens = 1 .. Len(tokens)  BY LenProperties DEF Words
<1>2. PICK a, b \in 1 .. Len(tokens) :
        a <= b /\ Starts(tokens, a) /\ <<word>> = SubSeq(tokens, a, b)
  BY SplitShows
<1>a. a \in Nat /\ b \in Nat /\ a >= 1 /\ b <= Len(tokens)  BY <1>1
<1>b. Starts(tokens, a)  BY <1>2
<1>3. SubSeq(tokens, a, b)[1] = tokens[a]
  <2>1. \A i \in a .. b : tokens[i] \in STRING  BY <1>1, <1>2, ElementOfSeq DEF Words
  <2>2. SubSeq(tokens, a, b)[1] = tokens[a + 1 - 1]  BY <2>1, <1>2, SubSeqProperties
  <2>. QED  BY <2>2
<1>4. tokens[a] = word  BY <1>2, <1>3
<1>5. DepthAt(tokens, a) = 0  BY <1>a, <1>b, StartsOutside
<1>. QED  BY <1>1, <1>4, <1>5 DEF ExportsAt

\* The list of members of a type ends its export: what closes it is the last
\* word before a comma or the end.
LEMMA OpenIsListed ==
  ASSUME NEW tokens, WellFormed(tokens), ~SplitTopLevel(tokens).failed,
         NEW T \in TypeNames, ExportsOpen(tokens, T)
  PROVE  \E x \in ToSet(SplitTopLevel(tokens).items) :
           /\ x \in Words
           /\ NamesType(x, T) /\ WithMembers(x)
<1>. DEFINE n == Len(tokens)
<1>1. tokens \in Words  BY DEF WellFormed, Words
<1>2. n \in Nat /\ DOMAIN tokens = 1 .. n /\ \A i \in 1 .. n : tokens[i] \in STRING
  BY <1>1, LenProperties, ElementOfSeq DEF Words
<1>a. n \in Nat  BY <1>2
<1>3. PICK i \in 1 .. n - 1 : tokens[i] = T /\ DepthAt(tokens, i) = 0 /\ tokens[i + 1] = "("
  BY <1>2 DEF ExportsOpen, ExportsAt
<1>4. T # "(" /\ T # ")" /\ T # "," /\ T # "type"  BY PackagesOK DEF PackagesOK
<1>5. /\ Starts(tokens, i) \/ (i > 1 /\ tokens[i - 1] = "type" /\ Starts(tokens, i - 1))
      /\ \A j \in i + 2 .. n :
           DepthAt(tokens, j) = 0 /\ (\A k \in i + 2 .. j - 1 : DepthAt(tokens, k) # 0)
             => tokens[j] = ","
  BY <1>3 DEF WellFormed
<1>6. /\ DepthAt(tokens, n + 1) = 0
      /\ \A j \in 1 .. n + 1 : DepthAt(tokens, j) >= 0
  BY <1>1, SplitShows
<1>. HIDE DEF n
<1>b. i \in Nat /\ i > 0 /\ i + 1 <= n  BY <1>a
<1>7. PICK a \in 1 .. i : /\ Starts(tokens, a)
                          /\ a = i \/ (a = i - 1 /\ tokens[a] = "type")
  <2>1. CASE Starts(tokens, i)  BY <2>1
  <2>2. CASE i > 1 /\ tokens[i - 1] = "type" /\ Starts(tokens, i - 1)
    <3>1. i - 1 \in 1 .. i  BY <2>2
    <3>. QED  BY <3>1, <2>2
  <2>. QED  BY <2>1, <2>2, <1>5
<1>8. PICK b \in i .. n : /\ Alone(tokens, a, b)
                          /\ b = n \/ TopComma(tokens, b + 1)
  <2>. DEFINE Ends == {k \in i .. n : k = n \/ TopComma(tokens, k + 1)}
  <2>1. Ends \subseteq Nat /\ n \in Ends  BY <1>a, <1>b
  <2>2. PICK b \in Ends : \A k \in Ends : b <= k
    <3>. HIDE DEF Ends
    <3>. QED  BY <2>1, LeastPrefix
  <2>3. b \in i .. n /\ (b = n \/ TopComma(tokens, b + 1))  BY <2>2
  <2>4. ASSUME NEW j \in a .. b  PROVE ~TopComma(tokens, j)
    <3>1. CASE j <= i
      <4>1. j = i \/ (j = a /\ tokens[a] = "type")  BY <3>1, <1>7
      <4>. QED  BY <4>1, <1>3, <1>4 DEF TopComma
    <3>2. CASE j > i
      <4>1. j - 1 \in i .. n /\ ~(b <= j - 1) /\ j - 1 + 1 = j  BY <3>2, <2>3, <1>a, <1>b
      <4>2. j - 1 \notin Ends
        <5>. HIDE DEF Ends
        <5>. QED  BY <4>1, <2>2
      <4>. QED  BY <4>1, <4>2
    <3>. QED  BY <3>1, <3>2, <1>7, <2>3
  <2>. QED  BY <2>3, <2>4, <1>7 DEF Alone
<1>9. b >= i + 2 /\ tokens[b] = ")"
  <2>. DEFINE Outside == {j \in i + 2 .. b + 1 : DepthAt(tokens, j) = 0}
  <2>1. DepthAt(tokens, b + 1) = 0  BY <1>6, <1>8 DEF TopComma
  <2>2. DepthAt(tokens, i + 1) = 0
    <3>1. tokens[i] # "(" /\ tokens[i] # ")"  BY <1>3, <1>4
    <3>2. DepthAt(tokens, i + 1) = DepthAt(tokens, i)  BY <3>1, <1>b, DepthStays
    <3>. QED  BY <3>2, <1>3
  <2>3. DepthAt(tokens, i + 2) = 1
    <3>1. i + 1 \in Nat /\ i + 1 > 0  BY <1>b
    <3>2. DepthAt(tokens, i + 1 + 1) = DepthAt(tokens, i + 1) + 1
      BY <1>3, <3>1, <2>2, DepthSteps
    <3>3. i + 1 + 1 = i + 2  BY <1>b
    <3>. QED  BY <3>2, <3>3, <2>2
  <2>4. b # i
    <3>1. i + 1 \in 1 .. n /\ ~(i = n)  BY <1>a, <1>b
    <3>2. ~TopComma(tokens, i + 1)  BY <1>3 DEF TopComma
    <3>. QED  BY <1>8, <3>1, <3>2
  <2>5. b + 1 \in Outside /\ Outside \subseteq Nat  BY <2>1, <2>4, <1>8, <1>3
  <2>6. PICK j \in Outside : \A k \in Outside : j <= k
    <3>. HIDE DEF Outside
    <3>. QED  BY <2>5, LeastPrefix
  <2>7. j \in i + 2 .. b + 1 /\ DepthAt(tokens, j) = 0  BY <2>6
  <2>8. j # i + 2  BY <2>3, <2>7
  <2>9. ASSUME NEW k \in i + 2 .. j - 1  PROVE DepthAt(tokens, k) # 0
    <3>1. k \in i + 2 .. b + 1 /\ ~(j <= k)  BY <2>7
    <3>2. k \notin Outside
      <4>. HIDE DEF Outside
      <4>. QED  BY <3>1, <2>6
    <3>. QED  BY <3>1, <3>2
  <2>10. tokens[j - 1] = ")"
    <3>1. j - 1 \in i + 2 .. j - 1 /\ j - 1 \in Nat /\ j - 1 > 0 /\ j - 1 + 1 = j
          /\ j - 1 \in 1 .. n + 1
      BY <2>7, <2>8, <1>a, <1>b
    <3>2. DepthAt(tokens, j - 1) \in Int /\ DepthAt(tokens, j - 1) # 0 /\ DepthAt(tokens, j - 1) >= 0
      BY <3>1, <2>9, <1>6, DepthSteps
    <3>3. DepthAt(tokens, j - 1 + 1) = DepthAt(tokens, j - 1) +
            (IF tokens[j - 1] = "(" THEN 1 ELSE IF tokens[j - 1] = ")" THEN -1 ELSE 0)
      BY <3>1, DepthSteps
    <3>. QED  BY <3>1, <3>2, <3>3, <2>7
  <2>11. j = b + 1
    <3>. SUFFICES ASSUME j # b + 1  PROVE FALSE  OBVIOUS
    <3>1. j \in i + 2 .. n /\ j \in a .. b  BY <2>7, <1>a, <1>b
    <3>2. tokens[j] = ","  BY <3>1, <1>5, <2>7, <2>9
    <3>3. TopComma(tokens, j)  BY <3>2, <2>7 DEF TopComma
    <3>. QED  BY <3>1, <3>3, <1>8 DEF Alone
  <2>. QED  BY <2>7, <2>8, <2>10, <2>11
<1>. DEFINE x == SubSeq(tokens, a, b)
<1>10. /\ x \in Words
       /\ Len(x) = b - a + 1
       /\ \A k \in 1 .. b - a + 1 : x[k] = tokens[a + k - 1]
  <2>1. \A k \in a .. b : tokens[k] \in STRING  BY <1>2
  <2>. QED  BY <2>1, <1>9, <1>8, <1>7, SubSeqProperties DEF Words
<1>11. x \in ToSet(SplitTopLevel(tokens).items)
  <2>1. a \in 1 .. n /\ b \in 1 .. n /\ a <= b  BY <1>a, <1>b
  <2>. QED  BY <2>1, <1>1, <1>8, SplitShows DEF n
<1>. HIDE DEF x
<1>12. CASE a = i
  <2>1. x[1] = T /\ x[2] = "(" /\ x[Len(x)] = ")" /\ Len(x) > 1
    <3>1. /\ 1 \in 1 .. b - a + 1 /\ 2 \in 1 .. b - a + 1 /\ b - a + 1 \in 1 .. b - a + 1
          /\ a + 1 - 1 = i /\ a + 2 - 1 = i + 1 /\ a + (b - a + 1) - 1 = b
      BY <1>12, <1>9, <1>a, <1>b
    <3>. QED  BY <3>1, <1>10, <1>9, <1>3
  <2>2. TypeItem(x) = x  BY <2>1, <1>4 DEF TypeItem
  <2>3. x # <<>>  BY <2>1, <1>10, EmptySeq
  <2>. QED  BY <1>10, <1>11, <2>1, <2>2, <2>3 DEF NamesType, IsTypeExport, WithMembers, Last
<1>13. CASE a = i - 1 /\ tokens[a] = "type"
  <2>. DEFINE t == Tail(x)
  <2>1. x[1] = "type" /\ x[2] = T /\ x[3] = "(" /\ x[Len(x)] = ")" /\ Len(x) > 2
    BY <1>13, <1>10, <1>9, <1>3
  <2>2. TypeItem(x) = t  BY <2>1 DEF TypeItem
  <2>3. x # <<>>  BY <2>1, <1>10, EmptySeq
  <2>4. /\ t \in Words
        /\ Len(t) = Len(x) - 1
        /\ \A k \in 1 .. Len(t) : t[k] = x[k + 1]
    BY <1>10, <2>3, HeadTailProperties DEF Words
  <2>. HIDE DEF t
  <2>5. Len(x) \in Nat  BY <1>10, LenProperties DEF Words
  <2>6. t[1] = T /\ t[2] = "(" /\ t[Len(t)] = ")" /\ Len(t) > 1
    BY <2>1, <2>4, <2>5
  <2>7. t # <<>>  BY <2>4, <2>6, EmptySeq
  <2>. QED  BY <1>10, <1>11, <2>2, <2>6, <2>7 DEF NamesType, IsTypeExport, WithMembers, Last
<1>. QED  BY <1>7, <1>12, <1>13
-----------------------------------------------------------------------------
(* The verdicts are about the packages they were given. *)

PackagesChecked ==
  /\ boundary = "pass" => ~BoundaryBroken
  /\ reexport = "pass" => ~ReexportBroken

\* A type that a check with no failures has passed is not exported open.
LEMMA AbstractStaysClosed ==
  ASSUME NEW tokens, WellFormed(tokens), ~SplitTopLevel(tokens).failed,
         NEW contract, ~ContractBroken(SplitTopLevel(tokens).items, contract),
         NEW T \in contract.abstract, T \in TypeNames
  PROVE  /\ ~ExportsOpen(tokens, T)
         /\ <<T>> \in ToSet(SplitTopLevel(tokens).items)
<1>. DEFINE items == SplitTopLevel(tokens).items
<1>1. PICK i \in DOMAIN items :
        items[i] = <<T>> /\ {j \in DOMAIN items : NamesType(items[j], T)} = {i}
  BY DEF ContractBroken
<1>2. <<T>> \in ToSet(items)  BY <1>1 DEF ToSet
<1>3. ASSUME ExportsOpen(tokens, T)  PROVE FALSE
  <2>1. PICK x \in ToSet(items) : NamesType(x, T) /\ WithMembers(x)  BY <1>3, OpenIsListed
  <2>2. PICK j \in DOMAIN items : items[j] = x  BY <2>1 DEF ToSet
  <2>3. j = i  BY <1>1, <2>1, <2>2
  <2>4. x = <<T>>  BY <1>1, <2>2, <2>3
  <2>5. T # "type"  BY PackagesOK DEF PackagesOK
  <2>6. TypeItem(<<T>>) = <<T>>  BY <2>5 DEF TypeItem
  <2>7. Len(<<T>>) > 1  BY <2>1, <2>4, <2>6 DEF WithMembers
  <2>. QED  BY <2>7
<1>. QED  BY <1>2, <1>3

LEMMA ChecksShow ==
  ASSUME PackagesChecked, SourcesCompile
  PROVE  BoundarySound
<1>. SUFFICES ASSUME boundary = "pass", reexport = "pass"
              PROVE  /\ \A T \in PreparedTypes : ~Constructible(T)
                     /\ \A m \in DOMAIN Protected : LET exports == packages.sources[m].exports IN
                          /\ m \in Exposed
                          /\ \A T \in Protected[m].abstract : ~ExportsOpen(exports, T)
                          /\ \A word \in Protected[m].abstract \cup Protected[m].required :
                               \E i \in DOMAIN exports : ExportsAt(exports, i, word)
                     /\ LanguageModule \notin Exposed
                     /\ \A c \in packages.emitted \cap packages.core :
                          c \in packages.allowed \/ \E e \in packages.reexports : e[1] = "keiro-core" /\ e[2] = c
  BY DEF BoundarySound
<1>1. ~BoundaryBroken /\ ~ReexportBroken  BY DEF PackagesChecked
<1>2. ASSUME NEW m \in Exposed
      PROVE  /\ HasSource(m) /\ WellFormed(packages.sources[m].exports)
             /\ ~SplitTopLevel(packages.sources[m].exports).failed
             /\ ParseExports(m).items = SplitTopLevel(packages.sources[m].exports).items
             /\ ~PreparedOpen(ParseExports(m).items)
  <2>1. HasSource(m) /\ ~ParseExports(m).failed /\ ~PreparedOpen(ParseExports(m).items)
    BY <1>1 DEF BoundaryBroken
  <2>2. WellFormed(packages.sources[m].exports)  BY <2>1 DEF SourcesCompile, HasSource
  <2>3. ParseExports(m).items = SplitTopLevel(packages.sources[m].exports).items
    BY DEF ParseExports
  <2>4. ~SplitTopLevel(packages.sources[m].exports).failed  BY <2>1 DEF ParseExports
  <2>. QED  BY <2>1, <2>2, <2>3, <2>4
<1>3. ASSUME NEW T \in PreparedTypes, Constructible(T)  PROVE FALSE
  <2>1. T \in TypeNames  BY PackagesOK DEF PackagesOK
  <2>2. PICK m \in Exposed : ExportsOpen(packages.sources[m].exports, T)
    BY <1>3 DEF Constructible
  <2>. DEFINE items == SplitTopLevel(packages.sources[m].exports).items
  <2>3. PICK x \in ToSet(items) : NamesType(x, T) /\ WithMembers(x)
    BY <1>2, <2>1, <2>2, OpenIsListed
  <2>4. PreparedOpen(items)  BY <2>3 DEF PreparedOpen
  <2>. QED  BY <1>2, <2>4
<1>4. ASSUME NEW m \in DOMAIN Protected
      PROVE  LET exports == packages.sources[m].exports IN
               /\ m \in Exposed
               /\ \A T \in Protected[m].abstract : ~ExportsOpen(exports, T)
               /\ \A word \in Protected[m].abstract \cup Protected[m].required :
                    \E i \in DOMAIN exports : ExportsAt(exports, i, word)
  <2>. DEFINE exports == packages.sources[m].exports
              items == SplitTopLevel(exports).items
  <2>1. m \in Exposed /\ (HasSource(m) => ~ContractBroken(ParseExports(m).items, Protected[m]))
    BY <1>1 DEF BoundaryBroken
  <2>2. /\ WellFormed(exports)
        /\ ~SplitTopLevel(exports).failed
        /\ ~ContractBroken(items, Protected[m])
    BY <2>1, <1>2
  <2>3. Protected[m].abstract \subseteq TypeNames  BY PackagesOK DEF PackagesOK
  <2>4. ASSUME NEW T \in Protected[m].abstract
        PROVE  ~ExportsOpen(exports, T) /\ <<T>> \in ToSet(items)
    <3>. HIDE DEF exports
    <3>. QED  BY <2>2, <2>3, AbstractStaysClosed
  <2>5. ASSUME NEW word \in Protected[m].abstract \cup Protected[m].required
        PROVE  \E i \in DOMAIN exports : ExportsAt(exports, i, word)
    <3>1. <<word>> \in ToSet(items)
      <4>1. CASE word \in Protected[m].abstract  BY <4>1, <2>4
      <4>2. CASE word \in Protected[m].required  BY <4>2, <2>2 DEF ContractBroken
      <4>. QED  BY <4>1, <4>2
    <3>2. exports \in Words  BY <2>2 DEF WellFormed, Words
    <3>. HIDE DEF exports
    <3>. QED  BY <3>1, <3>2, <2>2, WordIsExported
  <2>. QED  BY <2>1, <2>4, <2>5
<1>5. LanguageModule \notin Exposed  BY <1>1 DEF BoundaryBroken, CabalBroken, Exposed
<1>6. ASSUME NEW c \in packages.emitted \cap packages.core
      PROVE  c \in packages.allowed \/ \E e \in packages.reexports : e[1] = "keiro-core" /\ e[2] = c
  <2>1. c \in Reexported \cup packages.allowed
    BY <1>1 DEF ReexportBroken, Emitted, CoreModules
  <2>2. CASE c \in Reexported
    <3>1. PICK e \in packages.reexports : e[1] = "keiro-core" /\ c = e[2]
      BY <2>2 DEF Reexported
    <3>. QED  BY <3>1
  <2>. QED  BY <2>1, <2>2
<1>. QED  BY <1>3, <1>4, <1>5, <1>6

\* When both checks have passed and the export lists are such as compile, what
\* a consumer can import is what the release means it to import, however the
\* packages were edited before.
THEOREM BoundaryIsSound == PackagesSpec => [](SourcesCompile => BoundarySound)
<1>1. PackagesInit => PackagesChecked  BY DEF PackagesInit, PackagesChecked
<1>2. PackagesChecked /\ [PackagesNext]_packageVars => PackagesChecked'
  <2>. SUFFICES ASSUME PackagesChecked, [PackagesNext]_packageVars  PROVE PackagesChecked'
    OBVIOUS
  <2>1. ASSUME UNCHANGED packages
        PROVE  (BoundaryBroken <=> BoundaryBroken') /\ (ReexportBroken <=> ReexportBroken')
    BY <2>1 DEF BoundaryBroken, ReexportBroken, CabalBroken, Exposed, HasSource, ParseExports,
      HasExportList, PreparedOpen, ContractBroken, Emitted, CoreModules, Reexported
  <2>2. CASE EditPackages  BY <2>2 DEF EditPackages, PackagesChecked
  <2>3. CASE CheckBoundary  BY <2>1, <2>3 DEF CheckBoundary, PackagesChecked
  <2>4. CASE CheckReexports  BY <2>1, <2>4 DEF CheckReexports, PackagesChecked
  <2>5. CASE UNCHANGED packageVars  BY <2>1, <2>5 DEF packageVars, PackagesChecked
  <2>. QED  BY <2>2, <2>3, <2>4, <2>5 DEF PackagesNext
<1>3. PackagesChecked => (SourcesCompile => BoundarySound)  BY ChecksShow
<1>. QED  BY <1>1, <1>2, <1>3, PTL DEF PackagesSpec

-----------------------------------------------------------------------------
(* RecordManifests: the manifest a field's row is in *)

\* A finite set of positions that is not empty has a last one.
LEMMA LastPosition ==
  ASSUME NEW n \in Nat, NEW P, P \subseteq 1 .. n, P # {}
  PROVE  Max(P) \in P
<1>. DEFINE T == {k \in 0 .. n : n - k \in P}
<1>1. T \subseteq Nat  OBVIOUS
<1>2. T # {}
  <2>1. PICK p \in P : TRUE  OBVIOUS
  <2>2. p \in 1 .. n  BY <2>1
  <2>3. n - p \in 0 .. n /\ n - (n - p) = p  BY <2>2
  <2>4. n - p \in T  BY <2>1, <2>3
  <2>. QED  BY <2>4
<1>3. PICK k \in T : \A j \in T : k <= j
  <2>. HIDE DEF T
  <2>. QED  BY <1>1, <1>2, LeastPrefix
<1>4. k \in 0 .. n /\ n - k \in P  BY <1>3
<1>5. ASSUME NEW p \in P  PROVE n - k >= p
  <2>1. p \in 1 .. n  OBVIOUS
  <2>2. n - p \in 0 .. n /\ n - (n - p) = p  BY <2>1
  <2>3. n - p \in T  BY <2>2
  <2>4. k <= n - p
    <3>. HIDE DEF T
    <3>. QED  BY <2>3, <1>3
  <2>. QED  BY <2>1, <2>4, <1>4
<1>6. \E x \in P : \A y \in P : x >= y  BY <1>4, <1>5
<1>. QED  BY <1>6 DEF Max

\* FlattenSeq appends the sequences one after the other.
LEMMA FlattenSteps ==
  ASSUME NEW seqs, NEW n \in Nat, n > 0, n = Len(seqs)
  PROVE  \E f : /\ FlattenSeq(seqs) = f[n]
                /\ f[1] = seqs[1]
                /\ \A i \in 2 .. n : f[i] = f[i - 1] \o seqs[i]
<1>. DEFINE Join(s, t) == s \o t
            Step(f, i) == IF i = 1 THEN seqs[i] ELSE Join(f[i - 1], seqs[i])
            Joins(f, m) == f = [i \in 1 .. m |-> Step(f, i)]
            Bad == {m \in 1 .. n : ~\E f : Joins(f, m)}
<1>0. Bad \subseteq Nat
  <2>. HIDE DEF Joins
  <2>. QED  OBVIOUS
<1>1. Bad = {}
  <2>. SUFFICES ASSUME Bad # {}  PROVE FALSE  OBVIOUS
  <2>. HIDE DEF Join
  <2>2. PICK m \in Bad : \A k \in Bad : m <= k
    <3>. HIDE DEF Bad
    <3>. QED  BY <1>0, LeastPrefix
  <2>3. m \in 1 .. n  BY <2>2
  <2>4. CASE m = 1
    <3>. DEFINE f == [i \in 1 .. 1 |-> seqs[1]]
    <3>1. Joins(f, 1)  OBVIOUS
    <3>. QED  BY <3>1, <2>4
  <2>5. CASE m > 1
    <3>1. m - 1 \in 1 .. n /\ ~(m <= m - 1)  BY <2>3, <2>5
    <3>2. m - 1 \notin Bad
      <4>. HIDE DEF Bad
      <4>. QED  BY <3>1, <2>2
    <3>3. PICK f : Joins(f, m - 1)  BY <3>1, <3>2
    <3>. DEFINE g == [i \in 1 .. m |-> IF i = m THEN Join(f[m - 1], seqs[m]) ELSE f[i]]
    <3>4. ASSUME NEW i \in 1 .. m  PROVE g[i] = Step(g, i)
      <4>1. CASE i = m
        <5>1. g[m] = Join(f[m - 1], seqs[m])  BY <2>3
        <5>2. g[m - 1] = f[m - 1]  BY <2>3, <2>5
        <5>. QED  BY <5>1, <5>2, <4>1, <2>5
      <4>2. CASE i # m
        <5>1. i \in 1 .. m - 1  BY <4>2, <2>3
        <5>2. f[i] = Step(f, i)  BY <3>3, <5>1
        <5>3. i > 1 => g[i - 1] = f[i - 1]  BY <5>1, <2>3
        <5>4. g[i] = f[i]  BY <4>2
        <5>. QED  BY <5>1, <5>2, <5>3, <5>4
      <4>. QED  BY <4>1, <4>2
    <3>5. Joins(g, m)  BY <3>4
    <3>. QED  BY <3>5
  <2>. QED  BY <2>2, <2>3, <2>4, <2>5
<1>2. \E f : Joins(f, n)
  <2>1. n \in 1 .. n  OBVIOUS
  <2>2. n \notin Bad
    <3>. HIDE DEF Bad
    <3>. QED  BY <1>1
  <2>. QED  BY <2>1, <2>2
<1>. DEFINE h == CHOOSE f : Joins(f, n)
<1>3. FlattenSeq(seqs) = h[n]  BY DEF FlattenSeq
<1>4. Joins(h, n)  BY <1>2
<1>. HIDE DEF Joins, h
<1>5. ASSUME NEW i \in 1 .. n  PROVE h[i] = Step(h, i)
  <2>. HIDE DEF Step
  <2>. QED  BY <1>4 DEF Joins
<1>6. h[1] = seqs[1]
  <2>1. 1 \in 1 .. n  OBVIOUS
  <2>. QED  BY <1>5, <2>1
<1>7. ASSUME NEW i \in 2 .. n  PROVE h[i] = h[i - 1] \o seqs[i]
  <2>1. i \in 1 .. n /\ i # 1  OBVIOUS
  <2>2. h[i] = Step(h, i)  BY <1>5, <2>1
  <2>. QED  BY <2>1, <2>2
<1>. QED  BY <1>3, <1>6, <1>7

\* The elements of the flattened sequence are those of its parts.
LEMMA FlattenShows ==
  ASSUME NEW S, NEW seqs \in Seq(Seq(S))
  PROVE  /\ FlattenSeq(seqs) \in Seq(S)
         /\ ToSet(FlattenSeq(seqs)) = UNION {ToSet(seqs[i]) : i \in DOMAIN seqs}
<1>. DEFINE n == Len(seqs)
<1>1. n \in Nat /\ DOMAIN seqs = 1 .. n /\ \A i \in 1 .. n : seqs[i] \in Seq(S)
  BY LenProperties, ElementOfSeq
<1>2. CASE n = 0
  <2>1. seqs = <<>>  BY <1>2, EmptySeq
  <2>2. FlattenSeq(seqs) = <<>>  BY <1>2, <2>1 DEF FlattenSeq
  <2>3. <<>> \in Seq(S)  BY EmptySeq
  <2>4. ToSet(<<>>) = {}  BY DEF ToSet
  <2>. QED  BY <1>1, <1>2, <2>2, <2>3, <2>4
<1>3. CASE n > 0
  <2>1. PICK f : /\ FlattenSeq(seqs) = f[n]
                 /\ f[1] = seqs[1]
                 /\ \A i \in 2 .. n : f[i] = f[i - 1] \o seqs[i]
    BY <1>1, <1>3, FlattenSteps
  <2>. DEFINE Joined(i) == f[i] \in Seq(S) /\ ToSet(f[i]) = UNION {ToSet(seqs[j]) : j \in 1 .. i}
              Bad == {i \in 1 .. n : ~Joined(i)}
  <2>2. Bad = {}
    <3>. SUFFICES ASSUME Bad # {}  PROVE FALSE  OBVIOUS
    <3>1. Bad \subseteq Nat  OBVIOUS
    <3>2. PICK m \in Bad : \A k \in Bad : m <= k
      <4>. HIDE DEF Bad
      <4>. QED  BY <3>1, LeastPrefix
    <3>3. m \in 1 .. n /\ ~Joined(m)  BY <3>2
    <3>4. CASE m = 1
      <4>1. \A j \in 1 .. 1 : j = 1  OBVIOUS
      <4>2. UNION {ToSet(seqs[j]) : j \in 1 .. 1} = ToSet(seqs[1])  BY <4>1
      <4>3. Joined(1)  BY <4>2, <2>1, <1>1, <1>3
      <4>. QED  BY <4>3, <3>3, <3>4
    <3>5. CASE m > 1
      <4>1. m - 1 \in 1 .. n /\ ~(m <= m - 1) /\ m \in 2 .. n  BY <3>3, <3>5
      <4>2. m - 1 \notin Bad
        <5>. HIDE DEF Bad
        <5>. QED  BY <4>1, <3>2
      <4>3. Joined(m - 1)  BY <4>1, <4>2
      <4>4. f[m] = f[m - 1] \o seqs[m] /\ seqs[m] \in Seq(S)  BY <4>1, <2>1, <1>1
      <4>5. f[m] \in Seq(S) /\ ToSet(f[m]) = ToSet(f[m - 1]) \cup ToSet(seqs[m])
        BY <4>3, <4>4, SetOfConcat
      <4>6. 1 .. m = (1 .. m - 1) \cup {m}  BY <4>1
      <4>7. Joined(m)  BY <4>3, <4>5, <4>6
      <4>. QED  BY <4>7, <3>3
    <3>. QED  BY <3>3, <3>4, <3>5
  <2>3. Joined(n)
    <3>1. n \in 1 .. n  BY <1>1, <1>3
    <3>2. n \notin Bad
      <4>. HIDE DEF Bad
      <4>. QED  BY <2>2
    <3>. QED  BY <3>1, <3>2
  <2>. QED  BY <2>1, <2>3, <1>1
<1>. QED  BY <1>1, <1>2, <1>3

-----------------------------------------------------------------------------
(* What must be true of the names: `origin[i]' tells, for every label a field *)
(* of the i-th declaration can have, the one it was made from, and whatever   *)
(* fields the declaration has, their targets are stable.                      *)

\* Fields that have these labels.
FieldsWith(labels) == [label : labels, was : Words]

\* The names lead back to their origins, for any fields of each declaration.
NamesStable(origin) == \A i \in DOMAIN Records :
  /\ DOMAIN origin[i] \subseteq Words
  /\ \A x \in DOMAIN origin[i] :
       /\ origin[i][x] \in DOMAIN origin[i]
       /\ origin[i][origin[i][x]] = origin[i][x]
  /\ \A l \in ToSet(Records[i].labels) \cup NewLabels :
       l \in DOMAIN origin[i] /\ origin[i][l] = l
  /\ \A fields \in Seq(FieldsWith(DOMAIN origin[i])) :
       fields # <<>> => TargetsStable(i, origin[i], fields)

\* A row leads from a target back to what it was made from.
RowKept(origin, m, row) == \A i \in DOMAIN Records :
  Records[i].manifest = m /\ Records[i].owner = row.owner =>
    row.target \in DOMAIN origin[i] /\ row.current = origin[i][row.target]

\* Every row of a manifest does.
RowsKept(origin, m) == LET rows == documents[m].rows IN
  /\ \E n \in Nat : DOMAIN rows = 1 .. n
  /\ \A k \in DOMAIN rows : RowKept(origin, m, rows[k])

\* A field has the label it was made from or one that its manifest lists.
FieldKept(origin, i, f, rows) ==
  /\ f.was \in {NoLabel, origin[i][f.label]}
  /\ \/ f.label = origin[i][f.label]
     \/ \E k \in DOMAIN rows : rows[k].owner = Records[i].owner /\ rows[k].target = f.label

\* A declaration of the tree is one of the release with such fields.
DeclarationKept(origin, i) == LET fields == source[i].fields IN
  /\ source[i] = Declaration(i, fields)
  /\ fields \in Seq(FieldsWith(DOMAIN origin[i])) /\ fields # <<>>
  /\ \A j \in DOMAIN fields :
       FieldKept(origin, i, fields[j], documents[Records[i].manifest].rows)

\* The invariant: tree and manifests have kept the origins of all labels.
RecordsKept(origin) ==
  /\ source \in [DOMAIN Records -> [manifest : Manifests, owner : DOMAIN OwnerTokens,
                                    kind : {"data", "newtype"}, fields : Seq(FieldsWith(Words))]]
  /\ \A i \in DOMAIN Records : DeclarationKept(origin, i)
  /\ \A m \in Manifests : RowsKept(origin, m)
  /\ drift = "current" => \A m \in Manifests : documents[m] = Document(m)

\* A declaration is known by its manifest and its owner.
LEMMA RecordsType ==
  /\ Len(Records) \in Nat /\ DOMAIN Records = 1 .. Len(Records)
  /\ \A i \in DOMAIN Records :
       /\ Records[i] \in [manifest : Manifests, owner : DOMAIN OwnerTokens,
                          kind : {"data", "newtype"}, labels : Seq(Words)]
       /\ Records[i].labels # <<>>
       /\ \A j \in DOMAIN Records :
            Records[j].manifest = Records[i].manifest /\ Records[j].owner = Records[i].owner
              => j = i
<1>. DEFINE R == [manifest : Manifests, owner : DOMAIN OwnerTokens,
                  kind : {"data", "newtype"}, labels : Seq(Words)]
<1>1. Records \in Seq(R)  BY RecordsOK DEF RecordsOK, Words
<1>. HIDE DEF R
<1>2. Len(Records) \in Nat /\ DOMAIN Records = 1 .. Len(Records)  BY <1>1, LenProperties
<1>3. \A i \in DOMAIN Records : Records[i] \in R  BY <1>1, <1>2, ElementOfSeq
<1>4. \A i \in DOMAIN Records :
        /\ Records[i].labels # <<>>
        /\ \A j \in DOMAIN Records \ {i} :
             <<Records[j].manifest, Records[j].owner>> # <<Records[i].manifest, Records[i].owner>>
  BY RecordsOK DEF RecordsOK
<1>5. ASSUME NEW i \in DOMAIN Records, NEW j \in DOMAIN Records,
             Records[j].manifest = Records[i].manifest, Records[j].owner = Records[i].owner
      PROVE  j = i
  BY <1>4, <1>5
<1>. QED  BY <1>2, <1>3, <1>4, <1>5 DEF R

\* The row of a field has its stable target and the label it was made from.
LEMMA RowShows ==
  ASSUME NEW origin, NamesStable(origin), RecordsKept(origin),
         NEW i \in DOMAIN Records, NEW j \in DOMAIN source[i].fields
  PROVE  LET f == source[i].fields[j]
             t == TargetName(source[i], f.label)
         IN /\ f.label \in DOMAIN origin[i]
            /\ t \in DOMAIN origin[i] /\ origin[i][t] = origin[i][f.label]
            /\ f.label # origin[i][f.label] => t = f.label
            /\ Retained(documents[Records[i].manifest].rows, source[i], f.label) = origin[i][f.label]
<1>. DEFINE fields == source[i].fields
            f == fields[j]
            t == TargetName(source[i], f.label)
            m == Records[i].manifest
            rows == documents[m].rows
<1>1. /\ source[i] = Declaration(i, fields)
      /\ fields \in Seq(FieldsWith(DOMAIN origin[i])) /\ fields # <<>>
      /\ FieldKept(origin, i, f, rows)
  BY DEF RecordsKept, DeclarationKept
<1>2. f \in ToSet(fields)  BY DEF ToSet
<1>3. f \in FieldsWith(DOMAIN origin[i])
  <2>. HIDE DEF fields
  <2>1. j \in 1 .. Len(fields)  BY <1>1, LenProperties DEF fields
  <2>. QED  BY <1>1, <2>1, ElementOfSeq
<1>4. f.label \in DOMAIN origin[i]  BY <1>3 DEF FieldsWith
<1>5. TargetsStable(i, origin[i], fields)  BY <1>1 DEF NamesStable
<1>6. /\ t \in DOMAIN origin[i]
      /\ origin[i][t] = origin[i][f.label]
      /\ f.label # origin[i][f.label] => t = f.label
  BY <1>1, <1>2, <1>5 DEF TargetsStable
<1>7. m \in Manifests /\ source[i].owner = Records[i].owner
  BY <1>1, RecordsType DEF Declaration
<1>8. /\ \E n \in Nat : DOMAIN rows = 1 .. n
      /\ \A k \in DOMAIN rows : RowKept(origin, m, rows[k])
  BY <1>7 DEF RecordsKept, RowsKept
<1>. HIDE DEF rows, f, m
<1>9. ASSUME NEW k \in DOMAIN rows, rows[k].owner = source[i].owner, rows[k].target = t
      PROVE  rows[k].current = origin[i][f.label]
  BY <1>6, <1>7, <1>8, <1>9 DEF RowKept, m
<1>10. ASSUME \A k \in DOMAIN rows : ~(rows[k].owner = source[i].owner /\ rows[k].target = t)
       PROVE  f.label = origin[i][f.label]
  BY <1>1, <1>6, <1>7, <1>10 DEF FieldKept
<1>11. PICK n \in Nat : DOMAIN rows = 1 .. n  BY <1>8
<1>12. Retained(rows, source[i], f.label) = origin[i][f.label]
  <2>. DEFINE at == {k \in DOMAIN rows : rows[k].owner = source[i].owner /\ rows[k].target = t}
  <2>1. Retained(rows, source[i], f.label) = IF at = {} THEN f.label ELSE rows[Max(at)].current
    BY DEF Retained
  <2>2. CASE at = {}
    <3>1. f.label = origin[i][f.label]  BY <2>2, <1>10
    <3>. QED  BY <2>1, <2>2, <3>1
  <2>3. CASE at # {}
    <3>1. at \subseteq 1 .. n  BY <1>11
    <3>2. Max(at) \in at
      <4>. HIDE DEF at
      <4>. QED  BY <2>3, <3>1, LastPosition
    <3>3. rows[Max(at)].current = origin[i][f.label]  BY <3>2, <1>9
    <3>. QED  BY <2>1, <2>3, <3>3
  <2>. QED  BY <2>2, <2>3
<1>. QED  BY <1>4, <1>6, <1>12 DEF rows, f, m

\* The fields of a manifest are those of its declarations.
LEMMA FieldsShow ==
  ASSUME NEW origin, RecordsKept(origin), NEW m \in Manifests
  PROVE  /\ \E n \in Nat : DOMAIN FieldsOf(m) = 1 .. n
         /\ \A k \in DOMAIN FieldsOf(m) : \E i \in DOMAIN Records : \E j \in DOMAIN source[i].fields :
              /\ Records[i].manifest = m
              /\ FieldsOf(m)[k] = RecordField(source[i], source[i].fields[j])
         /\ \A i \in DOMAIN Records : \A j \in DOMAIN source[i].fields :
              Records[i].manifest = m =>
                \E k \in DOMAIN FieldsOf(m) :
                  FieldsOf(m)[k] = RecordField(source[i], source[i].fields[j])
<1>. DEFINE F == {RecordField(source[i], source[i].fields[j]) :
                    i \in DOMAIN Records, j \in UNION {DOMAIN source[h].fields : h \in DOMAIN Records}}
            Part(i) == IF source[i].manifest # m THEN <<>>
                       ELSE [j \in DOMAIN source[i].fields |-> RecordField(source[i], source[i].fields[j])]
            parts == [i \in DOMAIN source |-> Part(i)]
<1>1. DOMAIN source = DOMAIN Records  BY DEF RecordsKept
<1>2. ASSUME NEW i \in DOMAIN Records
      PROVE  /\ source[i].manifest = Records[i].manifest
             /\ \E n \in Nat : DOMAIN source[i].fields = 1 .. n
  <2>1. DeclarationKept(origin, i)  BY DEF RecordsKept
  <2>2. source[i].manifest = Records[i].manifest  BY <2>1 DEF DeclarationKept, Declaration
  <2>3. source[i].fields \in Seq(FieldsWith(DOMAIN origin[i]))  BY <2>1 DEF DeclarationKept
  <2>4. Len(source[i].fields) \in Nat /\ DOMAIN source[i].fields = 1 .. Len(source[i].fields)
    BY <2>3, LenProperties
  <2>. QED  BY <2>2, <2>4
<1>3. ASSUME NEW i \in DOMAIN Records  PROVE Part(i) \in Seq(F)
  <2>1. PICK n \in Nat : DOMAIN source[i].fields = 1 .. n  BY <1>2
  <2>2. \A j \in 1 .. n : RecordField(source[i], source[i].fields[j]) \in F  BY <2>1
  <2>. HIDE DEF F
  <2>3. [j \in 1 .. n |-> RecordField(source[i], source[i].fields[j])] \in [1 .. n -> F]  BY <2>2
  <2>4. [j \in 1 .. n |-> RecordField(source[i], source[i].fields[j])] \in Seq(F)
    BY <2>3, SeqDef
  <2>5. <<>> \in Seq(F)  BY EmptySeq
  <2>. QED  BY <2>1, <2>4, <2>5
<1>4. parts \in Seq(Seq(F))
  <2>1. Len(Records) \in Nat /\ DOMAIN Records = 1 .. Len(Records)  BY RecordsType
  <2>. HIDE DEF F, Part
  <2>2. parts \in [1 .. Len(Records) -> Seq(F)]  BY <1>1, <1>3, <2>1
  <2>. QED  BY <2>1, <2>2, SeqDef
<1>5. FieldsOf(m) = FlattenSeq(parts)  BY DEF FieldsOf
<1>6. /\ FieldsOf(m) \in Seq(F)
      /\ ToSet(FieldsOf(m)) = UNION {ToSet(parts[i]) : i \in DOMAIN parts}
  <2>. HIDE DEF F, parts
  <2>. QED  BY <1>4, <1>5, FlattenShows
<1>7. DOMAIN parts = DOMAIN Records /\ \A i \in DOMAIN Records : parts[i] = Part(i)  BY <1>1
<1>8. Len(FieldsOf(m)) \in Nat /\ DOMAIN FieldsOf(m) = 1 .. Len(FieldsOf(m))
  <2>. HIDE DEF F
  <2>. QED  BY <1>6, LenProperties
<1>. HIDE DEF F, parts
<1>9. ASSUME NEW k \in DOMAIN FieldsOf(m)
      PROVE  \E i \in DOMAIN Records : \E j \in DOMAIN source[i].fields :
               /\ Records[i].manifest = m
               /\ FieldsOf(m)[k] = RecordField(source[i], source[i].fields[j])
  <2>1. FieldsOf(m)[k] \in ToSet(FieldsOf(m))  BY DEF ToSet
  <2>2. PICK i \in DOMAIN Records : FieldsOf(m)[k] \in ToSet(Part(i))  BY <2>1, <1>6, <1>7
  <2>3. source[i].manifest = m
    <3>1. ToSet(<<>>) = {}  BY DEF ToSet
    <3>. QED  BY <2>2, <3>1
  <2>4. PICK j \in DOMAIN Part(i) : FieldsOf(m)[k] = Part(i)[j]
    <3>. HIDE DEF Part
    <3>. QED  BY <2>2 DEF ToSet
  <2>5. j \in DOMAIN source[i].fields /\ Part(i)[j] = RecordField(source[i], source[i].fields[j])
    BY <2>3, <2>4
  <2>. QED  BY <2>3, <2>4, <2>5, <1>2
<1>10. ASSUME NEW i \in DOMAIN Records, NEW j \in DOMAIN source[i].fields, Records[i].manifest = m
       PROVE  \E k \in DOMAIN FieldsOf(m) :
                FieldsOf(m)[k] = RecordField(source[i], source[i].fields[j])
  <2>1. source[i].manifest = m  BY <1>2, <1>10
  <2>2. j \in DOMAIN Part(i) /\ Part(i)[j] = RecordField(source[i], source[i].fields[j])  BY <2>1
  <2>3. Part(i)[j] \in ToSet(Part(i))
    <3>. HIDE DEF Part
    <3>. QED  BY <2>2 DEF ToSet
  <2>4. Part(i)[j] \in ToSet(FieldsOf(m))
    <3>. HIDE DEF Part
    <3>. QED  BY <2>3, <1>6, <1>7
  <2>. QED  BY <2>2, <2>4 DEF ToSet
<1>. QED  BY <1>8, <1>9, <1>10

\* Before the first run the fields have the labels of the release.
LEMMA StartKept ==
  ASSUME NEW CONSTANT origin, NamesStable(origin), RecordsInit
  PROVE  RecordsKept(origin)
<1>. DEFINE Of(i) == [j \in DOMAIN Records[i].labels |->
                        [label |-> Records[i].labels[j], was |-> Records[i].labels[j]]]
<1>1. source = [i \in DOMAIN Records |-> Declaration(i, Of(i))]  BY DEF RecordsInit
<1>2. ASSUME NEW i \in DOMAIN Records
      PROVE  /\ Of(i) \in Seq(FieldsWith(DOMAIN origin[i])) /\ Of(i) # <<>>
             /\ Of(i) \in Seq(FieldsWith(Words))
             /\ \A j \in DOMAIN Of(i) : Of(i)[j].was = Of(i)[j].label
                                       /\ origin[i][Of(i)[j].label] = Of(i)[j].label
  <2>. DEFINE labels == Records[i].labels
  <2>1. labels \in Seq(Words) /\ labels # <<>>  BY RecordsType
  <2>2. DOMAIN labels = 1 .. Len(labels) /\ Len(labels) \in Nat
    <3>. HIDE DEF labels
    <3>. QED  BY <2>1, LenProperties
  <2>3. \A j \in DOMAIN labels : labels[j] \in ToSet(labels)  BY DEF ToSet
  <2>4. \A j \in DOMAIN labels : labels[j] \in DOMAIN origin[i] /\ origin[i][labels[j]] = labels[j]
    BY <2>3 DEF NamesStable
  <2>5. DOMAIN origin[i] \subseteq Words  BY DEF NamesStable
  <2>6. Of(i) = [j \in 1 .. Len(labels) |-> [label |-> labels[j], was |-> labels[j]]]  BY <2>2
  <2>7. DOMAIN Of(i) = 1 .. Len(labels)  BY <2>6
  <2>8. Len(labels) # 0
    <3>. HIDE DEF labels
    <3>. QED  BY <2>1, EmptySeq
  <2>9. Of(i) # <<>>
    <3>1. 1 \in DOMAIN Of(i)  BY <2>2, <2>7, <2>8
    <3>2. DOMAIN <<>> = {}  OBVIOUS
    <3>. HIDE DEF Of
    <3>. QED  BY <3>1, <3>2
  <2>. DEFINE n == Len(labels)
  <2>10. \A j \in 1 .. n : Of(i)[j] \in FieldsWith(DOMAIN origin[i]) /\ Of(i)[j] \in FieldsWith(Words)
    BY <2>2, <2>4, <2>5 DEF FieldsWith
  <2>11. Of(i) \in [1 .. n -> FieldsWith(DOMAIN origin[i])] /\ Of(i) \in [1 .. n -> FieldsWith(Words)]
    <3>. HIDE DEF n
    <3>. QED  BY <2>6, <2>10 DEF n
  <2>12. Of(i) \in Seq(FieldsWith(DOMAIN origin[i])) /\ Of(i) \in Seq(FieldsWith(Words))
    <3>1. n \in Nat  BY <2>2
    <3>. HIDE DEF n, Of
    <3>. QED  BY <3>1, <2>11, SeqDef
  <2>. QED  BY <2>2, <2>4, <2>6, <2>9, <2>12
<1>3. ASSUME NEW i \in DOMAIN Records
      PROVE  /\ Declaration(i, Of(i)) \in [manifest : Manifests, owner : DOMAIN OwnerTokens,
                                           kind : {"data", "newtype"}, fields : Seq(FieldsWith(Words))]
             /\ source[i] = Declaration(i, Of(i)) /\ source[i].fields = Of(i)
  <2>. HIDE DEF Of
  <2>. QED  BY <1>1, <1>2, RecordsType DEF Declaration
<1>4. source \in [DOMAIN Records -> [manifest : Manifests, owner : DOMAIN OwnerTokens,
                                     kind : {"data", "newtype"}, fields : Seq(FieldsWith(Words))]]
  <2>. HIDE DEF Of
  <2>. QED  BY <1>1, <1>3
<1>5. ASSUME NEW i \in DOMAIN Records  PROVE DeclarationKept(origin, i)
  <2>. HIDE DEF Of
  <2>1. \A j \in DOMAIN source[i].fields :
          FieldKept(origin, i, source[i].fields[j], documents[Records[i].manifest].rows)
    BY <1>2, <1>3 DEF FieldKept
  <2>. QED  BY <1>2, <1>3, <2>1 DEF DeclarationKept
<1>6. ASSUME NEW m \in Manifests  PROVE RowsKept(origin, m)
  <2>1. documents[m].rows = <<>>  BY DEF RecordsInit
  <2>2. DOMAIN documents[m].rows = 1 .. 0  BY <2>1
  <2>. QED  BY <2>2 DEF RowsKept
<1>7. drift # "current"  BY DEF RecordsInit
<1>. QED  BY <1>4, <1>5, <1>6, <1>7 DEF RecordsKept

\* The manifest the script writes: its rows are kept, and it has a row for
\* every field.
LEMMA RowsShow ==
  ASSUME NEW CONSTANT origin, NamesStable(origin), RecordsKept(origin), NEW m \in Manifests
  PROVE  /\ DOMAIN Rows(m) = DOMAIN FieldsOf(m)
         /\ \E n \in Nat : DOMAIN Rows(m) = 1 .. n
         /\ \A k \in DOMAIN Rows(m) : RowKept(origin, m, Rows(m)[k])
         /\ \A k \in DOMAIN Rows(m) : FieldsOf(m)[k].field.was # NoLabel =>
              Rows(m)[k].current = FieldsOf(m)[k].field.was
         /\ \A i \in DOMAIN Records : \A j \in DOMAIN source[i].fields :
              Records[i].manifest = m => FieldKept(origin, i, source[i].fields[j], Rows(m))
<1>1. DOMAIN Rows(m) = DOMAIN FieldsOf(m)
      /\ \A k \in DOMAIN FieldsOf(m) : Rows(m)[k] = Row(documents[m].rows, FieldsOf(m)[k])
  BY DEF Rows
<1>2. ASSUME NEW i \in DOMAIN Records, NEW j \in DOMAIN source[i].fields, Records[i].manifest = m
      PROVE  LET f == source[i].fields[j]
                 row == Row(documents[m].rows, RecordField(source[i], f))
             IN /\ row.owner = Records[i].owner
                /\ row.target \in DOMAIN origin[i] /\ row.current = origin[i][row.target]
                /\ row.current = origin[i][f.label]
                /\ f.label # origin[i][f.label] => row.target = f.label
                /\ f.was \in {NoLabel, origin[i][f.label]}
  <2>. DEFINE f == source[i].fields[j]
              row == Row(documents[m].rows, RecordField(source[i], f))
  <2>1. /\ row.owner = source[i].owner
        /\ row.target = TargetName(source[i], f.label)
        /\ row.current = Retained(documents[m].rows, source[i], f.label)
    BY DEF Row, RecordField
  <2>2. source[i].owner = Records[i].owner
    BY DEF RecordsKept, DeclarationKept, Declaration
  <2>3. f.was \in {NoLabel, origin[i][f.label]}  BY DEF RecordsKept, DeclarationKept, FieldKept
  <2>. DEFINE t == TargetName(source[i], f.label)
  <2>4. /\ f.label \in DOMAIN origin[i]
        /\ t \in DOMAIN origin[i] /\ origin[i][t] = origin[i][f.label]
        /\ f.label # origin[i][f.label] => t = f.label
        /\ Retained(documents[Records[i].manifest].rows, source[i], f.label) = origin[i][f.label]
    BY RowShows
  <2>5. Retained(documents[m].rows, source[i], f.label) = origin[i][f.label]  BY <1>2, <2>4
  <2>6. row.target = t  BY <2>1
  <2>. HIDE DEF row, t, f
  <2>7. row.target \in DOMAIN origin[i] /\ origin[i][row.target] = origin[i][f.label]  BY <2>4, <2>6
  <2>8. row.current = origin[i][f.label]  BY <2>1, <2>5
  <2>9. f.label # origin[i][f.label] => row.target = f.label  BY <2>4, <2>6
  <2>10. row.owner = Records[i].owner  BY <2>1, <2>2
  <2>11. row.current = origin[i][row.target]  BY <2>7, <2>8
  <2>. QED  BY <2>3, <2>7, <2>8, <2>9, <2>10, <2>11 DEF row, f
<1>3. ASSUME NEW k \in DOMAIN FieldsOf(m)
      PROVE  /\ RowKept(origin, m, Rows(m)[k])
             /\ FieldsOf(m)[k].field.was # NoLabel => Rows(m)[k].current = FieldsOf(m)[k].field.was
  <2>1. PICK i \in DOMAIN Records : \E j \in DOMAIN source[i].fields :
          /\ Records[i].manifest = m
          /\ FieldsOf(m)[k] = RecordField(source[i], source[i].fields[j])
    BY FieldsShow
  <2>2. PICK j \in DOMAIN source[i].fields :
          /\ Records[i].manifest = m
          /\ FieldsOf(m)[k] = RecordField(source[i], source[i].fields[j])
    BY <2>1
  <2>. DEFINE f == source[i].fields[j]
              row == Row(documents[m].rows, RecordField(source[i], f))
  <2>3. Rows(m)[k] = row  BY <1>1, <2>2
  <2>4. /\ row.owner = Records[i].owner
        /\ row.target \in DOMAIN origin[i] /\ row.current = origin[i][row.target]
        /\ row.current = origin[i][f.label]
        /\ f.was \in {NoLabel, origin[i][f.label]}
    BY <1>2, <2>2
  <2>5. FieldsOf(m)[k].field = f  BY <2>2 DEF RecordField
  <2>6. \A h \in DOMAIN Records :
          Records[h].manifest = m /\ Records[h].owner = Records[i].owner => h = i
    BY <2>2, RecordsType
  <2>. HIDE DEF row, f
  <2>7. RowKept(origin, m, row)  BY <2>4, <2>6 DEF RowKept
  <2>. QED  BY <2>3, <2>4, <2>5, <2>7
<1>4. ASSUME NEW i \in DOMAIN Records, NEW j \in DOMAIN source[i].fields, Records[i].manifest = m
      PROVE  FieldKept(origin, i, source[i].fields[j], Rows(m))
  <2>. DEFINE f == source[i].fields[j]
              row == Row(documents[m].rows, RecordField(source[i], f))
  <2>1. PICK k \in DOMAIN FieldsOf(m) : FieldsOf(m)[k] = RecordField(source[i], f)
    BY <1>4, FieldsShow
  <2>2. k \in DOMAIN Rows(m) /\ Rows(m)[k] = row  BY <1>1, <2>1
  <2>3. /\ row.owner = Records[i].owner
        /\ f.label # origin[i][f.label] => row.target = f.label
        /\ f.was \in {NoLabel, origin[i][f.label]}
    BY <1>2, <1>4
  <2>. HIDE DEF row, f
  <2>4. FieldKept(origin, i, f, Rows(m))  BY <2>2, <2>3 DEF FieldKept
  <2>. QED  BY <2>4 DEF f
<1>5. \E n \in Nat : DOMAIN Rows(m) = 1 .. n  BY <1>1, FieldsShow
<1>. QED  BY <1>1, <1>3, <1>4, <1>5

\* Overwriting the documents loses no released label.
LEMMA RegenerateKeeps ==
  ASSUME NEW CONSTANT origin, NamesStable(origin), RecordsKept(origin), Regenerate
  PROVE  RecordsKept(origin)'
<1>1. source' = source /\ drift' = "none"  BY DEF Regenerate
<1>2. ASSUME NEW m \in Manifests  PROVE documents'[m].rows = Rows(m)
  BY DEF Regenerate, Document
<1>3. ASSUME NEW m \in Manifests  PROVE RowsKept(origin, m)'
  <2>1. \E n \in Nat : DOMAIN Rows(m) = 1 .. n  BY RowsShow
  <2>2. \A k \in DOMAIN Rows(m) : RowKept(origin, m, Rows(m)[k])  BY RowsShow
  <2>3. \A k \in DOMAIN documents'[m].rows : RowKept(origin, m, documents'[m].rows[k])
    BY <1>2, <2>2
  <2>. QED  BY <1>2, <2>1, <2>3 DEF RowsKept, RowKept
<1>4. ASSUME NEW i \in DOMAIN Records  PROVE DeclarationKept(origin, i)'
  <2>. DEFINE m == Records[i].manifest
  <2>1. m \in Manifests  BY RecordsType
  <2>2. \A j \in DOMAIN source[i].fields : FieldKept(origin, i, source[i].fields[j], Rows(m))
    BY <2>1, RowsShow
  <2>3. documents'[m].rows = Rows(m)  BY <1>2, <2>1
  <2>4. DeclarationKept(origin, i)  BY DEF RecordsKept
  <2>. HIDE DEF m
  <2>5. \A j \in DOMAIN source'[i].fields :
          FieldKept(origin, i, source'[i].fields[j], documents'[m].rows)
    BY <1>1, <2>2, <2>3
  <2>. QED  BY <1>1, <2>4, <2>5 DEF DeclarationKept, FieldKept, m
<1>5. source' \in [DOMAIN Records -> [manifest : Manifests, owner : DOMAIN OwnerTokens,
                                      kind : {"data", "newtype"}, fields : Seq(FieldsWith(Words))]]
  BY <1>1 DEF RecordsKept
<1>. QED  BY <1>1, <1>3, <1>4, <1>5 DEF RecordsKept

\* A check finds the documents current only where the script would write the same.
LEMMA CheckKeeps ==
  ASSUME NEW CONSTANT origin, RecordsKept(origin), CheckDrift
  PROVE  RecordsKept(origin)'
<1>1. source' = source /\ documents' = documents  BY DEF CheckDrift
<1>2. \A m \in Manifests : RowsKept(origin, m)'
  BY <1>1 DEF RecordsKept, RowsKept, RowKept
<1>3. \A i \in DOMAIN Records : DeclarationKept(origin, i)'
  BY <1>1 DEF RecordsKept, DeclarationKept, FieldKept
<1>4. \A m \in Manifests : Document(m)' = Document(m)
  BY <1>1 DEF Document, Rows, Row, Retained, Remedies, FieldsOf
<1>5. drift' = "current" => \A m \in Manifests : documents'[m] = Document(m)'
  <2>1. drift' = IF \A m \in Manifests : documents[m] = Document(m) THEN "current" ELSE "stale"
    BY DEF CheckDrift
  <2>2. drift' = "current" => \A m \in Manifests : documents[m] = Document(m)  BY <2>1
  <2>. QED  BY <1>1, <1>4, <2>2
<1>6. source' \in [DOMAIN Records -> [manifest : Manifests, owner : DOMAIN OwnerTokens,
                                      kind : {"data", "newtype"}, fields : Seq(FieldsWith(Words))]]
  BY <1>1 DEF RecordsKept
<1>. QED  BY <1>2, <1>3, <1>5, <1>6 DEF RecordsKept

\* A declaration may be given any fields that keep their labels' origins.
LEMMA ReworkKeeps ==
  ASSUME NEW CONSTANT origin, NamesStable(origin), RecordsKept(origin),
         NEW CONSTANT i \in DOMAIN Records, NEW fields,
         fields \in Seq(FieldsWith(DOMAIN origin[i])),
         \A j \in DOMAIN fields :
           FieldKept(origin, i, fields[j], documents[Records[i].manifest].rows),
         Rework(i, fields)
  PROVE  RecordsKept(origin)'
<1>. DEFINE S == [manifest : Manifests, owner : DOMAIN OwnerTokens,
                  kind : {"data", "newtype"}, fields : Seq(FieldsWith(Words))]
<1>1. /\ source' = [source EXCEPT ![i].fields = fields]
      /\ documents' = documents /\ drift' = "none" /\ fields # <<>>
  BY DEF Rework
<1>2. source \in [DOMAIN Records -> S]  BY DEF RecordsKept
<1>3. fields \in Seq(FieldsWith(Words))
  <2>1. FieldsWith(DOMAIN origin[i]) \subseteq FieldsWith(Words)  BY DEF NamesStable, FieldsWith
  <2>2. Len(fields) \in Nat /\ fields \in [1 .. Len(fields) -> FieldsWith(DOMAIN origin[i])]
    BY LenProperties
  <2>3. fields \in [1 .. Len(fields) -> FieldsWith(Words)]  BY <2>1, <2>2
  <2>. QED  BY <2>2, <2>3, SeqDef
<1>4. /\ source'[i] = [source[i] EXCEPT !.fields = fields]
      /\ \A j \in DOMAIN Records \ {i} : source'[j] = source[j]
  BY <1>1, <1>2
<1>5. source' \in [DOMAIN Records -> S]
  <2>1. source[i] \in S  BY <1>2
  <2>2. [source[i] EXCEPT !.fields = fields] \in S  BY <2>1, <1>3
  <2>. HIDE DEF S
  <2>. QED  BY <1>1, <1>2, <2>2
<1>6. source'[i] = Declaration(i, fields) /\ source'[i].fields = fields
  <2>1. source[i] = Declaration(i, source[i].fields)  BY DEF RecordsKept, DeclarationKept
  <2>2. source[i] \in S  BY <1>2
  <2>3. source'[i].fields = fields  BY <1>4, <2>2
  <2>4. source'[i] = Declaration(i, fields)  BY <1>4, <2>1, <2>2 DEF Declaration
  <2>. QED  BY <2>3, <2>4
<1>7. ASSUME NEW h \in DOMAIN Records  PROVE DeclarationKept(origin, h)'
  <2>1. CASE h = i
    <3>1. \A j \in DOMAIN source'[i].fields :
            FieldKept(origin, i, source'[i].fields[j], documents'[Records[i].manifest].rows)
      BY <1>1, <1>6
    <3>. QED  BY <1>1, <1>6, <2>1, <3>1 DEF DeclarationKept, FieldKept
  <2>2. CASE h # i
    <3>1. source'[h] = source[h]  BY <1>4, <2>2
    <3>2. DeclarationKept(origin, h)  BY DEF RecordsKept
    <3>. HIDE DEF S
    <3>. QED  BY <1>1, <3>1, <3>2 DEF DeclarationKept, FieldKept
  <2>. QED  BY <2>1, <2>2
<1>8. \A m \in Manifests : RowsKept(origin, m)'
  BY <1>1 DEF RecordsKept, RowsKept, RowKept
<1>. QED  BY <1>1, <1>5, <1>7, <1>8 DEF RecordsKept

\* Taking over the targets keeps every label's origin: the manifest lists the row.
LEMMA AdoptKeeps ==
  ASSUME NEW CONSTANT origin, NamesStable(origin), RecordsKept(origin),
         NEW CONSTANT i \in DOMAIN Records, Adopt(i)
  PROVE  RecordsKept(origin)'
<1>. DEFINE d == source[i]
            m == Records[i].manifest
            rows == documents[m].rows
            Listed(f) == {r \in ToSet(rows) : r.owner = d.owner /\ r.current = f.label}
            chosen(j) == CHOOSE r \in Listed(d.fields[j]) : TRUE
            fields == [j \in DOMAIN d.fields |-> [d.fields[j] EXCEPT !.label = chosen(j).target]]
<1>1. /\ d.manifest = m /\ d.owner = Records[i].owner /\ m \in Manifests
      /\ d.fields \in Seq(FieldsWith(DOMAIN origin[i]))
      /\ \A j \in DOMAIN d.fields : FieldKept(origin, i, d.fields[j], rows)
  BY RecordsType DEF RecordsKept, DeclarationKept, Declaration
<1>2. (\A f \in ToSet(d.fields) : Listed(f) # {}) /\ Rework(i, fields)
  BY <1>1 DEF Adopt
<1>3. \A k \in DOMAIN rows : RowKept(origin, m, rows[k])  BY <1>1 DEF RecordsKept, RowsKept
<1>4. Len(d.fields) \in Nat /\ DOMAIN d.fields = 1 .. Len(d.fields)
      /\ \A j \in DOMAIN d.fields : d.fields[j] \in FieldsWith(DOMAIN origin[i])
  <2>. HIDE DEF d
  <2>1. Len(d.fields) \in Nat /\ DOMAIN d.fields = 1 .. Len(d.fields)  BY <1>1, LenProperties
  <2>. QED  BY <1>1, <2>1, ElementOfSeq
<1>5. ASSUME NEW j \in DOMAIN d.fields
      PROVE  /\ fields[j] \in FieldsWith(DOMAIN origin[i])
             /\ FieldKept(origin, i, fields[j], rows)
  <2>. DEFINE f == d.fields[j]
              g == fields[j]
  <2>1. f \in ToSet(d.fields)  BY DEF ToSet
  <2>2. Listed(f) # {}  BY <1>2, <2>1
  <2>3. chosen(j) \in Listed(f)  BY <2>2
  <2>4. PICK k \in DOMAIN rows : chosen(j) = rows[k]  BY <2>3 DEF ToSet
  <2>5. rows[k].owner = Records[i].owner /\ rows[k].current = f.label  BY <1>1, <2>3, <2>4
  <2>6. f \in FieldsWith(DOMAIN origin[i])  BY <1>4
  <2>7. g = [f EXCEPT !.label = rows[k].target]  BY <2>4
  <2>8. g.label = rows[k].target /\ g.was = f.was  BY <2>6, <2>7 DEF FieldsWith
  <2>9. rows[k].target \in DOMAIN origin[i] /\ rows[k].current = origin[i][rows[k].target]
    BY <1>3, <2>5 DEF RowKept
  <2>10. origin[i][g.label] = f.label  BY <2>5, <2>8, <2>9
  <2>11. origin[i][f.label] = origin[i][g.label]
    <3>1. \A x \in DOMAIN origin[i] : origin[i][origin[i][x]] = origin[i][x]  BY DEF NamesStable
    <3>2. g.label \in DOMAIN origin[i]  BY <2>8, <2>9
    <3>. HIDE DEF f, g
    <3>. QED  BY <2>10, <3>1, <3>2
  <2>12. f.was \in {NoLabel, origin[i][f.label]}  BY <1>1 DEF FieldKept
  <2>13. g \in FieldsWith(DOMAIN origin[i])
    BY <2>6, <2>7, <2>9 DEF FieldsWith
  <2>. HIDE DEF g, f, rows
  <2>14. FieldKept(origin, i, g, rows)  BY <2>5, <2>8, <2>11, <2>12 DEF FieldKept
  <2>. QED  BY <2>13, <2>14 DEF g
<1>6. fields \in Seq(FieldsWith(DOMAIN origin[i])) /\ DOMAIN fields = DOMAIN d.fields
  <2>1. DOMAIN fields = DOMAIN d.fields  OBVIOUS
  <2>2. \E n \in Nat : DOMAIN d.fields = 1 .. n  BY <1>4
  <2>3. PICK n \in Nat : DOMAIN d.fields = 1 .. n  BY <2>2
  <2>4. fields = [j \in 1 .. n |-> fields[j]]  BY <2>3
  <2>. HIDE DEF fields
  <2>5. \A j \in 1 .. n : fields[j] \in FieldsWith(DOMAIN origin[i])  BY <1>5, <2>3
  <2>6. fields \in [1 .. n -> FieldsWith(DOMAIN origin[i])]  BY <2>4, <2>5
  <2>7. fields \in Seq(FieldsWith(DOMAIN origin[i]))  BY <2>6, SeqDef
  <2>. QED  BY <2>1, <2>7
<1>. HIDE DEF fields
<1>7. \A j \in DOMAIN fields :
        FieldKept(origin, i, fields[j], documents[Records[i].manifest].rows)
  BY <1>5, <1>6
<1>. QED  BY <1>2, <1>6, <1>7, ReworkKeeps

\* A field added is its own origin.
LEMMA AddKeeps ==
  ASSUME NEW CONSTANT origin, NamesStable(origin), RecordsKept(origin),
         NEW CONSTANT i \in DOMAIN Records, NEW CONSTANT label \in NewLabels, AddField(i, label)
  PROVE  RecordsKept(origin)'
<1>. DEFINE old == source[i].fields
            new == [label |-> label, was |-> NoLabel]
            rows == documents[Records[i].manifest].rows
            F == FieldsWith(DOMAIN origin[i])
<1>1. old \in Seq(F) /\ \A j \in DOMAIN old : FieldKept(origin, i, old[j], rows)
  BY DEF RecordsKept, DeclarationKept
<1>2. Rework(i, Append(old, new))  BY DEF AddField
<1>3. label \in DOMAIN origin[i] /\ origin[i][label] = label  BY DEF NamesStable
<1>4. NoLabel \in Words
  <2>1. <<>> \in Seq(STRING)  BY EmptySeq
  <2>. QED  BY <2>1 DEF NoLabel, Words
<1>5. new \in F  BY <1>3, <1>4 DEF FieldsWith
<1>6. FieldKept(origin, i, new, rows)  BY <1>3 DEF FieldKept
<1>. HIDE DEF old, new, F, rows
<1>7. Append(old, new) \in Seq(F)  BY <1>1, <1>5, AppendProperties
<1>8. ASSUME NEW j \in DOMAIN Append(old, new)
      PROVE  FieldKept(origin, i, Append(old, new)[j], rows)
  <2>1. Len(old) \in Nat /\ DOMAIN old = 1 .. Len(old)  BY <1>1, LenProperties
  <2>2. j \in 1 .. Len(old) + 1  BY <1>1, <1>5, <2>1, AppendProperties, LenProperties
  <2>3. CASE j \in 1 .. Len(old)
    <3>1. Append(old, new)[j] = old[j]  BY <1>1, <1>5, <2>3, AppendProperties
    <3>. QED  BY <1>1, <2>1, <2>3, <3>1
  <2>4. CASE j = Len(old) + 1
    <3>1. Append(old, new)[j] = new  BY <1>1, <1>5, <2>4, AppendProperties
    <3>. QED  BY <1>6, <3>1
  <2>. QED  BY <2>1, <2>2, <2>3, <2>4
<1>. QED  BY <1>2, <1>7, <1>8, ReworkKeeps DEF F, rows

\* Dropping a field leaves the others as they were.
LEMMA DropKeeps ==
  ASSUME NEW CONSTANT origin, NamesStable(origin), RecordsKept(origin),
         NEW CONSTANT i \in DOMAIN Records, NEW j, j \in DOMAIN source[i].fields, DropField(i, j)
  PROVE  RecordsKept(origin)'
<1>. DEFINE old == source[i].fields
            fields == RemoveAt(old, j)
            rows == documents[Records[i].manifest].rows
            F == FieldsWith(DOMAIN origin[i])
<1>1. old \in Seq(F) /\ \A k \in DOMAIN old : FieldKept(origin, i, old[k], rows)
  BY DEF RecordsKept, DeclarationKept
<1>2. Rework(i, fields) /\ j \in DOMAIN old  BY DEF DropField
<1>. DEFINE a == SubSeq(old, 1, j - 1)
            b == SubSeq(old, j + 1, Len(old))
<1>3. fields = a \o b  BY DEF RemoveAt
<1>. HIDE DEF old, F, rows
<1>4. Len(old) \in Nat /\ DOMAIN old = 1 .. Len(old) /\ j \in 1 .. Len(old)
  BY <1>1, <1>2, LenProperties
<1>5. /\ a \in Seq(F) /\ Len(a) = j - 1
      /\ \A k \in 1 .. Len(a) : a[k] = old[k]
  BY <1>1, <1>4, SubSeqProperties
<1>6. /\ b \in Seq(F) /\ Len(b) = Len(old) - j
      /\ \A k \in 1 .. Len(b) : b[k] = old[j + k]
  BY <1>1, <1>4, SubSeqProperties
<1>. HIDE DEF a, b, fields
<1>7. fields \in Seq(F) /\ DOMAIN fields = 1 .. Len(a) + Len(b)
  BY <1>3, <1>5, <1>6, ConcatProperties, LenProperties
<1>8. ASSUME NEW k \in DOMAIN fields
      PROVE  FieldKept(origin, i, fields[k], rows)
  <2>1. CASE k \in 1 .. Len(a)
    <3>1. fields[k] = a[k]  BY <1>3, <1>5, <1>6, <2>1, ConcatProperties
    <3>2. fields[k] = old[k]  BY <3>1, <1>5, <2>1
    <3>3. k \in DOMAIN old  BY <1>4, <1>5, <2>1
    <3>. QED  BY <1>1, <3>2, <3>3
  <2>2. CASE k \notin 1 .. Len(a)
    <3>1. k \in Len(a) + 1 .. Len(a) + Len(b)  BY <1>4, <1>5, <1>6, <1>7, <2>2
    <3>2. fields[k] = b[k - Len(a)]  BY <1>3, <1>5, <1>6, <1>4, <3>1, ConcatProperties
    <3>3. k - Len(a) \in 1 .. Len(b)  BY <1>4, <1>5, <1>6, <3>1
    <3>4. fields[k] = old[j + (k - Len(a))]  BY <1>6, <3>2, <3>3
    <3>5. j + (k - Len(a)) \in DOMAIN old  BY <1>4, <1>5, <1>6, <3>3
    <3>. QED  BY <1>1, <3>4, <3>5
  <2>. QED  BY <2>1, <2>2
<1>. QED  BY <1>2, <1>7, <1>8, ReworkKeeps DEF F, rows

\* Every step keeps what is known of the names.
LEMMA ActionsKeep ==
  ASSUME NEW CONSTANT origin, NamesStable(origin), RecordsKept(origin), [RecordsNext]_recordVars
  PROVE  RecordsKept(origin)'
<1>1. CASE Regenerate  BY <1>1, RegenerateKeeps
<1>2. CASE CheckDrift  BY <1>2, CheckKeeps
<1>3. ASSUME NEW i \in DOMAIN source, Adopt(i)  PROVE RecordsKept(origin)'
  <2>1. i \in DOMAIN Records  BY DEF RecordsKept
  <2>. QED  BY <2>1, <1>3, AdoptKeeps
<1>4. ASSUME NEW i \in DOMAIN source, NEW label \in NewLabels, AddField(i, label)
      PROVE RecordsKept(origin)'
  <2>1. i \in DOMAIN Records  BY DEF RecordsKept
  <2>. QED  BY <2>1, <1>4, AddKeeps
<1>5. ASSUME NEW i \in DOMAIN source, NEW j \in DOMAIN source[i].fields, DropField(i, j)
      PROVE RecordsKept(origin)'
  <2>1. i \in DOMAIN Records  BY DEF RecordsKept
  <2>. QED  BY <2>1, <1>5, DropKeeps
<1>6. CASE UNCHANGED recordVars
  <2>1. source' = source /\ documents' = documents /\ drift' = drift  BY <1>6 DEF recordVars
  <2>2. \A m \in Manifests : RowsKept(origin, m)'
    BY <2>1 DEF RecordsKept, RowsKept, RowKept
  <2>3. \A i \in DOMAIN Records : DeclarationKept(origin, i)'
    BY <2>1 DEF RecordsKept, DeclarationKept, FieldKept
  <2>4. \A m \in Manifests : Document(m)' = Document(m)
    BY <2>1 DEF Document, Rows, Row, Retained, Remedies, FieldsOf
  <2>. QED  BY <2>1, <2>2, <2>3, <2>4 DEF RecordsKept
<1>. QED  BY <1>1, <1>2, <1>3, <1>4, <1>5, <1>6 DEF RecordsNext

\* What the documents of a passed check say of the released fields.
LEMMA KeptShows ==
  ASSUME NEW CONSTANT origin, NamesStable(origin), RecordsKept(origin)
  PROVE  ReleasedSpellingKept
<1>1. SUFFICES ASSUME drift = "current", NEW m \in Manifests, NEW k \in DOMAIN FieldsOf(m),
                      FieldsOf(m)[k].field.was # NoLabel
               PROVE  documents[m].rows[k].current = FieldsOf(m)[k].field.was
  BY DEF ReleasedSpellingKept
<1>2. documents[m] = Document(m)  BY <1>1 DEF RecordsKept
<1>3. documents[m].rows = Rows(m)
  <2>1. Document(m).rows = Rows(m)  BY DEF Document
  <2>. QED  BY <1>2, <2>1
<1>4. /\ DOMAIN Rows(m) = DOMAIN FieldsOf(m)
      /\ \A h \in DOMAIN Rows(m) : FieldsOf(m)[h].field.was # NoLabel =>
           Rows(m)[h].current = FieldsOf(m)[h].field.was
  BY RowsShow
<1>. QED  BY <1>1, <1>3, <1>4

(***************************************************************************)
(* However often the source is edited, a manifest that passes its check    *)
(* names the released label of every field the release had, where the      *)
(* names are stable.                                                       *)
(***************************************************************************)
THEOREM ReleasedSpellings ==
  ASSUME NEW CONSTANT origin, NamesStable(origin)
  PROVE  RecordsSpec => []ReleasedSpellingKept
<1>1. RecordsInit => RecordsKept(origin)  BY StartKept
<1>2. RecordsKept(origin) /\ [RecordsNext]_recordVars => RecordsKept(origin)'  BY ActionsKeep
<1>3. RecordsKept(origin) => ReleasedSpellingKept  BY KeptShows
<1>. QED  BY <1>1, <1>2, <1>3, PTL DEF RecordsSpec
=============================================================================
