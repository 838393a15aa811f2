---------------------------- MODULE MappingGates ----------------------------
(***************************************************************************)
(* The four release gates of the checked mappings: a manifest says which   *)
(* gates are eligible and on what evidence, and the script                 *)
(* scripts/check-checked-mapping-release.py holds it against the tree.     *)
(*                                                                         *)
(* The manifest is a record; what a gate does not use of a gate's fields   *)
(* keeps its value.  tree maps the files there are to the anchors in them. *)
(* Wrong shapes inside of the manifest are left out, but for a missing     *)
(* block of structured evidence.  Errors are a set of words.               *)
(***************************************************************************)
EXTENDS Integers, Sequences, SequencesExt

CONSTANTS
  Digests,            \* the digests consumerHistoryEvidence must have
  AbsolutePaths,
  GoodManifest,       \* the manifest and the tree of the repository
  GoodTree,
  OtherManifests(_),  \* the manifests that differ from one in one field
  MaxRevised          \* bound: how often the manifest or the tree is changed

Gates == {"package-release", "language-publication", "consumer-adoption",
          "implementation-retirement"}

ASSUME MappingOK == MaxRevised \in Nat

VARIABLES
  manifest,
  tree,
  release,  \* the verdict of the last check: "none", "pass" or "fail"
  revised   \* how often the manifest or the tree was changed

mappingVars == <<manifest, tree, release, revised>>

Wrong(S) == {e[1] : e \in {x \in S : x[2]}}

\* The files with an error among the paths P, which must be in the tree.
Unusable(P) == {p \in P : p \in AbsolutePaths \/ p \notin DOMAIN tree}

Duplicated(keys) == \E i, j \in DOMAIN keys : i # j /\ keys[i] = keys[j]
IdentitiesOf(policies) == [i \in DOMAIN policies |-> policies[i].identity]
RolesOf(retained) == [i \in DOMAIN retained |-> retained[i].role]

Eligible(gate) == manifest.gates[gate].result = "eligible"
Pending(gate) == manifest.gates[gate].result = "pending"

-----------------------------------------------------------------------------
(* validate: what does not depend on a gate's result *)

GateErrors ==
  UNION {LET g == manifest.gates[name] IN Wrong({
    <<"unsupported result", g.result \notin {"eligible", "pending", "ineligible"}>>,
    <<"performed", g.action # "not-performed">>,
    <<"no basis", ~g.basis>>}) : name \in Gates}

PolicyErrors ==
  Wrong({
    <<"no wire policies", manifest.policies = <<>>>>,
    <<"duplicate policy", Duplicated(IdentitiesOf(manifest.policies))>>})
  \cup UNION {Wrong({
    <<"not frozen", p.status # "frozen">>,
    <<"no vectors", p.vectors = {}>>,
    <<"no goldens", p.goldens = {}>>}) : p \in ToSet(manifest.policies)}

\* Every retained implementation is still in its file.
RetainedErrors ==
  Wrong({
    <<"nothing retained", manifest.retained = <<>>>>,
    <<"duplicate role", Duplicated(RolesOf(manifest.retained))>>})
  \cup UNION {Wrong({
    <<"no path", Unusable({r.path}) # {}>>,
    <<"no anchor", r.path \in DOMAIN tree /\ r.anchor \notin tree[r.path]>>}) :
      r \in ToSet(manifest.retained)}

\* repository_paths
RepositoryPaths ==
  manifest.plans \cup UNION {p.vectors \cup p.goldens : p \in ToSet(manifest.policies)}

RepositoryErrors ==
  GateErrors \cup PolicyErrors \cup RetainedErrors
    \cup Wrong({
      <<"unsupported schema", ~manifest.schema>>,
      <<"evidence path", Unusable(RepositoryPaths) # {}>>})

-----------------------------------------------------------------------------
(* validate: what an eligible gate needs *)

PublicationErrors == Wrong({
  <<"package not eligible", ~Eligible("package-release")>>,
  <<"no corpus or matrix",
    ~({"integratedCorpus", "evolutionMatrix"} \subseteq manifest.milestones)>>})

HistoryErrors == LET h == manifest.history IN Wrong({
  <<"invalid digest", h.digests # Digests>>,
  <<"other consumer", h.consumer # manifest.gates["consumer-adoption"].consumer>>,
  <<"private payloads", h.private>>,
  <<"reports differ", ~h.identical>>,
  <<"unexpected failures", h.failures # 0>>,
  <<"outbound effects", h.outbound>>,
  <<"checkpoint not restored", h.checkpointAfter # h.checkpointBefore>>,
  <<"dead letters", h.deadLetters # 0>>,
  <<"workflow result",
    h.workflows # IF h.instances = 0 THEN "not-applicable-empty-history" ELSE "passed">>})

AdoptionErrors ==
  Wrong({
    <<"no history", "consumerHistory" \notin manifest.milestones>>,
    <<"missing evidence", manifest.gates["consumer-adoption"].missing>>,
    <<"unstructured history", ~manifest.history.structured>>})
  \cup IF manifest.history.structured THEN HistoryErrors ELSE {}

\* Mutant: the rehearsal may be of another candidate.
RehearsalErrors_AnyPatch == LET r == manifest.rehearsal IN Wrong({
  <<"rehearsal",
    r.passed # {"oldHistory", "processContinuation", "requiredReaderNegativeMutation"}>>,
  <<"generic support", ~r.opaque>>})

RehearsalErrors == LET r == manifest.rehearsal IN Wrong({
  <<"rehearsal",
    r.passed # {"oldHistory", "processContinuation", "requiredReaderNegativeMutation"}>>,
  <<"generic support", ~r.opaque>>,
  <<"other patch", r.patch # IF manifest.history.structured THEN manifest.history.patch ELSE "none">>})

RetirementErrors ==
  Wrong({
    <<"adoption not eligible", ~Eligible("consumer-adoption")>>,
    <<"no rehearsal", "retirementRehearsal" \notin manifest.milestones>>,
    <<"unstructured rehearsal", ~manifest.rehearsal.structured>>})
  \cup IF manifest.rehearsal.structured THEN RehearsalErrors ELSE {}

MappingErrors ==
  IF DOMAIN manifest.gates # Gates THEN {"gates"} ELSE
    RepositoryErrors
      \cup (IF Eligible("package-release") /\ RepositoryErrors # {}
            THEN {"eligible package"} ELSE {})
      \cup (IF Eligible("language-publication") THEN PublicationErrors ELSE {})
      \cup (IF Eligible("consumer-adoption") THEN AdoptionErrors ELSE {})
      \cup (IF Eligible("implementation-retirement") THEN RetirementErrors ELSE {})
      \cup Wrong({
        <<"pending adoption",
          Pending("consumer-adoption") /\ ~manifest.gates["consumer-adoption"].missing>>,
        <<"pending retirement",
          /\ Pending("implementation-retirement")
          /\ ~manifest.gates["implementation-retirement"].blocked>>,
        <<"legacy readers", ~manifest.gates["implementation-retirement"].readers>>})

\* load: the manifest is there and is one JSON object.
ManifestLoads == manifest.loads

-----------------------------------------------------------------------------
MappingInit ==
  /\ manifest = GoodManifest
  /\ tree = GoodTree
  /\ release = "none"
  /\ revised = 0

ReviseManifest ==
  /\ revised < MaxRevised
  /\ revised' = revised + 1
  /\ manifest' \in OtherManifests(manifest)
  /\ release' = "none"
  /\ UNCHANGED tree

\* A file goes, or what was in it.
ReviseTree(p) ==
  /\ revised < MaxRevised
  /\ revised' = revised + 1
  /\ \/ tree' = [q \in DOMAIN tree \ {p} |-> tree[q]]
     \/ tree' = [tree EXCEPT ![p] = {}]
  /\ release' = "none"
  /\ UNCHANGED manifest

CheckMapping ==
  /\ release' = IF ManifestLoads /\ MappingErrors = {} THEN "pass" ELSE "fail"
  /\ UNCHANGED <<manifest, tree, revised>>

MappingNext ==
  \/ ReviseManifest
  \/ \E p \in DOMAIN tree : ReviseTree(p)
  \/ CheckMapping

MappingSpec == MappingInit /\ [][MappingNext]_mappingVars

-----------------------------------------------------------------------------
(* Correctness *)

\* The consumer's restored history was replayed by both binaries alike and its
\* process went on to the same checkpoint, without effects outside.
HistoryProven == LET h == manifest.history IN
  /\ h.structured
  /\ h.consumer = manifest.gates["consumer-adoption"].consumer
  /\ h.identical /\ h.failures = 0 /\ h.deadLetters = 0
  /\ h.checkpointAfter = h.checkpointBefore
  /\ ~h.outbound /\ ~h.private
  /\ h.instances > 0 => h.workflows = "passed"

\* "Validate the checked-mapping initiative's four independent release gates": in
\* a manifest that passes, a later gate is eligible only if the ones it builds on
\* are, with evidence about one candidate, nothing is claimed to be done, and
\* every reader of old data is still in the tree.
MappingSound ==
  release = "pass" =>
    /\ \A name \in Gates : manifest.gates[name].action = "not-performed"
    /\ \A i \in DOMAIN manifest.retained :
         /\ manifest.retained[i].path \in DOMAIN tree
         /\ manifest.retained[i].anchor \in tree[manifest.retained[i].path]
    /\ Eligible("language-publication") =>
         /\ Eligible("package-release")
         /\ RepositoryPaths \subseteq DOMAIN tree
    /\ Eligible("consumer-adoption") => HistoryProven
    /\ Eligible("implementation-retirement") =>
         /\ HistoryProven
         /\ manifest.rehearsal.patch = manifest.history.patch
         /\ manifest.rehearsal.passed # {}
         /\ manifest.gates["implementation-retirement"].readers
=============================================================================
