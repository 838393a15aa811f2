---------------------------- MODULE Publication ----------------------------
(***************************************************************************)
(* From a gated candidate to the registry: just release-artifacts,         *)
(* release-consumer staged, release-ready and the review (their part about *)
(* archives), and the upload of release-gates/0.24.0.0-publication/        *)
(* publish.py, which does not take the workspace lock.                     *)
(*                                                                         *)
(* The files are those of dist-release/<version> for one version; a file's *)
(* checksum is its content.  What check_manifest decides is in             *)
(* ReleaseGate: here the set `gated' of sources it has accepted.            *)
(***************************************************************************)
EXTENDS Workspace

CONSTANTS
  Sources,      \* source archives of the packages
  Documents,    \* their documentation archives
  UploadOrder,  \* all archives, in dependency order
  Racing,       \* an archive may be replaced between its digest and its upload
  MaxBuilds     \* bound: builds of archives

Archives == Sources \cup Documents
\* An archive is the bytes it was made from and the build that made it.
Contents == [source : Trees, build : 1..MaxBuilds]

ASSUME PublicationOK ==
  /\ Sources # {}
  /\ Sources \cap Documents = {}
  /\ UploadOrder \in Seq(Archives)
  /\ {UploadOrder[i] : i \in DOMAIN UploadOrder} = Archives
  /\ \A i, j \in DOMAIN UploadOrder : UploadOrder[i] = UploadOrder[j] => i = j
  /\ Racing \in BOOLEAN
  /\ MaxBuilds \in Nat
  /\ None \notin Contents

VARIABLES
  gated,      \* sources with a manifest that check_manifest accepts
  archives,   \* the archives on disk
  builds,     \* how many builds have begun
  stray,      \* the build whose cabal sdist goes on after its command was killed
  inventory,  \* artifacts.json
  tested,     \* consumer: the source archives it has digested, and compiled
  staged,     \* consumer-staged/result.json
  readiness,  \* readiness.json
  uploads,    \* the status in uploads.json
  pub,        \* the publishing process: where it is, what it has read
  hackage     \* what the registry has received

dist == <<archives, builds, stray, inventory>>
consumer == <<tested, staged>>
publishing == <<uploads, pub, hackage>>
pubVars == <<gated, dist, consumer, readiness, publishing>>

Inventories == [source : Trees, sha : [Archives -> Contents]]
Tested == [named : [Sources -> Contents \cup {None}], compiled : [Sources -> Contents \cup {None}]]
Results == [status : {"running", "passed"}, source : Trees, finished : 0..MaxNow, archives : Tested]
Readiness == [source : Trees, inventory : Inventories]

NothingTested == [named |-> [a \in Sources |-> None], compiled |-> [a \in Sources |-> None]]
OfSources(f) == [a \in Sources |-> f[a]]

PubTypeOK ==
  /\ WorkspaceTypeOK
  /\ gated \subseteq Trees
  /\ archives \in [Archives -> Contents \cup {None}]
  /\ builds \in 0..MaxBuilds /\ stray \in 0..MaxBuilds
  /\ inventory \in Inventories \cup {None}
  /\ tested \in [Terminals -> Tested]
  /\ staged \in Results \cup {None}
  /\ readiness \in Readiness \cup {None}
  /\ uploads \in {"absent", "running", "failed", "passed"}
  /\ pub \in [phase : {"idle", "check", "send"}, pos : 0..Len(UploadOrder),
              source : Trees \cup {None}, sha : [Archives -> Contents] \cup {None}]
  /\ hackage \in Seq([archive : Archives, content : Contents])

PubInit ==
  /\ WorkspaceInit
  /\ gated = {}
  /\ archives = [a \in Archives |-> None]
  /\ builds = 0 /\ stray = 0 /\ inventory = None
  /\ tested = [t \in Terminals |-> NothingTested] /\ staged = None
  /\ readiness = None
  /\ uploads = "absent"
  /\ pub = [phase |-> "idle", pos |-> 0, source |-> None, sha |-> None]
  /\ hackage = <<>>

-----------------------------------------------------------------------------
\* A release gate for the committed tree is accepted.
GateAccepts ==
  /\ Clean /\ LockFree
  /\ gated' = gated \cup {tree}
  /\ UNCHANGED <<workspace, dist, consumer, readiness, publishing>>

PubLeave(t) ==
  /\ Leave(t)
  /\ tested' = [tested EXCEPT ![t] = NothingTested]

\* A cabal sdist whose parent is killed goes on.
PubStop(t) ==
  /\ ~At(t, "idle")
  /\ PubLeave(t)
  /\ stray' \in {stray, IF At(t, "sdist") THEN builds ELSE stray}
  /\ UNCHANGED <<worktree, gated, archives, builds, inventory, staged, readiness, publishing>>

(* artifacts *)

ArtifactsStart(t) ==
  /\ Clean
  /\ builds < MaxBuilds
  /\ Start(t, "sdist")
  /\ cand' = [cand EXCEPT ![t] = CurrentInputs]
  /\ builds' = builds + 1
  /\ UNCHANGED <<worktree, saw, gated, archives, stray, inventory, consumer, readiness, publishing>>

\* The build b writes the archives A anew; its bytes are its own.
Write(A, b) ==
  /\ Racing \/ pub.phase # "send"
  /\ archives' = [a \in Archives |->
                    IF a \in A THEN [source |-> tree, build |-> b] ELSE archives[a]]

Build(t, phase, A, next) ==
  /\ At(t, phase)
  /\ Write(A, builds)
  /\ Go(t, next)
  /\ UNCHANGED <<worktree, cand, saw, gated, builds, stray, inventory, consumer, readiness, publishing>>

\* cabal sdist, then cabal haddock and the copy of what it made.
Sdist(t) == Build(t, "sdist", Sources, "haddock")
Haddock(t) == Build(t, "haddock", Documents, "list")

\* Mutant: the source is not read again after the builds.
SourceKept_Unchecked(t) == TRUE

SourceKept(t) == tree = cand[t].source

\* The archives are digested and, if the source is what it was, listed.
ListArtifacts(t) ==
  /\ At(t, "list")
  /\ SourceKept(t)
  /\ inventory' = [source |-> cand[t].source, sha |-> archives]
  /\ PubLeave(t)
  /\ UNCHANGED <<worktree, gated, archives, builds, stray, staged, readiness, publishing>>

\* The build that outlived its command writes its archives.
StrayWrite ==
  /\ stray # 0
  /\ Write(Sources, stray)
  /\ stray' = 0
  /\ UNCHANGED <<workspace, gated, builds, inventory, consumer, readiness, publishing>>

(* consumer staged *)

\* A previous success must not survive a failed or interrupted retry: the
\* result is replaced before anything is checked.
ConsumerStart(t) ==
  /\ Clean
  /\ Start(t, "consumer")
  /\ cand' = [cand EXCEPT ![t] = CurrentInputs]
  /\ staged' = [status |-> "running", source |-> tree, finished |-> 0, archives |-> NothingTested]
  /\ UNCHANGED <<worktree, saw, gated, dist, tested, readiness, publishing>>

\* The inventory is for this source, and the source archives are the listed ones.
Digested(t) ==
  /\ inventory # None
  /\ inventory.source = cand[t].source
  /\ OfSources(archives) = OfSources(inventory.sha)

ConsumerCheck(t) ==
  /\ At(t, "consumer")
  /\ Digested(t)
  /\ tested' = [tested EXCEPT ![t].named = OfSources(archives)]
  /\ Go(t, "consumer-build")
  /\ UNCHANGED <<worktree, cand, saw, gated, dist, staged, readiness, publishing>>

\* cabal unpacks and compiles the archives it finds; the server answers.
ConsumerBuild(t) ==
  /\ At(t, "consumer-build")
  /\ tested' = [tested EXCEPT ![t].compiled = OfSources(archives)]
  /\ Go(t, "consumer-end")
  /\ UNCHANGED <<worktree, cand, saw, gated, dist, staged, readiness, publishing>>

ConsumerEnd(t) ==
  /\ At(t, "consumer-end")
  /\ SourceKept(t)
  /\ staged' = [status |-> "passed", source |-> cand[t].source, finished |-> now,
                archives |-> tested[t]]
  /\ PubLeave(t)
  /\ UNCHANGED <<worktree, gated, dist, readiness, publishing>>

-----------------------------------------------------------------------------
(* ready and the review *)

\* Mutant: the staged result is taken for any archives.
ArtifactsOK_AnyConsumer ==
  /\ inventory # None
  /\ inventory.source = tree
  /\ archives = inventory.sha
  /\ staged # None
  /\ staged.status = "passed"
  /\ staged.source = inventory.source
  /\ Fresh(staged.finished)

\* check_artifacts: the inventory is of the current source, the files are the
\* listed ones, and the staged consumer passed with these source archives.
ArtifactsOK ==
  /\ inventory # None
  /\ inventory.source = tree
  /\ archives = inventory.sha
  /\ staged # None
  /\ staged.status = "passed"
  /\ staged.source = inventory.source
  /\ Fresh(staged.finished)
  /\ staged.archives.named = OfSources(inventory.sha)

\* release-ready up to its check of the manifest.
ReadyBegin(t) ==
  /\ Clean
  /\ Start(t, "ready-preflight")
  /\ UNCHANGED <<worktree, cand, saw, pubVars>>

\* The current source is gated.
ReadyGated(t) ==
  /\ At(t, "ready-preflight")
  /\ tree \in gated
  /\ cand' = [cand EXCEPT ![t] = CurrentInputs]
  /\ Go(t, "ready-artifacts")
  /\ UNCHANGED <<worktree, saw, pubVars>>

\* RELEASE_READY is printed, or the review goes on.
ReadyArtifacts(t) ==
  /\ At(t, "ready-artifacts")
  /\ ArtifactsOK
  /\ Go(t, "ready")
  /\ UNCHANGED <<worktree, cand, saw, pubVars>>

\* The review writes what it has verified.
ReviewWrite(t) ==
  /\ At(t, "ready")
  /\ readiness' = [source |-> tree, inventory |-> inventory]
  /\ PubLeave(t)
  /\ UNCHANGED <<worktree, gated, dist, staged, publishing>>

-----------------------------------------------------------------------------
(* publish.py *)

Archive == UploadOrder[pub.pos]

\* Mutant: a publication that has not passed is tried again.
NotAttempted_Retry == uploads # "passed"

\* Do not repeat or hide a publication attempt.
NotAttempted == uploads = "absent"

PublishStart ==
  /\ pub.phase = "idle"
  /\ Clean
  /\ readiness # None
  /\ readiness.source = tree
  /\ ArtifactsOK
  /\ inventory = readiness.inventory
  /\ NotAttempted
  /\ uploads' = "running"
  /\ pub' = [phase |-> "check", pos |-> 1, source |-> readiness.source, sha |-> inventory.sha]
  /\ UNCHANGED <<workspace, gated, dist, consumer, readiness, hackage>>

\* Mutant: the archive is not digested again before its upload.
UploadOK_NoDigest == tree = pub.source

\* Each archive is digested, and the source read, right before its upload.
UploadOK ==
  /\ archives[Archive] = pub.sha[Archive]
  /\ tree = pub.source

PublishCheck ==
  /\ pub.phase = "check"
  /\ UploadOK
  /\ pub' = [pub EXCEPT !.phase = "send"]
  /\ UNCHANGED <<workspace, gated, dist, consumer, readiness, uploads, hackage>>

\* cabal upload reads the file and sends it.
Send == hackage' = Append(hackage, [archive |-> Archive, content |-> archives[Archive]])

PublishSend ==
  /\ pub.phase = "send"
  /\ Send
  /\ IF pub.pos = Len(UploadOrder)
     THEN pub' = [pub EXCEPT !.phase = "idle"] /\ uploads' = "passed"
     ELSE pub' = [pub EXCEPT !.phase = "check", !.pos = @ + 1] /\ UNCHANGED uploads
  /\ UNCHANGED <<workspace, gated, dist, consumer, readiness>>

\* The upload fails: the registry may have taken the archive all the same.
PublishFail ==
  /\ pub.phase = "send"
  /\ \/ Send
     \/ UNCHANGED hackage
  /\ pub' = [pub EXCEPT !.phase = "idle"]
  /\ uploads' = "failed"
  /\ UNCHANGED <<workspace, gated, dist, consumer, readiness>>

\* An assertion fails before an upload, or the process is killed.
PublishStop ==
  /\ pub.phase # "idle"
  /\ pub' = [pub EXCEPT !.phase = "idle"]
  /\ UNCHANGED <<workspace, gated, dist, consumer, readiness, uploads, hackage>>

PubCommand(t) ==
  \/ ArtifactsStart(t)
  \/ Sdist(t)
  \/ Haddock(t)
  \/ ListArtifacts(t)
  \/ ConsumerStart(t)
  \/ ConsumerCheck(t)
  \/ ConsumerBuild(t)
  \/ ConsumerEnd(t)
  \/ ReadyBegin(t)
  \/ ReadyGated(t)
  \/ ReadyArtifacts(t)
  \/ ReviewWrite(t)
  \/ PubStop(t)

Publish ==
  \/ PublishStart
  \/ PublishCheck
  \/ PublishSend
  \/ PublishFail
  \/ PublishStop

PubNext ==
  \/ Developer /\ UNCHANGED pubVars
  \/ GateAccepts
  \/ \E t \in Terminals : PubCommand(t)
  \/ StrayWrite
  \/ Publish

-----------------------------------------------------------------------------
\* When release-ready reports success, the gate, the archives and their
\* staged proof are of one source, unless older bytes were put back while a
\* command ran.
ReadyIsOneCandidate ==
  \A t \in Terminals : At(t, "ready") /\ ~restored =>
    \A a \in Archives : inventory.sha[a].source = cand[t].source

\* When release-ready reports success, the source archives it lists are those
\* that the staged consumer compiled and ran, also when a build outlived its
\* command and wrote under the consumer.
ReadyIsTested ==
  \A t \in Terminals : At(t, "ready") =>
    staged.archives.compiled = OfSources(inventory.sha)

\* What reaches the registry is what was audited, byte for byte, and made
\* from a source that passed the gate: rebuilds that overlap the publication
\* are noticed before the next upload.
UploadsAudited ==
  \A i \in DOMAIN hackage :
    /\ hackage[i].content = pub.sha[hackage[i].archive]
    /\ restored \/ hackage[i].content.source \in gated

\* Publication goes through the archives in dependency order, once: after a
\* failure or a kill no archive is sent a second time.
PublishedOnce ==
  \A i \in DOMAIN hackage : hackage[i].archive = UploadOrder[i]

PubSpec == PubInit /\ [][PubNext]_<<workspace, pubVars>>
=============================================================================
