--------------------------- MODULE Release_proofs ---------------------------
(***************************************************************************)
(* Proofs about Publication and ReleaseGate, for any number of terminals,  *)
(* packages, guards, builds, attempts and edits.                           *)
(***************************************************************************)
EXTENDS Publication, ReleaseGate, TLAPS

-----------------------------------------------------------------------------
(* Publication *)

pubAll == <<workspace, pubVars>>

\* What is on disk for an archive.
Files == [source : Nat, build : Nat] \cup {None}

\* The bytes of the tree are numbered; only the terminal that holds the lock
\* has a command; archives are files.
Base ==
  /\ edits \in Nat /\ tree \in 0..edits
  /\ DOMAIN pc = Terminals /\ DOMAIN cand = Terminals
  /\ \A t \in Terminals : pc[t] # "idle" => lock = t
  /\ builds \in Nat /\ stray \in Nat
  /\ archives \in [Archives -> Files]

\* Base is kept by every step of Publication.
LEMMA BaseInv == PubSpec => []Base
<1>1. PubInit => Base
  BY WorkspaceOK DEF WorkspaceOK, PubInit, WorkspaceInit, Base, Files
<1>2. Base /\ [PubNext]_pubAll => Base'
  <2>. SUFFICES ASSUME Base, [PubNext]_pubAll PROVE Base'
    OBVIOUS
  <2>. USE WorkspaceOK DEF Base, WorkspaceOK, worktree, command, workspace,
         dist, consumer, publishing, pubVars
  <2>1. CASE Developer /\ UNCHANGED pubVars
    BY <2>1 DEF Developer, Edit, Restore, Commit, Tick, Becomes
  <2>2. CASE GateAccepts
    BY <2>2 DEF GateAccepts
  <2>3. ASSUME NEW t \in Terminals, PubCommand(t) PROVE Base'
    <3>. USE DEF Start, Go, At, LockFree, Leave, PubLeave, Write, Files
    <3>1. CASE ArtifactsStart(t) BY <3>1 DEF ArtifactsStart
    <3>2. CASE Sdist(t) BY <3>2 DEF Sdist, Build
    <3>3. CASE Haddock(t) BY <3>3 DEF Haddock, Build
    <3>4. CASE ListArtifacts(t) BY <3>4 DEF ListArtifacts
    <3>5. CASE ConsumerStart(t) BY <3>5 DEF ConsumerStart
    <3>6. CASE ConsumerCheck(t) BY <3>6 DEF ConsumerCheck
    <3>7. CASE ConsumerBuild(t) BY <3>7 DEF ConsumerBuild
    <3>8. CASE ConsumerEnd(t) BY <3>8 DEF ConsumerEnd
    <3>9. CASE ReadyBegin(t) BY <3>9 DEF ReadyBegin
    <3>10. CASE ReadyGated(t) BY <3>10 DEF ReadyGated
    <3>11. CASE ReadyArtifacts(t) BY <3>11 DEF ReadyArtifacts
    <3>12. CASE ReviewWrite(t) BY <3>12 DEF ReviewWrite
    <3>13. CASE PubStop(t) BY <3>13 DEF PubStop
    <3>. QED BY <2>3, <3>1, <3>2, <3>3, <3>4, <3>5, <3>6, <3>7, <3>8, <3>9,
                <3>10, <3>11, <3>12, <3>13 DEF PubCommand
  <2>4. CASE StrayWrite
    BY <2>4 DEF StrayWrite, Write, Files
  <2>5. CASE Publish
    BY <2>5 DEF Publish, PublishStart, PublishCheck, PublishSend, PublishFail, PublishStop
  <2>6. CASE UNCHANGED pubAll
    BY <2>6 DEF pubAll
  <2>. QED BY <2>1, <2>2, <2>3, <2>4, <2>5, <2>6 DEF PubNext
<1>. QED BY <1>1, <1>2, PTL DEF PubSpec, pubAll

\* Until the publication has begun nothing is on the registry; then what is
\* there is a beginning of the upload order, and while an archive is checked or
\* sent, all before it.
PubRecord == pub = [phase |-> pub.phase, pos |-> pub.pos, source |-> pub.source, sha |-> pub.sha]
SentInOrder ==
  /\ PubRecord
  /\ uploads = "absent" => hackage = <<>> /\ pub.phase = "idle"
  /\ pub.phase # "idle" => pub.pos \in DOMAIN UploadOrder /\ Len(hackage) = pub.pos - 1
  /\ hackage \in Seq([archive : Archives, content : Files])
  /\ PublishedOnce

LEMMA UploadsSome == UploadOrder \in Seq(Archives) /\ Len(UploadOrder) \in Nat \ {0}
<1>1. PICK a : a \in Sources
  BY PublicationOK DEF PublicationOK
<1>2. PICK i \in DOMAIN UploadOrder : UploadOrder[i] = a
  BY <1>1, PublicationOK DEF PublicationOK, Archives
<1>. QED BY <1>2, PublicationOK DEF PublicationOK

\* One more archive on the registry.
LEMMA SendInOrder ==
  ASSUME Base, SentInOrder, pub.phase = "send", Send
  PROVE  /\ Len(hackage') = pub.pos
         /\ hackage' \in Seq([archive : Archives, content : Files])
         /\ PublishedOnce'
<1>1. Archive \in Archives /\ Archive = UploadOrder[pub.pos] /\ pub.pos \in Nat \ {0}
  BY UploadsSome DEF SentInOrder, Archive
<1>2. archives[Archive] \in Files
  BY <1>1 DEF Base
<1>. DEFINE sent == [archive |-> Archive, content |-> archives[Archive]]
<1>3. sent \in [archive : Archives, content : Files] /\ sent.archive = UploadOrder[pub.pos]
  BY <1>1, <1>2
<1>4. hackage' = Append(hackage, sent)
  BY DEF Send
<1>. HIDE DEF sent
<1>. QED BY <1>1, <1>3, <1>4 DEF SentInOrder, PublishedOnce

LEMMA InOrderInv == PubSpec => []SentInOrder
<1>1. PubInit => SentInOrder
  BY DEF PubInit, SentInOrder, PublishedOnce, PubRecord
<1>2. Base /\ SentInOrder /\ [PubNext]_pubAll => SentInOrder'
  <2>. SUFFICES ASSUME Base, SentInOrder, [PubNext]_pubAll PROVE SentInOrder'
    OBVIOUS
  <2>1. CASE UNCHANGED publishing
    BY <2>1 DEF SentInOrder, PublishedOnce, PubRecord, publishing
  <2>2. CASE PublishStart
    BY <2>2, UploadsSome DEF PublishStart, NotAttempted, SentInOrder, PubRecord, PublishedOnce
  <2>3. CASE PublishCheck
    <3>1. pub'.phase = "send" /\ pub'.pos = pub.pos /\ pub.phase = "check" /\ PubRecord'
      BY <2>3 DEF PublishCheck, SentInOrder, PubRecord
    <3>. QED BY <2>3, <3>1 DEF PublishCheck, SentInOrder, PublishedOnce
  <2>4. CASE PublishSend
    <3>1. /\ Len(hackage') = pub.pos
          /\ hackage' \in Seq([archive : Archives, content : Files])
          /\ PublishedOnce'
      BY <2>4, SendInOrder DEF PublishSend
    <3>2. uploads' # "absent"
      BY <2>4 DEF PublishSend, SentInOrder
    <3>3. CASE pub.pos = Len(UploadOrder)
      <4>1. pub'.phase = "idle" /\ PubRecord'
        BY <2>4, <3>3 DEF PublishSend, SentInOrder, PubRecord
      <4>. QED BY <3>1, <3>2, <4>1 DEF SentInOrder
    <3>4. CASE pub.pos # Len(UploadOrder)
      <4>1. pub'.phase = "check" /\ pub'.pos = pub.pos + 1 /\ PubRecord'
        BY <2>4, <3>4 DEF PublishSend, SentInOrder, PubRecord
      <4>2. pub.pos + 1 \in DOMAIN UploadOrder
        BY <2>4, <3>4, UploadsSome DEF PublishSend, SentInOrder
      <4>. QED BY <3>1, <3>2, <4>1, <4>2, UploadsSome DEF SentInOrder
    <3>. QED BY <3>3, <3>4
  <2>5. CASE PublishFail
    <3>1. uploads' # "absent" /\ pub'.phase = "idle" /\ pub.phase = "send" /\ PubRecord'
      BY <2>5 DEF PublishFail, SentInOrder, PubRecord
    <3>2. CASE Send
      BY <2>5, <3>1, <3>2, SendInOrder DEF SentInOrder
    <3>3. CASE UNCHANGED hackage
      BY <3>1, <3>3 DEF SentInOrder, PublishedOnce
    <3>. QED BY <2>5, <3>2, <3>3 DEF PublishFail
  <2>6. CASE PublishStop
    <3>1. pub'.phase = "idle" /\ UNCHANGED <<uploads, hackage>> /\ pub.phase # "idle" /\ PubRecord'
      BY <2>6 DEF PublishStop, SentInOrder, PubRecord
    <3>. QED BY <3>1 DEF SentInOrder, PublishedOnce
  <2>7. CASE \E t \in Terminals : PubCommand(t)
    <3>. PICK t \in Terminals : PubCommand(t)
      BY <2>7
    <3>1. UNCHANGED publishing
      BY DEF PubCommand, ArtifactsStart, Sdist, Haddock, Build, ListArtifacts, ConsumerStart,
             ConsumerCheck, ConsumerBuild, ConsumerEnd, ReadyBegin, ReadyGated, ReadyArtifacts,
             ReviewWrite, PubStop, pubVars
    <3>. QED BY <3>1, <2>1
  <2>. QED BY <2>1, <2>2, <2>3, <2>4, <2>5, <2>6, <2>7
           DEF PubNext, GateAccepts, StrayWrite, Publish, pubVars, pubAll
<1>. QED BY <1>1, <1>2, BaseInv, PTL DEF PubSpec, pubAll

\* Archives reach the registry in dependency order and once, however builds,
\* commands, failures and kills fall between the uploads.
THEOREM PublishesOnce == PubSpec => []PublishedOnce
<1>1. SentInOrder => PublishedOnce
  BY DEF SentInOrder
<1>. QED BY <1>1, InOrderInv, PTL

-----------------------------------------------------------------------------
(* One candidate *)

\* Numbers of the candidate and of the inventory are of bytes there have been:
\* the next edit makes others.
Known ==
  /\ inventory # None => inventory.source \in 0..edits
  /\ \A t \in Terminals :
       pc[t] \in {"sdist", "haddock", "list", "ready-artifacts", "ready"} => cand[t].source \in 0..edits

\* As long as the source is the candidate's and nothing was put back, it was the
\* candidate's when the archives were written.
Built ==
  \A t \in Terminals : ~restored /\ tree = cand[t].source =>
    /\ pc[t] = "haddock" => \A a \in Sources : archives[a].source = cand[t].source
    /\ pc[t] = "list" => \A a \in Archives : archives[a].source = cand[t].source

Listed ==
  inventory # None /\ ~restored => \A a \in Archives : inventory.sha[a].source = inventory.source

\* release-ready has found the candidate's gate; the inventory can only be of
\* the current source if that is still the candidate's.
Ready ==
  \A t \in Terminals :
    /\ pc[t] \in {"ready-artifacts", "ready"} => cand[t].source \in gated
    /\ pc[t] = "ready-artifacts" /\ inventory # None =>
         restored \/ tree = cand[t].source \/ inventory.source # tree
    /\ pc[t] = "ready" =>
         inventory # None /\ (restored \/ inventory.source = cand[t].source)

OneCandidate == Known /\ Built /\ Listed /\ Ready

LEMMA OneCandidateInv == PubSpec => []OneCandidate
<1>1. PubInit => OneCandidate
  BY DEF PubInit, WorkspaceInit, OneCandidate, Known, Built, Listed, Ready
<1>2. Base /\ OneCandidate /\ [PubNext]_pubAll => OneCandidate'
  <2>. SUFFICES ASSUME Base, OneCandidate, [PubNext]_pubAll PROVE OneCandidate'
    OBVIOUS
  <2>. USE WorkspaceOK DEF Base, WorkspaceOK, OneCandidate, Known, Built, Listed, Ready,
         worktree, command, workspace, dist, consumer, publishing, pubVars
  <2>1. CASE Developer /\ UNCHANGED pubVars
    <3>1. CASE Edit BY <2>1, <3>1 DEF Edit, Becomes
    <3>2. ASSUME NEW s \in Trees, Restore(s) PROVE OneCandidate'
      BY <2>1, <3>2 DEF Restore, Becomes
    <3>3. CASE Commit BY <2>1, <3>3 DEF Commit
    <3>4. CASE Tick BY <2>1, <3>4 DEF Tick
    <3>. QED BY <2>1, <3>1, <3>2, <3>3, <3>4 DEF Developer
  <2>2. CASE GateAccepts
    BY <2>2 DEF GateAccepts
  <2>3. ASSUME NEW t \in Terminals, PubCommand(t) PROVE OneCandidate'
    <3>. USE DEF Start, Go, At, LockFree, Leave, PubLeave, Write, CurrentInputs, Archives
    <3>1. CASE ArtifactsStart(t) BY <3>1 DEF ArtifactsStart
    <3>2. CASE Sdist(t) BY <3>2 DEF Sdist, Build
    <3>3. CASE Haddock(t) BY <3>3 DEF Haddock, Build
    <3>4. CASE ListArtifacts(t) BY <3>4 DEF ListArtifacts, SourceKept
    <3>5. CASE ConsumerStart(t) BY <3>5 DEF ConsumerStart
    <3>6. CASE ConsumerCheck(t) BY <3>6 DEF ConsumerCheck
    <3>7. CASE ConsumerBuild(t) BY <3>7 DEF ConsumerBuild
    <3>8. CASE ConsumerEnd(t) BY <3>8 DEF ConsumerEnd
    <3>9. CASE ReadyBegin(t) BY <3>9 DEF ReadyBegin
    <3>10. CASE ReadyGated(t) BY <3>10 DEF ReadyGated
    <3>11. CASE ReadyArtifacts(t) BY <3>11 DEF ReadyArtifacts, ArtifactsOK
    <3>12. CASE ReviewWrite(t) BY <3>12 DEF ReviewWrite
    <3>13. CASE PubStop(t) BY <3>13 DEF PubStop
    <3>. QED BY <2>3, <3>1, <3>2, <3>3, <3>4, <3>5, <3>6, <3>7, <3>8, <3>9,
                <3>10, <3>11, <3>12, <3>13 DEF PubCommand
  <2>4. CASE StrayWrite
    BY <2>4 DEF StrayWrite, Write, Archives
  <2>5. CASE Publish
    BY <2>5 DEF Publish, PublishStart, PublishCheck, PublishSend, PublishFail, PublishStop
  <2>6. CASE UNCHANGED pubAll
    BY <2>6 DEF pubAll
  <2>. QED BY <2>1, <2>2, <2>3, <2>4, <2>5, <2>6 DEF PubNext
<1>. QED BY <1>1, <1>2, BaseInv, PTL DEF PubSpec, pubAll

\* release-ready reports success only for archives that were all made from the
\* source that passed the gate, unless older bytes were put back meanwhile.
THEOREM ReadyOnOneCandidate == PubSpec => []ReadyIsOneCandidate
<1>1. OneCandidate => ReadyIsOneCandidate
  BY DEF OneCandidate, Listed, Ready, ReadyIsOneCandidate, At
<1>. QED BY <1>1, OneCandidateInv, PTL

\* What the publication works with is gated: the reviewed inventory, the digests
\* it goes by, the archive it has just digested, and what has been received.
Audited ==
  /\ readiness # None => restored \/ readiness.inventory.source \in gated
  /\ pub.phase # "idle" => restored \/ \A a \in Archives : pub.sha[a].source \in gated
  /\ pub.phase = "send" => archives[Archive] = pub.sha[Archive]
  /\ UploadsAudited

LEMMA SendAudited ==
  ASSUME Base, SentInOrder, Audited, pub.phase = "send", Send, pub'.sha = pub.sha, UNCHANGED <<gated, restored>>
  PROVE  UploadsAudited'
<1>1. Archive \in Archives /\ archives[Archive] \in Files
  BY UploadsSome DEF SentInOrder, Archive, Base
<1>. DEFINE sent == [archive |-> Archive, content |-> archives[Archive]]
<1>2. sent \in [archive : Archives, content : Files]
  BY <1>1
<1>3. sent.content = pub.sha[sent.archive] /\ (restored \/ sent.content.source \in gated)
  BY <1>1 DEF Audited
<1>4. hackage' = Append(hackage, sent)
  BY DEF Send
<1>. HIDE DEF sent
<1>. QED BY <1>2, <1>3, <1>4 DEF SentInOrder, Audited, UploadsAudited

\* If nothing replaces an archive between its digest and its upload, what
\* reaches the registry is byte for byte what was reviewed, and of a source that
\* passed the gate.
THEOREM UploadsAreAudited ==
  ASSUME ~Racing
  PROVE  PubSpec => []UploadsAudited
<1>1. PubInit => Audited
  BY DEF PubInit, Audited, UploadsAudited
<1>2. Base /\ SentInOrder /\ OneCandidate /\ Audited /\ [PubNext]_pubAll => Audited'
  <2>. SUFFICES ASSUME Base, SentInOrder, OneCandidate, Audited, [PubNext]_pubAll PROVE Audited'
    OBVIOUS
  <2>. USE DEF worktree, command, workspace, dist, consumer, publishing, pubVars
  <2>1. CASE Developer /\ UNCHANGED pubVars
    <3>1. restored => restored'
      BY <2>1 DEF Developer, Edit, Restore, Commit, Tick
    <3>. QED BY <2>1, <3>1 DEF Audited, UploadsAudited, Archive
  <2>2. CASE GateAccepts
    BY <2>2 DEF GateAccepts, Audited, UploadsAudited, Archive
  <2>3. ASSUME NEW t \in Terminals, PubCommand(t) PROVE Audited'
    <3>1. UNCHANGED <<restored, gated, publishing>> /\ (UNCHANGED archives \/ pub.phase # "send")
      BY <2>3 DEF PubCommand, ArtifactsStart, Sdist, Haddock, Build, ListArtifacts, ConsumerStart,
             ConsumerCheck, ConsumerBuild, ConsumerEnd, ReadyBegin, ReadyGated, ReadyArtifacts,
             ReviewWrite, PubStop, Write
    <3>2. CASE UNCHANGED readiness
      BY <3>1, <3>2 DEF Audited, UploadsAudited, Archive
    <3>3. CASE ReviewWrite(t)
      <4>1. restored \/ readiness'.inventory.source \in gated
        BY <3>3 DEF ReviewWrite, At, OneCandidate, Ready
      <4>. QED BY <3>1, <4>1 DEF Audited, UploadsAudited, Archive
    <3>4. ReviewWrite(t) \/ UNCHANGED readiness
      BY <2>3 DEF PubCommand, ArtifactsStart, Sdist, Haddock, Build, ListArtifacts, ConsumerStart,
             ConsumerCheck, ConsumerBuild, ConsumerEnd, ReadyBegin, ReadyGated, ReadyArtifacts,
             PubStop
    <3>. QED BY <3>2, <3>3, <3>4
  <2>4. CASE StrayWrite
    BY <2>4 DEF StrayWrite, Write, Audited, UploadsAudited, Archive
  <2>5. CASE PublishStart
    <3>1. hackage = <<>> /\ hackage' = <<>>
      BY <2>5 DEF PublishStart, NotAttempted, SentInOrder
    <3>2. restored \/ \A a \in Archives : inventory.sha[a].source \in gated
      BY <2>5 DEF PublishStart, ArtifactsOK, Audited, OneCandidate, Listed
    <3>. QED BY <2>5, <3>1, <3>2 DEF PublishStart, Audited, UploadsAudited
  <2>6. CASE PublishCheck
    <3>1. pub'.phase = "send" /\ pub'.pos = pub.pos /\ pub'.sha = pub.sha /\ pub.phase = "check"
      BY <2>6 DEF PublishCheck, SentInOrder, PubRecord
    <3>. QED BY <2>6, <3>1 DEF PublishCheck, UploadOK, Audited, UploadsAudited, Archive
  <2>7. CASE PublishSend \/ PublishFail
    <3>1. /\ pub'.phase # "send" /\ pub'.sha = pub.sha /\ pub.phase = "send"
          /\ UNCHANGED <<restored, gated, readiness>>
      BY <2>7 DEF PublishSend, PublishFail, SentInOrder, PubRecord
    <3>2. UploadsAudited'
      BY <2>7, <3>1, SendAudited DEF PublishSend, PublishFail, Audited, UploadsAudited
    <3>. QED BY <3>1, <3>2 DEF Audited
  <2>8. CASE PublishStop
    <3>1. pub'.phase = "idle" /\ pub'.sha = pub.sha
      BY <2>8 DEF PublishStop, SentInOrder, PubRecord
    <3>. QED BY <2>8, <3>1 DEF PublishStop, Audited, UploadsAudited
  <2>9. CASE UNCHANGED pubAll
    BY <2>9 DEF pubAll, Audited, UploadsAudited, Archive
  <2>. QED BY <2>1, <2>2, <2>3, <2>4, <2>5, <2>6, <2>7, <2>8, <2>9 DEF PubNext, Publish
<1>3. Audited => UploadsAudited
  BY DEF Audited
<1>. QED BY <1>1, <1>2, <1>3, BaseInv, InOrderInv, OneCandidateInv, PTL DEF PubSpec, pubAll

-----------------------------------------------------------------------------
(* ReleaseGate *)

gateAll == <<workspace, gateVars>>

\* Only the terminal that holds the lock has a command; what its phase says of
\* its candidate, its stages and the last attempt.
Phased ==
  \A t \in Terminals :
    /\ pc[t] # "idle" => lock = t
    /\ pc[t] \in {"stage", "running"} =>
         cand[t] \in Inputs /\ cand[t].source <= edits /\ chosen[t] \in Recorded
    /\ pc[t] \in {"ready-manifest", "review"} => chosen[t] \in manifests
    /\ pc[t] = "running" =>
         /\ Len(attempts) > 0
         /\ attempts[Len(attempts)].status = "none"
         /\ attempts[Len(attempts)].inputs = cand[t]

GateBase == GateTypeOK /\ Phased

LEMMA InputsNow == WorkspaceTypeOK => CurrentInputs \in Inputs /\ CurrentInputs.source <= edits
  BY WorkspaceOK DEF WorkspaceOK, WorkspaceTypeOK, CurrentInputs, Inputs, Trees

LEMMA StagesInOrder ==
  /\ Len(StageOrder) \in Nat /\ DOMAIN StageOrder = 1 .. Len(StageOrder)
  /\ StageOrder[1] = "correctness" /\ 1 \in DOMAIN StageOrder
  /\ \A i \in DOMAIN StageOrder : StageOrder[i] \in Stages
<1>1. Guards \in Seq(STRING) /\ \A i \in DOMAIN Guards : Guards[i] \in GuardSet
  BY GateOK DEF GateOK, GuardSet
<1>. QED BY <1>1 DEF StageOrder, Stages

LEMMA GateBaseInv == GateSpec => []GateBase
<1>1. GateInit => GateBase
  <2>. SUFFICES ASSUME GateInit PROVE GateBase
    OBVIOUS
  <2>. USE WorkspaceOK, GateOK DEF WorkspaceOK, GateOK, GateInit, WorkspaceInit
  <2>1. WorkspaceTypeOK
    <3>1. tree \in 0..edits /\ head \in 0..edits /\ edits \in Trees
      BY DEF Trees
    <3>2. restored \in BOOLEAN
      OBVIOUS
    <3>3. env \in 0..MaxChanges /\ now \in 0..MaxNow /\ lock \in Terminals \cup {None}
      OBVIOUS
    <3>4. pc \in [Terminals -> Phases]
      BY DEF Phases
    <3>5. cand \in [Terminals -> Inputs \cup {None}]
      OBVIOUS
    <3>6. saw \in [Terminals -> SUBSET Trees]
      OBVIOUS
    <3>. HIDE DEF GateInit, WorkspaceInit
    <3>. QED BY <3>1, <3>2, <3>3, <3>4, <3>5, <3>6 DEF WorkspaceTypeOK
  <2>2. GateTypeOK
    BY <2>1 DEF GateTypeOK
  <2>. QED BY <2>2 DEF GateBase, Phased
<1>2. GateBase /\ [GateNext]_gateAll => GateBase'
  <2>. SUFFICES ASSUME GateBase, [GateNext]_gateAll PROVE GateBase'
    OBVIOUS
  <2>. USE WorkspaceOK DEF GateBase, GateTypeOK, WorkspaceTypeOK, Phased, WorkspaceOK, Phases,
         worktree, command, workspace, gateVars, Attempts
  <2>1. CASE (Developer \/ Restart) /\ UNCHANGED gateVars
    <3>. USE DEF Trees
    <3>1. CASE Edit
      <4>1. edits + 1 \in Trees /\ edits \in Nat
        BY <3>1 DEF Edit
      <4>2. saw' \in [Terminals -> SUBSET Trees]
        BY <3>1, <4>1 DEF Edit, Becomes
      <4>. QED BY <2>1, <3>1, <4>1, <4>2 DEF Edit, Becomes, Inputs
    <3>2. ASSUME NEW s \in Trees, Restore(s) PROVE GateBase'
      <4>1. restored' \in BOOLEAN
        BY <3>2 DEF Restore
      <4>2. saw' \in [Terminals -> SUBSET Trees]
        BY <3>2 DEF Restore, Becomes
      <4>3. tree' \in 0..edits' /\ UNCHANGED <<head, edits, env, now, lock, pc, cand>>
        BY <3>2 DEF Restore, Becomes
      <4>. QED BY <2>1, <4>1, <4>2, <4>3
    <3>3. CASE Commit \/ Tick \/ Restart BY <2>1, <3>3 DEF Commit, Tick, Restart
    <3>. QED BY <2>1, <3>1, <3>2, <3>3 DEF Developer
  <2>2. ASSUME NEW t \in Terminals, GateCommand(t) PROVE GateBase'
    <3>. USE DEF Start, Go, At, LockFree, Leave, GateLeave
    <3>1. ASSUME NEW f \in BOOLEAN, GateStart(t, f) PROVE GateBase'
      BY <3>1 DEF GateStart
    <3>2. CASE GateInputs(t)
      <4>1. [s \in Stages |-> 0] \in Recorded
        BY GateOK DEF GateOK, Recorded
      <4>. QED BY <3>2, <4>1, InputsNow DEF GateInputs
    <3>3. ASSUME NEW s \in Stages, StageReuse(t, s) PROVE GateBase'
      <4>1. PICK i \in Attempts : Record(t, s, i)
        BY <3>3 DEF StageReuse
      <4>2. chosen[t] \in Recorded /\ i \in 0 .. MaxAttempts
        BY <3>3, GateOK DEF StageReuse, GateOK
      <4>3. [chosen[t] EXCEPT ![s] = i] \in Recorded
        BY <4>2 DEF Recorded
      <4>4. chosen' = [chosen EXCEPT ![t] = [chosen[t] EXCEPT ![s] = i]]
        BY <4>1 DEF Record
      <4>. QED BY <3>3, <4>3, <4>4 DEF StageReuse
    <3>4. ASSUME NEW s \in Stages, StageRun(t, s) PROVE GateBase'
      <4>. DEFINE receipt == [stage |-> s, inputs |-> cand[t], status |-> "none", finished |-> 0, saw |-> {}]
      <4>1. receipt \in Receipts /\ receipt.status = "none" /\ receipt.inputs = cand[t]
        BY <3>4 DEF StageRun, Receipts
      <4>2. attempts' = Append(attempts, receipt)
        BY <3>4 DEF StageRun
      <4>. HIDE DEF receipt
      <4>3. /\ attempts' \in Seq(Receipts) /\ Len(attempts') = Len(attempts) + 1
            /\ attempts'[Len(attempts')] = receipt
        BY <4>1, <4>2
      <4>4. Len(attempts') <= MaxAttempts
        BY <3>4, <4>3, GateOK DEF StageRun, GateOK
      <4>5. {tree} \subseteq Trees
        BY DEF Trees
      <4>. QED BY <3>4, <4>1, <4>3, <4>4, <4>5 DEF StageRun
    <3>5. ASSUME NEW exit \in {"pass", "red"}, StageEnd(t, exit) PROVE GateBase'
      <4>. DEFINE i == Len(attempts)
                  status == StageStatus(t, exit)
                  receipt == IF status = "pass"
                             THEN [attempts[i] EXCEPT !.status = status, !.finished = now, !.saw = saw[t]]
                             ELSE [attempts[i] EXCEPT !.status = status]
      <4>1. i \in DOMAIN attempts /\ attempts[i] \in Receipts /\ i \in 0 .. MaxAttempts
        BY <3>5, GateOK DEF StageEnd, GateOK
      <4>2. status \in {"pass", "red"}
        BY DEF StageStatus
      <4>3. receipt \in Receipts
        BY <4>1, <4>2 DEF Receipts
      <4>4. attempts' = [attempts EXCEPT ![i] = receipt]
        BY <3>5 DEF StageEnd
      <4>5. attempts[i].stage \in Stages
        BY <4>1 DEF Receipts
      <4>6. chosen' = [chosen EXCEPT ![t] = [chosen[t] EXCEPT ![attempts[i].stage] = i]]
        BY <3>5 DEF StageEnd, Record
      <4>7. [chosen[t] EXCEPT ![attempts[i].stage] = i] \in Recorded
        BY <3>5, <4>1, <4>5 DEF StageEnd, Recorded
      <4>. HIDE DEF receipt, status
      <4>8. attempts' \in Seq(Receipts) /\ Len(attempts') = Len(attempts)
        BY <4>1, <4>3, <4>4
      <4>. QED BY <3>5, <4>6, <4>7, <4>8 DEF StageEnd
    <3>6. CASE Finish(t)
      <4>1. [inputs |-> cand[t], stages |-> chosen[t], accepted |-> Accepts(t)] \in Manifests
        BY <3>6 DEF Finish, Manifests, Accepts
      <4>. QED BY <3>6, <4>1 DEF Finish
    <3>7. ASSUME NEW m \in manifests, ReadyStart(t, m) \/ ReviewStart(t, m) PROVE GateBase'
      BY <3>7 DEF ReadyStart, ReviewStart
    <3>8. CASE ReadyManifest(t) \/ ReviewManifest(t)
      BY <3>8, InputsNow DEF ReadyManifest, ReviewManifest
    <3>9. CASE GateStop(t)
      BY <3>9 DEF GateStop
    <3>. QED BY <2>2, <3>1, <3>2, <3>3, <3>4, <3>5, <3>6, <3>7, <3>8, <3>9 DEF GateCommand
  <2>3. CASE UNCHANGED gateAll
    BY <2>3 DEF gateAll
  <2>. QED BY <2>1, <2>2, <2>3 DEF GateNext
<1>. QED BY <1>1, <1>2, PTL DEF GateSpec, gateAll

\* What the commands of the gate keep and the manifests have (GateTypeOK).
THEOREM GateTypeCorrect == GateSpec => []GateTypeOK
<1>1. GateBase => GateTypeOK
  BY DEF GateBase
<1>. QED BY <1>1, GateBaseInv, PTL

\* An attempt that is recorded for a stage is one at that stage for those inputs.
IsOf(i, s, in) ==
  i # 0 => i \in Attempts /\ attempts[i].stage = s /\ attempts[i].inputs = in

\* A stage is run: one more attempt, and nothing else about attempts.
LEMMA RunAppends ==
  ASSUME GateBase, NEW t \in Terminals, NEW s \in Stages, StageRun(t, s)
  PROVE  /\ Len(attempts') = Len(attempts) + 1
         /\ Attempts' = Attempts \cup {Len(attempts')}
         /\ \A i \in Attempts : attempts'[i] = attempts[i]
         /\ attempts'[Len(attempts')].stage = s
         /\ attempts'[Len(attempts')].inputs = cand[t]
         /\ attempts'[Len(attempts')].status = "none"
<1>. DEFINE receipt == [stage |-> s, inputs |-> cand[t], status |-> "none", finished |-> 0, saw |-> {}]
<1>1. attempts' = Append(attempts, receipt) /\ attempts \in Seq(Receipts)
  BY DEF StageRun, GateBase, GateTypeOK
<1>2. receipt \in Receipts
  BY WorkspaceOK DEF StageRun, At, GateBase, Phased, Receipts, WorkspaceOK
<1>3. receipt.stage = s /\ receipt.inputs = cand[t] /\ receipt.status = "none"
  OBVIOUS
<1>. HIDE DEF receipt
<1>. QED BY <1>1, <1>2, <1>3 DEF Attempts

\* A stage ends: the last attempt, which had none, gets its status.
LEMMA EndSettles ==
  ASSUME GateBase, NEW t \in Terminals, NEW exit \in {"pass", "red"}, StageEnd(t, exit)
  PROVE  /\ Attempts' = Attempts /\ Len(attempts') = Len(attempts)
         /\ Len(attempts) \in Attempts /\ attempts[Len(attempts)].status = "none"
         /\ \A i \in Attempts : i # Len(attempts) => attempts'[i] = attempts[i]
         /\ \A i \in Attempts : attempts'[i].stage = attempts[i].stage
                             /\ attempts'[i].inputs = attempts[i].inputs
         /\ attempts'[Len(attempts)].status = "pass" =>
              tree = cand[t].source /\ attempts'[Len(attempts)].saw = saw[t]
<1>. DEFINE i == Len(attempts)
            status == StageStatus(t, exit)
            receipt == IF status = "pass"
                       THEN [attempts[i] EXCEPT !.status = status, !.finished = now, !.saw = saw[t]]
                       ELSE [attempts[i] EXCEPT !.status = status]
<1>1. attempts \in Seq(Receipts) /\ Len(attempts) > 0 /\ attempts[i].status = "none"
  BY DEF GateBase, GateTypeOK, Phased, StageEnd, At
<1>2. attempts[i] \in Receipts /\ i \in DOMAIN attempts
  BY <1>1
<1>3. attempts' = [attempts EXCEPT ![i] = receipt]
  BY DEF StageEnd
<1>4. receipt.stage = attempts[i].stage /\ receipt.inputs = attempts[i].inputs
  BY <1>2 DEF Receipts
<1>5. receipt.status = status
  BY <1>2 DEF Receipts
<1>6. status = "pass" => receipt.saw = saw[t]
  BY <1>2 DEF Receipts
<1>7. status = "pass" => tree = cand[t].source
  BY DEF StageStatus
<1>. HIDE DEF receipt, status
<1>. QED BY <1>1, <1>2, <1>3, <1>4, <1>5, <1>6, <1>7 DEF Attempts

\* Attempts stay, and an attempt with a status keeps it.
LEMMA AttemptsStay ==
  ASSUME GateBase, [GateNext]_gateAll
  PROVE  \A i \in Attempts :
           /\ i \in Attempts'
           /\ attempts'[i].stage = attempts[i].stage /\ attempts'[i].inputs = attempts[i].inputs
           /\ attempts[i].status # "none" => attempts'[i] = attempts[i]
<1>1. CASE UNCHANGED attempts
  BY <1>1 DEF Attempts
<1>2. CASE \E t \in Terminals, s \in Stages : StageRun(t, s)
  BY <1>2, RunAppends
<1>3. CASE \E t \in Terminals, exit \in {"pass", "red"} : StageEnd(t, exit)
  BY <1>3, EndSettles
<1>. QED
  BY <1>1, <1>2, <1>3 DEF GateNext, GateCommand, GateStart, GateInputs, StageReuse, Finish, ReadyStart,
     ReadyManifest, ReviewStart, ReviewManifest, GateStop, gateAll, gateVars

\* What a gate has recorded for its stages, and what manifests say of them.
Refer ==
  /\ \A t \in Terminals : pc[t] \in {"stage", "running"} =>
       \A s \in Stages : IsOf(chosen[t][s], s, cand[t])
  /\ \A m \in manifests : \A s \in Stages :
       /\ IsOf(m.stages[s], s, m.inputs)
       /\ m.accepted => m.stages[s] # 0 /\ attempts[m.stages[s]].status = "pass"

LEMMA ReferInv == GateSpec => []Refer
<1>1. GateInit => Refer
  BY DEF GateInit, WorkspaceInit, Refer
<1>2. GateBase /\ Refer /\ [GateNext]_gateAll => Refer'
  <2>. SUFFICES ASSUME GateBase, Refer, [GateNext]_gateAll PROVE Refer'
    OBVIOUS
  <2>1. \A i, s, in : IsOf(i, s, in) => IsOf(i, s, in)'
    BY AttemptsStay DEF IsOf
  <2>2. \A m \in manifests : \A s \in Stages :
          /\ IsOf(m.stages[s], s, m.inputs)'
          /\ m.accepted => m.stages[s] # 0 /\ attempts'[m.stages[s]].status = "pass"
    BY <2>1, AttemptsStay DEF Refer, IsOf
  <2>. USE DEF At, Go, Start, Leave, GateLeave
  <2>3. ASSUME NEW t \in Terminals, NEW s \in Stages, StageReuse(t, s) PROVE Refer'
    <3>1. PICK i \in Attempts : Reuses(t, s, i) /\ Record(t, s, i)
      BY <2>3 DEF StageReuse
    <3>2. IsOf(i, s, cand[t])
      BY <3>1 DEF Reuses, Latest, Tried, IsOf
    <3>3. chosen' = [chosen EXCEPT ![t] = [chosen[t] EXCEPT ![s] = i]]
      BY <3>1 DEF Record
    <3>4. chosen \in [Terminals -> Recorded \cup Manifests \cup {None}] /\ chosen[t] \in [Stages -> 0 .. MaxAttempts]
      BY <2>3 DEF StageReuse, GateBase, GateTypeOK, Phased, Recorded
    <3>5. UNCHANGED <<pc, cand, manifests, attempts>>
      BY <2>3 DEF StageReuse, workspace, command
    <3>. QED BY <2>2, <2>3, <3>2, <3>3, <3>4, <3>5 DEF StageReuse, Refer, IsOf, Attempts
  <2>4. ASSUME NEW t \in Terminals, NEW s \in Stages, StageRun(t, s) PROVE Refer'
    <3>1. UNCHANGED <<cand, chosen, manifests>> /\ pc[t] = "stage"
          /\ \A u \in Terminals : u # t => pc'[u] = pc[u]
      BY <2>4 DEF StageRun, GateBase, GateTypeOK, WorkspaceTypeOK
    <3>. QED BY <2>1, <2>2, <3>1 DEF Refer
  <2>5. ASSUME NEW t \in Terminals, NEW exit \in {"pass", "red"}, StageEnd(t, exit) PROVE Refer'
    <3>. DEFINE i == Len(attempts)
                s == attempts[i].stage
    <3>1. UNCHANGED <<cand, manifests>> /\ pc[t] = "running" /\ attempts[i].inputs = cand[t]
          /\ \A u \in Terminals : u # t => pc'[u] = pc[u]
      BY <2>5 DEF StageEnd, GateBase, GateTypeOK, WorkspaceTypeOK, Phased
    <3>2. chosen' = [chosen EXCEPT ![t] = [chosen[t] EXCEPT ![s] = i]]
      BY <2>5 DEF StageEnd, Record
    <3>3. chosen \in [Terminals -> Recorded \cup Manifests \cup {None}] /\ chosen[t] \in [Stages -> 0 .. MaxAttempts]
      BY <3>1 DEF GateBase, GateTypeOK, Phased, Recorded
    <3>4. IsOf(i, s, cand[t])
      BY <2>5, <3>1, EndSettles DEF IsOf
    <3>5. \A r \in Stages : IsOf(chosen'[t][r], r, cand[t])
      BY <3>1, <3>2, <3>3, <3>4 DEF Refer
    <3>6. \A u \in Terminals : u # t => chosen'[u] = chosen[u]
      BY <3>2, <3>3
    <3>. QED BY <2>1, <2>2, <3>1, <3>5, <3>6 DEF Refer
  <2>6. ASSUME NEW t \in Terminals, Finish(t) PROVE Refer'
    <3>. PICK m : m = [inputs |-> cand[t], stages |-> chosen[t], accepted |-> Accepts(t)]
      OBVIOUS
    <3>1. \A s \in Stages :
            /\ IsOf(m.stages[s], s, m.inputs)
            /\ m.accepted => m.stages[s] # 0 /\ attempts[m.stages[s]].status = "pass"
      BY <2>6 DEF Finish, Refer, Accepts
    <3>2. manifests' = manifests \cup {m} /\ UNCHANGED attempts
      BY <2>6 DEF Finish
    <3>3. \A s \in Stages : IsOf(m.stages[s], s, m.inputs)'
      BY <2>1, <3>1
    <3>4. \A u \in Terminals : pc'[u] \in {"stage", "running"} =>
            pc[u] = pc'[u] /\ chosen'[u] = chosen[u] /\ cand'[u] = cand[u]
      BY <2>6 DEF Finish, GateBase, GateTypeOK, WorkspaceTypeOK
    <3>. QED BY <2>1, <2>2, <3>1, <3>2, <3>3, <3>4 DEF Refer
  <2>7. ASSUME NEW t \in Terminals, GateInputs(t) PROVE Refer'
    <3>1. \A u \in Terminals :
            \/ u = t /\ chosen'[u] = [s \in Stages |-> 0]
            \/ u # t /\ pc[u] = pc'[u] /\ chosen'[u] = chosen[u] /\ cand'[u] = cand[u]
      BY <2>7 DEF GateInputs, GateBase, GateTypeOK, WorkspaceTypeOK
    <3>2. UNCHANGED manifests /\ \A s, in : IsOf(0, s, in)'
      BY <2>7 DEF GateInputs, IsOf
    <3>. QED BY <2>1, <2>2, <3>1, <3>2 DEF Refer
  <2>8. CASE UNCHANGED manifests /\
             \A u \in Terminals : pc'[u] \in {"stage", "running"} =>
               pc[u] = pc'[u] /\ chosen'[u] = chosen[u] /\ cand'[u] = cand[u]
    BY <2>1, <2>2, <2>8 DEF Refer
  <2>9. ASSUME NEW t \in Terminals,
               \/ \E f \in BOOLEAN : GateStart(t, f)
               \/ \E m \in manifests : ReadyStart(t, m) \/ ReviewStart(t, m)
               \/ ReadyManifest(t) \/ ReviewManifest(t) \/ GateStop(t)
        PROVE  Refer'
    <3>1. UNCHANGED manifests
      BY <2>9 DEF GateStart, ReadyStart, ReviewStart, ReadyManifest, ReviewManifest, GateStop
    <3>2. \A u \in Terminals : pc'[u] \in {"stage", "running"} =>
               pc[u] = pc'[u] /\ chosen'[u] = chosen[u] /\ cand'[u] = cand[u]
      BY <2>9 DEF GateStart, ReadyStart, ReviewStart, ReadyManifest, ReviewManifest, GateStop,
         GateBase, GateTypeOK, WorkspaceTypeOK
    <3>. QED BY <3>1, <3>2, <2>8
  <2>10. CASE ((Developer \/ Restart) /\ UNCHANGED gateVars) \/ UNCHANGED gateAll
    <3>1. UNCHANGED <<pc, cand, chosen, manifests>>
      BY <2>10 DEF Developer, Edit, Restore, Becomes, Commit, Tick, Restart, command, gateVars,
         gateAll, workspace
    <3>. QED BY <3>1, <2>8
  <2>. QED BY <2>3, <2>4, <2>5, <2>6, <2>7, <2>9, <2>10 DEF GateNext, GateCommand
<1>. QED BY <1>1, <1>2, GateBaseInv, PTL DEF GateSpec, gateAll

\* Attempt i is one at the correctness stage for in.
Correctness(i, in) == attempts[i].stage = "correctness" /\ attempts[i].inputs = in

\* The last correctness attempt before i, for the same inputs, has passed.
Preceded(i) ==
  \E j \in Attempts :
    /\ Correctness(j, attempts[i].inputs) /\ attempts[j].status = "pass" /\ j < i
    /\ \A k \in Attempts : Correctness(k, attempts[i].inputs) /\ k < i => k <= j

\* When a gate goes on after the correctness stage, what it has recorded for it is
\* the last attempt at it.
Corrected ==
  \A t \in Terminals :
    pc[t] \in {"stage", "running"} /\ chosen[t]["correctness"] # 0 =>
      \/ pc[t] = "running" /\ attempts[Len(attempts)].stage = "correctness"
      \/ \A k \in Attempts : Correctness(k, cand[t]) => k <= chosen[t]["correctness"]

OnlyThen == Corrected /\ \A i \in Attempts : attempts[i].stage \in GuardSet => Preceded(i)

\* Attempts at a stage only come from StageRun.
LEMMA TriedStays ==
  ASSUME GateBase, [GateNext]_gateAll, ~\E t \in Terminals, s \in Stages : StageRun(t, s)
  PROVE  /\ Attempts' = Attempts /\ Len(attempts') = Len(attempts)
         /\ \A i \in Attempts : \A in : Correctness(i, in)' <=> Correctness(i, in)
<1>1. CASE UNCHANGED attempts
  BY <1>1 DEF Attempts, Correctness
<1>2. CASE \E t \in Terminals, exit \in {"pass", "red"} : StageEnd(t, exit)
  BY <1>2, EndSettles DEF Correctness
<1>. QED
  BY <1>1, <1>2 DEF GateNext, GateCommand, GateStart, GateInputs, StageReuse, Finish, ReadyStart,
     ReadyManifest, ReviewStart, ReviewManifest, GateStop, gateAll, gateVars

\* What precedes an attempt is settled when it starts.
LEMMA PrecededStays ==
  ASSUME GateBase, [GateNext]_gateAll, NEW i \in Attempts, Preceded(i)
  PROVE  Preceded(i)'
<1>1. PICK j \in Attempts :
        /\ Correctness(j, attempts[i].inputs) /\ attempts[j].status = "pass" /\ j < i
        /\ \A k \in Attempts : Correctness(k, attempts[i].inputs) /\ k < i => k <= j
  BY DEF Preceded
<1>2. attempts'[i].inputs = attempts[i].inputs /\ attempts'[j] = attempts[j] /\ j \in Attempts'
  BY <1>1, AttemptsStay
<1>3. Len(attempts) \in Nat /\ Attempts = 1 .. Len(attempts)
  BY DEF Attempts, GateBase, GateTypeOK
<1>4. \A k \in Attempts' : k < i => k \in Attempts
  <2>1. CASE \E t \in Terminals, s \in Stages : StageRun(t, s)
    BY <2>1, <1>3, RunAppends
  <2>2. CASE ~\E t \in Terminals, s \in Stages : StageRun(t, s)
    BY <2>2, TriedStays
  <2>. QED BY <2>1, <2>2
<1>5. \A k \in Attempts : \A in : Correctness(k, in)' <=> Correctness(k, in)
  BY AttemptsStay DEF Correctness
<1>. QED BY <1>1, <1>2, <1>4, <1>5 DEF Preceded, Correctness

\* No guard runs but after a last correctness attempt that has passed, for the
\* same inputs, over any number of gates, restarts and interrupts.
THEOREM GuardsOnlyAfterCorrectness == GateSpec => []GuardsAfterCorrectness
<1>1. GateInit => OnlyThen
  BY DEF GateInit, WorkspaceInit, OnlyThen, Corrected, Attempts
<1>2. GateBase /\ Refer /\ OnlyThen /\ [GateNext]_gateAll => OnlyThen'
  <2>. SUFFICES ASSUME GateBase, Refer, OnlyThen, [GateNext]_gateAll PROVE OnlyThen'
    OBVIOUS
  <2>. USE DEF At, Go, Start, Leave, GateLeave
  <2>1. ASSUME NEW t \in Terminals, NEW s \in Stages, StageRun(t, s) PROVE OnlyThen'
    <3>. PICK n : n = Len(attempts')
      OBVIOUS
    <3>1. /\ n = Len(attempts) + 1 /\ Attempts' = Attempts \cup {n}
          /\ \A i \in Attempts : attempts'[i] = attempts[i]
          /\ attempts'[n].stage = s /\ attempts'[n].inputs = cand[t]
      BY <2>1, RunAppends
    <3>2. Len(attempts) \in Nat /\ Attempts = 1 .. Len(attempts)
      BY DEF GateBase, GateTypeOK, Attempts
    <3>3. /\ UNCHANGED <<cand, chosen>> /\ pc[t] = "stage" /\ pc'[t] = "running"
          /\ \A u \in Terminals : u # t => pc[u] = "idle" /\ pc'[u] = pc[u]
      BY <2>1, WorkspaceOK DEF StageRun, GateBase, GateTypeOK, WorkspaceTypeOK, Phased, WorkspaceOK
    <3>4. \A k \in Attempts : \A in : Correctness(k, in)' <=> Correctness(k, in)
      BY <3>1 DEF Correctness
    <3>5. Corrected'
      <4>1. SUFFICES ASSUME chosen[t]["correctness"] # 0, s # "correctness"
                     PROVE  \A k \in Attempts' : Correctness(k, cand[t])' => k <= chosen[t]["correctness"]
        BY <3>1, <3>3 DEF Corrected
      <4>2. \A k \in Attempts : Correctness(k, cand[t]) => k <= chosen[t]["correctness"]
        BY <3>3, <4>1 DEF OnlyThen, Corrected
      <4>3. ~Correctness(n, cand[t])'
        BY <3>1, <4>1 DEF Correctness
      <4>. QED BY <3>1, <3>3, <3>4, <4>2, <4>3 DEF Correctness
    <3>6. ASSUME s \in GuardSet PROVE Preceded(n)'
      <4>. PICK c : c = chosen[t]["correctness"]
        OBVIOUS
      <4>1. s # "correctness" /\ "correctness" \in Stages
        BY <3>6, GateOK DEF GateOK, Stages
      <4>2. PICK i \in DOMAIN StageOrder : StageOrder[i] = s /\ \A j \in 1 .. i - 1 : chosen[t][StageOrder[j]] # 0
        BY <2>1 DEF StageRun, NextStage
      <4>3. 1 \in 1 .. i - 1
        BY <4>1, <4>2, StagesInOrder
      <4>4. c # 0
        BY <4>2, <4>3, StagesInOrder
      <4>5. attempts[c].status = "pass"
        BY <2>1, <4>4 DEF StageRun, NextStage, CorrectnessFailed
      <4>6. c \in Attempts /\ Correctness(c, cand[t])
        BY <3>3, <4>1, <4>4 DEF Refer, IsOf, Correctness
      <4>7. \A k \in Attempts : Correctness(k, cand[t]) => k <= c
        BY <3>3, <4>4 DEF OnlyThen, Corrected
      <4>8. c < n /\ \A k \in Attempts' : k < n => k \in Attempts
        BY <3>1, <3>2, <4>6
      <4>. QED BY <3>1, <3>4, <4>5, <4>6, <4>7, <4>8 DEF Preceded, Correctness
    <3>7. ASSUME NEW i \in Attempts', attempts'[i].stage \in GuardSet PROVE Preceded(i)'
      <4>1. CASE i \in Attempts
        BY <3>1, <3>7, <4>1, PrecededStays DEF OnlyThen
      <4>2. CASE i = n
        BY <3>1, <3>6, <3>7, <4>2
      <4>. QED BY <3>1, <4>1, <4>2
    <3>. QED BY <3>5, <3>7 DEF OnlyThen
  <2>2. ASSUME ~\E t \in Terminals, s \in Stages : StageRun(t, s) PROVE OnlyThen'
    <3>1. /\ Attempts' = Attempts /\ Len(attempts') = Len(attempts)
          /\ \A i \in Attempts : \A in : Correctness(i, in)' <=> Correctness(i, in)
      BY <2>2, TriedStays
    <3>2. ASSUME NEW i \in Attempts', attempts'[i].stage \in GuardSet PROVE Preceded(i)'
      BY <3>1, <3>2, AttemptsStay, PrecededStays DEF OnlyThen
    <3>3. ASSUME NEW t \in Terminals, NEW s \in Stages, StageReuse(t, s) PROVE Corrected'
      <4>1. PICK i \in Attempts : Reuses(t, s, i) /\ Record(t, s, i)
        BY <3>3 DEF StageReuse
      <4>2. chosen' = [chosen EXCEPT ![t] = [chosen[t] EXCEPT ![s] = i]]
        BY <4>1 DEF Record
      <4>3. chosen \in [Terminals -> Recorded \cup Manifests \cup {None}] /\ chosen[t] \in [Stages -> 0 .. MaxAttempts]
        BY <3>3 DEF StageReuse, GateBase, GateTypeOK, Phased, Recorded
      <4>4. UNCHANGED <<pc, cand, attempts>> /\ pc[t] = "stage"
        BY <3>3 DEF StageReuse, workspace, command
      <4>5. s = "correctness" => \A k \in Attempts : Correctness(k, cand[t]) => k <= i
        BY <4>1 DEF Reuses, Latest, Tried, Correctness
      <4>6. "correctness" \in Stages
        BY DEF Stages
      <4>7. chosen'[t]["correctness"] = IF s = "correctness" THEN i ELSE chosen[t]["correctness"]
        BY <4>2, <4>3, <4>6
      <4>8. \A u \in Terminals : u # t => chosen'[u] = chosen[u]
        BY <4>2, <4>3
      <4>. QED BY <3>1, <4>4, <4>5, <4>7, <4>8 DEF OnlyThen, Corrected
    <3>4. ASSUME NEW t \in Terminals, NEW exit \in {"pass", "red"}, StageEnd(t, exit) PROVE Corrected'
      <4>. PICK i, s : i = Len(attempts) /\ s = attempts[i].stage
        OBVIOUS
      <4>1. chosen' = [chosen EXCEPT ![t] = [chosen[t] EXCEPT ![s] = i]]
        BY <3>4 DEF StageEnd, Record
      <4>2. UNCHANGED cand /\ pc[t] = "running" /\ pc'[t] = "stage"
            /\ \A u \in Terminals : u # t => pc[u] = "idle" /\ pc'[u] = pc[u]
        BY <3>4, WorkspaceOK DEF StageEnd, GateBase, GateTypeOK, WorkspaceTypeOK, Phased, WorkspaceOK
      <4>3. chosen \in [Terminals -> Recorded \cup Manifests \cup {None}] /\ chosen[t] \in [Stages -> 0 .. MaxAttempts]
        BY <4>2 DEF GateBase, GateTypeOK, Phased, Recorded
      <4>4. \A k \in Attempts : k <= i
        BY DEF Attempts, GateBase, GateTypeOK
      <4>5. "correctness" \in Stages
        BY DEF Stages
      <4>6. chosen'[t]["correctness"] = IF s = "correctness" THEN i ELSE chosen[t]["correctness"]
        BY <4>1, <4>3, <4>5
      <4>. QED BY <3>1, <4>2, <4>4, <4>6 DEF OnlyThen, Corrected
    <3>5. ASSUME NEW t \in Terminals, GateInputs(t) PROVE Corrected'
      <4>1. \A u \in Terminals :
              \/ u = t /\ chosen'[u]["correctness"] = 0
              \/ u # t /\ pc[u] = pc'[u] /\ chosen'[u] = chosen[u] /\ cand'[u] = cand[u]
        BY <3>5 DEF GateInputs, GateBase, GateTypeOK, WorkspaceTypeOK, Stages
      <4>2. UNCHANGED attempts
        BY <3>5 DEF GateInputs
      <4>. QED BY <3>1, <4>1, <4>2 DEF OnlyThen, Corrected
    <3>6. ASSUME UNCHANGED attempts,
                 \A u \in Terminals : pc'[u] \in {"stage", "running"} =>
                   pc[u] = pc'[u] /\ chosen'[u] = chosen[u] /\ cand'[u] = cand[u]
          PROVE  Corrected'
      BY <3>1, <3>6 DEF OnlyThen, Corrected, Correctness
    <3>7. ASSUME NEW t \in Terminals,
                 \/ \E f \in BOOLEAN : GateStart(t, f)
                 \/ \E m \in manifests : ReadyStart(t, m) \/ ReviewStart(t, m)
                 \/ ReadyManifest(t) \/ ReviewManifest(t) \/ GateStop(t) \/ Finish(t)
          PROVE  Corrected'
      <4>1. UNCHANGED attempts
        BY <3>7 DEF GateStart, ReadyStart, ReviewStart, ReadyManifest, ReviewManifest, GateStop, Finish
      <4>2. \A u \in Terminals : pc'[u] \in {"stage", "running"} =>
                 pc[u] = pc'[u] /\ chosen'[u] = chosen[u] /\ cand'[u] = cand[u]
        BY <3>7 DEF GateStart, ReadyStart, ReviewStart, ReadyManifest, ReviewManifest, GateStop, Finish,
           GateBase, GateTypeOK, WorkspaceTypeOK
      <4>. QED BY <4>1, <4>2, <3>6
    <3>8. ASSUME ((Developer \/ Restart) /\ UNCHANGED gateVars) \/ UNCHANGED gateAll
          PROVE  Corrected'
      <4>1. UNCHANGED <<pc, cand, chosen, attempts>>
        BY <3>8 DEF Developer, Edit, Restore, Becomes, Commit, Tick, Restart, command, gateVars,
           gateAll, workspace
      <4>. QED BY <4>1, <3>6
    <3>9. Corrected'
      BY <2>2, <3>3, <3>4, <3>5, <3>7, <3>8 DEF GateNext, GateCommand
    <3>. QED BY <3>2, <3>9 DEF OnlyThen
  <2>. QED BY <2>1, <2>2
<1>3. OnlyThen => GuardsAfterCorrectness
  BY DEF OnlyThen, Preceded, Correctness, GuardsAfterCorrectness, Tried
<1>. QED BY <1>1, <1>2, <1>3, GateBaseInv, ReferInv, PTL DEF GateSpec, gateAll

\* While a manifest is accepted, or excepted, no attempt is made at a stage.
THEOREM AcceptedStagesPassed == GateSpec => []LatestPassed
<1>1. GateInit => LatestPassed
  BY DEF GateInit, WorkspaceInit, LatestPassed, At
<1>2. GateBase /\ Refer /\ LatestPassed /\ [GateNext]_gateAll => LatestPassed'
  <2>. SUFFICES ASSUME GateBase, Refer, LatestPassed, [GateNext]_gateAll PROVE LatestPassed'
    OBVIOUS
  <2>. USE DEF At, Go, Start, Leave, GateLeave
  <2>1. ASSUME NEW t \in Terminals, NEW s \in Stages, NEW m \in manifests, m = chosen[t],
               ManifestOK(m, CurrentInputs) \/ (ReviewedOK(m, CurrentInputs) /\ s # Reviewed)
        PROVE  \E i \in Tried(s, CurrentInputs) :
                 /\ attempts[i].status = "pass"
                 /\ \A j \in Tried(s, CurrentInputs) : j > i => attempts[j].status = "pass"
    <3>1. IsOf(m.stages[s], s, CurrentInputs) /\ m.stages[s] # 0
      BY <2>1 DEF Refer, ManifestOK, ReviewedOK
    <3>2. m.stages[s] \in Tried(s, CurrentInputs)
      BY <3>1 DEF IsOf, Tried
    <3>3. \A j \in Tried(s, CurrentInputs) : j >= m.stages[s] => attempts[j].status = "pass"
      <4>1. CASE ManifestOK(m, CurrentInputs)
        BY <4>1 DEF ManifestOK, Reusable
      <4>2. CASE ReviewedOK(m, CurrentInputs) /\ s # Reviewed
        <5>1. attempts[m.stages[s]].status = "pass" /\ \A j \in Tried(s, CurrentInputs) : j <= m.stages[s]
          BY <4>2 DEF ReviewedOK, Reusable
        <5>2. \A j \in Tried(s, CurrentInputs) : j \in Nat
          BY DEF Tried, Attempts, GateBase, GateTypeOK
        <5>. QED BY <3>2, <5>1, <5>2
      <4>. QED BY <2>1, <4>1, <4>2
    <3>4. \A j \in Tried(s, CurrentInputs) : j \in Nat
      BY DEF Tried, Attempts, GateBase, GateTypeOK
    <3>. QED BY <3>2, <3>3, <3>4
  <2>2. ASSUME UNCHANGED attempts,
               \A u \in Terminals : pc'[u] \in {"manifest-ok", "review-ok"} =>
                 pc[u] = pc'[u] /\ cand'[u] = cand[u]
        PROVE  LatestPassed'
    BY <2>2 DEF LatestPassed, Tried, Attempts
  <2>3. ASSUME NEW t \in Terminals, ReadyManifest(t) \/ ReviewManifest(t) PROVE LatestPassed'
    <3>1. /\ UNCHANGED attempts /\ cand'[t] = CurrentInputs /\ chosen[t] \in manifests
          /\ \A u \in Terminals : u # t => pc'[u] = pc[u] /\ cand'[u] = cand[u]
          /\ \/ pc'[t] = "manifest-ok" /\ ManifestOK(chosen[t], CurrentInputs)
             \/ pc'[t] = "review-ok" /\ ReviewedOK(chosen[t], CurrentInputs)
      BY <2>3 DEF ReadyManifest, ReviewManifest, GateBase, GateTypeOK, WorkspaceTypeOK, Phased
    <3>2. \A s \in Stages : pc'[t] = "manifest-ok" \/ (pc'[t] = "review-ok" /\ s # Reviewed) =>
             \E i \in Tried(s, CurrentInputs) :
               /\ attempts[i].status = "pass"
               /\ \A j \in Tried(s, CurrentInputs) : j > i => attempts[j].status = "pass"
      BY <2>1, <3>1
    <3>. QED BY <3>1, <3>2 DEF LatestPassed, Tried, Attempts
  <2>4. ASSUME NEW t \in Terminals,
               (\E s \in Stages : StageRun(t, s)) \/ (\E exit \in {"pass", "red"} : StageEnd(t, exit))
        PROVE  LatestPassed'
    <3>1. pc[t] \in {"stage", "running"} /\ pc'[t] \in {"stage", "running"}
          /\ \A u \in Terminals : u # t => pc[u] = "idle" /\ pc'[u] = "idle"
      BY <2>4, WorkspaceOK DEF StageRun, StageEnd, GateBase, GateTypeOK, WorkspaceTypeOK, Phased, WorkspaceOK
    <3>. QED BY <3>1 DEF LatestPassed
  <2>5. ASSUME NEW t \in Terminals,
               \/ \E f \in BOOLEAN : GateStart(t, f)
               \/ \E s \in Stages : StageReuse(t, s)
               \/ \E m \in manifests : ReadyStart(t, m) \/ ReviewStart(t, m)
               \/ GateInputs(t) \/ GateStop(t) \/ Finish(t)
        PROVE  LatestPassed'
    <3>1. UNCHANGED attempts
      BY <2>5 DEF GateStart, StageReuse, ReadyStart, ReviewStart, GateInputs, GateStop, Finish
    <3>2. \A u \in Terminals : pc'[u] \in {"manifest-ok", "review-ok"} =>
             pc[u] = pc'[u] /\ cand'[u] = cand[u]
      BY <2>5 DEF GateStart, StageReuse, ReadyStart, ReviewStart, GateInputs, GateStop, Finish,
         GateBase, GateTypeOK, WorkspaceTypeOK, workspace, command
    <3>. QED BY <3>1, <3>2, <2>2
  <2>6. ASSUME ((Developer \/ Restart) /\ UNCHANGED gateVars) \/ UNCHANGED gateAll
        PROVE  LatestPassed'
    <3>1. UNCHANGED <<pc, cand, attempts>>
      BY <2>6 DEF Developer, Edit, Restore, Becomes, Commit, Tick, Restart, command, gateVars,
         gateAll, workspace
    <3>. QED BY <3>1, <2>2
  <2>. QED BY <2>3, <2>4, <2>5, <2>6 DEF GateNext, GateCommand
<1>. QED BY <1>1, <1>2, GateBaseInv, ReferInv, PTL DEF GateSpec, gateAll

\* What commands saw: unless older bytes were put back, one that runs while the source
\* is still the candidate's has seen nothing else.
Seen ==
  ~restored =>
    /\ \A t \in Terminals : pc[t] = "running" /\ tree = cand[t].source => saw[t] = {cand[t].source}
    /\ \A i \in Attempts : attempts[i].status = "pass" => attempts[i].saw = {attempts[i].inputs.source}

\* The comparison at the end of a stage suffices: the stages of an accepted
\* manifest saw the bytes it is for.
THEOREM StagesSawTheirSource == GateSpec => []RanOnItsSource
<1>1. GateInit => Seen
  BY DEF GateInit, WorkspaceInit, Seen, Attempts
<1>2. GateBase /\ Seen /\ [GateNext]_gateAll => Seen'
  <2>. SUFFICES ASSUME GateBase, Seen, [GateNext]_gateAll PROVE Seen'
    OBVIOUS
  <2>. USE DEF At, Go, Start, Leave, GateLeave
  <2>1. ASSUME UNCHANGED <<tree, restored, attempts>>,
               \A u \in Terminals : pc'[u] = "running" =>
                 pc[u] = "running" /\ cand'[u] = cand[u] /\ saw'[u] = saw[u]
        PROVE  Seen'
    BY <2>1 DEF Seen, Attempts
  <2>2. ASSUME NEW t \in Terminals, NEW s \in Stages, StageRun(t, s) PROVE Seen'
    <3>1. /\ UNCHANGED <<tree, restored, cand>> /\ saw'[t] = {tree}
          /\ \A u \in Terminals : u # t => pc'[u] = "idle"
      BY <2>2, WorkspaceOK DEF StageRun, worktree, GateBase, GateTypeOK, WorkspaceTypeOK, Phased, WorkspaceOK
    <3>2. \A i \in Attempts' : attempts'[i].status = "pass" => i \in Attempts /\ attempts'[i] = attempts[i]
      BY <2>2, RunAppends
    <3>. QED BY <3>1, <3>2 DEF Seen
  <2>3. ASSUME NEW t \in Terminals, NEW exit \in {"pass", "red"}, StageEnd(t, exit) PROVE Seen'
    <3>. PICK n : n = Len(attempts)
      OBVIOUS
    <3>1. /\ UNCHANGED <<tree, restored>> /\ attempts[n].inputs = cand[t] /\ pc[t] = "running"
          /\ \A u \in Terminals : pc'[u] # "running"
      BY <2>3, WorkspaceOK DEF StageEnd, worktree, GateBase, GateTypeOK, WorkspaceTypeOK, Phased, WorkspaceOK
    <3>2. /\ Attempts' = Attempts
          /\ \A i \in Attempts : i # n => attempts'[i] = attempts[i]
          /\ attempts'[n].inputs = cand[t]
          /\ attempts'[n].status = "pass" => tree = cand[t].source /\ attempts'[n].saw = saw[t]
      BY <2>3, <3>1, EndSettles
    <3>. QED BY <3>1, <3>2 DEF Seen
  <2>4. ASSUME NEW t \in Terminals,
               \/ \E f \in BOOLEAN : GateStart(t, f)
               \/ \E s \in Stages : StageReuse(t, s)
               \/ \E m \in manifests : ReadyStart(t, m) \/ ReviewStart(t, m)
               \/ ReadyManifest(t) \/ ReviewManifest(t) \/ GateInputs(t) \/ GateStop(t) \/ Finish(t)
        PROVE  Seen'
    <3>1. UNCHANGED <<tree, restored, attempts>>
      BY <2>4 DEF GateStart, StageReuse, ReadyStart, ReviewStart, ReadyManifest, ReviewManifest,
         GateInputs, GateStop, Finish, workspace, worktree
    <3>2. \A u \in Terminals : pc'[u] = "running" =>
            pc[u] = "running" /\ cand'[u] = cand[u] /\ saw'[u] = saw[u]
      BY <2>4 DEF GateStart, StageReuse, ReadyStart, ReviewStart, ReadyManifest, ReviewManifest,
         GateInputs, GateStop, Finish, GateBase, GateTypeOK, WorkspaceTypeOK, workspace, command
    <3>. QED BY <3>1, <3>2, <2>1
  <2>5. ASSUME Edit /\ UNCHANGED gateVars PROVE Seen'
    <3>1. UNCHANGED <<restored, pc, cand, attempts>> /\ tree' = edits + 1
      BY <2>5 DEF Edit, Becomes, gateVars
    <3>2. \A t \in Terminals : pc[t] = "running" => cand[t].source <= edits /\ cand[t].source \in Nat
      BY WorkspaceOK DEF GateBase, Phased, Inputs, Trees, WorkspaceOK
    <3>3. edits \in Nat
      BY WorkspaceOK DEF GateBase, GateTypeOK, WorkspaceTypeOK, Trees, WorkspaceOK
    <3>. QED BY <3>1, <3>2, <3>3 DEF Seen, Attempts
  <2>6. ASSUME NEW r \in Trees, Restore(r), UNCHANGED gateVars PROVE Seen'
    <3>1. UNCHANGED <<pc, attempts>> /\ restored' = (restored \/ lock # None)
      BY <2>6 DEF Restore, Becomes, gateVars
    <3>2. \A t \in Terminals : pc[t] = "running" => lock # None
      BY WorkspaceOK DEF GateBase, Phased, WorkspaceOK
    <3>. QED BY <3>1, <3>2 DEF Seen, Attempts
  <2>7. ASSUME ((Commit \/ Tick \/ Restart) /\ UNCHANGED gateVars) \/ UNCHANGED gateAll PROVE Seen'
    <3>1. UNCHANGED <<tree, restored, pc, cand, saw, attempts>>
      BY <2>7 DEF Commit, Tick, Restart, command, gateVars, gateAll, workspace, worktree
    <3>. QED BY <3>1, <2>1
  <2>. QED BY <2>2, <2>3, <2>4, <2>5, <2>6, <2>7 DEF GateNext, GateCommand, Developer
<1>3. Refer /\ Seen => RanOnItsSource
  BY DEF Refer, Seen, IsOf, RanOnItsSource
<1>. QED BY <1>1, <1>2, <1>3, GateBaseInv, ReferInv, PTL DEF GateSpec, gateAll
=============================================================================
