------------------------- MODULE Publication_proofs -------------------------
(***************************************************************************)
(* More proofs about Publication: its types, and that what release-ready   *)
(* lists is what the staged consumer compiled, for any number of           *)
(* terminals, packages, builds and edits.                                  *)
(***************************************************************************)
EXTENDS MCRelease, Release_proofs

Complete == \A a \in Archives : archives[a] \in Contents

\* Where a command is tells what there is: its candidate, a build that has a
\* number, the files that the step before has written.
Control ==
  /\ \A t \in Terminals :
       /\ pc[t] # "idle" => lock = t
       /\ pc[t] \in {"sdist", "haddock", "list", "consumer", "consumer-build", "consumer-end"} =>
            cand[t] \in Inputs
       /\ pc[t] \in {"sdist", "haddock"} => builds > 0
       /\ pc[t] = "haddock" => \A a \in Sources : archives[a] \in Contents
       /\ pc[t] = "list" => Complete
       /\ pc[t] = "ready" => inventory \in Inventories
  /\ uploads # "absent" => Complete
  /\ pub.phase # "idle" => uploads # "absent" /\ pub.pos > 0 /\ pub.sha \in [Archives -> Contents]

PubInv == PubTypeOK /\ Control

-----------------------------------------------------------------------------
\* The build b has still to write its source archives: its command runs, or it
\* outlived it.
Pending(b) ==
  \/ b # 0 /\ b = stray
  \/ b = builds /\ \E t \in Terminals : pc[t] = "sdist"

\* f are source archives that no build is going to write.
Written(f) == \A a \in Sources : f[a] \in Contents /\ f[a].build <= builds /\ ~Pending(f[a].build)

\* A build writes the source archives once, all of them.
WritesOnce ==
  /\ stray <= builds
  /\ \A t \in Terminals : pc[t] = "sdist" => stray # builds
  /\ \A a \in Sources : archives[a] # None =>
       archives[a].build <= builds /\ ~Pending(archives[a].build)

\* What was compiled is what was digested, or the digested archives are gone for good.
Proves(x) ==
  /\ Written(x.named)
  /\ x.compiled = x.named \/ OfSources(archives) # x.named

Testing ==
  /\ \A t \in Terminals :
       /\ pc[t] = "consumer-build" => Written(tested[t].named)
       /\ pc[t] = "consumer-end" => Proves(tested[t])
  /\ staged # None /\ staged.status = "passed" => Proves(staged.archives)

ReadyTested == WritesOnce /\ Testing /\ ReadyIsTested

-----------------------------------------------------------------------------
\* The order of the uploads, as a function.
LEMMA OrderTyped ==
  /\ Len(UploadOrder) \in Nat \ {0}
  /\ \A i \in 1 .. Len(UploadOrder) : UploadOrder[i] \in Archives
BY UploadsSome, PublicationOK DEF PublicationOK

LEMMA WorkspaceStarts == WorkspaceInit => WorkspaceTypeOK
<1>. SUFFICES ASSUME WorkspaceInit PROVE WorkspaceTypeOK
  OBVIOUS
<1>. USE WorkspaceOK DEF WorkspaceOK, WorkspaceInit
<1>1. tree \in 0..edits /\ head \in 0..edits /\ edits \in Trees
  BY DEF Trees
<1>2. restored \in BOOLEAN
  OBVIOUS
<1>3. env \in 0..MaxChanges /\ now \in 0..MaxNow /\ lock \in Terminals \cup {None}
  OBVIOUS
<1>4. pc \in [Terminals -> Phases]
  BY DEF Phases
<1>5. cand \in [Terminals -> Inputs \cup {None}] /\ saw \in [Terminals -> SUBSET Trees]
  OBVIOUS
<1>. HIDE DEF WorkspaceInit
<1>. QED BY <1>1, <1>2, <1>3, <1>4, <1>5 DEF WorkspaceTypeOK

\* Whatever the developer does, the commands stay where they are.
LEMMA DeveloperTyped ==
  ASSUME WorkspaceTypeOK, Developer
  PROVE  WorkspaceTypeOK' /\ UNCHANGED <<lock, pc, cand>>
<1>. USE WorkspaceOK DEF WorkspaceOK, WorkspaceTypeOK, Trees
<1>1. CASE Edit
  <2>1. edits + 1 \in Trees /\ edits \in Nat
    BY <1>1 DEF Edit
  <2>2. saw' \in [Terminals -> SUBSET Trees]
    BY <1>1, <2>1 DEF Edit, Becomes
  <2>. QED BY <1>1, <2>1, <2>2 DEF Edit, Becomes, Inputs
<1>2. ASSUME NEW s \in Trees, Restore(s) PROVE WorkspaceTypeOK' /\ UNCHANGED <<lock, pc, cand>>
  <2>1. restored' \in BOOLEAN
    BY <1>2 DEF Restore
  <2>2. saw' \in [Terminals -> SUBSET Trees]
    BY <1>2 DEF Restore, Becomes
  <2>. QED BY <1>2, <2>1, <2>2 DEF Restore, Becomes
<1>3. CASE Commit \/ Tick
  BY <1>3 DEF Commit, Tick, command
<1>. QED BY <1>1, <1>2, <1>3 DEF Developer

Working == {"sdist", "haddock", "list", "consumer", "consumer-build", "consumer-end"}

\* A command of Publication moves one terminal, the one that holds the lock or takes it.
LEMMA CommandMoves ==
  ASSUME WorkspaceTypeOK, \A u \in Terminals : pc[u] # "idle" => lock = u,
         NEW t \in Terminals, PubCommand(t), pc[t] \in Working => cand[t] \in Inputs
  PROVE  /\ lock' \in Terminals \cup {None} /\ pc' \in [Terminals -> Phases]
         /\ cand' \in [Terminals -> Inputs \cup {None}] /\ saw' \in [Terminals -> SUBSET Trees]
         /\ UNCHANGED worktree
         /\ \A u \in Terminals : pc'[u] # "idle" => lock' = u
         /\ \A u \in Terminals : u # t => pc'[u] = pc[u] /\ pc[u] = "idle"
         /\ pc'[t] \in Working => cand'[t] \in Inputs
<1>. USE WorkspaceOK DEF WorkspaceOK, WorkspaceTypeOK, Start, Go, At, LockFree, Leave, PubLeave, Working, Phases,
       workspace, command
<1>. CurrentInputs \in Inputs
  BY DEF CurrentInputs, Inputs, Trees
<1>1. CASE ArtifactsStart(t)
  BY <1>1 DEF ArtifactsStart
<1>2. CASE Sdist(t)
  BY <1>2 DEF Sdist, Build
<1>3. CASE Haddock(t)
  BY <1>3 DEF Haddock, Build
<1>4. CASE ListArtifacts(t)
  BY <1>4 DEF ListArtifacts
<1>5. CASE ConsumerStart(t)
  BY <1>5 DEF ConsumerStart
<1>6. CASE ConsumerCheck(t)
  BY <1>6 DEF ConsumerCheck
<1>7. CASE ConsumerBuild(t)
  BY <1>7 DEF ConsumerBuild
<1>8. CASE ConsumerEnd(t)
  BY <1>8 DEF ConsumerEnd
<1>9. CASE ReadyBegin(t)
  BY <1>9 DEF ReadyBegin
<1>10. CASE ReadyGated(t)
  BY <1>10 DEF ReadyGated
<1>11. CASE ReadyArtifacts(t)
  BY <1>11 DEF ReadyArtifacts
<1>12. CASE ReviewWrite(t)
  BY <1>12 DEF ReviewWrite
<1>13. CASE PubStop(t)
  BY <1>13 DEF PubStop
<1>. QED BY <1>1, <1>2, <1>3, <1>4, <1>5, <1>6, <1>7, <1>8, <1>9, <1>10, <1>11, <1>12, <1>13 DEF PubCommand

\* What a build writes are archives.
LEMMA WroteSome ==
  ASSUME archives \in [Archives -> Contents \cup {None}], tree \in Trees,
         NEW A \in SUBSET Archives, NEW b \in 1 .. MaxBuilds, Write(A, b)
  PROVE  /\ archives' \in [Archives -> Contents \cup {None}]
         /\ \A a \in A : archives'[a] \in Contents
         /\ \A a \in Archives \ A : archives'[a] = archives[a]
<1>1. [source |-> tree, build |-> b] \in Contents
  BY DEF Contents
<1>. QED BY <1>1 DEF Write

\* What is read of the source archives.
LEMMA ArchivesRead ==
  ASSUME archives \in [Archives -> Contents \cup {None}]
  PROVE  OfSources(archives) \in [Sources -> Contents \cup {None}]
BY DEF OfSources, Archives

LEMMA PubStarts == PubInit => PubInv
<1>. SUFFICES ASSUME PubInit PROVE PubInv
  OBVIOUS
<1>1. WorkspaceTypeOK
  BY WorkspaceStarts DEF PubInit
<1>2. NothingTested \in Tested
  BY DEF NothingTested, Tested
<1>3. pub \in [phase : {"idle", "check", "send"}, pos : 0..Len(UploadOrder),
               source : Trees \cup {None}, sha : [Archives -> Contents] \cup {None}]
  BY OrderTyped DEF PubInit
<1>4. PubTypeOK
  BY <1>1, <1>2, <1>3, PublicationOK DEF PubInit, PubTypeOK, PublicationOK
<1>5. Control
  BY DEF PubInit, WorkspaceInit, Control
<1>. QED BY <1>4, <1>5 DEF PubInv

LEMMA PubInvHolds == PubSpec => []PubInv
<1>1. PubInit => PubInv
  BY PubStarts
<1>2. PubInv /\ [PubNext]_pubAll => PubInv'
  <2>. SUFFICES ASSUME PubInv, [PubNext]_pubAll PROVE PubInv'
    OBVIOUS
  <2>. USE DEF PubInv
  <2>0. PubTypeOK /\ WorkspaceTypeOK /\ tree \in Trees
    BY WorkspaceOK DEF PubTypeOK, WorkspaceTypeOK, Trees, WorkspaceOK
  <2>1. ASSUME WorkspaceTypeOK', UNCHANGED <<lock, pc, cand>>,
               UNCHANGED <<archives, builds, stray, inventory, tested, staged, readiness, uploads, pub, hackage>>,
               gated' \subseteq Trees
        PROVE  PubInv'
    BY <2>1 DEF PubTypeOK, Control, Complete
  <2>2. CASE Developer /\ UNCHANGED pubVars
    BY <2>0, <2>1, <2>2, DeveloperTyped DEF pubVars, dist, consumer, publishing, PubTypeOK
  <2>3. CASE GateAccepts
    <3>1. WorkspaceTypeOK' /\ UNCHANGED <<lock, pc, cand>>
      BY <2>0, <2>3 DEF GateAccepts, workspace, worktree, command, WorkspaceTypeOK
    <3>. QED BY <2>0, <2>1, <2>3, <3>1 DEF GateAccepts, dist, consumer, publishing, PubTypeOK
  <2>4. ASSUME NEW t \in Terminals, PubCommand(t) PROVE PubInv'
    <3>1. /\ lock' \in Terminals \cup {None} /\ pc' \in [Terminals -> Phases]
          /\ cand' \in [Terminals -> Inputs \cup {None}] /\ saw' \in [Terminals -> SUBSET Trees]
          /\ UNCHANGED worktree
          /\ \A u \in Terminals : pc'[u] # "idle" => lock' = u
          /\ \A u \in Terminals : u # t => pc'[u] = pc[u] /\ pc[u] = "idle"
          /\ pc'[t] \in Working => cand'[t] \in Inputs
      BY <2>0, <2>4, CommandMoves DEF Control, Working
    <3>2. WorkspaceTypeOK'
      BY <2>0, <3>1 DEF WorkspaceTypeOK, worktree
    <3>. USE DEF PubTypeOK, Control, Working, At, Go, Start, LockFree, PubLeave, Leave,
           dist, consumer, publishing, pubVars
    <3>3. CASE ArtifactsStart(t)
      <4>1. builds' \in 0..MaxBuilds /\ builds' > 0
        BY <3>3, PublicationOK DEF ArtifactsStart, PublicationOK
      <4>. QED BY <3>1, <3>2, <3>3, <4>1 DEF ArtifactsStart, Complete
    <3>4. CASE Sdist(t)
      <4>1. builds \in 1 .. MaxBuilds /\ Write(Sources, builds)
        BY <3>4, PublicationOK DEF Sdist, Build, PublicationOK
      <4>2. Sources \in SUBSET Archives
        BY DEF Archives
      <4>3. /\ archives' \in [Archives -> Contents \cup {None}]
            /\ \A a \in Sources : archives'[a] \in Contents
            /\ \A a \in Archives \ Sources : archives'[a] = archives[a]
        BY <2>0, <4>1, <4>2, WroteSome
      <4>. QED BY <3>1, <3>2, <3>4, <4>2, <4>3 DEF Sdist, Build, Complete
    <3>5. CASE Haddock(t)
      <4>1. builds \in 1 .. MaxBuilds /\ Write(Documents, builds)
        BY <3>5, PublicationOK DEF Haddock, Build, PublicationOK
      <4>2. Documents \in SUBSET Archives /\ Archives \ Documents \subseteq Sources
        BY DEF Archives
      <4>3. /\ archives' \in [Archives -> Contents \cup {None}]
            /\ \A a \in Documents : archives'[a] \in Contents
            /\ \A a \in Archives \ Documents : archives'[a] = archives[a]
        BY <2>0, <4>1, <4>2, WroteSome
      <4>4. pc[t] = "haddock" /\ \A a \in Sources : archives[a] \in Contents
        BY <3>5 DEF Haddock, Build
      <4>5. \A a \in Archives : archives'[a] \in Contents
        BY <4>2, <4>3, <4>4
      <4>. QED BY <3>1, <3>2, <3>5, <4>3, <4>5 DEF Haddock, Build, Complete
    <3>6. CASE ListArtifacts(t)
      <4>1. inventory' \in Inventories
        BY <3>6 DEF ListArtifacts, Inventories, Complete, Inputs
      <4>. QED BY <3>1, <3>2, <3>6, <4>1 DEF ListArtifacts, Complete, NothingTested, Tested
    <3>7. CASE ConsumerStart(t)
      <4>1. NothingTested \in Tested
        BY DEF NothingTested, Tested
      <4>2. staged' \in Results
        BY <2>0, <3>7, <4>1, WorkspaceOK DEF ConsumerStart, Results, WorkspaceOK
      <4>. QED BY <3>1, <3>2, <3>7, <4>2 DEF ConsumerStart, Complete
    <3>8. CASE ConsumerCheck(t)
      <4>1. tested' \in [Terminals -> Tested]
        BY <3>8, ArchivesRead DEF ConsumerCheck, Tested
      <4>. QED BY <3>1, <3>2, <3>8, <4>1 DEF ConsumerCheck, Complete
    <3>9. CASE ConsumerBuild(t)
      <4>1. tested' \in [Terminals -> Tested]
        BY <3>9, ArchivesRead DEF ConsumerBuild, Tested
      <4>. QED BY <3>1, <3>2, <3>9, <4>1 DEF ConsumerBuild, Complete
    <3>10. CASE ConsumerEnd(t)
      <4>1. staged' \in Results
        BY <2>0, <3>10 DEF ConsumerEnd, Results, Inputs, WorkspaceTypeOK
      <4>. QED BY <3>1, <3>2, <3>10, <4>1 DEF ConsumerEnd, Complete, NothingTested, Tested
    <3>11. CASE ReadyBegin(t) \/ ReadyGated(t)
      BY <3>1, <3>2, <3>11 DEF ReadyBegin, ReadyGated, Complete
    <3>12. CASE ReadyArtifacts(t)
      BY <3>1, <3>2, <3>12 DEF ReadyArtifacts, ArtifactsOK, Complete
    <3>13. CASE ReviewWrite(t)
      BY <2>0, <3>1, <3>2, <3>13 DEF ReviewWrite, Complete, NothingTested, Tested, Readiness
    <3>14. CASE PubStop(t)
      BY <3>1, <3>2, <3>14 DEF PubStop, Complete, NothingTested, Tested
    <3>. QED BY <2>4, <3>3, <3>4, <3>5, <3>6, <3>7, <3>8, <3>9, <3>10, <3>11, <3>12, <3>13, <3>14 DEF PubCommand
  <2>5. CASE StrayWrite
    <3>1. WorkspaceTypeOK' /\ UNCHANGED <<lock, pc, cand>>
      BY <2>0, <2>5 DEF StrayWrite, workspace, worktree, command, WorkspaceTypeOK
    <3>2. stray \in 1 .. MaxBuilds
      BY <2>0, <2>5 DEF StrayWrite, PubTypeOK
    <3>3. Sources \in SUBSET Archives /\ Write(Sources, stray)
      BY <2>5 DEF StrayWrite, Archives
    <3>4. /\ archives' \in [Archives -> Contents \cup {None}]
          /\ \A a \in Archives : archives'[a] = archives[a] \/ archives'[a] \in Contents
      <4>1. archives \in [Archives -> Contents \cup {None}]
        BY DEF PubTypeOK
      <4>. QED BY <2>0, <3>2, <3>3, <4>1, WroteSome
    <3>5. UNCHANGED <<gated, builds, inventory, tested, staged, readiness, uploads, pub, hackage>> /\ stray' = 0
      BY <2>5 DEF StrayWrite, consumer, publishing
    <3>6. Control'
      <4>1. Complete => Complete'
        BY <3>4 DEF Complete
      <4>2. (\A a \in Sources : archives[a] \in Contents) => (\A a \in Sources : archives'[a] \in Contents)
        BY <3>3, <3>4
      <4>. QED BY <3>1, <3>5, <4>1, <4>2 DEF Control
    <3>. QED BY <2>0, <3>1, <3>4, <3>5, <3>6, PublicationOK DEF PubTypeOK, PublicationOK
  <2>6. CASE Publish
    <3>1. WorkspaceTypeOK' /\ UNCHANGED <<lock, pc, cand, gated, archives, builds, stray, inventory, tested, staged, readiness>>
      BY <2>0, <2>6 DEF Publish, PublishStart, PublishCheck, PublishSend, PublishFail, PublishStop,
         workspace, worktree, command, WorkspaceTypeOK, dist, consumer
    <3>2. pub' \in [phase : {"idle", "check", "send"}, pos : 0..Len(UploadOrder),
                    source : Trees \cup {None}, sha : [Archives -> Contents] \cup {None}]
      <4>. USE <2>0, OrderTyped DEF PubTypeOK
      <4>1. CASE PublishStart
        BY <4>1 DEF PublishStart, Readiness, Inventories
      <4>2. CASE PublishCheck \/ PublishStop
        BY <4>2 DEF PublishCheck, PublishStop
      <4>3. CASE PublishSend
        <5>1. pub.pos # Len(UploadOrder) => pub.pos + 1 \in 0 .. Len(UploadOrder)
          OBVIOUS
        <5>. QED BY <4>3, <5>1 DEF PublishSend
      <4>4. CASE PublishFail
        BY <4>4 DEF PublishFail
      <4>. QED BY <2>6, <4>1, <4>2, <4>3, <4>4 DEF Publish
    <3>3. hackage' \in Seq([archive : Archives, content : Contents])
      <4>1. CASE UNCHANGED hackage
        BY <2>0, <4>1 DEF PubTypeOK
      <4>2. CASE pub.phase = "send" /\ Send
        <5>1. Archive \in Archives /\ archives[Archive] \in Contents
          BY <2>0, <4>2, OrderTyped DEF PubTypeOK, Control, Complete, Archive
        <5>. QED BY <2>0, <4>2, <5>1 DEF Send, PubTypeOK
      <4>. QED BY <2>6, <4>1, <4>2 DEF Publish, PublishStart, PublishCheck, PublishSend, PublishFail, PublishStop
    <3>4. /\ uploads' \in {"absent", "running", "failed", "passed"}
          /\ uploads' # "absent" => uploads # "absent" \/ (inventory \in Inventories /\ archives = inventory.sha)
      <4>1. CASE PublishStart
        BY <2>0, <4>1 DEF PublishStart, ArtifactsOK, PubTypeOK
      <4>2. CASE PublishCheck \/ PublishSend \/ PublishFail \/ PublishStop
        BY <2>0, <4>2 DEF PublishCheck, PublishSend, PublishFail, PublishStop, PubTypeOK, Control
      <4>. QED BY <2>6, <4>1, <4>2 DEF Publish
    <3>6. pub'.phase # "idle" => uploads' # "absent" /\ pub'.pos > 0 /\ pub'.sha \in [Archives -> Contents]
      <4>. USE <2>0 DEF PubTypeOK
      <4>1. CASE PublishStart
        BY <4>1 DEF PublishStart, ArtifactsOK, Inventories
      <4>2. ASSUME pub.phase # "idle", pub'.sha = pub.sha, pub'.pos \in {pub.pos, pub.pos + 1},
                   uploads' = uploads
            PROVE  uploads' # "absent" /\ pub'.pos > 0 /\ pub'.sha \in [Archives -> Contents]
        BY <4>2 DEF Control
      <4>3. CASE PublishCheck
        <5>1. pub.phase # "idle" /\ pub'.sha = pub.sha /\ pub'.pos = pub.pos /\ uploads' = uploads
          BY <4>3 DEF PublishCheck
        <5>. QED BY <4>2, <5>1
      <4>4. CASE PublishSend /\ pub.pos # Len(UploadOrder)
        <5>1. pub.phase # "idle" /\ pub'.sha = pub.sha /\ pub'.pos = pub.pos + 1 /\ uploads' = uploads
          BY <4>4 DEF PublishSend
        <5>. QED BY <4>2, <5>1
      <4>5. CASE (PublishSend /\ pub.pos = Len(UploadOrder)) \/ PublishFail \/ PublishStop
        <5>1. pub'.phase = "idle"
          BY <4>5 DEF PublishSend, PublishFail, PublishStop
        <5>. QED BY <5>1
      <4>. QED BY <2>6, <4>1, <4>3, <4>4, <4>5 DEF Publish
    <3>5. uploads' # "absent" => Complete
      BY <2>0, <3>4 DEF Control, Complete, Inventories
    <3>. QED BY <2>0, <3>1, <3>2, <3>3, <3>4, <3>5, <3>6 DEF PubTypeOK, Control, Complete
  <2>7. CASE UNCHANGED pubAll
    BY <2>0, <2>1, <2>7 DEF pubAll, workspace, worktree, command, pubVars, dist, consumer, publishing,
       PubTypeOK, WorkspaceTypeOK
  <2>. QED BY <2>2, <2>3, <2>4, <2>5, <2>6, <2>7 DEF PubNext
<1>. QED BY <1>1, <1>2, PTL DEF PubSpec, pubAll

\* The commands keep the archives, the inventory, the proofs of the consumer and what
\* is published within their types.
THEOREM PubTypeCorrect == PubSpec => []PubTypeOK
<1>1. PubInv => PubTypeOK
  BY DEF PubInv
<1>. QED BY <1>1, PubInvHolds, PTL

-----------------------------------------------------------------------------
\* What is written stays so when no build begins to write: the pending builds are
\* among those there were, or the next one.
LEMMA WrittenStays ==
  ASSUME PubInv, NEW f, Written(f), builds' \in Nat, builds <= builds',
         \A b \in Nat : b <= builds => (Pending(b)' => Pending(b))
  PROVE  Written(f)'
<1>1. \A c \in Contents : c.build \in Nat
  BY DEF Contents
<1>. QED BY <1>1 DEF Written, PubInv, PubTypeOK

\* Archives that are gone do not come back: every build has bytes of its own.
LEMMA GoneStays ==
  ASSUME PubInv, NEW f, Written(f),
         NEW b \in Nat, Pending(b), Write(Sources, b)
  PROVE  OfSources(archives)' # f
<1>1. PICK a \in Sources : TRUE
  BY PublicationOK DEF PublicationOK
<1>2. archives'[a].build = b
  BY <1>1 DEF Write, Archives
<1>3. f[a].build # b
  BY <1>1 DEF Written
<1>. QED BY <1>1, <1>2, <1>3 DEF OfSources

\* A step that writes no source archive and begins no build, and moves at most a command
\* that is not testing.
LEMMA TestingStays ==
  ASSUME PubInv, WritesOnce, Testing, UNCHANGED <<builds, staged>>,
         \A a \in Sources : archives'[a] = archives[a],
         stray' \in Nat /\ stray' <= builds,
         \A b \in Nat : Pending(b)' => Pending(b),
         \A u \in Terminals : pc'[u] = "sdist" => stray' # builds,
         \A u \in Terminals : pc'[u] \in {"consumer-build", "consumer-end"} =>
           pc'[u] = pc[u] /\ tested'[u] = tested[u]
  PROVE  WritesOnce' /\ Testing'
<1>1. \A c \in Contents : c.build \in Nat
  BY DEF Contents
<1>2. \A a \in Sources : archives[a] \in Contents \cup {None}
  BY DEF PubInv, PubTypeOK, Archives
<1>3. OfSources(archives)' = OfSources(archives)
  BY DEF OfSources
<1>4. WritesOnce'
  <2>1. \A a \in Sources : archives[a] # None => archives[a].build <= builds /\ ~Pending(archives[a].build)'
    BY <1>1, <1>2 DEF WritesOnce
  <2>. QED BY <2>1 DEF WritesOnce, Pending
<1>5. builds \in Nat
  BY PublicationOK DEF PubInv, PubTypeOK, PublicationOK
<1>6. \A f : Written(f) => Written(f)'
  BY <1>5, WrittenStays
<1>7. \A x : Proves(x) => Proves(x)'
  BY <1>3, <1>6 DEF Proves
<1>. QED BY <1>4, <1>6, <1>7 DEF Testing

\* When a build writes, what is proved stays proved, and the archives are of a build that
\* is not pending any more.
LEMMA WritingKeepsProofs ==
  ASSUME PubInv, WritesOnce, UNCHANGED builds, stray' \in Nat, stray' <= builds,
         NEW b \in Nat, b <= builds, Pending(b), ~Pending(b)', Write(Sources, b),
         \A c \in Nat : Pending(c)' => Pending(c)
  PROVE  /\ \A f : Written(f) => Written(f)'
         /\ \A x : Proves(x) => Proves(x)'
         /\ \A a \in Sources : (archives[a].build <= builds /\ ~Pending(archives[a].build))'
<1>1. builds \in Nat
  BY PublicationOK DEF PubInv, PubTypeOK, PublicationOK
<1>2. \A f : Written(f) => Written(f)'
  BY <1>1, WrittenStays
<1>3. \A f : Written(f) => OfSources(archives)' # f
  BY GoneStays
<1>4. \A a \in Sources : archives'[a].build = b
  BY DEF Write, Archives
<1>5. \A a \in Sources : (archives[a].build <= builds /\ ~Pending(archives[a].build))'
  BY <1>4 DEF Pending
<1>. QED BY <1>2, <1>3, <1>5 DEF Proves

LEMMA ReadyTestedInv == PubSpec => []ReadyTested
<1>1. PubInit => ReadyTested
  BY WorkspaceOK DEF PubInit, WorkspaceInit, ReadyTested, WritesOnce, Testing, ReadyIsTested, At, Pending, Archives
<1>2. PubInv /\ ReadyTested /\ [PubNext]_pubAll => ReadyTested'
  <2>. SUFFICES ASSUME PubInv, ReadyTested, [PubNext]_pubAll PROVE ReadyTested'
    OBVIOUS
  <2>0. /\ builds \in Nat /\ stray \in Nat /\ stray <= builds /\ WritesOnce /\ Testing
        /\ \A u \in Terminals : pc[u] # "idle" => lock = u
        /\ WorkspaceTypeOK
    BY PublicationOK DEF PubInv, PubTypeOK, PublicationOK, ReadyTested, WritesOnce, Control
  <2>. USE DEF At
  <2>1. ASSUME UNCHANGED <<pc, archives, builds, stray, staged, inventory, tested>> PROVE ReadyTested'
    <3>1. \A b \in Nat : Pending(b)' => Pending(b)
      BY <2>1 DEF Pending
    <3>2. WritesOnce' /\ Testing'
      BY <2>0, <2>1, <3>1, TestingStays DEF WritesOnce
    <3>3. ReadyIsTested'
      BY <2>1 DEF ReadyTested, ReadyIsTested
    <3>. QED BY <3>2, <3>3 DEF ReadyTested
  <2>2. CASE Developer /\ UNCHANGED pubVars
    BY <2>0, <2>1, <2>2, DeveloperTyped DEF pubVars, dist, consumer
  <2>3. CASE GateAccepts
    BY <2>1, <2>3 DEF GateAccepts, workspace, command, dist, consumer
  <2>4. ASSUME NEW t \in Terminals, PubCommand(t) PROVE ReadyTested'
    <3>1. /\ \A u \in Terminals : u # t => pc'[u] = pc[u] /\ pc[u] = "idle"
          /\ pc' \in [Terminals -> Phases]
      BY <2>0, <2>4, CommandMoves DEF PubInv, Control, Working
    <3>. USE DEF Go, Start, LockFree, PubLeave, Leave, dist, consumer
    <3>2. /\ pc \in [Terminals -> Phases] /\ tested \in [Terminals -> Tested]
          /\ archives \in [Archives -> Contents \cup {None}]
      BY <2>0 DEF PubInv, PubTypeOK, WorkspaceTypeOK
    <3>3. ASSUME UNCHANGED <<archives, builds, stray, staged>>, pc'[t] \notin {"sdist", "consumer-build", "consumer-end"},
                 pc'[t] = "ready" => (staged.archives.compiled = OfSources(inventory.sha))'
          PROVE  ReadyTested'
      <4>1. \A b \in Nat : Pending(b)' => Pending(b)
        BY <3>1, <3>3 DEF Pending
      <4>2. WritesOnce' /\ Testing'
        BY <2>0, <3>1, <3>3, <4>1, TestingStays
      <4>3. ReadyIsTested'
        BY <3>1, <3>3 DEF ReadyIsTested
      <4>. QED BY <4>2, <4>3 DEF ReadyTested
    <3>4. CASE ArtifactsStart(t)
      <4>1. builds' = builds + 1 /\ pc'[t] = "sdist" /\ UNCHANGED <<archives, stray, tested, staged>>
        BY <3>2, <3>4 DEF ArtifactsStart
      <4>2. \A b \in Nat : b <= builds => (Pending(b)' => Pending(b))
        BY <2>0, <4>1 DEF Pending
      <4>3. \A f : Written(f) => Written(f)'
        BY <2>0, <4>1, <4>2, WrittenStays
      <4>4. Testing'
        BY <2>0, <3>1, <4>1, <4>3 DEF Testing, Proves
      <4>5. \A a \in Sources : archives[a] # None => archives[a].build \in Nat
        BY <3>2 DEF Archives, Contents
      <4>6. WritesOnce'
        BY <2>0, <3>1, <4>1, <4>2, <4>5 DEF WritesOnce
      <4>7. ReadyIsTested'
        BY <3>1, <4>1 DEF ReadyIsTested
      <4>. QED BY <4>4, <4>6, <4>7 DEF ReadyTested
    <3>5. CASE Sdist(t)
      <4>1. /\ pc[t] = "sdist" /\ pc'[t] = "haddock" /\ Write(Sources, builds)
            /\ UNCHANGED <<builds, stray, staged>> /\ stray # builds /\ builds > 0
        BY <2>0, <3>2, <3>5 DEF Sdist, Build, WritesOnce, PubInv, Control
      <4>2. Pending(builds) /\ ~Pending(builds)' /\ \A c \in Nat : Pending(c)' => Pending(c)
        BY <3>1, <4>1 DEF Pending
      <4>3. /\ \A x : Proves(x) => Proves(x)'
            /\ \A a \in Sources : (archives[a].build <= builds /\ ~Pending(archives[a].build))'
        BY <2>0, <4>1, <4>2, WritingKeepsProofs
      <4>4. WritesOnce' /\ Testing' /\ ReadyIsTested'
        BY <2>0, <3>1, <4>1, <4>3 DEF WritesOnce, Testing, ReadyIsTested
      <4>. QED BY <4>4 DEF ReadyTested
    <3>6. CASE Haddock(t)
      <4>1. /\ \A a \in Sources : archives'[a] = archives[a]
            /\ UNCHANGED <<builds, stray, staged, tested>> /\ pc[t] = "haddock" /\ pc'[t] = "list"
        BY <3>2, <3>6, PublicationOK DEF Haddock, Build, Write, Archives, PublicationOK
      <4>2. \A b \in Nat : Pending(b)' => Pending(b)
        BY <3>1, <4>1 DEF Pending
      <4>3. WritesOnce' /\ Testing'
        BY <2>0, <3>1, <4>1, <4>2, TestingStays
      <4>4. ReadyIsTested'
        BY <3>1, <4>1 DEF ReadyIsTested
      <4>. QED BY <4>3, <4>4 DEF ReadyTested
    <3>7. CASE ListArtifacts(t)
      BY <3>2, <3>3, <3>7 DEF ListArtifacts
    <3>8. CASE ConsumerStart(t)
      <4>1. /\ UNCHANGED <<archives, builds, stray>> /\ pc'[t] = "consumer" /\ staged'.status = "running"
        BY <3>2, <3>8 DEF ConsumerStart
      <4>2. \A b \in Nat : Pending(b)' => Pending(b)
        BY <3>1, <4>1 DEF Pending
      <4>3. \A a \in Sources : archives[a] # None => archives[a].build \in Nat
        BY <3>2 DEF Archives, Contents
      <4>4. WritesOnce'
        BY <2>0, <3>1, <4>1, <4>2, <4>3 DEF WritesOnce
      <4>5. Testing' /\ ReadyIsTested'
        BY <3>1, <4>1 DEF Testing, ReadyIsTested
      <4>. QED BY <4>4, <4>5 DEF ReadyTested
    <3>9. CASE ConsumerCheck(t)
      <4>1. /\ UNCHANGED <<archives, builds, stray, staged>> /\ pc'[t] = "consumer-build"
            /\ tested'[t].named = OfSources(archives) /\ OfSources(archives) = OfSources(inventory.sha)
            /\ inventory \in Inventories
        BY <3>2, <3>9 DEF ConsumerCheck, Digested, Tested, PubInv, PubTypeOK
      <4>2. \A b \in Nat : Pending(b)' <=> Pending(b)
        BY <3>1, <3>9, <4>1 DEF Pending, ConsumerCheck
      <4>3. \A a \in Sources : archives[a] \in Contents
        BY <4>1 DEF OfSources, Inventories, Archives
      <4>4. \A a \in Sources : archives[a] # None /\ archives[a].build \in Nat
        BY <4>3, PublicationOK DEF PublicationOK, Contents
      <4>5. Written(OfSources(archives))
        BY <2>0, <4>3, <4>4 DEF Written, WritesOnce, OfSources
      <4>6. \A f : Written(f) => Written(f)'
        BY <2>0, <4>1, <4>2, WrittenStays
      <4>7. Testing'
        BY <2>0, <3>1, <4>1, <4>5, <4>6 DEF Testing, Proves
      <4>8. WritesOnce' /\ ReadyIsTested'
        BY <2>0, <3>1, <4>1, <4>2, <4>4 DEF WritesOnce, ReadyIsTested
      <4>. QED BY <4>7, <4>8 DEF ReadyTested
    <3>10. CASE ConsumerBuild(t)
      <4>1. /\ UNCHANGED <<archives, builds, stray, staged>> /\ pc[t] = "consumer-build" /\ pc'[t] = "consumer-end"
            /\ tested'[t].named = tested[t].named /\ tested'[t].compiled = OfSources(archives)
        BY <3>2, <3>10 DEF ConsumerBuild, Tested
      <4>2. \A b \in Nat : Pending(b)' <=> Pending(b)
        BY <3>1, <4>1 DEF Pending
      <4>3. \A a \in Sources : archives[a] # None => archives[a].build \in Nat
        BY <3>2 DEF Archives, Contents
      <4>4. \A f : Written(f) => Written(f)'
        BY <2>0, <4>1, <4>2, WrittenStays
      <4>5. Testing'
        BY <2>0, <3>1, <4>1, <4>4 DEF Testing, Proves
      <4>6. WritesOnce' /\ ReadyIsTested'
        BY <2>0, <3>1, <4>1, <4>2, <4>3 DEF WritesOnce, ReadyIsTested
      <4>. QED BY <4>5, <4>6 DEF ReadyTested
    <3>11. CASE ConsumerEnd(t)
      <4>1. /\ UNCHANGED <<archives, builds, stray>> /\ pc[t] = "consumer-end" /\ pc'[t] = "idle"
            /\ staged'.archives = tested[t]
        BY <3>2, <3>11 DEF ConsumerEnd
      <4>2. \A b \in Nat : Pending(b)' <=> Pending(b)
        BY <3>1, <4>1 DEF Pending
      <4>3. \A a \in Sources : archives[a] # None => archives[a].build \in Nat
        BY <3>2 DEF Archives, Contents
      <4>4. \A f : Written(f) => Written(f)'
        BY <2>0, <4>1, <4>2, WrittenStays
      <4>5. Testing'
        BY <2>0, <3>1, <4>1, <4>4 DEF Testing, Proves
      <4>6. WritesOnce' /\ ReadyIsTested'
        BY <2>0, <3>1, <4>1, <4>2, <4>3 DEF WritesOnce, ReadyIsTested
      <4>. QED BY <4>5, <4>6 DEF ReadyTested
    <3>12. CASE ReadyBegin(t) \/ ReadyGated(t) \/ ReviewWrite(t)
      BY <3>2, <3>3, <3>12 DEF ReadyBegin, ReadyGated, ReviewWrite, pubVars
    <3>13. CASE ReadyArtifacts(t)
      <4>1. /\ UNCHANGED <<archives, builds, stray, staged, inventory>> /\ pc'[t] = "ready"
            /\ staged # None /\ staged.status = "passed"
            /\ staged.archives.named = OfSources(inventory.sha) /\ archives = inventory.sha
        BY <3>2, <3>13 DEF ReadyArtifacts, ArtifactsOK, pubVars
      <4>2. staged.archives.compiled = OfSources(inventory.sha)
        BY <2>0, <4>1 DEF Testing, Proves
      <4>. QED BY <3>3, <4>1, <4>2
    <3>14. CASE PubStop(t)
      <4>1. /\ UNCHANGED <<archives, builds, staged>> /\ pc'[t] = "idle"
            /\ stray' = stray \/ (stray' = builds /\ pc[t] = "sdist")
        BY <3>2, <3>14 DEF PubStop
      <4>2. \A b \in Nat : Pending(b)' => Pending(b)
        BY <3>1, <4>1 DEF Pending
      <4>3. WritesOnce' /\ Testing'
        BY <2>0, <3>1, <4>1, <4>2, TestingStays
      <4>4. ReadyIsTested'
        BY <3>1, <4>1 DEF ReadyIsTested
      <4>. QED BY <4>3, <4>4 DEF ReadyTested
    <3>. QED BY <2>4, <3>4, <3>5, <3>6, <3>7, <3>8, <3>9, <3>10, <3>11, <3>12, <3>13, <3>14 DEF PubCommand
  <2>5. CASE StrayWrite
    <3>1. /\ stray # 0 /\ stray' = 0 /\ Write(Sources, stray)
          /\ UNCHANGED <<pc, builds, inventory, tested, staged>>
      BY <2>5 DEF StrayWrite, workspace, command, consumer
    <3>2. /\ Pending(stray) /\ \A c \in Nat : Pending(c)' => Pending(c) /\ c # stray
      BY <2>0, <3>1 DEF Pending, WritesOnce
    <3>3. /\ \A f : Written(f) => Written(f)'
          /\ \A x : Proves(x) => Proves(x)'
          /\ \A a \in Sources : (archives[a].build <= builds /\ ~Pending(archives[a].build))'
      BY <2>0, <3>1, <3>2, WritingKeepsProofs
    <3>4. \A u \in Terminals : pc[u] = "sdist" => builds > 0
      BY DEF PubInv, Control
    <3>5. WritesOnce' /\ Testing' /\ ReadyIsTested'
      BY <2>0, <3>1, <3>3, <3>4 DEF WritesOnce, Testing, ReadyIsTested, ReadyTested
    <3>. QED BY <3>5 DEF ReadyTested
  <2>6. CASE Publish
    BY <2>1, <2>6 DEF Publish, PublishStart, PublishCheck, PublishSend, PublishFail, PublishStop,
       workspace, command, dist, consumer
  <2>7. CASE UNCHANGED pubAll
    BY <2>1, <2>7 DEF pubAll, workspace, command, pubVars, dist, consumer
  <2>. QED BY <2>2, <2>3, <2>4, <2>5, <2>6, <2>7 DEF PubNext
<1>. QED BY <1>1, <1>2, PubInvHolds, PTL DEF PubSpec, pubAll

\* A build that outlived its command cannot slip archives past release-ready that the
\* staged consumer has not compiled.
THEOREM ReadyTestedAlways == PubSpec => []ReadyIsTested
<1>1. ReadyTested => ReadyIsTested
  BY DEF ReadyTested
<1>. QED BY <1>1, ReadyTestedInv, PTL

-----------------------------------------------------------------------------
(* The instance that TLC checks: the gate and the publication side by side *)

mcVars == <<workspace, gateVars, pubVars, part>>

\* Side by side or alone, the gate and the publication keep their types: neither touches
\* what is the other's.
THEOREM ReleaseTypeCorrect == Spec => []ReleaseTypeOK
<1>1. Init => (part = "gate" \/ part = "publication") /\ GateInit /\ PubInit
  BY DEF Init
<1>2. part = "gate" /\ [Next]_mcVars => (part = "gate")' /\ [GateNext]_gateAll /\ UNCHANGED pubVars
  BY DEF Next, GateAlone, PubAlone, mcVars, gateAll
<1>3. part = "publication" /\ [Next]_mcVars => (part = "publication")' /\ [PubNext]_pubAll /\ UNCHANGED gateVars
  BY DEF Next, GateAlone, PubAlone, mcVars, pubAll, PubNext
<1>4. PubTypeOK /\ WorkspaceTypeOK' /\ UNCHANGED pubVars => PubTypeOK'
  BY DEF PubTypeOK, pubVars, dist, consumer, publishing
<1>5. GateTypeOK /\ WorkspaceTypeOK' /\ UNCHANGED gateVars => GateTypeOK'
  BY DEF GateTypeOK, gateVars
<1>6. (GateTypeOK => WorkspaceTypeOK) /\ (PubTypeOK => WorkspaceTypeOK)
  BY DEF GateTypeOK, PubTypeOK
<1>7. GateTypeOK /\ PubTypeOK => ReleaseTypeOK
  BY DEF ReleaseTypeOK
<1>8. GateInit => GateTypeOK
  BY WorkspaceStarts, GateOK DEF GateInit, GateTypeOK, GateOK
<1>9. PubInit => PubTypeOK
  BY PubStarts DEF PubInv
<1>. QED BY <1>1, <1>2, <1>3, <1>4, <1>5, <1>6, <1>7, <1>8, <1>9, GateTypeCorrect, PubTypeCorrect, PTL
         DEF Spec, GateSpec, PubSpec, mcVars, gateAll, pubAll
=============================================================================
