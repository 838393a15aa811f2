------------------------------- MODULE Outbox -------------------------------
(***************************************************************************)
(* The durable integration-event outbox: the table keiro_outbox            *)
(* (keiro/src/Keiro/Outbox/Schema.hs) and the workers that drain it        *)
(* (keiro/src/Keiro/Outbox.hs).                                            *)
(*                                                                         *)
(* A pass of a publisher worker is the loop idle -> locking -> claiming -> *)
(* publishing -> marking -> idle.  The claim is one SQL statement, run at  *)
(* READ COMMITTED: it is three steps here, because what it decides from    *)
(* its snapshot is not what it locks and another statement may commit      *)
(* between the two.  Publishing happens outside every transaction, and all *)
(* outcomes of a pass are marked in one.  A worker may crash at any point  *)
(* and the maintenance pass may run at any point.                          *)
(***************************************************************************)
EXTENDS Integers, FiniteSets

CONSTANTS
  NumRows,      \* rows are numbered in (created_at, outbox_id) order
  SourceOf,     \* SourceOf[r]: the source column
  KeyOf,        \* KeyOf[r]: the message_key column, or NoKey for NULL
  NoKey,
  Workers,      \* concurrent publisher workers
  Policy,       \* the OrderingPolicy all of them are configured with
  BatchSize,    \* LIMIT of the claim statement
  MaxAttempts,  \* maxAttempts of the publish and the maintenance options
  Serialized,   \* rows of one source commit in created_at order
  MaxCrashes,   \* bound: how many worker crashes a behaviour has
  Timely        \* no live worker outlives publishingTimeout

Rows == 1 .. NumRows
Policies == {"PerKeyHeadOfLine", "PerSourceStream", "StopTheLine", "BestEffort"}

\* What mkOutboxPublishOptions validates, and the shape of a row's columns.
ASSUME ConstantsOK ==
  /\ NumRows \in Nat
  /\ DOMAIN SourceOf = Rows
  /\ DOMAIN KeyOf = Rows
  /\ Policy \in Policies
  /\ BatchSize \in Nat \ {0}
  /\ MaxAttempts \in Nat \ {0}
  /\ MaxCrashes \in Nat
  /\ Serialized \in BOOLEAN
  /\ Timely \in BOOLEAN

VARIABLES
  status,     \* the status column; "absent" before the insert commits, "deleted" after GC
  attempts,   \* the attempt_count column
  due,        \* next_attempt_at <= now
  claimedAt,  \* updated_at of the rows in publishing, up to order
  pc,         \* where the worker is in publishClaimedOutbox
  cand,       \* rows the claim's WHERE clause selects in the worker's snapshot
  open,       \* non-terminal rows of that snapshot
  batch,      \* rows locked, then claimed, by the worker
  outcome,    \* PublishOutcome of each row of the batch, "none" until known
  holder,     \* history: the worker whose claim put the row in publishing
  acked,      \* history: rows the transport acknowledged
  refused,    \* history: rows the transport rejected for good
  faults,     \* history: claims of the row that ended in its own failure
  crashes     \* how many workers have crashed

table == <<status, attempts, due, claimedAt, holder, faults>>
worker == <<pc, cand, open, batch, outcome>>
broker == <<acked, refused>>
vars == <<table, worker, broker, crashes>>

Claimable == {"pending", "failed"}
Terminal == {"sent", "dead", "rejected"}
Statuses == Claimable \cup Terminal \cup {"absent", "publishing", "deleted"}
Outcomes == {"succeeded", "rejected", "failed"}
Phases == {"idle", "locking", "claiming", "publishing", "marking"}
Nobody == "nobody"

-----------------------------------------------------------------------------
(* The ordering policies *)

SameKey(q, r) ==
  /\ SourceOf[q] = SourceOf[r]
  /\ KeyOf[q] = KeyOf[r]
  /\ KeyOf[r] # NoKey

\* q stands before r in the run that the policy keeps in order.
Ahead(q, r) ==
  /\ q < r
  /\ \/ Policy \in {"PerKeyHeadOfLine", "StopTheLine"} /\ SameKey(q, r)
     \/ Policy = "PerSourceStream" /\ SourceOf[q] = SourceOf[r]

\* Mutant: a failure concerns no row but its own.
SameGroup_RowOnly(q, r) == q = r

\* q and r are marked as one group when the outcomes of a pass are written.
SameGroup(q, r) ==
  \/ q = r
  \/ Policy = "StopTheLine"
  \/ Policy = "PerKeyHeadOfLine" /\ SameKey(q, r)
  \/ Policy = "PerSourceStream" /\ SourceOf[q] = SourceOf[r]

Open(r) == status[r] \in Claimable \cup {"publishing"}
Due(r) == status[r] \in Claimable /\ due[r]
InFlight == {r \in Rows : status[r] = "publishing"}

\* The pre-filter: no earlier row of the run is open unless it is itself due.
PreFilter(r) == \A q \in Rows : Ahead(q, r) /\ Open(q) => Due(q)

\* Mutant: no post-filter.
PostFilter_None(w, r) == TRUE

\* The post-filter: no earlier row that the snapshot saw open was left unlocked.
PostFilter(w, r) == \A q \in open[w] : Ahead(q, r) => q \in batch[w]

\* The rows of S in created_at order, cut off after n of them.
FirstOf(S, n) == {r \in S : Cardinality({q \in S : q < r}) < n}

-----------------------------------------------------------------------------
Init ==
  /\ status = [r \in Rows |-> "absent"]
  /\ attempts = [r \in Rows |-> 0]
  /\ due = [r \in Rows |-> FALSE]
  /\ claimedAt = [r \in Rows |-> 0]
  /\ holder = [r \in Rows |-> Nobody]
  /\ faults = [r \in Rows |-> 0]
  /\ pc = [w \in Workers |-> "idle"]
  /\ cand = [w \in Workers |-> {}]
  /\ open = [w \in Workers |-> {}]
  /\ batch = [w \in Workers |-> {}]
  /\ outcome = [w \in Workers |-> [r \in Rows |-> "none"]]
  /\ acked = {}
  /\ refused = {}
  /\ crashes = 0

\* The transaction that enqueues row r commits. A second enqueue of the same
\* (source, message_id) changes nothing and is not a step.
Enqueue(r) ==
  /\ status[r] = "absent"
  /\ Serialized => \A q \in Rows :
       q < r /\ SourceOf[q] = SourceOf[r] => status[q] # "absent"
  /\ status' = [status EXCEPT ![r] = "pending"]
  /\ due' = [due EXCEPT ![r] = TRUE]
  /\ UNCHANGED <<attempts, claimedAt, holder, faults, worker, broker, crashes>>

\* The backoff of a failed row runs out.
BackoffElapses(r) ==
  /\ status[r] = "failed"
  /\ ~due[r]
  /\ due' = [due EXCEPT ![r] = TRUE]
  /\ UNCHANGED <<status, attempts, claimedAt, holder, faults, worker, broker, crashes>>

-----------------------------------------------------------------------------
(* One pass of publishClaimedOutbox *)

\* The claim statement takes its snapshot.
ClaimSnapshot(w) ==
  /\ pc[w] = "idle"
  /\ pc' = [pc EXCEPT ![w] = "locking"]
  /\ cand' = [cand EXCEPT ![w] = {r \in Rows : Due(r) /\ PreFilter(r)}]
  /\ open' = [open EXCEPT ![w] = {r \in Rows : Open(r)}]
  /\ UNCHANGED <<batch, outcome, table, broker, crashes>>

\* Rows that another claim statement has locked and not yet committed.
LockedByOther(w, r) ==
  \E v \in Workers \ {w} : pc[v] = "claiming" /\ r \in batch[v]

\* FOR UPDATE SKIP LOCKED: a row of the snapshot is locked if nobody holds it
\* and its newest version still satisfies the conditions on the row itself.
ClaimLock(w) ==
  /\ pc[w] = "locking"
  /\ pc' = [pc EXCEPT ![w] = "claiming"]
  /\ batch' = [batch EXCEPT ![w] =
       FirstOf({r \in cand[w] : Due(r) /\ ~LockedByOther(w, r)}, BatchSize)]
  /\ UNCHANGED <<cand, open, outcome, table, broker, crashes>>

\* The order of the claims that still hold a row, as small numbers.
ClaimRank(r) ==
  Cardinality({q \in InFlight : claimedAt[q] < claimedAt[r]})

\* The locked rows that pass the post-filter move to publishing; commit.
ClaimCommit(w) ==
  /\ pc[w] = "claiming"
  /\ LET ready == {r \in batch[w] : PostFilter(w, r)} IN
     /\ status' = [r \in Rows |-> IF r \in ready THEN "publishing" ELSE status[r]]
     /\ attempts' = [r \in Rows |-> IF r \in ready THEN attempts[r] + 1 ELSE attempts[r]]
     /\ holder' = [r \in Rows |-> IF r \in ready THEN w ELSE holder[r]]
     /\ claimedAt' = [r \in Rows |->
          IF r \in ready THEN Cardinality(InFlight)
          ELSE IF r \in InFlight THEN ClaimRank(r) ELSE 0]
     /\ batch' = [batch EXCEPT ![w] = ready]
     /\ pc' = [pc EXCEPT ![w] = IF ready = {} THEN "idle" ELSE "publishing"]
  /\ cand' = [cand EXCEPT ![w] = {}]
  /\ open' = [open EXCEPT ![w] = {}]
  /\ UNCHANGED <<due, faults, outcome, broker, crashes>>

\* What a transport must do to be used with an ordered policy (the comment on
\* publishClaimedOutbox): no later row of a run succeeds after an earlier one
\* failed in the same call.
KeepsOrder(o, S) ==
  \A q, r \in S : Ahead(q, r) /\ o[q] = "failed" => o[r] # "succeeded"

\* The transport answers for the rows of S, which w then knows the outcome of.
\* A missing outcome and an exception are normalized to "failed".
Answer(w, o, S) ==
  /\ outcome' = [outcome EXCEPT ![w] =
       [r \in Rows |-> IF r \in S THEN o[r] ELSE outcome[w][r]]]
  /\ acked' = acked \cup {r \in S : o[r] = "succeeded"}
  /\ refused' = refused \cup {r \in S : o[r] = "rejected"}

\* Every policy but StopTheLine hands the transport the whole batch.
PublishBatch(w) ==
  /\ pc[w] = "publishing"
  /\ Policy # "StopTheLine"
  /\ \E o \in [batch[w] -> Outcomes] :
       KeepsOrder(o, batch[w]) /\ Answer(w, o, batch[w])
  /\ pc' = [pc EXCEPT ![w] = "marking"]
  /\ UNCHANGED <<cand, open, batch, table, crashes>>

\* StopTheLine publishes row by row and halts at the first failure.
PublishNext(w) ==
  /\ pc[w] = "publishing"
  /\ Policy = "StopTheLine"
  /\ LET left == {r \in batch[w] : outcome[w][r] = "none"} IN
     \E r \in FirstOf(left, 1) : \E o \in [{r} -> Outcomes] :
       /\ Answer(w, o, {r})
       /\ pc' = [pc EXCEPT ![w] =
            IF o[r] = "failed" \/ left = {r} THEN "marking" ELSE "publishing"]
  /\ UNCHANGED <<cand, open, batch, table, crashes>>

\* groupMarks: the first failure of a group is its pivot, what follows is skipped.
Skipped(w, r) ==
  \E q \in batch[w] : q < r /\ SameGroup(q, r) /\ outcome[w][q] = "failed"
Pivot(w, r) == outcome[w][r] = "failed" /\ ~Skipped(w, r)

\* Mutant: the mark does not test that the row is still in publishing.
Markable_Unguarded(w) == batch[w]

\* The rows of the batch that a mark can still change.
Markable(w) == batch[w] \cap InFlight

\* Mutant: the last attempt of the budget does not exhaust it.
MarkedStatus_OffByOne(w, r) ==
  IF Skipped(w, r) THEN "failed"
  ELSE IF Pivot(w, r) THEN (IF attempts[r] > MaxAttempts THEN "dead" ELSE "failed")
  ELSE IF outcome[w][r] = "rejected" THEN "rejected" ELSE "sent"

MarkedStatus(w, r) ==
  IF Skipped(w, r) THEN "failed"
  ELSE IF Pivot(w, r) THEN (IF attempts[r] >= MaxAttempts THEN "dead" ELSE "failed")
  ELSE IF outcome[w][r] = "rejected" THEN "rejected" ELSE "sent"

\* Mutant: a skipped row gets back one attempt more than its claim took.
MarkedAttempts_DoubleRefund(w, r) ==
  IF Skipped(w, r) THEN attempts[r] - 2 ELSE attempts[r]

\* Mutant: a skipped row pays for its claim.
MarkedAttempts_NoRefund(w, r) == attempts[r]

\* A skipped row gets back the attempt its claim took.
MarkedAttempts(w, r) ==
  IF Skipped(w, r) THEN (IF attempts[r] > 0 THEN attempts[r] - 1 ELSE 0)
  ELSE attempts[r]

\* The marking transaction. Its only guard on a row is status = 'publishing'.
Mark(w) ==
  /\ pc[w] = "marking"
  /\ LET hit == Markable(w) IN
     /\ status' = [r \in Rows |-> IF r \in hit THEN MarkedStatus(w, r) ELSE status[r]]
     /\ attempts' = [r \in Rows |-> IF r \in hit THEN MarkedAttempts(w, r) ELSE attempts[r]]
     /\ due' = [r \in Rows |-> IF r \in hit /\ Pivot(w, r) THEN FALSE ELSE due[r]]
     /\ holder' = [r \in Rows |-> IF r \in hit THEN Nobody ELSE holder[r]]
     /\ claimedAt' = [r \in Rows |-> IF r \in hit THEN 0 ELSE claimedAt[r]]
     /\ faults' = [r \in Rows |-> IF r \in hit /\ Pivot(w, r) THEN faults[r] + 1 ELSE faults[r]]
  /\ pc' = [pc EXCEPT ![w] = "idle"]
  /\ batch' = [batch EXCEPT ![w] = {}]
  /\ outcome' = [outcome EXCEPT ![w] = [r \in Rows |-> "none"]]
  /\ UNCHANGED <<cand, open, broker, crashes>>

\* The process of a worker dies; an open statement rolls back, a claim stays.
Crash(w) ==
  /\ pc[w] # "idle"
  /\ crashes < MaxCrashes
  /\ crashes' = crashes + 1
  /\ pc' = [pc EXCEPT ![w] = "idle"]
  /\ cand' = [cand EXCEPT ![w] = {}]
  /\ open' = [open EXCEPT ![w] = {}]
  /\ batch' = [batch EXCEPT ![w] = {}]
  /\ outcome' = [outcome EXCEPT ![w] = [r \in Rows |-> "none"]]
  /\ UNCHANGED <<table, broker>>

-----------------------------------------------------------------------------
(* Maintenance *)

\* Rows some live worker claimed and has not marked.
Held == UNION {batch[w] : w \in {v \in Workers : pc[v] \in {"publishing", "marking"}}}

\* Mutant: maintenance only returns rows that have budget left.
RequeueStuck_BudgetLeft ==
  \E c \in {claimedAt[r] : r \in InFlight} :
    LET stuck == {r \in InFlight : claimedAt[r] <= c /\ attempts[r] < MaxAttempts} IN
    /\ stuck # {}
    /\ Timely => stuck \cap Held = {}
    /\ status' = [r \in Rows |-> IF r \in stuck THEN "failed" ELSE status[r]]
    /\ holder' = [r \in Rows |-> IF r \in stuck THEN Nobody ELSE holder[r]]
    /\ claimedAt' = [r \in Rows |-> IF r \in stuck THEN 0 ELSE claimedAt[r]]
    /\ faults' = [r \in Rows |-> IF r \in stuck THEN faults[r] + 1 ELSE faults[r]]
    /\ UNCHANGED <<attempts, due, worker, broker, crashes>>

\* outboxMaintenancePass at a time when the claims up to the c-th are older
\* than publishingTimeout.
RequeueStuck ==
  \E c \in {claimedAt[r] : r \in InFlight} :
    LET stuck == {r \in InFlight : claimedAt[r] <= c} IN
    /\ Timely => stuck \cap Held = {}
    /\ status' = [r \in Rows |->
         IF r \in stuck
         THEN IF attempts[r] >= MaxAttempts THEN "dead" ELSE "failed"
         ELSE status[r]]
    /\ holder' = [r \in Rows |-> IF r \in stuck THEN Nobody ELSE holder[r]]
    /\ claimedAt' = [r \in Rows |-> IF r \in stuck THEN 0 ELSE claimedAt[r]]
    /\ faults' = [r \in Rows |-> IF r \in stuck THEN faults[r] + 1 ELSE faults[r]]
    /\ UNCHANGED <<attempts, due, worker, broker, crashes>>

\* garbageCollectSent reaches a sent row after its retention.
CollectSent(r) ==
  /\ status[r] = "sent"
  /\ status' = [status EXCEPT ![r] = "deleted"]
  /\ UNCHANGED <<attempts, due, claimedAt, holder, faults, worker, broker, crashes>>

-----------------------------------------------------------------------------
WorkerStep(w) ==
  \/ ClaimSnapshot(w)
  \/ ClaimLock(w)
  \/ ClaimCommit(w)
  \/ PublishBatch(w)
  \/ PublishNext(w)
  \/ Mark(w)

Next ==
  \/ \E r \in Rows : Enqueue(r) \/ BackoffElapses(r) \/ CollectSent(r)
  \/ \E w \in Workers : WorkerStep(w) \/ Crash(w)
  \/ RequeueStuck

Spec == Init /\ [][Next]_vars

\* Passes are scheduled repeatedly and each of their steps ends; maintenance is
\* scheduled too; time passes. Nothing obliges a producer, a crash or the GC.
Fairness ==
  /\ \A w \in Workers : WF_vars(WorkerStep(w))
  /\ \A r \in Rows : WF_vars(BackoffElapses(r))
  /\ WF_vars(RequeueStuck)

FairSpec == Spec /\ Fairness

-----------------------------------------------------------------------------
(* What the outbox promises *)

\* Every variable has a value of its type.
TypeOK ==
  /\ status \in [Rows -> Statuses]
  /\ attempts \in [Rows -> Nat]
  /\ due \in [Rows -> BOOLEAN]
  /\ claimedAt \in [Rows -> Nat]
  /\ holder \in [Rows -> Workers \cup {Nobody}]
  /\ faults \in [Rows -> Nat]
  /\ pc \in [Workers -> Phases]
  /\ cand \in [Workers -> SUBSET Rows]
  /\ open \in [Workers -> SUBSET Rows]
  /\ batch \in [Workers -> SUBSET Rows]
  /\ outcome \in [Workers -> [Rows -> Outcomes \cup {"none"}]]
  /\ acked \in SUBSET Rows
  /\ refused \in SUBSET Rows
  /\ crashes \in 0 .. MaxCrashes

\* The transport sees a run in order: when it acknowledges a row, every earlier
\* row of the run was acknowledged or refused before, or was given up as dead.
\* This is the point of the two filters of the claim statement (claimSql), of
\* its row locks and of the prefix rule of groupMarks, with workers racing,
\* crashing, being requeued and marking late.
InOrderDelivery ==
  \A q, r \in Rows :
    Ahead(q, r) /\ r \in acked => q \in acked \cup refused \/ status[q] = "dead"

\* A row is in publishing only if every earlier open row of its run was claimed
\* by the same statement and is still in publishing (claimOutboxBatch: per-key
\* and per-source subsequences are gapless ordered runs), and a run is finished in
\* order in the table.
GaplessRuns ==
  \A q, r \in Rows :
    Ahead(q, r) =>
      /\ status[r] = "publishing" /\ Open(q) =>
           status[q] = "publishing" /\ claimedAt[q] = claimedAt[r]
      /\ status[r] \in {"sent", "deleted"} => status[q] \in Terminal \cup {"deleted"}

\* No row is marked sent that the transport did not acknowledge, or rejected
\* that it did not refuse, whatever claim the mark comes from.
MarksAreAnswers ==
  \A r \in Rows :
    /\ status[r] \in {"sent", "deleted"} => r \in acked
    /\ status[r] = "rejected" => r \in refused

\* The attempt budget: whoever claims a row, it is claimed at most MaxAttempts
\* times on its own account, and a row that may still be claimed has budget left.
AttemptBudget ==
  \A r \in Rows :
    /\ status[r] \in Claimable => attempts[r] < MaxAttempts
    /\ status[r] = "publishing" => attempts[r] \in 1 .. MaxAttempts

\* A row dies of its own failures only: a failing row ahead of it in the batch
\* does not use up its attempts (markOutboxSkippedTx).
DeadByOwnFaults ==
  \A r \in Rows : status[r] = "dead" => faults[r] >= MaxAttempts

\* sent, dead and rejected are final, and only a sent row is ever deleted: an
\* event that was not published leaves its row behind for the operator.
TerminalIsFinal ==
  [][\A r \in Rows :
       status[r] \in Terminal \cup {"deleted"} /\ status'[r] # status[r] =>
         status[r] = "sent" /\ status'[r] = "deleted"]_vars

\* Only the worker whose claim holds a row can mark it (the comment on
\* markOutboxFailedTx: a late failure mark from the original worker must not
\* flip the re-claimed row mid-publish).
LateMarkSparesReclaimed ==
  [][\A w \in Workers, r \in Rows :
       pc[w] = "marking" /\ pc'[w] = "idle" /\ crashes' = crashes
         /\ holder[r] \notin {w, Nobody}
         => status'[r] = status[r]]_vars

\* Every enqueued row is settled: sent, rejected or dead.
EverySettled ==
  \A r \in Rows :
    status[r] = "pending" ~> status[r] \in Terminal \cup {"deleted"}

-----------------------------------------------------------------------------
(* Inductive invariants: what every step of a pass preserves *)

\* The transport has answered for r, or r was given up.
Settled(r) == r \in acked \cup refused \/ status[r] = "dead"

\* A locked row stays as the lock found it, and is locked once.
LockInv ==
  \A w \in Workers : pc[w] = "claiming" => \A r \in batch[w] :
    /\ status[r] \in Claimable
    /\ \A v \in Workers \ {w} : pc[v] = "claiming" => r \notin batch[v]

\* No attempt is charged to a row before it is enqueued.
BudgetInv ==
  AttemptBudget /\ \A r \in Rows : status[r] = "absent" => attempts[r] = 0

\* Serialized producers leave no gap in a source.
EnqueueInv ==
  \A q, r \in Rows :
    q < r /\ SourceOf[q] = SourceOf[r] /\ status[q] = "absent" => status[r] = "absent"

\* A worker knows of an outcome only from the transport.
OutcomeInv ==
  \A w \in Workers, r \in Rows :
    /\ outcome[w][r] = "succeeded" => r \in acked
    /\ outcome[w][r] = "rejected" => r \in refused

\* Which outcomes a worker can know in which phase of its pass: rows of which
\* it knows nothing when it marks come after the failure that halted it.
PhaseInv ==
  \A w \in Workers :
    /\ pc[w] \in {"idle", "locking", "claiming"} => \A r \in Rows : outcome[w][r] = "none"
    /\ pc[w] = "publishing" => \A r \in Rows :
         outcome[w][r] = "none" \/ (Policy = "StopTheLine" /\ outcome[w][r] # "failed")
    /\ pc[w] = "marking" => \A r \in batch[w] :
         outcome[w][r] = "none" => \E q \in batch[w] :
           q < r /\ outcome[w][q] = "failed" /\ Policy = "StopTheLine"

\* What precedes a candidate was open in the snapshot or is settled by now.
SnapshotInv ==
  \A w \in Workers :
    /\ pc[w] \in {"locking", "claiming"} => \A r \in cand[w], q \in Rows :
         Ahead(q, r) => q \in open[w] \/ Settled(q)
    /\ pc[w] = "claiming" => batch[w] \subseteq cand[w]

\* What precedes a claimed row was claimed with it or is settled by now.
ClaimInv ==
  \A w \in Workers : pc[w] = "publishing" =>
    \A r \in batch[w], q \in Rows : Ahead(q, r) => q \in batch[w] \/ Settled(q)

\* Every mark is an answer of the transport.
AnswerInv == MarksAreAnswers /\ OutcomeInv /\ PhaseInv

DeliveryInv ==
  /\ AnswerInv
  /\ EnqueueInv
  /\ SnapshotInv
  /\ ClaimInv
  /\ InOrderDelivery

\* Every attempt of a row is a failure of its own, but for the claim it is in.
FaultInv ==
  \A r \in Rows :
    /\ status[r] \in Claimable \cup {"absent"} => attempts[r] <= faults[r]
    /\ status[r] = "publishing" => attempts[r] <= faults[r] + 1
    /\ status[r] = "dead" => faults[r] >= MaxAttempts

\* What precedes a candidate was open in the snapshot or is settled in the table.
OpenInv ==
  \A w \in Workers :
    /\ pc[w] \in {"locking", "claiming"} => \A r \in cand[w], q \in Rows :
         Ahead(q, r) => q \in open[w] \/ status[q] \in Terminal \cup {"deleted"}
    /\ pc[w] = "claiming" => batch[w] \subseteq cand[w]

\* While no worker outlives the timeout, the batch of a live worker is in
\* publishing, is its own, and is all that its claim put there.
LiveInv ==
  \A w \in Workers : pc[w] \in {"publishing", "marking"} =>
    /\ batch[w] \subseteq InFlight
    /\ \A r \in batch[w], q \in InFlight : claimedAt[q] = claimedAt[r] => q \in batch[w]
    /\ \A v \in Workers \ {w} : pc[v] \in {"publishing", "marking"} => batch[v] \cap batch[w] = {}

\* While no worker outlives the timeout, a live worker holds the rows of its batch.
OwnerInv ==
  \A w \in Workers : pc[w] \in {"publishing", "marking"} =>
    \A r \in batch[w] : status[r] = "publishing" /\ holder[r] = w

\* What keeps the runs of a policy gapless.
RunInv == EnqueueInv /\ OpenInv /\ LiveInv /\ GaplessRuns
=============================================================================
