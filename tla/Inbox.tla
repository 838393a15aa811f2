-------------------------------- MODULE Inbox --------------------------------
(***************************************************************************)
(* The idempotent inbox: the table keiro_inbox (keiro/src/Keiro/Inbox/     *)
(* Schema.hs) and the consumers that run handlers through it               *)
(* (keiro/src/Keiro/Inbox.hs).                                             *)
(*                                                                         *)
(* A delivery is the list of messages handed to one call: one message for  *)
(* runInboxTransaction (without `retrying') and for                        *)
(* runInboxTransactionWithRetries, several for runInboxTransactionBatch.   *)
(* Each statement of a transaction is a step, run at READ COMMITTED: an    *)
(* insert or update of a row waits for the transaction that has written    *)
(* it, a select does not.  The writes and the handler's effects appear at  *)
(* the commit.  The broker delivers at least once: any delivery may be     *)
(* repeated, by any consumer.                                              *)
(***************************************************************************)
EXTENDS Integers, Sequences, FiniteSets

CONSTANTS
  Keys,       \* (source, dedupe_key) of the messages
  Consumers,
  Modes       \* the ways the consumers may be set up, one of which they use

ModeOK(m) ==
  /\ m.deliveries \subseteq Seq(Keys) \ {<<>>}
  /\ m.retrying \in BOOLEAN
  /\ ~m.retrying => \A b \in m.deliveries : Len(b) = 1
  /\ m.ceiling \in Nat
  /\ m.legacy \subseteq Keys
  /\ m.exclusive \in BOOLEAN
  /\ m.collecting \in BOOLEAN
  /\ m.crashes \in Nat

ASSUME ConstantsOK == \A m \in Modes : ModeOK(m)

VARIABLES
  mode,       \* how the consumers are set up
  status,     \* the status column of the committed row, or "absent"
  attempts,   \* its attempt_count column
  runs,       \* history: commits of the handler's effects; 2 stands for more
  collected,  \* history: keys whose row the retention job deleted
  withdrawn,  \* history: keys whose handler condemned a transaction of its own
  acked,      \* history: keys acknowledged to the broker
  pc,         \* where the consumer is in its call
  todo,       \* the delivery
  pos,        \* the message of it being worked on
  single,     \* each message has its own transaction
  result,     \* InboxResult of the messages done so far
  writes,     \* rows the open transaction has written, all to completed
  ran,        \* messages whose handler ran in the open transaction
  doomed,     \* the open transaction is condemned
  crashes     \* how many consumers have crashed

table == <<status, attempts>>
history == <<runs, collected, withdrawn, acked>>
call == <<pc, todo, pos, single, result>>
tx == <<writes, ran, doomed>>
vars == <<mode, table, history, call, tx, crashes>>

Deliveries == mode.deliveries  \* the lists of messages a consumer may be handed
Retrying == mode.retrying      \* the failure-recording wrappers, with a ceiling
Ceiling == mode.ceiling        \* that attempt ceiling
Legacy == mode.legacy          \* keys whose row an older release left processing
Exclusive == mode.exclusive    \* no two consumers hold a message at the same time
Collecting == mode.collecting  \* the retention job runs
MaxCrashes == mode.crashes     \* bound: how many consumer crashes a behaviour has

Statuses == {"absent", "processing", "completed", "failed"}
Results == {"Processed", "Duplicate", "InProgress", "PreviouslyFailed", "HandlerFailed"}
Phases == {"idle", "insert", "select", "handle", "retry", "mark", "commit",
           "verify", "record", "done"}
\* What the consumer commits its offset on.
Final == {"Processed", "Duplicate", "PreviouslyFailed"}

ItemsOf(b) == {b[i] : i \in DOMAIN b}
Key(c) == todo[c][pos[c]]

\* Mutant: an uncommitted row of another transaction does not hold an insert up.
Free_Always(k, c) == TRUE

\* No other open transaction has written the row.
Free(k, c) == \A d \in Consumers \ {c} : k \notin writes[d]

-----------------------------------------------------------------------------
Init ==
  /\ mode \in Modes
  /\ status = [k \in Keys |-> IF k \in Legacy THEN "processing" ELSE "absent"]
  /\ attempts = [k \in Keys |-> 0]
  /\ runs = [k \in Keys |-> 0]
  /\ collected = {}
  /\ withdrawn = {}
  /\ acked = {}
  /\ pc = [c \in Consumers |-> "idle"]
  /\ todo = [c \in Consumers |-> <<>>]
  /\ pos = [c \in Consumers |-> 1]
  /\ single = [c \in Consumers |-> TRUE]
  /\ result = [c \in Consumers |-> <<>>]
  /\ writes = [c \in Consumers |-> {}]
  /\ ran = [c \in Consumers |-> {}]
  /\ doomed = [c \in Consumers |-> FALSE]
  /\ crashes = 0

\* The broker hands the delivery b to the consumer.
Deliver(c, b) ==
  /\ pc[c] = "idle"
  /\ Exclusive => \A d \in Consumers : ItemsOf(todo[d]) \cap ItemsOf(b) = {}
  /\ pc' = [pc EXCEPT ![c] = "insert"]
  /\ todo' = [todo EXCEPT ![c] = b]
  /\ pos' = [pos EXCEPT ![c] = 1]
  /\ single' = [single EXCEPT ![c] = Len(b) = 1]
  /\ result' = [result EXCEPT ![c] = <<>>]
  /\ UNCHANGED <<table, history, tx, crashes>>

Go(c, phase) ==
  /\ pc' = [pc EXCEPT ![c] = phase]
  /\ UNCHANGED <<todo, pos, single, result>>

\* The transaction has its answer r for the current message: it goes on with
\* the next one of a batch or commits.
Answer(c, r) ==
  /\ result' = [result EXCEPT ![c] = Append(@, r)]
  /\ IF single[c] \/ pos[c] = Len(todo[c])
     THEN pc' = [pc EXCEPT ![c] = "commit"] /\ UNCHANGED pos
     ELSE pc' = [pc EXCEPT ![c] = "insert"] /\ pos' = [pos EXCEPT ![c] = @ + 1]
  /\ UNCHANGED <<todo, single>>

\* Mutant: the last message is not recognized.
NextItem_PastEnd(c) ==
  /\ pc' = [pc EXCEPT ![c] = "insert"]
  /\ pos' = [pos EXCEPT ![c] = @ + 1]
  /\ UNCHANGED <<todo, single>>

\* In the one-transaction-per-message mode: on to the next message.
NextItem(c) ==
  /\ IF pos[c] = Len(todo[c])
     THEN pc' = [pc EXCEPT ![c] = "done"] /\ UNCHANGED pos
     ELSE pc' = [pc EXCEPT ![c] = "insert"] /\ pos' = [pos EXCEPT ![c] = @ + 1]
  /\ UNCHANGED <<todo, single>>

\* perMessageFallback: the whole delivery again, message by message.
FallBack(c) ==
  /\ pc' = [pc EXCEPT ![c] = "insert"]
  /\ pos' = [pos EXCEPT ![c] = 1]
  /\ single' = [single EXCEPT ![c] = TRUE]
  /\ result' = [result EXCEPT ![c] = <<>>]
  /\ UNCHANGED todo

\* The call is over.
Leave(c) ==
  /\ pc' = [pc EXCEPT ![c] = "idle"]
  /\ todo' = [todo EXCEPT ![c] = <<>>]
  /\ pos' = [pos EXCEPT ![c] = 1]
  /\ single' = [single EXCEPT ![c] = TRUE]
  /\ result' = [result EXCEPT ![c] = <<>>]

EndTx(c) ==
  /\ writes' = [writes EXCEPT ![c] = {}]
  /\ ran' = [ran EXCEPT ![c] = {}]
  /\ doomed' = [doomed EXCEPT ![c] = FALSE]

\* Mutant: the handler's exception is swallowed inside the transaction.
Raise_Swallowed(c) == Answer(c, "Processed") /\ UNCHANGED tx

\* The transaction ends with an exception: a batch falls back, a retrying call
\* records the failure, and any other call passes the exception on.
Raise(c) ==
  /\ EndTx(c)
  /\ \/ ~single[c] /\ FallBack(c)
     \/ single[c] /\ Retrying /\ Go(c, "record")
     \/ single[c] /\ ~Retrying /\ Leave(c)

-----------------------------------------------------------------------------
(* attemptOneTx *)

\* planInboxBatch answers the repetition of a message within a batch.
Repeated(c) ==
  ~single[c] /\ \E i \in 1 .. pos[c] - 1 : todo[c][i] = Key(c)

SkipRepeated(c) ==
  /\ pc[c] = "insert"
  /\ Repeated(c)
  /\ Answer(c, "Duplicate")
  /\ UNCHANGED <<table, history, tx, crashes>>

\* INSERT .. ON CONFLICT DO NOTHING: it waits for the row's writer, and inserts
\* unless a row is there.
Insert(c) ==
  /\ pc[c] = "insert"
  /\ ~Repeated(c)
  /\ Free(Key(c), c)
  /\ IF status[Key(c)] = "absent"
     THEN Go(c, "handle") /\ writes' = [writes EXCEPT ![c] = @ \cup {Key(c)}]
     ELSE Go(c, "select") /\ UNCHANGED writes
  /\ UNCHANGED <<table, history, ran, doomed, crashes>>

\* Mutant: the ceiling is passed by one.
Exhausted_OffByOne(k) == ~Retrying \/ attempts[k] > Ceiling

\* The failed row is not retried.
Exhausted(k) == ~Retrying \/ attempts[k] >= Ceiling

\* The select after a conflict: the row may have changed since, or be gone.
Select(c) ==
  /\ pc[c] = "select"
  /\ LET k == Key(c) IN
       \/ status[k] = "completed" /\ Answer(c, "Duplicate")
       \/ status[k] = "processing" /\ Answer(c, "InProgress")
       \/ status[k] = "failed" /\ Exhausted(k) /\ Answer(c, "PreviouslyFailed")
       \/ status[k] = "failed" /\ ~Exhausted(k) /\ Go(c, "retry")
       \/ status[k] = "absent" /\ Go(c, "handle")
  /\ UNCHANGED <<table, history, tx, crashes>>

\* The handler returns.
HandlerReturns(c) ==
  /\ pc[c] \in {"handle", "retry"}
  /\ ran' = [ran EXCEPT ![c] = @ \cup {Key(c)}]
  /\ IF pc[c] = "retry" THEN Go(c, "mark") ELSE Answer(c, "Processed")
  /\ UNCHANGED <<table, history, writes, doomed, crashes>>

\* The handler condemns the transaction and returns.
HandlerCondemns(c) ==
  /\ pc[c] \in {"handle", "retry"}
  /\ doomed' = [doomed EXCEPT ![c] = TRUE]
  /\ withdrawn' = IF single[c] THEN withdrawn \cup {Key(c)} ELSE withdrawn
  /\ IF pc[c] = "retry" THEN Go(c, "mark") ELSE Answer(c, "Processed")
  /\ UNCHANGED <<table, runs, collected, acked, writes, ran, crashes>>

HandlerThrows(c) ==
  /\ pc[c] \in {"handle", "retry"}
  /\ Raise(c)
  /\ UNCHANGED <<table, history, crashes>>

\* markCompletedTx: an update of whatever the row has become, if it is there.
MarkCompleted(c) ==
  /\ pc[c] = "mark"
  /\ status[Key(c)] = "absent" \/ Free(Key(c), c)
  /\ writes' = [writes EXCEPT ![c] = IF status[Key(c)] = "absent" THEN @ ELSE @ \cup {Key(c)}]
  /\ Answer(c, "Processed")
  /\ UNCHANGED <<table, history, ran, doomed, crashes>>

\* The consumer waits for a row that one of D has written.
WaitsFor(c, D) ==
  /\ pc[c] \in {"insert", "mark"}
  /\ pc[c] = "mark" => status[Key(c)] # "absent"
  /\ \E d \in D \ {c} : Key(c) \in writes[d]

\* The database breaks a cycle of waiting transactions by failing one of them.
DeadlockVictim(c) ==
  /\ \E D \in SUBSET Consumers : c \in D /\ \A d \in D : WaitsFor(d, D)
  /\ Raise(c)
  /\ UNCHANGED <<table, history, crashes>>

-----------------------------------------------------------------------------
(* The end of a transaction and of the call *)

\* Mutant: the row was inserted in a transaction of its own.
Stored_Ahead(c) == writes[c]

\* The rows the transaction leaves completed.
Stored(c) == IF doomed[c] THEN {} ELSE writes[c]

\* Mutant: a committed batch is not read back.
Committed_Unchecked(c) == TRUE

\* verifyBatchCommitted: the first message the batch processed has a completed
\* row.
Committed(c) ==
  \A i \in DOMAIN result[c] :
    /\ result[c][i] = "Processed"
    /\ \A j \in 1 .. i - 1 : result[c][j] # "Processed"
    => status[todo[c][i]] = "completed"

Commit(c) ==
  /\ pc[c] = "commit"
  /\ status' = [k \in Keys |-> IF k \in Stored(c) THEN "completed" ELSE status[k]]
  /\ runs' = [k \in Keys |->
       IF k \in ran[c] /\ ~doomed[c] /\ runs[k] < 2 THEN runs[k] + 1 ELSE runs[k]]
  /\ EndTx(c)
  /\ IF single[c] THEN NextItem(c) /\ UNCHANGED result ELSE Go(c, "verify")
  /\ UNCHANGED <<attempts, collected, withdrawn, acked, crashes>>

VerifyBatch(c) ==
  /\ pc[c] = "verify"
  /\ IF Committed(c) THEN Go(c, "done") ELSE FallBack(c)
  /\ UNCHANGED <<table, history, tx, crashes>>

\* Mutant: recording a failure leaves the count as it is.
Charged_Not(k) == attempts[k]

\* attempt_count of the row after one more failure; a new row has one.
Charged(k) == attempts[k] + 1

\* recordFailedAttemptTx, a transaction of its own: it makes the row failed
\* whatever it is by now.
RecordFailedAttempt(c) ==
  /\ pc[c] = "record"
  /\ Free(Key(c), c)
  /\ status' = [status EXCEPT ![Key(c)] = "failed"]
  /\ attempts' = [attempts EXCEPT ![Key(c)] = Charged(Key(c))]
  /\ result' = [result EXCEPT ![c] = Append(@, "HandlerFailed")]
  /\ NextItem(c)
  /\ UNCHANGED <<history, tx, crashes>>

\* The consumer reads the results and commits the offsets they allow.
Acknowledge(c) ==
  /\ pc[c] = "done"
  /\ acked' = acked \cup {todo[c][i] : i \in {j \in DOMAIN result[c] : result[c][j] \in Final}}
  /\ Leave(c)
  /\ UNCHANGED <<table, runs, collected, withdrawn, tx, crashes>>

Crash(c) ==
  /\ pc[c] # "idle"
  /\ crashes < MaxCrashes
  /\ crashes' = crashes + 1
  /\ EndTx(c)
  /\ Leave(c)
  /\ UNCHANGED <<table, history>>

\* garbageCollectCompleted, for a row past its retention.
GarbageCollect(k) ==
  /\ Collecting
  /\ status[k] = "completed"
  /\ \A c \in Consumers : k \notin writes[c]
  /\ status' = [status EXCEPT ![k] = "absent"]
  /\ attempts' = [attempts EXCEPT ![k] = 0]
  /\ collected' = collected \cup {k}
  /\ UNCHANGED <<runs, withdrawn, acked, call, tx, crashes>>

-----------------------------------------------------------------------------
ConsumerStep(c) ==
  \/ SkipRepeated(c) \/ Insert(c) \/ Select(c)
  \/ HandlerReturns(c) \/ HandlerCondemns(c) \/ HandlerThrows(c)
  \/ MarkCompleted(c) \/ DeadlockVictim(c)
  \/ Commit(c) \/ VerifyBatch(c) \/ RecordFailedAttempt(c) \/ Acknowledge(c)

Step ==
  \/ \E c \in Consumers : ConsumerStep(c) \/ Crash(c)
  \/ \E c \in Consumers, b \in Deliveries : Deliver(c, b)
  \/ \E k \in Keys : GarbageCollect(k)

Next == Step /\ UNCHANGED mode

Spec == Init /\ [][Next]_vars

\* Consumers that are not crashed make progress, and the broker redelivers a
\* message until it is acknowledged.
FairSpec ==
  /\ Spec
  /\ \A c \in Consumers : WF_vars(ConsumerStep(c) /\ UNCHANGED mode)
  /\ \A k \in Keys :
       SF_vars(\E c \in Consumers, b \in Deliveries :
                 k \in ItemsOf(b) /\ Deliver(c, b) /\ UNCHANGED mode)

-----------------------------------------------------------------------------
(* Correctness *)

TypeOK ==
  /\ status \in [Keys -> Statuses]
  /\ attempts \in [Keys -> Nat]
  /\ runs \in [Keys -> 0 .. 2]
  /\ collected \subseteq Keys
  /\ withdrawn \subseteq Keys
  /\ acked \subseteq Keys
  /\ pc \in [Consumers -> Phases]
  /\ todo \in [Consumers -> Deliveries \cup {<<>>}]
  /\ pos \in [Consumers -> Nat \ {0}]
  /\ \A c \in Consumers : pc[c] # "idle" => pos[c] \in DOMAIN todo[c]
  /\ single \in [Consumers -> BOOLEAN]
  /\ result \in [Consumers -> Seq(Results)]
  /\ writes \in [Consumers -> SUBSET Keys]
  /\ ran \in [Consumers -> SUBSET Keys]
  /\ doomed \in [Consumers -> BOOLEAN]
  /\ crashes \in 0 .. MaxCrashes

\* runInboxTransaction, or one consumer for each partition.
Owned == ~Retrying \/ Exclusive

\* "Run handler at most once for each (source, dedupe_key)" (runInboxTransaction):
\* a message's effects are committed twice only if retention deleted its row.
RunsOnce == Owned => \A k \in Keys : runs[k] <= 1 \/ k \in collected

Settled(k) ==
  \/ runs[k] > 0
  \/ k \in withdrawn
  \/ status[k] = "failed" /\ attempts[k] >= Ceiling

\* A message is acknowledged only after its effects are committed, unless its own
\* handler condemned the transaction or its row is a dead letter at the ceiling.
AckedIsSettled == \A k \in acked : Settled(k)

\* A batch that repeats a message answers Duplicate for the repetition, whatever
\* became of the message: a row that an older release left processing is answered
\* without having run.
Unsettled(k) ==
  /\ status[k] = "processing"
  /\ \E m \in Deliveries : \E i, j \in DOMAIN m : i # j /\ m[i] = k /\ m[j] = k

\* AckedIsSettled holds, but for these, of every delivery by runInboxTransaction,
\* and of the others where one consumer has the partition.
OwnersAckSettled == Owned => \A k \in acked : Settled(k) \/ Unsettled(k)

\* A completed row stands for committed effects (tryInsertCompletedTx writes it
\* before the handler runs).
CompletedHasRun == \A k \in Keys : status[k] = "completed" => runs[k] > 0

\* A poison message of a partition is charged for every failure and never beyond
\* the ceiling, also when a batch falls back or repeats it (two consumers that
\* hold it at the same time can pass the ceiling).  Its first failure is charged
\* under any ceiling.
FailuresWithinCeiling ==
  Exclusive => \A k \in Keys : attempts[k] <= IF Ceiling = 0 THEN 1 ELSE Ceiling

\* InboxCompleted is "terminal" (InboxStatus): only retention takes a completed
\* row away.
CompletedIsFinal ==
  [][\A k \in Keys : status[k] = "completed" =>
       \/ status'[k] = "completed"
       \/ Collecting /\ status'[k] = "absent"]_vars

\* Every message is acknowledged in the end, however its handler behaves and
\* whichever consumer crashes, where failures are recorded (without that a
\* poison message is redelivered for ever).
EverySettled == \A k \in Keys : Retrying /\ k \notin Legacy ~> k \in acked

\* The inbox keeps the promise of InboxPromise to the consumers of RunsOnce, until
\* retention deletes what it knows of a message, and for messages whose rows are
\* its own.
GivenUp == withdrawn \cup {k \in Keys : status[k] = "failed" /\ attempts[k] >= Ceiling}
Promised == IF Owned /\ ~Collecting THEN Keys \ Legacy ELSE {}
Promise == INSTANCE InboxPromise WITH
  runs <- [k \in Keys |-> IF k \in Promised THEN runs[k] ELSE 0],
  givenUp <- GivenUp \cap Promised,
  acked <- acked \cap Promised
KeepsPromise == Promise!Spec
=============================================================================
