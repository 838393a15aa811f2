----------------------------- MODULE Inbox_proofs -----------------------------
(***************************************************************************)
(* Proofs about Inbox, for any messages, consumers, deliveries and modes.  *)
(***************************************************************************)
EXTENDS Inbox, SequenceTheorems, WellFoundedInduction, TLAPS

\* The phases of an open transaction, and of the handler's work in it.
InTx == {"insert", "select", "handle", "retry", "mark", "commit"}
Working == {"handle", "retry", "mark", "record"}

\* The control state of a consumer: its position, the results so far, and what its
\* transaction may have written.
Shape(c) ==
  /\ pc[c] = "idle" => todo[c] = <<>>
  /\ pc[c] \in (InTx \ {"commit"}) \cup {"record"} => Len(result[c]) = pos[c] - 1
  /\ pc[c] = "commit" => Len(result[c]) = pos[c]
  /\ pc[c] = "commit" /\ ~single[c] => pos[c] = Len(todo[c])
  /\ pc[c] \in {"verify", "done"} => Len(result[c]) = Len(todo[c])
  /\ pc[c] = "verify" => ~single[c]
  /\ pc[c] = "record" => single[c]
  /\ pc[c] \in {"retry", "mark", "record"} => Retrying
  /\ ~single[c] => Retrying
  /\ pc[c] = "idle" => result[c] = <<>>

Clean(c) == writes[c] = {} /\ ran[c] = {} /\ ~doomed[c]

\* What an open transaction has written it has run, but for the message in hand.
TxShape(c) ==
  /\ pc[c] \notin InTx => Clean(c)
  /\ single[c] /\ pc[c] \in {"insert", "select"} => Clean(c)
  /\ single[c] /\ pc[c] \in InTx => writes[c] \cup ran[c] \subseteq {Key(c)}
  /\ writes[c] \cup ran[c] \subseteq ItemsOf(todo[c])
  /\ ~doomed[c] => writes[c] \subseteq ran[c] \cup (IF pc[c] = "handle" THEN {Key(c)} ELSE {})
  /\ ~doomed[c] /\ pc[c] = "mark" => Key(c) \in ran[c]
  /\ doomed[c] /\ single[c] => Key(c) \in withdrawn

\* Rows are written by one transaction at a time, and exclusive consumers hold
\* different messages.
Apart ==
  \A c, d \in Consumers : c # d =>
    /\ writes[c] \cap writes[d] = {}
    /\ Exclusive => ItemsOf(todo[c]) \cap ItemsOf(todo[d]) = {}

\* A row that may still be completed, or charged for a failure.
Due(k) == status[k] = "absent" \/ (status[k] = "failed" /\ attempts[k] < Ceiling)

\* The table: what a committed row says of the runs of its message.
Rows ==
  \A k \in Keys :
    /\ status[k] = "absent" => attempts[k] = 0
    /\ status[k] = "processing" => k \in Legacy
    /\ status[k] = "completed" => runs[k] > 0
    /\ Owned => k \in collected \/ runs[k] = 0 \/ (runs[k] = 1 /\ status[k] = "completed")
    /\ ~Retrying => status[k] # "failed"
    /\ ~Collecting => k \notin collected

\* The messages whose effects, or failure, the consumer may yet commit.
InHand(c) == writes[c] \cup ran[c] \cup (IF pc[c] \in Working THEN {Key(c)} ELSE {})

\* The consumer is the only one that can settle what it has in hand.
Claims(c) ==
  /\ pc[c] = "select" => status[Key(c)] # "absent" \/ Key(c) \in collected
  /\ pc[c] \in {"retry", "mark"} => status[Key(c)] = "failed"
  /\ \A k \in InHand(c) :
       /\ k \in writes[c] \/ Exclusive => Due(k)
       /\ k \in collected \/ runs[k] = 0
       /\ \/ k \in collected \/ k \in writes[c]
          \/ pc[c] \in {"retry", "mark", "record"} /\ k = Key(c)

\* The messages answered as processed.
Processed(c) == {i \in DOMAIN result[c] : result[c][i] = "Processed"}

\* A result that the transaction of a batch has still to commit.
Pending(c, k) ==
  /\ ~single[c]
  /\ pc[c] \in InTx \cup {"verify"}
  /\ \E i \in Processed(c) : todo[c][i] = k

ResultOK(c, i) ==
  LET k == todo[c][i] IN
    /\ result[c][i] = "HandlerFailed" => single[c]
    /\ result[c][i] = "InProgress" => status[k] = "processing"
    /\ result[c][i] \in Final =>
         \/ Settled(k) \/ Unsettled(k) \/ Pending(c, k)
         \/ single[c] /\ pc[c] = "commit" /\ i = pos[c] /\ k \in ran[c]

\* A batch reads back one row: before the commit none of its processed messages is
\* completed, afterwards none or all of them have run.
BatchOK(c) ==
  /\ ~single[c] /\ pc[c] \in InTx =>
       \A i \in Processed(c) : status[todo[c][i]] # "completed" /\ (doomed[c] \/ todo[c][i] \in ran[c])
  /\ pc[c] = "verify" =>
       \/ \A i \in Processed(c) : runs[todo[c][i]] > 0
       \/ \A i \in Processed(c) : status[todo[c][i]] # "completed"

Answers(c) == (\A i \in DOMAIN result[c] : ResultOK(c, i)) /\ BatchOK(c)

IInv ==
  /\ TypeOK /\ mode \in Modes
  /\ \A c \in Consumers : Shape(c) /\ TxShape(c)
  /\ Apart
  /\ Rows
  /\ Owned => \A c \in Consumers : Claims(c) /\ Answers(c)
  /\ OwnersAckSettled
  /\ FailuresWithinCeiling

-----------------------------------------------------------------------------
(* Types and control *)

Control == TypeOK /\ mode \in Modes /\ \A c \in Consumers : Shape(c)

LEMMA ModeTypes ==
  ASSUME mode \in Modes
  PROVE  /\ Deliveries \subseteq Seq(Keys) \ {<<>>}
         /\ Retrying \in BOOLEAN
         /\ ~Retrying => \A b \in Deliveries : Len(b) = 1
         /\ Ceiling \in Nat
         /\ Legacy \subseteq Keys
         /\ Exclusive \in BOOLEAN
         /\ Collecting \in BOOLEAN
         /\ MaxCrashes \in Nat
BY ConstantsOK
   DEF ConstantsOK, ModeOK, Deliveries, Retrying, Ceiling, Legacy, Exclusive, Collecting, MaxCrashes

LEMMA ModeKept ==
  ASSUME UNCHANGED mode
  PROVE  /\ Deliveries' = Deliveries
         /\ Retrying' = Retrying
         /\ Ceiling' = Ceiling
         /\ Legacy' = Legacy
         /\ Exclusive' = Exclusive
         /\ Collecting' = Collecting
         /\ MaxCrashes' = MaxCrashes
BY DEF Deliveries, Retrying, Ceiling, Legacy, Exclusive, Collecting, MaxCrashes

\* What the types say of one consumer.
LEMMA LocalTypes ==
  ASSUME Control, NEW c \in Consumers
  PROVE  /\ pc[c] \in Phases
         /\ todo[c] \in Seq(Keys)
         /\ pc[c] # "idle" => todo[c] \in Deliveries
         /\ pos[c] \in Nat \ {0}
         /\ pc[c] # "idle" => pos[c] \in 1 .. Len(todo[c]) /\ Key(c) \in Keys
         /\ single[c] \in BOOLEAN
         /\ result[c] \in Seq(Results)
         /\ writes[c] \subseteq Keys
         /\ ran[c] \subseteq Keys
         /\ doomed[c] \in BOOLEAN
         /\ \A i \in DOMAIN todo[c] : todo[c][i] \in Keys
         /\ \A i \in DOMAIN result[c] : result[c][i] \in Results
         /\ DOMAIN todo[c] = 1 .. Len(todo[c]) /\ Len(todo[c]) \in Nat
         /\ DOMAIN result[c] = 1 .. Len(result[c]) /\ Len(result[c]) \in Nat
<1>1. Deliveries \subseteq Seq(Keys) \ {<<>>} BY ModeTypes DEF Control
<1>2. todo[c] \in Deliveries \cup {<<>>} BY DEF Control, TypeOK
<1>3. todo[c] \in Seq(Keys)
  <2>1. <<>> \in Seq(Keys) OBVIOUS
  <2>. QED BY <2>1, <1>1, <1>2
<1>4. single[c] \in BOOLEAN BY DEF Control, TypeOK
<1>5. doomed[c] \in BOOLEAN BY DEF Control, TypeOK
<1>6. result[c] \in Seq(Results) BY DEF Control, TypeOK
<1>7. pc[c] # "idle" => pos[c] \in DOMAIN todo[c] BY DEF Control, TypeOK
<1>8. pc[c] # "idle" => todo[c] \in Deliveries
  <2>1. todo[c] = <<>> => DOMAIN todo[c] = {} OBVIOUS
  <2>. QED BY <2>1, <1>2, <1>7
<1>9. pc[c] \in Phases /\ pos[c] \in Nat \ {0} /\ writes[c] \subseteq Keys /\ ran[c] \subseteq Keys
  BY DEF Control, TypeOK
<1>. QED BY <1>3, <1>4, <1>5, <1>6, <1>7, <1>8, <1>9 DEF Key

\* What a consumer does leaves the others where they are.
Stays(d) ==
  /\ pc'[d] = pc[d] /\ todo'[d] = todo[d] /\ pos'[d] = pos[d]
  /\ single'[d] = single[d] /\ result'[d] = result[d]
  /\ writes'[d] = writes[d] /\ ran'[d] = ran[d] /\ doomed'[d] = doomed[d]

LEMMA Elsewhere ==
  ASSUME Control, NEW c \in Consumers, NEW d \in Consumers, d # c,
         \/ ConsumerStep(c) \/ Crash(c) \/ \E b \in Deliveries : Deliver(c, b)
  PROVE  Stays(d)
<1>. USE DEF Control, TypeOK, Stays, call, tx, Go, Answer, NextItem, FallBack, Leave, EndTx, Raise
<1>1. CASE SkipRepeated(c) BY <1>1 DEF SkipRepeated
<1>2. CASE Insert(c) BY <1>2 DEF Insert
<1>3. CASE Select(c) BY <1>3 DEF Select
<1>4. CASE HandlerReturns(c) BY <1>4 DEF HandlerReturns
<1>5. CASE HandlerCondemns(c) BY <1>5 DEF HandlerCondemns
<1>6. CASE HandlerThrows(c) BY <1>6 DEF HandlerThrows
<1>7. CASE MarkCompleted(c) BY <1>7 DEF MarkCompleted
<1>8. CASE DeadlockVictim(c) BY <1>8 DEF DeadlockVictim
<1>9. CASE Commit(c) BY <1>9 DEF Commit
<1>10. CASE VerifyBatch(c) BY <1>10 DEF VerifyBatch
<1>11. CASE RecordFailedAttempt(c) BY <1>11 DEF RecordFailedAttempt
<1>12. CASE Acknowledge(c) BY <1>12 DEF Acknowledge
<1>13. CASE Crash(c) BY <1>13 DEF Crash
<1>14. CASE \E b \in Deliveries : Deliver(c, b) BY <1>14 DEF Deliver
<1>. QED BY <1>1, <1>2, <1>3, <1>4, <1>5, <1>6, <1>7, <1>8, <1>9, <1>10, <1>11, <1>12, <1>13, <1>14
      DEF ConsumerStep

\* The control state is a matter of the consumer that steps.
TableTypes ==
  /\ status \in [Keys -> Statuses]
  /\ attempts \in [Keys -> Nat]
  /\ runs \in [Keys -> 0 .. 2]
  /\ collected \subseteq Keys
  /\ withdrawn \subseteq Keys
  /\ acked \subseteq Keys
  /\ crashes \in 0 .. MaxCrashes

CallTypes ==
  /\ pc \in [Consumers -> Phases]
  /\ todo \in [Consumers -> Deliveries \cup {<<>>}]
  /\ pos \in [Consumers -> Nat \ {0}]
  /\ single \in [Consumers -> BOOLEAN]
  /\ result \in [Consumers -> Seq(Results)]

TxTypes ==
  /\ writes \in [Consumers -> SUBSET Keys]
  /\ ran \in [Consumers -> SUBSET Keys]
  /\ doomed \in [Consumers -> BOOLEAN]

LEMMA AllTypes == TypeOK <=> /\ TableTypes /\ CallTypes /\ TxTypes
                            /\ \A c \in Consumers : pc[c] # "idle" => pos[c] \in DOMAIN todo[c]
BY DEF TypeOK, TableTypes, CallTypes, TxTypes

LEMMA ControlKept ==
  ASSUME Control, UNCHANGED mode, NEW c \in Consumers,
         \A d \in Consumers \ {c} : Stays(d),
         TableTypes', CallTypes', TxTypes',
         pc'[c] # "idle" => pos'[c] \in DOMAIN todo'[c],
         Shape(c)'
  PROVE  Control'
<1>1. \A d \in Consumers : pc'[d] # "idle" => pos'[d] \in DOMAIN todo'[d]
  BY AllTypes DEF Control, Stays
<1>2. ASSUME NEW d \in Consumers, d # c PROVE Shape(d)'
  <2>1. Stays(d) /\ Shape(d) BY <1>2 DEF Control
  <2>. QED BY <2>1, ModeKept DEF Shape, Stays
<1>3. TypeOK' BY <1>1 DEF TypeOK, TableTypes, CallTypes, TxTypes
<1>. QED BY <1>1, <1>2, <1>3 DEF Control

LEMMA GoControl ==
  ASSUME Control, NEW c \in Consumers, UNCHANGED mode, NEW p \in Phases \ {"idle"}, Go(c, p), pc[c] # "idle"
  PROVE  /\ CallTypes'
         /\ pc'[c] = p /\ pos'[c] = pos[c] /\ todo'[c] = todo[c]
         /\ single'[c] = single[c] /\ result'[c] = result[c]
         /\ pos'[c] \in DOMAIN todo'[c]
BY LocalTypes, ModeKept DEF Control, TypeOK, CallTypes, Go

LEMMA AnswerControl ==
  ASSUME Control, NEW c \in Consumers, UNCHANGED mode, NEW r \in Results, Answer(c, r),
         pc[c] \in InTx \ {"commit"}
  PROVE  /\ CallTypes'
         /\ todo'[c] = todo[c] /\ single'[c] = single[c]
         /\ result'[c] = Append(result[c], r)
         /\ Len(result'[c]) = pos[c]
         /\ pos'[c] \in DOMAIN todo'[c]
         /\ \/ /\ single[c] \/ pos[c] = Len(todo[c])
               /\ pc'[c] = "commit" /\ pos'[c] = pos[c]
            \/ /\ ~single[c] /\ pos[c] # Len(todo[c])
               /\ pc'[c] = "insert" /\ pos'[c] = pos[c] + 1
<1>. USE LocalTypes
<1>1. Append(result[c], r) \in Seq(Results) /\ Len(Append(result[c], r)) = Len(result[c]) + 1
  OBVIOUS
<1>2. Len(result[c]) = pos[c] - 1 BY DEF Control, Shape, InTx
<1>3. CallTypes BY DEF Control, TypeOK, CallTypes
<1>4. result' \in [Consumers -> Seq(Results)] /\ result'[c] = Append(result[c], r)
  BY <1>1, <1>3 DEF Answer, CallTypes
<1>5. pos[c] \in 1 .. Len(todo[c]) BY DEF InTx
<1>6. todo' = todo /\ single' = single /\ Deliveries' = Deliveries BY ModeKept DEF Answer
<1>7. CASE single[c] \/ pos[c] = Len(todo[c])
  <2>1. pc' = [pc EXCEPT ![c] = "commit"] /\ pos' = pos BY <1>7 DEF Answer
  <2>2. pc' \in [Consumers -> Phases] /\ pc'[c] = "commit" BY <2>1, <1>3 DEF CallTypes, Phases
  <2>3. CallTypes' BY <2>1, <2>2, <1>3, <1>4, <1>6 DEF CallTypes
  <2>. QED BY <2>1, <2>2, <2>3, <1>1, <1>2, <1>4, <1>5, <1>6, <1>7
<1>8. CASE ~single[c] /\ pos[c] # Len(todo[c])
  <2>1. pc' = [pc EXCEPT ![c] = "insert"] /\ pos' = [pos EXCEPT ![c] = @ + 1] BY <1>8 DEF Answer
  <2>2. pc' \in [Consumers -> Phases] /\ pc'[c] = "insert" BY <2>1, <1>3 DEF CallTypes, Phases
  <2>3. pos' \in [Consumers -> Nat \ {0}] /\ pos'[c] = pos[c] + 1 BY <2>1, <1>3 DEF CallTypes
  <2>4. CallTypes' BY <2>2, <2>3, <1>3, <1>4, <1>6 DEF CallTypes
  <2>. QED BY <2>2, <2>3, <2>4, <1>1, <1>2, <1>4, <1>5, <1>6, <1>8
<1>. QED BY <1>7, <1>8

LEMMA NextItemControl ==
  ASSUME Control, NEW c \in Consumers, UNCHANGED mode, NextItem(c), pc[c] # "idle",
         result' \in [Consumers -> Seq(Results)], Len(result'[c]) = pos[c]
  PROVE  /\ CallTypes'
         /\ todo'[c] = todo[c] /\ single'[c] = single[c]
         /\ pos'[c] \in DOMAIN todo'[c]
         /\ \/ pc'[c] = "done" /\ pos'[c] = pos[c] /\ Len(result'[c]) = Len(todo[c])
            \/ pc'[c] = "insert" /\ pos'[c] = pos[c] + 1 /\ Len(result'[c]) = pos'[c] - 1
<1>. USE LocalTypes
<1>3. CallTypes BY DEF Control, TypeOK, CallTypes
<1>5. pos[c] \in 1 .. Len(todo[c]) OBVIOUS
<1>6. todo' = todo /\ single' = single /\ Deliveries' = Deliveries BY ModeKept DEF NextItem
<1>7. CASE pos[c] = Len(todo[c])
  <2>1. pc' = [pc EXCEPT ![c] = "done"] /\ pos' = pos BY <1>7 DEF NextItem
  <2>2. pc' \in [Consumers -> Phases] /\ pc'[c] = "done" BY <2>1, <1>3 DEF CallTypes, Phases
  <2>3. CallTypes' BY <2>1, <2>2, <1>3, <1>6 DEF CallTypes
  <2>. QED BY <2>1, <2>2, <2>3, <1>5, <1>6, <1>7
<1>8. CASE pos[c] # Len(todo[c])
  <2>1. pc' = [pc EXCEPT ![c] = "insert"] /\ pos' = [pos EXCEPT ![c] = @ + 1] BY <1>8 DEF NextItem
  <2>2. pc' \in [Consumers -> Phases] /\ pc'[c] = "insert" BY <2>1, <1>3 DEF CallTypes, Phases
  <2>3. pos' \in [Consumers -> Nat \ {0}] /\ pos'[c] = pos[c] + 1 BY <2>1, <1>3 DEF CallTypes
  <2>4. CallTypes' BY <2>2, <2>3, <1>3, <1>6 DEF CallTypes
  <2>. QED BY <2>2, <2>3, <2>4, <1>5, <1>6, <1>8
<1>. QED BY <1>7, <1>8

\* A call that begins its delivery anew, or ends.
LEMMA AnewControl ==
  ASSUME Control, NEW c \in Consumers, UNCHANGED mode, FallBack(c) \/ Leave(c), pc[c] # "idle"
  PROVE  /\ CallTypes'
         /\ single'[c] = TRUE /\ result'[c] = <<>> /\ pos'[c] = 1 /\ Len(result'[c]) = 0
         /\ FallBack(c) => pc'[c] = "insert" /\ todo'[c] = todo[c]
         /\ Leave(c) => pc'[c] = "idle" /\ todo'[c] = <<>>
         /\ pc'[c] # "idle" => pos'[c] \in DOMAIN todo'[c]
<1>. USE LocalTypes
<1>1. CallTypes BY DEF Control, TypeOK, CallTypes
<1>2. <<>> \in Seq(Results) /\ Len(<<>>) = 0 OBVIOUS
<1>3. 1 \in DOMAIN todo[c] OBVIOUS
<1>4. Deliveries' = Deliveries BY ModeKept
<1>5. CASE FallBack(c) BY <1>1, <1>2, <1>3, <1>4, <1>5 DEF FallBack, Leave, CallTypes, Phases
<1>6. CASE Leave(c) BY <1>1, <1>2, <1>4, <1>6 DEF FallBack, Leave, CallTypes, Phases
<1>. QED BY <1>5, <1>6

LEMMA EndTxTypes ==
  ASSUME Control, NEW c \in Consumers, EndTx(c)
  PROVE  TxTypes' /\ Clean(c)'
BY DEF Control, TypeOK, EndTx, TxTypes, Clean

\* Raising leads to a new round of the batch, to the record of the failure, or out
\* of the call.
LEMMA RaiseControl ==
  ASSUME Control, NEW c \in Consumers, UNCHANGED mode, Raise(c), pc[c] \in InTx
  PROVE  /\ CallTypes' /\ TxTypes' /\ Clean(c)'
         /\ pc'[c] # "idle" => pos'[c] \in DOMAIN todo'[c]
         /\ pc'[c] = "record" \/ (pc'[c] \in {"insert", "idle"} /\ result'[c] = <<>>)
         /\ pc'[c] = "record" => /\ single[c] /\ Retrying
                                /\ pos'[c] = pos[c] /\ todo'[c] = todo[c]
                                /\ single'[c] = single[c] /\ result'[c] = result[c]
         /\ pc[c] # "commit" => Shape(c)'
<1>. USE LocalTypes, ModeKept
<1>1. TxTypes' /\ Clean(c)' BY EndTxTypes DEF Raise
<1>2. pc[c] # "idle" BY DEF InTx
<1>3. CASE ~single[c] /\ FallBack(c)
  <2>1. /\ CallTypes' /\ single'[c] = TRUE /\ result'[c] = <<>> /\ Len(result'[c]) = 0
        /\ pos'[c] = 1 /\ pc'[c] = "insert" /\ todo'[c] = todo[c] /\ pos'[c] \in DOMAIN todo'[c]
    BY <1>2, <1>3, AnewControl
  <2>2. Shape(c)' BY <2>1 DEF Shape, InTx
  <2>. QED BY <1>1, <2>1, <2>2
<1>4. CASE single[c] /\ Retrying /\ Go(c, "record")
  <2>1. "record" \in Phases \ {"idle"} BY DEF Phases
  <2>2. /\ CallTypes' /\ pc'[c] = "record" /\ pos'[c] = pos[c] /\ todo'[c] = todo[c]
        /\ single'[c] = single[c] /\ result'[c] = result[c] /\ pos'[c] \in DOMAIN todo'[c]
    BY <1>2, <1>4, <2>1, GoControl
  <2>3. pc[c] # "commit" => Len(result[c]) = pos[c] - 1 BY DEF Control, Shape, InTx
  <2>4. pc[c] # "commit" => Shape(c)' BY <1>4, <2>2, <2>3 DEF Shape, InTx
  <2>. QED BY <1>1, <1>4, <2>2, <2>4
<1>5. CASE single[c] /\ ~Retrying /\ Leave(c)
  BY <1>1, <1>2, <1>5, AnewControl DEF Shape, InTx, Control
<1>. QED BY <1>3, <1>4, <1>5 DEF Raise

LEMMA AnswerShape ==
  ASSUME Control, NEW c \in Consumers, UNCHANGED mode, NEW r \in Results, Answer(c, r),
         pc[c] \in InTx \ {"commit"}
  PROVE  Shape(c)'
<1>. USE LocalTypes, ModeKept
<1>1. Len(result[c]) = pos[c] - 1 BY DEF Control, Shape, InTx
<1>. QED BY <1>1, AnswerControl DEF Shape, InTx, Control

LEMMA GoShape ==
  ASSUME Control, NEW c \in Consumers, UNCHANGED mode, pc[c] \in InTx \ {"commit"},
         NEW p \in {"select", "handle", "retry", "mark"}, Go(c, p),
         p \in {"retry", "mark"} => Retrying
  PROVE  Shape(c)'
<1>. USE LocalTypes, ModeKept
<1>1. Len(result[c]) = pos[c] - 1 BY DEF Control, Shape, InTx
<1>2. pc[c] # "idle" /\ p \in Phases \ {"idle"} BY DEF InTx, Phases
<1>. QED BY <1>1, <1>2, GoControl DEF Shape, InTx, Control

LEMMA ConsumerKeepsControl ==
  ASSUME Control, NEW c \in Consumers, UNCHANGED mode, ConsumerStep(c)
  PROVE  Control'
<1>. USE LocalTypes, ModeKept
<1>a. \A d \in Consumers \ {c} : Stays(d) BY Elsewhere
<1>b. TableTypes /\ TxTypes BY AllTypes DEF Control
<1>c. "Processed" \in Results /\ "Duplicate" \in Results /\ "InProgress" \in Results /\ "PreviouslyFailed" \in Results
  BY DEF Results
<1>1. CASE SkipRepeated(c)
  <2>1. pc[c] \in InTx \ {"commit"} /\ Answer(c, "Duplicate") BY <1>1 DEF SkipRepeated, InTx
  <2>2. TableTypes' /\ TxTypes' BY <1>1, <1>b DEF SkipRepeated, table, history, tx, TableTypes, TxTypes
  <2>. QED BY <2>1, <2>2, <1>a, <1>c, AnswerControl, AnswerShape, ControlKept
<1>2. CASE Insert(c)
  <2>1. pc[c] \in InTx \ {"commit"} /\ pc[c] # "idle" BY <1>2 DEF Insert, InTx
  <2>2. TableTypes' BY <1>2, <1>b DEF Insert, table, history, TableTypes
  <2>3. TxTypes' BY <1>2, <1>b, <2>1 DEF Insert, TxTypes
  <2>4. PICK p \in {"handle", "select"} : Go(c, p) BY <1>2 DEF Insert
  <2>5. p \in Phases \ {"idle"} BY DEF Phases
  <2>. QED BY <2>1, <2>2, <2>3, <2>4, <2>5, <1>a, GoControl, GoShape, ControlKept
<1>3. CASE Select(c)
  <2>1. pc[c] \in InTx \ {"commit"} /\ pc[c] # "idle" BY <1>3 DEF Select, InTx
  <2>2. TableTypes' /\ TxTypes' BY <1>3, <1>b DEF Select, table, history, tx, TableTypes, TxTypes
  <2>3. CASE \E r \in Results : Answer(c, r)
    BY <2>1, <2>2, <2>3, <1>a, AnswerControl, AnswerShape, ControlKept
  <2>4. CASE Go(c, "handle")
    <3>1. "handle" \in Phases \ {"idle"} BY DEF Phases
    <3>. QED BY <2>1, <2>2, <2>4, <3>1, <1>a, GoControl, GoShape, ControlKept
  <2>5. CASE Go(c, "retry") /\ ~Exhausted(Key(c))
    <3>1. "retry" \in Phases \ {"idle"} BY DEF Phases
    <3>2. Retrying BY <2>5 DEF Exhausted
    <3>. QED BY <2>1, <2>2, <2>5, <3>1, <3>2, <1>a, GoControl, GoShape, ControlKept
  <2>. QED BY <1>3, <1>c, <2>3, <2>4, <2>5 DEF Select
<1>4. CASE HandlerReturns(c) \/ HandlerCondemns(c)
  <2>1. pc[c] \in InTx \ {"commit"} /\ pc[c] # "idle" BY <1>4 DEF HandlerReturns, HandlerCondemns, InTx
  <2>2. TableTypes' BY <1>4, <1>b, <2>1 DEF HandlerReturns, HandlerCondemns, table, history, TableTypes
  <2>3. TxTypes' BY <1>4, <1>b, <2>1 DEF HandlerReturns, HandlerCondemns, TxTypes
  <2>4. CASE Answer(c, "Processed")
    BY <2>1, <2>2, <2>3, <2>4, <1>a, <1>c, AnswerControl, AnswerShape, ControlKept
  <2>5. CASE Go(c, "mark") /\ pc[c] = "retry"
    <3>1. "mark" \in Phases \ {"idle"} BY DEF Phases
    <3>2. Retrying BY <2>5 DEF Control, Shape
    <3>. QED BY <2>1, <2>2, <2>3, <2>5, <3>1, <3>2, <1>a, GoControl, GoShape, ControlKept
  <2>. QED BY <1>4, <2>4, <2>5 DEF HandlerReturns, HandlerCondemns
<1>5. CASE HandlerThrows(c) \/ DeadlockVictim(c)
  <2>1. pc[c] \in InTx \ {"commit"} BY <1>5 DEF HandlerThrows, DeadlockVictim, WaitsFor, InTx
  <2>2. TableTypes' BY <1>5, <1>b DEF HandlerThrows, DeadlockVictim, table, history, TableTypes
  <2>. QED BY <2>1, <2>2, <1>5, <1>a, RaiseControl, ControlKept DEF HandlerThrows, DeadlockVictim
<1>6. CASE MarkCompleted(c)
  <2>1. pc[c] \in InTx \ {"commit"} /\ pc[c] # "idle" /\ Answer(c, "Processed")
    BY <1>6 DEF MarkCompleted, InTx
  <2>2. TableTypes' BY <1>6, <1>b DEF MarkCompleted, table, history, TableTypes
  <2>3. TxTypes' BY <1>6, <1>b, <2>1 DEF MarkCompleted, TxTypes
  <2>. QED BY <2>1, <2>2, <2>3, <1>a, <1>c, AnswerControl, AnswerShape, ControlKept
<1>7. CASE Commit(c)
  <2>1. pc[c] = "commit" /\ Len(result[c]) = pos[c] BY <1>7 DEF Commit, Control, Shape
  <2>2. TxTypes' BY <1>7, EndTxTypes DEF Commit
  <2>3. status' \in [Keys -> Statuses] BY <1>7, <1>b DEF Commit, TableTypes, Statuses
  <2>4. runs' \in [Keys -> 0 .. 2] BY <1>7, <1>b DEF Commit, TableTypes
  <2>5. TableTypes' BY <1>7, <1>b, <2>3, <2>4 DEF Commit, TableTypes
  <2>6. CASE single[c]
    <3>1. NextItem(c) /\ result' = result BY <1>7, <2>6 DEF Commit
    <3>2. result' \in [Consumers -> Seq(Results)] BY <3>1 DEF Control, TypeOK
    <3>. HIDE DEF NextItem
    <3>. QED BY <3>1, <3>2, <2>1, <2>2, <2>5, <2>6, <1>a, NextItemControl, ControlKept DEF Shape, InTx, Control
  <2>7. CASE ~single[c]
    <3>1. Go(c, "verify") BY <1>7, <2>7 DEF Commit
    <3>2. "verify" \in Phases \ {"idle"} BY DEF Phases
    <3>3. Len(result[c]) = Len(todo[c]) /\ Retrying BY <2>1, <2>7 DEF Control, Shape
    <3>4. /\ CallTypes' /\ pc'[c] = "verify" /\ todo'[c] = todo[c] /\ single'[c] = single[c]
          /\ result'[c] = result[c] /\ pos'[c] \in DOMAIN todo'[c]
      BY <3>1, <3>2, <2>1, GoControl
    <3>5. Shape(c)' BY <3>3, <3>4, <2>7 DEF Shape, InTx
    <3>. QED BY <3>4, <3>5, <2>2, <2>5, <1>a, ControlKept
  <2>. QED BY <2>6, <2>7
<1>8. CASE VerifyBatch(c)
  <2>1. pc[c] = "verify" /\ Len(result[c]) = Len(todo[c]) /\ ~single[c] /\ Retrying
    BY <1>8 DEF VerifyBatch, Control, Shape
  <2>2. TableTypes' /\ TxTypes' BY <1>8, <1>b DEF VerifyBatch, table, history, tx, TableTypes, TxTypes
  <2>3. CASE Go(c, "done")
    <3>1. "done" \in Phases \ {"idle"} BY DEF Phases
    <3>. QED BY <2>1, <2>2, <2>3, <3>1, <1>a, GoControl, ControlKept DEF Shape, InTx
  <2>4. CASE FallBack(c)
    <3>1. /\ CallTypes' /\ single'[c] = TRUE /\ result'[c] = <<>> /\ Len(result'[c]) = 0
          /\ pos'[c] = 1 /\ pc'[c] = "insert" /\ pos'[c] \in DOMAIN todo'[c]
      BY <2>1, <2>4, AnewControl
    <3>2. Shape(c)' BY <3>1 DEF Shape, InTx
    <3>. QED BY <2>2, <3>1, <3>2, <1>a, ControlKept
  <2>. QED BY <1>8, <2>3, <2>4 DEF VerifyBatch
<1>9. CASE RecordFailedAttempt(c)
  <2>1. pc[c] = "record" /\ Len(result[c]) = pos[c] - 1 /\ single[c] /\ Retrying
    BY <1>9 DEF RecordFailedAttempt, Control, Shape
  <2>2. Key(c) \in Keys BY <2>1
  <2>9. "failed" \in Statuses /\ Charged(Key(c)) \in Nat BY <1>b, <2>2 DEF Statuses, Charged, TableTypes
  <2>10. status' \in [Keys -> Statuses] BY <1>9, <1>b, <2>9 DEF RecordFailedAttempt, TableTypes
  <2>11. attempts' \in [Keys -> Nat] BY <1>9, <1>b, <2>9 DEF RecordFailedAttempt, TableTypes
  <2>12. UNCHANGED <<runs, collected, withdrawn, acked, crashes>> BY <1>9 DEF RecordFailedAttempt, history
  <2>3. TableTypes' BY <1>b, <2>10, <2>11, <2>12 DEF TableTypes
  <2>4. TxTypes' BY <1>9, <1>b DEF RecordFailedAttempt, TxTypes, tx
  <2>5. Append(result[c], "HandlerFailed") \in Seq(Results) /\ Len(Append(result[c], "HandlerFailed")) = Len(result[c]) + 1
    BY DEF Results
  <2>6. result \in [Consumers -> Seq(Results)] BY DEF Control, TypeOK
  <2>7. result' \in [Consumers -> Seq(Results)] /\ Len(result'[c]) = pos[c]
    BY <1>9, <2>1, <2>5, <2>6 DEF RecordFailedAttempt
  <2>8. NextItem(c) BY <1>9 DEF RecordFailedAttempt
  <2>. QED BY <2>1, <2>3, <2>4, <2>7, <2>8, <1>a, NextItemControl, ControlKept DEF Shape, InTx
<1>10. CASE Acknowledge(c)
  <2>1. pc[c] = "done" /\ Len(result[c]) = Len(todo[c]) BY <1>10 DEF Acknowledge, Control, Shape
  <2>2. acked' \subseteq Keys BY <1>10, <1>b, <2>1 DEF Acknowledge, TableTypes
  <2>3. TableTypes' /\ TxTypes' BY <1>10, <1>b, <2>2 DEF Acknowledge, table, tx, TableTypes, TxTypes
  <2>4. Leave(c) /\ pc[c] # "idle" BY <1>10, <2>1 DEF Acknowledge
  <2>5. /\ CallTypes' /\ single'[c] = TRUE /\ result'[c] = <<>>
        /\ pc'[c] = "idle" /\ todo'[c] = <<>>
    BY <2>4, AnewControl
  <2>6. Shape(c)' BY <2>5 DEF Shape, InTx
  <2>. QED BY <2>3, <2>5, <2>6, <1>a, ControlKept
<1>. QED BY <1>1, <1>2, <1>3, <1>4, <1>5, <1>6, <1>7, <1>8, <1>9, <1>10 DEF ConsumerStep

LEMMA CrashControl ==
  ASSUME Control, NEW c \in Consumers, UNCHANGED mode, Crash(c)
  PROVE  Control'
<1>. USE LocalTypes, ModeKept
<1>1. \A d \in Consumers \ {c} : Stays(d) BY Elsewhere
<1>2. TableTypes'
  <2>1. crashes \in 0 .. MaxCrashes /\ MaxCrashes \in Nat BY ModeTypes DEF Control, TypeOK
  <2>2. crashes' \in 0 .. MaxCrashes BY <2>1 DEF Crash
  <2>. QED BY <2>2, AllTypes DEF Control, TableTypes, Crash, table, history
<1>3. TxTypes' BY EndTxTypes DEF Crash
<1>4. /\ CallTypes' /\ single'[c] = TRUE /\ result'[c] = <<>>
      /\ pc'[c] = "idle" /\ todo'[c] = <<>>
  BY AnewControl DEF Crash
<1>5. Shape(c)' BY <1>4 DEF Shape, InTx
<1>. QED BY <1>1, <1>2, <1>3, <1>4, <1>5, ControlKept

LEMMA DeliverControl ==
  ASSUME Control, NEW c \in Consumers, NEW b \in Deliveries, UNCHANGED mode, Deliver(c, b)
  PROVE  Control'
<1>. USE ModeKept
<1>1. \A d \in Consumers \ {c} : Stays(d) BY Elsewhere
<1>2. TableTypes' /\ TxTypes'
  BY AllTypes DEF Control, TableTypes, TxTypes, Deliver, table, history, tx
<1>3. b \in Seq(Keys) /\ b # <<>> BY ModeTypes DEF Control
<1>4. 1 \in DOMAIN b BY <1>3
<1>5. <<>> \in Seq(Results) /\ Len(<<>>) = 0 OBVIOUS
<1>6. CallTypes BY AllTypes DEF Control
<1>7. /\ pc' \in [Consumers -> Phases] /\ pc'[c] = "insert"
      /\ todo' \in [Consumers -> Deliveries \cup {<<>>}] /\ todo'[c] = b
      /\ pos' \in [Consumers -> Nat \ {0}] /\ pos'[c] = 1
      /\ single' \in [Consumers -> BOOLEAN] /\ single'[c] = (Len(b) = 1)
      /\ result' \in [Consumers -> Seq(Results)] /\ result'[c] = <<>>
  BY <1>5, <1>6 DEF Deliver, CallTypes, Phases
<1>8. CallTypes' BY <1>7 DEF CallTypes
<1>9. ~Retrying => Len(b) = 1 BY ModeTypes DEF Control
<1>10. Shape(c)' BY <1>5, <1>7, <1>9 DEF Shape, InTx
<1>. QED BY <1>1, <1>2, <1>4, <1>7, <1>8, <1>10, ControlKept

LEMMA CollectControl ==
  ASSUME Control, NEW k \in Keys, UNCHANGED mode, GarbageCollect(k)
  PROVE  Control'
<1>1. "absent" \in Statuses BY DEF Statuses
<1>2. TypeOK' BY <1>1, ModeKept DEF Control, TypeOK, GarbageCollect, call, tx
<1>3. \A c \in Consumers : Shape(c)' BY ModeKept DEF Control, Shape, GarbageCollect, call
<1>. QED BY <1>2, <1>3 DEF Control

LEMMA ControlStep == Control /\ [Next]_vars => Control'
<1>. SUFFICES ASSUME Control, [Next]_vars PROVE Control' OBVIOUS
<1>1. CASE UNCHANGED vars
  <2>1. UNCHANGED <<mode, status, attempts, runs, collected, withdrawn, acked, pc, todo, pos,
                    single, result, writes, ran, doomed, crashes>>
    BY <1>1 DEF vars, table, history, call, tx
  <2>. QED BY <2>1, ModeKept DEF Control, TypeOK, Shape
<1>2. CASE Next
  BY <1>2, ConsumerKeepsControl, CrashControl, DeliverControl, CollectControl DEF Next, Step
<1>. QED BY <1>1, <1>2

LEMMA ControlInit == Init => Control
<1>. SUFFICES ASSUME Init PROVE Control OBVIOUS
<1>1. <<>> \in Seq(Results) OBVIOUS
<1>2. "absent" \in Statuses /\ "processing" \in Statuses /\ "idle" \in Phases BY DEF Statuses, Phases
<1>3. mode \in Modes /\ MaxCrashes \in Nat BY ModeTypes DEF Init
<1>4. TypeOK BY <1>1, <1>2, <1>3 DEF Init, TypeOK
<1>5. \A c \in Consumers : Shape(c) BY DEF Init, Shape, InTx
<1>. QED BY <1>3, <1>4, <1>5 DEF Control

\* Every variable keeps its type: a consumer that is in a call is at a message of its
\* delivery.
THEOREM TypeCorrect == Spec => []TypeOK
<1>1. Control => TypeOK BY DEF Control
<1>. QED BY <1>1, ControlInit, ControlStep, PTL DEF Spec

-----------------------------------------------------------------------------
(* What a step changes *)

\* Only a commit, a recorded failure and retention touch the table.
Quiet == UNCHANGED <<status, attempts, runs, collected>>

LEMMA TableFrame ==
  ASSUME NEW c \in Consumers, ConsumerStep(c) \/ Crash(c) \/ \E b \in Deliveries : Deliver(c, b)
  PROVE  /\ Quiet \/ Commit(c) \/ RecordFailedAttempt(c)
         /\ withdrawn \subseteq withdrawn'
         /\ withdrawn' = withdrawn \/ HandlerCondemns(c)
         /\ acked' = acked \/ Acknowledge(c)
<1>. USE DEF Quiet, table, history
<1>1. CASE SkipRepeated(c) BY <1>1 DEF SkipRepeated
<1>2. CASE Insert(c) BY <1>2 DEF Insert
<1>3. CASE Select(c) BY <1>3 DEF Select
<1>4. CASE HandlerReturns(c) BY <1>4 DEF HandlerReturns
<1>5. CASE HandlerCondemns(c) BY <1>5 DEF HandlerCondemns
<1>6. CASE HandlerThrows(c) BY <1>6 DEF HandlerThrows
<1>7. CASE MarkCompleted(c) BY <1>7 DEF MarkCompleted
<1>8. CASE DeadlockVictim(c) BY <1>8 DEF DeadlockVictim
<1>9. CASE Commit(c) BY <1>9 DEF Commit
<1>10. CASE VerifyBatch(c) BY <1>10 DEF VerifyBatch
<1>11. CASE RecordFailedAttempt(c) BY <1>11 DEF RecordFailedAttempt
<1>12. CASE Acknowledge(c)
  <2>1. Leave(c) => withdrawn' = withdrawn BY <1>12 DEF Acknowledge
  <2>. QED BY <1>12, <2>1 DEF Acknowledge
<1>13. CASE Crash(c) BY <1>13 DEF Crash
<1>14. CASE \E b \in Deliveries : Deliver(c, b) BY <1>14 DEF Deliver
<1>. QED BY <1>1, <1>2, <1>3, <1>4, <1>5, <1>6, <1>7, <1>8, <1>9, <1>10, <1>11, <1>12, <1>13, <1>14
      DEF ConsumerStep

\* What an answer, or a step to another phase, does to the call.
LEMMA Answered ==
  ASSUME Control, NEW c \in Consumers, UNCHANGED mode, NEW r \in Results, Answer(c, r),
         pc[c] \in InTx \ {"commit"}
  PROVE  /\ todo'[c] = todo[c] /\ single'[c] = single[c]
         /\ pc'[c] \in {"insert", "commit"}
         /\ single[c] => pc'[c] = "commit"
         /\ pc'[c] = "commit" => pos'[c] = pos[c] /\ Key(c)' = Key(c)
         /\ result'[c] = Append(result[c], r)
         /\ DOMAIN result[c] = 1 .. pos[c] - 1 /\ DOMAIN result'[c] = 1 .. pos[c]
         /\ \A i \in 1 .. pos[c] - 1 : result'[c][i] = result[c][i]
         /\ result'[c][pos[c]] = r
<1>1. result[c] \in Seq(Results) /\ pos[c] \in Nat \ {0} BY LocalTypes
<1>2. Len(result[c]) = pos[c] - 1 BY DEF Control, Shape, InTx
<1>3. /\ DOMAIN result[c] = 1 .. pos[c] - 1 /\ DOMAIN Append(result[c], r) = 1 .. pos[c]
      /\ \A i \in 1 .. pos[c] - 1 : Append(result[c], r)[i] = result[c][i]
      /\ Append(result[c], r)[pos[c]] = r
  BY <1>1, <1>2
<1>. QED BY <1>3, AnswerControl DEF Key

LEMMA Gone ==
  ASSUME Control, NEW c \in Consumers, UNCHANGED mode, NEW p \in Phases \ {"idle"}, Go(c, p), pc[c] # "idle"
  PROVE  /\ pc'[c] = p /\ Key(c)' = Key(c) /\ todo'[c] = todo[c] /\ pos'[c] = pos[c]
         /\ single'[c] = single[c] /\ result'[c] = result[c]
BY GoControl DEF Key

LEMMA HasKey ==
  ASSUME Control, NEW c \in Consumers, pc[c] # "idle"
  PROVE  Key(c) \in ItemsOf(todo[c]) /\ Key(c) \in Keys
BY LocalTypes DEF Key, ItemsOf

-----------------------------------------------------------------------------
(* The open transactions *)

LEMMA TxShapeElsewhere ==
  ASSUME NEW d, TxShape(d), Stays(d), withdrawn \subseteq withdrawn'
  PROVE  TxShape(d)'
BY DEF TxShape, Stays, Clean, Key, ItemsOf

LEMMA CleanShape ==
  ASSUME NEW c, Clean(c)', pc'[c] # "mark"
  PROVE  TxShape(c)'
<1>1. writes'[c] = {} /\ ran'[c] = {} BY DEF Clean
<1>2. ~doomed'[c] BY DEF Clean
<1>3. (doomed'[c] /\ single'[c] => Key(c)' \in withdrawn') BY <1>2
<1>. QED BY <1>1, <1>2, <1>3 DEF TxShape, Clean

LEMMA TxShapeHere ==
  ASSUME Control, NEW c \in Consumers, UNCHANGED mode, TxShape(c),
         ConsumerStep(c) \/ Crash(c) \/ \E b \in Deliveries : Deliver(c, b)
  PROVE  TxShape(c)'
<1>a. TxTypes /\ single[c] \in BOOLEAN /\ doomed[c] \in BOOLEAN BY AllTypes, LocalTypes DEF Control
<1>b. "Processed" \in Results /\ "Duplicate" \in Results /\ "InProgress" \in Results /\ "PreviouslyFailed" \in Results
  BY DEF Results
<1>c. pc[c] # "idle" => Key(c) \in ItemsOf(todo[c]) BY HasKey
<1>1. CASE SkipRepeated(c)
  <2>1. /\ pc[c] = "insert" /\ pc[c] \in InTx \ {"commit"} /\ Answer(c, "Duplicate") /\ ~single[c]
        /\ UNCHANGED <<withdrawn, writes, ran, doomed>>
    BY <1>1 DEF SkipRepeated, Repeated, InTx, history, tx
  <2>. QED BY <2>1, <1>a, <1>b, Answered DEF TxShape, InTx, Clean
<1>2. CASE Insert(c)
  <2>1. pc[c] = "insert" /\ pc[c] \in InTx /\ UNCHANGED <<withdrawn, ran, doomed>>
    BY <1>2 DEF Insert, InTx, history
  <2>2. CASE Go(c, "handle") /\ writes' = [writes EXCEPT ![c] = @ \cup {Key(c)}]
    <3>1. writes'[c] = writes[c] \cup {Key(c)} BY <2>2, <1>a DEF TxTypes
    <3>2. "handle" \in Phases \ {"idle"} BY DEF Phases
    <3>. QED BY <2>1, <2>2, <3>1, <3>2, <1>a, <1>c, Gone DEF TxShape, InTx, Clean
  <2>3. CASE Go(c, "select") /\ UNCHANGED writes
    <3>2. "select" \in Phases \ {"idle"} BY DEF Phases
    <3>. QED BY <2>1, <2>3, <3>2, <1>a, Gone DEF TxShape, InTx, Clean
  <2>. QED BY <1>2, <2>2, <2>3 DEF Insert
<1>3. CASE Select(c)
  <2>1. /\ pc[c] = "select" /\ pc[c] \in InTx \ {"commit"}
        /\ UNCHANGED <<withdrawn, writes, ran, doomed>>
    BY <1>3 DEF Select, InTx, history, tx
  <2>2. CASE \E r \in Results : Answer(c, r)
    BY <2>1, <2>2, <1>a, Answered DEF TxShape, InTx, Clean
  <2>3. CASE Go(c, "handle") \/ Go(c, "retry")
    <3>1. "handle" \in Phases \ {"idle"} /\ "retry" \in Phases \ {"idle"} BY DEF Phases
    <3>. QED BY <2>1, <2>3, <3>1, <1>a, Gone DEF TxShape, InTx, Clean
  <2>. QED BY <1>3, <1>b, <2>2, <2>3 DEF Select
<1>4. CASE HandlerReturns(c)
  <2>1. /\ pc[c] \in {"handle", "retry"} /\ pc[c] \in InTx \ {"commit"} /\ pc[c] # "idle"
        /\ UNCHANGED <<withdrawn, writes, doomed>> /\ ran'[c] = ran[c] \cup {Key(c)}
    BY <1>4, <1>a DEF HandlerReturns, InTx, history, TxTypes
  <2>2. CASE Go(c, "mark")
    <3>1. "mark" \in Phases \ {"idle"} BY DEF Phases
    <3>. QED BY <2>1, <2>2, <3>1, <1>a, <1>c, Gone DEF TxShape, InTx, Clean
  <2>3. CASE Answer(c, "Processed")
    BY <2>1, <2>3, <1>a, <1>b, <1>c, Answered DEF TxShape, InTx, Clean
  <2>. QED BY <1>4, <2>2, <2>3 DEF HandlerReturns
<1>5. CASE HandlerCondemns(c)
  <2>1. /\ pc[c] \in {"handle", "retry"} /\ pc[c] \in InTx \ {"commit"} /\ pc[c] # "idle"
        /\ UNCHANGED <<writes, ran>> /\ doomed'[c] = TRUE
        /\ withdrawn' = IF single[c] THEN withdrawn \cup {Key(c)} ELSE withdrawn
    BY <1>5, <1>a DEF HandlerCondemns, InTx, TxTypes
  <2>2. CASE Go(c, "mark")
    <3>1. "mark" \in Phases \ {"idle"} BY DEF Phases
    <3>. QED BY <2>1, <2>2, <3>1, <1>a, <1>c, Gone DEF TxShape, InTx, Clean
  <2>3. CASE Answer(c, "Processed")
    BY <2>1, <2>3, <1>a, <1>b, <1>c, Answered DEF TxShape, InTx, Clean
  <2>. QED BY <1>5, <2>2, <2>3 DEF HandlerCondemns
<1>6. CASE HandlerThrows(c) \/ DeadlockVictim(c)
  <2>1. pc[c] \in InTx /\ Raise(c) BY <1>6 DEF HandlerThrows, DeadlockVictim, WaitsFor, InTx
  <2>2. Clean(c)' /\ pc'[c] # "mark" BY <2>1, RaiseControl
  <2>. QED BY <2>2, CleanShape
<1>7. CASE MarkCompleted(c)
  <2>1. /\ pc[c] = "mark" /\ pc[c] \in InTx \ {"commit"} /\ pc[c] # "idle" /\ Answer(c, "Processed")
        /\ UNCHANGED <<withdrawn, ran, doomed>>
        /\ writes'[c] = writes[c] \/ writes'[c] = writes[c] \cup {Key(c)}
    BY <1>7, <1>a DEF MarkCompleted, InTx, history, TxTypes
  <2>. QED BY <2>1, <1>a, <1>b, <1>c, Answered DEF TxShape, InTx, Clean
<1>8. CASE Commit(c)
  <2>1. pc'[c] # "mark" BY <1>8 DEF Commit, NextItem, Go, Control, TypeOK
  <2>. QED BY <1>8, <2>1, EndTxTypes, CleanShape DEF Commit
<1>9. CASE VerifyBatch(c) \/ RecordFailedAttempt(c) \/ Acknowledge(c)
  <2>1. pc[c] \notin InTx /\ UNCHANGED tx
    BY <1>9 DEF VerifyBatch, RecordFailedAttempt, Acknowledge, InTx
  <2>2. Clean(c) BY <2>1 DEF TxShape
  <2>3. pc'[c] # "mark"
    BY <1>9 DEF VerifyBatch, RecordFailedAttempt, Acknowledge, Go, FallBack, Leave, NextItem, Control, TypeOK
  <2>. QED BY <2>1, <2>2, <2>3, CleanShape DEF Clean, tx
<1>10. CASE Crash(c)
  <2>1. pc'[c] # "mark" BY <1>10 DEF Crash, Leave, Control, TypeOK
  <2>. QED BY <1>10, <2>1, EndTxTypes, CleanShape DEF Crash
<1>11. CASE \E b \in Deliveries : Deliver(c, b)
  <2>1. pc[c] \notin InTx /\ UNCHANGED tx BY <1>11 DEF Deliver, InTx
  <2>2. Clean(c) BY <2>1 DEF TxShape
  <2>3. pc'[c] # "mark" BY <1>11 DEF Deliver, Control, TypeOK
  <2>. QED BY <2>1, <2>2, <2>3, CleanShape DEF Clean, tx
<1>. QED BY <1>1, <1>2, <1>3, <1>4, <1>5, <1>6, <1>7, <1>8, <1>9, <1>10, <1>11 DEF ConsumerStep

\* A row is written by a consumer that found no other writer; the delivery is the
\* consumer's until it leaves the call.
LEMMA WritesAndTodo ==
  ASSUME Control, NEW c \in Consumers, UNCHANGED mode,
         ConsumerStep(c) \/ Crash(c) \/ \E b \in Deliveries : Deliver(c, b)
  PROVE  /\ \/ writes'[c] \subseteq writes[c]
            \/ /\ writes'[c] = writes[c] \cup {Key(c)} /\ Free(Key(c), c)
               /\ pc[c] \in {"insert", "mark"}
         /\ \/ todo'[c] = todo[c]
            \/ todo'[c] = <<>>
            \/ \E b \in Deliveries : Deliver(c, b)
<1>a. TxTypes /\ todo \in [Consumers -> Deliveries \cup {<<>>}] BY AllTypes DEF Control, CallTypes
<1>. USE DEF TxTypes, tx, call, Go, Answer, NextItem, FallBack, Leave, EndTx, Raise
<1>1. CASE SkipRepeated(c) BY <1>1 DEF SkipRepeated
<1>2. CASE Insert(c) BY <1>2, <1>a DEF Insert
<1>3. CASE Select(c) BY <1>3 DEF Select
<1>4. CASE HandlerReturns(c) BY <1>4 DEF HandlerReturns
<1>5. CASE HandlerCondemns(c) BY <1>5 DEF HandlerCondemns
<1>6. CASE HandlerThrows(c) BY <1>6, <1>a DEF HandlerThrows
<1>7. CASE MarkCompleted(c) BY <1>7, <1>a DEF MarkCompleted
<1>8. CASE DeadlockVictim(c) BY <1>8, <1>a DEF DeadlockVictim
<1>9. CASE Commit(c) BY <1>9, <1>a DEF Commit
<1>10. CASE VerifyBatch(c) BY <1>10 DEF VerifyBatch
<1>11. CASE RecordFailedAttempt(c) BY <1>11 DEF RecordFailedAttempt
<1>12. CASE Acknowledge(c) BY <1>12, <1>a DEF Acknowledge
<1>13. CASE Crash(c) BY <1>13, <1>a DEF Crash
<1>14. CASE \E b \in Deliveries : Deliver(c, b) BY <1>14 DEF Deliver
<1>. QED BY <1>1, <1>2, <1>3, <1>4, <1>5, <1>6, <1>7, <1>8, <1>9, <1>10, <1>11, <1>12, <1>13, <1>14
      DEF ConsumerStep

LEMMA ApartStep ==
  ASSUME Control, NEW c \in Consumers, UNCHANGED mode, Apart,
         ConsumerStep(c) \/ Crash(c) \/ \E b \in Deliveries : Deliver(c, b)
  PROVE  Apart'
<1>1. Exclusive' = Exclusive BY ModeKept
<1>2. \A d \in Consumers \ {c} : Stays(d) BY Elsewhere
<1>3. ASSUME NEW d \in Consumers, d # c
      PROVE  /\ writes'[c] \cap writes'[d] = {}
             /\ Exclusive => ItemsOf(todo'[c]) \cap ItemsOf(todo'[d]) = {}
  <2>1. writes'[d] = writes[d] /\ todo'[d] = todo[d] BY <1>2, <1>3 DEF Stays
  <2>2. writes[c] \cap writes[d] = {} BY <1>3 DEF Apart
  <2>3. writes'[c] \cap writes'[d] = {} BY <1>3, <2>1, <2>2, WritesAndTodo DEF Free
  <2>4. CASE todo'[c] = todo[c] BY <2>1, <2>3, <2>4, <1>3 DEF Apart
  <2>5. CASE todo'[c] = <<>>
    <3>1. ItemsOf(<<>>) = {} BY DEF ItemsOf
    <3>. QED BY <2>1, <2>3, <2>5, <3>1
  <2>6. CASE \E b \in Deliveries : Deliver(c, b)
    <3>1. PICK b \in Deliveries : Deliver(c, b) BY <2>6
    <3>2. todo'[c] = b BY <3>1 DEF Deliver, Control, TypeOK
    <3>3. Exclusive => ItemsOf(todo[d]) \cap ItemsOf(b) = {} BY <3>1 DEF Deliver
    <3>. QED BY <2>1, <2>3, <3>2, <3>3
  <2>. QED BY <2>4, <2>5, <2>6, WritesAndTodo
<1>4. ASSUME NEW e \in Consumers, NEW d \in Consumers, e # d, e # c, d # c
      PROVE  /\ writes'[e] \cap writes'[d] = {}
             /\ Exclusive => ItemsOf(todo'[e]) \cap ItemsOf(todo'[d]) = {}
  <2>1. writes'[d] = writes[d] /\ todo'[d] = todo[d] /\ writes'[e] = writes[e] /\ todo'[e] = todo[e]
    BY <1>2, <1>4 DEF Stays
  <2>. QED BY <2>1, <1>4 DEF Apart
<1>5. ASSUME NEW e \in Consumers, NEW d \in Consumers, e # d
      PROVE  /\ writes'[e] \cap writes'[d] = {}
             /\ Exclusive => ItemsOf(todo'[e]) \cap ItemsOf(todo'[d]) = {}
  <2>1. CASE e = c BY <1>3, <1>5, <2>1
  <2>2. CASE d = c BY <1>3, <1>5, <2>2
  <2>3. CASE e # c /\ d # c BY <1>4, <1>5, <2>3
  <2>. QED BY <2>1, <2>2, <2>3
<1>. QED BY <1>1, <1>5 DEF Apart, ItemsOf

\* What a consumer has in hand is of its delivery.
LEMMA InHandItems ==
  ASSUME Control, NEW c \in Consumers, TxShape(c)
  PROVE  InHand(c) \subseteq ItemsOf(todo[c]) /\ InHand(c) \subseteq Keys
<1>1. pc[c] \in Working => Key(c) \in ItemsOf(todo[c]) BY HasKey DEF Working
<1>2. InHand(c) \subseteq ItemsOf(todo[c]) BY <1>1 DEF InHand, TxShape
<1>3. ItemsOf(todo[c]) \subseteq Keys BY LocalTypes DEF ItemsOf
<1>. QED BY <1>2, <1>3

-----------------------------------------------------------------------------
(* The table *)

\* The invariant that a step starts from.
Base ==
  /\ Control
  /\ \A c \in Consumers : TxShape(c)
  /\ Apart
  /\ Rows

\* What a transaction leaves completed it has run.
LEMMA StoredRan ==
  ASSUME Base, NEW c \in Consumers, Commit(c)
  PROVE  /\ Stored(c) \subseteq ran[c] /\ Stored(c) \subseteq writes[c]
         /\ Stored(c) # {} => ~doomed[c]
         /\ ~doomed[c] => Stored(c) = writes[c]
         /\ doomed[c] => Stored(c) = {}
         /\ ~doomed[c] => \A k \in ran[c] : runs'[k] > 0
         /\ \A k \in Keys : /\ runs'[k] >= runs[k] /\ runs'[k] \in 0 .. 2
                            /\ (doomed[c] \/ k \notin ran[c]) => runs'[k] = runs[k]
                            /\ runs[k] = 0 => runs'[k] <= 1
                            /\ k \in Stored(c) => status'[k] = "completed" /\ runs'[k] > 0
                            /\ k \notin Stored(c) => status'[k] = status[k]
         /\ UNCHANGED <<attempts, collected, withdrawn, acked>>
<1>1. pc[c] = "commit" /\ TxShape(c) BY DEF Base, Commit
<1>2. ~doomed[c] => writes[c] \subseteq ran[c] BY <1>1 DEF TxShape
<1>3. ran[c] \subseteq Keys /\ doomed[c] \in BOOLEAN BY LocalTypes DEF Base
<1>4. \A k \in Keys : runs[k] \in 0 .. 2 BY DEF Base, Control, TypeOK
<1>5. Stored(c) \subseteq ran[c] /\ Stored(c) \subseteq writes[c] /\ (Stored(c) # {} => ~doomed[c])
  BY <1>2 DEF Stored
<1>6. \A k \in Keys : runs'[k] = IF k \in ran[c] /\ ~doomed[c] /\ runs[k] < 2 THEN runs[k] + 1 ELSE runs[k]
  BY DEF Commit
<1>7. \A k \in Keys : status'[k] = IF k \in Stored(c) THEN "completed" ELSE status[k] BY DEF Commit
<1>8. UNCHANGED <<attempts, collected, withdrawn, acked>> BY DEF Commit
<1>9. ~doomed[c] => \A k \in ran[c] : runs'[k] > 0 BY <1>3, <1>4, <1>6
<1>10. (~doomed[c] => Stored(c) = writes[c]) /\ (doomed[c] => Stored(c) = {}) BY DEF Stored
<1>. QED BY <1>3, <1>4, <1>5, <1>6, <1>7, <1>8, <1>9, <1>10

LEMMA Recorded ==
  ASSUME Base, NEW c \in Consumers, RecordFailedAttempt(c)
  PROVE  /\ pc[c] = "record" /\ Key(c) \in Keys /\ Retrying /\ single[c]
         /\ status'[Key(c)] = "failed" /\ attempts'[Key(c)] = attempts[Key(c)] + 1
         /\ \A k \in Keys : k # Key(c) => status'[k] = status[k] /\ attempts'[k] = attempts[k]
         /\ UNCHANGED <<runs, collected, withdrawn, acked>>
<1>1. pc[c] = "record" BY DEF RecordFailedAttempt
<1>2. Key(c) \in Keys BY <1>1, HasKey DEF Base
<1>3. Retrying /\ single[c] BY <1>1 DEF Base, Control, Shape
<1>4. status \in [Keys -> Statuses] /\ attempts \in [Keys -> Nat] BY DEF Base, Control, TypeOK
<1>. QED BY <1>1, <1>2, <1>3, <1>4 DEF RecordFailedAttempt, history, Charged

LEMMA RowsStep ==
  ASSUME Base, UNCHANGED mode, NEW c \in Consumers, Owned => Claims(c),
         ConsumerStep(c) \/ Crash(c) \/ \E b \in Deliveries : Deliver(c, b)
  PROVE  Rows'
<1>. USE ModeKept
<1>1. CASE Quiet BY <1>1 DEF Base, Rows, Quiet, Owned
<1>2. CASE Commit(c)
  <2>1. ASSUME NEW k \in Keys PROVE Owned => k \in collected \/ runs'[k] = 0 \/ (runs'[k] = 1 /\ status'[k] = "completed")
    <3>1. CASE doomed[c] \/ k \notin ran[c]
      <4>1. runs'[k] = runs[k] /\ k \notin Stored(c) BY <1>2, <3>1, StoredRan
      <4>. QED BY <4>1, <1>2, StoredRan DEF Base, Rows
    <3>2. CASE ~doomed[c] /\ k \in ran[c] /\ Owned
      <4>1. k \in InHand(c) /\ pc[c] = "commit" BY <1>2, <3>2 DEF InHand, Commit
      <4>2. k \in collected \/ (runs[k] = 0 /\ k \in writes[c]) BY <4>1, <3>2 DEF Claims
      <4>3. runs[k] = 0 => runs'[k] = 1 BY <1>2, <3>2, StoredRan
      <4>. QED BY <4>2, <4>3, <3>2, <1>2, StoredRan
    <3>. QED BY <3>1, <3>2
  <2>. QED BY <2>1, <1>2, StoredRan DEF Base, Rows, Owned
<1>3. CASE RecordFailedAttempt(c)
  <2>1. Owned => Key(c) \in collected \/ runs[Key(c)] = 0
    BY <1>3, Recorded DEF Claims, InHand, Working
  <2>2. Key(c) \in Keys /\ runs' = runs /\ collected' = collected /\ Retrying /\ status'[Key(c)] = "failed"
    BY <1>3, Recorded
  <2>3. \A k \in Keys : k # Key(c) => status'[k] = status[k] /\ attempts'[k] = attempts[k]
    BY <1>3, Recorded
  <2>. QED BY <2>1, <2>2, <2>3 DEF Base, Rows, Owned
<1>. QED BY <1>1, <1>2, <1>3, TableFrame

LEMMA CeilingStep ==
  ASSUME Base, UNCHANGED mode, NEW c \in Consumers, Owned => Claims(c), FailuresWithinCeiling,
         ConsumerStep(c) \/ Crash(c) \/ \E b \in Deliveries : Deliver(c, b)
  PROVE  FailuresWithinCeiling'
<1>. USE ModeKept
<1>1. CASE Quiet BY <1>1 DEF FailuresWithinCeiling, Quiet
<1>2. CASE Commit(c) BY <1>2, StoredRan DEF FailuresWithinCeiling
<1>3. CASE RecordFailedAttempt(c)
  <2>1. Exclusive => Due(Key(c)) BY <1>3, Recorded DEF Claims, InHand, Working, Owned
  <2>2. status[Key(c)] = "absent" => attempts[Key(c)] = 0 BY <1>3, Recorded DEF Base, Rows
  <2>3. Key(c) \in Keys /\ attempts'[Key(c)] = attempts[Key(c)] + 1 /\ attempts[Key(c)] \in Nat
    BY <1>3, Recorded DEF Base, Control, TypeOK
  <2>4. \A k \in Keys : k # Key(c) => attempts'[k] = attempts[k] BY <1>3, Recorded
  <2>5. Ceiling \in Nat BY ModeTypes DEF Base, Control
  <2>6. Exclusive => attempts'[Key(c)] <= IF Ceiling = 0 THEN 1 ELSE Ceiling
    BY <2>1, <2>2, <2>3, <2>5 DEF Due
  <2>. QED BY <2>4, <2>6 DEF FailuresWithinCeiling
<1>. QED BY <1>1, <1>2, <1>3, TableFrame

-----------------------------------------------------------------------------
(* Claims *)

\* Where a delivery belongs to one consumer, what another has in hand is not the
\* consumer's to write.
LEMMA OthersHand ==
  ASSUME Base, Exclusive, NEW c \in Consumers, NEW d \in Consumers, c # d
  PROVE  /\ writes[c] \cap ItemsOf(todo[d]) = {} /\ ran[c] \cap ItemsOf(todo[d]) = {}
         /\ InHand(c) \cap ItemsOf(todo[d]) = {}
         /\ InHand(d) \subseteq ItemsOf(todo[d])
<1>1. InHand(c) \subseteq ItemsOf(todo[c]) /\ InHand(d) \subseteq ItemsOf(todo[d]) BY InHandItems DEF Base
<1>2. ItemsOf(todo[c]) \cap ItemsOf(todo[d]) = {} BY DEF Base, Apart
<1>3. writes[c] \subseteq InHand(c) /\ ran[c] \subseteq InHand(c) BY DEF InHand
<1>. QED BY <1>1, <1>2, <1>3

\* A transaction of runInboxTransaction has run no message that another one holds.
LEMMA OthersRun ==
  ASSUME Base, ~Retrying, NEW c \in Consumers, NEW d \in Consumers, c # d,
         Claims(c), Claims(d), NEW k \in ran[c], k \in InHand(d)
  PROVE  k \in collected
<1>1. pc[c] \notin {"retry", "mark", "record"} /\ pc[d] \notin {"retry", "mark", "record"}
  BY DEF Base, Control, Shape
<1>2. k \in InHand(c) BY DEF InHand
<1>3. k \in collected \/ (k \in writes[c] /\ k \in writes[d]) BY <1>1, <1>2 DEF Claims
<1>. QED BY <1>3 DEF Base, Apart

\* No other writer ever holds a consumer up that owns its messages.
LEMMA NoVictim ==
  ASSUME Base, Exclusive, NEW c \in Consumers
  PROVE  ~DeadlockVictim(c)
<1>. SUFFICES ASSUME DeadlockVictim(c) PROVE FALSE OBVIOUS
<1>1. PICK D \in SUBSET Consumers : c \in D /\ \A d \in D : WaitsFor(d, D) BY DEF DeadlockVictim
<1>2. PICK d \in D \ {c} : Key(c) \in writes[d] BY <1>1 DEF WaitsFor
<1>3. pc[c] # "idle" BY <1>1 DEF WaitsFor
<1>4. Key(c) \in ItemsOf(todo[c]) BY <1>3, HasKey DEF Base
<1>. QED BY <1>1, <1>2, <1>4, OthersHand

LEMMA ClaimsElsewhere ==
  ASSUME Base, UNCHANGED mode, NEW c \in Consumers, NEW d \in Consumers, c # d,
         Owned, Claims(c), Claims(d), Stays(d),
         Quiet \/ Commit(c) \/ RecordFailedAttempt(c)
  PROVE  Claims(d)'
<1>. USE ModeKept
<1>0. /\ InHand(d)' = InHand(d) /\ Key(d)' = Key(d) /\ pc'[d] = pc[d] /\ writes'[d] = writes[d]
  BY DEF Stays, InHand, Key
<1>a. InHand(d) \subseteq Keys BY InHandItems DEF Base
<1>b. pc[d] \in {"select", "retry", "mark"} => Key(d) \in Keys /\ Key(d) \in ItemsOf(todo[d])
  BY HasKey DEF Base
<1>1. CASE Quiet
  BY <1>0, <1>1, <1>a, <1>b DEF Claims, Quiet, Due
<1>2. CASE Commit(c)
  <2>1. pc'[d] = "select" => status'[Key(d)] # "absent" \/ Key(d) \in collected
    BY <1>0, <1>2, <1>b, StoredRan DEF Claims
  <2>2. pc'[d] \in {"retry", "mark"} => status'[Key(d)] = "failed"
    <3>1. SUFFICES ASSUME pc[d] \in {"retry", "mark"} PROVE status'[Key(d)] = "failed" BY <1>0
    <3>2. Retrying BY <3>1 DEF Base, Control, Shape
    <3>3. Key(d) \notin writes[c] BY <3>1, <3>2, <1>b, OthersHand DEF Owned
    <3>. QED BY <1>2, <1>b, <3>1, <3>3, StoredRan DEF Claims
  <2>3. ASSUME NEW k \in InHand(d)
        PROVE  /\ k \in writes[d] \/ Exclusive => Due(k)'
               /\ k \in collected \/ runs'[k] = 0
    <3>1. k \in Keys /\ (k \in writes[d] \/ Exclusive => Due(k)) /\ (k \in collected \/ runs[k] = 0)
      BY <2>3, <1>a DEF Claims
    <3>2. k \in writes[d] \/ Exclusive => Due(k)'
      <4>1. SUFFICES ASSUME k \in writes[d] \/ Exclusive PROVE Due(k)' OBVIOUS
      <4>2. k \notin writes[c] BY <4>1, <2>3, OthersHand DEF Base, Apart
      <4>3. status'[k] = status[k] /\ attempts' = attempts BY <1>2, <3>1, <4>2, StoredRan
      <4>. QED BY <3>1, <4>1, <4>3 DEF Due
    <3>3. k \in ran[c] => k \in collected
      BY <2>3, OthersHand, OthersRun DEF Owned
    <3>4. k \notin ran[c] => runs'[k] = runs[k] BY <1>2, <3>1, StoredRan
    <3>. QED BY <3>1, <3>2, <3>3, <3>4
  <2>4. collected' = collected BY <1>2, StoredRan
  <2>. QED BY <1>0, <2>1, <2>2, <2>3, <2>4 DEF Claims
<1>3. CASE RecordFailedAttempt(c)
  <2>1. Retrying /\ pc[c] = "record" /\ UNCHANGED <<runs, collected>> BY <1>3, Recorded
  <2>2. Exclusive /\ Key(c) \in InHand(c) BY <2>1 DEF Owned, InHand, Working
  <2>3. Key(c) \notin ItemsOf(todo[d]) BY <2>2, OthersHand
  <2>4. InHand(d) \subseteq ItemsOf(todo[d]) BY <2>2, OthersHand
  <2>5. \A k \in Keys : k \in ItemsOf(todo[d]) => status'[k] = status[k] /\ attempts'[k] = attempts[k]
    BY <1>3, <2>3, Recorded
  <2>. QED BY <1>0, <1>a, <1>b, <2>1, <2>4, <2>5 DEF Claims, Due
<1>. QED BY <1>1, <1>2, <1>3

\* With nothing in hand there is nothing to claim.
LEMMA NoClaims ==
  ASSUME NEW c, Clean(c)', pc'[c] \notin Working \cup {"select"}
  PROVE  Claims(c)'
<1>1. InHand(c)' = {} BY DEF InHand, Clean
<1>. QED BY <1>1 DEF Claims, Working

LEMMA ClaimsHere ==
  ASSUME Base, UNCHANGED mode, NEW c \in Consumers, Owned, Claims(c),
         ConsumerStep(c) \/ Crash(c) \/ \E b \in Deliveries : Deliver(c, b)
  PROVE  Claims(c)'
<1>. USE ModeKept
<1>a. TxTypes /\ single[c] \in BOOLEAN /\ doomed[c] \in BOOLEAN /\ Control /\ TxShape(c)
  BY AllTypes, LocalTypes DEF Control, Base
<1>b. "Processed" \in Results /\ "Duplicate" \in Results /\ "InProgress" \in Results /\ "PreviouslyFailed" \in Results
  BY DEF Results
<1>c. pc[c] # "idle" => Key(c) \in Keys BY HasKey, <1>a
<1>d. {"handle", "select", "retry", "mark"} \subseteq Phases \ {"idle"} BY DEF Phases
<1>e. pc[c] # "idle" => Key(c) \in collected \/ runs[Key(c)] = 0 \/ status[Key(c)] = "completed"
  BY <1>c DEF Base, Rows
<1>1. CASE SkipRepeated(c)
  <2>1. /\ pc[c] = "insert" /\ pc[c] \in InTx \ {"commit"} /\ Answer(c, "Duplicate")
        /\ UNCHANGED <<status, attempts, runs, collected, writes, ran>>
    BY <1>1 DEF SkipRepeated, InTx, table, history, tx
  <2>2. pc'[c] \in {"insert", "commit"} BY <2>1, <1>a, <1>b, Answered
  <2>3. InHand(c)' \subseteq InHand(c) BY <2>1, <2>2 DEF InHand, Working
  <2>. QED BY <2>1, <2>2, <2>3 DEF Claims, Due
<1>2. CASE Insert(c)
  <2>1. /\ pc[c] = "insert" /\ UNCHANGED <<status, attempts, runs, collected, ran>>
    BY <1>2 DEF Insert, table, history
  <2>2. CASE Go(c, "handle") /\ writes' = [writes EXCEPT ![c] = @ \cup {Key(c)}] /\ status[Key(c)] = "absent"
    <3>1. writes'[c] = writes[c] \cup {Key(c)} BY <2>2, <1>a DEF TxTypes
    <3>2. pc'[c] = "handle" /\ Key(c)' = Key(c) BY <2>1, <2>2, <1>a, <1>d, Gone
    <3>3. InHand(c)' \subseteq InHand(c) \cup {Key(c)} BY <2>1, <3>1, <3>2 DEF InHand, Working
    <3>. QED BY <2>1, <2>2, <3>1, <3>2, <3>3, <1>e DEF Claims, Due
  <2>3. CASE Go(c, "select") /\ UNCHANGED writes /\ status[Key(c)] # "absent"
    <3>2. pc'[c] = "select" /\ Key(c)' = Key(c) BY <2>1, <2>3, <1>a, <1>d, Gone
    <3>3. InHand(c)' \subseteq InHand(c) BY <2>1, <2>3, <3>2 DEF InHand, Working
    <3>. QED BY <2>1, <2>3, <3>2, <3>3 DEF Claims, Due
  <2>. QED BY <1>2, <2>2, <2>3 DEF Insert
<1>3. CASE Select(c)
  <2>1. /\ pc[c] = "select" /\ pc[c] \in InTx \ {"commit"}
        /\ UNCHANGED <<status, attempts, runs, collected, writes, ran>>
    BY <1>3 DEF Select, InTx, table, history, tx
  <2>2. CASE \E r \in Results : Answer(c, r)
    <3>1. pc'[c] \in {"insert", "commit"} BY <2>1, <2>2, <1>a, Answered
    <3>2. InHand(c)' \subseteq InHand(c) BY <2>1, <3>1 DEF InHand, Working
    <3>. QED BY <2>1, <3>1, <3>2 DEF Claims, Due
  <2>3. CASE Go(c, "handle") /\ status[Key(c)] = "absent"
    <3>1. pc'[c] = "handle" /\ Key(c)' = Key(c) BY <2>1, <2>3, <1>a, <1>d, Gone
    <3>2. InHand(c)' \subseteq InHand(c) \cup {Key(c)} BY <2>1, <3>1 DEF InHand, Working
    <3>3. Key(c) \in collected BY <2>1, <2>3 DEF Claims
    <3>. QED BY <2>1, <2>3, <3>1, <3>2, <3>3 DEF Claims, Due
  <2>4. CASE Go(c, "retry") /\ status[Key(c)] = "failed" /\ ~Exhausted(Key(c))
    <3>1. pc'[c] = "retry" /\ Key(c)' = Key(c) BY <2>1, <2>4, <1>a, <1>d, Gone
    <3>2. InHand(c)' \subseteq InHand(c) \cup {Key(c)} BY <2>1, <3>1 DEF InHand, Working
    <3>3. attempts[Key(c)] \in Nat /\ Ceiling \in Nat BY <2>1, <1>c, ModeTypes DEF Base, Control, TypeOK
    <3>4. Due(Key(c)) BY <2>4, <3>3 DEF Exhausted, Due
    <3>. QED BY <2>1, <2>4, <3>1, <3>2, <3>4, <1>e DEF Claims, Due
  <2>. QED BY <1>3, <1>b, <2>2, <2>3, <2>4 DEF Select
<1>4. CASE HandlerReturns(c) \/ HandlerCondemns(c)
  <2>1. /\ pc[c] \in {"handle", "retry"} /\ pc[c] \in InTx \ {"commit"} /\ pc[c] # "idle"
        /\ UNCHANGED <<status, attempts, runs, collected, writes>>
        /\ ran'[c] \subseteq ran[c] \cup {Key(c)}
    BY <1>4, <1>a DEF HandlerReturns, HandlerCondemns, InTx, table, history, TxTypes
  <2>2. CASE Go(c, "mark") /\ pc[c] = "retry"
    <3>1. pc'[c] = "mark" /\ Key(c)' = Key(c) BY <2>1, <2>2, <1>a, <1>d, Gone
    <3>2. InHand(c)' \subseteq InHand(c) BY <2>1, <3>1 DEF InHand, Working
    <3>. QED BY <2>1, <2>2, <3>1, <3>2 DEF Claims, Due
  <2>3. CASE Answer(c, "Processed") /\ pc[c] = "handle"
    <3>1. pc'[c] \in {"insert", "commit"} BY <2>1, <2>3, <1>a, <1>b, Answered
    <3>2. InHand(c)' \subseteq InHand(c) BY <2>1, <3>1 DEF InHand, Working
    <3>. QED BY <2>1, <2>3, <3>1, <3>2 DEF Claims, Due
  <2>. QED BY <1>4, <2>2, <2>3 DEF HandlerReturns, HandlerCondemns
<1>5. CASE HandlerThrows(c) \/ DeadlockVictim(c)
  <2>1. /\ pc[c] \in InTx /\ Raise(c) /\ UNCHANGED <<status, attempts, runs, collected>>
    BY <1>5 DEF HandlerThrows, DeadlockVictim, WaitsFor, InTx, table, history
  <2>2. CASE pc'[c] # "record"
    <3>1. Clean(c)' /\ pc'[c] \in {"insert", "idle"} BY <2>1, <2>2, <1>a, RaiseControl
    <3>. QED BY <3>1, NoClaims DEF Working
  <2>3. CASE pc'[c] = "record"
    <3>1. Clean(c)' /\ Retrying /\ Key(c)' = Key(c) BY <2>1, <2>3, <1>a, RaiseControl DEF Key
    <3>2. InHand(c)' = {Key(c)} BY <2>3, <3>1 DEF InHand, Clean, Working
    <3>3. Exclusive BY <3>1 DEF Owned
    <3>4. HandlerThrows(c) BY <1>5, <3>3, NoVictim
    <3>5. Key(c) \in InHand(c) BY <3>4 DEF HandlerThrows, InHand, Working
    <3>. QED BY <2>1, <2>3, <3>1, <3>2, <3>3, <3>5 DEF Claims, Due
  <2>. QED BY <2>2, <2>3
<1>6. CASE MarkCompleted(c)
  <2>1. /\ pc[c] = "mark" /\ pc[c] \in InTx \ {"commit"} /\ Answer(c, "Processed") /\ status[Key(c)] = "failed"
        /\ UNCHANGED <<status, attempts, runs, collected, ran>>
    BY <1>6 DEF MarkCompleted, InTx, table, history, Claims
  <2>2. writes'[c] = writes[c] \cup {Key(c)} BY <1>6, <2>1, <1>a DEF MarkCompleted, TxTypes
  <2>3. pc'[c] \in {"insert", "commit"} BY <2>1, <1>a, <1>b, Answered
  <2>4. InHand(c)' \subseteq InHand(c) /\ Key(c) \in InHand(c) BY <2>1, <2>2, <2>3 DEF InHand, Working
  <2>5. Exclusive BY <2>1 DEF Base, Control, Shape, Owned
  <2>. QED BY <2>1, <2>2, <2>3, <2>4, <2>5 DEF Claims, Due
<1>7. CASE Commit(c)
  <2>1. pc'[c] \notin Working \cup {"select"}
    BY <1>7 DEF Commit, NextItem, Go, Base, Control, TypeOK, Working
  <2>. QED BY <1>7, <2>1, <1>a, EndTxTypes, NoClaims DEF Commit
<1>8. CASE VerifyBatch(c) \/ RecordFailedAttempt(c) \/ Acknowledge(c)
  <2>1. pc[c] \notin InTx /\ UNCHANGED tx
    BY <1>8 DEF VerifyBatch, RecordFailedAttempt, Acknowledge, InTx
  <2>2. Clean(c)' BY <2>1, <1>a DEF TxShape, Clean, tx
  <2>3. pc'[c] \notin Working \cup {"select"}
    BY <1>8 DEF VerifyBatch, RecordFailedAttempt, Acknowledge, Go, FallBack, Leave, NextItem,
                Base, Control, TypeOK, Working
  <2>. QED BY <2>2, <2>3, NoClaims
<1>9. CASE Crash(c)
  <2>1. pc'[c] \notin Working \cup {"select"} BY <1>9 DEF Crash, Leave, Base, Control, TypeOK, Working
  <2>. QED BY <1>9, <2>1, <1>a, EndTxTypes, NoClaims DEF Crash
<1>10. CASE \E b \in Deliveries : Deliver(c, b)
  <2>1. pc[c] \notin InTx /\ UNCHANGED tx BY <1>10 DEF Deliver, InTx
  <2>2. Clean(c)' BY <2>1, <1>a DEF TxShape, Clean, tx
  <2>3. pc'[c] \notin Working \cup {"select"} BY <1>10 DEF Deliver, Base, Control, TypeOK, Working
  <2>. QED BY <2>2, <2>3, NoClaims
<1>. QED BY <1>1, <1>2, <1>3, <1>4, <1>5, <1>6, <1>7, <1>8, <1>9, <1>10 DEF ConsumerStep

-----------------------------------------------------------------------------
(* The answers *)

LEMMA LeastNat ==
  ASSUME NEW T, T \subseteq Nat, T # {}
  PROVE  \E x \in T : \A y \in T : x <= y
<1>. DEFINE R == OpToRel(<, Nat)
<1>1. IsWellFoundedOn(R, Nat) BY NatLessThanWellFounded
<1>2. \A x, y \in Nat : y < x => <<y, x>> \in R BY DEF OpToRel
<1>. HIDE DEF R
<1>3. PICK x \in T : \A y \in T : ~ (<<y, x>> \in R) BY <1>1, WFMin
<1>4. ASSUME NEW y \in T PROVE x <= y
  <2>1. x \in Nat /\ y \in Nat /\ ~(y < x) BY <1>2, <1>3
  <2>. QED BY <2>1
<1>. QED BY <1>4

\* A message once settled stays so.
LEMMA SettledKept ==
  ASSUME Base, UNCHANGED mode, NEW c \in Consumers, NEW k \in Keys, Settled(k),
         ConsumerStep(c) \/ Crash(c) \/ \E b \in Deliveries : Deliver(c, b)
  PROVE  Settled(k)'
<1>. USE ModeKept, TableFrame
<1>1. CASE Quiet BY <1>1 DEF Settled, Quiet
<1>2. CASE Commit(c)
  <2>1. runs'[k] >= runs[k] /\ runs'[k] \in 0 .. 2 /\ runs[k] \in 0 .. 2
    BY <1>2, StoredRan DEF Base, Control, TypeOK
  <2>2. status[k] = "failed" /\ attempts[k] >= Ceiling =>
          runs'[k] > 0 \/ (status'[k] = "failed" /\ attempts'[k] >= Ceiling)
    BY <1>2, StoredRan
  <2>. QED BY <2>1, <2>2 DEF Settled
<1>3. CASE RecordFailedAttempt(c)
  <2>1. attempts[k] \in Nat /\ Ceiling \in Nat BY ModeTypes DEF Base, Control, TypeOK
  <2>2. runs' = runs /\ withdrawn' = withdrawn BY <1>3, Recorded
  <2>3. CASE k = Key(c)
    <3>1. status'[k] = "failed" /\ attempts'[k] = attempts[k] + 1 BY <1>3, <2>3, Recorded
    <3>. QED BY <2>1, <2>2, <3>1 DEF Settled
  <2>4. CASE k # Key(c)
    <3>1. status'[k] = status[k] /\ attempts'[k] = attempts[k] BY <1>3, <2>4, Recorded
    <3>. QED BY <2>2, <3>1 DEF Settled
  <2>. QED BY <2>3, <2>4
<1>. QED BY <1>1, <1>2, <1>3

\* No consumer that owns its messages touches a row left processing.
LEMMA ProcessingKept ==
  ASSUME Base, UNCHANGED mode, NEW c \in Consumers, NEW k \in Keys, Owned, Claims(c),
         status[k] = "processing",
         ConsumerStep(c) \/ Crash(c) \/ \E b \in Deliveries : Deliver(c, b)
  PROVE  status'[k] = "processing" /\ (Unsettled(k) => Unsettled(k)')
<1>. USE ModeKept
<1>1. CASE Quiet BY <1>1 DEF Quiet, Unsettled
<1>2. CASE Commit(c)
  <2>1. k \notin writes[c] BY DEF Claims, InHand, Due
  <2>2. status'[k] = status[k] BY <1>2, <2>1, StoredRan
  <2>. QED BY <2>2 DEF Unsettled
<1>3. CASE RecordFailedAttempt(c)
  <2>1. Retrying /\ pc[c] = "record" BY <1>3, Recorded
  <2>2. k # Key(c) BY <2>1 DEF Owned, Claims, InHand, Working, Due
  <2>3. status'[k] = status[k] BY <1>3, <2>2, Recorded
  <2>. QED BY <2>3 DEF Unsettled
<1>. QED BY <1>1, <1>2, <1>3, TableFrame

\* There are no more results than messages.
LEMMA ResultItems ==
  ASSUME Control, NEW c \in Consumers
  PROVE  /\ DOMAIN result[c] \subseteq DOMAIN todo[c]
         /\ DOMAIN result[c] \subseteq Nat
         /\ \A i \in DOMAIN result[c] : todo[c][i] \in Keys /\ todo[c][i] \in ItemsOf(todo[c])
<1>1. Len(result[c]) <= Len(todo[c])
  <2>1. CASE pc[c] = "idle"
    <3>1. result[c] = <<>> BY <2>1 DEF Control, Shape
    <3>. QED BY <3>1, LocalTypes
  <2>2. CASE pc[c] # "idle"
    <3>1. Len(result[c]) \in {pos[c] - 1, pos[c], Len(todo[c])}
      BY <2>2, LocalTypes DEF Control, Shape, InTx, Phases
    <3>2. pos[c] \in 1 .. Len(todo[c]) /\ Len(todo[c]) \in Nat BY <2>2, LocalTypes
    <3>. QED BY <3>1, <3>2
  <2>. QED BY <2>1, <2>2
<1>2. DOMAIN result[c] \subseteq DOMAIN todo[c] BY <1>1, LocalTypes
<1>. QED BY <1>2, LocalTypes DEF ItemsOf

LEMMA AnswersElsewhere ==
  ASSUME Base, UNCHANGED mode, NEW c \in Consumers, NEW d \in Consumers, c # d,
         Owned, Claims(c), Answers(d), Stays(d),
         ConsumerStep(c) \/ Crash(c) \/ \E b \in Deliveries : Deliver(c, b)
  PROVE  Answers(d)'
<1>. USE ModeKept
<1>0. DOMAIN result[d] \subseteq Nat /\ \A i \in DOMAIN result[d] : todo[d][i] \in Keys /\ todo[d][i] \in ItemsOf(todo[d])
  BY ResultItems DEF Base
<1>1. Processed(d)' = Processed(d) BY DEF Stays, Processed
<1>2. ASSUME NEW i \in DOMAIN result[d] PROVE ResultOK(d, i)'
  <2>0. PICK k \in Keys : k = todo[d][i] BY <1>0, <1>2
  <2>1. ResultOK(d, i) BY <1>2 DEF Answers
  <2>2. Settled(k) => Settled(k)' BY SettledKept
  <2>3. status[k] = "processing" => status'[k] = "processing" BY ProcessingKept
  <2>4. Unsettled(k) => Unsettled(k)' BY ProcessingKept DEF Unsettled
  <2>5. Pending(d, k) => Pending(d, k)' BY <1>1 DEF Pending, Stays
  <2>6. todo'[d][i] = k /\ result'[d][i] = result[d][i] /\ single'[d] = single[d] /\ pc'[d] = pc[d]
        /\ pos'[d] = pos[d] /\ ran'[d] = ran[d]
    BY <2>0 DEF Stays
  <2>7. ResultOK(d, i) <=> /\ result[d][i] = "HandlerFailed" => single[d]
                           /\ result[d][i] = "InProgress" => status[k] = "processing"
                           /\ result[d][i] \in Final =>
                                \/ Settled(k) \/ Unsettled(k) \/ Pending(d, k)
                                \/ single[d] /\ pc[d] = "commit" /\ i = pos[d] /\ k \in ran[d]
    BY <2>0 DEF ResultOK
  <2>8. /\ result'[d][i] = "HandlerFailed" => single'[d]
        /\ result'[d][i] = "InProgress" => status'[k] = "processing"
        /\ result'[d][i] \in Final =>
             \/ Settled(k)' \/ Unsettled(k)' \/ Pending(d, k)'
             \/ single'[d] /\ pc'[d] = "commit" /\ i = pos'[d] /\ k \in ran'[d]
    BY <2>1, <2>2, <2>3, <2>4, <2>5, <2>6, <2>7
  <2>. QED BY <2>6, <2>8 DEF ResultOK, Settled, Unsettled, Pending, Final
<1>3. ~single[d] => \A i \in Processed(d) : status[todo[d][i]] # "completed" => status'[todo[d][i]] # "completed"
  <2>1. SUFFICES ASSUME ~single[d], NEW i \in Processed(d), status[todo[d][i]] # "completed"
                 PROVE  status'[todo[d][i]] # "completed"
    OBVIOUS
  <2>2. Exclusive BY <2>1 DEF Owned, Base, Control, Shape
  <2>3. todo[d][i] \in Keys /\ todo[d][i] \notin writes[c] BY <2>1, <2>2, <1>0, OthersHand DEF Processed
  <2>4. CASE Quiet BY <2>1, <2>4 DEF Quiet
  <2>5. CASE Commit(c) BY <2>1, <2>3, <2>5, StoredRan
  <2>6. CASE RecordFailedAttempt(c) BY <2>1, <2>3, <2>6, Recorded
  <2>. QED BY <2>4, <2>5, <2>6, TableFrame
<1>4. \A i \in Processed(d) : runs[todo[d][i]] > 0 => runs'[todo[d][i]] > 0
  <2>1. SUFFICES ASSUME NEW i \in Processed(d), runs[todo[d][i]] > 0
                 PROVE  runs'[todo[d][i]] > 0
    OBVIOUS
  <2>2. todo[d][i] \in Keys BY <2>1, <1>0 DEF Processed
  <2>3. runs[todo[d][i]] \in 0 .. 2 BY <2>2 DEF Base, Control, TypeOK
  <2>4. CASE Quiet BY <2>1, <2>4 DEF Quiet
  <2>5. CASE Commit(c) BY <2>1, <2>2, <2>3, <2>5, StoredRan
  <2>6. CASE RecordFailedAttempt(c) BY <2>1, <2>2, <2>6, Recorded
  <2>. QED BY <2>4, <2>5, <2>6, TableFrame
<1>5. BatchOK(d)'
  <2>1. BatchOK(d) BY DEF Answers
  <2>2. pc[d] = "verify" => ~single[d] BY DEF Base, Control, Shape
  <2>3. /\ pc'[d] = pc[d] /\ todo'[d] = todo[d] /\ single'[d] = single[d]
        /\ ran'[d] = ran[d] /\ doomed'[d] = doomed[d]
    BY DEF Stays
  <2>. QED BY <1>1, <1>3, <1>4, <2>1, <2>2, <2>3 DEF BatchOK
<1>6. DOMAIN result'[d] = DOMAIN result[d] BY DEF Stays
<1>. QED BY <1>2, <1>5, <1>6 DEF Answers

\* A result stays as good as it was.
LEMMA ResultKept ==
  ASSUME Base, UNCHANGED mode, NEW c \in Consumers, Owned, Claims(c),
         ConsumerStep(c) \/ Crash(c) \/ \E b \in Deliveries : Deliver(c, b),
         NEW i \in DOMAIN result[c], ResultOK(c, i), pc[c] # "commit",
         todo'[c] = todo[c], single'[c] = single[c], result'[c][i] = result[c][i],
         Pending(c, todo[c][i]) => Pending(c, todo[c][i])' \/ Settled(todo[c][i])
  PROVE  ResultOK(c, i)'
<1>1. PICK k \in Keys : k = todo[c][i] BY ResultItems DEF Base
<1>2. Settled(k) => Settled(k)' BY SettledKept
<1>3. status[k] = "processing" => status'[k] = "processing" BY ProcessingKept
<1>4. Unsettled(k) => Unsettled(k)' BY ProcessingKept DEF Unsettled
<1>5. (Pending(c, todo[c][i]))' <=> Pending(c, k)' BY <1>1 DEF Pending
<1>6. /\ result[c][i] = "HandlerFailed" => single[c]
      /\ result[c][i] = "InProgress" => status[k] = "processing"
      /\ result[c][i] \in Final => Settled(k) \/ Unsettled(k) \/ Pending(c, k)
  BY <1>1 DEF ResultOK
<1>7. Pending(c, k) => Pending(c, k)' \/ Settled(k) BY <1>1, <1>5
<1>8. /\ result'[c][i] = "HandlerFailed" => single'[c]
      /\ result'[c][i] = "InProgress" => status'[k] = "processing"
      /\ result'[c][i] \in Final => Settled(k)' \/ Unsettled(k)' \/ Pending(c, k)'
  BY <1>2, <1>3, <1>4, <1>6, <1>7
<1>9. todo'[c][i] = k BY <1>1
<1>. QED BY <1>8, <1>9 DEF ResultOK, Settled, Unsettled, Pending, Final

LEMMA NoAnswers ==
  ASSUME NEW c, result'[c] = <<>>
  PROVE  Answers(c)'
<1>1. DOMAIN result'[c] = {} OBVIOUS
<1>2. Processed(c)' = {} BY <1>1 DEF Processed
<1>. QED BY <1>1, <1>2 DEF Answers, BatchOK

\* A transaction that answers one more message, or goes on with the one in hand.
LEMMA GoAnswers ==
  ASSUME Base, UNCHANGED mode, NEW c \in Consumers, Owned, Claims(c), Answers(c),
         ConsumerStep(c), Quiet, ran[c] \subseteq ran'[c], doomed[c] => doomed'[c],
         pc[c] \in InTx \ {"commit"}, NEW p \in InTx \ {"commit"}, Go(c, p)
  PROVE  Answers(c)'
<1>1. p \in Phases \ {"idle"} /\ pc[c] # "idle" BY DEF InTx, Phases
<1>2. pc'[c] = p /\ todo'[c] = todo[c] /\ single'[c] = single[c] /\ result'[c] = result[c]
  BY <1>1, Gone DEF Base
<1>3. Processed(c)' = Processed(c) BY <1>2 DEF Processed
<1>4. \A i \in DOMAIN result[c] : ResultOK(c, i)'
  <2>1. SUFFICES ASSUME NEW i \in DOMAIN result[c] PROVE ResultOK(c, i)' OBVIOUS
  <2>2. Pending(c, todo[c][i]) => Pending(c, todo[c][i])' BY <1>2, <1>3 DEF Pending
  <2>. QED BY <2>2, <1>2, ResultKept DEF Answers
<1>5. BatchOK(c)' BY <1>2, <1>3 DEF Answers, BatchOK, Quiet, InTx
<1>. QED BY <1>2, <1>4, <1>5 DEF Answers

LEMMA AnswerAnswers ==
  ASSUME Base, UNCHANGED mode, NEW c \in Consumers, Owned, Claims(c), Answers(c),
         ConsumerStep(c), Quiet, ran[c] \subseteq ran'[c], doomed[c] => doomed'[c],
         pc[c] \in InTx \ {"commit"}, NEW r \in Results, Answer(c, r),
         NEW n \in Nat, n = pos[c], ResultOK(c, n)',
         r = "Processed" /\ ~single[c] =>
           status[Key(c)] # "completed" /\ (doomed'[c] \/ Key(c) \in ran'[c])
  PROVE  Answers(c)'
<1>1. /\ todo'[c] = todo[c] /\ single'[c] = single[c] /\ pc'[c] \in {"insert", "commit"}
      /\ DOMAIN result[c] = 1 .. pos[c] - 1 /\ DOMAIN result'[c] = 1 .. pos[c]
      /\ \A i \in 1 .. pos[c] - 1 : result'[c][i] = result[c][i]
      /\ result'[c][pos[c]] = r
  BY Answered DEF Base
<1>2. pos[c] \in Nat \ {0} BY LocalTypes DEF Base
<1>3. DOMAIN result'[c] = DOMAIN result[c] \cup {pos[c]} BY <1>1, <1>2
<1>4. Processed(c) \subseteq Processed(c)' BY <1>1, <1>3 DEF Processed
<1>5. Processed(c)' \subseteq Processed(c) \cup (IF r = "Processed" THEN {pos[c]} ELSE {})
  BY <1>1, <1>3 DEF Processed
<1>6. \A i \in DOMAIN result[c] : ResultOK(c, i)'
  <2>1. SUFFICES ASSUME NEW i \in DOMAIN result[c] PROVE ResultOK(c, i)' OBVIOUS
  <2>2. Pending(c, todo[c][i]) => Pending(c, todo[c][i])' BY <1>1, <1>4 DEF Pending, InTx
  <2>3. result'[c][i] = result[c][i] BY <1>1
  <2>. QED BY <2>2, <2>3, <1>1, ResultKept DEF Answers
<1>7. BatchOK(c)'
  <2>1. SUFFICES ASSUME ~single[c], NEW i \in Processed(c)'
                 PROVE  status[todo[c][i]] # "completed" /\ (doomed'[c] \/ todo[c][i] \in ran'[c])
    BY <1>1 DEF BatchOK, Quiet
  <2>2. CASE i \in Processed(c) BY <2>1, <2>2 DEF Answers, BatchOK
  <2>3. CASE i = pos[c] /\ r = "Processed" BY <2>1, <2>3 DEF Key
  <2>. QED BY <2>1, <2>2, <2>3, <1>5
<1>8. ASSUME NEW i \in DOMAIN result'[c] PROVE ResultOK(c, i)'
  <2>1. i = n \/ i \in DOMAIN result[c] BY <1>3
  <2>. QED BY <2>1, <1>6
<1>. QED BY <1>7, <1>8 DEF Answers

LEMMA AnswersHere ==
  ASSUME Base, UNCHANGED mode, NEW c \in Consumers, Owned, Claims(c), Answers(c),
         ConsumerStep(c) \/ Crash(c) \/ \E b \in Deliveries : Deliver(c, b)
  PROVE  Answers(c)'
<1>. USE ModeKept
<1>a. TxTypes /\ single[c] \in BOOLEAN /\ doomed[c] \in BOOLEAN /\ Control /\ TxShape(c)
  BY AllTypes, LocalTypes DEF Control, Base
<1>b. "Processed" \in Results /\ "Duplicate" \in Results /\ "InProgress" \in Results /\ "PreviouslyFailed" \in Results
  BY DEF Results
<1>c. pc[c] # "idle" => Key(c) \in Keys /\ Key(c) \in ItemsOf(todo[c]) BY HasKey, <1>a
<1>d. pc[c] \in InTx \ {"commit"} => DOMAIN result[c] = 1 .. pos[c] - 1
  <2>1. pc[c] \in InTx \ {"commit"} => Len(result[c]) = pos[c] - 1 BY DEF Base, Control, Shape
  <2>. QED BY <2>1, <1>a, LocalTypes
<1>e. ~single[c] => Exclusive BY DEF Owned, Base, Control, Shape
<1>f. PICK n \in Nat : n = pos[c] BY <1>a, LocalTypes
<1>1. CASE SkipRepeated(c)
  <2>1. /\ pc[c] = "insert" /\ pc[c] \in InTx \ {"commit"} /\ Answer(c, "Duplicate") /\ ~single[c]
        /\ Quiet /\ UNCHANGED <<ran, doomed, withdrawn>>
    BY <1>1 DEF SkipRepeated, Repeated, InTx, table, history, tx, Quiet
  <2>2. PICK j \in 1 .. pos[c] - 1 : todo[c][j] = Key(c) BY <1>1 DEF SkipRepeated, Repeated
  <2>3. j \in DOMAIN result[c] /\ ResultOK(c, j) BY <1>d, <2>1, <2>2 DEF Answers
  <2>4. result[c][j] \in Results BY <2>3, <1>a, LocalTypes
  <2>5. pc[c] # "idle" /\ pc[c] # "commit" BY <2>1
  <2>6. pos[c] \in DOMAIN todo[c] /\ j \in DOMAIN todo[c] /\ j # pos[c] /\ todo[c] \in Deliveries
    BY <2>2, <2>5, <1>a, LocalTypes
  <2>7. status[Key(c)] = "processing" => Unsettled(Key(c))
    BY <2>2, <2>6 DEF Unsettled, Key
  <2>8. Settled(Key(c)) \/ Unsettled(Key(c)) \/ Pending(c, Key(c))
    BY <2>1, <2>2, <2>3, <2>4, <2>5, <2>7 DEF ResultOK, Results, Final
  <2>9. /\ todo'[c] = todo[c] /\ single'[c] = single[c] /\ pc'[c] \in {"insert", "commit"}
        /\ \A i \in 1 .. pos[c] - 1 : result'[c][i] = result[c][i]
        /\ DOMAIN result[c] = 1 .. pos[c] - 1 /\ DOMAIN result'[c] = 1 .. pos[c]
        /\ result'[c][pos[c]] = "Duplicate"
    BY <2>1, <1>a, <1>b, Answered
  <2>10. PICK k \in Keys : k = Key(c) BY <2>5, <1>c
  <2>11. pos[c] \in Nat \ {0} BY <1>a, LocalTypes
  <2>12. Processed(c) \subseteq Processed(c)' BY <2>9, <2>11 DEF Processed
  <2>13. Pending(c, k) => Pending(c, k)' BY <2>9, <2>12 DEF Pending, InTx
  <2>14. Settled(k)' \/ Unsettled(k)' \/ Pending(c, k)'
    BY <2>8, <2>10, <2>13, SettledKept, ProcessingKept DEF Unsettled
  <2>15. todo'[c][pos[c]] = k BY <2>9, <2>10 DEF Key
  <2>16. ResultOK(c, n)'
    BY <1>f, <2>9, <2>14, <2>15 DEF ResultOK, Settled, Unsettled, Pending, Final
  <2>17. ran[c] \subseteq ran'[c] /\ (doomed[c] => doomed'[c]) BY <2>1
  <2>. QED BY <2>1, <2>16, <2>17, <1>1, <1>b, <1>f, AnswerAnswers DEF ConsumerStep
<1>2. CASE Insert(c)
  <2>1. /\ pc[c] = "insert" /\ pc[c] \in InTx \ {"commit"}
        /\ Quiet /\ UNCHANGED <<ran, doomed>>
    BY <1>2 DEF Insert, InTx, table, history, Quiet
  <2>2. PICK p \in {"handle", "select"} : Go(c, p) BY <1>2 DEF Insert
  <2>3. p \in InTx \ {"commit"} BY DEF InTx
  <2>. QED BY <2>1, <2>2, <2>3, <1>2, GoAnswers DEF ConsumerStep
<1>3. CASE Select(c)
  <2>1. /\ pc[c] = "select" /\ pc[c] \in InTx \ {"commit"} /\ pc[c] # "idle"
        /\ Quiet /\ UNCHANGED <<ran, doomed, withdrawn, mode>>
    BY <1>3 DEF Select, InTx, table, history, tx, Quiet
  <2>2. CASE Go(c, "handle") \/ Go(c, "retry")
    <3>1. "handle" \in InTx \ {"commit"} /\ "retry" \in InTx \ {"commit"} BY DEF InTx
    <3>. QED BY <2>1, <2>2, <3>1, <1>3, GoAnswers DEF ConsumerStep
  <2>3. ASSUME NEW r \in {"Duplicate", "InProgress", "PreviouslyFailed"}, Answer(c, r),
               r = "InProgress" => status[Key(c)] = "processing",
               r # "InProgress" => Settled(Key(c))
        PROVE  Answers(c)'
    <3>1. r \in Results BY DEF Results
    <3>2. todo'[c] = todo[c] /\ result'[c][pos[c]] = r BY <2>1, <2>3, <3>1, <1>a, Answered
    <3>3. PICK k \in Keys : k = Key(c) BY <2>1, <1>c
    <3>4. r # "InProgress" => Settled(k)' BY <2>1, <2>3, <3>3 DEF Settled, Quiet
    <3>5. r = "InProgress" => status'[k] = "processing" BY <2>1, <2>3, <3>3 DEF Quiet
    <3>6. todo'[c][pos[c]] = k BY <3>2, <3>3 DEF Key
    <3>7. ResultOK(c, n)' BY <1>f, <3>2, <3>4, <3>5, <3>6 DEF ResultOK, Settled, Final
    <3>. QED BY <2>1, <2>3, <3>1, <3>7, <1>3, <1>f, AnswerAnswers DEF ConsumerStep
  <2>4. Key(c) \in Keys /\ attempts[Key(c)] \in Nat /\ Ceiling \in Nat
    BY <2>1, <1>c, ModeTypes DEF Base, Control, TypeOK
  <2>5. status[Key(c)] = "completed" => Settled(Key(c)) BY <2>4 DEF Base, Rows, Settled
  <2>6. status[Key(c)] = "failed" /\ Exhausted(Key(c)) => Settled(Key(c))
    BY <2>4 DEF Base, Rows, Settled, Exhausted
  <2>. QED BY <1>3, <2>2, <2>3, <2>5, <2>6 DEF Select
<1>4. CASE HandlerReturns(c)
  <2>1. /\ pc[c] \in {"handle", "retry"} /\ pc[c] \in InTx \ {"commit"} /\ pc[c] # "idle"
        /\ Quiet /\ UNCHANGED <<doomed, withdrawn>> /\ ran'[c] = ran[c] \cup {Key(c)}
    BY <1>4, <1>a DEF HandlerReturns, InTx, table, history, TxTypes, Quiet
  <2>2. CASE Go(c, "mark")
    <3>1. "mark" \in InTx \ {"commit"} BY DEF InTx
    <3>. QED BY <2>1, <2>2, <3>1, <1>4, GoAnswers DEF ConsumerStep
  <2>3. CASE Answer(c, "Processed")
    <3>1. /\ todo'[c] = todo[c] /\ single'[c] = single[c] /\ pc'[c] \in {"insert", "commit"}
          /\ single[c] => pc'[c] = "commit"
          /\ pc'[c] = "commit" => pos'[c] = pos[c]
          /\ DOMAIN result'[c] = 1 .. pos[c] /\ result'[c][pos[c]] = "Processed"
      BY <2>1, <2>3, <1>a, <1>b, Answered
    <3>2. pos[c] \in Processed(c)'
      <4>1. pos[c] \in 1 .. pos[c] BY <1>a, LocalTypes
      <4>. QED BY <3>1, <4>1 DEF Processed
    <3>3. PICK k \in Keys : k = Key(c) BY <2>1, <1>c
    <3>4. todo'[c][pos[c]] = k /\ k \in ran'[c] BY <2>1, <3>1, <3>3 DEF Key
    <3>5. ~single[c] => Pending(c, k)' BY <3>1, <3>2, <3>4 DEF Pending, InTx
    <3>6. ResultOK(c, n)' BY <1>f, <3>1, <3>4, <3>5 DEF ResultOK, Pending, Final
    <3>7. ~single[c] => status[Key(c)] # "completed"
      BY <2>1, <1>e DEF Claims, InHand, Working, Due
    <3>. QED BY <2>1, <2>3, <3>6, <3>7, <1>4, <1>b, <1>f, AnswerAnswers DEF ConsumerStep
  <2>. QED BY <1>4, <2>2, <2>3 DEF HandlerReturns
<1>5. CASE HandlerCondemns(c)
  <2>1. /\ pc[c] \in {"handle", "retry"} /\ pc[c] \in InTx \ {"commit"} /\ pc[c] # "idle"
        /\ Quiet /\ UNCHANGED ran /\ doomed'[c] = TRUE
        /\ single[c] => Key(c) \in withdrawn'
    BY <1>5, <1>a DEF HandlerCondemns, InTx, table, TxTypes, Quiet
  <2>2. CASE Go(c, "mark")
    <3>1. "mark" \in InTx \ {"commit"} BY DEF InTx
    <3>. QED BY <2>1, <2>2, <3>1, <1>5, GoAnswers DEF ConsumerStep
  <2>3. CASE Answer(c, "Processed")
    <3>1. /\ todo'[c] = todo[c] /\ single'[c] = single[c] /\ pc'[c] \in {"insert", "commit"}
          /\ DOMAIN result'[c] = 1 .. pos[c] /\ result'[c][pos[c]] = "Processed"
      BY <2>1, <2>3, <1>a, <1>b, Answered
    <3>2. pos[c] \in Processed(c)'
      <4>1. pos[c] \in 1 .. pos[c] BY <1>a, LocalTypes
      <4>. QED BY <3>1, <4>1 DEF Processed
    <3>3. PICK k \in Keys : k = Key(c) BY <2>1, <1>c
    <3>4. todo'[c][pos[c]] = k BY <3>1, <3>3 DEF Key
    <3>5. ~single[c] => Pending(c, k)' BY <3>1, <3>2, <3>4 DEF Pending, InTx
    <3>6. single[c] => Settled(k)' BY <2>1, <3>3 DEF Settled
    <3>7. ResultOK(c, n)' BY <1>f, <3>1, <3>4, <3>5, <3>6, <1>a DEF ResultOK, Pending, Settled, Final
    <3>8. ~single[c] => status[Key(c)] # "completed"
      BY <2>1, <1>e DEF Claims, InHand, Working, Due
    <3>. QED BY <2>1, <2>3, <3>7, <3>8, <1>5, <1>b, <1>f, AnswerAnswers DEF ConsumerStep
  <2>. QED BY <1>5, <2>2, <2>3 DEF HandlerCondemns
<1>6. CASE HandlerThrows(c) \/ DeadlockVictim(c)
  <2>1. /\ pc[c] \in InTx \ {"commit"} /\ Raise(c) /\ Quiet
    BY <1>6 DEF HandlerThrows, DeadlockVictim, WaitsFor, InTx, table, history, Quiet
  <2>2. CASE result'[c] = <<>> BY <2>2, NoAnswers
  <2>3. CASE pc'[c] = "record"
    <3>1. /\ single[c] /\ todo'[c] = todo[c] /\ single'[c] = single[c] /\ result'[c] = result[c]
          /\ pc[c] # "commit"
      BY <2>1, <2>3, <1>a, RaiseControl
    <3>2. \A i \in DOMAIN result[c] : ResultOK(c, i)'
      BY <3>1, ResultKept DEF Answers, Pending
    <3>3. BatchOK(c)' BY <2>3, <3>1 DEF BatchOK
    <3>. QED BY <3>1, <3>2, <3>3 DEF Answers
  <2>. QED BY <2>1, <2>2, <2>3, <1>a, RaiseControl
<1>7. CASE MarkCompleted(c)
  <2>1. /\ pc[c] = "mark" /\ pc[c] \in InTx \ {"commit"} /\ pc[c] # "idle" /\ Answer(c, "Processed")
        /\ status[Key(c)] = "failed" /\ Quiet /\ UNCHANGED <<ran, doomed, withdrawn>>
    BY <1>7 DEF MarkCompleted, InTx, table, history, Claims, Quiet
  <2>2. doomed[c] \/ Key(c) \in ran[c] BY <2>1, <1>a DEF TxShape
  <2>3. /\ todo'[c] = todo[c] /\ single'[c] = single[c] /\ pc'[c] \in {"insert", "commit"}
        /\ single[c] => pc'[c] = "commit"
        /\ pc'[c] = "commit" => pos'[c] = pos[c]
        /\ DOMAIN result'[c] = 1 .. pos[c] /\ result'[c][pos[c]] = "Processed"
    BY <2>1, <1>a, <1>b, Answered
  <2>4. pos[c] \in Processed(c)'
    <3>1. pos[c] \in 1 .. pos[c] BY <1>a, LocalTypes
    <3>. QED BY <2>3, <3>1 DEF Processed
  <2>5. PICK k \in Keys : k = Key(c) BY <2>1, <1>c
  <2>6. todo'[c][pos[c]] = k BY <2>3, <2>5 DEF Key
  <2>7. ~single[c] => Pending(c, k)' BY <2>3, <2>4, <2>6 DEF Pending, InTx
  <2>8. single[c] /\ doomed[c] => Settled(k)'
    <3>1. single[c] /\ doomed[c] => k \in withdrawn' BY <2>1, <2>5, <1>a DEF TxShape
    <3>. QED BY <3>1 DEF Settled
  <2>9. ~doomed[c] => k \in ran'[c] BY <2>1, <2>2, <2>5
  <2>10. ResultOK(c, n)'
    BY <1>f, <2>3, <2>6, <2>7, <2>8, <2>9, <1>a DEF ResultOK, Pending, Settled, Final
  <2>. QED BY <2>1, <2>2, <2>10, <1>7, <1>b, <1>f, AnswerAnswers DEF ConsumerStep
<1>8. CASE Commit(c)
  <2>1. pc[c] = "commit" /\ pc[c] # "idle" /\ pc[c] \in InTx /\ UNCHANGED withdrawn
    BY <1>8, StoredRan DEF Commit, InTx
  <2>2. CASE single[c]
    <3>1. NextItem(c) /\ result' = result BY <1>8, <2>2 DEF Commit
    <3>2. todo'[c] = todo[c] /\ single'[c] = single[c] /\ pc'[c] \in {"done", "insert"}
      BY <3>1 DEF NextItem, Base, Control, TypeOK
    <3>3. ASSUME NEW i \in DOMAIN result[c] PROVE ResultOK(c, i)'
      <4>1. PICK k \in Keys : k = todo[c][i] BY ResultItems DEF Base
      <4>2. /\ result[c][i] = "InProgress" => status[k] = "processing"
            /\ result[c][i] \in Final =>
                 \/ Settled(k) \/ Unsettled(k) \/ (k = Key(c) /\ k \in ran[c])
        BY <4>1, <2>2 DEF Answers, ResultOK, Pending, Key
      <4>3. k = Key(c) /\ k \in ran[c] => Settled(k)'
        <5>1. k = Key(c) /\ k \in ran[c] /\ ~doomed[c] => runs'[k] > 0 BY <1>8, StoredRan
        <5>2. k = Key(c) /\ doomed[c] => k \in withdrawn' BY <2>1, <2>2, <1>a DEF TxShape
        <5>. QED BY <5>1, <5>2, <1>a DEF Settled
      <4>4. Settled(k) => Settled(k)' BY SettledKept
      <4>5. status[k] = "processing" => status'[k] = "processing" BY ProcessingKept
      <4>6. Unsettled(k) => Unsettled(k)' BY ProcessingKept DEF Unsettled
      <4>7. todo'[c][i] = k /\ result'[c][i] = result[c][i] /\ single'[c] BY <3>1, <3>2, <4>1, <2>2
      <4>. QED BY <4>2, <4>3, <4>4, <4>5, <4>6, <4>7 DEF ResultOK, Settled, Unsettled, Final
    <3>4. BatchOK(c)' BY <2>2, <3>2 DEF BatchOK
    <3>. QED BY <3>1, <3>3, <3>4 DEF Answers
  <2>3. CASE ~single[c]
    <3>1. Go(c, "verify") BY <1>8, <2>3 DEF Commit
    <3>2. "verify" \in Phases \ {"idle"} BY DEF Phases
    <3>3. pc'[c] = "verify" /\ todo'[c] = todo[c] /\ single'[c] = single[c] /\ result'[c] = result[c]
      BY <2>1, <3>1, <3>2, <1>a, Gone
    <3>4. Processed(c)' = Processed(c) BY <3>3 DEF Processed
    <3>5. ASSUME NEW i \in DOMAIN result[c] PROVE ResultOK(c, i)'
      <4>1. PICK k \in Keys : k = todo[c][i] BY ResultItems DEF Base
      <4>2. /\ result[c][i] = "HandlerFailed" => single[c]
            /\ result[c][i] = "InProgress" => status[k] = "processing"
            /\ result[c][i] \in Final => Settled(k) \/ Unsettled(k) \/ Pending(c, k)
        BY <4>1, <2>3 DEF Answers, ResultOK
      <4>3. Pending(c, k) => Pending(c, k)' BY <3>3, <3>4 DEF Pending
      <4>4. Settled(k) => Settled(k)' BY SettledKept
      <4>5. status[k] = "processing" => status'[k] = "processing" BY ProcessingKept
      <4>6. Unsettled(k) => Unsettled(k)' BY ProcessingKept DEF Unsettled
      <4>7. todo'[c][i] = k BY <3>3, <4>1
      <4>8. /\ result'[c][i] = "HandlerFailed" => single'[c]
            /\ result'[c][i] = "InProgress" => status'[k] = "processing"
            /\ result'[c][i] \in Final => Settled(k)' \/ Unsettled(k)' \/ Pending(c, k)'
        BY <4>2, <4>3, <4>4, <4>5, <4>6, <3>3
      <4>. QED BY <4>7, <4>8 DEF ResultOK, Settled, Unsettled, Pending, Final
    <3>6. \A i \in Processed(c) : /\ todo[c][i] \in Keys /\ status[todo[c][i]] # "completed"
                                  /\ doomed[c] \/ todo[c][i] \in ran[c]
      BY <2>1, <2>3, ResultItems DEF Answers, BatchOK, Processed, Base
    <3>7. CASE doomed[c]
      <4>1. \A i \in Processed(c) : status'[todo[c][i]] # "completed"
        BY <3>6, <3>7, <1>8, StoredRan
      <4>2. BatchOK(c)' BY <3>3, <3>4, <4>1 DEF BatchOK, InTx
      <4>. QED BY <3>3, <3>5, <4>2 DEF Answers
    <3>8. CASE ~doomed[c]
      <4>1. \A i \in Processed(c) : runs'[todo[c][i]] > 0 BY <3>6, <3>8, <1>8, StoredRan
      <4>2. BatchOK(c)' BY <3>3, <3>4, <4>1 DEF BatchOK, InTx
      <4>. QED BY <3>3, <3>5, <4>2 DEF Answers
    <3>. QED BY <3>7, <3>8
  <2>. QED BY <2>2, <2>3
<1>9. CASE VerifyBatch(c)
  <2>1. pc[c] = "verify" /\ pc[c] # "idle" /\ pc[c] # "commit" /\ Quiet
    BY <1>9 DEF VerifyBatch, table, history, Quiet
  <2>2. CASE Committed(c) /\ Go(c, "done")
    <3>1. "done" \in Phases \ {"idle"} BY DEF Phases
    <3>2. pc'[c] = "done" /\ todo'[c] = todo[c] /\ single'[c] = single[c] /\ result'[c] = result[c]
      BY <2>1, <2>2, <3>1, <1>a, Gone
    <3>3. \A i \in Processed(c) : runs[todo[c][i]] > 0
      <4>1. SUFFICES ASSUME Processed(c) # {} PROVE \A i \in Processed(c) : runs[todo[c][i]] > 0 OBVIOUS
      <4>2. Processed(c) \subseteq Nat BY <1>a, ResultItems DEF Processed
      <4>3. PICK m \in Processed(c) : \A i \in Processed(c) : m <= i BY <4>1, <4>2, LeastNat
      <4>4. \A j \in 1 .. m - 1 : result[c][j] # "Processed"
        <5>1. m \in DOMAIN result[c] BY DEF Processed
        <5>2. ASSUME NEW j \in 1 .. m - 1, result[c][j] = "Processed" PROVE FALSE
          <6>1. j \in DOMAIN result[c] BY <5>1, <5>2, <1>a, LocalTypes
          <6>2. j \in Processed(c) BY <5>2, <6>1 DEF Processed
          <6>. QED BY <4>2, <4>3, <5>2, <6>2
        <5>. QED BY <5>2
      <4>5. status[todo[c][m]] = "completed" BY <4>4, <2>2 DEF Committed, Processed
      <4>. QED BY <4>3, <4>5, <2>1 DEF Answers, BatchOK
    <3>4. ASSUME NEW i \in DOMAIN result[c] PROVE ResultOK(c, i)'
      <4>1. Pending(c, todo[c][i]) => Settled(todo[c][i]) BY <3>3 DEF Pending, Settled
      <4>. QED BY <4>1, <3>2, <2>1, ResultKept DEF Answers
    <3>5. BatchOK(c)' BY <3>2 DEF BatchOK, InTx
    <3>. QED BY <3>2, <3>4, <3>5 DEF Answers
  <2>3. CASE FallBack(c)
    <3>1. result'[c] = <<>> BY <2>1, <2>3, <1>a, AnewControl
    <3>. QED BY <3>1, NoAnswers
  <2>. QED BY <1>9, <2>2, <2>3 DEF VerifyBatch
<1>10. CASE RecordFailedAttempt(c)
  <2>1. pc[c] = "record" /\ single[c] /\ pc[c] # "commit" BY <1>10, Recorded
  <2>2. Len(result[c]) = pos[c] - 1 BY <2>1 DEF Base, Control, Shape
  <2>3. result[c] \in Seq(Results) /\ pos[c] \in Nat \ {0} BY <1>a, LocalTypes
  <2>4. result'[c] = Append(result[c], "HandlerFailed")
    BY <1>10 DEF RecordFailedAttempt, Base, Control, TypeOK
  <2>5. todo'[c] = todo[c] /\ single'[c] = single[c] /\ pc'[c] \in {"done", "insert"}
    BY <1>10 DEF RecordFailedAttempt, NextItem, Base, Control, TypeOK
  <2>6. /\ DOMAIN result[c] = 1 .. pos[c] - 1 /\ DOMAIN result'[c] = 1 .. pos[c]
        /\ \A i \in 1 .. pos[c] - 1 : result'[c][i] = result[c][i]
        /\ result'[c][pos[c]] = "HandlerFailed"
    BY <2>2, <2>3, <2>4
  <2>7. \A i \in 1 .. pos[c] - 1 : ResultOK(c, i)'
    BY <2>1, <2>5, <2>6, ResultKept DEF Answers, Pending
  <2>8. ResultOK(c, n)' BY <1>f, <2>1, <2>5, <2>6 DEF ResultOK, Final
  <2>9. \A i \in DOMAIN result'[c] : i = pos[c] \/ i \in 1 .. pos[c] - 1 BY <2>3, <2>6
  <2>10. BatchOK(c)' BY <2>1, <2>5 DEF BatchOK
  <2>11. ASSUME NEW i \in DOMAIN result'[c] PROVE ResultOK(c, i)'
    <3>1. i = n \/ i \in 1 .. pos[c] - 1 BY <2>9, <1>f
    <3>. QED BY <3>1, <2>7, <2>8
  <2>. QED BY <2>10, <2>11 DEF Answers
<1>11. CASE Acknowledge(c) \/ Crash(c)
  <2>1. result'[c] = <<>> BY <1>11 DEF Acknowledge, Crash, Leave, Base, Control, TypeOK
  <2>. QED BY <2>1, NoAnswers
<1>12. CASE \E b \in Deliveries : Deliver(c, b)
  <2>1. result'[c] = <<>> BY <1>12 DEF Deliver, Base, Control, TypeOK
  <2>. QED BY <2>1, NoAnswers
<1>. QED BY <1>1, <1>2, <1>3, <1>4, <1>5, <1>6, <1>7, <1>8, <1>9, <1>10, <1>11, <1>12 DEF ConsumerStep

-----------------------------------------------------------------------------
(* Acknowledged messages, retention, and the theorems *)

LEMMA AckStep ==
  ASSUME Base, UNCHANGED mode, NEW c \in Consumers, OwnersAckSettled,
         Owned => Claims(c) /\ Answers(c),
         ConsumerStep(c) \/ Crash(c) \/ \E b \in Deliveries : Deliver(c, b)
  PROVE  OwnersAckSettled'
<1>. USE ModeKept
<1>1. SUFFICES ASSUME Owned, NEW k \in acked' PROVE Settled(k)' \/ Unsettled(k)'
  BY DEF OwnersAckSettled, Owned
<1>2. CASE k \in acked
  <2>1. k \in Keys BY <1>2 DEF Base, Control, TypeOK
  <2>. QED BY <1>1, <1>2, <2>1, SettledKept, ProcessingKept DEF OwnersAckSettled, Unsettled
<1>3. CASE k \notin acked
  <2>1. Acknowledge(c) BY <1>1, <1>3, TableFrame
  <2>2. PICK i \in DOMAIN result[c] : k = todo[c][i] /\ result[c][i] \in Final
    BY <1>1, <1>3, <2>1 DEF Acknowledge
  <2>3. pc[c] = "done" /\ UNCHANGED <<status, attempts, runs, withdrawn>> BY <2>1 DEF Acknowledge, table
  <2>4. Settled(k) \/ Unsettled(k)
    BY <1>1, <2>2, <2>3 DEF Answers, ResultOK, Pending, InTx
  <2>. QED BY <2>3, <2>4 DEF Settled, Unsettled
<1>. QED BY <1>2, <1>3

LEMMA ConsumerInv ==
  ASSUME IInv, UNCHANGED mode, NEW c \in Consumers,
         ConsumerStep(c) \/ Crash(c) \/ \E b \in Deliveries : Deliver(c, b)
  PROVE  IInv'
<1>1. Base BY DEF IInv, Base, Control
<1>2. Control' BY <1>1, ConsumerKeepsControl, CrashControl, DeliverControl DEF Base
<1>3. \A d \in Consumers \ {c} : Stays(d) BY <1>1, Elsewhere DEF Base
<1>4. \A d \in Consumers : TxShape(d)'
  <2>1. TxShape(c)' BY <1>1, TxShapeHere DEF Base
  <2>2. \A d \in Consumers \ {c} : TxShape(d)' BY <1>1, <1>3, TableFrame, TxShapeElsewhere DEF Base
  <2>. QED BY <2>1, <2>2
<1>5. Apart' BY <1>1, ApartStep DEF Base
<1>6. (Owned => \A d \in Consumers : Claims(d) /\ Answers(d)) BY DEF IInv
<1>7. Rows' BY <1>1, <1>6, RowsStep
<1>8. (Owned => \A d \in Consumers : Claims(d) /\ Answers(d))'
  <2>1. Owned' = Owned BY ModeKept DEF Owned
  <2>2. SUFFICES ASSUME Owned, NEW d \in Consumers PROVE Claims(d)' /\ Answers(d)' BY <2>1
  <2>3. CASE d = c BY <1>1, <1>6, <2>2, <2>3, ClaimsHere, AnswersHere
  <2>4. CASE d # c
    <3>1. Stays(d) BY <1>3, <2>4
    <3>2. Claims(d)' BY <1>1, <1>6, <2>2, <2>4, <3>1, TableFrame, ClaimsElsewhere
    <3>3. Answers(d)' BY <1>1, <1>6, <2>2, <2>4, <3>1, AnswersElsewhere
    <3>. QED BY <3>2, <3>3
  <2>. QED BY <2>3, <2>4
<1>9. OwnersAckSettled' BY <1>1, <1>6, AckStep DEF IInv
<1>10. FailuresWithinCeiling' BY <1>1, <1>6, CeilingStep DEF IInv
<1>. QED BY <1>2, <1>4, <1>5, <1>7, <1>8, <1>9, <1>10 DEF IInv, Control

\* Retention takes a completed row, which nobody has in hand and nobody answers for.
LEMMA CollectInv ==
  ASSUME IInv, UNCHANGED mode, NEW j \in Keys, GarbageCollect(j)
  PROVE  IInv'
<1>. USE ModeKept
<1>1. Base BY DEF IInv, Base, Control
<1>2. Control' BY <1>1, CollectControl DEF Base
<1>3. UNCHANGED <<runs, withdrawn, acked, pc, todo, pos, single, result, writes, ran, doomed>>
  BY DEF GarbageCollect, call, tx
<1>4. /\ status[j] = "completed" /\ Collecting /\ status'[j] = "absent" /\ attempts'[j] = 0
      /\ \A k \in Keys \ {j} : status'[k] = status[k] /\ attempts'[k] = attempts[k]
      /\ collected' = collected \cup {j}
      /\ \A d \in Consumers : j \notin writes[d]
  BY <1>1 DEF GarbageCollect, Base, Control, TypeOK
<1>5. \A d \in Consumers : TxShape(d)' BY <1>1, <1>3 DEF Base, TxShape, Clean, Key, ItemsOf
<1>6. Apart' BY <1>1, <1>3 DEF Base, Apart, ItemsOf
<1>7. Rows' BY <1>1, <1>3, <1>4 DEF Base, Rows, Owned
<1>8. \A k \in Keys : /\ Settled(k) => Settled(k)'
                      /\ status[k] = "processing" => status'[k] = "processing"
                      /\ Unsettled(k) => Unsettled(k)'
                      /\ status[k] # "completed" => status'[k] # "completed"
  BY <1>3, <1>4 DEF Settled, Unsettled
<1>9. ASSUME Owned, NEW d \in Consumers PROVE Claims(d)'
  <2>1. Claims(d) /\ InHand(d) \subseteq Keys BY <1>1, <1>9, InHandItems DEF IInv, Base
  <2>2. InHand(d)' = InHand(d) /\ Key(d)' = Key(d) BY <1>3 DEF InHand, Key
  <2>3. pc[d] \in {"select", "retry", "mark"} => Key(d) \in Keys BY <1>1, HasKey DEF Base
  <2>4. \A k \in InHand(d) : k # j => (Due(k) => Due(k)') BY <1>4, <2>1 DEF Due
  <2>5. j \in InHand(d) => ~(j \in writes[d] \/ Exclusive) BY <1>4, <2>1 DEF Claims, Due
  <2>6. pc[d] = "select" => status'[Key(d)] # "absent" \/ Key(d) \in collected'
    BY <1>4, <2>1, <2>3 DEF Claims
  <2>7. pc[d] \in {"retry", "mark"} => status'[Key(d)] = "failed" BY <1>4, <2>1, <2>3 DEF Claims
  <2>8. \A k \in InHand(d) : /\ k \in writes[d] \/ Exclusive => Due(k)'
                             /\ k \in collected' \/ runs[k] = 0
                             /\ \/ k \in collected' \/ k \in writes[d]
                                \/ pc[d] \in {"retry", "mark", "record"} /\ k = Key(d)
    BY <1>4, <2>1, <2>4, <2>5 DEF Claims
  <2>. QED BY <1>3, <2>2, <2>6, <2>7, <2>8 DEF Claims
<1>10. ASSUME Owned, NEW d \in Consumers PROVE Answers(d)'
  <2>1. Answers(d) BY <1>10 DEF IInv
  <2>2. \A i \in DOMAIN result[d] : todo[d][i] \in Keys BY <1>1, ResultItems DEF Base
  <2>3. Processed(d)' = Processed(d) BY <1>3 DEF Processed
  <2>4. ASSUME NEW i \in DOMAIN result[d] PROVE ResultOK(d, i)'
    <3>1. PICK k \in Keys : k = todo[d][i] BY <2>2
    <3>2. /\ Settled(k) => Settled(k)'
          /\ status[k] = "processing" => status'[k] = "processing"
          /\ Unsettled(k) => Unsettled(k)'
      BY <1>8
    <3>3. Pending(d, k) => Pending(d, k)' BY <1>3, <2>3 DEF Pending
    <3>4. /\ result[d][i] = "HandlerFailed" => single[d]
          /\ result[d][i] = "InProgress" => status[k] = "processing"
          /\ result[d][i] \in Final =>
               \/ Settled(k) \/ Unsettled(k) \/ Pending(d, k)
               \/ single[d] /\ pc[d] = "commit" /\ i = pos[d] /\ k \in ran[d]
      BY <2>1, <3>1 DEF Answers, ResultOK
    <3>5. todo'[d][i] = k BY <1>3, <3>1
    <3>6. /\ result'[d][i] = "HandlerFailed" => single'[d]
          /\ result'[d][i] = "InProgress" => status'[k] = "processing"
          /\ result'[d][i] \in Final =>
               \/ Settled(k)' \/ Unsettled(k)' \/ Pending(d, k)'
               \/ single'[d] /\ pc'[d] = "commit" /\ i = pos'[d] /\ k \in ran'[d]
      BY <1>3, <3>2, <3>3, <3>4
    <3>. QED BY <3>5, <3>6 DEF ResultOK, Settled, Unsettled, Pending, Final
  <2>5. \A i \in Processed(d) : status[todo[d][i]] # "completed" => status'[todo[d][i]] # "completed"
    BY <1>8, <2>2 DEF Processed
  <2>6. BatchOK(d)' BY <1>3, <2>1, <2>3, <2>5 DEF Answers, BatchOK
  <2>7. DOMAIN result'[d] = DOMAIN result[d] BY <1>3
  <2>. QED BY <2>4, <2>6, <2>7 DEF Answers
<1>11. OwnersAckSettled'
  <2>1. SUFFICES ASSUME Owned, NEW k \in acked PROVE Settled(k)' \/ Unsettled(k)'
    BY <1>3 DEF OwnersAckSettled, Owned
  <2>2. k \in Keys BY <1>1, <2>1 DEF Base, Control, TypeOK
  <2>. QED BY <1>8, <2>1, <2>2 DEF IInv, OwnersAckSettled
<1>12. FailuresWithinCeiling'
  <2>1. Ceiling \in Nat BY <1>1, ModeTypes DEF Base, Control
  <2>2. SUFFICES ASSUME Exclusive, NEW k \in Keys
                 PROVE  attempts'[k] <= IF Ceiling = 0 THEN 1 ELSE Ceiling
    BY DEF FailuresWithinCeiling
  <2>3. CASE k = j BY <1>4, <2>1, <2>3
  <2>4. CASE k # j
    <3>1. attempts[k] <= IF Ceiling = 0 THEN 1 ELSE Ceiling BY <2>2 DEF IInv, FailuresWithinCeiling
    <3>2. attempts'[k] = attempts[k] BY <1>4, <2>4
    <3>. QED BY <3>1, <3>2
  <2>. QED BY <2>3, <2>4
<1>13. (Owned => \A d \in Consumers : Claims(d) /\ Answers(d))' BY <1>9, <1>10 DEF Owned
<1>. QED BY <1>2, <1>5, <1>6, <1>7, <1>11, <1>12, <1>13 DEF IInv, Control

LEMMA IInvInit == Init => IInv
<1>. SUFFICES ASSUME Init PROVE IInv OBVIOUS
<1>1. Control BY ControlInit
<1>2. \A c \in Consumers : TxShape(c)
  <2>1. SUFFICES ASSUME NEW c \in Consumers PROVE TxShape(c) OBVIOUS
  <2>2. pc[c] = "idle" /\ writes[c] = {} /\ ran[c] = {} /\ doomed[c] = FALSE BY DEF Init
  <2>. QED BY <2>2 DEF TxShape, Clean, InTx
<1>3. Apart
  <2>1. ItemsOf(<<>>) = {} BY DEF ItemsOf
  <2>2. \A c \in Consumers : writes[c] = {} /\ todo[c] = <<>> BY DEF Init
  <2>. QED BY <2>1, <2>2 DEF Apart
<1>4. Rows BY DEF Init, Rows
<1>5. ASSUME NEW c \in Consumers PROVE Claims(c) /\ Answers(c)
  <2>1. pc[c] = "idle" /\ writes[c] = {} /\ ran[c] = {} /\ result[c] = <<>> BY DEF Init
  <2>2. InHand(c) = {} BY <2>1 DEF InHand, Working
  <2>3. Claims(c) BY <2>1, <2>2 DEF Claims
  <2>4. DOMAIN result[c] = {} BY <2>1
  <2>5. Processed(c) = {} BY <2>4 DEF Processed
  <2>. QED BY <2>3, <2>4, <2>5 DEF Answers, BatchOK
<1>6. OwnersAckSettled BY DEF Init, OwnersAckSettled
<1>7. Ceiling \in Nat BY <1>1, ModeTypes DEF Control
<1>8. FailuresWithinCeiling BY <1>7 DEF Init, FailuresWithinCeiling
<1>. QED BY <1>1, <1>2, <1>3, <1>4, <1>5, <1>6, <1>8 DEF IInv, Control

LEMMA IInvStutter == IInv /\ UNCHANGED vars => IInv'
<1>. SUFFICES ASSUME IInv, UNCHANGED vars PROVE IInv' OBVIOUS
<1>1. UNCHANGED <<mode, status, attempts, runs, collected, withdrawn, acked, pc, todo, pos,
                  single, result, writes, ran, doomed, crashes>>
  BY DEF vars, table, history, call, tx
<1>2. Control' BY ControlStep DEF IInv, Control
<1>. USE ModeKept, <1>1
<1>3. \A c \in Consumers : TxShape(c)' BY DEF IInv, TxShape, Clean, Key, ItemsOf
<1>4. Apart' BY DEF IInv, Apart, ItemsOf
<1>5. Rows' BY DEF IInv, Rows, Owned
<1>6. \A c \in Consumers : Claims(c) => Claims(c)' BY DEF Claims, InHand, Key, Due
<1>7. \A c \in Consumers : Answers(c) => Answers(c)'
  BY DEF Answers, ResultOK, BatchOK, Processed, Pending, Settled, Unsettled, Final
<1>8. OwnersAckSettled' BY DEF IInv, OwnersAckSettled, Owned, Settled, Unsettled
<1>9. FailuresWithinCeiling' BY DEF IInv, FailuresWithinCeiling
<1>10. (Owned => \A c \in Consumers : Claims(c) /\ Answers(c))' BY <1>6, <1>7 DEF IInv, Owned
<1>. QED BY <1>2, <1>3, <1>4, <1>5, <1>8, <1>9, <1>10 DEF IInv, Control

\* The strengthening is inductive.
THEOREM Inductive == Spec => []IInv
<1>1. IInv /\ [Next]_vars => IInv'
  BY IInvStutter, ConsumerInv, CollectInv DEF Next, Step
<1>. QED BY IInvInit, <1>1, PTL DEF Spec

\* Where the handler's transaction settles a message alone, or one consumer owns it,
\* its effects are committed at most once until retention deletes its row.
THEOREM RunsOnceAlways == Spec => []RunsOnce
<1>1. ASSUME IInv, Owned, NEW k \in Keys PROVE runs[k] <= 1 \/ k \in collected
  <2>1. k \in collected \/ runs[k] = 0 \/ runs[k] = 1 BY <1>1 DEF IInv, Rows
  <2>. QED BY <2>1
<1>2. IInv => RunsOnce BY <1>1 DEF RunsOnce
<1>. QED BY <1>2, Inductive, PTL

\* A completed row always stands for committed effects, with any number of consumers
\* that hold the same message.
THEOREM CompletedRows == Spec => []CompletedHasRun
<1>1. IInv => CompletedHasRun BY DEF IInv, Rows, CompletedHasRun
<1>. QED BY <1>1, Inductive, PTL

\* The offset of a message is committed only once its effects are, or nothing more
\* will come of it.
THEOREM AckedSettled == Spec => []OwnersAckSettled
<1>1. IInv => OwnersAckSettled BY DEF IInv
<1>. QED BY <1>1, Inductive, PTL

\* No consumer that owns its messages charges one beyond the ceiling.
THEOREM Ceilings == Spec => []FailuresWithinCeiling
<1>1. IInv => FailuresWithinCeiling BY DEF IInv
<1>. QED BY <1>1, Inductive, PTL

-----------------------------------------------------------------------------
(* The promise *)

PromisedRuns == [k \in Keys |-> IF k \in Promised THEN runs[k] ELSE 0]
PromisedGivenUp == GivenUp \cap Promised
PromisedAcked == acked \cap Promised

\* The steps of the promise, in the terms of the inbox.
PromiseRun(S) ==
  /\ \A k \in S : PromisedRuns[k] = 0
  /\ PromisedRuns' = [k \in Keys |-> IF k \in S THEN 1 ELSE PromisedRuns[k]]
  /\ UNCHANGED <<PromisedGivenUp, PromisedAcked>>

PromiseGiveUp(k) ==
  /\ PromisedRuns[k] = 0
  /\ PromisedGivenUp' = PromisedGivenUp \cup {k}
  /\ UNCHANGED <<PromisedRuns, PromisedAcked>>

PromiseAck(S) ==
  /\ \A k \in S : PromisedRuns[k] = 1 \/ k \in PromisedGivenUp
  /\ PromisedAcked' = PromisedAcked \cup S
  /\ UNCHANGED <<PromisedRuns, PromisedGivenUp>>

PromiseStep ==
  \/ \E S \in SUBSET Keys : PromiseRun(S) \/ PromiseAck(S)
  \/ \E k \in Keys : PromiseGiveUp(k)
  \/ UNCHANGED <<PromisedRuns, PromisedGivenUp, PromisedAcked>>

LEMMA PromiseSteps == PromiseStep => [Promise!Next]_(Promise!vars)
BY DEF PromiseStep, PromiseRun, PromiseGiveUp, PromiseAck, PromisedRuns, PromisedGivenUp, PromisedAcked,
       Promise!Next, Promise!Run, Promise!GiveUp, Promise!Ack, Promise!vars

LEMMA PromiseInit == Init => Promise!Init
<1>. SUFFICES ASSUME Init PROVE Promise!Init OBVIOUS
<1>1. \A k \in Keys : runs[k] = 0 BY DEF Init
<1>2. GivenUp \cap Promised = {}
  <2>1. \A k \in Keys \ Legacy : status[k] = "absent" BY DEF Init
  <2>2. withdrawn = {} BY DEF Init
  <2>. QED BY <2>1, <2>2 DEF GivenUp, Promised
<1>3. acked \cap Promised = {} BY DEF Init
<1>. QED BY <1>1, <1>2, <1>3 DEF Promise!Init

\* Nothing is promised of a message where retention runs, or several consumers
\* record the failures of one message.
LEMMA NothingPromised ==
  ASSUME UNCHANGED mode, ~(Owned /\ ~Collecting)
  PROVE  PromiseStep
<1>1. Promised = {} /\ Promised' = {} BY ModeKept DEF Promised, Owned
<1>. QED BY <1>1 DEF PromiseStep, PromisedRuns, PromisedGivenUp, PromisedAcked

\* What the invariant says of a promised message.
LEMMA PromisedKey ==
  ASSUME IInv, NEW k \in Promised
  PROVE  /\ k \in Keys /\ k \notin Legacy /\ Owned /\ ~Collecting
         /\ k \notin collected
         /\ status[k] # "processing"
         /\ runs[k] \in {0, 1}
         /\ PromisedRuns[k] = runs[k]
         /\ \A c \in Consumers : k \in InHand(c) => runs[k] = 0
<1>1. k \in Keys /\ k \notin Legacy /\ Owned /\ ~Collecting BY DEF Promised
<1>2. k \notin collected /\ status[k] # "processing" /\ runs[k] \in {0, 1} BY <1>1 DEF IInv, Rows
<1>3. \A c \in Consumers : k \in InHand(c) => runs[k] = 0 BY <1>1, <1>2 DEF IInv, Claims
<1>. QED BY <1>1, <1>2, <1>3 DEF PromisedRuns

LEMMA ConsumerPromise ==
  ASSUME IInv, IInv', UNCHANGED mode, Owned, ~Collecting, NEW c \in Consumers,
         ConsumerStep(c) \/ Crash(c) \/ \E b \in Deliveries : Deliver(c, b)
  PROVE  PromiseStep
<1>0. Base BY DEF IInv, Base, Control
<1>1. Promised' = Promised /\ Promised \subseteq Keys /\ Ceiling' = Ceiling BY ModeKept DEF Promised, Owned
<1>2. CASE Commit(c)
  <2>1. UNCHANGED <<attempts, withdrawn, acked>> BY <1>0, <1>2, StoredRan
  <2>2. \A k \in Keys : k \in Stored(c) => Due(k) /\ status'[k] = "completed"
    <3>1. \A k \in Keys : k \in Stored(c) => k \in writes[c] BY <1>0, <1>2, StoredRan
    <3>. QED BY <1>0, <1>2, <3>1, StoredRan DEF IInv, Claims, InHand
  <2>3. \A k \in Keys : k \notin Stored(c) => status'[k] = status[k] BY <1>0, <1>2, StoredRan
  <2>4. ASSUME NEW k \in Keys
        PROVE  (status'[k] = "failed" /\ attempts[k] >= Ceiling) <=> (status[k] = "failed" /\ attempts[k] >= Ceiling)
    <3>1. attempts[k] \in Nat /\ Ceiling \in Nat BY <1>0, ModeTypes DEF Base, Control, TypeOK
    <3>. QED BY <2>2, <2>3, <3>1 DEF Due
  <2>5. GivenUp' = GivenUp BY <1>1, <2>1, <2>4 DEF GivenUp
  <2>. DEFINE S == IF doomed[c] THEN {} ELSE ran[c] \cap Promised
  <2>6. \A k \in S : k \in Promised /\ k \in ran[c] /\ ~doomed[c] OBVIOUS
  <2>7. \A k \in Promised : k \notin S => k \notin ran[c] \/ doomed[c] OBVIOUS
  <2>. HIDE DEF S
  <2>8. \A k \in S : runs[k] = 0 /\ PromisedRuns[k] = 0
    BY <2>6, PromisedKey DEF InHand
  <2>9. \A k \in S : runs'[k] = 1
    <3>1. SUFFICES ASSUME NEW k \in S PROVE runs'[k] = 1 OBVIOUS
    <3>2. k \in Keys /\ runs[k] = 0 BY <1>1, <2>6, <2>8
    <3>3. runs'[k] > 0 /\ runs'[k] <= 1 /\ runs'[k] \in 0 .. 2 BY <1>0, <1>2, <2>6, <3>2, StoredRan
    <3>. QED BY <3>3
  <2>10. \A k \in Promised : k \notin S => runs'[k] = runs[k] BY <1>0, <1>1, <1>2, <2>7, StoredRan
  <2>11. PromisedRuns' = [k \in Keys |-> IF k \in S THEN 1 ELSE PromisedRuns[k]]
    BY <1>1, <2>6, <2>9, <2>10 DEF PromisedRuns
  <2>12. S \in SUBSET Keys BY <1>1, <2>6
  <2>13. PromiseRun(S) BY <1>1, <2>1, <2>5, <2>8, <2>11 DEF PromiseRun, PromisedGivenUp, PromisedAcked
  <2>. QED BY <2>12, <2>13 DEF PromiseStep
<1>3. CASE RecordFailedAttempt(c)
  <2>1. PICK k \in Keys : k = Key(c) BY <1>0, <1>3, Recorded
  <2>2. /\ UNCHANGED <<runs, withdrawn, acked>> /\ Retrying /\ pc[c] = "record"
        /\ status'[k] = "failed"
        /\ \A j \in Keys : j # k => status'[j] = status[j] /\ attempts'[j] = attempts[j]
    BY <1>0, <1>3, <2>1, Recorded
  <2>3. k \in InHand(c) /\ Exclusive BY <2>1, <2>2 DEF InHand, Working, Owned
  <2>4. Due(k) BY <2>3 DEF IInv, Claims
  <2>5. attempts[k] \in Nat /\ Ceiling \in Nat BY <1>0, ModeTypes DEF Base, Control, TypeOK
  <2>6. ~(status[k] = "failed" /\ attempts[k] >= Ceiling) BY <2>4, <2>5 DEF Due
  <2>7. PromisedRuns' = PromisedRuns /\ PromisedAcked' = PromisedAcked
    BY <1>1, <2>2 DEF PromisedRuns, PromisedAcked
  <2>8. CASE k \in Promised /\ attempts'[k] >= Ceiling
    <3>1. GivenUp' = GivenUp \cup {k} BY <1>1, <2>2, <2>8 DEF GivenUp
    <3>2. PromisedGivenUp' = PromisedGivenUp \cup {k} BY <1>1, <2>8, <3>1 DEF PromisedGivenUp
    <3>3. PromisedRuns[k] = 0 BY <2>3, <2>8, PromisedKey
    <3>. QED BY <2>7, <3>2, <3>3 DEF PromiseStep, PromiseGiveUp
  <2>9. CASE k \notin Promised \/ ~(attempts'[k] >= Ceiling)
    <3>1. \A j \in Promised : j \in GivenUp' <=> j \in GivenUp
      BY <1>1, <2>2, <2>6, <2>9 DEF GivenUp
    <3>2. PromisedGivenUp' = PromisedGivenUp BY <1>1, <3>1 DEF PromisedGivenUp
    <3>. QED BY <2>7, <3>2 DEF PromiseStep
  <2>. QED BY <2>8, <2>9
<1>4. CASE Quiet /\ withdrawn' = withdrawn /\ acked' = acked
  <2>1. GivenUp' = GivenUp BY <1>1, <1>4 DEF GivenUp, Quiet
  <2>. QED BY <1>1, <1>4, <2>1 DEF PromiseStep, PromisedRuns, PromisedGivenUp, PromisedAcked, Quiet
<1>5. CASE HandlerCondemns(c)
  <2>1. /\ pc[c] \in {"handle", "retry"} /\ UNCHANGED <<status, attempts, runs, acked>>
        /\ withdrawn' = IF single[c] THEN withdrawn \cup {Key(c)} ELSE withdrawn
    BY <1>5 DEF HandlerCondemns, table
  <2>2. Key(c) \in Keys /\ Key(c) \in InHand(c) BY <2>1, <1>0, HasKey DEF Base, InHand, Working
  <2>3. PICK k \in Keys : k = Key(c) BY <2>2
  <2>4. PromisedRuns' = PromisedRuns /\ PromisedAcked' = PromisedAcked
    BY <1>1, <2>1 DEF PromisedRuns, PromisedAcked
  <2>5. CASE single[c] /\ k \in Promised
    <3>1. GivenUp' = GivenUp \cup {k} BY <1>1, <2>1, <2>3, <2>5 DEF GivenUp
    <3>2. PromisedGivenUp' = PromisedGivenUp \cup {k} BY <1>1, <2>5, <3>1 DEF PromisedGivenUp
    <3>3. PromisedRuns[k] = 0 BY <2>2, <2>3, <2>5, PromisedKey
    <3>. QED BY <2>4, <3>2, <3>3 DEF PromiseStep, PromiseGiveUp
  <2>6. CASE ~(single[c] /\ k \in Promised)
    <3>1. \A j \in Promised : j \in GivenUp' <=> j \in GivenUp
      BY <1>1, <2>1, <2>3, <2>6 DEF GivenUp
    <3>2. PromisedGivenUp' = PromisedGivenUp BY <1>1, <3>1 DEF PromisedGivenUp
    <3>. QED BY <2>4, <3>2 DEF PromiseStep
  <2>. QED BY <2>5, <2>6
<1>6. CASE Acknowledge(c)
  <2>1. UNCHANGED <<status, attempts, runs, withdrawn>> /\ acked \subseteq acked'
    BY <1>6 DEF Acknowledge, table
  <2>2. GivenUp' = GivenUp BY <1>1, <2>1 DEF GivenUp
  <2>3. PICK S \in SUBSET Keys : S = acked' \cap Promised BY <1>1
  <2>4. ASSUME NEW k \in S PROVE PromisedRuns[k] = 1 \/ k \in PromisedGivenUp
    <3>1. k \in acked' /\ k \in Promised BY <2>3
    <3>2. Owned' BY ModeKept DEF Owned
    <3>3. Settled(k)' \/ Unsettled(k)' BY <3>1, <3>2 DEF IInv, OwnersAckSettled
    <3>4. status[k] # "processing" /\ runs[k] \in {0, 1} /\ PromisedRuns[k] = runs[k] /\ k \in Keys
      BY <3>1, PromisedKey
    <3>5. runs[k] > 0 \/ k \in withdrawn \/ (status[k] = "failed" /\ attempts[k] >= Ceiling)
      BY <1>1, <2>1, <3>3, <3>4 DEF Settled, Unsettled
    <3>. QED BY <3>1, <3>4, <3>5 DEF PromisedGivenUp, GivenUp
  <2>5. PromisedAcked' = PromisedAcked \cup S BY <1>1, <2>1, <2>3 DEF PromisedAcked
  <2>6. UNCHANGED <<PromisedRuns, PromisedGivenUp>> BY <1>1, <2>1, <2>2 DEF PromisedRuns, PromisedGivenUp
  <2>7. PromiseAck(S) BY <2>4, <2>5, <2>6 DEF PromiseAck
  <2>. QED BY <2>7 DEF PromiseStep
<1>. QED BY <1>2, <1>3, <1>4, <1>5, <1>6, TableFrame

LEMMA PromiseNext == IInv /\ IInv' /\ [Next]_vars => PromiseStep
<1>. SUFFICES ASSUME IInv, IInv', [Next]_vars PROVE PromiseStep OBVIOUS
<1>1. CASE UNCHANGED vars
  <2>1. UNCHANGED <<mode, status, attempts, runs, withdrawn, acked>> BY <1>1 DEF vars, table, history
  <2>2. Promised' = Promised /\ GivenUp' = GivenUp
    BY <2>1 DEF Promised, GivenUp, Owned, Retrying, Exclusive, Collecting, Legacy, Ceiling
  <2>. QED BY <2>1, <2>2 DEF PromiseStep, PromisedRuns, PromisedGivenUp, PromisedAcked
<1>2. CASE Next
  <2>1. UNCHANGED mode BY <1>2 DEF Next
  <2>2. CASE ~(Owned /\ ~Collecting) BY <2>1, <2>2, NothingPromised
  <2>3. CASE Owned /\ ~Collecting
    <3>1. \A k \in Keys : ~GarbageCollect(k) BY <2>3 DEF GarbageCollect
    <3>. QED BY <1>2, <2>1, <2>3, <3>1, ConsumerPromise DEF Next, Step
  <2>. QED BY <2>2, <2>3
<1>. QED BY <1>1, <1>2

\* The inbox implements its promise: each transaction that commits effects, each
\* message given up and each offset committed is a step of InboxPromise, and every
\* other step leaves what was promised as it is.
THEOREM PromiseKept == Spec => KeepsPromise
<1>1. IInv /\ IInv' /\ [Next]_vars => [Promise!Next]_(Promise!vars) BY PromiseNext, PromiseSteps
<1>. QED BY PromiseInit, Inductive, <1>1, PTL DEF Spec, KeepsPromise, Promise!Spec

=============================================================================
