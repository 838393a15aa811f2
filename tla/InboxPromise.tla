---------------------------- MODULE InboxPromise ----------------------------
(***************************************************************************)
(* What the inbox promises a consumer (the header of runInboxTransaction   *)
(* in keiro/src/Keiro/Inbox.hs): the effects of a message's handler are    *)
(* committed at most once, and a message is acknowledged to the broker     *)
(* only when they are, or when it was given up: its handler asked for the  *)
(* rollback, or failed so often that the row is the dead letter.           *)
(***************************************************************************)
EXTENDS Integers

CONSTANT Keys

VARIABLES
  runs,     \* how often the effects of the message's handler were committed
  givenUp,  \* messages nobody will run again
  acked     \* messages acknowledged to the broker

vars == <<runs, givenUp, acked>>

Init ==
  /\ runs = [k \in Keys |-> 0]
  /\ givenUp = {}
  /\ acked = {}

\* One transaction commits the effects of the messages in S.
Run(S) ==
  /\ \A k \in S : runs[k] = 0
  /\ runs' = [k \in Keys |-> IF k \in S THEN 1 ELSE runs[k]]
  /\ UNCHANGED <<givenUp, acked>>

GiveUp(k) ==
  /\ runs[k] = 0
  /\ givenUp' = givenUp \cup {k}
  /\ UNCHANGED <<runs, acked>>

Ack(S) ==
  /\ \A k \in S : runs[k] = 1 \/ k \in givenUp
  /\ acked' = acked \cup S
  /\ UNCHANGED <<runs, givenUp>>

Next ==
  \/ \E S \in SUBSET Keys : Run(S) \/ Ack(S)
  \/ \E k \in Keys : GiveUp(k)

Spec == Init /\ [][Next]_vars
=============================================================================
