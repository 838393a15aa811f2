------------------------------- MODULE MCInbox -------------------------------
(***************************************************************************)
(* Small instances of Inbox. SYMMETRY of the consumers is sound: no        *)
(* definition tells them apart.                                            *)
(***************************************************************************)
EXTENDS Inbox, TLC

CONSTANTS a, b

\* One message at a time.
Singles == {<<a>>, <<b>>}

\* Batches in the opposite order of each other.
Crossed == {<<a, b>>, <<b, a>>}

\* Single messages and batches.
Pairs == {<<a>>, <<b>>, <<a, b>>, <<b, a>>}

\* Among them a batch that repeats a message.
Mixed == Pairs \cup {<<a, a, b>>}

Recording(deliveries, ceiling, exclusive, bound) ==
  [deliveries |-> deliveries, retrying |-> TRUE, ceiling |-> ceiling,
   legacy |-> {}, exclusive |-> exclusive, collecting |-> FALSE,
   crashes |-> bound]

\* runInboxTransaction beside the retention job and an older release's row.
Plain == [deliveries |-> Singles, retrying |-> FALSE, ceiling |-> 2,
          legacy |-> {b}, exclusive |-> FALSE, collecting |-> TRUE, crashes |-> 1]

\* The same where retention is never due, and two consumers may race.
Racing == [Plain EXCEPT !.collecting = FALSE]

\* Batches of one partition each.
Partitioned == Recording(Mixed, 2, TRUE, 1)

\* Batches whose transactions can wait for each other.
Overlapping == Recording(Crossed, 1, FALSE, 0)

Sound == {Plain, Racing, Partitioned, Overlapping}
SharedSingles == {Recording(Singles, 2, FALSE, 0)}
SharedPairs == {Recording(Pairs, 2, FALSE, 0)}

ConsumerSymmetry == Permutations(Consumers)
=============================================================================
