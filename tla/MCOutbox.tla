------------------------------ MODULE MCOutbox ------------------------------
(***************************************************************************)
(* Small instances of Outbox. SYMMETRY of the workers is sound: no         *)
(* definition tells them apart.                                            *)
(***************************************************************************)
EXTENDS Outbox, TLC

CONSTANTS k1, s1

OneSource2 == <<s1, s1>>
OneSource == <<s1, s1, s1>>

\* Two rows of one key; a row without a key between two rows of one key.
KeysAa == <<k1, k1>>
KeysAna == <<k1, NoKey, k1>>

WorkerSymmetry == Permutations(Workers)
=============================================================================
