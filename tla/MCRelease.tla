------------------------------ MODULE MCRelease ------------------------------
(***************************************************************************)
(* Small instances of ReleaseGate and Publication: one guard, one package  *)
(* with its source and its documentation archive.  The two are checked     *)
(* side by side: `part' says which of them a behaviour is of, the other's  *)
(* files stay as they are.  SYMMETRY of the terminals is sound: no         *)
(* definition tells them apart.                                            *)
(***************************************************************************)
EXTENDS ReleaseGate, Publication, TLC

CONSTANTS src, docs

VARIABLE part

OneGuard == <<"inbox">>
InOrder == <<src, docs>>

GateAlone == part = "gate" /\ UNCHANGED <<pubVars, part>>
PubAlone == part = "publication" /\ UNCHANGED <<gateVars, part>>

\* When a publication has ended, only another attempt at it is followed: nothing
\* else depends on it.
Over == uploads # "absent" /\ pub.phase = "idle"

Init ==
  /\ part \in {"gate", "publication"}
  /\ GateInit
  /\ PubInit

Next ==
  \/ GateAlone /\ GateNext
  \/ PubAlone /\ ~Over /\ PubNext
  \/ PubAlone /\ Over /\ (Publish \/ UNCHANGED <<workspace, pubVars>>)

Spec == Init /\ [][Next]_<<workspace, gateVars, pubVars, part>>

\* The types of both.
ReleaseTypeOK == GateTypeOK /\ PubTypeOK

TerminalSymmetry == Permutations(Terminals)
=============================================================================
