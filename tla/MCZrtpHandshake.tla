-------------------------- MODULE MCZrtpHandshake --------------------------
(***************************************************************************)
(* ZrtpHandshake for TLC: the symmetry of the peers.                       *)
(***************************************************************************)
EXTENDS ZrtpHandshake, TLC

\* The peers are interchangeable: no definition tells them apart.
Symmetry == Permutations(Peers)
=============================================================================
