--------------------------- MODULE MCNegotiation ---------------------------
(***************************************************************************)
(* Negotiation for TLC: the symmetry of the clients.                       *)
(***************************************************************************)
EXTENDS Negotiation, TLC

\* The clients are interchangeable: no definition tells them apart.
Symmetry == Permutations(Peers)
=============================================================================
