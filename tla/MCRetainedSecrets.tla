------------------------- MODULE MCRetainedSecrets -------------------------
(***************************************************************************)
(* RetainedSecrets for TLC: the symmetry of the peers, and what the message *)
(* for the user promises.                                                  *)
(***************************************************************************)
EXTENDS RetainedSecrets, TLC

\* The peers are interchangeable: no definition tells them apart.
Symmetry == Permutations(Peers)

\* InfoRSMatchFound ("At least one retained secrets matches - security OK") is
\* reported for a secret that an earlier session of the two has left.
MatchIsShared == \A p \in Peers : eng[p].phase # "None" => eng[p].setD # 0
=============================================================================
