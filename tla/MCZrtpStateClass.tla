------------------------- MODULE MCZrtpStateClass -------------------------
(***************************************************************************)
(* The instance of ZrtpStateClass for TLC.                                 *)
(***************************************************************************)
EXTENDS ZrtpStateClass

\* Our engine supports two versions; a peer may send one that lies below,
\* between, above or on them.
MCVersions     == {2, 4}
MCPeerVersions == 1..5
=============================================================================
