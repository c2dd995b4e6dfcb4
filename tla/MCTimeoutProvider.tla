------------------------- MODULE MCTimeoutProvider -------------------------
(***************************************************************************)
(* What the documentation of requestTimeout says and the code does not keep. *)
(***************************************************************************)
EXTENDS TimeoutProvider, FiniteSets

\* requestTimeout: "Request a timeout trigger."  What was requested, and neither
\* delivered nor cancelled, is on the list.
RequestKept == \A s \in Subscribers : Cardinality(Of(s)) = owed[s]
=============================================================================
