--------------------------- MODULE MCCtZrtpStream ---------------------------
(***************************************************************************)
(* The calls of the run.  In discriminator mode, which has few states: with  *)
(* and without SDES, tunnel and zrtp-hash, and with a zrtp-hash that is not  *)
(* of the Hello sent; the two ends need not advertise the same.  Otherwise:  *)
(* the tunnel without zrtp-hash, zrtp-hash and SDES without tunnel, and      *)
(* zrtp-hash without SDES at one end or at both.                             *)
(***************************************************************************)
EXTENDS CtZrtpStream

Tunneled == [sdes : {TRUE}, encap : {TRUE}, hashes : {{}, {"good"}, {"other"}}]
Untunneled == [sdes : BOOLEAN, encap : {FALSE}, hashes : {{}, {"good"}}]

Tunnel == [sdes |-> TRUE, encap |-> TRUE, hashes |-> {}]
Sdes == [sdes |-> TRUE, encap |-> FALSE, hashes |-> {"good"}]
Bare == [sdes |-> FALSE, encap |-> FALSE, hashes |-> {"good"}]

PlainCalls ==
    {[e \in Ends |-> a] : a \in {Tunnel, Sdes, Bare}}
    \cup {[inviter |-> Bare, answerer |-> Sdes]}

MCCalls ==
    [sdp : [Ends -> Tunneled \cup Untunneled], discriminatorMode : {TRUE}]
    \cup [sdp : PlainCalls, discriminatorMode : {FALSE}]
=============================================================================
