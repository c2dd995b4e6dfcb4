---------------------------- MODULE KeyAgreement ----------------------------
(***************************************************************************)
(* What the ZRTP exchange promises, without saying how: one peer ends up as *)
(* Initiator, the other as Responder, both with the same key, and nobody    *)
(* goes secure before the other has shown that it holds this key.           *)
(*                                                                         *)
(*   open       no key yet                                                 *)
(*   keyed      has a key, and does not know whether the other has it       *)
(*   confirmed  Initiator: the Responder has shown that it holds the key    *)
(*   secure     sends and receives SRTP                                    *)
(***************************************************************************)
CONSTANTS Peers, Keys, NoKey

VARIABLES stage, key, role

vars == <<stage, key, role>>

Roles == {"Initiator", "Responder"}

Init ==
    /\ stage = [p \in Peers |-> "open"]
    /\ key = [p \in Peers |-> NoKey]
    /\ role = [p \in Peers |-> "NoRole"]

\* p computes a key; if the other has one already it is the same, computed in
\* the other role.
Derive(p, k, r) ==
    /\ stage[p] = "open"
    /\ \A q \in Peers \ {p} : stage[q] # "open" => key[q] = k /\ role[q] # r
    /\ stage' = [stage EXCEPT ![p] = "keyed"]
    /\ key' = [key EXCEPT ![p] = k]
    /\ role' = [role EXCEPT ![p] = r]

\* The Initiator p sees that the Responder q holds the key.
Confirm(p, q) ==
    /\ stage[p] \in {"open", "keyed"} /\ stage[q] = "keyed" /\ role[q] = "Responder"
    /\ stage[p] = "keyed" => key[p] = key[q] /\ role[p] = "Initiator"
    /\ stage' = [stage EXCEPT ![p] = "confirmed"]
    /\ key' = [key EXCEPT ![p] = key[q]]
    /\ role' = [role EXCEPT ![p] = "Initiator"]

\* The Responder p sees that the Initiator q has confirmed.
Accept(p, q) ==
    /\ stage[p] = "keyed" /\ role[p] = "Responder"
    /\ stage[q] = "confirmed" /\ key[q] = key[p]
    /\ stage' = [stage EXCEPT ![p] = "secure"] /\ UNCHANGED <<key, role>>

\* The Initiator p sees that the Responder q is secure.
Complete(p, q) ==
    /\ stage[p] = "confirmed" /\ stage[q] = "secure"
    /\ stage' = [stage EXCEPT ![p] = "secure"] /\ UNCHANGED <<key, role>>

Next ==
    \/ \E p \in Peers, k \in Keys, r \in Roles : Derive(p, k, r)
    \/ \E p \in Peers : \E q \in Peers \ {p} : Confirm(p, q) \/ Accept(p, q) \/ Complete(p, q)

Spec == Init /\ [][Next]_vars

\* The exchange does not stop half way.
FairSpec == Spec /\ WF_vars(Next)
=============================================================================
