------------------------- MODULE ZrtpHandshakeProofs -------------------------
(***************************************************************************)
(* Proofs about ZrtpHandshake, in both modes, for any number of values,      *)
(* objects, starts and losses.                                               *)
(*                                                                         *)
(* Of Spec: two secure engines have the same keys, also when engines give    *)
(* up and start again, and clients replace them, at any moment, while the    *)
(* network still holds all packets of earlier sessions.                      *)
(*                                                                         *)
(* Of FairSpec, in which nobody gives up: no check raises a false alarm, the *)
(* receiver of a media packet can open it, and the exchange takes no step    *)
(* that KeyAgreement does not allow.                                         *)
(***************************************************************************)
EXTENDS ZrtpHandshake, FiniteSetTheorems, TLAPS

-----------------------------------------------------------------------------
(* What an engine and a packet are like.                                     *)

Fields == {"state", "sentPacket", "timer", "chain", "peerChain", "hvi", "heard", "myRole",
           "key", "rx", "tx", "finishing", "nonces", "starts"}

\* The engine has drawn a value for this session and not yet computed its key; it
\* has computed the key.
Open  == {"AckSent", "WaitCommit", "CommitSent", "WaitDHPart2"}
Keyed == {"WaitConfirm1", "WaitConfirm2", "WaitConfAck", "SecureState"}

Confirms == {"Confirm1", "Confirm2"}
DHParts  == {"DHPart1", "DHPart2"}

\* The values a key is computed from.
Values(k) == IF multiStream THEN {k[3]} ELSE {k[3], k[6]}

\* A packet that p may send: what it says of p's session is true.
OwnPacket(p, m) ==
    /\ m.type = "Commit" => m.hvi = eng[p].hvi /\ m.hvi # 0 /\ m.to = Other(p)
    /\ m.type \in DHParts => m.pv = eng[p].hvi /\ m.pv # 0 /\ ~multiStream
    /\ m.type \in Confirms => m.key = eng[p].key /\ m.key # NoKey /\ m.to = Other(p)

\* A packet on its way: the session may be over.
SentPacket(m) ==
    /\ m.type = "Commit" => m.hvi \in used
    /\ m.type \in DHParts => m.pv \in used /\ ~multiStream

\* The engine knows that its peer has computed the same key.
Confirmed(p) == eng[p].state \in {"WaitConfAck", "SecureState"} \/ eng[p].finishing # {}

\* The keys that p has computed, as far as they still matter: its own, those that it
\* has confirmed on the network, and the one that its peer knows it has.
Computed(p) ==
    ({eng[p].key} \cup {m.key : m \in {n \in net : n.type \in Confirms /\ n.to = Other(p)}}
     \cup (IF Confirmed(Other(p)) THEN {eng[Other(p)].key} ELSE {})) \ {NoKey}

\* What the fields of an engine have to do with its state.
EngineOK(p) ==
    /\ DOMAIN eng[p] = Fields
    /\ eng[p].hvi \in used \cup {0}
    /\ eng[p].state \in Open \cup Keyed => eng[p].hvi # 0
    /\ eng[p].state \in {"AckSent", "WaitCommit", "CommitSent", "WaitConfirm1", "WaitConfAck"} =>
         eng[p].myRole = "Initiator"
    /\ eng[p].state \in {"WaitDHPart2", "WaitConfirm2"} => eng[p].myRole = "Responder"
    /\ eng[p].state = "SecureState" => eng[p].myRole \in {"Initiator", "Responder"}
    /\ eng[p].state = "WaitDHPart2" => eng[p].heard.hvi \in used
    /\ eng[p].state \in {"WaitDHPart2", "WaitConfirm1"} => ~multiStream
    /\ eng[p].state \in Keyed => eng[p].key # NoKey
    /\ eng[p].finishing # {} => \/ eng[p].state = "WaitConfirm2" /\ "ForSender" \in eng[p].finishing
                                \/ eng[p].state = "WaitConfAck" /\ "ForSender" \notin eng[p].finishing
    /\ eng[p].state = "WaitConfAck" /\ eng[p].finishing = {} => eng[p].rx = eng[p].key
    /\ eng[p].state = "SecureState" => eng[p].rx = eng[p].key /\ eng[p].tx = eng[p].key
    /\ eng[p].chain \in Nat
    /\ OwnPacket(p, eng[p].sentPacket)
    /\ eng[p].state \in {"Detect", "AckSent", "AckDetected"} =>
         eng[p].sentPacket.type \in {"Hello", "None"}

Engines ==
    /\ DOMAIN eng = Peers /\ used \subseteq Nat \ {0} /\ multiStream \in BOOLEAN
    /\ \A p \in Peers : EngineOK(p)
    /\ \A m \in net : SentPacket(m)
    /\ \A p \in Peers : \A k \in Computed(p) : Values(k) \subseteq used
    /\ \A p \in Peers : eng[p].hvi # 0 => eng[p].hvi # eng[Other(p)].hvi

-----------------------------------------------------------------------------
(* Sessions do not mix.                                                      *)

\* A key that p computed with its present value is its present key: there is one
\* key for each value.
OneKey(p) ==
    \A k \in Computed(p) :
        eng[p].hvi \in Values(k) => k = eng[p].key /\ eng[p].state \notin Open

\* DH mode: a key holds the value of each side.
OwnValue(p) ==
    eng[p].state \in Keyed =>
        eng[p].hvi = IF eng[p].myRole = "Initiator" THEN eng[p].key[3] ELSE eng[p].key[6]

\* DH mode: if p computed a key k with the present value of q and an earlier one of
\* its own, then q drew its value before p drew its own, so that q cannot have
\* computed a key with the present value of p and an earlier one of its own.
InOneOrder(p) ==
    LET q == Other(p)
    IN  \A k \in Computed(p), l \in Computed(q) :
            ~ /\ eng[q].hvi \in Values(k) /\ eng[p].hvi \notin Values(k)
              /\ eng[p].hvi \in Values(l) /\ eng[q].hvi \notin Values(l)

DHSessions == \A p \in Peers : OneKey(p) /\ OwnValue(p) /\ InOneOrder(p)

\* Multi-stream mode: a key holds the Initiator's value only; own says who drew a
\* value.
Owned(own) ==
    /\ \A p \in Peers : eng[p].hvi # 0 => own[eng[p].hvi] = p
    /\ \A m \in net : m.type = "Commit" => own[m.hvi] = Other(m.to)
    /\ \A p \in Peers : eng[p].state \in Keyed =>
         IF eng[p].myRole = "Initiator" THEN eng[p].key[3] = eng[p].hvi
         ELSE own[eng[p].key[3]] = Other(p)

\* The key of p is that of its present session, in which it is Responder.
Responds(p) == eng[p].state \in Keyed /\ eng[p].myRole = "Responder"

\* An object answers a nonce once.
NonceSeen(own) ==
    \A r \in Peers : \A k \in Computed(r) :
        LET q == Other(own[k[3]])
        IN  k[1] \in Nat /\ k[1] <= eng[q].chain /\ (k[1] = eng[q].chain => k[3] \in eng[q].nonces)

\* p has answered the present Commit of q earlier, and then another one: that one is
\* a Commit that q has not completed.
AnsweredLater(p) ==
    LET q == Other(p)
    IN  Responds(p) /\ eng[p].key[3] # eng[q].hvi
        /\ (\E k \in Computed(p) : k[3] = eng[q].hvi)
        => eng[p].key \notin Computed(q)

\* If p answered the present Commit of q in an earlier session, then q has not
\* answered the present Commit of p in an earlier session.
NotBothEarlier(p) ==
    LET q == Other(p)
        Earlier(r, k) == ~(k = eng[r].key /\ eng[r].state \notin Open)
    IN  \A k \in Computed(p), l \in Computed(q) :
            ~(k[3] = eng[q].hvi /\ Earlier(p, k) /\ l[3] = eng[p].hvi /\ Earlier(q, l))

\* Two Responders do not complete each other's sessions.
NotBothRespond(p) ==
    Responds(p) /\ Responds(Other(p)) /\ eng[p].key \in Computed(Other(p)) =>
        eng[Other(p)].key \notin Computed(p)

MultiSessions ==
    /\ \E own \in [Nat -> Peers] : Owned(own) /\ NonceSeen(own)
    /\ \A p \in Peers : OneKey(p) /\ AnsweredLater(p) /\ NotBothEarlier(p) /\ NotBothRespond(p)

Inv == Engines /\ (IF multiStream THEN MultiSessions ELSE DHSessions)

-----------------------------------------------------------------------------
(* Two peers; what a step changes.                                           *)

LEMMA OtherPeer == \A p \in Peers : Other(p) \in Peers /\ Other(p) # p /\ Other(Other(p)) = p
  <1> SUFFICES ASSUME NEW p \in Peers
               PROVE  Other(p) \in Peers /\ Other(p) # p /\ Other(Other(p)) = p
    OBVIOUS
  <1>1. IsFiniteSet(Peers \ {p}) /\ Cardinality(Peers \ {p}) = 1
    BY HandshakeConstants, FS_RemoveElement
  <1>2. PICK q : Peers \ {p} = {q}
    BY <1>1, FS_Singleton
  <1>3. Other(p) = q /\ Other(q) = p
    BY <1>2 DEF Other
  <1> QED
    BY <1>2, <1>3

LEMMA OnlyTwo == \A p, q \in Peers : q # p => q = Other(p)
  <1> SUFFICES ASSUME NEW p \in Peers, NEW q \in Peers, q # p PROVE q = Other(p)
    OBVIOUS
  <1>1. IsFiniteSet(Peers \ {p}) /\ Cardinality(Peers \ {p}) = 1
    BY HandshakeConstants, FS_RemoveElement
  <1>2. PICK r : Peers \ {p} = {r}
    BY <1>1, FS_Singleton
  <1> QED
    BY <1>2, OtherPeer

LEMMA StepFields ==
    ASSUME NEW p \in Peers, DOMAIN eng = Peers, DOMAIN eng[p] = Fields,
           NEW upd, DOMAIN upd \subseteq Fields, NEW out, Step(p, upd, out)
    PROVE  /\ DOMAIN eng' = Peers /\ DOMAIN eng'[p] = Fields
           /\ \A f \in Fields : eng'[p][f] = IF f \in DOMAIN upd THEN upd[f] ELSE eng[p][f]
           /\ \A q \in Peers : q # p => eng'[q] = eng[q]
  BY DEF Step, Override

\* The keys that the peers have computed after a step of p: p may have a new one.
LEMMA ComputedStep ==
    ASSUME NEW p \in Peers, eng'[Other(p)] = eng[Other(p)],
           \A m \in net' : m \in net \/ OwnPacket(p, m)',
           Confirmed(p)' => eng'[p].key \in Computed(Other(p))
    PROVE  /\ Computed(Other(p))' \subseteq Computed(Other(p))
           /\ Computed(p)' \subseteq Computed(p) \cup ({eng'[p].key} \ {NoKey})
  <1> DEFINE q == Other(p)
  <1>0. q \in Peers /\ q # p /\ Other(q) = p
    BY OtherPeer
  <1>1. \A m \in net' : m.type \in Confirms => m \in net \/ (m.to = q /\ m.key = eng'[p].key)
    BY DEF OwnPacket
  <1>2. Confirmed(q)' = Confirmed(q)
    BY DEF Confirmed
  <1> HIDE DEF q
  <1>3. Computed(q)' \subseteq Computed(q)
    BY <1>0, <1>1 DEF Computed, q
  <1>4. Computed(p)' \subseteq Computed(p) \cup ({eng'[p].key} \ {NoKey})
    BY <1>0, <1>1, <1>2 DEF Computed, q
  <1> QED
    BY <1>3, <1>4 DEF q

\* What every step of the engine of p leaves in order.
StepOf(p) ==
    /\ Engines' /\ multiStream' = multiStream
    /\ \A q \in Peers : q # p => eng'[q] = eng[q]
    /\ \A m \in net' : m \in net \/ OwnPacket(p, m)'
    /\ Computed(Other(p))' \subseteq Computed(Other(p))
    /\ Computed(p)' \subseteq Computed(p) \cup ({eng'[p].key} \ {NoKey})

LEMMA EnginesStep ==
    ASSUME Engines, NEW p \in Peers, NEW upd, DOMAIN upd \subseteq Fields, NEW out,
           Step(p, upd, out), used \subseteq used', used' \subseteq Nat \ {0},
           EngineOK(p)', \A m \in out : OwnPacket(p, m)',
           Confirmed(p)' => eng'[p].key \in Computed(Other(p)),
           eng'[p].key # NoKey => Values(eng'[p].key) \subseteq used',
           eng'[p].hvi # 0 => eng'[p].hvi # eng[Other(p)].hvi
    PROVE  StepOf(p)
  <1> DEFINE q == Other(p)
  <1>0. q \in Peers /\ q # p /\ Other(q) = p /\ \A r \in Peers : r = p \/ r = q
    BY OtherPeer, OnlyTwo
  <1>1. /\ DOMAIN eng' = Peers /\ multiStream' = multiStream
        /\ \A r \in Peers : r # p => eng'[r] = eng[r]
    BY StepFields DEF Engines, EngineOK, Step
  <1>2. \A m \in net' : m \in net \/ OwnPacket(p, m)'
    BY DEF Step
  <1>3. /\ Computed(q)' \subseteq Computed(q)
        /\ Computed(p)' \subseteq Computed(p) \cup ({eng'[p].key} \ {NoKey})
    BY <1>0, <1>1, <1>2, ComputedStep
  <1> HIDE DEF q
  <1>4. EngineOK(q)'
    <2>1. EngineOK(q) /\ eng'[q] = eng[q]
      BY <1>0, <1>1 DEF Engines
    <2>2. OwnPacket(q, eng[q].sentPacket)'
      BY <1>1, <2>1 DEF EngineOK, OwnPacket
    <2>3. eng'[q].hvi \in used' \cup {0}
      BY <2>1 DEF EngineOK
    <2>4. eng'[q].state = "WaitDHPart2" => eng'[q].heard.hvi \in used'
      BY <2>1 DEF EngineOK
    <2> QED
      BY <1>1, <2>1, <2>2, <2>3, <2>4 DEF EngineOK
  <1>5. \A m \in net' : SentPacket(m)'
    <2> SUFFICES ASSUME NEW m \in net' PROVE SentPacket(m)'
      OBVIOUS
    <2>1. CASE m \in net
      BY <1>1, <2>1 DEF Engines, SentPacket
    <2>2. CASE OwnPacket(p, m)'
      BY <2>2 DEF EngineOK, OwnPacket, SentPacket
    <2> QED
      BY <1>2, <2>1, <2>2
  <1>6. \A k : Values(k)' = Values(k)
    BY <1>1 DEF Values
  <1>7. \A r \in Peers : \A k \in Computed(r)' : Values(k)' \subseteq used'
    BY <1>0, <1>3, <1>6 DEF Engines
  <1>8. \A r \in Peers : eng'[r].hvi # 0 => eng'[r].hvi # eng'[Other(r)].hvi
    BY <1>0, <1>1 DEF q
  <1>9. multiStream' \in BOOLEAN /\ \A r \in Peers : EngineOK(r)'
    BY <1>0, <1>1, <1>4 DEF Engines
  <1>10. Engines'
    BY <1>1, <1>5, <1>7, <1>8, <1>9 DEF Engines
  <1> QED
    BY <1>1, <1>2, <1>3, <1>10 DEF q, StepOf

-----------------------------------------------------------------------------
(* Sessions do not mix: the four kinds of steps.                             *)

LEMMA CurrentKey ==
    ASSUME NEW p \in Peers
    PROVE  /\ eng[p].key # NoKey => eng[p].key \in Computed(p)
           /\ Confirmed(p) /\ eng[p].key # NoKey => eng[p].key \in Computed(Other(p))
  BY OtherPeer DEF Computed

\* Within a session, and when it ends.
LEMMA SameSession ==
    ASSUME Inv, NEW p \in Peers, StepOf(p),
           eng'[p].hvi = eng[p].hvi, eng'[p].key = eng[p].key,
           eng'[p].chain = eng[p].chain, eng'[p].nonces = eng[p].nonces,
           eng'[p].state \in Open => eng[p].state \in Open,
           eng'[p].state \in Keyed => eng[p].state \in Keyed /\ eng'[p].myRole = eng[p].myRole
    PROVE  Inv'
  <1> DEFINE q == Other(p)
  <1>0. q \in Peers /\ q # p /\ Other(q) = p /\ Other(p) = q /\ \A r \in Peers : r = p \/ r = q
    BY OtherPeer, OnlyTwo
  <1> HIDE DEF q
  <1>1. /\ eng'[q] = eng[q] /\ multiStream' = multiStream /\ Engines'
        /\ \A r \in Peers : Computed(r)' \subseteq Computed(r)
    BY <1>0, CurrentKey DEF StepOf, q
  <1>2. \A r \in Peers : eng'[r].hvi = eng[r].hvi /\ eng'[r].key = eng[r].key
            /\ eng'[r].chain = eng[r].chain /\ eng'[r].nonces = eng[r].nonces
            /\ (eng'[r].state \in Open => eng[r].state \in Open)
            /\ (eng'[r].state \in Keyed => eng[r].state \in Keyed /\ eng'[r].myRole = eng[r].myRole)
    BY <1>0, <1>1
  <1>3. \A k : Values(k)' = Values(k)
    BY <1>1 DEF Values
  <1>4. ASSUME \A r \in Peers : OneKey(r) PROVE \A r \in Peers : OneKey(r)'
    BY <1>1, <1>2, <1>3, <1>4 DEF OneKey
  <1>5. CASE ~multiStream
    <2>1. DHSessions
      BY <1>5 DEF Inv
    <2>2. \A r \in Peers : OwnValue(r)'
      BY <1>2, <2>1 DEF DHSessions, OwnValue
    <2>3. \A r \in Peers : InOneOrder(r)'
      BY <1>1, <1>2, <1>3, <2>1, OtherPeer DEF DHSessions, InOneOrder
    <2> QED
      BY <1>1, <1>4, <1>5, <2>1, <2>2, <2>3 DEF Inv, DHSessions
  <1>6. CASE multiStream
    <2>1. MultiSessions
      BY <1>6 DEF Inv
    <2>2. PICK own \in [Nat -> Peers] : Owned(own) /\ NonceSeen(own)
      BY <2>1 DEF MultiSessions
    <2>3. Owned(own)'
      <3>1. \A r \in Peers : eng'[r].hvi # 0 => own[eng'[r].hvi] = r
        BY <1>2, <2>2 DEF Owned
      <3>2. \A m \in net' : m.type = "Commit" => own[m.hvi] = Other(m.to)
        BY <1>0, <2>2, <3>1 DEF Owned, StepOf, OwnPacket
      <3>3. \A r \in Peers : eng'[r].state \in Keyed =>
                IF eng'[r].myRole = "Initiator" THEN eng'[r].key[3] = eng'[r].hvi
                ELSE own[eng'[r].key[3]] = Other(r)
        BY <1>2, <2>2 DEF Owned
      <3> QED
        BY <3>1, <3>2, <3>3 DEF Owned
    <2>4. NonceSeen(own)'
      <3> SUFFICES ASSUME NEW r \in Peers, NEW k \in Computed(r)'
                   PROVE  LET o == Other(own[k[3]])
                          IN  k[1] \in Nat /\ k[1] <= eng'[o].chain
                              /\ (k[1] = eng'[o].chain => k[3] \in eng'[o].nonces)
        BY DEF NonceSeen
      <3>1. k \in Computed(r) /\ k[3] \in Nat
        <4>1. k \in Computed(r) /\ Values(k) \subseteq used /\ used \subseteq Nat
          BY <1>1 DEF Inv, Engines
        <4> QED
          BY <1>6, <4>1 DEF Values
      <3>2. Other(own[k[3]]) \in Peers
        BY <3>1, OtherPeer
      <3> QED
        BY <1>2, <2>2, <3>1, <3>2 DEF NonceSeen
    <2>5. \A r \in Peers : AnsweredLater(r)'
      BY <1>1, <1>2, <2>1, OtherPeer DEF MultiSessions, AnsweredLater, Responds
    <2>6. \A r \in Peers : NotBothEarlier(r)'
      BY <1>1, <1>2, <2>1, OtherPeer DEF MultiSessions, NotBothEarlier
    <2>7. \A r \in Peers : NotBothRespond(r)'
      BY <1>1, <1>2, <2>1, OtherPeer DEF MultiSessions, NotBothRespond, Responds
    <2> QED
      BY <1>1, <1>4, <1>6, <2>1, <2>3, <2>4, <2>5, <2>6, <2>7 DEF Inv, MultiSessions
  <1> QED
    BY <1>5, <1>6 DEF Inv, Engines

\* p draws a value: nothing has been computed with it.
LEMMA NewValue ==
    ASSUME Inv, NEW p \in Peers, StepOf(p), eng'[p].hvi \in Nat \ (used \cup {0}),
           eng'[p].key = eng[p].key, eng'[p].chain = eng[p].chain, eng'[p].nonces = eng[p].nonces,
           eng'[p].state \in {"AckSent", "WaitCommit"}
    PROVE  Inv'
  <1> DEFINE q == Other(p)
  <1>h. PICK h \in Nat \ (used \cup {0}) : h = eng'[p].hvi
    OBVIOUS
  <1>0. q \in Peers /\ q # p /\ Other(q) = p /\ Other(p) = q /\ \A r \in Peers : r = p \/ r = q
    BY OtherPeer, OnlyTwo
  <1> HIDE DEF q
  <1>1. /\ eng'[q] = eng[q] /\ multiStream' = multiStream /\ Engines'
        /\ \A r \in Peers : Computed(r)' \subseteq Computed(r)
    BY <1>0, CurrentKey DEF StepOf, q
  <1>2. \A k : Values(k)' = Values(k)
    BY <1>1 DEF Values
  <1>3. \A r \in Peers : \A k \in Computed(r)' : h \notin Values(k)
    BY <1>1 DEF Inv, Engines
  <1>4. eng'[p].state \notin Keyed
    BY DEF Keyed
  <1>5. ASSUME \A r \in Peers : OneKey(r) PROVE \A r \in Peers : OneKey(r)'
    BY <1>h, <1>0, <1>1, <1>2, <1>3, <1>5 DEF OneKey
  <1>6. CASE ~multiStream
    <2>1. DHSessions
      BY <1>6 DEF Inv
    <2>2. \A r \in Peers : OwnValue(r)'
      BY <1>0, <1>1, <1>4, <2>1 DEF DHSessions, OwnValue
    <2>3. InOneOrder(p)' /\ InOneOrder(q)'
      BY <1>h, <1>0, <1>2, <1>3 DEF InOneOrder
    <2> QED
      BY <1>0, <1>1, <1>5, <1>6, <2>1, <2>2, <2>3 DEF Inv, DHSessions
  <1>7. CASE multiStream
    <2>1. MultiSessions
      BY <1>7 DEF Inv
    <2>2. PICK own \in [Nat -> Peers] : Owned(own) /\ NonceSeen(own)
      BY <2>1 DEF MultiSessions
    <2>3. PICK own2 \in [Nat -> Peers] : own2[h] = p /\ \A n \in Nat : n # h => own2[n] = own[n]
      <3> DEFINE f == [own EXCEPT ![h] = p]
      <3>1. f \in [Nat -> Peers] /\ f[h] = p /\ \A n \in Nat : n # h => f[n] = own[n]
        OBVIOUS
      <3> QED
        BY <3>1
    <2>4. \A r \in Peers : \A k \in Computed(r)' : k[3] # h
      BY <1>3, <1>7 DEF Values
    <2>5. \A r \in Peers : \A k \in Computed(r) : k[3] \in used /\ k[3] \in Nat /\ k[3] # h
      BY <1>h, <1>7 DEF Inv, Engines, Values
    <2>6. Owned(own2)'
      <3>1. eng[q].hvi \in used \cup {0} /\ used \subseteq Nat /\ h \notin used
        BY <1>h, <1>0 DEF Inv, Engines, EngineOK
      <3>2. \A r \in Peers : eng'[r].hvi # 0 => own2[eng'[r].hvi] = r
        <4>1. own2[eng'[p].hvi] = p
          BY <1>h, <2>3
        <4>2. eng[q].hvi # 0 => eng[q].hvi \in Nat /\ eng[q].hvi # h /\ own[eng[q].hvi] = q
          BY <1>0, <2>2, <3>1 DEF Owned
        <4>3. eng'[q].hvi # 0 => own2[eng'[q].hvi] = q
          BY <1>1, <2>3, <4>2
        <4> QED
          BY <1>0, <4>1, <4>3
      <3>3. \A m \in net' : m.type = "Commit" => own2[m.hvi] = Other(m.to)
        <4> SUFFICES ASSUME NEW m \in net', m.type = "Commit" PROVE own2[m.hvi] = Other(m.to)
          OBVIOUS
        <4>1. CASE m \in net
          <5>1. m.hvi \in used
            BY <4>1 DEF Inv, Engines, SentPacket
          <5> QED
            BY <2>2, <2>3, <3>1, <4>1, <5>1 DEF Owned
        <4>2. CASE OwnPacket(p, m)'
          BY <1>h, <1>0, <2>3, <4>2 DEF OwnPacket
        <4> QED
          BY <4>1, <4>2 DEF StepOf
      <3>4. eng[q].state \in Keyed => eng[q].key \in Computed(q)
        BY <1>0, CurrentKey DEF Inv, Engines, EngineOK
      <3>5. \A r \in Peers : eng'[r].state \in Keyed =>
                IF eng'[r].myRole = "Initiator" THEN eng'[r].key[3] = eng'[r].hvi
                ELSE own2[eng'[r].key[3]] = Other(r)
        BY <1>0, <1>1, <1>4, <2>2, <2>3, <2>5, <3>4 DEF Owned
      <3> QED
        BY <3>2, <3>3, <3>5 DEF Owned
    <2>7. NonceSeen(own2)'
      <3> SUFFICES ASSUME NEW r \in Peers, NEW k \in Computed(r)'
                   PROVE  LET o == Other(own2[k[3]])
                          IN  k[1] \in Nat /\ k[1] <= eng'[o].chain
                              /\ (k[1] = eng'[o].chain => k[3] \in eng'[o].nonces)
        BY DEF NonceSeen
      <3>1. k \in Computed(r) /\ own2[k[3]] = own[k[3]] /\ own[k[3]] \in Peers
        BY <1>1, <2>3, <2>5
      <3>2. \A o \in Peers : eng'[o].chain = eng[o].chain /\ eng'[o].nonces = eng[o].nonces
        BY <1>0, <1>1
      <3>3. Other(own[k[3]]) \in Peers
        BY <3>1, OtherPeer
      <3> QED
        BY <2>2, <3>1, <3>2, <3>3 DEF NonceSeen
    <2>8. ~Responds(p)'
      BY <1>4 DEF Responds
    <2>9. AnsweredLater(p)' /\ AnsweredLater(q)'
      BY <1>h, <1>0, <2>4, <2>8 DEF AnsweredLater
    <2>10. NotBothEarlier(p)' /\ NotBothEarlier(q)'
      BY <1>h, <1>0, <2>4 DEF NotBothEarlier
    <2>11. NotBothRespond(p)' /\ NotBothRespond(q)'
      BY <1>0, <2>8 DEF NotBothRespond
    <2>12. \A r \in Peers : OneKey(r)'
      BY <1>5, <2>1 DEF MultiSessions
    <2> QED
      BY <1>0, <1>1, <1>7, <2>3, <2>6, <2>7, <2>9, <2>10, <2>11, <2>12 DEF Inv, MultiSessions
  <1> QED
    BY <1>6, <1>7 DEF Inv, Engines

\* p computes a key in DH mode: it is the first one with p's value.
LEMMA NewKeyDH ==
    ASSUME Inv, ~multiStream, NEW p \in Peers, StepOf(p), eng'[p].hvi = eng[p].hvi,
           eng[p].state \in Open, eng'[p].state \in Keyed,
           eng'[p].hvi = IF eng'[p].myRole = "Initiator" THEN eng'[p].key[3] ELSE eng'[p].key[6]
    PROVE  Inv'
  <1> DEFINE q == Other(p)
  <1>0. q \in Peers /\ q # p /\ Other(q) = p /\ Other(p) = q /\ \A r \in Peers : r = p \/ r = q
    BY OtherPeer, OnlyTwo
  <1> HIDE DEF q
  <1>1. /\ eng'[q] = eng[q] /\ multiStream' = multiStream /\ Engines'
        /\ Computed(q)' \subseteq Computed(q)
        /\ Computed(p)' \subseteq Computed(p) \cup {eng'[p].key}
    BY <1>0 DEF StepOf, q
  <1>2. \A k : Values(k)' = Values(k)
    BY <1>1 DEF Values
  <1>3. DHSessions /\ eng[p].hvi \in Values(eng'[p].key)
    BY DEF Inv, Values
  <1>4. eng'[p].state \notin Open
    BY DEF Open, Keyed
  <1>5. OneKey(p)' /\ OneKey(q)'
    BY <1>0, <1>1, <1>2, <1>3, <1>4 DEF DHSessions, OneKey
  <1>6. OwnValue(p)' /\ OwnValue(q)'
    BY <1>0, <1>1, <1>3 DEF DHSessions, OwnValue
  <1>7. InOneOrder(p)' /\ InOneOrder(q)'
    BY <1>0, <1>1, <1>2, <1>3 DEF DHSessions, InOneOrder
  <1> QED
    BY <1>0, <1>1, <1>5, <1>6, <1>7 DEF Inv, DHSessions

\* p computes a key in multi-stream mode, as Initiator from its own Commit that q has
\* answered, or as Responder from a Commit of q that it has not seen before.
LEMMA NewKeyMulti ==
    ASSUME Inv, multiStream, NEW p \in Peers, StepOf(p), eng'[p].hvi = eng[p].hvi,
           eng'[p].chain = eng[p].chain, eng[p].state \in Open, eng'[p].state \in Keyed,
           NEW k, k = eng'[p].key, NEW own \in [Nat -> Peers], Owned(own), NonceSeen(own),
           \/ /\ eng'[p].myRole = "Initiator" /\ eng'[p].nonces = eng[p].nonces
              /\ k[3] = eng[p].hvi /\ k \in Computed(Other(p))
           \/ /\ eng'[p].myRole = "Responder" /\ eng'[p].nonces = eng[p].nonces \cup {k[3]}
              /\ k[1] = eng[p].chain /\ k[3] \notin eng[p].nonces /\ own[k[3]] = Other(p)
              /\ ~Confirmed(p)'
    PROVE  Inv'
  <1> DEFINE q == Other(p)
  <1>0. q \in Peers /\ q # p /\ Other(q) = p /\ Other(p) = q /\ \A r \in Peers : r = p \/ r = q
    BY OtherPeer, OnlyTwo
  <1> HIDE DEF q
  <1>1. /\ eng'[q] = eng[q] /\ multiStream' = multiStream /\ Engines'
        /\ Computed(q)' \subseteq Computed(q)
        /\ Computed(p)' \subseteq Computed(p) \cup {k}
    BY <1>0 DEF StepOf, q
  <1>2. \A l : Values(l)' = Values(l) /\ Values(l) = {l[3]}
    BY <1>1 DEF Values
  <1>3. MultiSessions /\ eng'[p].state \notin Open /\ eng[p].state \notin Keyed
    BY DEF Inv, Open, Keyed
  <1>4. k \in Computed(p)' /\ k[3] \in Nat /\ k # NoKey
    <2>1. k # NoKey
      BY <1>1 DEF Engines, EngineOK
    <2>2. k \in Computed(p)'
      BY <2>1 DEF Computed
    <2> QED
      BY <1>1, <1>2, <2>1, <2>2 DEF Engines
  <1>5. /\ eng[p].hvi # 0 /\ own[eng[p].hvi] = p
        /\ eng[q].hvi # 0 => own[eng[q].hvi] = q
    BY <1>0 DEF Inv, Engines, EngineOK, Owned
  <1>6. OneKey(p)' /\ OneKey(q)'
    BY <1>0, <1>1, <1>2, <1>3 DEF MultiSessions, OneKey
  <1>7. Owned(own)'
    <2>1. \A r \in Peers : eng'[r].hvi # 0 => own[eng'[r].hvi] = r
      BY <1>0, <1>1, <1>5
    <2>2. \A m \in net' : m.type = "Commit" => own[m.hvi] = Other(m.to)
      BY <1>0, <2>1 DEF Owned, StepOf, OwnPacket
    <2>3. IF eng'[p].myRole = "Initiator" THEN eng'[p].key[3] = eng'[p].hvi
          ELSE own[eng'[p].key[3]] = Other(p)
      OBVIOUS
    <2>4. eng'[q].state \in Keyed =>
            IF eng'[q].myRole = "Initiator" THEN eng'[q].key[3] = eng'[q].hvi
            ELSE own[eng'[q].key[3]] = Other(q)
      BY <1>0, <1>1 DEF Owned
    <2>5. \A r \in Peers : eng'[r].state \in Keyed =>
            IF eng'[r].myRole = "Initiator" THEN eng'[r].key[3] = eng'[r].hvi
            ELSE own[eng'[r].key[3]] = Other(r)
      BY <1>0, <2>3, <2>4
    <2> QED
      BY <2>1, <2>2, <2>5 DEF Owned
  <1>8. NonceSeen(own)'
    <2> SUFFICES ASSUME NEW r \in Peers, NEW l \in Computed(r)'
                 PROVE  LET o == Other(own[l[3]])
                        IN  l[1] \in Nat /\ l[1] <= eng'[o].chain
                            /\ (l[1] = eng'[o].chain => l[3] \in eng'[o].nonces)
      BY DEF NonceSeen
    <2>1. \A o \in Peers : eng'[o].chain = eng[o].chain /\ eng[o].nonces \subseteq eng'[o].nonces
      BY <1>0, <1>1
    <2>2. CASE \E t \in Peers : l \in Computed(t)
      <3>1. PICK t \in Peers : l \in Computed(t)
        BY <2>2
      <3>2. Values(l) \subseteq used /\ used \subseteq Nat
        BY <3>1 DEF Inv, Engines
      <3>3. l[3] \in Nat /\ Other(own[l[3]]) \in Peers
        BY <1>2, <3>2, OtherPeer
      <3> QED
        BY <2>1, <3>1, <3>3 DEF NonceSeen
    <2>3. CASE ~ \E t \in Peers : l \in Computed(t)
      <3>1. l = k /\ own[k[3]] = q /\ k[1] = eng[p].chain /\ k[3] \in eng'[p].nonces
        BY <1>0, <1>1, <2>3
      <3>2. eng[p].chain \in Nat
        BY DEF Inv, Engines, EngineOK
      <3> QED
        BY <1>0, <3>1, <3>2
    <2> QED
      BY <2>2, <2>3
  <1>9. eng'[p].myRole = "Responder" => \A r \in Peers : k \notin Computed(r)
    <2> SUFFICES ASSUME eng'[p].myRole = "Responder", NEW r \in Peers, k \in Computed(r)
                 PROVE  FALSE
      OBVIOUS
    <2>1. own[k[3]] = q /\ k[1] = eng[p].chain /\ k[3] \notin eng[p].nonces
      BY DEF q
    <2>2. Other(own[k[3]]) = p
      BY <1>0, <2>1
    <2>3. k[1] = eng[p].chain => k[3] \in eng[p].nonces
      BY <2>2 DEF NonceSeen
    <2> QED
      BY <2>1, <2>3
  <1>10. AnsweredLater(p)' /\ AnsweredLater(q)'
    <2>1. AnsweredLater(p)'
      BY <1>0, <1>1, <1>9 DEF AnsweredLater, Responds
    <2>2. AnsweredLater(q)'
      <3> SUFFICES ASSUME Responds(q), eng[q].key[3] # eng[p].hvi,
                          \E l \in Computed(q)' : l[3] = eng[p].hvi
                   PROVE  eng[q].key \notin Computed(p)'
        BY <1>0, <1>1 DEF AnsweredLater, Responds
      <3>1. eng[q].key \notin Computed(p)
        BY <1>0, <1>1, <1>3 DEF MultiSessions, AnsweredLater
      <3>2. eng[q].key \in Computed(q)
        BY <1>0, CurrentKey DEF Responds, Inv, Engines, EngineOK
      <3>3. eng[q].key # k
        BY <1>0, <1>9, <3>2
      <3> QED
        BY <1>1, <3>1, <3>3
    <2> QED
      BY <2>1, <2>2
  <1>11. NotBothEarlier(p)' /\ NotBothEarlier(q)'
    BY <1>0, <1>1, <1>3 DEF MultiSessions, NotBothEarlier
  <1>12. NotBothRespond(p)' /\ NotBothRespond(q)'
    BY <1>0, <1>1, <1>9 DEF NotBothRespond, Responds
  <1> QED
    BY <1>0, <1>1, <1>6, <1>7, <1>8, <1>10, <1>11, <1>12 DEF Inv, MultiSessions

\* The client of p replaces its object.
LEMMA NewObjectStep ==
    ASSUME Inv, NEW p \in Peers, StepOf(p), eng'[p].hvi = 0, eng'[p].key = NoKey,
           eng'[p].chain = eng[p].chain + 1, eng'[p].state = "Initial"
    PROVE  Inv'
  <1> DEFINE q == Other(p)
  <1>0. q \in Peers /\ q # p /\ Other(q) = p /\ Other(p) = q /\ \A r \in Peers : r = p \/ r = q
    BY OtherPeer, OnlyTwo
  <1> HIDE DEF q
  <1>1. /\ eng'[q] = eng[q] /\ multiStream' = multiStream /\ Engines'
        /\ \A r \in Peers : Computed(r)' \subseteq Computed(r)
    BY <1>0 DEF StepOf, q
  <1>2. \A k : Values(k)' = Values(k)
    BY <1>1 DEF Values
  <1>3. \A r \in Peers : \A k \in Computed(r)' : 0 \notin Values(k)
    BY <1>1 DEF Inv, Engines
  <1>4. eng'[p].state \notin Keyed
    BY DEF Keyed
  <1>5. ASSUME \A r \in Peers : OneKey(r) PROVE \A r \in Peers : OneKey(r)'
    BY <1>0, <1>1, <1>2, <1>3, <1>5 DEF OneKey
  <1>6. CASE ~multiStream
    <2>1. DHSessions
      BY <1>6 DEF Inv
    <2>2. \A r \in Peers : OwnValue(r)'
      BY <1>0, <1>1, <1>4, <2>1 DEF DHSessions, OwnValue
    <2>3. InOneOrder(p)' /\ InOneOrder(q)'
      BY <1>0, <1>2, <1>3 DEF InOneOrder
    <2> QED
      BY <1>0, <1>1, <1>5, <1>6, <2>1, <2>2, <2>3 DEF Inv, DHSessions
  <1>7. CASE multiStream
    <2>1. MultiSessions
      BY <1>7 DEF Inv
    <2>2. PICK own \in [Nat -> Peers] : Owned(own) /\ NonceSeen(own)
      BY <2>1 DEF MultiSessions
    <2>3. \A r \in Peers : \A k \in Computed(r)' : k[3] # 0
      BY <1>3, <1>7 DEF Values
    <2>4. Owned(own)'
      <3>1. \A r \in Peers : eng'[r].hvi # 0 => own[eng'[r].hvi] = r
        BY <1>0, <1>1, <2>2 DEF Owned
      <3>2. \A m \in net' : m.type = "Commit" => own[m.hvi] = Other(m.to)
        BY <1>0, <2>2, <3>1 DEF Owned, StepOf, OwnPacket
      <3>3. \A r \in Peers : eng'[r].state \in Keyed =>
                IF eng'[r].myRole = "Initiator" THEN eng'[r].key[3] = eng'[r].hvi
                ELSE own[eng'[r].key[3]] = Other(r)
        BY <1>0, <1>1, <1>4, <2>2 DEF Owned
      <3> QED
        BY <3>1, <3>2, <3>3 DEF Owned
    <2>5. NonceSeen(own)'
      <3> SUFFICES ASSUME NEW r \in Peers, NEW k \in Computed(r)'
                   PROVE  LET o == Other(own[k[3]])
                          IN  k[1] \in Nat /\ k[1] <= eng'[o].chain
                              /\ (k[1] = eng'[o].chain => k[3] \in eng'[o].nonces)
        BY DEF NonceSeen
      <3>1. k \in Computed(r) /\ k[3] \in Nat
        <4>1. k \in Computed(r) /\ Values(k) \subseteq used /\ used \subseteq Nat
          BY <1>1 DEF Inv, Engines
        <4> QED
          BY <1>7, <4>1 DEF Values
      <3>2. PICK o \in Peers : o = Other(own[k[3]])
        BY <3>1, OtherPeer
      <3>3. k[1] \in Nat /\ k[1] <= eng[o].chain /\ (k[1] = eng[o].chain => k[3] \in eng[o].nonces)
        BY <2>2, <3>1, <3>2 DEF NonceSeen
      <3>4. eng[o].chain \in Nat
        BY DEF Inv, Engines, EngineOK
      <3>5. CASE o = p
        BY <3>2, <3>3, <3>4, <3>5
      <3>6. CASE o = q
        BY <1>1, <3>2, <3>3, <3>6
      <3> QED
        BY <1>0, <3>5, <3>6
    <2>6. ~Responds(p)'
      BY <1>4 DEF Responds
    <2>7. AnsweredLater(p)' /\ AnsweredLater(q)'
      BY <1>0, <2>3, <2>6 DEF AnsweredLater
    <2>8. NotBothEarlier(p)' /\ NotBothEarlier(q)'
      BY <1>0, <2>3 DEF NotBothEarlier
    <2>9. NotBothRespond(p)' /\ NotBothRespond(q)'
      BY <1>0, <2>6 DEF NotBothRespond
    <2>10. \A r \in Peers : OneKey(r)'
      BY <1>5, <2>1 DEF MultiSessions
    <2> QED
      BY <1>0, <1>1, <1>7, <2>2, <2>4, <2>5, <2>7, <2>8, <2>9, <2>10 DEF Inv, MultiSessions
  <1> QED
    BY <1>6, <1>7 DEF Inv, Engines

\* The network loses a packet, or nothing happens.
LEMMA LoseStep ==
    ASSUME Inv, net' \subseteq net, UNCHANGED <<eng, used, multiStream>>
    PROVE  Inv'
  <1>1. net' \subseteq net /\ UNCHANGED <<eng, used, multiStream>>
    OBVIOUS
  <1>2. PICK p \in Peers : TRUE
    BY HandshakeConstants, FS_EmptySet
  <1>3. \A r \in Peers : Computed(r)' \subseteq Computed(r)
    BY <1>1 DEF Computed, Confirmed
  <1>4. Engines'
    BY <1>1, <1>3 DEF Inv, Engines, EngineOK, OwnPacket, SentPacket, Values
  <1>5. StepOf(p)
    BY <1>1, <1>2, <1>3, <1>4, OtherPeer DEF StepOf
  <1> QED
    BY <1>1, <1>2, <1>5, SameSession

-----------------------------------------------------------------------------
(* The handlers.                                                             *)

\* eng'[p] is eng[p] with the fields of upd.
After(p, upd) ==
    /\ DOMAIN eng'[p] = Fields
    /\ \A f \in Fields : eng'[p][f] = IF f \in DOMAIN upd THEN upd[f] ELSE eng[p][f]

LEMMA WithinSession ==
    ASSUME Inv, NEW p \in Peers, NEW upd, NEW out, Step(p, upd, out), used' = used,
           DOMAIN upd \subseteq Fields \ {"hvi", "key", "chain", "nonces"},
           After(p, upd) /\ multiStream' = multiStream =>
              /\ EngineOK(p)' /\ \A m \in out : OwnPacket(p, m)'
              /\ Confirmed(p)' => eng[p].key \in Computed(Other(p))
              /\ eng'[p].state \in Open => eng[p].state \in Open
              /\ eng'[p].state \in Keyed => eng[p].state \in Keyed /\ eng'[p].myRole = eng[p].myRole
    PROVE  Inv'
  <1>0. Engines /\ EngineOK(p)
    BY DEF Inv, Engines
  <1>1. After(p, upd) /\ multiStream' = multiStream
    BY <1>0, StepFields DEF Engines, EngineOK, After, Step
  <1>2. /\ eng'[p].hvi = eng[p].hvi /\ eng'[p].key = eng[p].key
        /\ eng'[p].chain = eng[p].chain /\ eng'[p].nonces = eng[p].nonces
    BY <1>1 DEF After, Fields
  <1>3. /\ EngineOK(p)' /\ \A m \in out : OwnPacket(p, m)'
        /\ Confirmed(p)' => eng'[p].key \in Computed(Other(p))
        /\ eng'[p].state \in Open => eng[p].state \in Open
        /\ eng'[p].state \in Keyed => eng[p].state \in Keyed /\ eng'[p].myRole = eng[p].myRole
    BY <1>1, <1>2
  <1>4. eng'[p].key # NoKey => Values(eng'[p].key) \subseteq used'
    BY <1>0, <1>2, CurrentKey DEF Engines
  <1>5. StepOf(p)
    BY <1>0, <1>2, <1>3, <1>4, EnginesStep DEF Engines
  <1> QED
    BY <1>2, <1>3, <1>5, SameSession

LEMMA ConfirmedKey ==
    ASSUME Inv, NEW p \in Peers, Confirmed(p)
    PROVE  eng[p].key \in Computed(Other(p)) /\ eng[p].state \in Keyed
  <1>1. eng[p].state \in Keyed /\ eng[p].key # NoKey
    BY DEF Inv, Engines, EngineOK, Confirmed, Keyed
  <1> QED
    BY <1>1, CurrentKey

\* A step that does not take p further in the exchange: it leaves p where it is, or
\* back where it started, or waiting for an ErrorAck.
LEMMA Harmless ==
    ASSUME Inv, NEW p \in Peers, NEW upd, NEW out, Step(p, upd, out), used' = used,
           DOMAIN upd \subseteq {"state", "sentPacket", "timer", "rx", "tx", "starts"},
           "rx" \in DOMAIN upd \/ "tx" \in DOMAIN upd => "state" \in DOMAIN upd,
           "state" \in DOMAIN upd =>
              /\ upd.state \in {"Initial", "Detect", "AckDetected", "WaitErrorAck"}
              /\ eng[p].finishing = {},
           "sentPacket" \in DOMAIN upd => upd.sentPacket.type \notin {"Commit"} \cup DHParts \cup Confirms,
           ("state" \in DOMAIN upd /\ upd.state \in {"Detect", "AckDetected"}) \/
             ("state" \notin DOMAIN upd /\ eng[p].state \in {"Detect", "AckSent", "AckDetected"}) =>
              IF "sentPacket" \in DOMAIN upd THEN upd.sentPacket.type \in {"Hello", "None"}
              ELSE eng[p].sentPacket.type \in {"Hello", "None"},
           \A m \in out : m = eng[p].sentPacket \/ m.type \notin {"Commit"} \cup DHParts \cup Confirms
    PROVE  Inv'
  <1>0. EngineOK(p)
    BY DEF Inv, Engines
  <1>1. ASSUME After(p, upd), multiStream' = multiStream
        PROVE  /\ EngineOK(p)' /\ \A m \in out : OwnPacket(p, m)'
               /\ Confirmed(p)' => eng[p].key \in Computed(Other(p))
               /\ eng'[p].state \in Open => eng[p].state \in Open
               /\ eng'[p].state \in Keyed => eng[p].state \in Keyed /\ eng'[p].myRole = eng[p].myRole
    <2>1. /\ eng'[p].chain = eng[p].chain /\ eng'[p].hvi = eng[p].hvi /\ eng'[p].heard = eng[p].heard
          /\ eng'[p].myRole = eng[p].myRole /\ eng'[p].key = eng[p].key
          /\ eng'[p].finishing = eng[p].finishing
      BY <1>1 DEF After, Fields
    <2>2. eng'[p].sentPacket = eng[p].sentPacket
          \/ eng'[p].sentPacket.type \notin {"Commit"} \cup DHParts \cup Confirms
      BY <1>1 DEF After, Fields
    <2>3. \A m : m = eng[p].sentPacket \/ m.type \notin {"Commit"} \cup DHParts \cup Confirms =>
              OwnPacket(p, m)'
      BY <1>0, <1>1, <2>1 DEF EngineOK, OwnPacket
    <2>4. \A m \in out : OwnPacket(p, m)'
      BY <2>3
    <2>10. OwnPacket(p, eng[p].sentPacket)'
      BY <2>2, <2>3
    <2>5. CASE "state" \in DOMAIN upd
      <3>1. eng'[p].state \in {"Initial", "Detect", "AckDetected", "WaitErrorAck"}
        BY <1>1, <2>5 DEF After, Fields
      <3>2. eng'[p].state \in {"Detect", "AckDetected"} => eng'[p].sentPacket.type \in {"Hello", "None"}
        BY <1>1, <2>5 DEF After, Fields
      <3>3. EngineOK(p)'
        BY <1>0, <1>1, <2>1, <2>10, <2>5, <3>1, <3>2 DEF EngineOK, After, Open, Keyed
      <3> QED
        BY <2>1, <2>4, <2>5, <3>1, <3>3 DEF Confirmed, Open, Keyed
    <2>6. CASE "state" \notin DOMAIN upd
      <3>1. eng'[p].state = eng[p].state /\ eng'[p].rx = eng[p].rx /\ eng'[p].tx = eng[p].tx
        BY <1>1, <2>6 DEF After, Fields
      <3>2. eng'[p].state \in {"Detect", "AckSent", "AckDetected"} =>
              eng'[p].sentPacket.type \in {"Hello", "None"}
        BY <1>1, <2>6, <3>1 DEF After, Fields
      <3>3. EngineOK(p)'
        BY <1>0, <1>1, <2>1, <2>10, <3>1, <3>2 DEF EngineOK, After
      <3>4. Confirmed(p)' => Confirmed(p)
        BY <2>1, <3>1 DEF Confirmed
      <3> QED
        BY <2>1, <2>4, <3>1, <3>3, <3>4, ConfirmedKey
    <2> QED
      BY <2>5, <2>6
  <1>2. DOMAIN upd \subseteq Fields \ {"hvi", "key", "chain", "nonces"}
    BY DEF Fields
  <1> QED
    BY <1>1, <1>2, WithinSession

LEMMA ResendInv == \A p \in Peers : Inv /\ Resend(p) /\ UNCHANGED used => Inv'
  <1> SUFFICES ASSUME NEW p \in Peers, Inv, Resend(p), UNCHANGED used PROVE Inv'
    OBVIOUS
  <1>1. Step(p, [timer |-> eng[p].timer], {eng[p].sentPacket}) /\ EngineOK(p)
    BY DEF Resend, Inv, Engines
  <1> QED
    BY <1>1, Harmless DEF EngineOK

LEMMA SendErrorInv ==
    \A p \in Peers : Inv /\ SendError(p) /\ eng[p].finishing = {} /\ UNCHANGED used => Inv'
  <1> SUFFICES ASSUME NEW p \in Peers, Inv, SendError(p), eng[p].finishing = {}, UNCHANGED used
               PROVE  Inv'
    OBVIOUS
  <1>1. Plain(p, "Error").type = "Error"
    BY DEF Plain
  <1>2. Step(p, [state |-> "WaitErrorAck", sentPacket |-> Plain(p, "Error"), timer |-> TRUE],
             {Plain(p, "Error")})
    BY DEF SendError
  <1> QED
    BY <1>1, <1>2, Harmless DEF DHParts, Confirms

\* A Commit, a DHPart1 or a DHPart2 that is ignored.
LEMMA IgnoredInv ==
    \A p \in Peers : \A t \in BOOLEAN :
        Inv /\ Step(p, [timer |-> t], {}) /\ UNCHANGED used => Inv'
  <1> SUFFICES ASSUME NEW p \in Peers, NEW t \in BOOLEAN, Inv, Step(p, [timer |-> t], {}),
                      UNCHANGED used
               PROVE  Inv'
    OBVIOUS
  <1>1. EngineOK(p)
    BY DEF Inv, Engines
  <1> QED
    BY <1>1, Harmless DEF EngineOK

\* Discovery without a value drawn, errors, and the end of a session.
LEMMA AsideInv ==
    ASSUME Inv, NEW p \in Peers,
           \/ StartZrtp(p) \/ HelloGivesUp(p) \/ Abandon(p)
           \/ \E m \in net : \/ HelloAckInDetect(p, m) \/ HelloInAckSent(p, m)
                             \/ RecvError(p, m) \/ RecvErrorAck(p, m)
    PROVE  Inv'
  <1>0. EngineOK(p) /\ None.type = "None"
    BY DEF Inv, Engines, None
  <1> USE DEF DHParts, Confirms
  <1>1. CASE StartZrtp(p)
    <2>1. /\ Step(p, [state |-> "Detect", sentPacket |-> Hello(p), timer |-> TRUE,
                      starts |-> eng[p].starts + 1], {Hello(p)})
          /\ eng[p].finishing = {} /\ used' = used /\ Hello(p).type = "Hello"
      BY <1>1 DEF StartZrtp, Idle, Hello
    <2> QED
      BY <2>1, Harmless
  <1>2. CASE HelloGivesUp(p)
    <2>1. /\ Step(p, [state |-> "Detect", timer |-> FALSE], {eng[p].sentPacket}) /\ used' = used
          /\ eng[p].state \in {"Detect", "AckSent"}
      BY <1>2 DEF HelloGivesUp
    <2>2. eng[p].finishing = {} /\ eng[p].sentPacket.type \in {"Hello", "None"}
      BY <1>0, <2>1 DEF EngineOK
    <2> QED
      BY <2>1, <2>2, Harmless
  <1>3. ASSUME eng[p].finishing = {}, used' = used, NEW out, Step(p, Ended(p), out),
               \A m \in out : m.type = "ErrorAck"
        PROVE  Inv'
    BY <1>0, <1>3, Harmless DEF Ended
  <1>4. CASE Abandon(p)
    BY <1>3, <1>4 DEF Abandon
  <1>5. ASSUME NEW m \in net, HelloAckInDetect(p, m) PROVE Inv'
    <2>1. /\ Step(p, [state |-> "AckDetected", timer |-> FALSE, sentPacket |-> None], {})
          /\ eng[p].finishing = {} /\ used' = used
      BY <1>5 DEF HelloAckInDetect, Receives, Idle
    <2> QED
      BY <1>0, <2>1, Harmless
  <1>6. ASSUME NEW m \in net, HelloInAckSent(p, m) PROVE Inv'
    <2> DEFINE upd == [state |-> "AckSent"]
    <2>1. /\ Step(p, upd, {HelloAck(p)}) /\ HelloAck(p).type = "HelloAck"
          /\ eng[p].state = "AckSent" /\ used' = used
      BY <1>6 DEF HelloInAckSent, Receives, Idle, HelloAck
    <2>2. ASSUME After(p, upd), multiStream' = multiStream
          PROVE  /\ EngineOK(p)' /\ \A x \in {HelloAck(p)} : OwnPacket(p, x)'
                 /\ Confirmed(p)' => eng[p].key \in Computed(Other(p))
                 /\ eng'[p].state \in Open => eng[p].state \in Open
                 /\ eng'[p].state \in Keyed => eng[p].state \in Keyed /\ eng'[p].myRole = eng[p].myRole
      <3>1. EngineOK(p)'
        BY <1>0, <2>1, <2>2 DEF EngineOK, OwnPacket, After, Fields
      <3> QED
        BY <1>0, <2>1, <2>2, <3>1 DEF After, Fields, OwnPacket, Confirmed, Keyed, EngineOK
    <2> QED
      BY <2>1, <2>2, WithinSession DEF Fields
  <1>7. ASSUME NEW m \in net, RecvError(p, m) PROVE Inv'
    <2>1. Plain(p, "ErrorAck").type = "ErrorAck" /\ eng[p].finishing = {} /\ used' = used
      BY <1>7 DEF RecvError, Plain
    <2>2. CASE eng[p].state \in {"Initial", "SecureState"}
      <3>1. Step(p, [timer |-> FALSE], {Plain(p, "ErrorAck")})
        BY <1>7, <2>2 DEF RecvError
      <3> QED
        BY <1>0, <2>1, <2>2, <3>1, Harmless
    <2>3. CASE eng[p].state \notin {"Initial", "SecureState"}
      <3>1. Step(p, Ended(p), {Plain(p, "ErrorAck")})
        BY <1>7, <2>3 DEF RecvError
      <3> QED
        BY <1>3, <2>1, <3>1
    <2> QED
      BY <2>2, <2>3
  <1>8. ASSUME NEW m \in net, RecvErrorAck(p, m) PROVE Inv'
    <2>1. /\ Step(p, [state |-> "Initial", sentPacket |-> None, timer |-> FALSE], {})
          /\ eng[p].finishing = {} /\ used' = used
      BY <1>8 DEF RecvErrorAck, Receives, Idle
    <2> QED
      BY <1>0, <2>1, Harmless
  <1> QED
    BY <1>1, <1>2, <1>4, <1>5, <1>6, <1>7, <1>8

\* The exchange goes on within a session: Commit, DHPart1, Confirm2, and SRTP.
LEMMA ForwardInv ==
    ASSUME Inv, NEW p \in Peers, NEW upd, NEW out, Step(p, upd, out), used' = used,
           DOMAIN upd \subseteq Fields \ {"hvi", "key", "chain", "nonces"},
           /\ After(p, upd) /\ multiStream' = multiStream /\ EngineOK(p)
           /\ eng'[p].hvi = eng[p].hvi /\ eng'[p].key = eng[p].key /\ eng'[p].chain = eng[p].chain
           => /\ EngineOK(p)' /\ \A m \in out : OwnPacket(p, m)'
              /\ Confirmed(p)' => eng[p].key \in Computed(Other(p))
              /\ \/ eng'[p].state \in Open /\ eng[p].state \in Open
                 \/ /\ eng'[p].state \in Keyed /\ eng[p].state \in Keyed
                    /\ eng'[p].myRole = eng[p].myRole
    PROVE  Inv'
  <1>1. EngineOK(p) /\ Open \cap Keyed = {}
    BY DEF Inv, Engines, Open, Keyed
  <1>2. After(p, upd) => /\ eng'[p].hvi = eng[p].hvi /\ eng'[p].key = eng[p].key
                         /\ eng'[p].chain = eng[p].chain
    BY DEF After, Fields
  <1> QED
    BY <1>1, <1>2, WithinSession

LEMMA HelloAckInAckSentInv == \A p \in Peers : \A m \in net : Inv /\ HelloAckInAckSent(p, m) => Inv'
  <1> SUFFICES ASSUME NEW p \in Peers, NEW m \in net, Inv, HelloAckInAckSent(p, m) PROVE Inv'
    OBVIOUS
  <1>1. PICK c : c = OwnCommit(p)
    OBVIOUS
  <1> DEFINE upd == [state |-> "CommitSent", sentPacket |-> c, timer |-> TRUE]
  <1>2. /\ Step(p, upd, {c}) /\ used' = used /\ eng[p].state = "AckSent" /\ eng[p].finishing = {}
        /\ c.type = "Commit" /\ c.hvi = eng[p].hvi /\ c.to = Other(p)
    BY <1>1 DEF HelloAckInAckSent, Receives, Idle, OwnCommit
  <1>3. ASSUME After(p, upd), multiStream' = multiStream, EngineOK(p), eng'[p].hvi = eng[p].hvi,
               eng'[p].key = eng[p].key, eng'[p].chain = eng[p].chain
        PROVE  /\ EngineOK(p)' /\ OwnPacket(p, c)' /\ ~Confirmed(p)'
               /\ eng'[p].state \in Open /\ eng[p].state \in Open
    <2>1. /\ eng'[p].state = "CommitSent" /\ eng'[p].sentPacket = c
          /\ eng'[p].finishing = {} /\ eng'[p].myRole = eng[p].myRole
      BY <1>2, <1>3 DEF After, Fields
    <2>2. OwnPacket(p, c)'
      BY <1>2, <1>3 DEF OwnPacket, EngineOK, Open, DHParts, Confirms
    <2>3. EngineOK(p)'
      BY <1>2, <1>3, <2>1, <2>2 DEF EngineOK, After, Open, Keyed
    <2> QED
      BY <1>2, <2>1, <2>2, <2>3 DEF Open, Confirmed
  <1> HIDE DEF upd
  <1>4. DOMAIN upd \subseteq Fields \ {"hvi", "key", "chain", "nonces"}
    BY DEF upd, Fields
  <1> QED
    BY <1>2, <1>3, <1>4, ForwardInv

LEMMA AnswerCommitDHInv ==
    \A p \in Peers : \A m \in net :
        /\ Inv /\ ~multiStream /\ m.type = "Commit" /\ eng[p].finishing = {}
        /\ eng[p].state \in {"AckSent", "WaitCommit", "CommitSent"}
        /\ AnswerCommitDH(p, m) /\ UNCHANGED used
        => Inv'
  <1> SUFFICES ASSUME NEW p \in Peers, NEW m \in net, Inv, ~multiStream, m.type = "Commit",
                      eng[p].finishing = {}, eng[p].state \in {"AckSent", "WaitCommit", "CommitSent"},
                      AnswerCommitDH(p, m), UNCHANGED used
               PROVE  Inv'
    OBVIOUS
  <1>1. PICK c : c = DHPart(p, "DHPart1")
    OBVIOUS
  <1> DEFINE upd == [state |-> "WaitDHPart2", timer |-> FALSE, heard |-> m, myRole |-> "Responder",
                     sentPacket |-> c]
  <1>2. Step(p, upd, {c}) /\ c.type = "DHPart1" /\ c.pv = eng[p].hvi /\ m.hvi \in used
    BY <1>1 DEF AnswerCommitDH, DHPart, Inv, Engines, SentPacket
  <1>3. ASSUME After(p, upd), multiStream' = multiStream, EngineOK(p), eng'[p].hvi = eng[p].hvi,
               eng'[p].key = eng[p].key, eng'[p].chain = eng[p].chain
        PROVE  /\ EngineOK(p)' /\ OwnPacket(p, c)' /\ ~Confirmed(p)'
               /\ eng'[p].state \in Open /\ eng[p].state \in Open
    <2>1. /\ eng'[p].state = "WaitDHPart2" /\ eng'[p].sentPacket = c /\ eng'[p].heard = m
          /\ eng'[p].finishing = {} /\ eng'[p].myRole = "Responder"
      BY <1>3 DEF After, Fields
    <2>2. OwnPacket(p, c)'
      BY <1>2, <1>3 DEF OwnPacket, EngineOK, Open, DHParts, Confirms
    <2>3. EngineOK(p)'
      BY <1>2, <1>3, <2>1, <2>2 DEF EngineOK, After, Open, Keyed
    <2> QED
      BY <2>1, <2>2, <2>3 DEF Open, Confirmed
  <1> HIDE DEF upd
  <1>4. DOMAIN upd \subseteq Fields \ {"hvi", "key", "chain", "nonces"}
    BY DEF upd, Fields
  <1> QED
    BY <1>2, <1>3, <1>4, ForwardInv

LEMMA ConfirmPacket ==
    ASSUME NEW p, NEW t, NEW k
    PROVE  \E c : c = Confirm(p, t, k) /\ c.type = t /\ c.key = k /\ c.to = Other(p)
  <1>1. LET c == Confirm(p, t, k) IN c.type = t /\ c.key = k /\ c.to = Other(p)
    BY DEF Confirm
  <1> QED
    BY <1>1

\* A Confirm1 or Confirm2 with our key: the peer has computed it.
LEMMA ConfirmReceived ==
    \A p \in Peers : \A m \in net :
        m.to = p /\ m.type \in Confirms /\ m.key # NoKey => m.key \in Computed(Other(p))
  BY OtherPeer DEF Computed

LEMMA ConfirmInv ==
    ASSUME Inv, NEW p \in Peers, NEW m \in net, m.key = eng[p].key,
           Confirm1InWaitConfirm1(p, m) \/ Confirm2InWaitConfirm2(p, m)
    PROVE  Inv'
  <1>0. EngineOK(p)
    BY DEF Inv, Engines
  <1>1. eng[p].state \in {"WaitConfirm1", "WaitConfirm2"} /\ eng[p].finishing = {} /\ used' = used
        /\ m.to = p /\ m.type \in Confirms
    BY DEF Confirm1InWaitConfirm1, Confirm2InWaitConfirm2, Receives, Idle, Confirms
  <1>2. eng[p].key # NoKey /\ eng[p].state \in Keyed
    BY <1>0, <1>1 DEF EngineOK, Keyed
  <1>3. eng[p].key \in Computed(Other(p))
    BY <1>1, <1>2, ConfirmReceived
  <1>4. CASE Confirm1InWaitConfirm1(p, m)
    <2>1. PICK c : c = Confirm(p, "Confirm2", eng[p].key)
      OBVIOUS
    <2>2. PICK k : k = eng[p].key
      OBVIOUS
    <2> DEFINE upd == [state |-> "WaitConfAck", rx |-> k, timer |-> TRUE, sentPacket |-> c]
    <2>3. /\ Step(p, upd, {c}) /\ eng[p].state = "WaitConfirm1"
          /\ c.type = "Confirm2" /\ c.key = k /\ c.to = Other(p)
      BY <1>4, <2>1, <2>2 DEF Confirm1InWaitConfirm1, Receives, Idle, Confirm
    <2>4. ASSUME After(p, upd), multiStream' = multiStream, eng'[p].hvi = eng[p].hvi,
                 eng'[p].key = eng[p].key, eng'[p].chain = eng[p].chain
          PROVE  EngineOK(p)' /\ OwnPacket(p, c)' /\ eng'[p].state \in Keyed
                 /\ eng'[p].myRole = eng[p].myRole
      <3>1. /\ eng'[p].state = "WaitConfAck" /\ eng'[p].sentPacket = c /\ eng'[p].rx = k
            /\ eng'[p].finishing = {} /\ eng'[p].myRole = eng[p].myRole
        BY <1>1, <2>4 DEF After, Fields
      <3>2. OwnPacket(p, c)'
        BY <1>2, <2>2, <2>3, <2>4 DEF OwnPacket, DHParts, Confirms
      <3>3. EngineOK(p)'
        BY <1>0, <1>1, <1>2, <2>2, <2>3, <2>4, <3>1, <3>2 DEF EngineOK, After, Open, Keyed
      <3> QED
        BY <3>1, <3>2, <3>3 DEF Keyed
    <2> HIDE DEF upd
    <2>5. DOMAIN upd \subseteq Fields \ {"hvi", "key", "chain", "nonces"}
      BY DEF upd, Fields
    <2> QED
      BY <1>1, <1>2, <1>3, <2>3, <2>4, <2>5, ForwardInv
  <1>5. CASE Confirm2InWaitConfirm2(p, m)
    <2>1. PICK c : c = Plain(p, "Conf2Ack")
      OBVIOUS
    <2> DEFINE upd == [finishing |-> {"ForReceiver", "ForSender"}, sentPacket |-> c]
    <2>3. Step(p, upd, {c}) /\ eng[p].state = "WaitConfirm2" /\ c.type = "Conf2Ack"
      BY <1>5, <2>1 DEF Confirm2InWaitConfirm2, Receives, Idle, Plain
    <2>4. ASSUME After(p, upd), multiStream' = multiStream, eng'[p].hvi = eng[p].hvi,
                 eng'[p].key = eng[p].key, eng'[p].chain = eng[p].chain
          PROVE  EngineOK(p)' /\ OwnPacket(p, c)' /\ eng'[p].state \in Keyed
                 /\ eng'[p].myRole = eng[p].myRole
      <3>1. /\ eng'[p].state = "WaitConfirm2" /\ eng'[p].sentPacket = c
            /\ eng'[p].finishing = {"ForReceiver", "ForSender"} /\ eng'[p].myRole = eng[p].myRole
        BY <2>3, <2>4 DEF After, Fields
      <3>2. OwnPacket(p, c)'
        BY <2>3 DEF OwnPacket, DHParts, Confirms
      <3>3. EngineOK(p)'
        BY <1>0, <1>1, <2>3, <2>4, <3>1, <3>2 DEF EngineOK, After, Open, Keyed
      <3> QED
        BY <3>1, <3>2, <3>3 DEF Keyed
    <2> HIDE DEF upd
    <2>5. DOMAIN upd \subseteq Fields \ {"hvi", "key", "chain", "nonces"}
      BY DEF upd, Fields
    <2> QED
      BY <1>1, <1>2, <1>3, <2>3, <2>4, <2>5, ForwardInv
  <1> QED
    BY <1>4, <1>5

\* SRTP is enabled, at once or by a later Conf2Ack.
LEMMA SrtpInv == \A p \in Peers : Inv /\ (EnableSrtp(p) \/ RecvConf2Ack(p)) => Inv'
  <1> SUFFICES ASSUME NEW p \in Peers, Inv, EnableSrtp(p) \/ RecvConf2Ack(p) PROVE Inv'
    OBVIOUS
  <1>0. EngineOK(p)
    BY DEF Inv, Engines
  <1>1. Confirmed(p) /\ used' = used
    BY DEF EnableSrtp, RecvConf2Ack, Idle, Confirmed
  <1>2. eng[p].key \in Computed(Other(p)) /\ eng[p].state \in Keyed
    BY <1>1, ConfirmedKey
  <1>3. ASSUME NEW upd, Step(p, upd, {}),
               DOMAIN upd \subseteq {"state", "sentPacket", "timer", "rx", "tx", "finishing"},
               After(p, upd) =>
                  /\ eng'[p].finishing = {} /\ eng'[p].rx = eng[p].key
                  /\ \/ eng'[p].state = "SecureState" /\ eng'[p].tx = eng[p].key
                     \/ eng'[p].state = "WaitConfAck" /\ eng[p].state = "WaitConfAck"
                  /\ eng'[p].sentPacket = eng[p].sentPacket \/ eng'[p].sentPacket = None
        PROVE  Inv'
    <2>1. ASSUME After(p, upd), multiStream' = multiStream, eng'[p].hvi = eng[p].hvi,
                 eng'[p].key = eng[p].key, eng'[p].chain = eng[p].chain
          PROVE  EngineOK(p)' /\ eng'[p].state \in Keyed /\ eng'[p].myRole = eng[p].myRole
      <3>1. eng'[p].myRole = eng[p].myRole
        BY <1>3, <2>1 DEF After, Fields
      <3>2. \A m : m = eng[p].sentPacket \/ m = None => OwnPacket(p, m)'
        BY <1>0, <2>1 DEF EngineOK, OwnPacket, None, DHParts, Confirms
      <3>3. OwnPacket(p, eng[p].sentPacket)'
        BY <1>3, <2>1, <3>2
      <3>4. eng[p].myRole \in {"Initiator", "Responder"}
        BY <1>0, <1>2 DEF EngineOK, Keyed
      <3>5. EngineOK(p)'
        BY <1>0, <1>1, <1>2, <1>3, <2>1, <3>1, <3>3, <3>4 DEF EngineOK, After, Open, Keyed
      <3> QED
        BY <1>3, <2>1, <3>1, <3>5 DEF Keyed
    <2>2. DOMAIN upd \subseteq Fields \ {"hvi", "key", "chain", "nonces"}
      BY <1>3 DEF Fields
    <2> QED
      BY <1>1, <1>2, <1>3, <2>1, <2>2, ForwardInv
  <1>4. CASE EnableSrtp(p) /\ "ForSender" \in eng[p].finishing
    <2> DEFINE upd == [finishing |-> {}, rx |-> eng[p].key, tx |-> eng[p].key, state |-> "SecureState"]
    <2>1. Step(p, upd, {})
      BY <1>4 DEF EnableSrtp
    <2>2. After(p, upd) => /\ eng'[p].finishing = {} /\ eng'[p].rx = eng[p].key
                           /\ eng'[p].state = "SecureState" /\ eng'[p].tx = eng[p].key
                           /\ eng'[p].sentPacket = eng[p].sentPacket
      BY DEF After, Fields
    <2> QED
      BY <1>3, <2>1, <2>2
  <1>5. CASE EnableSrtp(p) /\ "ForSender" \notin eng[p].finishing
    <2> DEFINE upd == [finishing |-> {}, rx |-> eng[p].key]
    <2>1. Step(p, upd, {}) /\ eng[p].state = "WaitConfAck"
      BY <1>0, <1>5 DEF EnableSrtp, EngineOK
    <2>2. After(p, upd) => /\ eng'[p].finishing = {} /\ eng'[p].rx = eng[p].key
                           /\ eng'[p].state = eng[p].state
                           /\ eng'[p].sentPacket = eng[p].sentPacket
      BY DEF After, Fields
    <2> QED
      BY <1>3, <2>1, <2>2
  <1>6. CASE RecvConf2Ack(p)
    <2> DEFINE upd == [state |-> "SecureState", tx |-> eng[p].key, timer |-> FALSE, sentPacket |-> None]
    <2>1. Step(p, upd, {}) /\ eng[p].finishing = {} /\ eng[p].rx = eng[p].key
      BY <1>0, <1>6 DEF RecvConf2Ack, Idle, EngineOK
    <2>2. After(p, upd) => /\ eng'[p].finishing = eng[p].finishing /\ eng'[p].rx = eng[p].rx
                           /\ eng'[p].state = "SecureState" /\ eng'[p].tx = eng[p].key
                           /\ eng'[p].sentPacket = None
      BY DEF After, Fields
    <2> QED
      BY <1>3, <2>1, <2>2
  <1> QED
    BY <1>4, <1>5, <1>6

\* A Hello that starts a session.
LEMMA DrawInv ==
    \A p \in Peers : \A m \in net : \A h \in 1..MaxHvi :
        Inv /\ (HelloInDetect(p, m, h) \/ HelloInAckDetected(p, m, h)) => Inv'
  <1> SUFFICES ASSUME NEW p \in Peers, NEW m \in net, NEW h \in 1..MaxHvi, Inv,
                      HelloInDetect(p, m, h) \/ HelloInAckDetected(p, m, h)
               PROVE  Inv'
    OBVIOUS
  <1>0. Engines /\ EngineOK(p) /\ Other(p) \in Peers
    BY OtherPeer DEF Inv, Engines
  <1>1. PICK c : c = HelloAck(p) /\ c.type = "HelloAck"
    <2>1. HelloAck(p).type = "HelloAck"
      BY DEF HelloAck
    <2> QED
      BY <2>1
  <1>2. /\ h \in Nat \ (used \cup {0}) /\ used' = used \cup {h} /\ eng[p].finishing = {}
        /\ eng[p].state \in {"Detect", "AckDetected"} /\ eng[p].sentPacket.type \in {"Hello", "None"}
    BY <1>0, HandshakeConstants
    DEF HelloInDetect, HelloInAckDetected, Receives, Idle, PrepareCommit, EngineOK
  <1>3. PICK upd : /\ Step(p, upd, {c})
                   /\ DOMAIN upd \subseteq {"state", "timer", "sentPacket", "peerChain", "hvi", "myRole"}
                   /\ {"state", "hvi", "myRole"} \subseteq DOMAIN upd
                   /\ upd.hvi = h /\ upd.myRole = "Initiator"
                   /\ \/ upd.state = "AckSent" /\ "sentPacket" \notin DOMAIN upd
                      \/ upd.state = "WaitCommit" /\ "sentPacket" \in DOMAIN upd /\ upd.sentPacket = c
    <2>1. CASE HelloInDetect(p, m, h)
      <3> DEFINE u == Override([state |-> "AckSent", timer |-> TRUE], Prepared(m, h))
      <3>1. /\ DOMAIN u = {"state", "timer", "peerChain", "hvi", "myRole"} /\ u.state = "AckSent"
            /\ u.hvi = h /\ u.myRole = "Initiator"
        BY DEF Override, Prepared
      <3> HIDE DEF u
      <3>2. Step(p, u, {c})
        BY <1>1, <2>1 DEF HelloInDetect, u
      <3> QED
        BY <3>1, <3>2
    <2>2. CASE HelloInAckDetected(p, m, h)
      <3> DEFINE u == Override([state |-> "WaitCommit", sentPacket |-> c], Prepared(m, h))
      <3>1. /\ DOMAIN u = {"state", "sentPacket", "peerChain", "hvi", "myRole"} /\ u.state = "WaitCommit"
            /\ u.hvi = h /\ u.myRole = "Initiator" /\ u.sentPacket = c
        BY DEF Override, Prepared
      <3> HIDE DEF u
      <3>2. Step(p, u, {c})
        BY <1>1, <2>2 DEF HelloInAckDetected, u
      <3> QED
        BY <3>1, <3>2
    <2> QED
      BY <2>1, <2>2
  <1>4. DOMAIN upd \subseteq Fields
    BY <1>3 DEF Fields
  <1>5. After(p, upd) /\ multiStream' = multiStream
    BY <1>0, <1>3, <1>4, StepFields DEF Engines, EngineOK, After, Step
  <1>6. /\ eng'[p].hvi = h /\ eng'[p].myRole = "Initiator" /\ eng'[p].key = eng[p].key
        /\ eng'[p].chain = eng[p].chain /\ eng'[p].nonces = eng[p].nonces /\ eng'[p].finishing = {}
        /\ eng'[p].state \in {"AckSent", "WaitCommit"}
    BY <1>2, <1>3, <1>5 DEF After, Fields
  <1>7. /\ eng'[p].sentPacket.type \in {"Hello", "None", "HelloAck"}
        /\ eng'[p].state = "AckSent" => eng'[p].sentPacket.type \in {"Hello", "None"}
    BY <1>1, <1>2, <1>3, <1>5 DEF After, Fields
  <1>8. \A x : x.type \in {"Hello", "None", "HelloAck"} => OwnPacket(p, x)'
    BY DEF OwnPacket, DHParts, Confirms
  <1>9. OwnPacket(p, eng[p].sentPacket)'
    BY <1>7, <1>8
  <1>10. EngineOK(p)'
    BY <1>0, <1>2, <1>5, <1>6, <1>7, <1>9 DEF EngineOK, After, Open, Keyed
  <1>11. eng'[p].key # NoKey => Values(eng'[p].key) \subseteq used'
    BY <1>0, <1>2, <1>6, CurrentKey DEF Engines
  <1>12. eng[Other(p)].hvi \in used \cup {0}
    BY <1>0 DEF Engines, EngineOK
  <1>13. ~Confirmed(p)'
    BY <1>6 DEF Confirmed
  <1>14. used \subseteq used' /\ used' \subseteq Nat \ {0}
    BY <1>0, <1>2 DEF Engines
  <1>15. StepOf(p)
    BY <1>0, <1>1, <1>2, <1>3, <1>4, <1>6, <1>8, <1>10, <1>11, <1>12, <1>13, <1>14, EnginesStep
  <1> QED
    BY <1>2, <1>6, <1>15, NewValue

\* A DHPart1 or a DHPart2: the keys of DH mode.
LEMMA DHKeyInv ==
    \A p \in Peers : \A m \in net : Inv /\ (RecvDHPart1(p, m) \/ RecvDHPart2(p, m)) => Inv'
  <1> SUFFICES ASSUME NEW p \in Peers, NEW m \in net, Inv, RecvDHPart1(p, m) \/ RecvDHPart2(p, m)
               PROVE  Inv'
    OBVIOUS
  <1>0. Engines /\ EngineOK(p)
    BY DEF Inv, Engines
  <1>1. /\ used' = used /\ eng[p].finishing = {} /\ eng[p].state \in {"CommitSent", "WaitDHPart2"}
        /\ eng[p].hvi # 0 /\ eng[p].hvi \in used
    BY <1>0 DEF RecvDHPart1, RecvDHPart2, Receives, Idle, EngineOK, Open
  <1>2. ~multiStream /\ m.pv \in used
    BY <1>0 DEF RecvDHPart1, RecvDHPart2, Receives, Engines, SentPacket, DHParts
  <1>3. ASSUME NEW upd, NEW k, NEW c, Step(p, upd, {c}), k # NoKey, Values(k) \subseteq used,
               DOMAIN upd \subseteq {"state", "key", "sentPacket", "timer"},
               {"state", "key", "sentPacket"} \subseteq DOMAIN upd, upd.key = k, upd.sentPacket = c,
               \/ /\ upd.state = "WaitConfirm1" /\ eng[p].myRole = "Initiator" /\ k[3] = eng[p].hvi
                  /\ c.type = "DHPart2" /\ c.pv = eng[p].hvi
               \/ /\ upd.state = "WaitConfirm2" /\ eng[p].myRole = "Responder" /\ k[6] = eng[p].hvi
                  /\ c.type = "Confirm1" /\ c.key = k /\ c.to = Other(p)
        PROVE  Inv'
    <2>1. DOMAIN upd \subseteq Fields
      BY <1>3 DEF Fields
    <2>2. After(p, upd) /\ multiStream' = multiStream
      BY <1>0, <1>3, <2>1, StepFields DEF Engines, EngineOK, After, Step
    <2>3. /\ eng'[p].key = k /\ eng'[p].hvi = eng[p].hvi /\ eng'[p].chain = eng[p].chain
          /\ eng'[p].myRole = eng[p].myRole /\ eng'[p].finishing = {} /\ eng'[p].state = upd.state
          /\ eng'[p].sentPacket = c
      BY <1>1, <1>3, <2>2 DEF After, Fields
    <2>4. OwnPacket(p, c)'
      BY <1>1, <1>2, <1>3, <2>2, <2>3 DEF OwnPacket, DHParts, Confirms
    <2>5. EngineOK(p)'
      BY <1>0, <1>1, <1>2, <1>3, <2>2, <2>3, <2>4 DEF EngineOK, After, Open, Keyed
    <2>6. ~Confirmed(p)' /\ eng[p].state \in Open /\ eng'[p].state \in Keyed
      BY <1>1, <1>3, <2>3 DEF Confirmed, Open, Keyed
    <2>7. StepOf(p)
      BY <1>0, <1>1, <1>3, <2>1, <2>3, <2>4, <2>5, <2>6, EnginesStep DEF Engines
    <2> QED
      BY <1>2, <1>3, <2>3, <2>6, <2>7, NewKeyDH
  <1>4. CASE RecvDHPart1(p, m)
    <2>1. CASE m.chain = eng[p].peerChain
      <3>1. PICK c : c = DHPart(p, "DHPart2") /\ c.type = "DHPart2" /\ c.pv = eng[p].hvi
        <4>1. DHPart(p, "DHPart2").type = "DHPart2" /\ DHPart(p, "DHPart2").pv = eng[p].hvi
          BY DEF DHPart
        <4> QED
          BY <4>1
      <3>2. PICK k : k = DHKey(eng[p].peerChain, OwnCommit(p), m, c)
        OBVIOUS
      <3>3. k # NoKey /\ k[3] = eng[p].hvi /\ k[6] = m.pv
        BY <3>2 DEF DHKey, OwnCommit, NoKey
      <3>4. Values(k) \subseteq used
        BY <1>1, <1>2, <3>3 DEF Values
      <3> DEFINE upd == [state |-> "WaitConfirm1", sentPacket |-> c, timer |-> TRUE, key |-> k]
      <3>5. Step(p, upd, {c}) /\ eng[p].myRole = "Initiator"
        BY <1>0, <1>4, <2>1, <3>1, <3>2 DEF RecvDHPart1, Receives, Idle, EngineOK
      <3> QED
        BY <1>3, <3>1, <3>3, <3>4, <3>5
    <2>2. CASE m.chain # eng[p].peerChain
      <3>1. /\ Step(p, [sentPacket |-> None, timer |-> TRUE], {}) /\ None.type = "None"
            /\ eng[p].state = "CommitSent"
        BY <1>4, <2>2 DEF RecvDHPart1, Receives, Idle, None
      <3> QED
        BY <1>1, <3>1, Harmless DEF DHParts, Confirms
    <2> QED
      BY <2>1, <2>2
  <1>5. CASE RecvDHPart2(p, m)
    <2>1. PICK b : b = eng[p].heard /\ b.hvi \in used
      BY <1>0, <1>5 DEF RecvDHPart2, Receives, Idle, EngineOK
    <2>2. CASE m.pv = b.hvi /\ b.hello = eng[p].chain
      <3>1. PICK d : d = DHPart(p, "DHPart1") /\ d.pv = eng[p].hvi
        <4>1. DHPart(p, "DHPart1").pv = eng[p].hvi
          BY DEF DHPart
        <4> QED
          BY <4>1
      <3>2. PICK k : k = DHKey(eng[p].chain, b, d, m)
        OBVIOUS
      <3>3. k # NoKey /\ k[3] = b.hvi /\ k[6] = eng[p].hvi
        BY <3>1, <3>2 DEF DHKey, NoKey
      <3>4. Values(k) \subseteq used
        BY <1>1, <2>1, <3>3 DEF Values
      <3>5. PICK c : /\ c = Confirm(p, "Confirm1", k)
                     /\ c.type = "Confirm1" /\ c.key = k /\ c.to = Other(p)
        BY ConfirmPacket
      <3> DEFINE upd == [state |-> "WaitConfirm2", key |-> k, sentPacket |-> c]
      <3>6. Step(p, upd, {c}) /\ eng[p].myRole = "Responder"
        BY <1>0, <1>5, <2>1, <2>2, <3>1, <3>2, <3>5 DEF RecvDHPart2, Receives, Idle, EngineOK
      <3> QED
        BY <1>3, <3>3, <3>4, <3>5, <3>6
    <2>3. CASE ~(m.pv = b.hvi /\ b.hello = eng[p].chain)
      <3>1. SendError(p)
        BY <1>5, <2>1, <2>3 DEF RecvDHPart2
      <3> QED
        BY <1>1, <3>1, SendErrorInv
    <2> QED
      BY <2>2, <2>3
  <1> QED
    BY <1>4, <1>5

\* A Commit that is answered with Confirm1, or that Confirm1: the keys of
\* multi-stream mode.
LEMMA MultiKeyStep ==
    ASSUME Inv, multiStream, NEW p \in Peers, NEW upd, NEW k, NEW c, NEW own \in [Nat -> Peers],
           Step(p, upd, {c}), used' = used, Owned(own), NonceSeen(own),
           eng[p].state \in {"AckSent", "WaitCommit", "CommitSent"}, eng[p].finishing = {},
           DOMAIN upd \subseteq Fields \ {"hvi", "chain", "rx", "tx"},
           {"state", "key", "sentPacket", "myRole"} \subseteq DOMAIN upd,
           k # NoKey, k[3] \in used, upd.key = k, upd.sentPacket = c,
           c.type \in Confirms, c.key = k, c.to = Other(p),
           \/ /\ upd.state = "WaitConfAck" /\ upd.myRole = "Initiator" /\ "nonces" \notin DOMAIN upd
              /\ "finishing" \in DOMAIN upd /\ upd.finishing = {"ForReceiver"}
              /\ k[3] = eng[p].hvi /\ k \in Computed(Other(p))
           \/ /\ upd.state = "WaitConfirm2" /\ upd.myRole = "Responder"
              /\ "finishing" \notin DOMAIN upd
              /\ "nonces" \in DOMAIN upd /\ upd.nonces = eng[p].nonces \cup {k[3]}
              /\ k[1] = eng[p].chain /\ k[3] \notin eng[p].nonces /\ own[k[3]] = Other(p)
    PROVE  Inv'
  <1>0. Engines /\ EngineOK(p)
    BY DEF Inv, Engines
  <1>1. After(p, upd) /\ multiStream' = multiStream
    BY <1>0, StepFields DEF Engines, EngineOK, After, Step
  <1>2. /\ eng'[p].key = k /\ eng'[p].hvi = eng[p].hvi /\ eng'[p].chain = eng[p].chain
        /\ eng'[p].myRole = upd.myRole /\ eng'[p].state = upd.state /\ eng'[p].sentPacket = c
        /\ eng'[p].finishing = IF "finishing" \in DOMAIN upd THEN upd.finishing ELSE {}
        /\ eng'[p].nonces = IF "nonces" \in DOMAIN upd THEN upd.nonces ELSE eng[p].nonces
    BY <1>1 DEF After, Fields
  <1>3. OwnPacket(p, c)'
    BY <1>2 DEF OwnPacket, DHParts, Confirms
  <1>4. EngineOK(p)'
    BY <1>0, <1>1, <1>2, <1>3 DEF EngineOK, After, Open, Keyed
  <1>5. eng[p].state \in Open /\ eng'[p].state \in Keyed
    BY <1>2 DEF Open, Keyed
  <1>6. Confirmed(p)' => upd.state = "WaitConfAck"
    BY <1>2 DEF Confirmed
  <1>7. Values(k)' \subseteq used' /\ Values(k) \subseteq used
    BY <1>1 DEF Values
  <1>8. StepOf(p)
    BY <1>0, <1>2, <1>3, <1>4, <1>6, <1>7, EnginesStep DEF Engines
  <1> QED
    BY <1>2, <1>5, <1>6, <1>8, NewKeyMulti

LEMMA AnswerCommitMultiInv ==
    \A p \in Peers : \A m \in net :
        /\ Inv /\ multiStream /\ m.type = "Commit" /\ m.to = p /\ eng[p].finishing = {}
        /\ eng[p].state \in {"AckSent", "WaitCommit", "CommitSent"}
        /\ AnswerCommitMulti(p, m) /\ UNCHANGED used
        => Inv'
  <1> SUFFICES ASSUME NEW p \in Peers, NEW m \in net, Inv, multiStream, m.type = "Commit", m.to = p,
                      eng[p].finishing = {}, eng[p].state \in {"AckSent", "WaitCommit", "CommitSent"},
                      AnswerCommitMulti(p, m), UNCHANGED used
               PROVE  Inv'
    OBVIOUS
  <1>1. CASE m.hvi \in eng[p].nonces
    <2>1. SendError(p)
      BY <1>1 DEF AnswerCommitMulti
    <2> QED
      BY <2>1, SendErrorInv
  <1>2. CASE m.hvi \notin eng[p].nonces
    <2>1. PICK k : k = MultiKey(eng[p].chain, m)
      OBVIOUS
    <2>2. k # NoKey /\ k[1] = eng[p].chain /\ k[3] = m.hvi
      BY <2>1 DEF MultiKey, NoKey
    <2>3. PICK c : c = Confirm(p, "Confirm1", k) /\ c.type = "Confirm1" /\ c.key = k /\ c.to = Other(p)
      BY ConfirmPacket
    <2>4. PICK own \in [Nat -> Peers] : Owned(own) /\ NonceSeen(own)
      BY DEF Inv, MultiSessions
    <2>5. m.hvi \in used /\ own[m.hvi] = Other(p)
      BY <2>4 DEF Inv, Engines, SentPacket, Owned
    <2> DEFINE upd == [state |-> "WaitConfirm2", timer |-> FALSE, heard |-> m, myRole |-> "Responder",
                       key |-> k, nonces |-> eng[p].nonces \cup {m.hvi}, sentPacket |-> c]
    <2>6. Step(p, upd, {c})
      BY <1>2, <2>1, <2>3 DEF AnswerCommitMulti
    <2>7. /\ DOMAIN upd = {"state", "timer", "heard", "myRole", "key", "nonces", "sentPacket"}
          /\ upd.state = "WaitConfirm2" /\ upd.myRole = "Responder" /\ upd.key = k
          /\ upd.nonces = eng[p].nonces \cup {k[3]} /\ upd.sentPacket = c
      BY <2>2
    <2> HIDE DEF upd
    <2>8. DOMAIN upd \subseteq Fields \ {"hvi", "chain", "rx", "tx"} /\ c.type \in Confirms
      BY <2>3, <2>7 DEF Fields, Confirms
    <2> QED
      BY <1>2, <2>2, <2>3, <2>4, <2>5, <2>6, <2>7, <2>8, MultiKeyStep
  <1> QED
    BY <1>1, <1>2

LEMMA Confirm1InCommitSentInv ==
    \A p \in Peers : \A m \in net : Inv /\ Confirm1InCommitSent(p, m) => Inv'
  <1> SUFFICES ASSUME NEW p \in Peers, NEW m \in net, Inv, Confirm1InCommitSent(p, m) PROVE Inv'
    OBVIOUS
  <1>1. PICK k : k = MultiKey(eng[p].peerChain, OwnCommit(p))
    OBVIOUS
  <1>2. /\ multiStream /\ used' = used /\ eng[p].state = "CommitSent" /\ eng[p].finishing = {}
        /\ m.to = p /\ m.type \in Confirms
    BY DEF Confirm1InCommitSent, Receives, Idle, Confirms
  <1>3. CASE m.key = k
    <2>1. k # NoKey /\ k[3] = eng[p].hvi
      BY <1>1 DEF MultiKey, OwnCommit, NoKey
    <2>2. PICK c : c = Confirm(p, "Confirm2", k) /\ c.type = "Confirm2" /\ c.key = k /\ c.to = Other(p)
      BY ConfirmPacket
    <2>3. PICK own \in [Nat -> Peers] : Owned(own) /\ NonceSeen(own)
      BY <1>2 DEF Inv, MultiSessions
    <2>4. eng[p].hvi \in used /\ k \in Computed(Other(p))
      BY <1>2, <1>3, <2>1, ConfirmReceived DEF Inv, Engines, EngineOK, Open
    <2> DEFINE upd == [state |-> "WaitConfAck", key |-> k, timer |-> TRUE, myRole |-> "Initiator",
                       finishing |-> {"ForReceiver"}, sentPacket |-> c]
    <2>5. Step(p, upd, {c})
      BY <1>1, <1>3, <2>2 DEF Confirm1InCommitSent
    <2>6. /\ DOMAIN upd = {"state", "timer", "myRole", "key", "finishing", "sentPacket"}
          /\ upd.state = "WaitConfAck" /\ upd.myRole = "Initiator" /\ upd.key = k
          /\ upd.finishing = {"ForReceiver"} /\ upd.sentPacket = c
      OBVIOUS
    <2> HIDE DEF upd
    <2>7. DOMAIN upd \subseteq Fields \ {"hvi", "chain", "rx", "tx"} /\ c.type \in Confirms
      BY <2>2, <2>6 DEF Fields, Confirms
    <2> QED
      BY <1>2, <2>1, <2>2, <2>3, <2>4, <2>5, <2>6, <2>7, MultiKeyStep
  <1>4. CASE m.key # k
    <2>1. SendError(p)
      BY <1>1, <1>4 DEF Confirm1InCommitSent
    <2> QED
      BY <1>2, <2>1, SendErrorInv
  <1> QED
    BY <1>3, <1>4

LEMMA AnswerCommitInv ==
    \A p \in Peers : \A m \in net :
        /\ Inv /\ m.type = "Commit" /\ m.to = p /\ eng[p].finishing = {}
        /\ eng[p].state \in {"AckSent", "WaitCommit", "CommitSent"}
        /\ AnswerCommit(p, m) /\ UNCHANGED used
        => Inv'
  BY AnswerCommitDHInv, AnswerCommitMultiInv DEF AnswerCommit

LEMMA NewObjectInv == \A p \in Peers : Inv /\ NewObject(p) => Inv'
  <1> SUFFICES ASSUME NEW p \in Peers, Inv, NewObject(p) PROVE Inv'
    OBVIOUS
  <1>0. Engines /\ EngineOK(p)
    BY DEF Inv, Engines
  <1> DEFINE upd == [NewEngine(eng[p].chain + 1) EXCEPT !.rx = Ended(p).rx, !.tx = Ended(p).tx]
  <1>1. Step(p, upd, {}) /\ used' = used
    BY DEF NewObject
  <1>2. /\ DOMAIN upd = Fields /\ upd.state = "Initial" /\ upd.chain = eng[p].chain + 1
        /\ upd.hvi = 0 /\ upd.key = NoKey /\ upd.finishing = {} /\ upd.sentPacket = None
    BY DEF NewEngine, Fields
  <1> HIDE DEF upd
  <1>3. After(p, upd) /\ multiStream' = multiStream
    BY <1>0, <1>1, <1>2, StepFields DEF Engines, EngineOK, After, Step
  <1>4. /\ eng'[p].state = "Initial" /\ eng'[p].chain = eng[p].chain + 1 /\ eng'[p].hvi = 0
        /\ eng'[p].key = NoKey /\ eng'[p].finishing = {} /\ eng'[p].sentPacket = None
    BY <1>2, <1>3 DEF After, Fields
  <1>5. PICK c : c = None /\ OwnPacket(p, c)'
    <2>1. \A c : c = None => OwnPacket(p, c)'
      BY DEF OwnPacket, None, DHParts, Confirms
    <2> QED
      BY <2>1
  <1>6. EngineOK(p)'
    BY <1>0, <1>3, <1>4, <1>5 DEF EngineOK, After, Open, Keyed
  <1>7. ~Confirmed(p)'
    BY <1>4 DEF Confirmed
  <1>8. StepOf(p)
    BY <1>0, <1>1, <1>2, <1>4, <1>6, <1>7, EnginesStep DEF Engines
  <1> QED
    BY <1>4, <1>8, NewObjectStep

-----------------------------------------------------------------------------
(* The theorem.                                                              *)

LEMMA DeliverInv == \A p \in Peers : \A m \in net : Inv /\ Deliver(p, m) => Inv'
  <1> SUFFICES ASSUME NEW p \in Peers, NEW m \in net, Inv, Deliver(p, m) PROVE Inv'
    OBVIOUS
  <1>1. CASE \E h \in 1..MaxHvi : HelloInDetect(p, m, h) \/ HelloInAckDetected(p, m, h)
    BY <1>1, DrawInv
  <1>2. CASE HelloAckInDetect(p, m) \/ HelloInAckSent(p, m) \/ RecvError(p, m) \/ RecvErrorAck(p, m)
    BY <1>2, AsideInv
  <1>3. CASE HelloAckInAckSent(p, m)
    BY <1>3, HelloAckInAckSentInv
  <1>4. CASE \/ HelloInWaitCommit(p, m) \/ CommitInWaitDHPart2(p, m)
             \/ RepeatedInWaitConfirm2(p, m) \/ Confirm2InSecure(p, m)
    BY <1>4, ResendInv
    DEF HelloInWaitCommit, CommitInWaitDHPart2, RepeatedInWaitConfirm2, Confirm2InSecure
  <1>5. CASE CommitWhileWaiting(p, m) \/ CommitClash(p, m)
    <2>1. /\ m.type = "Commit" /\ m.to = p /\ eng[p].finishing = {} /\ UNCHANGED used
          /\ eng[p].state \in {"AckSent", "WaitCommit", "CommitSent"}
          /\ AnswerCommit(p, m) \/ Step(p, [timer |-> FALSE], {}) \/ Step(p, [timer |-> TRUE], {})
      BY <1>5 DEF CommitWhileWaiting, CommitClash, Receives, Idle
    <2> QED
      BY <2>1, AnswerCommitInv, IgnoredInv
  <1>6. CASE RecvDHPart1(p, m) \/ RecvDHPart2(p, m)
    BY <1>6, DHKeyInv
  <1>7. CASE Confirm1InWaitConfirm1(p, m) \/ Confirm2InWaitConfirm2(p, m)
    <2>1. CASE m.key = eng[p].key
      BY <1>7, <2>1, ConfirmInv
    <2>2. CASE m.key # eng[p].key
      <3>1. SendError(p) /\ eng[p].finishing = {} /\ UNCHANGED used
        BY <1>7, <2>2 DEF Confirm1InWaitConfirm1, Confirm2InWaitConfirm2, Receives, Idle
      <3> QED
        BY <3>1, SendErrorInv
    <2> QED
      BY <2>1, <2>2
  <1>8. CASE Confirm1InCommitSent(p, m)
    BY <1>8, Confirm1InCommitSentInv
  <1> QED
    BY <1>1, <1>2, <1>3, <1>4, <1>5, <1>6, <1>7, <1>8 DEF Deliver

LEMMA NextInv == Inv /\ [Next]_vars => Inv'
  <1> SUFFICES ASSUME Inv, [Next]_vars PROVE Inv'
    OBVIOUS
  <1>1. ASSUME NEW p \in Peers, Exchange(p) PROVE Inv'
    <2>1. CASE \E m \in net : Deliver(p, m)
      BY <2>1, DeliverInv
    <2>2. CASE StartZrtp(p)
      BY <2>2, AsideInv
    <2>3. CASE RecvConf2Ack(p) \/ EnableSrtp(p)
      BY <2>3, SrtpInv
    <2>4. CASE Timeout(p)
      BY <2>4, ResendInv DEF Timeout
    <2> QED
      BY <1>1, <2>1, <2>2, <2>3, <2>4 DEF Exchange
  <1>2. ASSUME NEW p \in Peers, Disturb(p) PROVE Inv'
    BY <1>2, AsideInv, NewObjectInv DEF Disturb
  <1>3. CASE \E m \in net : Lose(m)
    BY <1>3, LoseStep DEF Lose
  <1>4. CASE UNCHANGED vars
    BY <1>4, LoseStep DEF vars
  <1> QED
    BY <1>1, <1>2, <1>3, <1>4 DEF Next, UndisturbedNext

LEMMA InitInv == Init => Inv
  <1> SUFFICES ASSUME Init PROVE Inv
    OBVIOUS
  <1>1. \A p \in Peers : eng[p] = NewEngine(1)
    BY DEF Init
  <1>2. \A p \in Peers : EngineOK(p) /\ eng[p].hvi = 0 /\ eng[p].key = NoKey /\ ~Confirmed(p)
    BY <1>1 DEF NewEngine, EngineOK, OwnPacket, None, Fields, Open, Keyed, DHParts, Confirms, Confirmed
  <1>3. \A p \in Peers : Computed(p) = {}
    BY <1>2, OtherPeer DEF Init, Computed
  <1>4. Engines
    BY <1>2, <1>3, HandshakeConstants DEF Init, Engines
  <1>5. \A p \in Peers : eng[p].state \notin Keyed
    BY <1>1 DEF NewEngine, Keyed
  <1>6. DHSessions
    BY <1>3, <1>5 DEF DHSessions, OneKey, OwnValue, InOneOrder
  <1>7. \E own \in [Nat -> Peers] : Owned(own) /\ NonceSeen(own)
    <2>1. PICK p \in Peers : TRUE
      BY HandshakeConstants, FS_EmptySet
    <2> DEFINE own == [n \in Nat |-> p]
    <2>2. own \in [Nat -> Peers] /\ Owned(own) /\ NonceSeen(own)
      BY <1>2, <1>3, <1>5 DEF Init, Owned, NonceSeen
    <2> QED
      BY <2>2
  <1>8. MultiSessions
    BY <1>3, <1>5, <1>7, OtherPeer
    DEF MultiSessions, OneKey, Responds, AnsweredLater, NotBothEarlier, NotBothRespond
  <1> QED
    BY <1>4, <1>6, <1>8 DEF Inv

\* Two engines that are both secure have each seen the other confirm the key.
LEMMA InvKeysAgree == Inv => KeysAgree
  <1> SUFFICES ASSUME Inv, NEW p \in Peers, NEW q, q = Other(p), Secure(p), Secure(q)
               PROVE  /\ eng[p].key = eng[q].key /\ eng[p].myRole # eng[q].myRole
                      /\ eng[p].tx = eng[q].rx
    BY DEF KeysAgree
  <1>0. q \in Peers /\ Other(q) = p /\ p # q
    BY OtherPeer
  <1>1. EngineOK(p) /\ EngineOK(q) /\ eng[p].hvi # eng[q].hvi
    BY <1>0 DEF Inv, Engines, EngineOK, Secure, Keyed
  <1>2. eng[p].key \in Computed(q) /\ eng[q].key \in Computed(p)
    BY <1>0, ConfirmedKey DEF Secure, Confirmed
  <1>3. /\ eng[p].state \in Keyed /\ eng[q].state \in Keyed
        /\ eng[p].myRole \in {"Initiator", "Responder"} /\ eng[q].myRole \in {"Initiator", "Responder"}
    BY <1>1 DEF EngineOK, Secure, Keyed
  <1>4. CASE ~multiStream
    <2>1. DHSessions
      BY <1>4 DEF Inv
    <2>2. eng[p].hvi \in Values(eng[p].key) /\ eng[q].hvi \in Values(eng[q].key)
      BY <1>0, <1>3, <1>4, <2>1 DEF DHSessions, OwnValue, Values
    <2>3. eng[p].key = eng[q].key
      BY <1>0, <1>2, <2>1, <2>2 DEF DHSessions, OneKey, InOneOrder
    <2>4. eng[p].myRole # eng[q].myRole
      BY <1>0, <1>1, <1>3, <2>1, <2>3 DEF DHSessions, OwnValue
    <2> QED
      BY <2>3, <2>4, <1>1 DEF EngineOK, Secure
  <1>5. CASE multiStream
    <2>1. MultiSessions
      BY <1>5 DEF Inv
    <2>2. PICK own \in [Nat -> Peers] : Owned(own)
      BY <2>1 DEF MultiSessions
    <2>3. \A k : Values(k) = {k[3]}
      BY <1>5 DEF Values
    <2>4. ~(eng[p].myRole = "Responder" /\ eng[q].myRole = "Responder")
      BY <1>0, <1>2, <1>3, <2>1 DEF MultiSessions, NotBothRespond, Responds
    <2>5. ~(eng[p].myRole = "Initiator" /\ eng[q].myRole = "Initiator")
      <3> SUFFICES ASSUME eng[p].myRole = "Initiator", eng[q].myRole = "Initiator" PROVE FALSE
        OBVIOUS
      <3>1. eng[p].key[3] = eng[p].hvi /\ eng[q].key[3] = eng[q].hvi
        BY <1>0, <1>3, <2>2 DEF Owned
      <3>2. eng[p].key # eng[q].key
        BY <1>1, <3>1
      <3> QED
        BY <1>0, <1>2, <2>1, <3>1, <3>2 DEF MultiSessions, NotBothEarlier
    <2>6. ASSUME NEW r \in Peers, NEW s \in Peers, s = Other(r), r = Other(s),
                 eng[r].myRole = "Initiator", eng[s].myRole = "Responder",
                 eng[r].state \in Keyed, eng[s].state \in Keyed,
                 eng[r].key \in Computed(s), eng[s].key \in Computed(r)
          PROVE  eng[r].key = eng[s].key
      <3>1. eng[r].key[3] = eng[r].hvi
        BY <2>2, <2>6 DEF Owned
      <3>2. Responds(s)
        BY <2>6 DEF Responds
      <3>3. eng[s].key[3] = eng[r].hvi
        BY <2>1, <2>6, <3>1, <3>2 DEF MultiSessions, AnsweredLater
      <3> QED
        BY <2>1, <2>3, <2>6, <3>3 DEF MultiSessions, OneKey
    <2>7. eng[p].key = eng[q].key
      BY <1>0, <1>2, <1>3, <2>4, <2>5, <2>6
    <2>8. eng[p].myRole # eng[q].myRole
      BY <1>3, <2>4, <2>5
    <2> QED
      BY <1>1, <2>7, <2>8 DEF EngineOK, Secure
  <1> QED
    BY <1>4, <1>5

\* In both modes, with engines that give up, start again or are replaced at any
\* moment, and with all the packets of earlier sessions still on the network: two
\* engines in SecureState have the same keys, the sender of each the keys of the
\* receiver of the other, and opposite roles.
THEOREM KeysAgreeHolds == Spec => []KeysAgree
  <1>1. Inv => KeysAgree
    BY InvKeysAgree
  <1> QED
    BY <1>1, InitInv, NextInv, PTL DEF Spec

-----------------------------------------------------------------------------
(* The undisturbed exchange.  e is an engine and f that of its peer; ms says *)
(* whether they run in multi-stream mode.                                    *)

\* The engine has sent a Commit that stands; its Commit has been answered.
Committed == {"CommitSent", "WaitConfirm1", "WaitConfAck", "SecureState"}
Answered  == {"WaitConfirm1", "WaitConfAck", "SecureState"}

\* The one key of the session: i is the Initiator's engine, r the Responder's.
SessionKey(ms, i, r) ==
    IF ms THEN <<1, 1, i.hvi>> ELSE <<1, 1, i.hvi, 1, 1, r.hvi, 1, i.hvi>>

\* The engine has seen its peer's confirmation and enables both directions.
Done(e) == e.state = "SecureState" \/ "ForSender" \in e.finishing

\* Role, value and state go together.
InRole(e) ==
    \/ /\ e.myRole = "NoRole" /\ e.state \in {"Initial", "Detect", "AckDetected"} /\ e.hvi = 0
    \/ /\ e.myRole = "Initiator" /\ e.state \in {"AckSent", "WaitCommit"} \cup Committed
       /\ e.hvi \in 1..MaxHvi /\ e.peerChain = 1
    \/ /\ e.myRole = "Responder" /\ e.state \in {"WaitDHPart2", "WaitConfirm2", "SecureState"}
       /\ e.hvi \in 1..MaxHvi /\ e.peerChain = 1

\* What the engine holds in its state.
Content(ms, e, f) ==
    /\ DOMAIN e = Fields /\ e.chain = 1
    /\ e.hvi # 0 => e.hvi # f.hvi
    /\ e.myRole # "Responder" => e.nonces = {}
    /\ e.state \in {"WaitDHPart2", "WaitConfirm1"} => ~ms
    /\ e.state = "WaitDHPart2" => e.heard.chain = 1 /\ e.heard.hvi = f.hvi /\ e.heard.hello = 1
    /\ e.key = IF e.state \notin Keyed THEN NoKey
               ELSE IF e.myRole = "Initiator" THEN SessionKey(ms, e, f) ELSE SessionKey(ms, f, e)
    /\ \/ e.finishing = {}
       \/ e.finishing = {"ForReceiver"} /\ e.state = "WaitConfAck"
       \/ e.finishing = {"ForReceiver", "ForSender"} /\ e.state = "WaitConfirm2"
    /\ e.tx = IF e.state = "SecureState" THEN e.key ELSE NoKey
    /\ e.state = "SecureState" \/ (e.state = "WaitConfAck" /\ e.finishing = {}) => e.rx = e.key

\* How far the peer has come.
InStep(e, f) ==
    /\ e.myRole = "Responder" => f.myRole = "Initiator" /\ f.state \in Committed
    /\ e.myRole = "Responder" /\ Done(e) => f.state \in {"WaitConfAck", "SecureState"}
    /\ e.myRole = "Initiator" /\ e.state \in Answered => f.myRole = "Responder"
    /\ e.state = "WaitConfAck" => f.state \in {"WaitConfirm2", "SecureState"}
    /\ e.myRole = "Initiator" /\ e.state = "SecureState" => Done(f)

\* A packet that e has sent.  A Commit that stands no longer has lost to the other.
Sent(ms, e, f, m) ==
    /\ m.type \notin {"Error", "ErrorAck"}
    /\ m.type = "Hello" => m.chain = 1
    /\ m.type = "Commit" =>
         /\ m.chain = 1 /\ m.hvi = e.hvi /\ m.hello = 1
         /\ \/ e.myRole = "Initiator" /\ e.state \in Committed
            \/ e.myRole = "Responder" /\ e.hvi < f.hvi
    /\ m.type = "DHPart1" => m.chain = 1 /\ m.pv = e.hvi /\ e.myRole = "Responder" /\ ~ms
    /\ m.type = "DHPart2" =>
         m.chain = 1 /\ m.pv = e.hvi /\ e.myRole = "Initiator" /\ e.state \in Answered /\ ~ms
    /\ m.type = "Confirm1" => m.key = e.key /\ e.myRole = "Responder" /\ e.state \in Keyed
    /\ m.type = "Confirm2" =>
         m.key = e.key /\ e.myRole = "Initiator" /\ e.state \in {"WaitConfAck", "SecureState"}
    /\ m.type = "Conf2Ack" => e.myRole = "Responder" /\ Done(e)

Quiet(ms, e, f) ==
    InRole(e) /\ Content(ms, e, f) /\ InStep(e, f) /\ Sent(ms, e, f, e.sentPacket)

Calm ==
    /\ DOMAIN eng = Peers /\ used \subseteq 1..MaxHvi /\ multiStream \in BOOLEAN
    /\ \A p \in Peers :
         /\ eng[p].hvi \in used \cup {0}
         /\ Quiet(multiStream, eng[p], eng[Other(p)])
         /\ eng[p].sentPacket # None => eng[p].sentPacket.to = Other(p)
         /\ \A m \in net : m.to = Other(p) => Sent(multiStream, eng[p], eng[Other(p)], m)

\* What KeyAgreement sees of an engine.
StageOf(e) ==
    IF e.key = NoKey THEN "open" ELSE IF Done(e) THEN "secure"
    ELSE IF e.state = "WaitConfAck" THEN "confirmed" ELSE "keyed"

RoleOf(e) == IF e.key = NoKey THEN "NoRole" ELSE e.myRole

\* The engine e becomes d: in KeyAgreement this is nothing, or one of its steps.
AgreementStep(e, f, d) ==
    \/ StageOf(d) = StageOf(e) /\ d.key = e.key /\ RoleOf(d) = RoleOf(e)
    \/ /\ StageOf(e) = "open" /\ StageOf(d) = "keyed" /\ d.key \in Keys
       /\ RoleOf(d) \in {"Initiator", "Responder"}
       /\ StageOf(f) # "open" => f.key = d.key /\ RoleOf(f) # RoleOf(d)
    \/ /\ StageOf(e) \in {"open", "keyed"} /\ StageOf(f) = "keyed" /\ RoleOf(f) = "Responder"
       /\ StageOf(e) = "keyed" => e.key = f.key /\ RoleOf(e) = "Initiator"
       /\ StageOf(d) = "confirmed" /\ d.key = f.key /\ RoleOf(d) = "Initiator"
    \/ /\ StageOf(e) = "keyed" /\ RoleOf(e) = "Responder" /\ StageOf(f) = "confirmed"
       /\ f.key = e.key /\ StageOf(d) = "secure" /\ d.key = e.key /\ RoleOf(d) = RoleOf(e)
    \/ /\ StageOf(e) = "confirmed" /\ StageOf(f) = "secure"
       /\ StageOf(d) = "secure" /\ d.key = e.key /\ RoleOf(d) = RoleOf(e)

\* e may become d, next to f.
Moves(ms, e, f, d) ==
    /\ InRole(d) /\ Content(ms, d, f) /\ InStep(d, f) /\ InStep(f, d)
    /\ \A m : Sent(ms, e, f, m) => Sent(ms, d, f, m)
    /\ AgreementStep(e, f, d)

LEMMA StepIsAgreementStep ==
    ASSUME NEW p \in Peers, DOMAIN eng = Peers, DOMAIN eng' = Peers,
           \A q \in Peers : q # p => eng'[q] = eng[q],
           AgreementStep(eng[p], eng[Other(p)], eng'[p])
    PROVE  [Agreement!Next]_(Agreement!vars)
  <1> DEFINE q == Other(p)
             stage == [r \in Peers |-> Stage(r)]
             key == [r \in Peers |-> eng[r].key]
             role == [r \in Peers |-> IF eng[r].key = NoKey THEN "NoRole" ELSE eng[r].myRole]
  <1>1. q \in Peers /\ q # p /\ \A r \in Peers : r = p \/ r = q
    BY OtherPeer, OnlyTwo
  <1>2. /\ \A r \in Peers : stage[r] = StageOf(eng[r]) /\ key[r] = eng[r].key /\ role[r] = RoleOf(eng[r])
        /\ stage' = [stage EXCEPT ![p] = StageOf(eng'[p])]
        /\ key' = [key EXCEPT ![p] = eng'[p].key]
        /\ role' = [role EXCEPT ![p] = RoleOf(eng'[p])]
    <2>1. \A r \in Peers : Stage(r) = StageOf(eng[r]) /\ Stage(r)' = StageOf(eng'[r])
      BY DEF Stage, StageOf, Done, Secure
    <2> QED
      BY <2>1 DEF RoleOf
  <1> HIDE DEF stage, key, role, q
  <1>3. /\ Peers \ {p} = {q} /\ stage = [stage EXCEPT ![p] = stage[p]]
        /\ key = [key EXCEPT ![p] = key[p]] /\ role = [role EXCEPT ![p] = role[p]]
    BY <1>1 DEF stage, key, role
  <1> DEFINE e == eng[p]
             f == eng[q]
             d == eng'[p]
  <1>4. CASE StageOf(d) = StageOf(e) /\ d.key = e.key /\ RoleOf(d) = RoleOf(e)
    <2>1. stage' = stage /\ key' = key /\ role' = role
      BY <1>2, <1>3, <1>4
    <2> QED
      BY <2>1 DEF Agreement!vars, stage, key, role
  <1>5. CASE /\ StageOf(e) = "open" /\ StageOf(d) = "keyed" /\ d.key \in Keys
             /\ RoleOf(d) \in {"Initiator", "Responder"}
             /\ StageOf(f) # "open" => f.key = d.key /\ RoleOf(f) # RoleOf(d)
    <2>1. PICK k \in Keys, x \in {"Initiator", "Responder"} : k = d.key /\ x = RoleOf(d)
      BY <1>5
    <2>2. /\ stage[p] = "open"
          /\ \A r \in Peers \ {p} : stage[r] # "open" => key[r] = k /\ role[r] # x
          /\ stage' = [stage EXCEPT ![p] = "keyed"]
          /\ key' = [key EXCEPT ![p] = k]
          /\ role' = [role EXCEPT ![p] = x]
      BY <1>1, <1>2, <1>5, <2>1
    <2>3. Agreement!Derive(p, k, x)
      BY <2>2 DEF Agreement!Derive, stage, key, role
    <2>4. Agreement!Next
      BY <2>3 DEF Agreement!Next, Agreement!Roles
    <2> QED
      BY <2>4
  <1>6. CASE /\ StageOf(e) \in {"open", "keyed"} /\ StageOf(f) = "keyed" /\ RoleOf(f) = "Responder"
             /\ StageOf(e) = "keyed" => e.key = f.key /\ RoleOf(e) = "Initiator"
             /\ StageOf(d) = "confirmed" /\ d.key = f.key /\ RoleOf(d) = "Initiator"
    <2>1. /\ stage[p] \in {"open", "keyed"} /\ stage[q] = "keyed" /\ role[q] = "Responder"
          /\ stage[p] = "keyed" => key[p] = key[q] /\ role[p] = "Initiator"
          /\ stage' = [stage EXCEPT ![p] = "confirmed"]
          /\ key' = [key EXCEPT ![p] = key[q]]
          /\ role' = [role EXCEPT ![p] = "Initiator"]
      BY <1>1, <1>2, <1>6
    <2>2. Agreement!Confirm(p, q)
      BY <2>1 DEF Agreement!Confirm, stage, key, role
    <2>3. Agreement!Next
      BY <1>3, <2>2 DEF Agreement!Next
    <2> QED
      BY <2>3
  <1>7. CASE /\ StageOf(e) = "keyed" /\ RoleOf(e) = "Responder" /\ StageOf(f) = "confirmed"
             /\ f.key = e.key /\ StageOf(d) = "secure" /\ d.key = e.key /\ RoleOf(d) = RoleOf(e)
    <2>1. /\ stage[p] = "keyed" /\ role[p] = "Responder" /\ stage[q] = "confirmed" /\ key[q] = key[p]
          /\ stage' = [stage EXCEPT ![p] = "secure"] /\ key' = key /\ role' = role
      BY <1>1, <1>2, <1>3, <1>7
    <2>2. Agreement!Accept(p, q)
      BY <2>1 DEF Agreement!Accept, stage, key, role
    <2>3. Agreement!Next
      BY <1>3, <2>2 DEF Agreement!Next
    <2> QED
      BY <2>3
  <1>8. CASE /\ StageOf(e) = "confirmed" /\ StageOf(f) = "secure"
             /\ StageOf(d) = "secure" /\ d.key = e.key /\ RoleOf(d) = RoleOf(e)
    <2>1. /\ stage[p] = "confirmed" /\ stage[q] = "secure"
          /\ stage' = [stage EXCEPT ![p] = "secure"] /\ key' = key /\ role' = role
      BY <1>1, <1>2, <1>3, <1>8
    <2>2. Agreement!Complete(p, q)
      BY <2>1 DEF Agreement!Complete, stage, key, role
    <2>3. Agreement!Next
      BY <1>3, <2>2 DEF Agreement!Next
    <2> QED
      BY <2>3
  <1> QED
    BY <1>4, <1>5, <1>6, <1>7, <1>8 DEF AgreementStep, q

\* d differs from e in the fields F at most.
Same(e, d, F) == DOMAIN d = Fields /\ \A x \in Fields \ F : d[x] = e[x]

\* The moves.  Nothing that the peer or a packet relies on:
LEMMA MoveAside ==
    ASSUME NEW ms \in BOOLEAN, NEW e, NEW f, NEW d, Quiet(ms, e, f), Quiet(ms, f, e),
           Same(e, d, {"state", "sentPacket", "timer", "starts"}),
           \/ d.state = e.state
           \/ {d.state, e.state} \subseteq {"Initial", "Detect", "AckDetected"}
    PROVE  Moves(ms, e, f, d)
  <1>1. /\ DOMAIN d = Fields /\ d.chain = e.chain /\ d.peerChain = e.peerChain /\ d.hvi = e.hvi
        /\ d.heard = e.heard /\ d.myRole = e.myRole /\ d.key = e.key /\ d.rx = e.rx /\ d.tx = e.tx
        /\ d.finishing = e.finishing /\ d.nonces = e.nonces
    BY DEF Same, Fields
  <1>2. InRole(d) /\ (d.state = e.state \/ d.myRole = "NoRole")
    BY <1>1 DEF Quiet, InRole, Committed
  <1>3. Content(ms, d, f)
    BY <1>1, <1>2 DEF Quiet, Content, Keyed, SessionKey
  <1>4. InStep(d, f) /\ InStep(f, d)
    BY <1>1, <1>2 DEF Quiet, InStep, Done, Committed, Answered
  <1>5. \A m : Sent(ms, e, f, m) => Sent(ms, d, f, m)
    BY <1>1, <1>2 DEF Sent, Done, Keyed, Committed, Answered
  <1>6. AgreementStep(e, f, d)
    BY <1>1, <1>2 DEF AgreementStep, StageOf, RoleOf, Done
  <1> QED
    BY <1>2, <1>3, <1>4, <1>5, <1>6 DEF Moves

\* A value is drawn.
LEMMA MoveDraw ==
    ASSUME NEW ms \in BOOLEAN, NEW e, NEW f, NEW d, Quiet(ms, e, f), Quiet(ms, f, e),
           Same(e, d, {"state", "sentPacket", "timer", "peerChain", "hvi", "myRole"}),
           e.myRole = "NoRole", d.state \in {"AckSent", "WaitCommit"}, d.myRole = "Initiator",
           d.peerChain = 1, d.hvi \in 1..MaxHvi, d.hvi # f.hvi
    PROVE  Moves(ms, e, f, d)
  <1>1. /\ DOMAIN d = Fields /\ d.chain = e.chain /\ d.heard = e.heard /\ d.key = e.key
        /\ d.rx = e.rx /\ d.tx = e.tx /\ d.finishing = e.finishing /\ d.nonces = e.nonces
    BY DEF Same, Fields
  <1>2. InRole(d) /\ e.state \in {"Initial", "Detect", "AckDetected"}
    BY DEF Quiet, InRole
  <1>3. Content(ms, d, f)
    BY <1>1, <1>2 DEF Quiet, Content, Keyed
  <1>4. InStep(d, f) /\ InStep(f, d)
    BY <1>1, <1>2 DEF Quiet, InStep, Content, Done, Committed, Answered
  <1>5. \A m : Sent(ms, e, f, m) => Sent(ms, d, f, m)
    BY <1>1, <1>2 DEF Sent
  <1>6. AgreementStep(e, f, d)
    <2>1. e.key = NoKey
      BY <1>2 DEF Quiet, Content, Keyed
    <2> QED
      BY <1>1, <2>1 DEF AgreementStep, StageOf, RoleOf
  <1> QED
    BY <1>2, <1>3, <1>4, <1>5, <1>6 DEF Moves

\* The Commit is sent.
LEMMA MoveCommit ==
    ASSUME NEW ms \in BOOLEAN, NEW e, NEW f, NEW d, Quiet(ms, e, f), Quiet(ms, f, e),
           Same(e, d, {"state", "sentPacket", "timer"}), e.state = "AckSent", d.state = "CommitSent"
    PROVE  Moves(ms, e, f, d)
  <1>1. /\ DOMAIN d = Fields /\ d.chain = e.chain /\ d.peerChain = e.peerChain /\ d.hvi = e.hvi
        /\ d.heard = e.heard /\ d.myRole = e.myRole /\ d.key = e.key /\ d.rx = e.rx /\ d.tx = e.tx
        /\ d.finishing = e.finishing /\ d.nonces = e.nonces
    BY DEF Same, Fields
  <1>2. InRole(d) /\ e.myRole = "Initiator"
    BY <1>1 DEF Quiet, InRole, Committed
  <1>3. Content(ms, d, f)
    BY <1>1, <1>2 DEF Quiet, Content, Keyed
  <1>4. InStep(d, f) /\ InStep(f, d)
    BY <1>1, <1>2 DEF Quiet, InStep, Content, Done, Committed, Answered
  <1>5. \A m : Sent(ms, e, f, m) => Sent(ms, d, f, m)
    BY <1>1, <1>2 DEF Sent, Committed, Answered
  <1>6. AgreementStep(e, f, d)
    <2>1. e.key = NoKey
      BY DEF Quiet, Content, Keyed
    <2> QED
      BY <1>1, <2>1 DEF AgreementStep, StageOf, RoleOf
  <1> QED
    BY <1>2, <1>3, <1>4, <1>5, <1>6 DEF Moves

\* A key is computed from values that were drawn.
LEMMA SessionKeys ==
    ASSUME NEW ms \in BOOLEAN, NEW i, NEW r, i.hvi \in 1..MaxHvi, r.hvi \in 1..MaxHvi
    PROVE  SessionKey(ms, i, r) \in Keys /\ SessionKey(ms, i, r) # NoKey
  <1>1. 1 \in 1..MaxChain
    BY HandshakeConstants
  <1>2. CASE ms
    BY <1>1, <1>2 DEF SessionKey, Keys, NoKey
  <1>3. CASE ~ms
    BY <1>1, <1>3 DEF SessionKey, Keys, NoKey
  <1> QED
    BY <1>2, <1>3

\* A Commit is answered, with DHPart1,
LEMMA MoveAnswerDH ==
    ASSUME NEW ms \in BOOLEAN, NEW e, NEW f, NEW d, Quiet(ms, e, f), Quiet(ms, f, e),
           Same(e, d, {"state", "sentPacket", "timer", "heard", "myRole"}), ~ms,
           e.state \in {"AckSent", "WaitCommit", "CommitSent"}, d.state = "WaitDHPart2",
           f.myRole = "Initiator", f.state \in Committed, e.state = "CommitSent" => e.hvi < f.hvi,
           d.myRole = "Responder", d.heard.chain = 1, d.heard.hvi = f.hvi, d.heard.hello = 1
    PROVE  Moves(ms, e, f, d)
  <1>1. /\ DOMAIN d = Fields /\ d.chain = e.chain /\ d.peerChain = e.peerChain /\ d.hvi = e.hvi
        /\ d.key = e.key /\ d.rx = e.rx /\ d.tx = e.tx
        /\ d.finishing = e.finishing /\ d.nonces = e.nonces
    BY DEF Same, Fields
  <1>2. InRole(d) /\ e.myRole = "Initiator" /\ f.state = "CommitSent"
    BY <1>1 DEF Quiet, InRole, InStep, Committed, Answered
  <1>3. Content(ms, d, f) /\ e.key = NoKey /\ e.finishing = {}
    BY <1>1, <1>2 DEF Quiet, Content, Keyed
  <1>4. InStep(d, f) /\ InStep(f, d)
    BY <1>1, <1>2, <1>3 DEF InStep, Done, Committed, Answered
  <1>5. \A m : Sent(ms, e, f, m) => Sent(ms, d, f, m)
    BY <1>1, <1>2, <1>3 DEF Sent, Committed, Answered
  <1>6. AgreementStep(e, f, d)
    BY <1>1, <1>3 DEF AgreementStep, StageOf, RoleOf
  <1> QED
    BY <1>2, <1>3, <1>4, <1>5, <1>6 DEF Moves

\* or, in multi-stream mode, with Confirm1.
LEMMA MoveAnswerMulti ==
    ASSUME NEW ms \in BOOLEAN, NEW e, NEW f, NEW d, Quiet(ms, e, f), Quiet(ms, f, e),
           Same(e, d, {"state", "sentPacket", "timer", "heard", "myRole", "key", "nonces"}), ms,
           e.state \in {"AckSent", "WaitCommit", "CommitSent"}, d.state = "WaitConfirm2",
           f.myRole = "Initiator", f.state \in Committed, e.state = "CommitSent" => e.hvi < f.hvi,
           d.myRole = "Responder", d.key = SessionKey(ms, f, d)
    PROVE  Moves(ms, e, f, d)
  <1>1. /\ DOMAIN d = Fields /\ d.chain = e.chain /\ d.peerChain = e.peerChain /\ d.hvi = e.hvi
        /\ d.rx = e.rx /\ d.tx = e.tx /\ d.finishing = e.finishing
    BY DEF Same, Fields
  <1>2. /\ InRole(d) /\ e.myRole = "Initiator" /\ f.state = "CommitSent"
        /\ f.hvi \in 1..MaxHvi /\ d.hvi \in 1..MaxHvi
    BY <1>1 DEF Quiet, InRole, InStep, Committed, Answered
  <1>3. e.key = NoKey /\ e.finishing = {} /\ e.tx = NoKey /\ f.key = NoKey
    BY <1>2 DEF Quiet, Content, Keyed
  <1>4. Content(ms, d, f)
    BY <1>1, <1>2, <1>3 DEF Quiet, Content, Keyed
  <1>5. InStep(d, f) /\ InStep(f, d)
    BY <1>1, <1>2, <1>3 DEF InStep, Done, Committed, Answered
  <1>6. \A m : Sent(ms, e, f, m) => Sent(ms, d, f, m)
    BY <1>1, <1>2, <1>3 DEF Sent, Committed, Answered
  <1>7. AgreementStep(e, f, d)
    <2>1. d.key \in Keys /\ d.key # NoKey
      BY <1>2, SessionKeys
    <2> QED
      BY <1>1, <1>3, <2>1 DEF AgreementStep, StageOf, RoleOf, Done
  <1> QED
    BY <1>2, <1>4, <1>5, <1>6, <1>7 DEF Moves

\* DHPart1: the Initiator has the key.
LEMMA MoveDHPart1 ==
    ASSUME NEW ms \in BOOLEAN, NEW e, NEW f, NEW d, Quiet(ms, e, f), Quiet(ms, f, e),
           Same(e, d, {"state", "sentPacket", "timer", "key"}), ~ms,
           e.state = "CommitSent", d.state = "WaitConfirm1", f.myRole = "Responder",
           d.key = SessionKey(ms, d, f)
    PROVE  Moves(ms, e, f, d)
  <1>1. /\ DOMAIN d = Fields /\ d.chain = e.chain /\ d.peerChain = e.peerChain /\ d.hvi = e.hvi
        /\ d.heard = e.heard /\ d.myRole = e.myRole /\ d.rx = e.rx /\ d.tx = e.tx
        /\ d.finishing = e.finishing /\ d.nonces = e.nonces
    BY DEF Same, Fields
  <1>2. /\ InRole(d) /\ e.myRole = "Initiator" /\ f.state \in {"WaitDHPart2", "WaitConfirm2"} /\ ~Done(f)
        /\ f.hvi \in 1..MaxHvi /\ d.hvi \in 1..MaxHvi
    BY <1>1 DEF Quiet, InRole, InStep, Committed, Answered, Done
  <1>3. e.key = NoKey /\ e.finishing = {} /\ e.tx = NoKey
    BY DEF Quiet, Content, Keyed
  <1>4. Content(ms, d, f)
    BY <1>1, <1>2, <1>3 DEF Quiet, Content, Keyed
  <1>5. InStep(d, f) /\ InStep(f, d)
    BY <1>1, <1>2, <1>3 DEF InStep, Done, Committed, Answered
  <1>6. \A m : Sent(ms, e, f, m) => Sent(ms, d, f, m)
    BY <1>1, <1>2, <1>3 DEF Sent, Committed, Answered
  <1>7. AgreementStep(e, f, d)
    <2>1. d.key \in Keys /\ d.key # NoKey
      BY <1>2, SessionKeys
    <2>2. f.key = NoKey \/ f.key = d.key
      BY <1>1, <1>2 DEF Quiet, Content, Keyed, SessionKey
    <2> QED
      BY <1>1, <1>2, <1>3, <2>1, <2>2 DEF AgreementStep, StageOf, RoleOf, Done
  <1> QED
    BY <1>2, <1>4, <1>5, <1>6, <1>7 DEF Moves

\* DHPart2: the Responder has the key.
LEMMA MoveDHPart2 ==
    ASSUME NEW ms \in BOOLEAN, NEW e, NEW f, NEW d, Quiet(ms, e, f), Quiet(ms, f, e),
           Same(e, d, {"state", "sentPacket", "key"}), ~ms,
           e.state = "WaitDHPart2", d.state = "WaitConfirm2", f.myRole = "Initiator", f.state \in Answered,
           d.key = SessionKey(ms, f, d)
    PROVE  Moves(ms, e, f, d)
  <1>1. /\ DOMAIN d = Fields /\ d.chain = e.chain /\ d.peerChain = e.peerChain /\ d.hvi = e.hvi
        /\ d.heard = e.heard /\ d.myRole = e.myRole /\ d.rx = e.rx /\ d.tx = e.tx
        /\ d.finishing = e.finishing /\ d.nonces = e.nonces
    BY DEF Same, Fields
  <1>2. e.key = NoKey /\ e.finishing = {} /\ e.tx = NoKey
    BY DEF Quiet, Content, Keyed
  <1>3. /\ InRole(d) /\ e.myRole = "Responder" /\ f.state = "WaitConfirm1"
        /\ f.hvi \in 1..MaxHvi /\ d.hvi \in 1..MaxHvi
    BY <1>1, <1>2 DEF Quiet, InRole, InStep, Committed, Answered, Done
  <1>4. Content(ms, d, f)
    BY <1>1, <1>2, <1>3 DEF Quiet, Content, Keyed
  <1>5. InStep(d, f) /\ InStep(f, d)
    BY <1>1, <1>2, <1>3 DEF InStep, Done, Committed, Answered
  <1>6. \A m : Sent(ms, e, f, m) => Sent(ms, d, f, m)
    BY <1>1, <1>2, <1>3 DEF Sent, Done, Keyed
  <1>7. AgreementStep(e, f, d)
    <2>1. d.key \in Keys /\ d.key # NoKey
      BY <1>3, SessionKeys
    <2>2. f.key = d.key
      BY <1>1, <1>3 DEF Quiet, Content, Keyed, SessionKey
    <2> QED
      BY <1>1, <1>2, <1>3, <2>1, <2>2 DEF AgreementStep, StageOf, RoleOf, Done
  <1> QED
    BY <1>3, <1>4, <1>5, <1>6, <1>7 DEF Moves

\* Confirm1: the Initiator knows that the Responder has the key.  In multi-stream mode
\* it computes its own only now, and enables its receiver later.
LEMMA MoveConfirm1 ==
    ASSUME NEW ms \in BOOLEAN, NEW e, NEW f, NEW d, Quiet(ms, e, f), Quiet(ms, f, e),
           Same(e, d, {"state", "sentPacket", "timer", "key", "myRole", "rx", "finishing"}),
           f.myRole = "Responder", f.state \in Keyed,
           d.state = "WaitConfAck", d.myRole = "Initiator", d.key = SessionKey(ms, d, f),
           \/ e.state = "WaitConfirm1" /\ d.rx = d.key /\ d.finishing = e.finishing
           \/ e.state = "CommitSent" /\ d.finishing = {"ForReceiver"}
    PROVE  Moves(ms, e, f, d)
  <1>1. /\ DOMAIN d = Fields /\ d.chain = e.chain /\ d.peerChain = e.peerChain /\ d.hvi = e.hvi
        /\ d.heard = e.heard /\ d.tx = e.tx /\ d.nonces = e.nonces
    BY DEF Same, Fields
  <1>2. e.finishing = {} /\ e.tx = NoKey
    BY DEF Quiet, Content
  <1>3. /\ InRole(d) /\ e.myRole = "Initiator" /\ f.state = "WaitConfirm2" /\ ~Done(f)
        /\ f.hvi \in 1..MaxHvi /\ d.hvi \in 1..MaxHvi
    BY <1>1 DEF Quiet, InRole, InStep, Keyed, Committed, Answered, Done
  <1>4. Content(ms, d, f)
    BY <1>1, <1>2, <1>3 DEF Quiet, Content, Keyed
  <1>5. InStep(d, f) /\ InStep(f, d)
    BY <1>1, <1>2, <1>3 DEF InStep, Done, Committed, Answered
  <1>6. \A m : Sent(ms, e, f, m) => Sent(ms, d, f, m)
    BY <1>1, <1>2, <1>3 DEF Sent, Done, Committed, Answered
  <1>7. AgreementStep(e, f, d)
    <2>1. d.key # NoKey /\ ~Done(d) /\ ~Done(e)
      BY <1>2, <1>3, SessionKeys DEF Done
    <2>2. f.key = d.key /\ (e.key = NoKey \/ e.key = d.key)
      BY <1>1, <1>3 DEF Quiet, Content, Keyed, SessionKey
    <2> QED
      BY <1>3, <2>1, <2>2 DEF AgreementStep, StageOf, RoleOf
  <1> QED
    BY <1>3, <1>4, <1>5, <1>6, <1>7 DEF Moves

\* Confirm2: the Responder is about to be secure.
LEMMA MoveConfirm2 ==
    ASSUME NEW ms \in BOOLEAN, NEW e, NEW f, NEW d, Quiet(ms, e, f), Quiet(ms, f, e),
           Same(e, d, {"sentPacket", "finishing"}), e.state = "WaitConfirm2", e.finishing = {},
           f.myRole = "Initiator", f.state \in {"WaitConfAck", "SecureState"},
           d.finishing = {"ForReceiver", "ForSender"}
    PROVE  Moves(ms, e, f, d)
  <1>1. /\ DOMAIN d = Fields /\ d.chain = e.chain /\ d.peerChain = e.peerChain /\ d.hvi = e.hvi
        /\ d.heard = e.heard /\ d.myRole = e.myRole /\ d.key = e.key /\ d.rx = e.rx /\ d.tx = e.tx
        /\ d.state = e.state /\ d.nonces = e.nonces
    BY DEF Same, Fields
  <1>2. /\ InRole(d) /\ e.myRole = "Responder" /\ f.state = "WaitConfAck" /\ Done(d) /\ ~Done(e)
        /\ f.hvi \in 1..MaxHvi /\ e.hvi \in 1..MaxHvi
    BY <1>1 DEF Quiet, InRole, InStep, Committed, Done
  <1>3. Content(ms, d, f)
    BY <1>1, <1>2 DEF Quiet, Content, Keyed, SessionKey
  <1>4. InStep(d, f) /\ InStep(f, d)
    BY <1>1, <1>2 DEF Quiet, InStep, Committed, Answered
  <1>5. \A m : Sent(ms, e, f, m) => Sent(ms, d, f, m)
    BY <1>1, <1>2 DEF Sent
  <1>6. AgreementStep(e, f, d)
    <2>1. e.key # NoKey /\ f.key = e.key /\ ~Done(f)
      BY <1>1, <1>2, SessionKeys DEF Quiet, Content, Keyed, Done
    <2> QED
      BY <1>1, <1>2, <2>1 DEF AgreementStep, StageOf, RoleOf
  <1> QED
    BY <1>2, <1>3, <1>4, <1>5, <1>6 DEF Moves

\* SRTP is enabled: in both directions, or for the receiver.
LEMMA MoveEnable ==
    ASSUME NEW ms \in BOOLEAN, NEW e, NEW f, NEW d, Quiet(ms, e, f), Quiet(ms, f, e),
           Same(e, d, {"state", "finishing", "rx", "tx"}), e.finishing # {}, d.finishing = {},
           d.rx = e.key,
           IF "ForSender" \in e.finishing THEN d.tx = e.key /\ d.state = "SecureState"
           ELSE d.tx = e.tx /\ d.state = e.state
    PROVE  Moves(ms, e, f, d)
  <1>1. /\ DOMAIN d = Fields /\ d.chain = e.chain /\ d.peerChain = e.peerChain /\ d.hvi = e.hvi
        /\ d.heard = e.heard /\ d.myRole = e.myRole /\ d.key = e.key /\ d.nonces = e.nonces
    BY DEF Same, Fields
  <1>2. \/ /\ e.state = "WaitConfirm2" /\ d.state = "SecureState" /\ d.tx = e.key /\ Done(e) /\ Done(d)
           /\ e.myRole = "Responder"
        \/ /\ e.state = "WaitConfAck" /\ d.state = "WaitConfAck" /\ d.tx = e.tx /\ ~Done(e) /\ ~Done(d)
           /\ e.myRole = "Initiator"
    BY DEF Quiet, Content, InRole, Committed, Done
  <1>3. InRole(d)
    BY <1>1, <1>2 DEF Quiet, InRole, Committed
  <1>4. Content(ms, d, f)
    BY <1>1, <1>2 DEF Quiet, Content, Keyed, SessionKey
  <1>5. InStep(d, f) /\ InStep(f, d)
    BY <1>1, <1>2 DEF Quiet, InStep, Committed, Answered
  <1>6. \A m : Sent(ms, e, f, m) => Sent(ms, d, f, m)
    BY <1>1, <1>2 DEF Sent, Keyed, Committed, Answered
  <1>7. AgreementStep(e, f, d)
    BY <1>1, <1>2 DEF AgreementStep, StageOf, RoleOf
  <1> QED
    BY <1>3, <1>4, <1>5, <1>6, <1>7 DEF Moves

\* Conf2Ack: the Initiator is secure.
LEMMA MoveConf2Ack ==
    ASSUME NEW ms \in BOOLEAN, NEW e, NEW f, NEW d, Quiet(ms, e, f), Quiet(ms, f, e),
           Same(e, d, {"state", "sentPacket", "timer", "tx"}), e.state = "WaitConfAck", e.finishing = {},
           f.myRole = "Responder", Done(f), d.state = "SecureState", d.tx = e.key
    PROVE  Moves(ms, e, f, d)
  <1>1. /\ DOMAIN d = Fields /\ d.chain = e.chain /\ d.peerChain = e.peerChain /\ d.hvi = e.hvi
        /\ d.heard = e.heard /\ d.myRole = e.myRole /\ d.key = e.key /\ d.rx = e.rx
        /\ d.finishing = e.finishing /\ d.nonces = e.nonces
    BY DEF Same, Fields
  <1>2. /\ InRole(d) /\ e.myRole = "Initiator" /\ Done(d) /\ ~Done(e)
        /\ f.hvi \in 1..MaxHvi /\ e.hvi \in 1..MaxHvi
    BY <1>1 DEF Quiet, InRole, Committed, Done
  <1>3. Content(ms, d, f)
    BY <1>1, <1>2 DEF Quiet, Content, Keyed, SessionKey
  <1>4. InStep(d, f) /\ InStep(f, d)
    BY <1>1, <1>2 DEF Quiet, InStep, Committed, Answered
  <1>5. \A m : Sent(ms, e, f, m) => Sent(ms, d, f, m)
    BY <1>1, <1>2 DEF Sent, Keyed, Committed, Answered
  <1>6. AgreementStep(e, f, d)
    <2>1. e.key # NoKey /\ f.key = e.key
      <3>1. f.state \in Keyed
        BY DEF Quiet, InStep, Keyed
      <3> QED
        BY <1>1, <1>2, <3>1, SessionKeys DEF Quiet, Content, Keyed
    <2> QED
      BY <1>1, <1>2, <2>1 DEF AgreementStep, StageOf, RoleOf
  <1> QED
    BY <1>2, <1>3, <1>4, <1>5, <1>6 DEF Moves

\* A step of p is calm when its engine moves and what it sends is true.
LEMMA CalmStep ==
    ASSUME Calm, NEW p \in Peers, NEW e, e = eng[p], NEW f, f = eng[Other(p)],
           NEW upd, DOMAIN upd \subseteq Fields, NEW out, Step(p, upd, out),
           used \subseteq used', used' \subseteq 1..MaxHvi,
           NEW d, d = eng'[p], d.hvi \in used' \cup {0},
           d.hvi = e.hvi \/ (e.myRole = "NoRole" /\ d.hvi \notin used \cup {0}),
           Moves(multiStream, e, f, d),
           \A m \in out \cup {d.sentPacket} :
              m = e.sentPacket \/ m = None \/ (m.to = Other(p) /\ Sent(multiStream, d, f, m))
    PROVE  Calm' /\ [Agreement!Next]_(Agreement!vars)
  <1> DEFINE q == Other(p)
             ms == multiStream
  <1>0. q \in Peers /\ q # p /\ Other(q) = p /\ \A r \in Peers : r = p \/ r = q
    BY OtherPeer, OnlyTwo
  <1>1. /\ DOMAIN eng' = Peers /\ eng'[q] = f /\ multiStream' = ms /\ net' = net \cup (out \ {None})
        /\ \A r \in Peers : r # p => eng'[r] = eng[r]
    BY <1>0, StepFields DEF Step, Calm, Quiet, Content
  <1>2. /\ Quiet(ms, e, f) /\ Quiet(ms, f, e) /\ f.hvi \in used \cup {0}
        /\ \A m \in net : m.to = q => Sent(ms, e, f, m)
        /\ \A m \in net : m.to = p => Sent(ms, f, e, m)
        /\ e.sentPacket # None => e.sentPacket.to = q
        /\ f.sentPacket # None => f.sentPacket.to = p
    BY <1>0 DEF Calm
  <1> HIDE DEF q, ms
  <1>3. /\ Content(ms, f, d) /\ \A m : Sent(ms, f, e, m) => Sent(ms, f, d, m)
    <2>1. CASE d.hvi = e.hvi
      BY <1>2, <2>1 DEF Quiet, Content, Sent, SessionKey
    <2>2. CASE e.myRole = "NoRole" /\ d.hvi \notin used \cup {0}
      <3>1. f.myRole # "Responder" /\ f.state \notin Keyed /\ f.state # "WaitDHPart2" /\ f.hvi # d.hvi
        BY <1>2, <2>2 DEF Quiet, InStep, InRole, Committed, Answered, Keyed
      <3> QED
        BY <1>2, <3>1 DEF Quiet, Content, Sent
    <2> QED
      BY <2>1, <2>2
  <1>4. Sent(ms, d, f, None)
    BY DEF Sent, None
  <1>5. Sent(ms, d, f, e.sentPacket)
    BY <1>2 DEF Quiet, Moves, ms
  <1>6. Sent(ms, d, f, d.sentPacket) /\ (d.sentPacket # None => d.sentPacket.to = q)
    BY <1>2, <1>4, <1>5 DEF ms, q
  <1>7. \A m \in out \ {None} : m.to = q /\ Sent(ms, d, f, m)
    BY <1>2, <1>5 DEF ms, q
  <1>8. Quiet(ms, d, f) /\ Quiet(ms, f, d)
    BY <1>2, <1>3, <1>6 DEF Quiet, Moves, ms
  <1>9. /\ \A m \in net' : m.to = q => Sent(ms, d, f, m)
        /\ \A m \in net' : m.to = p => Sent(ms, f, d, m)
    BY <1>0, <1>1, <1>2, <1>3, <1>7 DEF Moves, ms
  <1>10. Calm'
    <2> DEFINE Fine(r) == /\ eng'[r].hvi \in used' \cup {0}
                          /\ Quiet(multiStream', eng'[r], eng'[Other(r)])
                          /\ eng'[r].sentPacket # None => eng'[r].sentPacket.to = Other(r)
                          /\ \A m \in net' : m.to = Other(r) =>
                                Sent(multiStream', eng'[r], eng'[Other(r)], m)
    <2>1. Fine(p)
      BY <1>1, <1>6, <1>8, <1>9 DEF q
    <2>2. Fine(q)
      BY <1>0, <1>1, <1>2, <1>8, <1>9
    <2>3. \A r \in Peers : Fine(r)
      BY <1>0, <2>1, <2>2
    <2> QED
      BY <1>1, <2>3 DEF Calm, ms
  <1>11. AgreementStep(eng[p], eng[Other(p)], eng'[p])
    BY DEF Moves
  <1> QED
    BY <1>1, <1>10, <1>11, StepIsAgreementStep DEF Calm

LEMMA Changed ==
    ASSUME Calm, NEW p \in Peers, NEW F, F \subseteq Fields, NEW upd, DOMAIN upd \subseteq F,
           NEW out, Step(p, upd, out)
    PROVE  /\ Same(eng[p], eng'[p], F) /\ \A x \in DOMAIN upd : eng'[p][x] = upd[x]
           /\ \A x \in F \ DOMAIN upd : eng'[p][x] = eng[p][x]
  <1>1. DOMAIN eng = Peers /\ DOMAIN eng[p] = Fields
    BY DEF Calm, Quiet, Content
  <1> QED
    BY <1>1, StepFields DEF Same

\* The two engines of a calm state.
LEMMA Engaged ==
    ASSUME Calm, NEW p \in Peers
    PROVE  /\ Quiet(multiStream, eng[p], eng[Other(p)]) /\ Quiet(multiStream, eng[Other(p)], eng[p])
           /\ eng[p].hvi \in used \cup {0} /\ used \subseteq 1..MaxHvi /\ multiStream \in BOOLEAN
           /\ \A m \in net : m.to = p => Sent(multiStream, eng[Other(p)], eng[p], m)
  BY OtherPeer DEF Calm

\* Every step but the drawing of a value: the engine moves, and sends at most one new
\* packet.
LEMMA CalmMove ==
    ASSUME Calm, NEW p \in Peers, NEW upd, DOMAIN upd \subseteq Fields \ {"hvi"},
           NEW c, NEW out, out \subseteq {c, eng[p].sentPacket}, Step(p, upd, out), UNCHANGED used,
           eng'[p].sentPacket \in {c, eng[p].sentPacket, None},
           Moves(multiStream, eng[p], eng[Other(p)], eng'[p]),
           c = None \/ (c.to = Other(p) /\ Sent(multiStream, eng'[p], eng[Other(p)], c))
    PROVE  Calm' /\ [Agreement!Next]_(Agreement!vars)
  <1>1. PICK e : e = eng[p]
    OBVIOUS
  <1>2. PICK f : f = eng[Other(p)]
    OBVIOUS
  <1>3. PICK d : d = eng'[p]
    OBVIOUS
  <1>4. d.hvi = e.hvi
    BY <1>1, <1>3, Changed DEF Same, Fields
  <1>5. e.hvi \in used \cup {0} /\ used \subseteq 1..MaxHvi
    BY <1>1, Engaged
  <1>6. \A m \in out \cup {d.sentPacket} :
          m = e.sentPacket \/ m = None \/ (m.to = Other(p) /\ Sent(multiStream, d, f, m))
    BY <1>1, <1>2, <1>3
  <1> QED
    BY <1>1, <1>2, <1>3, <1>4, <1>5, <1>6, CalmStep

\* Steps that change nothing of the session.
LEMMA AsideCalm ==
    ASSUME Calm, NEW p \in Peers, NEW upd, DOMAIN upd \subseteq {"state", "sentPacket", "timer", "starts"},
           NEW c, NEW out, out \subseteq {c, eng[p].sentPacket}, Step(p, upd, out), UNCHANGED used,
           eng'[p].sentPacket \in {c, eng[p].sentPacket, None},
           \/ eng'[p].state = eng[p].state
           \/ {eng'[p].state, eng[p].state} \subseteq {"Initial", "Detect", "AckDetected"},
           c \in {None, Hello(p), HelloAck(p)}
    PROVE  Calm' /\ [Agreement!Next]_(Agreement!vars)
  <1>1. Same(eng[p], eng'[p], {"state", "sentPacket", "timer", "starts"})
    BY Changed DEF Fields
  <1>2. Moves(multiStream, eng[p], eng[Other(p)], eng'[p])
    BY <1>1, Engaged, MoveAside
  <1>3. c = None \/ (c.to = Other(p) /\ Sent(multiStream, eng'[p], eng[Other(p)], c))
    <2>1. eng[p].chain = 1
      BY Engaged DEF Quiet, Content
    <2> QED
      BY <2>1 DEF Hello, HelloAck, Sent
  <1> QED
    BY <1>2, <1>3, CalmMove DEF Fields

LEMMA ResendCalm ==
    ASSUME Calm, NEW p \in Peers, Resend(p), UNCHANGED used
    PROVE  Calm' /\ [Agreement!Next]_(Agreement!vars)
  <1> DEFINE upd == [timer |-> eng[p].timer]
             out == {eng[p].sentPacket}
  <1>1. Step(p, upd, out) /\ DOMAIN upd = {"timer"}
    BY DEF Resend
  <1>2. eng'[p].state = eng[p].state /\ eng'[p].sentPacket = eng[p].sentPacket
    BY <1>1, Changed DEF Same, Fields
  <1> HIDE DEF upd, out
  <1>3. out \subseteq {None, eng[p].sentPacket}
    BY DEF out
  <1> QED
    BY <1>1, <1>2, <1>3, AsideCalm

LEMMA StartCalm ==
    ASSUME Calm, NEW p \in Peers, StartZrtp(p)
    PROVE  Calm' /\ [Agreement!Next]_(Agreement!vars)
  <1>1. PICK c : c = Hello(p)
    OBVIOUS
  <1> DEFINE upd == [state |-> "Detect", sentPacket |-> c, timer |-> TRUE, starts |-> eng[p].starts + 1]
  <1>2. /\ Step(p, upd, {c}) /\ UNCHANGED used /\ eng[p].state = "Initial"
        /\ DOMAIN upd = {"state", "sentPacket", "timer", "starts"}
    BY <1>1 DEF StartZrtp, Idle
  <1>3. eng'[p].state = "Detect" /\ eng'[p].sentPacket = c
    BY <1>2, Changed DEF Fields
  <1> HIDE DEF upd
  <1> QED
    BY <1>1, <1>2, <1>3, AsideCalm

LEMMA HelloCalm ==
    ASSUME Calm, NEW p \in Peers, NEW m \in net, HelloAckInDetect(p, m) \/ HelloInAckSent(p, m)
    PROVE  Calm' /\ [Agreement!Next]_(Agreement!vars)
  <1>1. CASE HelloAckInDetect(p, m)
    <2> DEFINE upd == [state |-> "AckDetected", timer |-> FALSE, sentPacket |-> None]
    <2>1. /\ Step(p, upd, {}) /\ UNCHANGED used /\ eng[p].state = "Detect"
          /\ DOMAIN upd = {"state", "sentPacket", "timer"}
      BY <1>1 DEF HelloAckInDetect, Receives, Idle
    <2>2. eng'[p].state = "AckDetected" /\ eng'[p].sentPacket = None
      BY <2>1, Changed DEF Fields
    <2> HIDE DEF upd
    <2> QED
      BY <2>1, <2>2, AsideCalm
  <1>2. CASE HelloInAckSent(p, m)
    <2>1. PICK c : c = HelloAck(p)
      OBVIOUS
    <2> DEFINE upd == [state |-> "AckSent"]
    <2>2. Step(p, upd, {c}) /\ UNCHANGED used /\ eng[p].state = "AckSent" /\ DOMAIN upd = {"state"}
      BY <1>2, <2>1 DEF HelloInAckSent, Receives, Idle
    <2>3. eng'[p].state = "AckSent" /\ eng'[p].sentPacket = eng[p].sentPacket
      BY <2>2, Changed DEF Same, Fields
    <2> HIDE DEF upd
    <2> QED
      BY <2>1, <2>2, <2>3, AsideCalm
  <1> QED
    BY <1>1, <1>2

\* A value is drawn; it is new.
LEMMA DrawCalm ==
    ASSUME Calm, NEW p \in Peers, NEW m \in net, NEW h \in 1..MaxHvi,
           HelloInDetect(p, m, h) \/ HelloInAckDetected(p, m, h)
    PROVE  Calm' /\ [Agreement!Next]_(Agreement!vars)
  <1>1. PICK c : c = HelloAck(p)
    OBVIOUS
  <1> DEFINE Draws(u) ==
          /\ DOMAIN u \subseteq {"state", "sentPacket", "timer", "peerChain", "hvi", "myRole"}
          /\ {"state", "peerChain", "hvi", "myRole"} \subseteq DOMAIN u
          /\ u.state \in {"AckSent", "WaitCommit"} /\ u.hvi = h /\ u.peerChain = m.chain
          /\ u.myRole = "Initiator" /\ ("sentPacket" \in DOMAIN u => u.sentPacket = c)
          /\ Step(p, u, {c}) /\ PrepareCommit(p, m, h)
          /\ \E t \in {"Detect", "AckDetected"} : Receives(p, t, "Hello", m)
  <1>2. PICK upd : Draws(upd)
    <2>1. CASE HelloInDetect(p, m, h)
      <3> DEFINE u == Override([state |-> "AckSent", timer |-> TRUE], Prepared(m, h))
      <3>1. /\ DOMAIN u = {"state", "timer", "peerChain", "hvi", "myRole"} /\ u.state = "AckSent"
            /\ u.hvi = h /\ u.peerChain = m.chain /\ u.myRole = "Initiator"
        BY DEF Override, Prepared
      <3>2. Step(p, u, {c}) /\ Receives(p, "Detect", "Hello", m) /\ PrepareCommit(p, m, h)
        BY <1>1, <2>1 DEF HelloInDetect
      <3> HIDE DEF u
      <3>3. Draws(u)
        BY <3>1, <3>2
      <3> HIDE DEF Draws
      <3> QED
        BY <3>3
    <2>2. CASE HelloInAckDetected(p, m, h)
      <3> DEFINE u == Override([state |-> "WaitCommit", sentPacket |-> c], Prepared(m, h))
      <3>1. /\ DOMAIN u = {"state", "sentPacket", "peerChain", "hvi", "myRole"} /\ u.state = "WaitCommit"
            /\ u.hvi = h /\ u.peerChain = m.chain /\ u.myRole = "Initiator" /\ u.sentPacket = c
        BY DEF Override, Prepared
      <3>2. Step(p, u, {c}) /\ Receives(p, "AckDetected", "Hello", m) /\ PrepareCommit(p, m, h)
        BY <1>1, <2>2 DEF HelloInAckDetected
      <3> HIDE DEF u
      <3>3. Draws(u)
        BY <3>1, <3>2
      <3> HIDE DEF Draws
      <3> QED
        BY <3>3
    <2> QED
      BY <2>1, <2>2
  <1>3. PICK e : e = eng[p]
    OBVIOUS
  <1>4. PICK f : f = eng[Other(p)]
    OBVIOUS
  <1>5. PICK d : d = eng'[p]
    OBVIOUS
  <1>6. /\ Quiet(multiStream, e, f) /\ Quiet(multiStream, f, e) /\ multiStream \in BOOLEAN
        /\ used \subseteq 1..MaxHvi /\ f.hvi \in used \cup {0} /\ e.state \in {"Detect", "AckDetected"}
        /\ m.chain = 1
    BY <1>2, <1>3, <1>4, Engaged, OtherPeer DEF Receives, Idle, Sent
  <1>7. used' = used \cup {h} /\ h \notin used \cup {0}
    BY <1>2 DEF PrepareCommit
  <1>8. /\ Same(e, d, {"state", "sentPacket", "timer", "peerChain", "hvi", "myRole"})
        /\ d.state \in {"AckSent", "WaitCommit"} /\ d.hvi = h /\ d.peerChain = 1
        /\ d.myRole = "Initiator" /\ (d.sentPacket = c \/ d.sentPacket = e.sentPacket)
    <2>1. {"state", "sentPacket", "timer", "peerChain", "hvi", "myRole"} \subseteq Fields
      BY DEF Fields
    <2> QED
      BY <1>2, <1>3, <1>5, <1>6, <2>1, Changed
  <1>9. e.myRole = "NoRole"
    BY <1>6 DEF Quiet, InRole, Committed
  <1>10. Moves(multiStream, e, f, d)
    BY <1>6, <1>7, <1>8, <1>9, MoveDraw
  <1>11. c.to = Other(p) /\ Sent(multiStream, d, f, c)
    BY <1>1 DEF HelloAck, Sent
  <1>12. DOMAIN upd \subseteq Fields
    BY <1>2 DEF Fields
  <1> QED
    BY <1>2, <1>3, <1>4, <1>5, <1>6, <1>7, <1>8, <1>9, <1>10, <1>11, <1>12, CalmStep

LEMMA CommitCalm ==
    ASSUME Calm, NEW p \in Peers, NEW m \in net, HelloAckInAckSent(p, m)
    PROVE  Calm' /\ [Agreement!Next]_(Agreement!vars)
  <1>1. PICK c : c = OwnCommit(p)
    OBVIOUS
  <1> DEFINE upd == [state |-> "CommitSent", sentPacket |-> c, timer |-> TRUE]
  <1>2. /\ Step(p, upd, {c}) /\ UNCHANGED used /\ eng[p].state = "AckSent"
        /\ DOMAIN upd = {"state", "sentPacket", "timer"}
    BY <1>1 DEF HelloAckInAckSent, Receives, Idle
  <1>3. /\ Same(eng[p], eng'[p], {"state", "sentPacket", "timer"})
        /\ eng'[p].state = "CommitSent" /\ eng'[p].sentPacket = c
    BY <1>2, Changed DEF Fields
  <1> HIDE DEF upd
  <1>4. Moves(multiStream, eng[p], eng[Other(p)], eng'[p])
    BY <1>2, <1>3, Engaged, MoveCommit
  <1>5. /\ eng'[p].hvi = eng[p].hvi /\ eng'[p].myRole = eng[p].myRole /\ eng[p].myRole = "Initiator"
        /\ eng[p].chain = 1 /\ eng[p].peerChain = 1
    BY <1>2, <1>3, Engaged DEF Same, Fields, Quiet, InRole, Content
  <1>6. c.to = Other(p) /\ Sent(multiStream, eng'[p], eng[Other(p)], c)
    BY <1>1, <1>3, <1>5 DEF OwnCommit, Sent, Committed
  <1> QED
    BY <1>2, <1>3, <1>4, <1>6, CalmMove DEF Fields

\* A Commit is answered: it stands, and the engine's own has lost or was not sent.
LEMMA AnswerCalm ==
    ASSUME Calm, NEW p \in Peers, NEW m \in net, m.to = p, m.type = "Commit",
           eng[p].state \in {"AckSent", "WaitCommit", "CommitSent"},
           eng[p].state = "CommitSent" => eng[p].hvi < m.hvi, AnswerCommit(p, m), UNCHANGED used
    PROVE  Calm' /\ [Agreement!Next]_(Agreement!vars)
  <1>1. PICK e : e = eng[p]
    OBVIOUS
  <1>2. PICK f : f = eng[Other(p)]
    OBVIOUS
  <1>3. /\ Quiet(multiStream, e, f) /\ Quiet(multiStream, f, e) /\ multiStream \in BOOLEAN
        /\ Sent(multiStream, f, e, m)
    BY <1>1, <1>2, Engaged
  <1>4. /\ e.myRole = "Initiator" /\ e.nonces = {} /\ e.chain = 1 /\ e.hvi \in Nat
        /\ m.chain = 1 /\ m.hvi = f.hvi /\ m.hello = 1
    BY <1>1, <1>3, HandshakeConstants DEF Quiet, InRole, Content, Sent
  <1>5. f.hvi \in Nat /\ f.myRole = "Initiator" /\ f.state \in Committed
    <2>1. f.myRole = "Initiator" \/ (f.myRole = "Responder" /\ f.hvi < e.hvi)
      BY <1>3 DEF Sent
    <2>2. f.hvi \in Nat
      BY <1>3, <2>1 DEF Quiet, InRole
    <2>3. f.myRole = "Responder" => e.state = "CommitSent"
      BY <1>1, <1>3 DEF Quiet, InStep, Committed
    <2> QED
      BY <1>1, <1>3, <1>4, <2>1, <2>2, <2>3 DEF Sent
  <1>6. CASE ~multiStream
    <2>1. PICK c : c = DHPart(p, "DHPart1")
      OBVIOUS
    <2> DEFINE upd == [state |-> "WaitDHPart2", timer |-> FALSE, heard |-> m, myRole |-> "Responder",
                       sentPacket |-> c]
    <2>2. Step(p, upd, {c}) /\ DOMAIN upd = {"state", "sentPacket", "timer", "heard", "myRole"}
      BY <1>6, <2>1 DEF AnswerCommit, AnswerCommitDH
    <2>3. /\ Same(e, eng'[p], {"state", "sentPacket", "timer", "heard", "myRole"})
          /\ eng'[p].state = "WaitDHPart2" /\ eng'[p].heard = m /\ eng'[p].myRole = "Responder"
          /\ eng'[p].sentPacket = c
      BY <1>1, <2>2, Changed DEF Fields
    <2> HIDE DEF upd
    <2>4. Moves(multiStream, e, f, eng'[p])
      BY <1>1, <1>3, <1>4, <1>5, <1>6, <2>3, MoveAnswerDH
    <2>5. c.to = Other(p) /\ Sent(multiStream, eng'[p], f, c)
      <3>1. eng'[p].hvi = e.hvi
        BY <2>3 DEF Same, Fields
      <3> QED
        BY <1>1, <1>4, <1>6, <2>1, <2>3, <3>1 DEF DHPart, Sent
    <2> QED
      BY <1>1, <1>2, <2>2, <2>3, <2>4, <2>5, CalmMove DEF Fields
  <1>7. CASE multiStream
    <2>1. PICK k : k = MultiKey(e.chain, m)
      OBVIOUS
    <2>2. PICK c : c = Confirm(p, "Confirm1", k)
      OBVIOUS
    <2> DEFINE upd == [state |-> "WaitConfirm2", timer |-> FALSE, heard |-> m, myRole |-> "Responder",
                       key |-> k, nonces |-> e.nonces \cup {m.hvi}, sentPacket |-> c]
    <2>3. /\ Step(p, upd, {c})
          /\ DOMAIN upd = {"state", "sentPacket", "timer", "heard", "myRole", "key", "nonces"}
      BY <1>1, <1>4, <1>7, <2>1, <2>2 DEF AnswerCommit, AnswerCommitMulti
    <2>4. /\ Same(e, eng'[p], {"state", "sentPacket", "timer", "heard", "myRole", "key", "nonces"})
          /\ eng'[p].state = "WaitConfirm2" /\ eng'[p].myRole = "Responder" /\ eng'[p].key = k
          /\ eng'[p].sentPacket = c
      BY <1>1, <2>3, Changed DEF Fields
    <2> HIDE DEF upd
    <2>5. k = SessionKey(multiStream, f, eng'[p])
      BY <1>4, <1>7, <2>1 DEF MultiKey, SessionKey
    <2>6. Moves(multiStream, e, f, eng'[p])
      BY <1>1, <1>3, <1>4, <1>5, <1>7, <2>4, <2>5, MoveAnswerMulti
    <2>7. c.to = Other(p) /\ Sent(multiStream, eng'[p], f, c)
      BY <2>2, <2>4 DEF Confirm, Sent, Keyed
    <2> QED
      BY <1>1, <1>2, <2>3, <2>4, <2>6, <2>7, CalmMove DEF Fields
  <1> QED
    BY <1>3, <1>6, <1>7

LEMMA CommitReceivedCalm ==
    ASSUME Calm, NEW p \in Peers, NEW m \in net, CommitWhileWaiting(p, m) \/ CommitClash(p, m)
    PROVE  Calm' /\ [Agreement!Next]_(Agreement!vars)
  <1>1. m.to = p /\ m.type = "Commit" /\ UNCHANGED used
    BY DEF CommitWhileWaiting, CommitClash, Receives
  <1>2. m.chain = 1
    BY <1>1, Engaged DEF Sent
  <1>3. CASE CommitWhileWaiting(p, m)
    <2>1. eng[p].state \in {"AckSent", "WaitCommit"}
      BY <1>3 DEF CommitWhileWaiting, Receives, Idle
    <2>2. eng[p].peerChain = 1
      BY <2>1, Engaged DEF Quiet, InRole
    <2>3. AnswerCommit(p, m)
      BY <1>2, <1>3, <2>2 DEF CommitWhileWaiting
    <2> QED
      BY <1>1, <2>1, <2>3, AnswerCalm
  <1>4. CASE CommitClash(p, m)
    <2>1. eng[p].state = "CommitSent"
      BY <1>4 DEF CommitClash, Receives, Idle
    <2>2. CASE eng[p].hvi < m.hvi
      <3>1. AnswerCommit(p, m)
        BY <1>4, <2>2 DEF CommitClash
      <3> QED
        BY <1>1, <2>1, <2>2, <3>1, AnswerCalm
    <2>3. CASE ~(eng[p].hvi < m.hvi)
      <3> DEFINE upd == [timer |-> TRUE]
      <3>1. Step(p, upd, {}) /\ DOMAIN upd = {"timer"}
        BY <1>4, <2>3 DEF CommitClash
      <3>2. eng'[p].state = eng[p].state /\ eng'[p].sentPacket = eng[p].sentPacket
        BY <3>1, Changed DEF Same, Fields
      <3> HIDE DEF upd
      <3> QED
        BY <1>1, <3>1, <3>2, AsideCalm
    <2> QED
      BY <2>2, <2>3
  <1> QED
    BY <1>3, <1>4

\* The DH keys.
LEMMA DHPart1Calm ==
    ASSUME Calm, NEW p \in Peers, NEW m \in net, RecvDHPart1(p, m)
    PROVE  Calm' /\ [Agreement!Next]_(Agreement!vars)
  <1>1. PICK e : e = eng[p]
    OBVIOUS
  <1>2. PICK f : f = eng[Other(p)]
    OBVIOUS
  <1>3. e.state = "CommitSent" /\ m.to = p /\ m.type = "DHPart1" /\ UNCHANGED used
    BY <1>1 DEF RecvDHPart1, Receives, Idle
  <1>4. /\ Quiet(multiStream, e, f) /\ Quiet(multiStream, f, e) /\ multiStream \in BOOLEAN
        /\ Sent(multiStream, f, e, m)
    BY <1>1, <1>2, <1>3, Engaged
  <1>5. /\ m.chain = 1 /\ m.pv = f.hvi /\ f.myRole = "Responder" /\ ~multiStream
        /\ e.chain = 1 /\ e.peerChain = 1 /\ e.myRole = "Initiator"
    BY <1>3, <1>4 DEF Sent, Quiet, Content, InRole
  <1>6. PICK c : c = DHPart(p, "DHPart2")
    OBVIOUS
  <1>7. /\ c.type = "DHPart2" /\ c.to = Other(p) /\ c.chain = 1 /\ c.pv = e.hvi
    BY <1>1, <1>5, <1>6 DEF DHPart
  <1>8. PICK k : k = DHKey(e.peerChain, OwnCommit(p), m, c)
    OBVIOUS
  <1>9. k = <<1, 1, e.hvi, 1, 1, f.hvi, 1, e.hvi>>
    BY <1>1, <1>5, <1>7, <1>8 DEF DHKey, OwnCommit
  <1> DEFINE upd == [state |-> "WaitConfirm1", sentPacket |-> c, timer |-> TRUE, key |-> k]
  <1>10. Step(p, upd, {c}) /\ DOMAIN upd = {"state", "sentPacket", "timer", "key"}
    BY <1>1, <1>5, <1>6, <1>8 DEF RecvDHPart1
  <1>11. /\ Same(e, eng'[p], {"state", "sentPacket", "timer", "key"})
         /\ eng'[p].state = "WaitConfirm1" /\ eng'[p].sentPacket = c /\ eng'[p].key = k
    BY <1>1, <1>10, Changed DEF Fields
  <1>12. eng'[p].hvi = e.hvi /\ eng'[p].myRole = e.myRole
    BY <1>11 DEF Same, Fields
  <1> HIDE DEF upd
  <1>13. k = SessionKey(multiStream, eng'[p], f)
    BY <1>5, <1>9, <1>12 DEF SessionKey
  <1>14. Moves(multiStream, e, f, eng'[p])
    BY <1>3, <1>4, <1>5, <1>11, <1>13, MoveDHPart1
  <1>15. Sent(multiStream, eng'[p], f, c)
    BY <1>5, <1>7, <1>11, <1>12 DEF Sent, Answered
  <1> QED
    BY <1>1, <1>2, <1>3, <1>7, <1>10, <1>11, <1>14, <1>15, CalmMove DEF Fields

LEMMA DHPart2Calm ==
    ASSUME Calm, NEW p \in Peers, NEW m \in net, RecvDHPart2(p, m)
    PROVE  Calm' /\ [Agreement!Next]_(Agreement!vars)
  <1>1. PICK e : e = eng[p]
    OBVIOUS
  <1>2. PICK f : f = eng[Other(p)]
    OBVIOUS
  <1>3. e.state = "WaitDHPart2" /\ m.to = p /\ m.type = "DHPart2" /\ UNCHANGED used
    BY <1>1 DEF RecvDHPart2, Receives, Idle
  <1>4. /\ Quiet(multiStream, e, f) /\ Quiet(multiStream, f, e) /\ multiStream \in BOOLEAN
        /\ Sent(multiStream, f, e, m)
    BY <1>1, <1>2, <1>3, Engaged
  <1>5. /\ m.chain = 1 /\ m.pv = f.hvi /\ f.myRole = "Initiator" /\ f.state \in Answered /\ ~multiStream
        /\ e.chain = 1 /\ e.myRole = "Responder"
        /\ e.heard.chain = 1 /\ e.heard.hvi = f.hvi /\ e.heard.hello = 1
    BY <1>3, <1>4 DEF Sent, Quiet, Content, InRole, Committed
  <1>6. PICK k : k = DHKey(e.chain, e.heard, DHPart(p, "DHPart1"), m)
    OBVIOUS
  <1>7. k = <<1, 1, f.hvi, 1, 1, e.hvi, 1, f.hvi>>
    BY <1>1, <1>5, <1>6 DEF DHKey, DHPart
  <1>8. PICK c : c = Confirm(p, "Confirm1", k)
    OBVIOUS
  <1> DEFINE upd == [state |-> "WaitConfirm2", key |-> k, sentPacket |-> c]
  <1>9. Step(p, upd, {c}) /\ DOMAIN upd = {"state", "sentPacket", "key"}
    BY <1>1, <1>5, <1>6, <1>8 DEF RecvDHPart2
  <1>10. /\ Same(e, eng'[p], {"state", "sentPacket", "key"})
         /\ eng'[p].state = "WaitConfirm2" /\ eng'[p].sentPacket = c /\ eng'[p].key = k
    BY <1>1, <1>9, Changed DEF Fields
  <1>11. eng'[p].hvi = e.hvi /\ eng'[p].myRole = e.myRole
    BY <1>10 DEF Same, Fields
  <1> HIDE DEF upd
  <1>12. k = SessionKey(multiStream, f, eng'[p])
    BY <1>5, <1>7, <1>11 DEF SessionKey
  <1>13. Moves(multiStream, e, f, eng'[p])
    BY <1>3, <1>4, <1>5, <1>10, <1>12, MoveDHPart2
  <1>14. c.to = Other(p) /\ Sent(multiStream, eng'[p], f, c)
    BY <1>5, <1>8, <1>10, <1>11 DEF Confirm, Sent, Keyed
  <1> QED
    BY <1>1, <1>2, <1>3, <1>9, <1>10, <1>13, <1>14, CalmMove DEF Fields

\* The Confirm packets: both sides have the same key, so that none is refused.
LEMMA Confirm1Calm ==
    ASSUME Calm, NEW p \in Peers, NEW m \in net, Confirm1InWaitConfirm1(p, m) \/ Confirm1InCommitSent(p, m)
    PROVE  Calm' /\ [Agreement!Next]_(Agreement!vars)
  <1>1. PICK e : e = eng[p]
    OBVIOUS
  <1>2. PICK f : f = eng[Other(p)]
    OBVIOUS
  <1>3. e.state \in {"WaitConfirm1", "CommitSent"} /\ m.to = p /\ m.type = "Confirm1" /\ UNCHANGED used
    BY <1>1 DEF Confirm1InWaitConfirm1, Confirm1InCommitSent, Receives, Idle
  <1>4. /\ Quiet(multiStream, e, f) /\ Quiet(multiStream, f, e) /\ multiStream \in BOOLEAN
        /\ Sent(multiStream, f, e, m)
    BY <1>1, <1>2, <1>3, Engaged
  <1>5. /\ m.key = SessionKey(multiStream, e, f) /\ f.myRole = "Responder" /\ f.state \in Keyed
        /\ e.myRole = "Initiator" /\ e.chain = 1 /\ e.peerChain = 1
    BY <1>3, <1>4 DEF Sent, Quiet, Content, InRole
  <1>6. PICK k : k = m.key
    OBVIOUS
  <1>7. PICK c : c = Confirm(p, "Confirm2", k)
    OBVIOUS
  <1>8. c.to = Other(p) /\ c.type = "Confirm2" /\ c.key = k
    BY <1>7 DEF Confirm
  <1>9. CASE Confirm1InWaitConfirm1(p, m)
    <2>1. e.state = "WaitConfirm1" /\ e.key = k
      <3>1. e.state = "WaitConfirm1"
        BY <1>1, <1>9 DEF Confirm1InWaitConfirm1, Receives, Idle
      <3> QED
        BY <1>4, <1>5, <1>6, <3>1 DEF Quiet, Content, Keyed
    <2> DEFINE upd == [state |-> "WaitConfAck", rx |-> k, timer |-> TRUE, sentPacket |-> c]
    <2>2. Step(p, upd, {c}) /\ DOMAIN upd = {"state", "rx", "timer", "sentPacket"}
      BY <1>1, <1>6, <1>7, <1>9, <2>1 DEF Confirm1InWaitConfirm1
    <2>3. /\ Same(e, eng'[p], {"state", "sentPacket", "timer", "key", "myRole", "rx", "finishing"})
          /\ eng'[p].state = "WaitConfAck" /\ eng'[p].rx = k /\ eng'[p].sentPacket = c
          /\ eng'[p].key = k /\ eng'[p].myRole = e.myRole /\ eng'[p].finishing = e.finishing
      BY <1>1, <2>1, <2>2, Changed DEF Fields
    <2> HIDE DEF upd
    <2>4. eng'[p].hvi = e.hvi
      BY <2>3 DEF Same, Fields
    <2>5. k = SessionKey(multiStream, eng'[p], f)
      BY <1>5, <1>6, <2>4 DEF SessionKey
    <2>6. Moves(multiStream, e, f, eng'[p])
      BY <1>4, <1>5, <2>1, <2>3, <2>5, MoveConfirm1
    <2>7. Sent(multiStream, eng'[p], f, c)
      BY <1>5, <1>8, <2>3 DEF Sent
    <2> QED
      BY <1>1, <1>2, <1>3, <1>8, <2>2, <2>3, <2>6, <2>7, CalmMove DEF Fields
  <1>10. CASE Confirm1InCommitSent(p, m)
    <2>1. e.state = "CommitSent" /\ multiStream
      BY <1>1, <1>10 DEF Confirm1InCommitSent, Receives, Idle
    <2>2. k = MultiKey(e.peerChain, OwnCommit(p))
      BY <1>1, <1>5, <1>6, <2>1 DEF MultiKey, OwnCommit, SessionKey
    <2> DEFINE upd == [state |-> "WaitConfAck", key |-> k, timer |-> TRUE, myRole |-> "Initiator",
                       finishing |-> {"ForReceiver"}, sentPacket |-> c]
    <2>3. Step(p, upd, {c}) /\ DOMAIN upd = {"state", "key", "timer", "myRole", "finishing", "sentPacket"}
      BY <1>1, <1>6, <1>7, <1>10, <2>2 DEF Confirm1InCommitSent
    <2>4. /\ Same(e, eng'[p], {"state", "sentPacket", "timer", "key", "myRole", "rx", "finishing"})
          /\ eng'[p].state = "WaitConfAck" /\ eng'[p].sentPacket = c
          /\ eng'[p].key = k /\ eng'[p].myRole = "Initiator" /\ eng'[p].finishing = {"ForReceiver"}
      BY <1>1, <2>3, Changed DEF Fields
    <2> HIDE DEF upd
    <2>5. eng'[p].hvi = e.hvi
      BY <2>4 DEF Same, Fields
    <2>6. k = SessionKey(multiStream, eng'[p], f)
      BY <1>5, <1>6, <2>5 DEF SessionKey
    <2>7. Moves(multiStream, e, f, eng'[p])
      BY <1>4, <1>5, <2>1, <2>4, <2>6, MoveConfirm1
    <2>8. Sent(multiStream, eng'[p], f, c)
      BY <1>8, <2>4 DEF Sent
    <2> QED
      BY <1>1, <1>2, <1>3, <1>8, <2>3, <2>4, <2>7, <2>8, CalmMove DEF Fields
  <1> QED
    BY <1>9, <1>10

LEMMA Confirm2Calm ==
    ASSUME Calm, NEW p \in Peers, NEW m \in net, Confirm2InWaitConfirm2(p, m)
    PROVE  Calm' /\ [Agreement!Next]_(Agreement!vars)
  <1>1. PICK e : e = eng[p]
    OBVIOUS
  <1>2. PICK f : f = eng[Other(p)]
    OBVIOUS
  <1>3. /\ e.state = "WaitConfirm2" /\ e.finishing = {} /\ m.to = p /\ m.type = "Confirm2"
        /\ UNCHANGED used
    BY <1>1 DEF Confirm2InWaitConfirm2, Receives, Idle
  <1>4. /\ Quiet(multiStream, e, f) /\ Quiet(multiStream, f, e) /\ multiStream \in BOOLEAN
        /\ Sent(multiStream, f, e, m)
    BY <1>1, <1>2, <1>3, Engaged
  <1>5. /\ f.myRole = "Initiator" /\ f.state \in {"WaitConfAck", "SecureState"}
        /\ e.myRole = "Responder" /\ m.key = e.key
    BY <1>3, <1>4 DEF Sent, Quiet, Content, InRole, Keyed, Committed
  <1>6. PICK c : c = Plain(p, "Conf2Ack")
    OBVIOUS
  <1> DEFINE upd == [finishing |-> {"ForReceiver", "ForSender"}, sentPacket |-> c]
  <1>7. Step(p, upd, {c}) /\ DOMAIN upd = {"finishing", "sentPacket"}
    BY <1>1, <1>5, <1>6 DEF Confirm2InWaitConfirm2
  <1>8. /\ Same(e, eng'[p], {"sentPacket", "finishing"})
        /\ eng'[p].finishing = {"ForReceiver", "ForSender"} /\ eng'[p].sentPacket = c
    BY <1>1, <1>7, Changed DEF Fields
  <1> HIDE DEF upd
  <1>9. Moves(multiStream, e, f, eng'[p])
    BY <1>3, <1>4, <1>5, <1>8, MoveConfirm2
  <1>10. c.to = Other(p) /\ Sent(multiStream, eng'[p], f, c)
    <2>1. eng'[p].myRole = e.myRole
      BY <1>8 DEF Same, Fields
    <2> QED
      BY <1>5, <1>6, <1>8, <2>1 DEF Plain, Sent, Done
  <1> QED
    BY <1>1, <1>2, <1>3, <1>7, <1>8, <1>9, <1>10, CalmMove DEF Fields

LEMMA EnableCalm ==
    ASSUME Calm, NEW p \in Peers, EnableSrtp(p)
    PROVE  Calm' /\ [Agreement!Next]_(Agreement!vars)
  <1>1. PICK e : e = eng[p]
    OBVIOUS
  <1>2. PICK f : f = eng[Other(p)]
    OBVIOUS
  <1>3. /\ Quiet(multiStream, e, f) /\ Quiet(multiStream, f, e) /\ multiStream \in BOOLEAN
        /\ e.finishing # {} /\ UNCHANGED used
    BY <1>1, <1>2, Engaged DEF EnableSrtp
  <1>4. CASE "ForSender" \in e.finishing
    <2> DEFINE upd == [finishing |-> {}, rx |-> e.key, tx |-> e.key, state |-> "SecureState"]
    <2>1. Step(p, upd, {}) /\ DOMAIN upd = {"finishing", "rx", "tx", "state"}
      BY <1>1, <1>4 DEF EnableSrtp
    <2>2. /\ Same(e, eng'[p], {"state", "finishing", "rx", "tx"}) /\ eng'[p].finishing = {}
          /\ eng'[p].rx = e.key /\ eng'[p].tx = e.key /\ eng'[p].state = "SecureState"
      BY <1>1, <2>1, Changed DEF Fields
    <2> HIDE DEF upd
    <2>3. Moves(multiStream, e, f, eng'[p]) /\ eng'[p].sentPacket = e.sentPacket
      BY <1>3, <1>4, <2>2, MoveEnable DEF Same, Fields
    <2> QED
      BY <1>1, <1>2, <1>3, <2>1, <2>3, CalmMove DEF Fields
  <1>5. CASE "ForSender" \notin e.finishing
    <2> DEFINE upd == [finishing |-> {}, rx |-> e.key]
    <2>1. Step(p, upd, {}) /\ DOMAIN upd = {"finishing", "rx"}
      BY <1>1, <1>5 DEF EnableSrtp
    <2>2. /\ Same(e, eng'[p], {"state", "finishing", "rx", "tx"}) /\ eng'[p].finishing = {}
          /\ eng'[p].rx = e.key /\ eng'[p].tx = e.tx /\ eng'[p].state = e.state
      BY <1>1, <2>1, Changed DEF Fields
    <2> HIDE DEF upd
    <2>3. Moves(multiStream, e, f, eng'[p]) /\ eng'[p].sentPacket = e.sentPacket
      BY <1>3, <1>5, <2>2, MoveEnable DEF Same, Fields
    <2> QED
      BY <1>1, <1>2, <1>3, <2>1, <2>3, CalmMove DEF Fields
  <1> QED
    BY <1>4, <1>5

LEMMA Conf2AckCalm ==
    ASSUME Calm, NEW p \in Peers, RecvConf2Ack(p)
    PROVE  Calm' /\ [Agreement!Next]_(Agreement!vars)
  <1>1. PICK e : e = eng[p]
    OBVIOUS
  <1>2. PICK f : f = eng[Other(p)]
    OBVIOUS
  <1>3. /\ Quiet(multiStream, e, f) /\ Quiet(multiStream, f, e) /\ multiStream \in BOOLEAN
        /\ e.state = "WaitConfAck" /\ e.finishing = {} /\ UNCHANGED used
    BY <1>1, <1>2, Engaged DEF RecvConf2Ack, Idle
  <1>4. f.myRole = "Responder"
    BY <1>3 DEF Quiet, InRole, InStep, Answered
  <1>5. Done(f)
    <2>1. CASE Plain(Other(p), "Conf2Ack") \in net
      <3>1. PICK c : c = Plain(Other(p), "Conf2Ack")
        OBVIOUS
      <3>2. c \in net /\ c.to = p /\ c.type = "Conf2Ack"
        BY <2>1, <3>1, OtherPeer DEF Plain
      <3> QED
        BY <1>2, <3>2, Engaged DEF Sent
    <2>2. CASE f.tx # NoKey
      BY <1>3, <2>2 DEF Quiet, Content, Done
    <2> QED
      BY <1>2, <2>1, <2>2 DEF RecvConf2Ack
  <1> DEFINE upd == [state |-> "SecureState", tx |-> e.key, timer |-> FALSE, sentPacket |-> None]
  <1>6. Step(p, upd, {}) /\ DOMAIN upd = {"state", "tx", "timer", "sentPacket"}
    BY <1>1 DEF RecvConf2Ack
  <1>7. /\ Same(e, eng'[p], {"state", "sentPacket", "timer", "tx"})
        /\ eng'[p].state = "SecureState" /\ eng'[p].tx = e.key /\ eng'[p].sentPacket = None
    BY <1>1, <1>6, Changed DEF Fields
  <1> HIDE DEF upd
  <1>8. Moves(multiStream, e, f, eng'[p])
    BY <1>3, <1>4, <1>5, <1>7, MoveConf2Ack
  <1> QED
    BY <1>1, <1>2, <1>3, <1>6, <1>7, <1>8, CalmMove DEF Fields

LEMMA DeliverCalm ==
    ASSUME Calm, NEW p \in Peers, NEW m \in net, Deliver(p, m)
    PROVE  Calm' /\ [Agreement!Next]_(Agreement!vars)
  <1>1. CASE \E h \in 1..MaxHvi : HelloInDetect(p, m, h) \/ HelloInAckDetected(p, m, h)
    BY <1>1, DrawCalm
  <1>2. CASE HelloAckInDetect(p, m) \/ HelloInAckSent(p, m)
    BY <1>2, HelloCalm
  <1>3. CASE HelloAckInAckSent(p, m)
    BY <1>3, CommitCalm
  <1>4. CASE \/ HelloInWaitCommit(p, m) \/ CommitInWaitDHPart2(p, m)
             \/ RepeatedInWaitConfirm2(p, m) \/ Confirm2InSecure(p, m)
    <2>1. Resend(p) /\ UNCHANGED used
      BY <1>4 DEF HelloInWaitCommit, CommitInWaitDHPart2, RepeatedInWaitConfirm2, Confirm2InSecure
    <2> QED
      BY <2>1, ResendCalm
  <1>5. CASE CommitWhileWaiting(p, m) \/ CommitClash(p, m)
    BY <1>5, CommitReceivedCalm
  <1>6. CASE RecvDHPart1(p, m)
    BY <1>6, DHPart1Calm
  <1>7. CASE RecvDHPart2(p, m)
    BY <1>7, DHPart2Calm
  <1>8. CASE Confirm1InWaitConfirm1(p, m) \/ Confirm1InCommitSent(p, m)
    BY <1>8, Confirm1Calm
  <1>9. CASE Confirm2InWaitConfirm2(p, m)
    BY <1>9, Confirm2Calm
  <1>10. CASE RecvError(p, m) \/ RecvErrorAck(p, m)
    <2>1. m.to = p /\ m.type \in {"Error", "ErrorAck"}
      BY <1>10 DEF RecvError, RecvErrorAck, Receives
    <2> QED
      BY <2>1, Engaged DEF Sent
  <1> QED
    BY <1>1, <1>2, <1>3, <1>4, <1>5, <1>6, <1>7, <1>8, <1>9, <1>10 DEF Deliver

LEMMA NextCalm == Calm /\ [UndisturbedNext]_vars => Calm' /\ [Agreement!Next]_(Agreement!vars)
  <1> SUFFICES ASSUME Calm, [UndisturbedNext]_vars
               PROVE  Calm' /\ [Agreement!Next]_(Agreement!vars)
    OBVIOUS
  <1>1. ASSUME NEW p \in Peers, Exchange(p) PROVE Calm' /\ [Agreement!Next]_(Agreement!vars)
    <2>1. CASE \E m \in net : Deliver(p, m)
      BY <2>1, DeliverCalm
    <2>2. CASE StartZrtp(p)
      BY <2>2, StartCalm
    <2>3. CASE RecvConf2Ack(p)
      BY <2>3, Conf2AckCalm
    <2>4. CASE EnableSrtp(p)
      BY <2>4, EnableCalm
    <2>5. CASE Timeout(p)
      BY <2>5, ResendCalm DEF Timeout
    <2> QED
      BY <1>1, <2>1, <2>2, <2>3, <2>4, <2>5 DEF Exchange
  <1>2. CASE (\E m \in net : Lose(m)) \/ UNCHANGED vars
    <2>1. UNCHANGED <<eng, used, multiStream>> /\ net' \subseteq net
      BY <1>2 DEF Lose, vars
    <2>2. Calm'
      BY <2>1 DEF Calm
    <2>3. UNCHANGED (Agreement!vars)
      BY <2>1 DEF Agreement!vars, Stage, Secure
    <2> QED
      BY <2>2, <2>3
  <1> QED
    BY <1>1, <1>2 DEF UndisturbedNext

LEMMA InitCalm == Init => Calm /\ Agreement!Init
  <1> SUFFICES ASSUME Init PROVE Calm /\ Agreement!Init
    OBVIOUS
  <1>1. PICK e : e = NewEngine(1)
    OBVIOUS
  <1>2. /\ DOMAIN e = Fields /\ e.state = "Initial" /\ e.sentPacket = None /\ e.chain = 1 /\ e.hvi = 0
        /\ e.myRole = "NoRole" /\ e.key = NoKey /\ e.tx = NoKey /\ e.finishing = {} /\ e.nonces = {}
    BY <1>1 DEF NewEngine, Fields
  <1>3. eng = [p \in Peers |-> e] /\ net = {} /\ used = {} /\ multiStream \in BOOLEAN
    BY <1>1, HandshakeConstants DEF Init
  <1>4. ASSUME NEW ms \in BOOLEAN PROVE Quiet(ms, e, e)
    <2>1. InRole(e)
      BY <1>2 DEF InRole
    <2>2. Content(ms, e, e)
      BY <1>2 DEF Content, Keyed
    <2>3. InStep(e, e)
      BY <1>2 DEF InStep
    <2>4. Sent(ms, e, e, e.sentPacket)
      BY <1>2 DEF Sent, None
    <2> QED
      BY <2>1, <2>2, <2>3, <2>4 DEF Quiet
  <1>5. Calm
    BY <1>2, <1>3, <1>4, OtherPeer DEF Calm
  <1>6. Agreement!Init
    BY <1>2, <1>3 DEF Agreement!Init, Stage
  <1> QED
    BY <1>5, <1>6

LEMMA CalmHolds == FairSpec => []Calm
  BY InitCalm, NextCalm, PTL DEF FairSpec

\* Undisturbed, no check of ZRtp::prepare*() sends an Error packet: whatever the network
\* loses, repeats or reorders, every packet that arrives fits the state it arrives in.
THEOREM NoFalseAlarmHolds == FairSpec => []NoFalseAlarm
  <1>1. Calm => NoFalseAlarm
    BY Engaged DEF NoFalseAlarm, Quiet, InRole, Committed
  <1> QED
    BY <1>1, CalmHolds, PTL

\* Undisturbed, whoever enables its SRTP sender has a peer whose receiver is enabled with
\* the same keys, or is being enabled by the event handler that runs.
THEOREM MediaDecodableHolds == FairSpec => []MediaDecodable
  <1>1. Calm => MediaDecodable
    <2> SUFFICES ASSUME Calm, NEW p \in Peers, eng[p].tx # NoKey
                 PROVE  LET q == eng[Other(p)]
                        IN  q.rx = eng[p].tx \/ ("ForReceiver" \in q.finishing /\ q.key = eng[p].tx)
      BY DEF MediaDecodable
    <2>1. PICK e : e = eng[p]
      OBVIOUS
    <2>2. PICK f : f = eng[Other(p)]
      OBVIOUS
    <2>3. Quiet(multiStream, e, f) /\ Quiet(multiStream, f, e)
      BY <2>1, <2>2, Engaged
    <2>4. e.state = "SecureState" /\ e.tx = e.key
      BY <2>1, <2>3 DEF Quiet, Content
    <2>5. CASE e.myRole = "Initiator"
      <3>1. f.myRole = "Responder" /\ Done(f)
        BY <2>3, <2>4, <2>5 DEF Quiet, InStep, Answered
      <3>2. \/ f.state = "SecureState" /\ f.rx = f.key
            \/ f.state = "WaitConfirm2" /\ "ForReceiver" \in f.finishing
        BY <2>3, <3>1 DEF Quiet, Content, Done
      <3>3. f.key = e.key
        BY <2>3, <2>4, <2>5, <3>1, <3>2 DEF Quiet, Content, Keyed
      <3> QED
        BY <2>1, <2>2, <2>4, <3>2, <3>3
    <2>6. CASE e.myRole = "Responder"
      <3>1. f.myRole = "Initiator" /\ f.state \in {"WaitConfAck", "SecureState"}
        BY <2>3, <2>4, <2>6 DEF Quiet, InStep, Done
      <3>2. f.rx = f.key \/ "ForReceiver" \in f.finishing
        BY <2>3, <3>1 DEF Quiet, Content
      <3>3. f.key = e.key
        BY <2>3, <2>4, <2>6, <3>1 DEF Quiet, Content, Keyed
      <3> QED
        BY <2>1, <2>2, <2>4, <3>2, <3>3
    <2> QED
      BY <2>3, <2>4, <2>5, <2>6 DEF Quiet, InRole
  <1> QED
    BY <1>1, CalmHolds, PTL

\* The undisturbed exchange implements KeyAgreement: every step in which an engine
\* computes its key, confirms it or goes secure is a step of KeyAgreement, and all others
\* are invisible in it.  (That it does not stop half way is checked by TLC.)
THEOREM ImplementsAgreement == FairSpec => Agreement!Spec
  <1>1. Init => Agreement!Init
    BY InitCalm
  <1>2. Calm /\ [UndisturbedNext]_vars => [Agreement!Next]_(Agreement!vars)
    BY NextCalm
  <1> QED
    BY <1>1, <1>2, CalmHolds, PTL DEF FairSpec, Agreement!Spec
=============================================================================
