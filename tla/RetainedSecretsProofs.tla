----------------------- MODULE RetainedSecretsProofs -----------------------
(***************************************************************************)
(* Proofs about RetainedSecrets, for any number of sessions and crashes: the *)
(* two peers choose the same secret, keep one in common when one session is  *)
(* cut, show the same SAS flag, show it only where a user has earned it, and *)
(* hold a new secret back when they miss the old one.                        *)
(***************************************************************************)
EXTENDS RetainedSecrets, FiniteSetTheorems, TLAPS

-----------------------------------------------------------------------------
(* Records and engines.                                                      *)

\* The first secret is the younger one, and valid as soon as there is one.
Records ==
    {r \in [rs1 : 0..MaxSessions, rs2 : 0..MaxSessions, rs1Valid : BOOLEAN, rs2Valid : BOOLEAN,
            sasVerified : BOOLEAN] :
        /\ r.rs2 < r.rs1 \/ (r.rs1 = 0 /\ r.rs2 = 0)
        /\ r.rs1Valid <=> r.rs1 # 0}

\* The ids of two valid secrets are in the order of their age.
IdPairs ==
    {a \in (0..Unknown) \X (0..Unknown) : a[1] # Unknown /\ a[2] # Unknown => a[2] < a[1]}

\* The engine has not saved yet; it has come to the point where it saves.
Early == {"Hello", "WaitDHPart2", "WaitConfirm"}
Late  == {"WaitConfAck", "Secure"}

Engine ==
    [phase : Early \cup Late, zidRec : Records, ids : IdPairs, saveZidRecord : BOOLEAN,
     paranoidMode : BOOLEAN, setD : 0..NoSecret, zrtpUnprotect : Nat, judged : BOOLEAN]

Types ==
    /\ cache \in [Peers -> Records] /\ eng \in [Peers -> Engine \cup {NoEngine}]
    /\ session \in 0..MaxSessions /\ initiator \in Peers /\ crashes \in Nat /\ cuts \in Nat
    /\ \A m \in net : m.type \in {"Confirm1", "Confirm2"} => m.sas \in BOOLEAN
    /\ \A p \in Peers : cache[p].rs1 <= session

-----------------------------------------------------------------------------
(* One session.  offer[p] is what the record of p offered when it began.     *)

\* The record of the engine, its saved copy, and what holds it back.
EngineOK(p, offer) ==
    eng[p].phase # "None" =>
        /\ eng[p].ids = offer[p]
        /\ eng[p].phase \in {"WaitConfirm"} \cup Late => eng[p].setD = Choose(offer[p], offer[Other(p)])
        /\ eng[p].phase \in Early =>
             /\ eng[p].zidRec.rs1 = cache[p].rs1 /\ eng[p].zidRec.rs2 = cache[p].rs2
             /\ cache[p].rs1 < session /\ eng[p].zrtpUnprotect = 0
             /\ ~eng[p].saveZidRecord <=>
                   /\ eng[p].phase = "WaitConfirm"
                   /\ eng[p].setD = NoSecret /\ eng[p].ids # <<Unknown, Unknown>>
        /\ eng[p].phase \in Late =>
             /\ eng[p].zidRec.rs1 = session
             /\ eng[p].setD # NoSecret => eng[p].saveZidRecord
             /\ eng[p].saveZidRecord => cache[p].rs1 = session
             /\ cache[p].rs1 = session => /\ cache[p].rs2 = eng[p].zidRec.rs2
                                          /\ cache[p].rs2Valid <=> eng[p].zidRec.rs2Valid
        /\ eng[p].phase = "WaitDHPart2" => p # initiator
        /\ eng[p].phase = "WaitConfAck" => p = initiator

\* The packets of the session.
PacketOK(m, offer) ==
    LET i == initiator
        r == Other(initiator)
    IN  /\ m.type = "DHPart1" => m.ids = offer[r]
        /\ m.type = "DHPart2" => m.ids = offer[i]
        /\ m.type = "Confirm1" => m.key = Choose(offer[r], offer[i])
        /\ m.type = "Confirm2" => m.key = Choose(offer[i], offer[r])

\* A peer that has not saved in this session offered what it still has.
Offered(offer) ==
    \A p \in Peers : cache[p].rs1 < session /\ cache[p].rs1 # 0 => offer[p][1] = cache[p].rs1

\* The SAS flags: the Responder's goes into Confirm1, both go into Confirm2.
Flag(p) == eng[p].zidRec.sasVerified /\ ~eng[p].paranoidMode

Flags ==
    LET i == eng[initiator]
        r == eng[Other(initiator)]
    IN  /\ i.phase \in Early => r.phase # "Secure" /\ \A m \in net : m.type # "Confirm2"
        /\ r.phase \in {"Hello", "WaitDHPart2"} =>
             \A m \in net : m.type \notin {"Confirm1", "Confirm2"}
        /\ \A m \in net :
             /\ m.type = "Confirm1" /\ r.phase = "WaitConfirm" => (m.sas <=> Flag(Other(initiator)))
             /\ m.type = "Confirm2" /\ r.phase = "WaitConfirm" => (m.sas => Flag(Other(initiator)))
             /\ m.type = "Confirm2" /\ i.phase \in Late /\ ~i.judged => (m.sas <=> i.zidRec.sasVerified)
        /\ r.phase = "Secure" /\ ~r.judged /\ i.phase \in Late /\ ~i.judged =>
             (r.zidRec.sasVerified <=> i.zidRec.sasVerified)

-----------------------------------------------------------------------------
(* The link between the two caches, as long as no engine has crashed.        *)

Linked(offer) ==
    \E s \in Secrets : \A p \in Peers : offer[p][1] = s \/ offer[p][2] = s

\* p has saved a secret that its peer has not: the one before is still there, or is
\* valid again as soon as p stops.
Ahead(p) ==
    LET q == Other(p)
    IN  /\ cache[q].rs1 # 0 /\ cache[p].rs2 = cache[q].rs1
        /\ \/ cache[p].rs2Valid
           \/ /\ eng[p].phase \in Late /\ cache[p].rs1 = session
              /\ eng[p].saveZidRecord /\ eng[p].zrtpUnprotect = 0

Link(offer) ==
    crashes = 0 =>
        /\ cuts = 0 => \A p \in Peers : cache[p].rs1 # 0 /\ cache[p].rs1 = cache[Other(p)].rs1
        /\ cuts = 1 => \E p \in Peers : Ahead(p)
        /\ cuts <= 1 /\ (\E p \in Peers : eng[p].phase # "None" /\ cache[p].rs1 < session) =>
             Linked(offer)

Session(offer) ==
    /\ \A p \in Peers : EngineOK(p, offer)
    /\ \A m \in net : PacketOK(m, offer)
    /\ Offered(offer) /\ Link(offer)

Within(offer) == Types /\ Flags /\ Session(offer)

Inv == \E offer \in [Peers -> IdPairs] : Within(offer)

-----------------------------------------------------------------------------
(* Two peers; the choice of a secret.                                        *)

LEMMA OtherPeer ==
    \A p \in Peers : /\ Other(p) \in Peers /\ Other(p) # p /\ Other(Other(p)) = p
                     /\ \A q \in Peers : q = p \/ q = Other(p)
  <1> SUFFICES ASSUME NEW p \in Peers
               PROVE  /\ Other(p) \in Peers /\ Other(p) # p /\ Other(Other(p)) = p
                      /\ \A q \in Peers : q = p \/ q = Other(p)
    OBVIOUS
  <1>1. IsFiniteSet(Peers \ {p}) /\ Cardinality(Peers \ {p}) = 1
    BY RetainedConstants, FS_RemoveElement
  <1>2. PICK q : Peers \ {p} = {q}
    BY <1>1, FS_Singleton
  <1>3. Other(p) = q /\ Other(q) = p
    BY <1>2 DEF Other
  <1> QED
    BY <1>2, <1>3

LEMMA MinOfTwo ==
    ASSUME NEW a \in Nat, NEW b \in Nat
    PROVE  Min({a, b}) = IF a <= b THEN a ELSE b
  BY DEF Min

LEMMA ChooseCases ==
    ASSUME NEW a \in IdPairs, NEW b \in IdPairs
    PROVE  Choose(a, b) = IF a[1] # Unknown /\ (a[1] = b[1] \/ a[1] = b[2]) THEN a[1]
                          ELSE IF a[2] # Unknown /\ (a[2] = b[1] \/ a[2] = b[2]) THEN a[2]
                          ELSE NoSecret
  <1> DEFINE hits == {k \in 1..2 : a[k] # Unknown /\ a[k] \in Range(b)}
  <1>1. \A x : x \in Range(b) <=> x = b[1] \/ x = b[2]
    BY DEF IdPairs, Range
  <1>2. Choose(a, b) = IF hits = {} THEN NoSecret ELSE a[Min(hits)]
    BY DEF Choose
  <1>3. 1 \in hits => Min(hits) = 1
    BY DEF Min
  <1>4. 1 \notin hits /\ 2 \in hits => Min(hits) = 2
    <2>1. 1 \notin hits /\ 2 \in hits => hits = {2}
      OBVIOUS
    <2> QED
      BY <2>1 DEF Min
  <1>5. /\ 1 \in hits <=> a[1] # Unknown /\ (a[1] = b[1] \/ a[1] = b[2])
        /\ 2 \in hits <=> a[2] # Unknown /\ (a[2] = b[1] \/ a[2] = b[2])
    BY <1>1
  <1>6. 1 \notin hits /\ 2 \notin hits => hits = {}
    OBVIOUS
  <1> HIDE DEF hits
  <1> QED
    BY <1>2, <1>3, <1>4, <1>5, <1>6

\* generateKeysInitiator and generateKeysResponder come to the same secret, because
\* both look for the youngest first.
LEMMA ChooseSame == \A a, b \in IdPairs : Choose(a, b) = Choose(b, a)
  <1> SUFFICES ASSUME NEW a \in IdPairs, NEW b \in IdPairs PROVE Choose(a, b) = Choose(b, a)
    OBVIOUS
  <1>1. /\ a[1] \in Nat /\ a[2] \in Nat /\ b[1] \in Nat /\ b[2] \in Nat
        /\ a[1] # Unknown /\ a[2] # Unknown => a[2] < a[1]
        /\ b[1] # Unknown /\ b[2] # Unknown => b[2] < b[1]
    BY RetainedConstants DEF IdPairs, Unknown
  <1> QED
    BY <1>1, ChooseCases

LEMMA ChooseType == \A a, b \in IdPairs : Choose(a, b) \in 0..NoSecret
  BY ChooseCases, RetainedConstants DEF IdPairs, Unknown, NoSecret

\* Peers that offer a common secret find it.
LEMMA LinkedChoice ==
    ASSUME NEW offer \in [Peers -> IdPairs], Linked(offer), NEW p \in Peers
    PROVE  Choose(offer[p], offer[Other(p)]) # NoSecret
  <1>1. PICK s \in Secrets : \A r \in Peers : offer[r][1] = s \/ offer[r][2] = s
    BY DEF Linked
  <1>2. offer[p] \in IdPairs /\ offer[Other(p)] \in IdPairs /\ Other(p) \in Peers
    BY OtherPeer
  <1>3. s # Unknown /\ NoSecret # Unknown /\ \A a \in IdPairs : a[1] # NoSecret /\ a[2] # NoSecret
    BY RetainedConstants DEF Secrets, Unknown, NoSecret, IdPairs
  <1> QED
    BY <1>1, <1>2, <1>3, ChooseCases

LEMMA RecordIds == \A rec \in Records : Ids(rec) \in IdPairs
  BY RetainedConstants DEF Records, Ids, IdPairs, Unknown

-----------------------------------------------------------------------------
(* The link.                                                                 *)

\* p saves nothing new.
LEMMA LinkSame ==
    ASSUME Types, NEW offer \in [Peers -> IdPairs], Link(offer), NEW p \in Peers,
           eng'[Other(p)] = eng[Other(p)], cache'[Other(p)] = cache[Other(p)],
           cache'[p].rs1 = cache[p].rs1, cache'[p].rs2 = cache[p].rs2,
           UNCHANGED <<session, crashes, cuts>>,
           eng'[p].phase # "None" => eng[p].phase # "None",
           cuts = 1 /\ crashes = 0 /\ Ahead(p) => Ahead(p)'
    PROVE  Link(offer)'
  <1>0. \A r \in Peers : r = p \/ r = Other(p)
    BY OtherPeer
  <1>1. Ahead(Other(p)) => Ahead(Other(p))'
    BY OtherPeer DEF Ahead
  <1>2. \A r \in Peers : cache'[r].rs1 = cache[r].rs1 /\ (eng'[r].phase # "None" => eng[r].phase # "None")
    BY <1>0
  <1> QED
    BY <1>0, <1>1, <1>2, OtherPeer DEF Link, Linked

\* p saves the secret of this session.
LEMMA LinkSave ==
    ASSUME Types, Types', NEW offer \in [Peers -> IdPairs], Link(offer), NEW p \in Peers,
           eng'[Other(p)] = eng[Other(p)], cache'[Other(p)] = cache[Other(p)],
           CountCuts(p), UNCHANGED <<session, crashes>>,
           cache[p].rs1 < session, cache'[p].rs1 = session,
           cuts = 0 /\ crashes = 0 =>
              /\ cache'[p].rs2 = cache[p].rs1 /\ eng'[p].phase \in Late
              /\ eng'[p].saveZidRecord /\ eng'[p].zrtpUnprotect = 0
    PROVE  Link(offer)'
  <1> DEFINE q == Other(p)
  <1>0. q \in Peers /\ q # p /\ Other(q) = p /\ \A r \in Peers : r = p \/ r = q
    BY OtherPeer
  <1>t. /\ session \in Nat /\ cuts \in Nat /\ session # 0 /\ MaxSessions \in Nat \ {0, 1}
        /\ cache[q].rs1 \in Nat /\ cache'[p].rs1Valid /\ cache[p].rs1 \in Nat
    BY <1>0, RetainedConstants DEF Types, Records
  <1> HIDE DEF q
  <1>1. cuts' = IF cache[q].rs1 = session THEN 0 ELSE IF cuts + 1 <= MaxSessions THEN cuts + 1 ELSE MaxSessions
    BY <1>t, MinOfTwo DEF CountCuts, q
  <1>2. CASE cache[q].rs1 = session
    BY <1>0, <1>t, <1>1, <1>2 DEF Link, q
  <1>3. CASE cache[q].rs1 # session
    <2>1. cuts' <= 1 => cuts = 0 /\ cuts' = 1
      BY <1>t, <1>1, <1>3
    <2>2. CASE cuts = 0 /\ crashes = 0
      <3>1. cache[q].rs1 # 0 /\ cache[q].rs1 = cache[p].rs1
        BY <1>0, <2>2 DEF Link, q
      <3>2. Ahead(p)'
        BY <2>2, <3>1 DEF Ahead, q
      <3>3. eng'[q].phase # "None" /\ cache'[q].rs1 < session' => Linked(offer)
        BY <1>0, <2>2 DEF Link, q
      <3> QED
        BY <1>0, <1>t, <1>1, <1>3, <3>2, <3>3 DEF Link, Linked, q
    <2>3. CASE ~(cuts = 0 /\ crashes = 0)
      BY <1>t, <1>1, <1>3, <2>1, <2>3 DEF Link
    <2> QED
      BY <2>2, <2>3
  <1> QED
    BY <1>2, <1>3

\* p saves the secret of this session again, or nothing.
LEMMA LinkAgain ==
    ASSUME Types, Types', NEW offer \in [Peers -> IdPairs], Link(offer), Offered(offer), NEW p \in Peers,
           eng'[Other(p)] = eng[Other(p)], cache'[Other(p)] = cache[Other(p)],
           CountCuts(p), UNCHANGED <<session, crashes>>,
           cache'[p].rs1 = cache[p].rs1, cache'[p].rs2 = cache[p].rs2,
           eng'[p].phase # "None" => eng[p].phase # "None",
           cuts = 1 /\ crashes = 0 /\ Ahead(p) => Ahead(p)'
    PROVE  Link(offer)'
  <1> DEFINE q == Other(p)
  <1>0. q \in Peers /\ q # p /\ Other(q) = p /\ \A r \in Peers : r = p \/ r = q
    BY OtherPeer
  <1>1. CASE cuts' = cuts
    BY <1>1, LinkSame
  <1>2. CASE cuts' # cuts
    <2>1. cuts' = 0 /\ cache'[p].rs1 = cache'[q].rs1 /\ cache'[p].rs1 # 0
      BY <1>2 DEF CountCuts, Types, Records
    <2>2. CASE cache[p].rs1 < session
      <3>1. cache[p].rs1 \in 0..MaxSessions /\ cache[p].rs1 # 0
        BY <2>1 DEF Types, Records
      <3>2. cache[p].rs1 \in Secrets
        BY <3>1, RetainedConstants DEF Secrets
      <3>3. offer[p][1] = cache[p].rs1 /\ offer[q][1] = cache[p].rs1
        BY <1>0, <2>1, <2>2 DEF Offered
      <3>4. Linked(offer)
        BY <1>0, <3>2, <3>3 DEF Linked
      <3> QED
        BY <1>0, <2>1, <3>4 DEF Link, Linked
    <2>3. CASE ~(cache[p].rs1 < session)
      BY <1>0, <2>1, <2>3 DEF Link
    <2> QED
      BY <2>2, <2>3
  <1> QED
    BY <1>1, <1>2

-----------------------------------------------------------------------------
(* A step of p.                                                              *)

LEMMA TypesStep ==
    ASSUME Types, NEW p \in Peers, NEW e \in Engine \cup {NoEngine}, eng' = [eng EXCEPT ![p] = e],
           NEW rec \in Records, cache' = [cache EXCEPT ![p] = rec], rec.rs1 <= session,
           UNCHANGED <<session, initiator>>, crashes' \in Nat, CountCuts(p) \/ UNCHANGED cuts,
           \A m \in net' : m \in net \/ (m.type \in {"Confirm1", "Confirm2"} => m.sas \in BOOLEAN)
    PROVE  /\ Types' /\ eng'[p] = e /\ cache'[p] = rec
           /\ eng'[Other(p)] = eng[Other(p)] /\ cache'[Other(p)] = cache[Other(p)]
  <1>1. cuts' \in Nat
    <2>1. cuts \in Nat /\ MaxSessions \in Nat
      BY RetainedConstants DEF Types
    <2>2. Min({cuts + 1, MaxSessions}) \in Nat
      BY <2>1, MinOfTwo
    <2> QED
      BY <2>1, <2>2 DEF CountCuts
  <1>2. /\ eng'[p] = e /\ cache'[p] = rec
        /\ eng'[Other(p)] = eng[Other(p)] /\ cache'[Other(p)] = cache[Other(p)]
    BY OtherPeer DEF Types
  <1>3. cache' \in [Peers -> Records] /\ eng' \in [Peers -> Engine \cup {NoEngine}]
    BY DEF Types
  <1>4. \A r \in Peers : cache'[r].rs1 <= session
    BY <1>2, OtherPeer DEF Types
  <1> QED
    BY <1>1, <1>2, <1>3, <1>4 DEF Types

LEMMA SessionStep ==
    ASSUME NEW offer \in [Peers -> IdPairs], Session(offer), NEW p \in Peers,
           eng'[Other(p)] = eng[Other(p)], cache'[Other(p)] = cache[Other(p)],
           UNCHANGED <<session, initiator>>, EngineOK(p, offer)',
           \A m \in net' : m \in net \/ PacketOK(m, offer),
           cache'[p].rs1 = cache[p].rs1 \/ cache'[p].rs1 = session,
           session \in Nat, Link(offer)'
    PROVE  Session(offer)'
  <1>1. EngineOK(Other(p), offer)'
    BY OtherPeer DEF Session, EngineOK
  <1>2. \A r \in Peers : EngineOK(r, offer)'
    BY <1>1, OtherPeer
  <1>3. \A m \in net' : PacketOK(m, offer)'
    BY DEF Session, PacketOK
  <1>4. Offered(offer)'
    BY OtherPeer DEF Session, Offered
  <1> QED
    BY <1>2, <1>3, <1>4 DEF Session

\* A step of p that does not say anything new about the SAS.
LEMMA FlagsSame ==
    ASSUME Types, Flags, NEW p \in Peers, eng'[Other(p)] = eng[Other(p)], initiator' = initiator,
           \A m \in net' : m \in net \/ m.type \notin {"Confirm1", "Confirm2"},
           \/ eng'[p].phase = "None"
           \/ p = initiator /\ eng'[p].phase \in Early /\ eng[p].phase \in Early
           \/ /\ eng'[p].paranoidMode = eng[p].paranoidMode
              /\ \/ /\ eng'[p].zidRec.sasVerified = eng[p].zidRec.sasVerified
                    /\ eng'[p].judged = eng[p].judged
                 \/ eng'[p].judged /\ eng'[p].phase = "Secure"
              /\ eng'[p].phase \in {"Hello", "WaitDHPart2"} => eng[p].phase \in {"Hello", "WaitDHPart2"}
              /\ eng'[p].phase = "WaitConfirm" => eng[p].phase = "WaitConfirm"
              /\ eng'[p].phase \in Late => eng[p].phase \in Late
              /\ eng'[p].phase = "Secure" => eng[p].phase = "Secure" \/ p = initiator
    PROVE  Flags'
  <1> DEFINE i == initiator
             r == Other(initiator)
  <1>0. i \in Peers /\ r \in Peers /\ i # r /\ Other(r) = i /\ (p = i \/ p = r)
    BY OtherPeer DEF Types
  <1>1. CASE p = i
    BY <1>0, <1>1 DEF Flags, Flag, Early, Late
  <1>2. CASE p = r
    BY <1>0, <1>2 DEF Flags, Flag, Early, Late
  <1> QED
    BY <1>0, <1>1, <1>2

LEMMA Live == Types => \A p \in Peers : eng[p].phase # "None" => eng[p] \in Engine
  BY DEF Types, NoEngine

\* The cache stays as it is.
LEMMA NothingSaved ==
    ASSUME Types, NEW p \in Peers, UNCHANGED cache
    PROVE  cache' = [cache EXCEPT ![p] = cache[p]] /\ cache[p] \in Records /\ cache[p].rs1 <= session
  BY DEF Types

-----------------------------------------------------------------------------
(* The actions.                                                              *)

LEMMA AnswerCommitInv ==
    \A offer \in [Peers -> IdPairs], p \in Peers : Within(offer) /\ AnswerCommit(p) => Within(offer)'
  <1> SUFFICES ASSUME NEW offer \in [Peers -> IdPairs], NEW p \in Peers, Within(offer), AnswerCommit(p)
               PROVE  Within(offer)'
    OBVIOUS
  <1>0. Types /\ Flags
    BY DEF Within
  <1>1. Session(offer)
    BY DEF Within
  <1>2. PICK m : m = [type |-> "DHPart1", ids |-> eng[p].ids]
    OBVIOUS
  <1>3. /\ p # initiator /\ eng[p].phase = "Hello" /\ net' = net \cup {m}
        /\ UNCHANGED <<cache, session, initiator, crashes, cuts>> /\ m.type = "DHPart1" /\ m.ids = eng[p].ids
    BY <1>2 DEF AnswerCommit, Send
  <1>4. eng[p] \in Engine
    BY <1>0, <1>3, Live
  <1>5. PICK e \in Engine : e = [eng[p] EXCEPT !.phase = "WaitDHPart2"]
    BY <1>4 DEF Engine, Early
  <1>6. eng' = [eng EXCEPT ![p] = e]
    BY <1>5 DEF AnswerCommit
  <1>7. /\ Types' /\ eng'[p] = e /\ cache'[p] = cache[p]
        /\ eng'[Other(p)] = eng[Other(p)] /\ cache'[Other(p)] = cache[Other(p)]
    BY <1>0, <1>3, <1>6, NothingSaved, TypesStep DEF Types
  <1>8. /\ e.phase = "WaitDHPart2" /\ e.ids = eng[p].ids /\ e.zidRec = eng[p].zidRec
        /\ e.setD = eng[p].setD /\ e.saveZidRecord = eng[p].saveZidRecord
        /\ e.zrtpUnprotect = eng[p].zrtpUnprotect /\ e.judged = eng[p].judged
        /\ e.paranoidMode = eng[p].paranoidMode
    BY <1>4, <1>5 DEF Engine
  <1>9. Flags'
    BY <1>0, <1>3, <1>7, <1>8, FlagsSame DEF Late
  <1>10. EngineOK(p, offer)'
    BY <1>1, <1>3, <1>7, <1>8 DEF Session, EngineOK, Early, Late
  <1>11. PacketOK(m, offer)
    BY <1>0, <1>1, <1>3, OtherPeer DEF Session, EngineOK, PacketOK, Types
  <1>12. Link(offer)'
    BY <1>0, <1>1, <1>3, <1>7, <1>8, LinkSame DEF Session, Ahead, Late
  <1>13. Session(offer)'
    BY <1>0, <1>1, <1>3, <1>7, <1>10, <1>11, <1>12, SessionStep DEF Types
  <1> QED
    BY <1>7, <1>9, <1>13 DEF Within

LEMMA RecvConf2AckInv ==
    \A offer \in [Peers -> IdPairs], p \in Peers : Within(offer) /\ RecvConf2Ack(p) => Within(offer)'
  <1> SUFFICES ASSUME NEW offer \in [Peers -> IdPairs], NEW p \in Peers, Within(offer), RecvConf2Ack(p)
               PROVE  Within(offer)'
    OBVIOUS
  <1>0. Types /\ Flags
    BY DEF Within
  <1>1. Session(offer)
    BY DEF Within
  <1>3. /\ eng[p].phase = "WaitConfAck"
        /\ UNCHANGED <<cache, net, session, initiator, crashes, cuts>>
    BY DEF RecvConf2Ack
  <1>4. eng[p] \in Engine /\ p = initiator
    BY <1>0, <1>1, <1>3, Live DEF Session, EngineOK
  <1>5. PICK e \in Engine : e = [eng[p] EXCEPT !.phase = "Secure"]
    BY <1>4 DEF Engine, Late
  <1>6. eng' = [eng EXCEPT ![p] = e]
    BY <1>5 DEF RecvConf2Ack
  <1>7. /\ Types' /\ eng'[p] = e /\ cache'[p] = cache[p]
        /\ eng'[Other(p)] = eng[Other(p)] /\ cache'[Other(p)] = cache[Other(p)]
    BY <1>0, <1>3, <1>6, NothingSaved, TypesStep DEF Types
  <1>8. /\ e.phase = "Secure" /\ e.ids = eng[p].ids /\ e.zidRec = eng[p].zidRec
        /\ e.setD = eng[p].setD /\ e.saveZidRecord = eng[p].saveZidRecord
        /\ e.zrtpUnprotect = eng[p].zrtpUnprotect /\ e.judged = eng[p].judged
        /\ e.paranoidMode = eng[p].paranoidMode
    BY <1>4, <1>5 DEF Engine
  <1>9. Flags'
    BY <1>0, <1>3, <1>4, <1>7, <1>8, FlagsSame DEF Late
  <1>10. EngineOK(p, offer)'
    BY <1>1, <1>3, <1>4, <1>7, <1>8 DEF Session, EngineOK, Early, Late
  <1>12. Link(offer)'
    BY <1>0, <1>1, <1>3, <1>7, <1>8, LinkSame DEF Session, Ahead, Late
  <1>13. Session(offer)'
    BY <1>0, <1>1, <1>3, <1>7, <1>10, <1>12, SessionStep DEF Types
  <1> QED
    BY <1>7, <1>9, <1>13 DEF Within

LEMMA RecvMediaInv ==
    \A offer \in [Peers -> IdPairs], p \in Peers : Within(offer) /\ RecvMedia(p) => Within(offer)'
  <1> SUFFICES ASSUME NEW offer \in [Peers -> IdPairs], NEW p \in Peers, Within(offer), RecvMedia(p)
               PROVE  Within(offer)'
    OBVIOUS
  <1>0. Types /\ Flags
    BY DEF Within
  <1>1. Session(offer)
    BY DEF Within
  <1>3. /\ eng[p].phase = "Secure" /\ eng[Other(p)].phase = "Secure"
        /\ UNCHANGED <<cache, net, session, initiator, crashes, cuts>>
    BY DEF RecvMedia
  <1>4. eng[p] \in Engine
    BY <1>0, <1>3, Live
  <1>5. PICK e \in Engine : e = [eng[p] EXCEPT !.zrtpUnprotect = @ + 1]
    <2>1. PICK n \in Nat : n = eng[p].zrtpUnprotect + 1
      BY <1>4 DEF Engine
    <2>2. [eng[p] EXCEPT !.zrtpUnprotect = n] \in Engine
      BY <1>4, <2>1 DEF Engine
    <2> QED
      BY <2>1, <2>2
  <1>6. eng' = [eng EXCEPT ![p] = e]
    BY <1>5 DEF RecvMedia
  <1>7. /\ Types' /\ eng'[p] = e /\ cache'[p] = cache[p]
        /\ eng'[Other(p)] = eng[Other(p)] /\ cache'[Other(p)] = cache[Other(p)]
    BY <1>0, <1>3, <1>6, NothingSaved, TypesStep DEF Types
  <1>8. /\ e.phase = "Secure" /\ e.ids = eng[p].ids /\ e.zidRec = eng[p].zidRec
        /\ e.setD = eng[p].setD /\ e.saveZidRecord = eng[p].saveZidRecord
        /\ e.judged = eng[p].judged /\ e.paranoidMode = eng[p].paranoidMode
    BY <1>3, <1>4, <1>5 DEF Engine
  <1>9. Flags'
    BY <1>0, <1>3, <1>4, <1>7, <1>8, FlagsSame DEF Late
  <1>10. EngineOK(p, offer)'
    BY <1>1, <1>3, <1>4, <1>7, <1>8 DEF Session, EngineOK, Early, Late
  \* Both are secure, so that both have saved: nobody is ahead.
  <1>11. cuts = 1 /\ crashes = 0 /\ Ahead(p) => cache[p].rs2Valid
    <2> DEFINE q == Other(p)
    <2> SUFFICES ASSUME cuts = 1, crashes = 0, Ahead(p), ~cache[p].rs2Valid PROVE FALSE
      OBVIOUS
    <2>1. q \in Peers /\ Other(q) = p /\ cache[p].rs1 = session /\ cache[p].rs2 = cache[q].rs1
          /\ cache[q].rs1 # 0
      BY OtherPeer DEF Ahead
    <2>2. cache[q].rs1 < session
      BY <1>0, <2>1 DEF Types, Records
    <2>3. Linked(offer)
      BY <1>0, <1>1, <1>3, <2>1, <2>2 DEF Session, Link
    <2>4. eng[q].setD # NoSecret
      BY <1>1, <1>3, <2>1, <2>3, LinkedChoice DEF Session, EngineOK, Late
    <2>5. cache[q].rs1 = session
      BY <1>1, <1>3, <2>1, <2>4 DEF Session, EngineOK, Late
    <2> QED
      BY <1>0, <2>2, <2>5 DEF Types
  <1>12. Link(offer)'
    BY <1>0, <1>1, <1>3, <1>7, <1>11, LinkSame DEF Session, Ahead
  <1>13. Session(offer)'
    BY <1>0, <1>1, <1>3, <1>7, <1>10, <1>12, SessionStep DEF Types
  <1> QED
    BY <1>7, <1>9, <1>13 DEF Within

LEMMA CrashInv ==
    \A offer \in [Peers -> IdPairs], p \in Peers : Within(offer) /\ Crash(p) => Within(offer)'
  <1> SUFFICES ASSUME NEW offer \in [Peers -> IdPairs], NEW p \in Peers, Within(offer), Crash(p)
               PROVE  Within(offer)'
    OBVIOUS
  <1>0. Types /\ Flags
    BY DEF Within
  <1>1. Session(offer)
    BY DEF Within
  <1>3. /\ eng' = [eng EXCEPT ![p] = NoEngine] /\ crashes' = crashes + 1
        /\ UNCHANGED <<cache, net, session, initiator, cuts>>
    BY DEF Crash
  <1>4. crashes' \in Nat /\ crashes' # 0 /\ NoEngine.phase = "None"
    BY <1>0, <1>3 DEF Types, NoEngine
  <1>7. /\ Types' /\ eng'[p] = NoEngine /\ cache'[p] = cache[p]
        /\ eng'[Other(p)] = eng[Other(p)] /\ cache'[Other(p)] = cache[Other(p)]
    BY <1>0, <1>3, <1>4, NothingSaved, TypesStep
  <1>9. Flags'
    BY <1>0, <1>3, <1>4, <1>7, FlagsSame
  <1>12. EngineOK(p, offer)' /\ Link(offer)'
    BY <1>4, <1>7 DEF EngineOK, Link
  <1>13. Session(offer)'
    BY <1>0, <1>1, <1>3, <1>7, <1>12, SessionStep DEF Types
  <1> QED
    BY <1>7, <1>9, <1>13 DEF Within

LEMMA StopInv ==
    \A offer \in [Peers -> IdPairs], p \in Peers : Within(offer) /\ Stop(p) => Within(offer)'
  <1> SUFFICES ASSUME NEW offer \in [Peers -> IdPairs], NEW p \in Peers, Within(offer), Stop(p)
               PROVE  Within(offer)'
    OBVIOUS
  <1>0. Types /\ Flags
    BY DEF Within
  <1>1. Session(offer)
    BY DEF Within
  <1>2. PICK save \in BOOLEAN : save <=> eng[p].saveZidRecord /\ eng[p].zrtpUnprotect < EnoughMedia
    OBVIOUS
  <1>3. /\ eng[p].phase # "None" /\ eng' = [eng EXCEPT ![p] = NoEngine]
        /\ UNCHANGED <<net, session, initiator, crashes, cuts>>
    BY DEF Stop
  <1>4. eng[p] \in Engine /\ NoEngine.phase = "None"
    BY <1>0, <1>3, Live DEF NoEngine
  <1>5. eng[p].zidRec \in Records /\ eng[p].saveZidRecord \in BOOLEAN /\ cache[p] \in Records
    BY <1>0, <1>4 DEF Engine, Types
  <1>6. PICK rec \in Records : rec = IF save THEN [eng[p].zidRec EXCEPT !.rs2Valid = TRUE] ELSE cache[p]
    BY <1>5 DEF Records
  <1>7. cache' = [cache EXCEPT ![p] = rec]
    BY <1>2, <1>6 DEF Stop, SavedIf
  <1>8. /\ save => rec.rs1 = eng[p].zidRec.rs1 /\ rec.rs2 = eng[p].zidRec.rs2 /\ rec.rs2Valid
        /\ ~save => rec = cache[p]
    BY <1>5, <1>6 DEF Records
  <1>9. rec.rs1 = cache[p].rs1 /\ rec.rs2 = cache[p].rs2
    <2>1. eng[p].phase \in Early \/ eng[p].phase \in Late
      BY <1>4 DEF Engine
    <2> QED
      BY <1>1, <1>2, <1>3, <1>8, <2>1 DEF Session, EngineOK
  <1>10. /\ Types' /\ eng'[p] = NoEngine /\ cache'[p] = rec
         /\ eng'[Other(p)] = eng[Other(p)] /\ cache'[Other(p)] = cache[Other(p)]
    BY <1>0, <1>3, <1>7, <1>9, TypesStep DEF Types
  <1>11. Flags'
    BY <1>0, <1>3, <1>4, <1>10, FlagsSame
  <1>12. cuts = 1 /\ crashes = 0 /\ Ahead(p) => Ahead(p)'
    BY <1>2, <1>8, <1>9, <1>10, RetainedConstants DEF Ahead
  <1>13. EngineOK(p, offer)' /\ Link(offer)'
    BY <1>0, <1>1, <1>3, <1>4, <1>9, <1>10, <1>12, LinkSame DEF EngineOK, Session
  <1>14. Session(offer)'
    BY <1>0, <1>1, <1>3, <1>9, <1>10, <1>13, SessionStep DEF Types
  <1> QED
    BY <1>10, <1>11, <1>14 DEF Within

\* What GenerateKeys leaves.
LEMMA GeneratedKeys ==
    ASSUME NEW p, eng[p] \in Engine, NEW theirs \in IdPairs, NEW e, e = GenerateKeys(p, theirs)
    PROVE  /\ e \in Engine /\ e.phase = "WaitConfirm" /\ e.setD = Choose(eng[p].ids, theirs)
           /\ e.ids = eng[p].ids /\ e.zrtpUnprotect = eng[p].zrtpUnprotect
           /\ e.paranoidMode = eng[p].paranoidMode /\ e.judged = eng[p].judged
           /\ ~e.saveZidRecord <=> \/ e.setD = NoSecret /\ e.ids # <<Unknown, Unknown>>
                                   \/ ~eng[p].saveZidRecord
           /\ e.zidRec.rs1 = eng[p].zidRec.rs1 /\ e.zidRec.rs2 = eng[p].zidRec.rs2
           /\ e.zidRec.sasVerified => /\ eng[p].zidRec.sasVerified
                                      /\ e.setD = NoSecret => e.ids = <<Unknown, Unknown>>
  <1> DEFINE e0 == [eng[p] EXCEPT !.phase = "WaitConfirm", !.setD = Choose(eng[p].ids, theirs)]
             lost0 == Choose(eng[p].ids, theirs) = NoSecret /\ eng[p].ids # <<Unknown, Unknown>>
             e1 == [e0 EXCEPT !.zidRec.sasVerified = FALSE, !.saveZidRecord = FALSE]
  <1>1. Choose(eng[p].ids, theirs) \in 0..NoSecret
    BY ChooseType DEF Engine
  <1>2. /\ e0 \in Engine /\ e0.phase = "WaitConfirm" /\ e0.setD = Choose(eng[p].ids, theirs)
        /\ e0.ids = eng[p].ids /\ e0.zrtpUnprotect = eng[p].zrtpUnprotect
        /\ e0.paranoidMode = eng[p].paranoidMode /\ e0.judged = eng[p].judged
        /\ e0.saveZidRecord = eng[p].saveZidRecord /\ e0.zidRec = eng[p].zidRec
    BY <1>1 DEF Engine, Early
  <1>3. e = IF lost0 THEN e1 ELSE e0
    BY DEF GenerateKeys
  <1> HIDE DEF e0
  <1>4. PICK rec \in Records : /\ rec = [e0.zidRec EXCEPT !.sasVerified = FALSE]
                               /\ rec.rs1 = e0.zidRec.rs1 /\ rec.rs2 = e0.zidRec.rs2
                               /\ rec.sasVerified = FALSE
    <2>1. PICK z \in Records : z = e0.zidRec
      BY <1>2 DEF Engine
    <2>2. /\ [z EXCEPT !.sasVerified = FALSE] \in Records
          /\ [z EXCEPT !.sasVerified = FALSE].rs1 = z.rs1 /\ [z EXCEPT !.sasVerified = FALSE].rs2 = z.rs2
          /\ [z EXCEPT !.sasVerified = FALSE].sasVerified = FALSE
      BY DEF Records
    <2> QED
      BY <2>1, <2>2
  <1>5. /\ e1 \in Engine /\ e1.phase = e0.phase /\ e1.setD = e0.setD /\ e1.ids = e0.ids
        /\ e1.zrtpUnprotect = e0.zrtpUnprotect /\ e1.paranoidMode = e0.paranoidMode
        /\ e1.judged = e0.judged /\ e1.saveZidRecord = FALSE /\ e1.zidRec = rec
    BY <1>2, <1>4 DEF Engine
  <1> HIDE DEF e1
  <1> QED
    BY <1>2, <1>3, <1>4, <1>5

LEMMA RecvDHPart1Inv ==
    \A offer \in [Peers -> IdPairs], p \in Peers : Within(offer) /\ RecvDHPart1(p) => Within(offer)'
  <1> SUFFICES ASSUME NEW offer \in [Peers -> IdPairs], NEW p \in Peers, Within(offer), RecvDHPart1(p)
               PROVE  Within(offer)'
    OBVIOUS
  <1>0. Types /\ Flags
    BY DEF Within
  <1>1. Session(offer)
    BY DEF Within
  <1>2. PICK d : d = [type |-> "DHPart2", ids |-> eng[p].ids]
    OBVIOUS
  <1>3. /\ p = initiator /\ eng[p].phase = "Hello" /\ net' = net \cup {d}
        /\ UNCHANGED <<cache, session, initiator, crashes, cuts>> /\ d.type = "DHPart2" /\ d.ids = eng[p].ids
    BY <1>2 DEF RecvDHPart1, Send
  <1>4. PICK m \in net : m.type = "DHPart1" /\ eng' = [eng EXCEPT ![p] = GenerateKeys(p, m.ids)]
    BY DEF RecvDHPart1
  <1>5. eng[p] \in Engine /\ m.ids = offer[Other(p)] /\ m.ids \in IdPairs /\ eng[p].ids = offer[p]
    BY <1>0, <1>1, <1>3, <1>4, Live, OtherPeer DEF Session, PacketOK, EngineOK
  <1>6. PICK e \in Engine : e = GenerateKeys(p, m.ids)
    BY <1>5, GeneratedKeys
  <1>7. /\ Types' /\ eng'[p] = e /\ cache'[p] = cache[p]
        /\ eng'[Other(p)] = eng[Other(p)] /\ cache'[Other(p)] = cache[Other(p)]
    BY <1>0, <1>3, <1>4, <1>6, NothingSaved, TypesStep DEF Types
  <1>8. /\ e.phase = "WaitConfirm" /\ e.setD = Choose(offer[p], offer[Other(p)])
        /\ e.ids = eng[p].ids /\ e.zrtpUnprotect = eng[p].zrtpUnprotect
        /\ ~e.saveZidRecord <=> \/ e.setD = NoSecret /\ e.ids # <<Unknown, Unknown>>
                                \/ ~eng[p].saveZidRecord
        /\ e.zidRec.rs1 = eng[p].zidRec.rs1 /\ e.zidRec.rs2 = eng[p].zidRec.rs2
    BY <1>5, <1>6, GeneratedKeys
  <1>9. Flags'
    BY <1>0, <1>3, <1>7, <1>8, FlagsSame DEF Early
  <1>10. EngineOK(p, offer)'
    BY <1>1, <1>3, <1>7, <1>8 DEF Session, EngineOK, Early, Late
  <1>11. PacketOK(d, offer)
    BY <1>3, <1>5 DEF PacketOK
  <1>12. Link(offer)'
    BY <1>0, <1>1, <1>3, <1>7, <1>8, LinkSame DEF Session, Ahead, Late
  <1>13. Session(offer)'
    BY <1>0, <1>1, <1>3, <1>7, <1>10, <1>11, <1>12, SessionStep DEF Types
  <1> QED
    BY <1>7, <1>9, <1>13 DEF Within

LEMMA RecvDHPart2Inv ==
    \A offer \in [Peers -> IdPairs], p \in Peers : Within(offer) /\ RecvDHPart2(p) => Within(offer)'
  <1> SUFFICES ASSUME NEW offer \in [Peers -> IdPairs], NEW p \in Peers, Within(offer), RecvDHPart2(p)
               PROVE  Within(offer)'
    OBVIOUS
  <1>0. Types /\ Flags
    BY DEF Within
  <1>1. Session(offer)
    BY DEF Within
  <1>2. /\ p # initiator /\ eng[p].phase = "WaitDHPart2"
        /\ UNCHANGED <<cache, session, initiator, crashes, cuts>>
        /\ initiator = Other(p) /\ Other(initiator) = p
    BY <1>0, OtherPeer DEF RecvDHPart2, Types
  <1>3. PICK m \in net : m.type = "DHPart2" /\ eng' = [eng EXCEPT ![p] = GenerateKeys(p, m.ids)]
    BY DEF RecvDHPart2
  <1>4. eng[p] \in Engine /\ m.ids = offer[Other(p)] /\ m.ids \in IdPairs /\ eng[p].ids = offer[p]
    BY <1>0, <1>1, <1>2, <1>3, Live, OtherPeer DEF Session, PacketOK, EngineOK
  <1>5. PICK e \in Engine : e = GenerateKeys(p, m.ids)
    BY <1>4, GeneratedKeys
  <1>6. eng'[p] = e
    BY <1>0, <1>3, <1>5 DEF Types
  <1>7. PICK sas \in BOOLEAN : sas <=> e.zidRec.sasVerified /\ ~e.paranoidMode
    OBVIOUS
  <1>8. PICK d : d = [type |-> "Confirm1", key |-> e.setD,
                      sas |-> e.zidRec.sasVerified /\ ~e.paranoidMode]
    OBVIOUS
  <1>9. net' = net \cup {d} /\ d.type = "Confirm1" /\ d.key = e.setD /\ d.sas \in BOOLEAN
        /\ (d.sas <=> e.zidRec.sasVerified /\ ~e.paranoidMode)
    BY <1>6, <1>8 DEF RecvDHPart2, Send
  <1>10. /\ Types' /\ cache'[p] = cache[p]
         /\ eng'[Other(p)] = eng[Other(p)] /\ cache'[Other(p)] = cache[Other(p)]
    BY <1>0, <1>2, <1>3, <1>5, <1>9, NothingSaved, TypesStep DEF Types
  <1>11. /\ e.phase = "WaitConfirm" /\ e.setD = Choose(offer[p], offer[Other(p)])
         /\ e.ids = eng[p].ids /\ e.zrtpUnprotect = eng[p].zrtpUnprotect
         /\ ~e.saveZidRecord <=> \/ e.setD = NoSecret /\ e.ids # <<Unknown, Unknown>>
                                 \/ ~eng[p].saveZidRecord
         /\ e.zidRec.rs1 = eng[p].zidRec.rs1 /\ e.zidRec.rs2 = eng[p].zidRec.rs2
    BY <1>4, <1>5, GeneratedKeys
  <1>12. Flags'
    BY <1>0, <1>2, <1>6, <1>9, <1>10, <1>11 DEF Flags, Flag, Early, Late
  <1>13. EngineOK(p, offer)'
    BY <1>1, <1>2, <1>6, <1>10, <1>11 DEF Session, EngineOK, Early, Late
  <1>14. PacketOK(d, offer)
    BY <1>2, <1>9, <1>11 DEF PacketOK
  <1>15. Link(offer)'
    BY <1>0, <1>1, <1>2, <1>6, <1>10, <1>11, LinkSame DEF Session, Ahead, Late
  <1>16. Session(offer)'
    BY <1>0, <1>1, <1>2, <1>9, <1>10, <1>13, <1>14, <1>15, SessionStep DEF Types
  <1> QED
    BY <1>10, <1>12, <1>16 DEF Within

\* The record that p saves when the other side has confirmed.
LEMMA NewSecret ==
    ASSUME NEW e \in Engine, NEW sas \in BOOLEAN, e.zidRec.rs1 < session, session \in 0..MaxSessions,
           NEW new, new = SetNewRs1(Confirmed(e, sas), session)
    PROVE  /\ new \in Records /\ new.rs1 = session /\ new.rs2 = e.zidRec.rs1
           /\ new.sasVerified = Confirmed(e, sas).sasVerified
           /\ new.sasVerified <=> e.zidRec.sasVerified /\ sas /\ ~e.paranoidMode
  <1>1. PICK z \in Records : z = e.zidRec
    BY DEF Engine
  <1>2. PICK b \in BOOLEAN : b = (z.sasVerified /\ sas /\ ~e.paranoidMode)
    OBVIOUS
  <1>3. Confirmed(e, sas) = [z EXCEPT !.sasVerified = b]
    BY <1>1, <1>2 DEF Confirmed
  <1>4. PICK z2 \in Records : /\ z2 = Confirmed(e, sas) /\ z2.rs1 = z.rs1 /\ z2.rs2 = z.rs2
                              /\ z2.sasVerified = b
    <2>1. /\ [z EXCEPT !.sasVerified = b] \in Records /\ [z EXCEPT !.sasVerified = b].rs1 = z.rs1
          /\ [z EXCEPT !.sasVerified = b].rs2 = z.rs2 /\ [z EXCEPT !.sasVerified = b].sasVerified = b
      BY DEF Records
    <2> QED
      BY <1>3, <2>1
  <1>5. new = [z2 EXCEPT !.rs2 = z2.rs1, !.rs1 = session, !.rs1Valid = TRUE, !.rs2Valid = FALSE]
    BY <1>4 DEF SetNewRs1
  <1>6. z2.rs1 < session /\ z2.rs1 \in 0..MaxSessions /\ session # 0
    BY <1>1, <1>4, RetainedConstants DEF Records
  <1>7. /\ new \in Records /\ new.rs1 = session /\ new.rs2 = z2.rs1 /\ new.sasVerified = z2.sasVerified
    BY <1>5, <1>6 DEF Records
  <1> QED
    BY <1>1, <1>2, <1>4, <1>7

LEMMA ConfirmStep ==
    ASSUME Types, NEW offer \in [Peers -> IdPairs], Session(offer), NEW p \in Peers,
           NEW sas \in BOOLEAN, NEW ph \in Late, ph = "WaitConfAck" => p = initiator,
           eng[p].phase = "WaitConfirm", NEW new, new = SetNewRs1(Confirmed(eng[p], sas), session),
           eng' = [eng EXCEPT ![p].phase = ph, ![p].zidRec = new],
           cache' = SavedIf(p, eng[p].saveZidRecord, new),
           CountCuts(p), UNCHANGED <<session, initiator, crashes>>,
           \A m \in net' : m \in net \/ ( /\ PacketOK(m, offer)
                                          /\ m.type \in {"Confirm1", "Confirm2"} => m.sas \in BOOLEAN)
    PROVE  /\ Types' /\ Session(offer)' /\ eng'[Other(p)] = eng[Other(p)]
           /\ eng'[p].phase = ph /\ eng'[p].judged = eng[p].judged
           /\ eng'[p].zidRec.sasVerified <=> Flag(p) /\ sas
  <1>0. eng[p] \in Engine /\ EngineOK(p, offer)
    BY Live DEF Session
  <1>1. /\ eng[p].zidRec.rs1 = cache[p].rs1 /\ cache[p].rs1 < session /\ session \in 0..MaxSessions
        /\ eng[p].zrtpUnprotect = 0 /\ session \in Nat
    BY <1>0 DEF EngineOK, Early, Types
  <1>2. /\ new \in Records /\ new.rs1 = session /\ new.rs2 = cache[p].rs1
        /\ new.sasVerified <=> Flag(p) /\ sas
    BY <1>0, <1>1, NewSecret DEF Flag
  <1>3. PICK e \in Engine : e = [eng[p] EXCEPT !.phase = ph, !.zidRec = new]
    BY <1>0, <1>2 DEF Engine
  <1>4. eng' = [eng EXCEPT ![p] = e]
    BY <1>3
  <1>5. /\ e.phase = ph /\ e.zidRec = new /\ e.ids = eng[p].ids /\ e.setD = eng[p].setD
        /\ e.saveZidRecord = eng[p].saveZidRecord /\ e.zrtpUnprotect = eng[p].zrtpUnprotect
        /\ e.judged = eng[p].judged
    BY <1>0, <1>3 DEF Engine
  <1>6. PICK rec \in Records : rec = IF eng[p].saveZidRecord THEN new ELSE cache[p]
    BY <1>2 DEF Types
  <1>7. cache' = [cache EXCEPT ![p] = rec]
    BY <1>6 DEF SavedIf
  <1>8. rec.rs1 <= session
    BY <1>1, <1>2, <1>6 DEF Types
  <1>9. crashes' \in Nat
    BY DEF Types
  <1>10. /\ Types' /\ eng'[p] = e /\ cache'[p] = rec
         /\ eng'[Other(p)] = eng[Other(p)] /\ cache'[Other(p)] = cache[Other(p)]
    BY <1>4, <1>7, <1>8, <1>9, TypesStep
  <1>11. EngineOK(p, offer)'
    BY <1>0, <1>1, <1>2, <1>5, <1>6, <1>10 DEF EngineOK, Early, Late
  <1>12. Link(offer)'
    <2>1. CASE eng[p].saveZidRecord
      BY <1>1, <1>2, <1>5, <1>6, <1>10, <2>1, LinkSave DEF Session
    <2>2. CASE ~eng[p].saveZidRecord
      <3>1. Ahead(p) => Ahead(p)'
        BY <1>6, <1>10, <2>2 DEF Ahead
      <3> QED
        BY <1>6, <1>10, <2>2, <3>1, LinkAgain DEF Session
    <2> QED
      BY <2>1, <2>2
  <1>13. Session(offer)'
    BY <1>1, <1>2, <1>6, <1>10, <1>11, <1>12, SessionStep
  <1> QED
    BY <1>2, <1>5, <1>10, <1>13

LEMMA RecvConfirm1Inv ==
    \A offer \in [Peers -> IdPairs], p \in Peers : Within(offer) /\ RecvConfirm1(p) => Within(offer)'
  <1> SUFFICES ASSUME NEW offer \in [Peers -> IdPairs], NEW p \in Peers, Within(offer), RecvConfirm1(p)
               PROVE  Within(offer)'
    OBVIOUS
  <1>0. Types /\ Flags
    BY DEF Within
  <1>1. Session(offer)
    BY DEF Within
  <1>2. /\ p = initiator /\ eng[p].phase = "WaitConfirm" /\ CountCuts(p)
        /\ UNCHANGED <<session, initiator, crashes>>
    BY DEF RecvConfirm1
  <1>3. PICK m \in net :
          /\ m.type = "Confirm1" /\ m.key = eng[p].setD
          /\ LET rec == Confirmed(eng[p], m.sas)
                 new == SetNewRs1(rec, session)
             IN  /\ eng' = [eng EXCEPT ![p].phase = "WaitConfAck", ![p].zidRec = new]
                 /\ cache' = SavedIf(p, eng[p].saveZidRecord, new)
                 /\ Send([type |-> "Confirm2", key |-> eng[p].setD, sas |-> rec.sasVerified])
    BY DEF RecvConfirm1
  <1>4. PICK new : new = SetNewRs1(Confirmed(eng[p], m.sas), session)
    OBVIOUS
  <1>5. eng[p] \in Engine /\ EngineOK(p, offer) /\ m.sas \in BOOLEAN
    BY <1>0, <1>1, <1>2, <1>3, Live DEF Session, Types
  <1>6. new.sasVerified = Confirmed(eng[p], m.sas).sasVerified /\ new \in Records
        /\ (new.sasVerified <=> Flag(p) /\ m.sas)
    BY <1>0, <1>2, <1>4, <1>5, NewSecret DEF EngineOK, Early, Types, Flag
  <1>7. PICK d : d = [type |-> "Confirm2", key |-> eng[p].setD, sas |-> new.sasVerified]
    OBVIOUS
  <1>8. net' = net \cup {d} /\ d.type = "Confirm2" /\ d.key = eng[p].setD
        /\ d.sas = new.sasVerified /\ d.sas \in BOOLEAN
    BY <1>3, <1>6, <1>7 DEF Send, Records
  <1>9. PacketOK(d, offer)
    BY <1>2, <1>5, <1>8 DEF PacketOK, EngineOK
  <1>10. "WaitConfAck" \in Late
    BY DEF Late
  <1>11. /\ Types' /\ Session(offer)' /\ eng'[Other(p)] = eng[Other(p)]
         /\ eng'[p].phase = "WaitConfAck" /\ eng'[p].judged = eng[p].judged
         /\ eng'[p].zidRec.sasVerified <=> Flag(p) /\ m.sas
    <2>1. \A n \in net' : n \in net \/ ( /\ PacketOK(n, offer)
                                         /\ n.type \in {"Confirm1", "Confirm2"} => n.sas \in BOOLEAN)
      BY <1>8, <1>9
    <2> QED
      BY <1>0, <1>1, <1>2, <1>3, <1>4, <1>5, <1>10, <2>1, ConfirmStep
  <1>12. Flags'
    <2> DEFINE r == Other(p)
    <2>1. r # p
      BY OtherPeer
    <2>2. /\ eng[r].phase \notin {"Secure", "Hello", "WaitDHPart2"} /\ \A n \in net : n.type # "Confirm2"
          /\ eng[r].phase = "WaitConfirm" => (m.sas <=> Flag(r))
      BY <1>0, <1>2, <1>3 DEF Flags, Early
    <2>3. Flag(r)' <=> Flag(r)
      BY <1>11 DEF Flag
    <2>4. \A n \in net' : n = d \/ n \in net
      BY <1>8
    <2>5. d.sas <=> eng'[p].zidRec.sasVerified
      BY <1>6, <1>8, <1>11
    <2>6. d.sas => m.sas
      BY <1>6, <1>8
    <2> HIDE DEF r
    <2> QED
      BY <1>0, <1>2, <1>3, <1>8, <1>10, <1>11, <2>1, <2>2, <2>3, <2>4, <2>5, <2>6 DEF Flags, Early, r
  <1> QED
    BY <1>11, <1>12 DEF Within

LEMMA RecvConfirm2Inv ==
    \A offer \in [Peers -> IdPairs], p \in Peers : Within(offer) /\ RecvConfirm2(p) => Within(offer)'
  <1> SUFFICES ASSUME NEW offer \in [Peers -> IdPairs], NEW p \in Peers, Within(offer), RecvConfirm2(p)
               PROVE  Within(offer)'
    OBVIOUS
  <1>0. Types /\ Flags
    BY DEF Within
  <1>1. Session(offer)
    BY DEF Within
  <1>2. /\ p # initiator /\ eng[p].phase = "WaitConfirm" /\ CountCuts(p)
        /\ UNCHANGED <<session, initiator, crashes>>
        /\ initiator = Other(p) /\ Other(initiator) = p
    BY <1>0, OtherPeer DEF RecvConfirm2, Types
  <1>3. PICK m \in net :
          /\ m.type = "Confirm2" /\ m.key = eng[p].setD
          /\ LET new == SetNewRs1(Confirmed(eng[p], m.sas), session)
             IN  /\ eng' = [eng EXCEPT ![p].phase = "Secure", ![p].zidRec = new]
                 /\ cache' = SavedIf(p, eng[p].saveZidRecord, new)
    BY DEF RecvConfirm2
  <1>4. PICK new : new = SetNewRs1(Confirmed(eng[p], m.sas), session)
    OBVIOUS
  <1>5. m.sas \in BOOLEAN /\ "Secure" \in Late
    BY <1>0, <1>3 DEF Types, Late
  <1>6. PICK d : d = [type |-> "Conf2Ack"]
    OBVIOUS
  <1>7. net' = net \cup {d} /\ d.type = "Conf2Ack" /\ PacketOK(d, offer)
    BY <1>6 DEF RecvConfirm2, Send, PacketOK
  <1>8. /\ Types' /\ Session(offer)' /\ eng'[Other(p)] = eng[Other(p)]
        /\ eng'[p].phase = "Secure" /\ eng'[p].judged = eng[p].judged
        /\ eng'[p].zidRec.sasVerified <=> Flag(p) /\ m.sas
    BY <1>0, <1>1, <1>2, <1>3, <1>4, <1>5, <1>7, ConfirmStep
  <1>9. Flags'
    BY <1>0, <1>2, <1>3, <1>7, <1>8 DEF Flags
  <1> QED
    BY <1>8, <1>9 DEF Within

\* The user judges the SAS.
LEMMA JudgedInv ==
    \A offer \in [Peers -> IdPairs], p \in Peers : Within(offer) /\ (SASVerified(p) \/ ResetSASVerified(p)) => Within(offer)'
  <1> SUFFICES ASSUME NEW offer \in [Peers -> IdPairs], NEW p \in Peers, Within(offer), SASVerified(p) \/ ResetSASVerified(p)
               PROVE  Within(offer)'
    OBVIOUS
  <1>0. Types /\ Flags
    BY DEF Within
  <1>1. Session(offer)
    BY DEF Within
  <1>2. /\ eng[p].phase = "Secure" /\ CountCuts(p) /\ UNCHANGED <<session, initiator, net, crashes>>
        /\ cache' = SavedIf(p, TRUE, eng'[p].zidRec)
    BY DEF SASVerified, ResetSASVerified
  <1>3. eng[p] \in Engine /\ EngineOK(p, offer)
    BY <1>0, <1>1, <1>2, Live DEF Session
  <1>4. PICK e \in Engine :
          /\ eng' = [eng EXCEPT ![p] = e]
          /\ e.phase = "Secure" /\ e.ids = eng[p].ids /\ e.setD = eng[p].setD /\ e.judged
          /\ e.zrtpUnprotect = eng[p].zrtpUnprotect /\ e.paranoidMode = eng[p].paranoidMode
          /\ eng[p].saveZidRecord => e.saveZidRecord
          /\ e.zidRec.rs1 = eng[p].zidRec.rs1 /\ e.zidRec.rs2 = eng[p].zidRec.rs2
          /\ e.zidRec.rs2Valid = eng[p].zidRec.rs2Valid
    <2>1. PICK z \in Records : z = eng[p].zidRec
      BY <1>3 DEF Engine
    <2>2. ASSUME NEW b \in BOOLEAN
          PROVE  /\ [z EXCEPT !.sasVerified = b] \in Records /\ [z EXCEPT !.sasVerified = b].rs1 = z.rs1
                 /\ [z EXCEPT !.sasVerified = b].rs2 = z.rs2
                 /\ [z EXCEPT !.sasVerified = b].rs2Valid = z.rs2Valid
      BY DEF Records
    <2>3. CASE SASVerified(p)
      <3>1. PICK y \in Records : /\ y = [z EXCEPT !.sasVerified = TRUE] /\ y.rs1 = z.rs1
                                 /\ y.rs2 = z.rs2 /\ y.rs2Valid = z.rs2Valid
        BY <2>2
      <3> DEFINE e == [eng[p] EXCEPT !.zidRec = y, !.saveZidRecord = TRUE, !.judged = TRUE]
      <3>2. eng' = [eng EXCEPT ![p] = e]
        BY <2>1, <2>3, <3>1 DEF SASVerified
      <3>3. /\ e \in Engine /\ e.phase = eng[p].phase /\ e.ids = eng[p].ids /\ e.setD = eng[p].setD
            /\ e.judged = TRUE /\ e.zrtpUnprotect = eng[p].zrtpUnprotect
            /\ e.paranoidMode = eng[p].paranoidMode /\ e.saveZidRecord = TRUE /\ e.zidRec = y
        BY <1>3 DEF Engine
      <3> HIDE DEF e
      <3> QED
        BY <1>2, <2>1, <3>1, <3>2, <3>3
    <2>4. CASE ResetSASVerified(p)
      <3>1. PICK y \in Records : /\ y = [z EXCEPT !.sasVerified = FALSE] /\ y.rs1 = z.rs1
                                 /\ y.rs2 = z.rs2 /\ y.rs2Valid = z.rs2Valid
        BY <2>2
      <3> DEFINE e == [eng[p] EXCEPT !.zidRec = y, !.judged = TRUE]
      <3>2. eng' = [eng EXCEPT ![p] = e]
        BY <2>1, <2>4, <3>1 DEF ResetSASVerified
      <3>3. /\ e \in Engine /\ e.phase = eng[p].phase /\ e.ids = eng[p].ids /\ e.setD = eng[p].setD
            /\ e.judged = TRUE /\ e.zrtpUnprotect = eng[p].zrtpUnprotect
            /\ e.paranoidMode = eng[p].paranoidMode /\ e.saveZidRecord = eng[p].saveZidRecord
            /\ e.zidRec = y
        BY <1>3 DEF Engine
      <3> HIDE DEF e
      <3> QED
        BY <1>2, <2>1, <3>1, <3>2, <3>3
    <2> QED
      BY <2>3, <2>4
  <1>5. eng'[p] = e
    BY <1>0, <1>4 DEF Types
  <1>6. PICK rec \in Records : rec = e.zidRec
    BY DEF Engine
  <1>7. cache' = [cache EXCEPT ![p] = rec]
    BY <1>2, <1>5, <1>6 DEF SavedIf
  <1>8. rec.rs1 = session /\ rec.rs2 = eng[p].zidRec.rs2 /\ session \in Nat /\ crashes' \in Nat
    BY <1>0, <1>2, <1>3, <1>4, <1>6 DEF EngineOK, Late, Types
  <1>9. /\ Types' /\ cache'[p] = rec
        /\ eng'[Other(p)] = eng[Other(p)] /\ cache'[Other(p)] = cache[Other(p)]
    <2>1. rec.rs1 <= session
      BY <1>8
    <2>2. e \in Engine \cup {NoEngine} /\ UNCHANGED <<session, initiator>>
      BY <1>2, <1>4
    <2>3. \A m \in net' : m \in net
      BY <1>2
    <2> QED
      BY <1>0, <1>2, <1>4, <1>7, <1>8, <2>1, <2>2, <2>3, TypesStep
  <1>10. Flags'
    BY <1>0, <1>2, <1>4, <1>5, <1>9, FlagsSame DEF Late
  <1>11. EngineOK(p, offer)'
    BY <1>2, <1>3, <1>4, <1>5, <1>6, <1>8, <1>9 DEF EngineOK, Early, Late
  <1>12. Link(offer)'
    <2>1. CASE cache[p].rs1 = session
      <3>1. cache[p].rs2 = eng[p].zidRec.rs2 /\ (cache[p].rs2Valid => rec.rs2Valid)
        BY <1>2, <1>3, <1>4, <1>6, <2>1 DEF EngineOK, Late
      <3>2. Ahead(p) => Ahead(p)'
        BY <1>2, <1>4, <1>5, <1>8, <1>9, <2>1, <3>1 DEF Ahead, Late
      <3> QED
        BY <1>0, <1>1, <1>2, <1>4, <1>5, <1>8, <1>9, <2>1, <3>1, <3>2, LinkAgain DEF Session
    <2>2. CASE cache[p].rs1 # session
      <3>1. cache[p].rs1 < session
        <4>1. cache[p].rs1 \in Nat /\ cache[p].rs1 <= session
          BY <1>0, RetainedConstants DEF Types, Records
        <4> QED
          BY <1>8, <2>2, <4>1
      \* Peers that had a secret in common have both saved.
      <3>2. ~(cuts = 0 /\ crashes = 0)
        <4> SUFFICES ASSUME cuts = 0, crashes = 0 PROVE FALSE
          OBVIOUS
        <4>1. Linked(offer)
          BY <1>1, <1>2, <3>1 DEF Session, Link
        <4>2. eng[p].setD # NoSecret
          BY <1>2, <1>3, <4>1, LinkedChoice DEF EngineOK, Late
        <4> QED
          BY <1>2, <1>3, <2>2, <4>2 DEF EngineOK, Late
      <3> QED
        BY <1>0, <1>1, <1>2, <1>8, <1>9, <3>1, <3>2, LinkSave DEF Session
    <2> QED
      BY <2>1, <2>2
  <1>13. Session(offer)'
    BY <1>1, <1>2, <1>8, <1>9, <1>11, <1>12, SessionStep
  <1> QED
    BY <1>9, <1>10, <1>13 DEF Within

\* Between sessions the caches are linked, if the last session was the only one cut.
LEMMA CachesLinked ==
    ASSUME Types, NEW offer \in [Peers -> IdPairs], Link(offer), crashes = 0, cuts <= 1,
           \A p \in Peers : eng[p].phase = "None"
    PROVE  \E s \in Secrets : \A p \in Peers : Ids(cache[p])[1] = s \/ Ids(cache[p])[2] = s
  <1>1. \A p \in Peers : /\ cache[p].rs1 # 0 => Ids(cache[p])[1] = cache[p].rs1 /\ cache[p].rs1 \in Secrets
                         /\ cache[p].rs2Valid => Ids(cache[p])[2] = cache[p].rs2
    <2> SUFFICES ASSUME NEW p \in Peers
                 PROVE  /\ cache[p].rs1 # 0 => Ids(cache[p])[1] = cache[p].rs1 /\ cache[p].rs1 \in Secrets
                        /\ cache[p].rs2Valid => Ids(cache[p])[2] = cache[p].rs2
      OBVIOUS
    <2>1. cache[p].rs1 \in 0..MaxSessions /\ (cache[p].rs1Valid <=> cache[p].rs1 # 0)
      BY DEF Types, Records
    <2>2. cache[p].rs1 # 0 => cache[p].rs1 \in Secrets
      BY <2>1, RetainedConstants DEF Secrets
    <2> QED
      BY <2>1, <2>2 DEF Ids
  <1>2. cuts = 0 \/ cuts = 1
    BY DEF Types
  <1>3. CASE cuts = 0
    <2>1. PICK p \in Peers : TRUE
      BY DEF Types
    <2>2. cache[p].rs1 # 0 /\ \A r \in Peers : cache[r].rs1 = cache[p].rs1
      BY <1>3, OtherPeer DEF Link
    <2> QED
      BY <1>1, <2>2
  <1>4. CASE cuts = 1
    <2>1. PICK p \in Peers : Ahead(p)
      BY <1>4 DEF Link
    <2>2. PICK q \in Peers : q = Other(p) /\ \A r \in Peers : r = p \/ r = q
      BY OtherPeer
    <2>3. cache[q].rs1 # 0 /\ cache[p].rs2 = cache[q].rs1 /\ cache[p].rs2Valid
      BY <2>1, <2>2 DEF Ahead, Late
    <2> QED
      BY <1>1, <2>2, <2>3
  <1> QED
    BY <1>2, <1>3, <1>4

LEMMA NewSessionInv ==
    \A i \in Peers, heard \in SUBSET Peers, paranoid \in [Peers -> Paranoid] :
        Inv /\ NewSession(i, heard, paranoid) =>
            \A offer \in [Peers -> IdPairs] : offer = [p \in Peers |-> Ids(cache[p])] => Within(offer)'
  <1> SUFFICES ASSUME NEW i \in Peers, NEW heard \in SUBSET Peers, NEW paranoid \in [Peers -> Paranoid],
                      Inv, NewSession(i, heard, paranoid),
                      NEW offer \in [Peers -> IdPairs], offer = [p \in Peers |-> Ids(cache[p])]
               PROVE  Within(offer)'
    OBVIOUS
  <1>0. Types
    BY DEF Inv, Within
  <1>1. PICK old \in [Peers -> IdPairs] : Session(old)
    BY DEF Inv, Within
  <1>2. /\ session < MaxSessions /\ session' = session + 1 /\ initiator' = i /\ net' = {}
        /\ UNCHANGED <<cache, crashes, cuts>> /\ \A p \in Peers : eng[p].phase = "None"
    BY DEF NewSession
  <1>3. session \in Nat /\ session' \in 0..MaxSessions /\ \A p \in Peers : cache[p].rs1 <= session
    BY <1>0, <1>2, RetainedConstants DEF Types
  <1> DEFINE New(p) == [phase |-> "Hello", zidRec |-> cache[p], ids |-> Ids(cache[p]),
                        saveZidRecord |-> TRUE, paranoidMode |-> paranoid[p],
                        setD |-> NoSecret, zrtpUnprotect |-> 0, judged |-> FALSE]
  <1>5. ASSUME NEW p \in Peers PROVE New(p) \in Engine
    <2>1. cache[p] \in Records /\ Ids(cache[p]) \in IdPairs /\ paranoid[p] \in BOOLEAN /\ NoSecret \in 0..NoSecret
      BY <1>0, RecordIds, RetainedConstants DEF Types, NoSecret
    <2> QED
      BY <2>1 DEF Engine, Early
  <1>6. /\ eng' = [p \in Peers |-> IF p \notin heard THEN NoEngine ELSE New(p)]
        /\ eng' \in [Peers -> Engine \cup {NoEngine}]
    BY <1>5 DEF NewSession
  <1>7. \A p \in Peers :
          \/ eng'[p].phase = "None"
          \/ /\ eng'[p].phase = "Hello" /\ eng'[p].zidRec = cache[p] /\ eng'[p].ids = offer[p]
             /\ eng'[p].saveZidRecord = TRUE /\ eng'[p].zrtpUnprotect = 0
    BY <1>6 DEF NoEngine
  <1>8. Types'
    <2>1. \A p \in Peers : cache[p].rs1 <= session + 1
      <3>1. \A p \in Peers : cache[p].rs1 \in Nat
        BY <1>0, RetainedConstants DEF Types, Records
      <3> QED
        BY <1>3, <3>1
    <2> QED
      BY <1>0, <1>2, <1>3, <1>6, <2>1 DEF Types
  <1>9. Flags'
    BY <1>2, <1>7, OtherPeer DEF Flags, Late
  <1>10. \A p \in Peers : EngineOK(p, offer)'
    <2>1. \A p \in Peers : cache[p].rs1 < session + 1
      <3>1. \A p \in Peers : cache[p].rs1 \in Nat
        BY <1>0, RetainedConstants DEF Types, Records
      <3> QED
        BY <1>3, <3>1
    <2> QED
      BY <1>2, <1>7, <2>1 DEF EngineOK, Early, Late
  <1>11. Offered(offer)'
    BY <1>0, <1>2 DEF Offered, Types, Records, Ids
  <1>12. Link(offer)'
    <2> SUFFICES ASSUME crashes = 0
                 PROVE  /\ cuts = 0 => \A p \in Peers : cache[p].rs1 # 0 /\ cache[p].rs1 = cache[Other(p)].rs1
                        /\ cuts = 1 => \E p \in Peers : Ahead(p)'
                        /\ cuts <= 1 => Linked(offer)
      BY <1>2 DEF Link, Linked
    <2>1. cuts = 1 => \E p \in Peers : Ahead(p)'
      BY <1>1, <1>2 DEF Session, Link, Ahead, Late
    <2>2. cuts <= 1 => Linked(offer)
      BY <1>0, <1>1, <1>2, CachesLinked DEF Session, Linked
    <2> QED
      BY <1>1, <2>1, <2>2 DEF Session, Link
  <1>13. Session(offer)'
    BY <1>2, <1>10, <1>11, <1>12 DEF Session
  <1> QED
    BY <1>8, <1>9, <1>13 DEF Within

LEMMA InitInv == Init => Inv
  <1> SUFFICES ASSUME Init PROVE Inv
    OBVIOUS
  <1>1. /\ cache = [p \in Peers |-> NewRecord] /\ eng = [p \in Peers |-> NoEngine]
        /\ session = 0 /\ initiator \in Peers /\ net = {} /\ crashes = 0 /\ cuts = MaxSessions
    BY DEF Init
  <1>2. MaxSessions \in Nat \ {0, 1} /\ NewRecord \in Records /\ NewRecord.rs1 = 0
    BY RetainedConstants DEF NewRecord, Records
  <1>3. \A p \in Peers : eng[p].phase = "None" /\ cache[p].rs1 = 0
    BY <1>1, <1>2 DEF NoEngine
  <1>4. Types
    BY <1>1, <1>2, <1>3 DEF Types
  <1>5. PICK offer \in [Peers -> IdPairs] : offer = [p \in Peers |-> Ids(NewRecord)]
    BY <1>2, RecordIds
  <1>6. Flags
    BY <1>1, <1>3, OtherPeer DEF Flags, Early, Late
  <1>7. ~(cuts <= 1)
    BY <1>1, <1>2
  <1>8. cuts # 0 /\ cuts # 1
    BY <1>1, <1>2
  <1>9. Session(offer)
    BY <1>1, <1>3, <1>7, <1>8 DEF Session, EngineOK, Offered, Link
  <1> QED
    BY <1>4, <1>6, <1>9 DEF Inv, Within

LEMMA OfferNow == Types => [p \in Peers |-> Ids(cache[p])] \in [Peers -> IdPairs]
  <1> SUFFICES ASSUME Types PROVE [p \in Peers |-> Ids(cache[p])] \in [Peers -> IdPairs]
    OBVIOUS
  <1>1. \A p \in Peers : Ids(cache[p]) \in IdPairs
    BY RecordIds DEF Types
  <1> QED
    BY <1>1

\* A step within a session.
PeerStep(p) ==
    \/ AnswerCommit(p) \/ RecvDHPart1(p) \/ RecvDHPart2(p)
    \/ RecvConfirm1(p) \/ RecvConfirm2(p) \/ RecvConf2Ack(p) \/ RecvMedia(p)
    \/ SASVerified(p) \/ ResetSASVerified(p)
    \/ Stop(p) \/ Crash(p)

LEMMA Steps ==
    Next => \/ \E i \in Peers, heard \in SUBSET Peers, paranoid \in [Peers -> Paranoid] :
                 NewSession(i, heard, paranoid)
            \/ \E p \in Peers : PeerStep(p)
  BY DEF Next, PeerStep

LEMMA WithinStep ==
    \A offer \in [Peers -> IdPairs], p \in Peers : Within(offer) /\ PeerStep(p) => Within(offer)'
  BY AnswerCommitInv, RecvDHPart1Inv, RecvDHPart2Inv, RecvConfirm1Inv, RecvConfirm2Inv,
     RecvConf2AckInv, RecvMediaInv, JudgedInv, StopInv, CrashInv DEF PeerStep

LEMMA WithinStutter ==
    \A offer \in [Peers -> IdPairs] : Within(offer) /\ UNCHANGED vars => Within(offer)'
  <1> SUFFICES ASSUME NEW offer \in [Peers -> IdPairs], Within(offer), UNCHANGED vars
               PROVE  Within(offer)'
    OBVIOUS
  <1>1. UNCHANGED <<cache, eng, session, initiator, net, crashes, cuts>>
    BY DEF vars
  <1>2. Types' /\ Flags'
    BY <1>1 DEF Within, Types, Flags, Flag
  <1>3. Link(offer)'
    BY <1>1 DEF Within, Session, Link, Linked, Ahead
  <1>4. \A p \in Peers : EngineOK(p, offer)'
    BY <1>1 DEF Within, Session, EngineOK
  <1>5. \A m \in net' : PacketOK(m, offer)'
    BY <1>1 DEF Within, Session, PacketOK
  <1> QED
    BY <1>1, <1>2, <1>3, <1>4, <1>5 DEF Within, Session, Offered

LEMMA NextInv == Inv /\ [Next]_vars => Inv'
  <1> SUFFICES ASSUME Inv, [Next]_vars PROVE Inv'
    OBVIOUS
  <1>1. PICK offer \in [Peers -> IdPairs] : Within(offer)
    BY DEF Inv
  <1>2. ASSUME NEW i \in Peers, NEW heard \in SUBSET Peers, NEW paranoid \in [Peers -> Paranoid],
               NewSession(i, heard, paranoid)
        PROVE  Inv'
    <2>1. PICK new \in [Peers -> IdPairs] : new = [p \in Peers |-> Ids(cache[p])]
      BY <1>1, OfferNow DEF Within
    <2>2. Within(new)'
      BY <1>2, <2>1, NewSessionInv
    <2> QED
      BY <2>2 DEF Inv
  <1>3. ASSUME NEW p \in Peers, PeerStep(p) PROVE Inv'
    BY <1>1, <1>3, WithinStep DEF Inv
  <1>4. CASE UNCHANGED vars
    BY <1>1, <1>4, WithinStutter DEF Inv
  <1> QED
    BY <1>2, <1>3, <1>4, Steps

LEMMA InvHolds == Spec => []Inv
  BY InitInv, NextInv, PTL DEF Spec

-----------------------------------------------------------------------------
(* The properties.                                                           *)

\* Both peers derive their keys from the same retained secret, however many earlier
\* sessions were cut, stopped or crashed: no Confirm packet is refused because of it
\* (generateKeysInitiator, generateKeysResponder).
THEOREM SameSecretChosenHolds == Spec => []SameSecretChosen
  <1>1. Inv => SameSecretChosen
    <2> SUFFICES ASSUME Inv, NEW m \in net, NEW p \in Peers,
                        m.type \in {"Confirm1", "Confirm2"}, eng[p].phase = "WaitConfirm"
                 PROVE  m.key = eng[p].setD
      BY DEF SameSecretChosen
    <2>1. PICK offer \in [Peers -> IdPairs] : Within(offer)
      BY DEF Inv
    <2>2. initiator \in Peers
      BY DEF Inv, Within, Types
    <2>3. eng[p].setD = Choose(offer[p], offer[Other(p)])
      BY <2>1 DEF Within, Session, EngineOK
    <2>4. \/ m.key = Choose(offer[Other(initiator)], offer[initiator])
          \/ m.key = Choose(offer[initiator], offer[Other(initiator)])
      BY <2>1 DEF Within, Session, PacketOK
    <2> QED
      BY <2>2, <2>3, <2>4, OtherPeer, ChooseSame
  <1> QED
    BY <1>1, InvHolds, PTL

\* Peers that once had the same secret still have one in common after a session that
\* was cut between their two saves, if no engine crashed: ZIDRecord keeps the old
\* secret as rs2, and stopping with little media makes it valid again.
THEOREM LinkKeptHolds == Spec => []LinkKept
  <1>1. Inv => LinkKept
    <2> SUFFICES ASSUME Inv, \A p \in Peers : eng[p].phase = "None", crashes = 0, cuts <= 1
                 PROVE  \E s \in Secrets : \A p \in Peers : s \in Range(Ids(cache[p]))
      BY DEF LinkKept
    <2>1. PICK offer \in [Peers -> IdPairs] : Within(offer)
      BY DEF Inv
    <2>2. PICK s \in Secrets : \A p \in Peers : Ids(cache[p])[1] = s \/ Ids(cache[p])[2] = s
      BY <2>1, CachesLinked DEF Within, Session
    <2>3. \A p \in Peers : s \in Range(Ids(cache[p]))
      BY <2>2 DEF Ids, Range
    <2> QED
      BY <2>3
  <1> QED
    BY <1>1, InvHolds, PTL

\* Two secure peers show their users the same verified flag until one of the users
\* speaks: each has the other's flag, from Confirm1 and from Confirm2.
THEOREM FlagsAgreeHolds == Spec => []FlagsAgree
  <1>1. Inv => FlagsAgree
    <2> SUFFICES ASSUME Inv, \A p \in Peers : eng[p].phase = "Secure" /\ ~eng[p].judged,
                        NEW p \in Peers, NEW q \in Peers
                 PROVE  eng[p].zidRec.sasVerified = eng[q].zidRec.sasVerified
      BY DEF FlagsAgree
    <2>1. /\ initiator \in Peers /\ Other(initiator) \in Peers
          /\ \A r \in Peers : r = initiator \/ r = Other(initiator)
      BY OtherPeer DEF Inv, Within, Types
    <2>2. eng[Other(initiator)].zidRec.sasVerified <=> eng[initiator].zidRec.sasVerified
      BY <2>1 DEF Inv, Within, Flags, Late
    <2>3. \A r \in Peers : eng[r].zidRec.sasVerified \in BOOLEAN
      BY Live DEF Inv, Within, Engine, Records
    <2> QED
      BY <2>1, <2>2, <2>3
  <1> QED
    BY <1>1, InvHolds, PTL

\* A peer that misses the secret it expected does not replace its record of its own
\* accord: neither a Confirm packet nor the stop of the stream writes it.
THEOREM SecretHeldBackHolds == Spec => SecretHeldBack
  <1> DEFINE Kept(p) == HeldBack(p) /\ (RecvConfirm1(p) \/ RecvConfirm2(p) \/ Stop(p))
                        => cache'[p] = cache[p]
  <1>1. Inv => \A p \in Peers : Kept(p)
    <2> SUFFICES ASSUME Inv, NEW p \in Peers, HeldBack(p),
                        RecvConfirm1(p) \/ RecvConfirm2(p) \/ Stop(p)
                 PROVE  cache'[p] = cache[p]
      OBVIOUS
    <2>1. PICK offer \in [Peers -> IdPairs] : Within(offer)
      BY DEF Inv
    <2>2. Types /\ EngineOK(p, offer)
      BY <2>1 DEF Within, Session
    <2>3. ~eng[p].saveZidRecord
      BY <2>2 DEF HeldBack, EngineOK, Early, Late
    <2>4. cache' = cache
      <3>1. RecvConfirm1(p) => \E rec : cache' = SavedIf(p, eng[p].saveZidRecord, rec)
        BY DEF RecvConfirm1
      <3>2. RecvConfirm2(p) => \E rec : cache' = SavedIf(p, eng[p].saveZidRecord, rec)
        BY DEF RecvConfirm2
      <3>3. Stop(p) => cache' = cache
        BY <2>2, <2>3 DEF Stop, SavedIf, Types
      <3> QED
        BY <2>2, <2>3, <3>1, <3>2, <3>3 DEF SavedIf, Types
    <2> QED
      BY <2>4
  <1>2. Inv => [\A p \in Peers : Kept(p)]_vars
    BY <1>1
  <1> QED
    BY <1>2, InvHolds, PTL DEF Spec, SecretHeldBack

-----------------------------------------------------------------------------
(* Where a verified flag comes from.  The session whose SAS a user compared  *)
(* may lie far back: what follows says of every flag, in a cache, in an      *)
(* engine or in a Confirm packet, which secrets descend from such a session. *)
(* had[p] is the flag of p's record when the present session began.          *)

\* p may take the secret k for one of a peer whose SAS it compared.
Earned(p, k) == k \in Secrets /\ \E n \in Lineage(k) : n \in verifiedBy[p] \/ matched[n] = 0

\* The secret that went into the keys of the present session.
Shared(offer) == Choose(offer[initiator], offer[Other(initiator)])

\* A verified record has earned its first secret; its second one only if that could be
\* the one that both peers offer next; and a verified record vouches for the secret
\* that it has as second and its peer still has as first.
CacheEarned(p) ==
    LET c == cache[p]
        d == cache[Other(p)]
    IN  /\ c.sasVerified => c.rs1 # 0 /\ Earned(p, c.rs1)
        /\ c.sasVerified /\ c.rs2 # 0 /\ ~Earned(p, c.rs2) =>
             d.rs1 # c.rs2 /\ (d.rs2 = c.rs2 /\ d.sasVerified => d.rs1 = c.rs1)
        /\ d.sasVerified /\ c.rs1 = d.rs2 /\ c.rs1 # 0 => Earned(p, c.rs1)

EngineEarned(p, offer, had) ==
    LET e == eng[p]
        q == Other(p)
        k == e.zidRec.rs2
    IN  /\ e.phase \in Early => (e.zidRec.sasVerified => had[p] /\ cache[p].sasVerified)
        /\ e.phase = "WaitConfirm" /\ e.setD = NoSecret => ~e.zidRec.sasVerified
        /\ e.phase \in Late =>
             /\ session # 0
             /\ e.zidRec.sasVerified => cache[p].rs1 = session /\ cache[p].sasVerified
             /\ k # 0 => offer[p][1] = k
             /\ cache[p].rs1 # session => cache[p].rs1 = k
             /\ k # 0 /\ cache[q].rs1 # session /\ cache[q].rs2 = k /\ cache[q].sasVerified =>
                  Earned(p, k) /\ Earned(q, k)
        /\ e.phase = "Secure" => Shared(offer) = NoSecret \/ cache[q].rs1 = session

PacketEarned(m, offer, had) ==
    LET i == initiator
        r == Other(initiator)
    IN  /\ m.type = "Confirm1" => (m.sas => had[r])
        /\ m.type = "Confirm2" =>
             /\ m.sas => had[i] /\ had[r]
             /\ matched[session] = Shared(offer)
             /\ Shared(offer) = NoSecret \/ cache[i].rs1 = session
        /\ m.type = "Conf2Ack" => Shared(offer) = NoSecret \/ cache[r].rs1 = session

\* Two verified records share a secret that both peers have earned.
OfferEarned(offer, had) ==
    /\ (\A p \in Peers : had[p]) /\ Shared(offer) \in Secrets => \A p \in Peers : Earned(p, Shared(offer))
    /\ \A p \in Peers : offer[p] = <<Unknown, Unknown>> => ~had[p]

History ==
    /\ matched \in [Secrets -> 0..NoSecret] /\ DOMAIN verifiedBy = Peers
    /\ \A s \in Secrets : s > session \/ (s = session /\ eng[initiator].phase \in Early) =>
         matched[s] = NoSecret

Sas(offer, had) ==
    /\ \A p \in Peers : CacheEarned(p) /\ EngineEarned(p, offer, had)
    /\ \A m \in net : PacketEarned(m, offer, had)
    /\ OfferEarned(offer, had) /\ History

SasInv ==
    \E offer \in [Peers -> IdPairs], had \in [Peers -> BOOLEAN] : Within(offer) /\ Sas(offer, had)

-----------------------------------------------------------------------------
(* Lineages.                                                                 *)

\* A secret is earned with the one it was derived from.
LEMMA EarnedWithSource ==
    ASSUME NEW p \in Peers, NEW s \in Secrets, NEW k, k = matched'[s],
           k = 0 \/ Earned(p, k)' \/ s \in verifiedBy'[p]
    PROVE  Earned(p, s)'
  <1>1. s \in Lineage(s)'
    BY DEF Lineage
  <1>2. k \in Secrets => Lineage(k)' \subseteq Lineage(s)'
    BY DEF Lineage, Derived
  <1> QED
    BY <1>1, <1>2 DEF Earned

LEMMA NotASecret == NoSecret \notin Secrets /\ 0 \notin Secrets /\ NoSecret # 0 /\ Unknown \notin Secrets
                    /\ Unknown # 0 /\ NoSecret # Unknown
  BY RetainedConstants DEF NoSecret, Secrets, Unknown

\* History only adds: a session gets its source once.
LEMMA EarnedForEver ==
    ASSUME \A s \in Secrets : matched'[s] = matched[s] \/ matched[s] = NoSecret,
           \A p \in Peers : verifiedBy[p] \subseteq verifiedBy'[p],
           NEW p \in Peers, NEW k, Earned(p, k)
    PROVE  Earned(p, k)'
  <1>1. \A S \in SUBSET Secrets : Derived(S)' => Derived(S)
    BY NotASecret DEF Derived
  <1>2. Lineage(k) \subseteq Lineage(k)'
    BY <1>1 DEF Lineage
  <1>3. PICK n \in Lineage(k) : n \in verifiedBy[p] \/ matched[n] = 0
    BY DEF Earned
  <1>4. n \in Secrets
    BY DEF Lineage
  <1>5. n \in Lineage(k)' /\ (n \in verifiedBy'[p] \/ matched'[n] = 0)
    BY <1>2, <1>3, <1>4, NotASecret
  <1> QED
    BY <1>5 DEF Earned


-----------------------------------------------------------------------------
(* A step of x, as the caches see it.                                        *)

LEMMA RecordOrder ==
    Types => \A p \in Peers : /\ cache[p].rs1 \in Nat /\ cache[p].rs2 \in Nat /\ session \in Nat
                              /\ cache[p].rs1 <= session
                              /\ cache[p].rs2 < cache[p].rs1 \/ cache[p].rs2 = 0
                              /\ cache[p].rs1 # 0 => cache[p].rs1 \in Secrets
                              /\ cache[p].sasVerified \in BOOLEAN
  <1> SUFFICES ASSUME Types, NEW p \in Peers
               PROVE  /\ cache[p].rs1 \in Nat /\ cache[p].rs2 \in Nat /\ session \in Nat
                      /\ cache[p].rs1 <= session
                      /\ cache[p].rs2 < cache[p].rs1 \/ cache[p].rs2 = 0
                      /\ cache[p].rs1 # 0 => cache[p].rs1 \in Secrets
                      /\ cache[p].sasVerified \in BOOLEAN
    OBVIOUS
  <1>1. cache[p] \in Records /\ cache[p].rs1 <= session
    BY DEF Types
  <1> QED
    BY <1>1, RetainedConstants DEF Types, Records, Secrets

EarnedKept == \A p \in Peers : \A k : Earned(p, k) => Earned(p, k)'

\* The record keeps its secrets and gets no flag.
Weaker(x) ==
    /\ cache'[x].rs1 = cache[x].rs1 /\ cache'[x].rs2 = cache[x].rs2
    /\ cache'[x].sasVerified => cache[x].sasVerified

LEMMA CacheWeaker ==
    ASSUME NEW x \in Peers, \A p \in Peers : CacheEarned(p), EarnedKept,
           cache'[Other(x)] = cache[Other(x)], Weaker(x)
    PROVE  \A p \in Peers : CacheEarned(p)'
  <1> DEFINE y == Other(x)
  <1>1. y \in Peers /\ Other(y) = x /\ \A p \in Peers : p = x \/ p = y
    BY OtherPeer
  <1>2. CacheEarned(x)'
    BY <1>1 DEF CacheEarned, EarnedKept, Weaker
  <1>3. CacheEarned(y)'
    BY <1>1 DEF CacheEarned, EarnedKept, Weaker
  <1> QED
    BY <1>1, <1>2, <1>3

\* The record gets the new secret, and perhaps a flag.
LEMMA CacheFirst ==
    ASSUME Types, NEW x \in Peers, \A p \in Peers : CacheEarned(p), EarnedKept,
           NEW y, y = Other(x), cache'[y] = cache[y], session' = session,
           cache[x].rs1 < session, cache'[x].rs1 = session, cache'[x].rs2 = cache[x].rs1,
           cache'[x].sasVerified =>
               /\ Earned(x, session)'
               /\ cache[x].rs1 # 0 => cache[x].sasVerified \/ cache[y].rs1 # cache[x].rs1
               /\ cache[y].rs1 = cache[x].rs1 /\ cache[x].rs1 # 0 => Earned(y, cache[y].rs1)
    PROVE  \A p \in Peers : CacheEarned(p)'
  <1>1. y \in Peers /\ Other(y) = x /\ x # y /\ \A p \in Peers : p = x \/ p = y
    BY OtherPeer
  <1>2. /\ cache[x].rs1 \in Nat /\ cache[y].rs1 \in Nat /\ cache[y].rs2 \in Nat /\ session \in Nat
        /\ cache[y].rs1 <= session /\ (cache[y].rs2 < cache[y].rs1 \/ cache[y].rs2 = 0)
    BY <1>1, RecordOrder
  <1>3. cache[y].rs2 # session
    BY <1>2
  <1>4. CacheEarned(x)'
    <2>1. cache'[x].sasVerified => session # 0 /\ Earned(x, session)'
      BY <1>2
    <2>2. cache'[x].sasVerified /\ cache[x].rs1 # 0 /\ ~Earned(x, cache[x].rs1) =>
            /\ cache[y].rs1 # cache[x].rs1
            /\ (cache[y].rs2 = cache[x].rs1 => ~cache[y].sasVerified)
      BY <1>1 DEF CacheEarned
    <2>3. PICK a : a = cache[x].rs1 /\ a = cache'[x].rs2
      OBVIOUS
    <2>4. ~Earned(x, a)' => ~Earned(x, a)
      BY DEF EarnedKept
    <2>5. cache'[x].sasVerified /\ a # 0 /\ ~Earned(x, a)' =>
            cache'[y].rs1 # a /\ (cache'[y].rs2 = a => ~cache'[y].sasVerified)
      BY <2>2, <2>3, <2>4
    <2> QED
      BY <1>1, <1>3, <2>1, <2>3, <2>5 DEF CacheEarned
  <1>5. CacheEarned(y)'
    <2>1. cache[y].sasVerified => cache[y].rs1 # 0 /\ Earned(y, cache[y].rs1)'
      BY <1>1 DEF CacheEarned, EarnedKept
    <2>2. cache[y].sasVerified /\ cache[y].rs2 # 0 /\ cache[x].rs1 = cache[y].rs2 => Earned(y, cache[y].rs2)'
      BY <1>1 DEF CacheEarned, EarnedKept
    <2>3. cache'[x].sasVerified /\ cache[y].rs1 = cache[x].rs1 /\ cache[y].rs1 # 0 => Earned(y, cache[y].rs1)'
      BY <1>1 DEF EarnedKept
    <2> QED
      BY <1>1, <1>3, <2>1, <2>2, <2>3 DEF CacheEarned
  <1> QED
    BY <1>1, <1>4, <1>5

\* The record that has the new secret gets a flag.
LEMMA CacheAgain ==
    ASSUME Types, NEW x \in Peers, \A p \in Peers : CacheEarned(p), EarnedKept,
           NEW y, y = Other(x), cache'[y] = cache[y], session' = session,
           cache[x].rs1 = session, cache'[x].rs1 = session, cache'[x].rs2 = cache[x].rs2,
           Earned(x, session)', session # 0,
           cache[x].rs2 # 0 =>
               /\ cache[y].rs1 # cache[x].rs2
               /\ cache[y].rs1 # session /\ cache[y].rs2 = cache[x].rs2 /\ cache[y].sasVerified =>
                    Earned(x, cache[x].rs2) /\ Earned(y, cache[x].rs2)
    PROVE  \A p \in Peers : CacheEarned(p)'
  <1>1. y \in Peers /\ Other(y) = x /\ x # y /\ \A p \in Peers : p = x \/ p = y
    BY OtherPeer
  <1>2. /\ cache[y].rs1 \in Nat /\ cache[y].rs2 \in Nat /\ session \in Nat
        /\ cache[y].rs1 <= session /\ (cache[y].rs2 < cache[y].rs1 \/ cache[y].rs2 = 0)
    BY <1>1, RecordOrder
  <1>3. cache[y].rs2 # session
    BY <1>2
  <1>4. CacheEarned(x)'
    <2>1. PICK a : a = cache[x].rs2 /\ a = cache'[x].rs2
      OBVIOUS
    <2>2. ~Earned(x, a)' => ~Earned(x, a)
      BY DEF EarnedKept
    <2>3. a # 0 /\ ~Earned(x, a)' =>
            cache'[y].rs1 # a /\ (cache'[y].rs2 = a /\ cache'[y].sasVerified => cache'[y].rs1 = session)
      BY <2>1, <2>2
    <2>4. session # 0 /\ cache'[x].rs1 = session /\ Earned(x, session)' /\ cache'[y].rs2 # session
      BY <1>3
    <2> QED
      BY <1>1, <2>1, <2>3, <2>4 DEF CacheEarned
  <1>5. CacheEarned(y)'
    <2>1. cache[y].sasVerified => cache[y].rs1 # 0 /\ Earned(y, cache[y].rs1)'
      BY <1>1 DEF CacheEarned, EarnedKept
    <2>2. /\ cache[y].sasVerified /\ cache[y].rs2 # 0 /\ cache[x].rs2 = cache[y].rs2
               /\ cache[y].rs1 # session => Earned(y, cache[y].rs2)'
      BY <1>1 DEF EarnedKept
    <2> QED
      BY <1>1, <1>3, <2>1, <2>2 DEF CacheEarned
  <1> QED
    BY <1>1, <1>4, <1>5


LEMMA SharedByBoth ==
    ASSUME Types, NEW offer \in [Peers -> IdPairs]
    PROVE  \A p \in Peers : Choose(offer[p], offer[Other(p)]) = Shared(offer)
  <1>1. initiator \in Peers /\ Other(initiator) \in Peers /\ Other(Other(initiator)) = initiator
        /\ \A p \in Peers : p = initiator \/ p = Other(initiator)
    BY OtherPeer DEF Types
  <1>2. offer[initiator] \in IdPairs /\ offer[Other(initiator)] \in IdPairs
    BY <1>1
  <1>3. Choose(offer[initiator], offer[Other(initiator)]) = Choose(offer[Other(initiator)], offer[initiator])
    BY <1>2, ChooseSame
  <1> QED
    BY <1>1, <1>3 DEF Shared

\* What a step of x leaves to be shown.
LEMMA SasStep ==
    ASSUME Types, NEW offer \in [Peers -> IdPairs], NEW had, Sas(offer, had), NEW x \in Peers,
           UNCHANGED <<session, initiator>>, eng'[Other(x)] = eng[Other(x)],
           cache'[Other(x)] = cache[Other(x)], cache'[x].rs1 = session \/ Weaker(x),
           EarnedKept, \A p \in Peers : CacheEarned(p)', EngineEarned(x, offer, had)',
           \A m \in net' : m \in net \/ PacketEarned(m, offer, had)',
           matched' = matched \/ \A m \in net : m.type # "Confirm2",
           History'
    PROVE  Sas(offer, had)'
  <1> DEFINE y == Other(x)
  <1>1. y \in Peers /\ Other(y) = x /\ x # y /\ \A p \in Peers : p = x \/ p = y
    BY OtherPeer
  <1>2. Shared(offer)' = Shared(offer)
    BY DEF Shared
  <1>3. EngineEarned(y, offer, had)'
    <2>1. EngineEarned(y, offer, had)
      BY <1>1 DEF Sas
    <2>2. PICK e : e = eng[y] /\ e = eng'[y]
      OBVIOUS
    <2>3. e.phase \in Early => (e.zidRec.sasVerified => had[y] /\ cache'[y].sasVerified)
      BY <2>1, <2>2 DEF EngineEarned
    <2>4. e.phase = "WaitConfirm" /\ e.setD = NoSecret => ~e.zidRec.sasVerified
      BY <2>1, <2>2 DEF EngineEarned
    <2>5. e.phase \in Late => /\ session # 0
                              /\ e.zidRec.sasVerified => cache'[y].rs1 = session /\ cache'[y].sasVerified
                              /\ e.zidRec.rs2 # 0 => offer[y][1] = e.zidRec.rs2
                              /\ cache'[y].rs1 # session => cache'[y].rs1 = e.zidRec.rs2
      BY <2>1, <2>2 DEF EngineEarned
    <2>6. PICK k : k = e.zidRec.rs2
      OBVIOUS
    <2>7. e.phase \in Late /\ k # 0 /\ cache'[x].rs1 # session /\ cache'[x].rs2 = k /\ cache'[x].sasVerified =>
            Earned(y, k) /\ Earned(x, k)
      BY <1>1, <2>1, <2>2, <2>6 DEF EngineEarned, Weaker
    <2>8. e.phase \in Late /\ k # 0 /\ cache'[x].rs1 # session /\ cache'[x].rs2 = k /\ cache'[x].sasVerified =>
            Earned(y, k)' /\ Earned(x, k)'
      BY <1>1, <2>7 DEF EarnedKept
    <2>9. e.phase = "Secure" => Shared(offer) = NoSecret \/ cache'[x].rs1 = session
      BY <1>1, <2>1, <2>2 DEF EngineEarned, Weaker
    <2> QED
      BY <1>1, <1>2, <2>2, <2>3, <2>4, <2>5, <2>6, <2>8, <2>9 DEF EngineEarned
  <1>4. \A p \in Peers : cache[p].rs1 = session => cache'[p].rs1 = session
    BY <1>1 DEF Weaker
  <1>5. ASSUME NEW m \in net PROVE PacketEarned(m, offer, had)'
    <2>1. PacketEarned(m, offer, had)
      BY DEF Sas
    <2>2. initiator \in Peers /\ Other(initiator) \in Peers
      BY OtherPeer DEF Types
    <2>3. m.type = "Confirm2" => matched' = matched
      OBVIOUS
    <2> QED
      BY <1>2, <1>4, <2>1, <2>2, <2>3 DEF PacketEarned
  <1>6. OfferEarned(offer, had)'
    BY <1>2 DEF Sas, OfferEarned, EarnedKept
  <1> QED
    BY <1>1, <1>3, <1>5, <1>6 DEF Sas


LEMMA HistorySame ==
    ASSUME History, UNCHANGED <<matched, session, initiator>>, DOMAIN verifiedBy' = Peers,
           \A p \in Peers : verifiedBy[p] \subseteq verifiedBy'[p],
           eng'[initiator].phase \in Early => eng[initiator].phase \in Early
    PROVE  EarnedKept /\ History'
  <1>1. EarnedKept
    BY EarnedForEver DEF EarnedKept
  <1>2. History'
    BY DEF History
  <1> QED
    BY <1>1, <1>2

\* A step that neither saves a secret nor sets a flag.
LEMMA SasSilent ==
    ASSUME Types, NEW offer \in [Peers -> IdPairs], NEW had, Sas(offer, had), NEW x \in Peers,
           UNCHANGED <<session, initiator, matched, verifiedBy>>, eng'[Other(x)] = eng[Other(x)],
           cache'[Other(x)] = cache[Other(x)], Weaker(x),
           eng'[x].phase \in Early => eng[x].phase \in Early,
           EarnedKept => EngineEarned(x, offer, had)',
           \A m \in net' : m \in net \/ PacketEarned(m, offer, had)'
    PROVE  Sas(offer, had)'
  <1>1. initiator \in Peers /\ (initiator = x \/ initiator = Other(x))
    BY OtherPeer DEF Types
  <1>2. EarnedKept /\ History'
    <2>1. History
      BY DEF Sas
    <2>2. DOMAIN verifiedBy' = Peers /\ \A p \in Peers : verifiedBy[p] \subseteq verifiedBy'[p]
      BY <2>1 DEF History
    <2>3. eng'[initiator].phase \in Early => eng[initiator].phase \in Early
      BY <1>1
    <2> QED
      BY <2>1, <2>2, <2>3, HistorySame
  <1>3. \A p \in Peers : CacheEarned(p)'
    BY <1>2, CacheWeaker DEF Sas
  <1> QED
    BY <1>2, <1>3, SasStep


-----------------------------------------------------------------------------
(* The actions, again.                                                       *)

\* Nothing the engine of x shows has changed but its phase, within the same half of
\* the session.
LEMMA SamePhaseSas ==
    ASSUME Types, NEW offer \in [Peers -> IdPairs], NEW had, Sas(offer, had), NEW x \in Peers,
           UNCHANGED <<cache, session, initiator, matched, verifiedBy>>, eng'[Other(x)] = eng[Other(x)],
           \/ eng'[x].phase = "None"
           \/ /\ eng'[x].zidRec = eng[x].zidRec
              /\ eng'[x].phase \in Early => eng[x].phase \in Early
              /\ eng'[x].phase \in Late => eng[x].phase \in Late
              /\ eng'[x].phase # "WaitConfirm"
              /\ eng'[x].phase = "Secure" /\ eng[x].phase # "Secure" =>
                   Shared(offer) = NoSecret \/ cache[Other(x)].rs1 = session,
           \A m \in net' : m \in net \/ m.type \in {"DHPart1", "DHPart2"}
    PROVE  Sas(offer, had)'
  <1>1. Weaker(x) /\ cache'[Other(x)] = cache[Other(x)] /\ Shared(offer)' = Shared(offer)
    BY DEF Weaker, Shared
  <1>2. \A m \in net' : m \in net \/ PacketEarned(m, offer, had)'
    BY DEF PacketEarned
  <1>3. eng'[x].phase \in Early => eng[x].phase \in Early
    BY DEF Early
  <1>4. EarnedKept => EngineEarned(x, offer, had)'
    <2>1. CASE eng'[x].phase = "None"
      BY <2>1 DEF EngineEarned, Early, Late
    <2>2. CASE eng'[x].phase # "None"
      <3> SUFFICES ASSUME EarnedKept PROVE EngineEarned(x, offer, had)'
        OBVIOUS
      <3>1. EngineEarned(x, offer, had) /\ Other(x) \in Peers
        BY OtherPeer DEF Sas
      <3>2. PICK z : z = eng[x].zidRec /\ z = eng'[x].zidRec
        BY <2>2
      <3>3. eng'[x].phase \in Early => (z.sasVerified => had[x] /\ cache'[x].sasVerified)
        BY <1>3, <3>1, <3>2 DEF EngineEarned
      <3>4. eng'[x].phase \in Late =>
              /\ session # 0
              /\ z.sasVerified => cache'[x].rs1 = session /\ cache'[x].sasVerified
              /\ z.rs2 # 0 => offer[x][1] = z.rs2
              /\ cache'[x].rs1 # session => cache'[x].rs1 = z.rs2
        BY <2>2, <3>1, <3>2 DEF EngineEarned
      <3>5. eng'[x].phase \in Late /\ z.rs2 # 0 /\ cache'[Other(x)].rs1 # session
            /\ cache'[Other(x)].rs2 = z.rs2 /\ cache'[Other(x)].sasVerified =>
              Earned(x, z.rs2)' /\ Earned(Other(x), z.rs2)'
        BY <2>2, <3>1, <3>2 DEF EngineEarned, EarnedKept
      <3>6. eng'[x].phase = "Secure" => Shared(offer) = NoSecret \/ cache'[Other(x)].rs1 = session
        BY <2>2, <3>1 DEF EngineEarned
      <3>7. eng'[x].phase # "WaitConfirm"
        BY <2>2
      <3> QED
        BY <1>1, <3>2, <3>3, <3>4, <3>5, <3>6, <3>7 DEF EngineEarned
    <2> QED
      BY <2>1, <2>2
  <1> QED
    BY <1>1, <1>2, <1>3, <1>4, SasSilent


LEMMA SilentActionsSas ==
    ASSUME NEW offer \in [Peers -> IdPairs], NEW had, Within(offer), Sas(offer, had), NEW p \in Peers,
           AnswerCommit(p) \/ RecvConf2Ack(p) \/ RecvMedia(p) \/ Crash(p)
    PROVE  Sas(offer, had)'
  <1>0. Types /\ EngineOK(p, offer) /\ DOMAIN eng = Peers /\ Other(p) # p /\ Other(p) \in Peers
    BY OtherPeer DEF Within, Types, Session
  <1>1. /\ UNCHANGED <<cache, session, initiator, matched, verifiedBy>> /\ eng[p].phase # "None"
        /\ eng'[Other(p)] = eng[Other(p)]
    BY <1>0 DEF AnswerCommit, RecvConf2Ack, RecvMedia, Crash
  <1>2. eng[p] \in Engine
    BY <1>0, <1>1, Live
  <1>3. CASE AnswerCommit(p)
    <2>1. \A m \in net' : m \in net \/ m.type \in {"DHPart1", "DHPart2"}
      BY <1>3 DEF AnswerCommit, Send
    <2>2. eng'[p].phase = "WaitDHPart2" /\ eng[p].phase = "Hello" /\ eng'[p].zidRec = eng[p].zidRec
      BY <1>0, <1>2, <1>3 DEF AnswerCommit, Engine
    <2> QED
      BY <1>0, <1>1, <2>1, <2>2, SamePhaseSas DEF Early, Late
  <1>4. CASE RecvConf2Ack(p)
    <2>1. net' = net /\ \E m \in net : m.type = "Conf2Ack"
      BY <1>4 DEF RecvConf2Ack
    <2>2. eng'[p].phase = "Secure" /\ eng[p].phase = "WaitConfAck" /\ eng'[p].zidRec = eng[p].zidRec
      BY <1>0, <1>2, <1>4 DEF RecvConf2Ack, Engine
    <2>3. p = initiator
      BY <1>0, <2>2 DEF EngineOK
    <2>4. Shared(offer) = NoSecret \/ cache[Other(p)].rs1 = session
      BY <2>1, <2>3 DEF Sas, PacketEarned
    <2> QED
      BY <1>0, <1>1, <2>1, <2>2, <2>4, SamePhaseSas DEF Early, Late
  <1>5. CASE RecvMedia(p)
    <2>1. net' = net
      BY <1>5 DEF RecvMedia
    <2>2. eng'[p].phase = "Secure" /\ eng[p].phase = "Secure" /\ eng'[p].zidRec = eng[p].zidRec
      BY <1>0, <1>2, <1>5 DEF RecvMedia, Engine
    <2> QED
      BY <1>0, <1>1, <2>1, <2>2, SamePhaseSas DEF Early, Late
  <1>6. CASE Crash(p)
    <2>1. net' = net /\ eng'[p].phase = "None"
      BY <1>0, <1>6 DEF Crash, NoEngine
    <2> QED
      BY <1>0, <1>1, <2>1, SamePhaseSas
  <1> QED
    BY <1>3, <1>4, <1>5, <1>6

LEMMA StopSas ==
    ASSUME NEW offer \in [Peers -> IdPairs], NEW had, Within(offer), Sas(offer, had), NEW p \in Peers,
           Stop(p)
    PROVE  Sas(offer, had)'
  <1>0. /\ Types /\ EngineOK(p, offer) /\ EngineEarned(p, offer, had) /\ DOMAIN eng = Peers
        /\ Other(p) # p /\ Other(p) \in Peers /\ DOMAIN cache = Peers
    BY OtherPeer DEF Within, Types, Session, Sas
  <1>1. /\ UNCHANGED <<session, initiator, matched, verifiedBy, net>> /\ eng[p].phase # "None"
        /\ eng'[Other(p)] = eng[Other(p)] /\ eng'[p].phase = "None"
        /\ cache'[Other(p)] = cache[Other(p)]
    BY <1>0 DEF Stop, NoEngine, SavedIf
  <1>2. PICK e \in Engine : e = eng[p]
    BY <1>0, <1>1, Live
  <1>3. Weaker(p)
    <2>1. CASE e.saveZidRecord /\ e.zrtpUnprotect < EnoughMedia
      <3>1. PICK z \in Records : z = e.zidRec
        BY DEF Engine
      <3>2. cache'[p] = [z EXCEPT !.rs2Valid = TRUE]
        BY <1>0, <1>2, <2>1, <3>1 DEF Stop, SavedIf
      <3>3. cache'[p].rs1 = z.rs1 /\ cache'[p].rs2 = z.rs2 /\ cache'[p].sasVerified = z.sasVerified
        BY <3>2 DEF Records
      <3>4. z.rs1 = cache[p].rs1 /\ z.rs2 = cache[p].rs2 /\ (z.sasVerified => cache[p].sasVerified)
        <4>1. CASE e.phase \in Early
          BY <1>0, <1>1, <1>2, <3>1, <4>1 DEF EngineOK, EngineEarned
        <4>2. CASE e.phase \in Late
          BY <1>0, <1>1, <1>2, <2>1, <3>1, <4>2 DEF EngineOK, EngineEarned
        <4> QED
          BY <4>1, <4>2 DEF Engine
      <3> QED
        BY <3>3, <3>4 DEF Weaker
    <2>2. CASE ~(e.saveZidRecord /\ e.zrtpUnprotect < EnoughMedia)
      BY <1>0, <1>2, <2>2 DEF Stop, SavedIf, Weaker
    <2> QED
      BY <2>1, <2>2
  <1>4. EngineEarned(p, offer, had)'
    BY <1>1 DEF EngineEarned, Early, Late
  <1> QED
    BY <1>0, <1>1, <1>3, <1>4, SasSilent DEF Early

LEMMA RecvDHPartSas ==
    ASSUME NEW offer \in [Peers -> IdPairs], NEW had, Within(offer), Sas(offer, had), NEW p \in Peers,
           RecvDHPart1(p) \/ RecvDHPart2(p)
    PROVE  Sas(offer, had)'
  <1>0. /\ Types /\ EngineOK(p, offer) /\ EngineEarned(p, offer, had) /\ DOMAIN eng = Peers
        /\ Other(p) # p /\ Other(p) \in Peers /\ Session(offer) /\ initiator \in Peers
        /\ p # initiator => p = Other(initiator) /\ Other(p) = initiator
    BY OtherPeer DEF Within, Types, Session, Sas
  <1>1. /\ UNCHANGED <<cache, session, initiator, matched, verifiedBy>>
        /\ eng[p].phase \in {"Hello", "WaitDHPart2"}
    BY DEF RecvDHPart1, RecvDHPart2
  <1>2. PICK theirs : theirs = offer[Other(p)] /\ eng' = [eng EXCEPT ![p] = GenerateKeys(p, theirs)]
    BY <1>0 DEF RecvDHPart1, RecvDHPart2, Session, PacketOK
  <1>3. theirs \in IdPairs /\ eng[p] \in Engine /\ eng[p].ids = offer[p]
    BY <1>0, <1>1, <1>2, Live DEF EngineOK
  <1>4. PICK e : e = GenerateKeys(p, theirs)
    OBVIOUS
  <1>5. eng'[p] = e /\ eng'[Other(p)] = eng[Other(p)]
    BY <1>0, <1>2, <1>4
  <1>6. /\ e.phase = "WaitConfirm" /\ e.ids = offer[p]
        /\ e.zidRec.sasVerified => /\ eng[p].zidRec.sasVerified
                                   /\ e.setD = NoSecret => e.ids = <<Unknown, Unknown>>
    BY <1>3, <1>4, GeneratedKeys
  <1>7. e.zidRec.sasVerified => had[p] /\ cache[p].sasVerified /\ e.setD # NoSecret
    BY <1>0, <1>1, <1>6 DEF EngineEarned, Early, Sas, OfferEarned
  <1>8. EngineEarned(p, offer, had)'
    BY <1>1, <1>5, <1>6, <1>7 DEF EngineEarned, Late
  <1>9. \A m \in net' : m \in net \/ PacketEarned(m, offer, had)'
    <2>1. CASE RecvDHPart1(p)
      BY <2>1 DEF RecvDHPart1, Send, PacketEarned
    <2>2. CASE RecvDHPart2(p)
      <3>1. PICK d : d = [type |-> "Confirm1", key |-> e.setD,
                          sas |-> e.zidRec.sasVerified /\ ~e.paranoidMode]
        OBVIOUS
      <3>2. net' = net \cup {d} /\ d.type = "Confirm1" /\ (d.sas => e.zidRec.sasVerified) /\ p # initiator
        BY <1>5, <2>2, <3>1 DEF RecvDHPart2, Send
      <3>3. PacketEarned(d, offer, had)'
        BY <1>0, <1>1, <1>7, <3>2 DEF PacketEarned
      <3> QED
        BY <3>2, <3>3
    <2> QED
      BY <2>1, <2>2
  <1>10. Weaker(p) /\ cache'[Other(p)] = cache[Other(p)] /\ (eng'[p].phase \in Early => eng[p].phase \in Early)
    BY <1>1 DEF Weaker, Early
  <1> QED
    BY <1>0, <1>1, <1>5, <1>8, <1>9, <1>10, SasSilent


LEMMA SharedType ==
    ASSUME Types, NEW offer \in [Peers -> IdPairs]
    PROVE  /\ Shared(offer) = NoSecret \/ Shared(offer) = 0 \/ Shared(offer) \in Secrets
           /\ \A p \in Peers : offer[p][1] \in Secrets /\ offer[p][1] = offer[Other(p)][1] =>
                Shared(offer) = offer[p][1]
  <1>1. \A p \in Peers : offer[p] \in IdPairs /\ Other(p) \in Peers
    BY OtherPeer
  <1>2. \A a, b \in IdPairs : Choose(a, b) = NoSecret \/ Choose(a, b) = 0 \/ Choose(a, b) \in Secrets
    <2> SUFFICES ASSUME NEW a \in IdPairs, NEW b \in IdPairs
                 PROVE  Choose(a, b) = NoSecret \/ Choose(a, b) = 0 \/ Choose(a, b) \in Secrets
      OBVIOUS
    <2>1. \A v \in 0..Unknown : v = Unknown \/ v = 0 \/ v \in Secrets
      BY RetainedConstants DEF Unknown, Secrets
    <2>2. a[1] \in 0..Unknown /\ a[2] \in 0..Unknown
      BY DEF IdPairs
    <2> QED
      BY <2>1, <2>2, ChooseCases
  <1>3. \A p \in Peers : Choose(offer[p], offer[Other(p)]) = Shared(offer)
    BY SharedByBoth
  <1>4. initiator \in Peers
    BY DEF Types
  <1>5. \A p \in Peers : offer[p][1] \in Secrets /\ offer[p][1] = offer[Other(p)][1] =>
                Shared(offer) = offer[p][1]
    BY <1>1, <1>3, ChooseCases, NotASecret
  <1> QED
    BY <1>1, <1>2, <1>4, <1>5 DEF Shared

\* A Confirm packet: the flag that remains is earned with the secret both peers had.
LEMMA ConfirmSas ==
    ASSUME NEW offer \in [Peers -> IdPairs], NEW had, Within(offer), Sas(offer, had), NEW p \in Peers,
           NEW sas \in BOOLEAN, NEW ph \in Late, eng[p].phase = "WaitConfirm",
           NEW new, new = SetNewRs1(Confirmed(eng[p], sas), session),
           eng' = [eng EXCEPT ![p].phase = ph, ![p].zidRec = new],
           cache' = SavedIf(p, eng[p].saveZidRecord, new),
           UNCHANGED <<session, initiator>>, EarnedKept, History',
           sas => had[Other(p)], \A r \in Peers : had[r] \in BOOLEAN,
           matched'[session] = Shared(offer),
           matched' = matched \/ \A m \in net : m.type # "Confirm2",
           ph = "Secure" => Shared(offer) = NoSecret \/ cache[Other(p)].rs1 = session,
           Shared(offer) = NoSecret \/ cache'[p].rs1 = session =>
               \A m \in net' : m \in net \/ PacketEarned(m, offer, had)'
    PROVE  Sas(offer, had)'
  <1> DEFINE y == Other(p)
  <1>0. /\ Types /\ EngineOK(p, offer) /\ EngineEarned(p, offer, had) /\ DOMAIN eng = Peers
        /\ y # p /\ y \in Peers /\ DOMAIN cache = Peers /\ Other(y) = p /\ Offered(offer)
        /\ CacheEarned(p) /\ CacheEarned(y) /\ \A r \in Peers : r = p \/ r = y
    BY OtherPeer DEF Within, Types, Session, Sas
  <1>1. /\ eng[p] \in Engine /\ eng[p].zidRec.rs1 = cache[p].rs1 /\ cache[p].rs1 < session
        /\ session \in 0..MaxSessions /\ cache[p].rs1 \in Nat /\ eng[p].setD = Shared(offer)
    BY <1>0, Live, RecordOrder, SharedByBoth DEF EngineOK, Early, Types
  <1>2. session \in Secrets
    BY <1>1, RetainedConstants DEF Secrets
  <1>3. /\ new.rs1 = session /\ new.rs2 = cache[p].rs1
        /\ new.sasVerified => eng[p].zidRec.sasVerified /\ sas
    BY <1>1, NewSecret
  <1>4. /\ eng'[p].phase = ph /\ eng'[p].zidRec = new /\ eng'[y] = eng[y] /\ cache'[y] = cache[y]
        /\ cache'[p] = IF eng[p].saveZidRecord THEN new ELSE cache[p]
    BY <1>0, <1>1 DEF Engine, SavedIf
  <1>5. ~eng[p].saveZidRecord => Shared(offer) = NoSecret
    BY <1>0, <1>1 DEF EngineOK, Early
  <1>6. new.sasVerified => /\ cache[p].sasVerified /\ Shared(offer) # NoSecret /\ eng[p].saveZidRecord
                           /\ \A r \in Peers : had[r]
    BY <1>0, <1>1, <1>3, <1>5 DEF EngineEarned, Early
  <1>7. new.sasVerified /\ Shared(offer) \in Secrets => \A r \in Peers : Earned(r, Shared(offer))
    BY <1>6 DEF Sas, OfferEarned
  <1>8. new.sasVerified => Earned(p, session)'
    <2> SUFFICES ASSUME new.sasVerified PROVE Earned(p, session)'
      OBVIOUS
    <2>1. PICK k : k = Shared(offer) /\ k = matched'[session]
      OBVIOUS
    <2>2. k = 0 \/ (k \in Secrets /\ Earned(p, k))
      BY <1>0, <1>6, <1>7, <2>1, SharedType
    <2>3. k = 0 \/ Earned(p, k)'
      BY <2>2 DEF EarnedKept
    <2> QED
      BY <1>2, <2>1, <2>3, EarnedWithSource
  <1>9. cache[p].rs1 # 0 => offer[p][1] = cache[p].rs1 /\ cache[p].rs1 \in Secrets
    BY <1>0, <1>1, RecordOrder DEF Offered
  <1>10. new.sasVerified /\ cache[y].rs1 = cache[p].rs1 /\ cache[p].rs1 # 0 => Earned(y, cache[y].rs1)
    <2> SUFFICES ASSUME new.sasVerified, cache[y].rs1 = cache[p].rs1, cache[p].rs1 # 0
                 PROVE  Earned(y, cache[y].rs1)
      OBVIOUS
    <2>1. offer[y][1] = cache[y].rs1
      BY <1>0, <1>1 DEF Offered
    <2>2. Shared(offer) = cache[y].rs1
      BY <1>0, <1>9, <2>1, SharedType
    <2> QED
      BY <1>0, <1>7, <1>9, <2>2
  <1>11. \A r \in Peers : CacheEarned(r)'
    <2>1. CASE eng[p].saveZidRecord
      <3>1. cache'[p] = new
        BY <1>4, <2>1
      <3>2. /\ cache[p].rs1 < session /\ cache'[p].rs1 = session /\ cache'[p].rs2 = cache[p].rs1
            /\ cache'[y] = cache[y] /\ session' = session
        BY <1>1, <1>3, <1>4, <3>1
      <3>3. cache'[p].sasVerified =>
               /\ Earned(p, session)'
               /\ cache[p].sasVerified \/ cache[y].rs1 # cache[p].rs1
               /\ cache[y].rs1 = cache[p].rs1 /\ cache[p].rs1 # 0 => Earned(y, cache[y].rs1)
        BY <1>6, <1>8, <1>10, <3>1
      <3>4. \A r \in Peers : CacheEarned(r)
        BY <1>0
      <3> QED
        BY <1>0, <3>2, <3>3, <3>4, CacheFirst
    <2>2. CASE ~eng[p].saveZidRecord
      BY <1>0, <1>4, <2>2, CacheWeaker DEF Weaker
    <2> QED
      BY <2>1, <2>2
  <1>12. EngineEarned(p, offer, had)'
    <2>1. PICK k : k = cache[p].rs1 /\ k = eng'[p].zidRec.rs2
      BY <1>3, <1>4
    <2>2. k # 0 /\ cache'[y].rs2 = k /\ cache'[y].sasVerified => Earned(p, k) /\ Earned(y, k)
      BY <1>0, <1>4, <2>1 DEF CacheEarned
    <2>3. k # 0 /\ cache'[y].rs2 = k /\ cache'[y].sasVerified => Earned(p, k)' /\ Earned(y, k)'
      BY <1>0, <2>2 DEF EarnedKept
    <2>4. /\ session # 0
          /\ eng'[p].zidRec.sasVerified => cache'[p].rs1 = session /\ cache'[p].sasVerified
          /\ cache'[p].rs1 # session => cache'[p].rs1 = k
      BY <1>2, <1>3, <1>4, <1>6, <2>1, NotASecret
    <2>5. ph \notin Early /\ ph # "WaitConfirm"
      BY DEF Early, Late
    <2>6. Shared(offer)' = Shared(offer)
      BY DEF Shared
    <2> QED
      BY <1>4, <1>9, <2>1, <2>3, <2>4, <2>5, <2>6 DEF EngineEarned
  <1>13. \A m \in net' : m \in net \/ PacketEarned(m, offer, had)'
    BY <1>3, <1>4, <1>5
  <1>14. cache'[p].rs1 = session \/ Weaker(p)
    BY <1>3, <1>4 DEF Weaker
  <1> QED
    BY <1>0, <1>4, <1>11, <1>12, <1>13, <1>14, SasStep


LEMMA RecvConfirm1Sas ==
    ASSUME NEW offer \in [Peers -> IdPairs], NEW had \in [Peers -> BOOLEAN], Within(offer),
           Sas(offer, had), NEW p \in Peers, RecvConfirm1(p)
    PROVE  Sas(offer, had)'
  <1>0. /\ Types /\ Flags /\ EngineOK(p, offer) /\ EngineEarned(p, offer, had) /\ History
        /\ Other(p) # p /\ Other(p) \in Peers /\ DOMAIN eng = Peers
    BY OtherPeer DEF Within, Types, Session, Sas
  <1>1. /\ p = initiator /\ eng[p].phase = "WaitConfirm" /\ UNCHANGED <<session, initiator, verifiedBy>>
        /\ matched' = [matched EXCEPT ![session] = eng[p].setD]
    BY DEF RecvConfirm1
  <1>2. PICK m \in net :
          /\ m.type = "Confirm1" /\ m.key = eng[p].setD
          /\ LET rec == Confirmed(eng[p], m.sas)
                 new == SetNewRs1(rec, session)
             IN  /\ eng' = [eng EXCEPT ![p].phase = "WaitConfAck", ![p].zidRec = new]
                 /\ cache' = SavedIf(p, eng[p].saveZidRecord, new)
                 /\ Send([type |-> "Confirm2", key |-> eng[p].setD, sas |-> rec.sasVerified])
    BY DEF RecvConfirm1
  <1>3. PICK new : new = SetNewRs1(Confirmed(eng[p], m.sas), session)
    OBVIOUS
  <1>4. /\ eng[p] \in Engine /\ m.sas \in BOOLEAN /\ eng[p].zidRec.rs1 < session /\ session \in 0..MaxSessions
        /\ eng[p].setD = Shared(offer) /\ eng[p].setD \in 0..NoSecret
    BY <1>0, <1>1, <1>2, Live, SharedByBoth DEF Types, EngineOK, Early, Engine
  <1>5. session \in Secrets
    <2>1. eng[p].zidRec.rs1 \in Nat
      BY <1>4, RetainedConstants DEF Engine, Records
    <2> QED
      BY <1>4, <2>1, RetainedConstants DEF Secrets
  <1>6. /\ new.sasVerified = Confirmed(eng[p], m.sas).sasVerified
        /\ new.sasVerified => eng[p].zidRec.sasVerified /\ m.sas
    BY <1>3, <1>4, NewSecret
  <1>7. m.sas => had[Other(p)]
    BY <1>1, <1>2 DEF Sas, PacketEarned
  <1>8. new.sasVerified => had[p] /\ had[Other(p)]
    BY <1>0, <1>1, <1>6, <1>7 DEF EngineEarned, Early
  <1>9. /\ matched'[session] = Shared(offer) /\ matched' \in [Secrets -> 0..NoSecret]
        /\ \A s \in Secrets : s # session => matched'[s] = matched[s]
    BY <1>0, <1>1, <1>4, <1>5 DEF History
  <1>10. EarnedKept
    <2>1. matched[session] = NoSecret
      BY <1>0, <1>1, <1>5 DEF History, Early
    <2>2. \A s \in Secrets : matched'[s] = matched[s] \/ matched[s] = NoSecret
      BY <1>9, <2>1
    <2> QED
      BY <1>1, <2>2, EarnedForEver DEF EarnedKept
  <1>11. History'
    <2>1. eng'[p].phase = "WaitConfAck"
      BY <1>0, <1>2, <1>4 DEF Engine
    <2>2. session \in Nat /\ \A s \in Secrets : s > session => s # session
      BY <1>4
    <2>3. DOMAIN verifiedBy' = Peers
      BY <1>0, <1>1 DEF History
    <2>4. "WaitConfAck" \notin Early
      BY DEF Early
    <2>5. \A s \in Secrets : s > session => matched'[s] = NoSecret
      BY <1>0, <1>9, <2>2 DEF History
    <2> QED
      BY <1>1, <1>9, <2>1, <2>3, <2>4, <2>5 DEF History
  <1>12. \A n \in net : n.type # "Confirm2"
    BY <1>0, <1>1 DEF Flags, Early
  <1>13. PICK d : d = [type |-> "Confirm2", key |-> eng[p].setD, sas |-> new.sasVerified]
    OBVIOUS
  <1>14. net' = net \cup {d} /\ d.type = "Confirm2" /\ d.sas = new.sasVerified
    BY <1>2, <1>6, <1>13 DEF Send
  <1>15. Shared(offer) = NoSecret \/ cache'[p].rs1 = session =>
           \A n \in net' : n \in net \/ PacketEarned(n, offer, had)'
    <2> SUFFICES ASSUME Shared(offer) = NoSecret \/ cache'[p].rs1 = session
                 PROVE  PacketEarned(d, offer, had)'
      BY <1>14
    <2>1. Shared(offer)' = Shared(offer)
      BY <1>1 DEF Shared
    <2> QED
      BY <1>1, <1>8, <1>9, <1>14, <2>1 DEF PacketEarned
  <1>16. "WaitConfAck" \in Late /\ eng' = [eng EXCEPT ![p].phase = "WaitConfAck", ![p].zidRec = new]
         /\ cache' = SavedIf(p, eng[p].saveZidRecord, new)
    BY <1>2, <1>3 DEF Late
  <1> QED
    BY <1>1, <1>3, <1>4, <1>7, <1>9, <1>10, <1>11, <1>12, <1>15, <1>16, ConfirmSas

LEMMA RecvConfirm2Sas ==
    ASSUME NEW offer \in [Peers -> IdPairs], NEW had \in [Peers -> BOOLEAN], Within(offer),
           Sas(offer, had), NEW p \in Peers, RecvConfirm2(p)
    PROVE  Sas(offer, had)'
  <1>0. /\ Types /\ History /\ Other(p) # p /\ Other(p) \in Peers /\ DOMAIN eng = Peers
    BY OtherPeer DEF Within, Types, Sas
  <1>1. /\ p # initiator /\ eng[p].phase = "WaitConfirm"
        /\ UNCHANGED <<session, initiator, verifiedBy, matched>>
        /\ initiator = Other(p) /\ Other(initiator) = p
    BY <1>0, OtherPeer DEF RecvConfirm2, Types
  <1>2. PICK m \in net :
          /\ m.type = "Confirm2" /\ m.key = eng[p].setD
          /\ LET new == SetNewRs1(Confirmed(eng[p], m.sas), session)
             IN  /\ eng' = [eng EXCEPT ![p].phase = "Secure", ![p].zidRec = new]
                 /\ cache' = SavedIf(p, eng[p].saveZidRecord, new)
    BY DEF RecvConfirm2
  <1>3. PICK new : new = SetNewRs1(Confirmed(eng[p], m.sas), session)
    OBVIOUS
  <1>4. /\ m.sas \in BOOLEAN /\ (m.sas => had[Other(p)])
        /\ matched[session] = Shared(offer)
        /\ Shared(offer) = NoSecret \/ cache[Other(p)].rs1 = session
    BY <1>0, <1>1, <1>2 DEF Types, Sas, PacketEarned
  <1>5. EarnedKept /\ History'
    <2>1. DOMAIN verifiedBy' = Peers /\ \A r \in Peers : verifiedBy[r] \subseteq verifiedBy'[r]
      BY <1>0, <1>1 DEF History
    <2>2. eng'[initiator] = eng[initiator]
      BY <1>0, <1>1, <1>2
    <2> QED
      BY <1>0, <1>1, <2>1, <2>2, HistorySame
  <1>6. PICK d : d = [type |-> "Conf2Ack"]
    OBVIOUS
  <1>7. net' = net \cup {d} /\ d.type = "Conf2Ack"
    BY <1>6 DEF RecvConfirm2, Send
  <1>8. Shared(offer) = NoSecret \/ cache'[p].rs1 = session =>
          \A n \in net' : n \in net \/ PacketEarned(n, offer, had)'
    <2> SUFFICES ASSUME Shared(offer) = NoSecret \/ cache'[p].rs1 = session
                 PROVE  PacketEarned(d, offer, had)'
      BY <1>7
    <2>1. Shared(offer)' = Shared(offer)
      BY <1>1 DEF Shared
    <2> QED
      BY <1>1, <1>7, <2>1 DEF PacketEarned
  <1>9. "Secure" \in Late /\ eng' = [eng EXCEPT ![p].phase = "Secure", ![p].zidRec = new]
        /\ cache' = SavedIf(p, eng[p].saveZidRecord, new)
    BY <1>2, <1>3 DEF Late
  <1>10. /\ matched' = matched /\ matched'[session] = Shared(offer)
         /\ UNCHANGED <<session, initiator>> /\ \A r \in Peers : had[r] \in BOOLEAN
    BY <1>1, <1>4
  <1>11. m.sas \in BOOLEAN /\ (m.sas => had[Other(p)]) /\ eng[p].phase = "WaitConfirm"
    BY <1>1, <1>4
  <1> QED
    BY <1>3, <1>4, <1>5, <1>8, <1>9, <1>10, <1>11, ConfirmSas


\* A judgement of the user: what it leaves of the engine.
LEMMA JudgedEngine ==
    ASSUME Types, NEW p \in Peers, SASVerified(p) \/ ResetSASVerified(p)
    PROVE  /\ eng[p].phase = "Secure" /\ eng'[p].phase = "Secure" /\ eng'[Other(p)] = eng[Other(p)]
           /\ eng'[p].zidRec.rs1 = eng[p].zidRec.rs1 /\ eng'[p].zidRec.rs2 = eng[p].zidRec.rs2
           /\ eng'[p].zidRec.sasVerified => SASVerified(p)
           /\ cache'[p] = eng'[p].zidRec /\ cache'[Other(p)] = cache[Other(p)]
           /\ UNCHANGED <<session, initiator, net, matched>>
  <1>0. /\ Other(p) # p /\ Other(p) \in Peers /\ DOMAIN eng = Peers /\ DOMAIN cache = Peers
        /\ eng[p].phase = "Secure"
    BY OtherPeer DEF Types, SASVerified, ResetSASVerified
  <1>1. PICK e \in Engine : e = eng[p]
    BY <1>0, Live
  <1>2. PICK z \in Records : z = e.zidRec
    BY DEF Engine
  <1>3. PICK b \in BOOLEAN :
          /\ b => SASVerified(p)
          /\ eng'[p].phase = e.phase /\ eng'[p].zidRec = [z EXCEPT !.sasVerified = b]
          /\ eng'[Other(p)] = eng[Other(p)]
    <2>1. CASE SASVerified(p)
      BY <1>0, <1>1, <1>2, <2>1 DEF SASVerified, Engine
    <2>2. CASE ResetSASVerified(p)
      BY <1>0, <1>1, <1>2, <2>2 DEF ResetSASVerified, Engine
    <2> QED
      BY <2>1, <2>2
  <1>4. /\ [z EXCEPT !.sasVerified = b].rs1 = z.rs1 /\ [z EXCEPT !.sasVerified = b].rs2 = z.rs2
        /\ [z EXCEPT !.sasVerified = b].sasVerified = b
    BY DEF Records
  <1>5. cache'[p] = eng'[p].zidRec /\ cache'[Other(p)] = cache[Other(p)]
        /\ UNCHANGED <<session, initiator, net, matched>>
    BY <1>0 DEF SASVerified, ResetSASVerified, SavedIf
  <1> QED
    BY <1>0, <1>1, <1>2, <1>3, <1>4, <1>5

LEMMA JudgedSas ==
    ASSUME NEW offer \in [Peers -> IdPairs], NEW had, Within(offer), Sas(offer, had), NEW p \in Peers,
           SASVerified(p) \/ ResetSASVerified(p)
    PROVE  Sas(offer, had)'
  <1> DEFINE y == Other(p)
  <1>0. /\ Types /\ EngineOK(p, offer) /\ EngineEarned(p, offer, had) /\ History /\ Offered(offer)
        /\ y # p /\ y \in Peers /\ Other(y) = p /\ \A r \in Peers : CacheEarned(r)
    BY OtherPeer DEF Within, Types, Session, Sas
  <1>1. /\ eng[p].phase = "Secure" /\ eng'[p].phase = "Secure" /\ eng'[y] = eng[y]
        /\ eng'[p].zidRec.rs1 = eng[p].zidRec.rs1 /\ eng'[p].zidRec.rs2 = eng[p].zidRec.rs2
        /\ eng'[p].zidRec.sasVerified => SASVerified(p)
        /\ cache'[p] = eng'[p].zidRec /\ cache'[y] = cache[y]
        /\ UNCHANGED <<session, initiator, net, matched>>
    BY <1>0, JudgedEngine
  <1>2. PICK k : k = eng[p].zidRec.rs2
    OBVIOUS
  <1>3. cache'[p].rs1 = session /\ cache'[p].rs2 = k /\ eng'[p].zidRec.rs2 = k
    BY <1>0, <1>1, <1>2 DEF EngineOK, Late
  <1>4. /\ cache[p].rs1 = session => cache[p].rs2 = k
        /\ cache[p].rs1 # session => cache[p].rs1 = k /\ Shared(offer) = NoSecret
        /\ k # 0 => offer[p][1] = k
        /\ k # 0 /\ cache[y].rs1 # session /\ cache[y].rs2 = k /\ cache[y].sasVerified =>
             Earned(p, k) /\ Earned(y, k)
        /\ Shared(offer) = NoSecret \/ cache[y].rs1 = session
    BY <1>0, <1>1, <1>2, SharedByBoth DEF EngineOK, EngineEarned, Late
  <1>5. /\ \A r \in Peers : cache[r].rs1 \in Nat /\ cache[r].rs1 <= session /\ session \in Nat
        /\ cache[p].rs2 < cache[p].rs1 \/ cache[p].rs2 = 0
        /\ cache[p].rs2 \in Nat
        /\ \A r \in Peers : cache[r].rs1 # 0 => cache[r].rs1 \in Secrets
    BY <1>0, RecordOrder
  <1>6. EarnedKept /\ History'
    <2>1. DOMAIN verifiedBy' = Peers /\ \A r \in Peers : verifiedBy[r] \subseteq verifiedBy'[r]
      BY <1>0 DEF History, SASVerified, ResetSASVerified
    <2>2. eng'[initiator].phase \in Early => eng[initiator].phase \in Early
      BY <1>0, <1>1, OtherPeer DEF Types
    <2> QED
      BY <1>0, <1>1, <2>1, <2>2, HistorySame
  \* Both would have found the secret that the other has.
  <1>7. k # 0 => cache[y].rs1 # k
    <2> SUFFICES ASSUME k # 0, cache[y].rs1 = k PROVE FALSE
      OBVIOUS
    <2>1. k < session
      BY <1>0, <1>4, <1>5
    <2>2. offer[y][1] = k /\ k \in Secrets
      BY <1>0, <1>5, <2>1 DEF Offered
    <2>3. Shared(offer) = k
      BY <1>0, <1>4, <2>2, SharedType
    <2> QED
      BY <1>4, <1>5, <2>1, <2>2, <2>3, NotASecret
  <1>8. session # 0 /\ session \in Secrets
    <2>1. session # 0 /\ session \in 0..MaxSessions
      BY <1>0, <1>1 DEF Types, EngineEarned, Late
    <2> QED
      BY <2>1, RetainedConstants DEF Secrets
  <1>9. cache'[p].sasVerified => Earned(p, session)'
    <2> SUFFICES ASSUME cache'[p].sasVerified PROVE Earned(p, session)'
      OBVIOUS
    <2>1. session \in verifiedBy'[p]
      BY <1>0, <1>1 DEF SASVerified, History
    <2> QED
      BY <1>1, <1>8, <2>1, EarnedWithSource
  <1>10. \A r \in Peers : CacheEarned(r)'
    <2>1. CASE cache[p].rs1 # session
      <3>1. cache[p].rs1 < session /\ cache'[p].rs2 = cache[p].rs1
        BY <1>0, <1>3, <1>4, <1>5, <2>1
      <3> QED
        BY <1>0, <1>1, <1>3, <1>4, <1>6, <1>7, <1>9, <2>1, <3>1, CacheFirst
    <2>2. CASE cache[p].rs1 = session /\ cache'[p].sasVerified
      BY <1>0, <1>1, <1>3, <1>4, <1>6, <1>7, <1>8, <1>9, <2>2, CacheAgain
    <2>3. CASE cache[p].rs1 = session /\ ~cache'[p].sasVerified
      BY <1>0, <1>1, <1>3, <1>4, <1>6, <2>3, CacheWeaker DEF Weaker
    <2> QED
      BY <2>1, <2>2, <2>3
  <1>11. EngineEarned(p, offer, had)'
    <2>1. k # 0 /\ cache'[y].rs1 # session /\ cache'[y].rs2 = k /\ cache'[y].sasVerified =>
            Earned(p, k)' /\ Earned(y, k)'
      BY <1>0, <1>1, <1>4, <1>6 DEF EarnedKept
    <2>2. Shared(offer)' = Shared(offer)
      BY <1>1 DEF Shared
    <2>3. eng'[p].phase \notin Early /\ eng'[p].phase # "WaitConfirm"
      BY <1>1 DEF Early
    <2> QED
      BY <1>1, <1>3, <1>4, <1>8, <2>1, <2>2, <2>3 DEF EngineEarned
  <1> QED
    BY <1>0, <1>1, <1>3, <1>6, <1>10, <1>11, SasStep


\* Two verified records offer secrets of which the one they choose is earned.
LEMMA ChoiceEarned ==
    ASSUME Types, \A r \in Peers : CacheEarned(r), NEW p \in Peers,
           cache[p].sasVerified, cache[Other(p)].sasVerified,
           NEW k \in Secrets, k = Choose(Ids(cache[p]), Ids(cache[Other(p)]))
    PROVE  Earned(p, k)
  <1> DEFINE q == Other(p)
  <1>0. q \in Peers /\ Other(q) = p
    BY OtherPeer
  <1>1. PICK c \in Records, d \in Records : c = cache[p] /\ d = cache[q]
    BY <1>0 DEF Types
  <1>2. c.rs1 # 0 /\ d.rs1 # 0 /\ Earned(p, c.rs1)
    BY <1>0, <1>1 DEF CacheEarned
  <1>3. PICK a \in IdPairs, b \in IdPairs : a = Ids(c) /\ b = Ids(d)
    BY RecordIds
  <1>4. /\ a[1] = c.rs1 /\ (a[2] = c.rs2 \/ a[2] = Unknown)
        /\ b[1] = d.rs1 /\ (b[2] = d.rs2 \/ b[2] = Unknown)
    BY <1>2, <1>3 DEF Ids, Records
  <1>5. k # 0 /\ k # Unknown /\ k # NoSecret
    BY NotASecret
  <1>6. \/ k = c.rs1
        \/ k = c.rs2 /\ (k = d.rs1 \/ (k = d.rs2 /\ d.rs1 # c.rs1))
    <2>1. k = Choose(a, b)
      BY <1>1, <1>3
    <2>2. k = IF a[1] # Unknown /\ (a[1] = b[1] \/ a[1] = b[2]) THEN a[1]
              ELSE IF a[2] # Unknown /\ (a[2] = b[1] \/ a[2] = b[2]) THEN a[2]
              ELSE NoSecret
      BY <2>1, ChooseCases
    <2>3. c.rs1 # Unknown
      BY RetainedConstants DEF Records, Unknown
    <2> QED
      BY <1>4, <1>5, <2>2, <2>3
  <1>7. c.rs2 # 0 /\ ~Earned(p, c.rs2) => d.rs1 # c.rs2 /\ (d.rs2 = c.rs2 => d.rs1 = c.rs1)
    BY <1>0, <1>1 DEF CacheEarned
  <1> QED
    BY <1>2, <1>5, <1>6, <1>7

LEMMA NewSessionSas ==
    ASSUME NEW i \in Peers, NEW heard \in SUBSET Peers, NEW paranoid \in [Peers -> Paranoid],
           NEW old \in [Peers -> IdPairs], NEW before, Within(old), Sas(old, before),
           NewSession(i, heard, paranoid),
           NEW offer \in [Peers -> IdPairs], offer = [p \in Peers |-> Ids(cache[p])],
           NEW had \in [Peers -> BOOLEAN], had = [p \in Peers |-> cache[p].sasVerified]
    PROVE  Sas(offer, had)'
  <1>0. Types /\ History /\ \A p \in Peers : CacheEarned(p) /\ Other(p) \in Peers
    BY OtherPeer DEF Within, Sas
  <1>1. /\ session' = session + 1 /\ initiator' = i /\ net' = {}
        /\ UNCHANGED <<cache, matched, verifiedBy>> /\ session \in Nat
    BY <1>0, RetainedConstants DEF NewSession, Types
  <1>2. EarnedKept
    BY <1>1, EarnedForEver DEF EarnedKept
  <1>3. \A p \in Peers : CacheEarned(p)'
    <2>1. Weaker(i) /\ cache'[Other(i)] = cache[Other(i)]
      BY <1>1 DEF Weaker
    <2> QED
      BY <1>0, <1>2, <2>1, CacheWeaker
  <1>4. \A p \in Peers : eng'[p].phase = "None" \/ (eng'[p].phase = "Hello" /\ eng'[p].zidRec = cache[p])
    BY DEF NewSession, NoEngine
  <1>5. \A p \in Peers : EngineEarned(p, offer, had)'
    BY <1>1, <1>4 DEF EngineEarned, Early, Late
  <1>6. History'
    <2>1. \A s \in Secrets : s > session + 1 \/ s = session + 1 => s > session
      BY <1>1, RetainedConstants DEF Secrets
    <2> QED
      BY <1>0, <1>1, <2>1 DEF History
  <1>7. OfferEarned(offer, had)'
    <2>1. PICK k : k = Choose(offer[i], offer[Other(i)])
      OBVIOUS
    <2>2. Shared(offer)' = k
      BY <1>1, <2>1 DEF Shared
    <2>3. \A p \in Peers : k = Choose(offer[p], offer[Other(p)])
      BY <1>0, <2>1, ChooseSame, OtherPeer
    <2>4. ASSUME \A p \in Peers : had[p], k \in Secrets, NEW p \in Peers PROVE Earned(p, k)
      BY <1>0, <2>3, <2>4, ChoiceEarned
    <2>5. ASSUME NEW p \in Peers, had[p] PROVE offer[p] # <<Unknown, Unknown>>
      <3>1. cache[p] \in Records /\ cache[p].rs1 # 0 /\ cache[p].rs1 \in Secrets
        BY <1>0, <2>5, RecordOrder DEF CacheEarned, Types
      <3>2. offer[p][1] = cache[p].rs1
        BY <3>1 DEF Ids, Records
      <3>3. offer[p][1] # Unknown
        BY <3>1, <3>2, NotASecret
      <3> QED
        BY <3>3
    <2>6. (\A p \in Peers : had[p]) /\ k \in Secrets => \A p \in Peers : Earned(p, k)'
      BY <1>2, <2>4 DEF EarnedKept
    <2> QED
      BY <2>2, <2>5, <2>6 DEF OfferEarned
  <1> QED
    BY <1>1, <1>3, <1>5, <1>6, <1>7 DEF Sas

LEMMA InitSas == Init => SasInv
  <1> SUFFICES ASSUME Init PROVE SasInv
    OBVIOUS
  <1>1. /\ cache = [p \in Peers |-> NewRecord] /\ eng = [p \in Peers |-> NoEngine]
        /\ net = {} /\ matched = [s \in Secrets |-> NoSecret] /\ verifiedBy = [p \in Peers |-> {}]
    BY DEF Init
  <1>2. PICK offer \in [Peers -> IdPairs] : Within(offer)
    BY InitInv DEF Inv
  <1>3. PICK had \in [Peers -> BOOLEAN] : had = [p \in Peers |-> FALSE]
    OBVIOUS
  <1>4. \A p \in Peers : Other(p) \in Peers /\ ~cache[p].sasVerified /\ eng[p].phase = "None" /\ ~had[p]
    BY <1>1, <1>3, OtherPeer DEF NewRecord, NoEngine
  <1>5. \A p \in Peers : CacheEarned(p) /\ EngineEarned(p, offer, had)
    BY <1>4 DEF CacheEarned, EngineEarned, Early, Late
  <1>6. OfferEarned(offer, had)
    <2>1. PICK p \in Peers : TRUE
      BY <1>2 DEF Within, Types
    <2> QED
      BY <1>4, <2>1 DEF OfferEarned
  <1>7. History
    <2>1. NoSecret \in 0..NoSecret
      BY RetainedConstants DEF NoSecret
    <2> QED
      BY <1>1, <2>1 DEF History
  <1> QED
    BY <1>1, <1>2, <1>5, <1>6, <1>7 DEF Sas, SasInv


LEMMA SasPeerStep ==
    \A offer \in [Peers -> IdPairs], had \in [Peers -> BOOLEAN], p \in Peers :
        Within(offer) /\ Sas(offer, had) /\ PeerStep(p) => Sas(offer, had)'
  BY SilentActionsSas, RecvDHPartSas, RecvConfirm1Sas, RecvConfirm2Sas, JudgedSas, StopSas DEF PeerStep

LEMMA SasStutter ==
    \A offer \in [Peers -> IdPairs], had \in [Peers -> BOOLEAN] :
        Sas(offer, had) /\ UNCHANGED vars => Sas(offer, had)'
  <1> SUFFICES ASSUME NEW offer \in [Peers -> IdPairs], NEW had \in [Peers -> BOOLEAN],
                      Sas(offer, had), UNCHANGED vars
               PROVE  Sas(offer, had)'
    OBVIOUS
  <1>1. UNCHANGED <<cache, eng, session, initiator, net, matched, verifiedBy>>
    BY DEF vars
  <1>2. \A p : \A k : Earned(p, k)' <=> Earned(p, k)
    BY <1>1 DEF Earned, Lineage, Derived
  <1>3. Shared(offer)' = Shared(offer)
    BY <1>1 DEF Shared
  <1>4. \A p \in Peers : CacheEarned(p)'
    BY <1>1, <1>2 DEF Sas, CacheEarned
  <1>5. \A p \in Peers : EngineEarned(p, offer, had)'
    BY <1>1, <1>2, <1>3 DEF Sas, EngineEarned
  <1>6. \A m \in net' : PacketEarned(m, offer, had)'
    BY <1>1, <1>3 DEF Sas, PacketEarned
  <1>7. OfferEarned(offer, had)' /\ History'
    BY <1>1, <1>2, <1>3 DEF Sas, OfferEarned, History
  <1> QED
    BY <1>4, <1>5, <1>6, <1>7 DEF Sas

LEMMA NextSas == SasInv /\ [Next]_vars => SasInv'
  <1> SUFFICES ASSUME SasInv, [Next]_vars PROVE SasInv'
    OBVIOUS
  <1>1. PICK offer \in [Peers -> IdPairs], had \in [Peers -> BOOLEAN] : Within(offer) /\ Sas(offer, had)
    BY DEF SasInv
  <1>2. ASSUME NEW i \in Peers, NEW heard \in SUBSET Peers, NEW paranoid \in [Peers -> Paranoid],
               NewSession(i, heard, paranoid)
        PROVE  SasInv'
    <2>1. PICK new \in [Peers -> IdPairs] : new = [p \in Peers |-> Ids(cache[p])]
      BY <1>1, OfferNow DEF Within
    <2>2. PICK now \in [Peers -> BOOLEAN] : now = [p \in Peers |-> cache[p].sasVerified]
      BY <1>1, RecordOrder DEF Within
    <2>3. Within(new)'
      BY <1>1, <1>2, <2>1, NewSessionInv DEF Inv
    <2>4. Sas(new, now)'
      BY <1>1, <1>2, <2>1, <2>2, NewSessionSas
    <2> QED
      BY <2>3, <2>4 DEF SasInv
  <1>3. ASSUME NEW p \in Peers, PeerStep(p) PROVE SasInv'
    BY <1>1, <1>3, WithinStep, SasPeerStep DEF SasInv
  <1>4. CASE UNCHANGED vars
    BY <1>1, <1>4, WithinStutter, SasStutter DEF SasInv
  <1> QED
    BY <1>2, <1>3, <1>4, Steps

\* A session that is shown as verified descends, through secrets that both peers had
\* kept, from one whose SAS this user compared and found equal (or from zeroed memory
\* that Stop made valid): along any chain of renewals, lost saves, crashes, forgotten
\* flags and second secrets, neither GenerateKeys nor a Confirm packet of the peer
\* gives a flag to a session with another history.
THEOREM SasFlagEarnedHolds == Spec => []SasFlagEarned
  <1>1. SasInv => SasFlagEarned
    <2> SUFFICES ASSUME SasInv, NEW p \in Peers, eng[p].phase = "Secure", eng[p].zidRec.sasVerified
                 PROVE  \/ Lineage(session) \cap verifiedBy[p] # {}
                        \/ \E s \in Lineage(session) : matched[s] = 0
      BY DEF SasFlagEarned
    <2>1. PICK offer \in [Peers -> IdPairs], had \in [Peers -> BOOLEAN] : Sas(offer, had)
      BY DEF SasInv
    <2>2. cache[p].rs1 = session /\ cache[p].sasVerified
      BY <2>1 DEF Sas, EngineEarned, Late
    <2>3. Earned(p, session)
      BY <2>1, <2>2 DEF Sas, CacheEarned
    <2> QED
      BY <2>3 DEF Earned
  <1> QED
    BY <1>1, InitSas, NextSas, PTL DEF Spec
=============================================================================
