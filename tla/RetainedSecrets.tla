-------------------------- MODULE RetainedSecrets --------------------------
(***************************************************************************)
(* The secrets two peers keep for each other from session to session: the  *)
(* records of their ZID caches (ZIDRecord, ZIDCache), and how ZRtp matches, *)
(* renews and saves them.                                                  *)
(*                                                                         *)
(* A secret is named by the session that produced it; 0 is a record's      *)
(* zeroed memory.  Sessions follow each other; any of them may be cut at    *)
(* any point, by a peer that stops its stream (and so ends the engine in    *)
(* order) or by one whose process dies.  Packets of a session wait in net   *)
(* and may never arrive.  The rest of the exchange (ZrtpHandshake), the     *)
(* auxiliary and the PBX secrets, and expiry (setNewRs1 is always called    *)
(* with "never expires") are left out.                                     *)
(***************************************************************************)
EXTENDS Naturals, FiniteSets, FiniteSetsExt, Functions

CONSTANTS
    Peers,         \* the two peers
    Paranoid,      \* values of paranoidMode an engine may be configured with
    EnoughMedia,   \* SRTP packets after which the peer is taken to have saved
    MaxSessions,   \* bound: sessions
    MaxCrashes     \* bound: engines that end without a stop

ASSUME RetainedConstants ==
    /\ IsFiniteSet(Peers) /\ Cardinality(Peers) = 2 /\ Paranoid \subseteq BOOLEAN
    /\ EnoughMedia \in Nat \ {0} /\ MaxSessions \in Nat \ {0, 1} /\ MaxCrashes \in Nat

VARIABLES
    cache,         \* the saved record each peer has for the other
    eng,           \* the engine of each peer
    session,       \* sessions so far; the current one
    initiator,     \* who sends the Commit in it
    net,           \* its packets
    crashes,       \* engines that ended without a stop
    matched,       \* history: the secret each session was derived from
    verifiedBy,    \* history: sessions whose SAS each peer's user verified
    cuts           \* history: secrets saved since both peers had the same one

vars == <<cache, eng, session, initiator, net, crashes, matched, verifiedBy, cuts>>

Other(p) == CHOOSE q \in Peers : q # p

Unknown == MaxSessions + 1    \* the id of an invalid secret is random
NoSecret == MaxSessions + 2   \* setD[0] is a null pointer
Secrets == 1..MaxSessions

\* ZIDRecord: what getRecord creates for an unknown ZID.
NewRecord == [rs1 |-> 0, rs2 |-> 0, rs1Valid |-> FALSE, rs2Valid |-> FALSE,
              sasVerified |-> FALSE]

NoEngine == [phase |-> "None"]

Init ==
    /\ cache = [p \in Peers |-> NewRecord] /\ eng = [p \in Peers |-> NoEngine]
    /\ session = 0 /\ initiator \in Peers /\ net = {} /\ crashes = 0
    /\ matched = [s \in Secrets |-> NoSecret]
    /\ verifiedBy = [p \in Peers |-> {}] /\ cuts = MaxSessions

-----------------------------------------------------------------------------
(* The record.                                                               *)

\* Mutant of SetNewRs1: the old secret is overwritten.
SetNewRs1NoShift(rec, new) ==
    [rec EXCEPT !.rs1 = new, !.rs1Valid = TRUE, !.rs2Valid = FALSE]

SetNewRs1(rec, new) ==
    [rec EXCEPT !.rs2 = rec.rs1, !.rs1 = new, !.rs1Valid = TRUE, !.rs2Valid = FALSE]

\* computeSharedSecretSet: the ids a peer offers for its two secrets.
Ids(rec) == <<IF rec.rs1Valid THEN rec.rs1 ELSE Unknown,
              IF rec.rs2Valid THEN rec.rs2 ELSE Unknown>>

\* Mutant of Choose: the first secret is not compared with the peer's second.
ChooseSkipsCase(own, theirs) ==
    LET hits == {k \in 1..2 : own[k] # Unknown /\ \E j \in 1..k : own[k] = theirs[j]}
    IN  IF hits = {} THEN NoSecret ELSE own[Min(hits)]

\* generateKeys*: setD[0], the first own secret whose id the peer offers too.
Choose(own, theirs) ==
    LET hits == {k \in 1..2 : own[k] # Unknown /\ own[k] \in Range(theirs)}
    IN  IF hits = {} THEN NoSecret ELSE own[Min(hits)]

\* saveRecord, where the code asks saveZidRecord first.
SavedIf(p, save, rec) == [cache EXCEPT ![p] = IF save THEN rec ELSE @]

\* The history variable cuts, after a save of p.
CountCuts(p) ==
    cuts' = IF cache'[p].rs1 = cache'[Other(p)].rs1 /\ cache'[p].rs1Valid THEN 0
            ELSE IF cache'[p].rs1 # cache[p].rs1 THEN Min({cuts + 1, MaxSessions})
            ELSE cuts

-----------------------------------------------------------------------------
(* A session.  heard: the peers that receive the other's Hello; judged is    *)
(* history: the user has spoken about the SAS.                               *)

NewSession(i, heard, paranoid) ==
    /\ session < MaxSessions /\ \A p \in Peers : eng[p].phase = "None"
    /\ session' = session + 1 /\ initiator' = i /\ net' = {}
    /\ eng' = [p \in Peers |->
                IF p \notin heard THEN NoEngine
                ELSE [phase |-> "Hello", zidRec |-> cache[p], ids |-> Ids(cache[p]),
                      saveZidRecord |-> TRUE, paranoidMode |-> paranoid[p],
                      setD |-> NoSecret, zrtpUnprotect |-> 0, judged |-> FALSE]]
    /\ UNCHANGED <<cache, crashes, matched, verifiedBy, cuts>>

Send(m) == net' = net \cup {m}

\* prepareDHPart1: the Responder has the Commit.
AnswerCommit(p) ==
    /\ p # initiator /\ eng[p].phase = "Hello" /\ eng[initiator].phase = "Hello"
    /\ eng' = [eng EXCEPT ![p].phase = "WaitDHPart2"]
    /\ Send([type |-> "DHPart1", ids |-> eng[p].ids])
    /\ UNCHANGED <<cache, session, initiator, crashes, matched, verifiedBy, cuts>>

\* Mutant of GenerateKeys: an expected match that is missing goes unnoticed.
GenerateKeysUnnoticed(p, theirs) ==
    [eng[p] EXCEPT !.phase = "WaitConfirm", !.setD = Choose(eng[p].ids, theirs)]

\* generateKeysInitiator, generateKeysResponder.  A match that was expected and
\* is missing takes the verified flag away and holds the new secret back.
GenerateKeys(p, theirs) ==
    LET setD == Choose(eng[p].ids, theirs)
        lost == setD = NoSecret /\ eng[p].ids # <<Unknown, Unknown>>
        e    == [eng[p] EXCEPT !.phase = "WaitConfirm", !.setD = setD]
    IN  IF lost THEN [e EXCEPT !.zidRec.sasVerified = FALSE, !.saveZidRecord = FALSE] ELSE e

\* prepareDHPart2.
RecvDHPart1(p) ==
    /\ p = initiator /\ eng[p].phase = "Hello"
    /\ \E m \in net : m.type = "DHPart1" /\ eng' = [eng EXCEPT ![p] = GenerateKeys(p, m.ids)]
    /\ Send([type |-> "DHPart2", ids |-> eng[p].ids])
    /\ UNCHANGED <<cache, session, initiator, crashes, matched, verifiedBy, cuts>>

\* prepareConfirm1.
RecvDHPart2(p) ==
    /\ p # initiator /\ eng[p].phase = "WaitDHPart2"
    /\ \E m \in net : m.type = "DHPart2" /\ eng' = [eng EXCEPT ![p] = GenerateKeys(p, m.ids)]
    /\ LET e == eng'[p]
       IN  Send([type |-> "Confirm1", key |-> e.setD,
                 sas |-> e.zidRec.sasVerified /\ ~e.paranoidMode])
    /\ UNCHANGED <<cache, session, initiator, crashes, matched, verifiedBy, cuts>>

\* Mutant of Confirmed: the peer's flag is not taken over.
ConfirmedOwnFlag(e, sas) == [e.zidRec EXCEPT !.sasVerified = @ /\ ~e.paranoidMode]

\* What a Confirm packet with the flag sas makes of the record.
Confirmed(e, sas) == [e.zidRec EXCEPT !.sasVerified = @ /\ sas /\ ~e.paranoidMode]

\* prepareConfirm2: the Initiator saves first.
RecvConfirm1(p) ==
    /\ p = initiator /\ eng[p].phase = "WaitConfirm"
    /\ \E m \in net :
         /\ m.type = "Confirm1" /\ m.key = eng[p].setD
         /\ LET rec == Confirmed(eng[p], m.sas)
                new == SetNewRs1(rec, session)
            IN  /\ eng' = [eng EXCEPT ![p].phase = "WaitConfAck", ![p].zidRec = new]
                /\ cache' = SavedIf(p, eng[p].saveZidRecord, new)
                /\ Send([type |-> "Confirm2", key |-> eng[p].setD, sas |-> rec.sasVerified])
    /\ CountCuts(p) /\ matched' = [matched EXCEPT ![session] = eng[p].setD]
    /\ UNCHANGED <<session, initiator, crashes, verifiedBy>>

\* prepareConf2Ack: the Responder saves, and is secure.
RecvConfirm2(p) ==
    /\ p # initiator /\ eng[p].phase = "WaitConfirm"
    /\ \E m \in net :
         /\ m.type = "Confirm2" /\ m.key = eng[p].setD
         /\ LET new == SetNewRs1(Confirmed(eng[p], m.sas), session)
            IN  /\ eng' = [eng EXCEPT ![p].phase = "Secure", ![p].zidRec = new]
                /\ cache' = SavedIf(p, eng[p].saveZidRecord, new)
    /\ CountCuts(p) /\ Send([type |-> "Conf2Ack"])
    /\ UNCHANGED <<session, initiator, crashes, matched, verifiedBy>>

\* Conf2Ack, or the first SRTP packet in its place.
RecvConf2Ack(p) ==
    /\ eng[p].phase = "WaitConfAck" /\ \E m \in net : m.type = "Conf2Ack"
    /\ eng' = [eng EXCEPT ![p].phase = "Secure"]
    /\ UNCHANGED <<cache, session, initiator, net, crashes, matched, verifiedBy, cuts>>

\* processIncomingRtp counts the SRTP packets it could open (CtZrtpStream; a
\* ZrtpQueue does not count).
RecvMedia(p) ==
    /\ eng[p].phase = "Secure" /\ eng[Other(p)].phase = "Secure"
    /\ eng[p].zrtpUnprotect < EnoughMedia
    /\ eng' = [eng EXCEPT ![p].zrtpUnprotect = @ + 1]
    /\ UNCHANGED <<cache, session, initiator, net, crashes, matched, verifiedBy, cuts>>

-----------------------------------------------------------------------------
(* The user, who has been shown the SAS.                                     *)

SASVerified(p) ==
    /\ eng[p].phase = "Secure" /\ ~eng[p].paranoidMode
    /\ eng' = [eng EXCEPT ![p].zidRec.sasVerified = TRUE, ![p].saveZidRecord = TRUE,
                          ![p].judged = TRUE]
    /\ cache' = SavedIf(p, TRUE, eng'[p].zidRec)
    /\ verifiedBy' = [verifiedBy EXCEPT ![p] = @ \cup {session}]
    /\ CountCuts(p) /\ UNCHANGED <<session, initiator, net, crashes, matched>>

ResetSASVerified(p) ==
    /\ eng[p].phase = "Secure"
    /\ eng' = [eng EXCEPT ![p].zidRec.sasVerified = FALSE, ![p].judged = TRUE]
    /\ cache' = SavedIf(p, TRUE, eng'[p].zidRec)
    /\ CountCuts(p) /\ UNCHANGED <<session, initiator, net, crashes, matched, verifiedBy>>

-----------------------------------------------------------------------------
(* The end of an engine.                                                     *)

\* stopStream, stopZrtp: little media means that the peer may not have saved.
Stop(p) ==
    /\ eng[p].phase # "None" /\ eng' = [eng EXCEPT ![p] = NoEngine]
    /\ cache' = SavedIf(p, eng[p].saveZidRecord /\ eng[p].zrtpUnprotect < EnoughMedia,
                        [eng[p].zidRec EXCEPT !.rs2Valid = TRUE])
    /\ UNCHANGED <<session, initiator, net, crashes, matched, verifiedBy, cuts>>

Crash(p) ==
    /\ eng[p].phase # "None" /\ eng' = [eng EXCEPT ![p] = NoEngine]
    /\ crashes < MaxCrashes /\ crashes' = crashes + 1
    /\ UNCHANGED <<cache, session, initiator, net, matched, verifiedBy, cuts>>

-----------------------------------------------------------------------------

Next ==
    \/ \E i \in Peers, heard \in (SUBSET Peers) \ {{}}, paranoid \in [Peers -> Paranoid] :
         NewSession(i, heard, paranoid)
    \/ \E p \in Peers :
         \/ AnswerCommit(p) \/ RecvDHPart1(p) \/ RecvDHPart2(p)
         \/ RecvConfirm1(p) \/ RecvConfirm2(p) \/ RecvConf2Ack(p) \/ RecvMedia(p)
         \/ SASVerified(p) \/ ResetSASVerified(p)
         \/ Stop(p) \/ Crash(p)

Spec == Init /\ [][Next]_vars

-----------------------------------------------------------------------------
(* Properties.                                                               *)

\* Both sides derive their keys from the same retained secret, whatever earlier
\* sessions left in the two caches: no Confirm packet is refused because of it.
SameSecretChosen ==
    \A m \in net, p \in Peers :
        m.type \in {"Confirm1", "Confirm2"} /\ eng[p].phase = "WaitConfirm"
            => m.key = eng[p].setD

\* Peers that once had the same secret still have one in common when a session
\* is cut between their two saves, if both stop in order.  (A second cut in a row
\* can cost them the link: a record has room for two secrets.)
LinkKept ==
    (\A p \in Peers : eng[p].phase = "None") /\ crashes = 0 /\ cuts <= 1 =>
        \E s \in Secrets : \A p \in Peers : s \in Range(Ids(cache[p]))

\* The sessions whose secrets went, one after the other, into session s: the least
\* set that holds s and, with a session, the one whose secret it was derived from.
Derived(S) == \A k \in S : matched[k] \in Secrets => matched[k] \in S
Lineage(s) == {n \in Secrets : \A S \in SUBSET Secrets : s \in S /\ Derived(S) => n \in S}

\* A session that is shown as verified descends, through secrets that both peers
\* had kept, from one whose SAS this user compared and found equal.  (Secrets that
\* are zeroed memory, made valid by Stop, match without having been kept: they are
\* the subject of MatchIsShared, and excluded here.)
SasFlagEarned ==
    \A p \in Peers : eng[p].phase = "Secure" /\ eng[p].zidRec.sasVerified =>
        \/ Lineage(session) \cap verifiedBy[p] # {}
        \/ \E s \in Lineage(session) : matched[s] = 0

\* Two secure peers show their users the same verified flag, until one of the
\* users speaks: each has seen the other's flag, in Confirm1 and Confirm2.
FlagsAgree ==
    (\A p \in Peers : eng[p].phase = "Secure" /\ ~eng[p].judged) =>
        \A p, q \in Peers : eng[p].zidRec.sasVerified = eng[q].zidRec.sasVerified

\* The engine has the keys of a session in which the secret it expected was missing,
\* and the record of that session is not in the cache.
HeldBack(p) ==
    /\ eng[p].phase \in {"WaitConfirm", "WaitConfAck", "Secure"} /\ cache[p].rs1 # session
    /\ eng[p].setD = NoSecret /\ eng[p].ids # <<Unknown, Unknown>>

\* A peer that misses the secret it expected does not replace its record of its own
\* accord: no Confirm packet, and no stop of the stream, however little media it has
\* seen, changes what is saved.  That is not all that ZRtp.h:1014 ("don't save record
\* until user verified and confirmed the SAS") and the comments at ZRtp.cpp:1999 and
\* 2161 promise: resetSASVerified writes the record of the session, its new secret
\* included, although its user has found the SAS to differ.
SecretHeldBack ==
    [][\A p \in Peers :
         HeldBack(p) /\ (RecvConfirm1(p) \/ RecvConfirm2(p) \/ Stop(p))
         => cache'[p] = cache[p]]_vars
=============================================================================
