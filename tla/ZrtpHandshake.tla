--------------------------- MODULE ZrtpHandshake ---------------------------
(***************************************************************************)
(* Two ZRTP engines (ZRtp and ZrtpStateClass) that agree on a key over a   *)
(* network that loses, duplicates and reorders packets.                    *)
(*                                                                         *)
(* ZrtpStateClass leaves the outcome of ZRtp::prepare*() open; here packets *)
(* carry what those functions test and hash, and the outcome follows:      *)
(*  - chain: which ZRtp object sent the packet, as its hash chain H0..H3    *)
(*    proves (H3 in Hello, H2 in Commit, H1 in DHPart1/2);                  *)
(*  - hvi/pv: a Diffie-Hellman value; the hvi of a Commit commits to the    *)
(*    Initiator's value and to the Hello it saw, and orders two Commits;    *)
(*  - key: everything the session keys are derived from (message hash, DH   *)
(*    result); a Confirm1/2 is protected with it.                           *)
(* HelloAck and Conf2Ack carry nothing that ties them to a session.         *)
(*                                                                         *)
(* The timers are reduced to "T1 or T2 is active"; what ends a session from *)
(* outside the exchange (ZrtpClose, a failed send, too many retries, a      *)
(* stray timeout) is the one action Abandon.  Versions, algorithms and      *)
(* retained secrets are not told apart.                                     *)
(***************************************************************************)
EXTENDS Naturals, FiniteSets

CONSTANTS
    Peers,         \* the two engines
    Modes,         \* values of multiStream: {FALSE} is DH mode only
    MaxHvi,        \* bound: values drawn by prepareCommit
    MaxChain,      \* bound: ZRtp objects a client creates one after the other
    MaxLosses,     \* bound: packets the network loses
    MaxStarts      \* bound: calls of startZrtpEngine per object

ASSUME HandshakeConstants ==
    /\ IsFiniteSet(Peers) /\ Cardinality(Peers) = 2 /\ Modes \subseteq BOOLEAN
    /\ MaxHvi \in Nat /\ MaxChain \in Nat \ {0} /\ MaxStarts \in Nat /\ MaxLosses \in Nat

VARIABLES
    eng,           \* the engine of each peer
    net,           \* packets on their way
    used,          \* hvi values drawn so far
    losses,        \* packets lost so far
    multiStream    \* both streams run in multi-stream mode

vars == <<eng, net, used, losses, multiStream>>

Other(p) == CHOOSE q \in Peers : q # p

None == [type |-> "None"]      \* a NULL packet
NoKey == <<>>

\* state ... timer: control, as in ZrtpStateClass.  hvi: own value and, with
\* peerChain (peerH3), what prepareCommit left; heard: the Commit accepted as
\* Responder (peerH2, peerHvi); key: the session keys; rx, tx: keys SRTP uses;
\* finishing: Conf2Ack (or, multi-stream, Confirm2) was sent, and the SRTP
\* directions that the same event handler has still to enable.
NewEngine(n) ==
    [state |-> "Initial", sentPacket |-> None, timer |-> FALSE,
     chain |-> n, peerChain |-> 0, hvi |-> 0, heard |-> None, myRole |-> "NoRole",
     key |-> NoKey, rx |-> NoKey, tx |-> NoKey, finishing |-> {},
     nonces |-> {}, starts |-> 0]

Init ==
    /\ eng = [p \in Peers |-> NewEngine(1)]
    /\ net = {} /\ used = {} /\ losses = 0 /\ multiStream \in Modes

-----------------------------------------------------------------------------
(* Packets.                                                                  *)

Hello(p)    == [type |-> "Hello",    to |-> Other(p), chain |-> eng[p].chain]
HelloAck(p) == [type |-> "HelloAck", to |-> Other(p)]
OwnCommit(p) == [type |-> "Commit", to |-> Other(p), chain |-> eng[p].chain,
                 hvi |-> eng[p].hvi, hello |-> eng[p].peerChain]
DHPart(p, n)   == [type |-> n, to |-> Other(p), chain |-> eng[p].chain, pv |-> eng[p].hvi]
Confirm(p, n, key) == [type |-> n, to |-> Other(p), key |-> key]
Plain(p, n) == [type |-> n, to |-> Other(p)]

\* What both sides hash: the Responder's Hello, the Commit, DHPart1, DHPart2.
DHKey(hello, commit, dh1, dh2) == <<hello, commit.chain, commit.hvi, commit.hello,
                                    dh1.chain, dh1.pv, dh2.chain, dh2.pv>>
MultiKey(hello, commit)        == <<hello, commit.chain, commit.hvi>>

-----------------------------------------------------------------------------
(* Steps shared by the handlers.  A step of p changes the fields named in    *)
(* upd and puts the packets out on the network.                              *)

\* The record old with the fields of upd added or replaced.
Override(upd, old) ==
    [f \in (DOMAIN upd) \cup (DOMAIN old) |-> IF f \in DOMAIN upd THEN upd[f] ELSE old[f]]

\* sendPacketZRTP sends nothing for a NULL packet.
Step(p, upd, out) ==
    /\ eng' = [eng EXCEPT ![p] = Override(upd, @)]
    /\ net' = net \cup (out \ {None})
    /\ UNCHANGED <<losses, multiStream>>

\* sendErrorPacket.
SendError(p) ==
    Step(p, [state |-> "WaitErrorAck", sentPacket |-> Plain(p, "Error"), timer |-> TRUE],
         {Plain(p, "Error")})

Resend(p) == Step(p, [timer |-> eng[p].timer], {eng[p].sentPacket})

\* The engine handles one event at a time (synchEnter).
Idle(p, s) == eng[p].state = s /\ eng[p].finishing = {}

\* A packet of type t is there for p, which is in state s.
Receives(p, s, t, m) == Idle(p, s) /\ m \in net /\ m.to = p /\ m.type = t

\* prepareCommit (prepareCommitMultiStream): remember the peer, draw a value.
PrepareCommit(p, m, h) ==
    /\ h \in (1..MaxHvi) \ used /\ used' = used \cup {h}

Prepared(m, h) == [peerChain |-> m.chain, hvi |-> h, myRole |-> "Initiator"]

-----------------------------------------------------------------------------
(* Discovery.                                                                *)

StartZrtp(p) ==
    /\ Idle(p, "Initial") /\ eng[p].starts < MaxStarts
    /\ Step(p, [state |-> "Detect", sentPacket |-> Hello(p), timer |-> TRUE,
                starts |-> eng[p].starts + 1], {Hello(p)})
    /\ UNCHANGED used

\* evDetect: acknowledge, and prepare the Commit we may send later.
HelloInDetect(p, m, h) ==
    /\ Receives(p, "Detect", "Hello", m) /\ PrepareCommit(p, m, h)
    /\ Step(p, Override([state |-> "AckSent", timer |-> TRUE], Prepared(m, h)), {HelloAck(p)})

HelloAckInDetect(p, m) ==
    /\ Receives(p, "Detect", "HelloAck", m)
    /\ Step(p, [state |-> "AckDetected", timer |-> FALSE, sentPacket |-> None], {})
    /\ UNCHANGED used

HelloInAckSent(p, m) ==
    /\ Receives(p, "AckSent", "Hello", m)
    /\ Step(p, [state |-> "AckSent"], {HelloAck(p)}) /\ UNCHANGED used

HelloAckInAckSent(p, m) ==
    /\ Receives(p, "AckSent", "HelloAck", m)
    /\ Step(p, [state |-> "CommitSent", sentPacket |-> OwnCommit(p), timer |-> TRUE],
            {OwnCommit(p)})
    /\ UNCHANGED used

HelloInAckDetected(p, m, h) ==
    /\ Receives(p, "AckDetected", "Hello", m) /\ PrepareCommit(p, m, h)
    /\ Step(p, Override([state |-> "WaitCommit", sentPacket |-> HelloAck(p)], Prepared(m, h)),
            {HelloAck(p)})

HelloInWaitCommit(p, m) ==
    Receives(p, "WaitCommit", "Hello", m) /\ Resend(p) /\ UNCHANGED used

-----------------------------------------------------------------------------
(* Key agreement.                                                            *)

\* prepareDHPart1: become Responder.
AnswerCommitDH(p, m) ==
    Step(p, [state |-> "WaitDHPart2", timer |-> FALSE, heard |-> m, myRole |-> "Responder",
             sentPacket |-> DHPart(p, "DHPart1")], {DHPart(p, "DHPart1")})

\* prepareConfirm1MultiStream: the keys follow from the Commit alone.  A nonce
\* that the master stream has seen is refused.
AnswerCommitMulti(p, m) ==
    LET key == MultiKey(eng[p].chain, m)
    IN  IF m.hvi \in eng[p].nonces THEN SendError(p)
        ELSE Step(p, [state |-> "WaitConfirm2", timer |-> FALSE, heard |-> m,
                      myRole |-> "Responder", key |-> key,
                      nonces |-> eng[p].nonces \cup {m.hvi},
                      sentPacket |-> Confirm(p, "Confirm1", key)],
                  {Confirm(p, "Confirm1", key)})

AnswerCommit(p, m) == IF multiStream THEN AnswerCommitMulti(p, m) ELSE AnswerCommitDH(p, m)

\* evAckSent, evWaitCommit.  A Commit of another hash chain is ignored, after
\* evAckSent has cancelled the Hello timer.
CommitWhileWaiting(p, m) ==
    /\ Receives(p, "AckSent", "Commit", m) \/ Receives(p, "WaitCommit", "Commit", m)
    /\ IF m.chain = eng[p].peerChain THEN AnswerCommit(p, m) ELSE Step(p, [timer |-> FALSE], {})
    /\ UNCHANGED used

\* evCommitSent: both sides sent a Commit; the smaller hvi gives way
\* (verifyH2, compareCommit).
CommitClash(p, m) ==
    /\ Receives(p, "CommitSent", "Commit", m) /\ m.chain = eng[p].peerChain
    /\ IF eng[p].hvi < m.hvi THEN AnswerCommit(p, m) ELSE Step(p, [timer |-> TRUE], {})
    /\ UNCHANGED used

\* prepareDHPart2.  A DHPart1 of another hash chain is ignored, after evCommitSent
\* has forgotten the Commit it could repeat.
RecvDHPart1(p, m) ==
    LET dhPart2 == DHPart(p, "DHPart2")
    IN  /\ Receives(p, "CommitSent", "DHPart1", m)
        /\ IF m.chain = eng[p].peerChain
           THEN Step(p, [state |-> "WaitConfirm1", sentPacket |-> dhPart2, timer |-> TRUE,
                         key |-> DHKey(eng[p].peerChain, OwnCommit(p), m, dhPart2)], {dhPart2})
           ELSE Step(p, [sentPacket |-> None, timer |-> TRUE], {})
        /\ UNCHANGED used

CommitInWaitDHPart2(p, m) ==
    Receives(p, "WaitDHPart2", "Commit", m) /\ Resend(p) /\ UNCHANGED used

\* prepareConfirm1: the value must be the one committed to, and the Hello it was
\* committed with must be ours.
RecvDHPart2(p, m) ==
    LET c   == eng[p].heard
        key == DHKey(eng[p].chain, c, DHPart(p, "DHPart1"), m)
    IN  /\ Receives(p, "WaitDHPart2", "DHPart2", m) /\ m.chain = c.chain
        /\ IF m.pv = c.hvi /\ c.hello = eng[p].chain
           THEN Step(p, [state |-> "WaitConfirm2", key |-> key,
                         sentPacket |-> Confirm(p, "Confirm1", key)],
                     {Confirm(p, "Confirm1", key)})
           ELSE SendError(p)
        /\ UNCHANGED used

\* Mutant of Confirm1InWaitConfirm1: the HMAC of the Confirm1 is not checked.
Confirm1Unchecked(p, m) ==
    /\ Receives(p, "WaitConfirm1", "Confirm1", m)
    /\ Step(p, [state |-> "WaitConfAck", rx |-> eng[p].key, timer |-> TRUE,
                sentPacket |-> Confirm(p, "Confirm2", eng[p].key)],
            {Confirm(p, "Confirm2", eng[p].key)})
    /\ UNCHANGED used

\* Mutant of Confirm1InWaitConfirm1: the Initiator does not wait for Conf2Ack.
Confirm1GoesSecure(p, m) ==
    /\ Receives(p, "WaitConfirm1", "Confirm1", m) /\ m.key = eng[p].key
    /\ Step(p, [state |-> "SecureState", rx |-> eng[p].key, tx |-> eng[p].key, timer |-> FALSE,
                sentPacket |-> Confirm(p, "Confirm2", eng[p].key)],
            {Confirm(p, "Confirm2", eng[p].key)})
    /\ UNCHANGED used

\* prepareConfirm2: enable the receiver, then send Confirm2.
Confirm1InWaitConfirm1(p, m) ==
    /\ Receives(p, "WaitConfirm1", "Confirm1", m)
    /\ IF m.key = eng[p].key
       THEN Step(p, [state |-> "WaitConfAck", rx |-> eng[p].key, timer |-> TRUE,
                     sentPacket |-> Confirm(p, "Confirm2", eng[p].key)],
                 {Confirm(p, "Confirm2", eng[p].key)})
       ELSE SendError(p)
    /\ UNCHANGED used

\* prepareConfirm2MultiStream: send Confirm2, then enable the receiver.
Confirm1InCommitSent(p, m) ==
    LET key == MultiKey(eng[p].peerChain, OwnCommit(p))
    IN  /\ multiStream /\ Receives(p, "CommitSent", "Confirm1", m)
        /\ IF m.key = key
           THEN Step(p, [state |-> "WaitConfAck", key |-> key, timer |-> TRUE,
                         myRole |-> "Initiator", finishing |-> {"ForReceiver"},
                         sentPacket |-> Confirm(p, "Confirm2", key)],
                     {Confirm(p, "Confirm2", key)})
           ELSE SendError(p)
        /\ UNCHANGED used

\* Mutant of RepeatedInWaitConfirm2: a repeated Commit is answered afresh.
RepeatedAnsweredAfresh(p, m) ==
    /\ multiStream /\ Receives(p, "WaitConfirm2", "Commit", m)
    /\ AnswerCommitMulti(p, m) /\ UNCHANGED used

\* evWaitConfirm2: the peer missed our Confirm1.
RepeatedInWaitConfirm2(p, m) ==
    /\ \/ Receives(p, "WaitConfirm2", "DHPart2", m)
       \/ multiStream /\ Receives(p, "WaitConfirm2", "Commit", m)
    /\ Resend(p) /\ UNCHANGED used

\* prepareConf2Ack: send Conf2Ack, then enable both directions.
Confirm2InWaitConfirm2(p, m) ==
    /\ Receives(p, "WaitConfirm2", "Confirm2", m)
    /\ IF m.key = eng[p].key
       THEN Step(p, [finishing |-> {"ForReceiver", "ForSender"},
                     sentPacket |-> Plain(p, "Conf2Ack")], {Plain(p, "Conf2Ack")})
       ELSE SendError(p)
    /\ UNCHANGED used

\* Mutant of EnableSrtp: only the sender is enabled.
EnableSender(p) ==
    /\ eng[p].finishing # {}
    /\ IF "ForSender" \in eng[p].finishing
       THEN Step(p, [finishing |-> {}, tx |-> eng[p].key, state |-> "SecureState"], {})
       ELSE Step(p, [finishing |-> {}], {})
    /\ UNCHANGED used

\* The rest of the two handlers that send before they enable SRTP.
EnableSrtp(p) ==
    /\ eng[p].finishing # {}
    /\ IF "ForSender" \in eng[p].finishing
       THEN Step(p, [finishing |-> {}, rx |-> eng[p].key, tx |-> eng[p].key,
                     state |-> "SecureState"], {})
       ELSE Step(p, [finishing |-> {}, rx |-> eng[p].key], {})
    /\ UNCHANGED used

Confirm2InSecure(p, m) ==
    Receives(p, "SecureState", "Confirm2", m) /\ Resend(p) /\ UNCHANGED used

\* evWaitConfAck.  conf2AckSecure: the first SRTP packet that our keys open
\* stands for a Conf2Ack.
RecvConf2Ack(p) ==
    /\ Idle(p, "WaitConfAck")
    /\ \/ Plain(Other(p), "Conf2Ack") \in net
       \/ eng[Other(p)].tx # NoKey /\ eng[Other(p)].tx = eng[p].rx
    /\ Step(p, [state |-> "SecureState", tx |-> eng[p].key, timer |-> FALSE,
                sentPacket |-> None], {})
    /\ UNCHANGED used

-----------------------------------------------------------------------------
(* Errors, timeouts, the end of a session, the network.                      *)

\* What remains of SRTP when the engine returns to Initial.
Ended(p) ==
    [state |-> "Initial", sentPacket |-> None, timer |-> FALSE,
     rx |-> IF eng[p].state \in {"SecureState", "WaitConfAck"} THEN NoKey ELSE eng[p].rx,
     tx |-> IF eng[p].state = "SecureState" THEN NoKey ELSE eng[p].tx]

\* An Error packet is acknowledged in every state; a secure stream survives it.
RecvError(p, m) ==
    /\ m \in net /\ m.to = p /\ m.type = "Error" /\ eng[p].finishing = {}
    /\ Step(p, IF eng[p].state \in {"Initial", "SecureState"} THEN [timer |-> FALSE]
               ELSE Ended(p), {Plain(p, "ErrorAck")})
    /\ UNCHANGED used

RecvErrorAck(p, m) ==
    /\ Receives(p, "WaitErrorAck", "ErrorAck", m)
    /\ Step(p, [state |-> "Initial", sentPacket |-> None, timer |-> FALSE], {})
    /\ UNCHANGED used

\* Mutant of Timeout: Confirm2 is not repeated.
TimeoutNotInWaitConfAck(p) ==
    /\ eng[p].timer /\ eng[p].finishing = {} /\ eng[p].sentPacket # None
    /\ eng[p].state # "WaitConfAck"
    /\ Resend(p) /\ UNCHANGED used

\* A timeout resends the last packet; the Hello timer may also give up, which
\* leaves the engine in Detect, listening.
Timeout(p) ==
    /\ eng[p].timer /\ eng[p].finishing = {} /\ eng[p].sentPacket # None
    /\ Resend(p) /\ UNCHANGED used

HelloGivesUp(p) ==
    /\ eng[p].timer /\ eng[p].state \in {"Detect", "AckSent"}
    /\ Step(p, [state |-> "Detect", timer |-> FALSE], {eng[p].sentPacket})
    /\ UNCHANGED used

\* ZrtpClose, a failed send, too many retries, a stray timeout.
Abandon(p) ==
    /\ eng[p].state # "Initial" /\ eng[p].finishing = {}
    /\ Step(p, Ended(p), {}) /\ UNCHANGED used

\* The client deletes its ZRtp object and creates another one.
NewObject(p) ==
    /\ eng[p].chain < MaxChain /\ eng[p].finishing = {}
    /\ Step(p, [NewEngine(eng[p].chain + 1) EXCEPT !.rx = Ended(p).rx, !.tx = Ended(p).tx], {})
    /\ UNCHANGED used

\* Packets stay on the network until they are lost, so they may arrive again, in
\* any order, or never.
Lose(m) ==
    /\ losses < MaxLosses /\ losses' = losses + 1
    /\ net' = net \ {m} /\ UNCHANGED <<eng, used, multiStream>>

-----------------------------------------------------------------------------

Deliver(p, m) ==
    \/ \E h \in 1..MaxHvi : HelloInDetect(p, m, h) \/ HelloInAckDetected(p, m, h)
    \/ HelloAckInDetect(p, m) \/ HelloInAckSent(p, m) \/ HelloAckInAckSent(p, m)
    \/ HelloInWaitCommit(p, m) \/ CommitWhileWaiting(p, m) \/ CommitClash(p, m)
    \/ RecvDHPart1(p, m) \/ CommitInWaitDHPart2(p, m) \/ RecvDHPart2(p, m)
    \/ Confirm1InWaitConfirm1(p, m) \/ Confirm1InCommitSent(p, m)
    \/ RepeatedInWaitConfirm2(p, m) \/ Confirm2InWaitConfirm2(p, m)
    \/ Confirm2InSecure(p, m)
    \/ RecvError(p, m) \/ RecvErrorAck(p, m)

\* The exchange itself, and what disturbs it.
Exchange(p) ==
    \/ \E m \in net : Deliver(p, m)
    \/ StartZrtp(p) \/ RecvConf2Ack(p) \/ EnableSrtp(p) \/ Timeout(p)

Disturb(p) == HelloGivesUp(p) \/ Abandon(p) \/ NewObject(p)

\* Nobody gives up, and no client stops: only the network is unreliable.
UndisturbedNext ==
    \/ \E p \in Peers : Exchange(p)
    \/ \E m \in net : Lose(m)

Next == UndisturbedNext \/ \E p \in Peers : Disturb(p)

Spec == Init /\ [][Next]_vars

\* Engines, their timers and their clients do not stop, and a packet that is
\* there arrives.
FairSpec ==
    /\ Init /\ [][UndisturbedNext]_vars
    /\ \A p \in Peers : WF_vars(Exchange(p))

-----------------------------------------------------------------------------
(* Properties.                                                               *)

\* Engines and packets are of the kinds the code has: every packet sent is a
\* packet (never NULL) and is addressed to the other side; role and keys are set
\* together.
TypeOK ==
    /\ \A p \in Peers :
         /\ eng[p].chain \in 1..MaxChain /\ eng[p].peerChain \in 0..MaxChain
         /\ eng[p].hvi \in 0..MaxHvi /\ eng[p].starts \in 0..MaxStarts
         /\ eng[p].myRole \in {"NoRole", "Initiator", "Responder"}
         /\ eng[p].finishing \subseteq {"ForReceiver", "ForSender"}
         /\ eng[p].sentPacket # None => eng[p].sentPacket.to = Other(p)
         /\ eng[p].key # NoKey => eng[p].myRole # "NoRole"
    /\ None \notin net /\ \A m \in net : m.to \in Peers
    /\ used \subseteq 1..MaxHvi /\ losses \in 0..MaxLosses /\ multiStream \in Modes

Secure(p) == eng[p].state = "SecureState"

\* Two secure engines use the same keys, each in its own role: no loss,
\* repetition or reordering of packets, commit clash, restart, or packet of an
\* earlier session makes them believe in different ones.
KeysAgree ==
    \A p \in Peers : Secure(p) /\ Secure(Other(p)) =>
        /\ eng[p].key = eng[Other(p)].key
        /\ eng[p].myRole # eng[Other(p)].myRole
        /\ eng[p].tx = eng[Other(p)].rx

\* Undisturbed, nobody sends SRTP that its peer cannot open: whoever enables
\* its sender has a peer whose receiver is enabled with the same keys, or is
\* about to be by the event handler that is running.
MediaDecodable ==
    \A p \in Peers : eng[p].tx # NoKey =>
        LET q == eng[Other(p)]
        IN  q.rx = eng[p].tx \/ ("ForReceiver" \in q.finishing /\ q.key = eng[p].tx)

\* Undisturbed, no check of ZRtp::prepare*() raises a false alarm.
NoFalseAlarm == \A p \in Peers : eng[p].state # "WaitErrorAck"

\* Undisturbed, and with a network that does not lose everything, both engines
\* become and stay secure.
BothSecure == <>[](\A p \in Peers : Secure(p))

-----------------------------------------------------------------------------
(* The exchange implements KeyAgreement.                                     *)

\* Keys that the hashes can produce.
Keys ==
    LET C == 1..MaxChain H == 1..MaxHvi
    IN  (C \X C \X H \X C \X C \X H \X C \X H) \cup (C \X C \X H)

Stage(p) ==
    IF eng[p].key = NoKey THEN "open"
    ELSE IF Secure(p) \/ "ForSender" \in eng[p].finishing THEN "secure"
    ELSE IF eng[p].state = "WaitConfAck" THEN "confirmed" ELSE "keyed"

Agreement == INSTANCE KeyAgreement WITH
    stage <- [p \in Peers |-> Stage(p)],
    key   <- [p \in Peers |-> eng[p].key],
    role  <- [p \in Peers |-> IF eng[p].key = NoKey THEN "NoRole" ELSE eng[p].myRole]

\* Undisturbed, and over a network that loses, repeats and reorders packets, the
\* exchange does what KeyAgreement says: discovery, commit clashes and repeated
\* packets are invisible in it, every step that computes a key or goes secure is
\* one of its steps, in its order, and it does not stop before the last one.
ImplementsKeyAgreement == Agreement!FairSpec
=============================================================================
