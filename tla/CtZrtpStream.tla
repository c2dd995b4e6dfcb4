---------------------------- MODULE CtZrtpStream ----------------------------
(***************************************************************************)
(* The Tivi client's stream (CtZrtpStream) at both ends of a call, and the  *)
(* SDES stream it may own (ZrtpSdesStream): which protections a media       *)
(* packet gets and sheds, and whether ZRTP travels in the SDES tunnel, while *)
(* SIP signaling, the ZRTP exchange and media race each other.              *)
(*                                                                         *)
(* Four threads use a stream: the application's, which signals; the one     *)
(* that receives RTP and ZRTP; the one that sends RTP; and the timer's.      *)
(* Only the engine and setSignalingHelloHash take the stream's lock.  What   *)
(* the others do to the shared flags is cut where one of them reads or       *)
(* writes what another one writes.                                          *)
(*                                                                         *)
(* A media packet is the set of SRTP layers around it: "sdes" inside,       *)
(* "zrtp" outside.  ZRTP is reduced to the packets that make the engine     *)
(* call the stream back; an end repeats the last one it sent, and packets   *)
(* may be lost, repeated and, between media and ZRTP, reordered             *)
(* (ZrtpHandshake has the exchange itself).                                 *)
(***************************************************************************)
EXTENDS Integers, FiniteSets

CONSTANTS
    Calls,         \* what the two ends may advertise in SDP, and discriminatorMode
    MaxMedia,      \* media packets on their way
    MaxMishaps     \* preempted threads, forced resets, bad crypto strings and packets

Ends == {"inviter", "answerer"}
Other(e) == CHOOSE o \in Ends : o # e

Hashes == {"good", "other"}      \* of the Hello sent, of another one
Attributes == [sdes : BOOLEAN, encap : BOOLEAN, hashes : SUBSET Hashes]
NoPacket == [type |-> "None", tunneled |-> FALSE]

ASSUME StreamConstants ==
    /\ Calls \subseteq [sdp : [Ends -> Attributes], discriminatorMode : BOOLEAN]
    /\ MaxMedia \in Nat /\ MaxMishaps \in Nat

VARIABLES
    sdp,           \* what each end advertises
    call,          \* SIP: "idle", "offered", "answered"
    todo,          \* SDP attributes the application of an end has still to hand over
    parsing,       \* where the application is in parseSdes
    st,            \* the stream of each end
    pkt,           \* the last ZRTP packet each end sent
    testing,       \* where the receiving thread is with a ZRTP packet that is not tunneled
    media,         \* media packets on their way
    sending,       \* the sending thread has seen no sendSrtp
    exception,     \* onDiscriminatorException was called: the call must be dropped
    undone,        \* history: what a thread took back that another one had set
    mishaps,       \* how often what MaxMishaps bounds has happened
    discriminatorMode

sip == <<sdp, call, todo>>
rtp == <<testing, media, sending>>
vars == <<sip, parsing, st, pkt, rtp, exception, undone, mishaps, discriminatorMode>>

\* sdes: state of the ZrtpSdesStream; hashes: peerHelloHashes; peerHello: the
\* engine has the peer's Hello; eng: its state ("Quiet" is Detect after the timer
\* gave up, "Failed" is WaitErrorAck or Initial after a failure, and Switching);
\* send, recv: sendSrtp and recvSrtp exist.
NewStream ==
    [sdes |-> "none", useSdesForMedia |-> FALSE, useZrtpTunnel |-> FALSE,
     zrtpEncapSignaled |-> FALSE, hashes |-> {}, zrtpHashMatch |-> FALSE,
     peerHello |-> FALSE, eng |-> "Initial", send |-> FALSE, recv |-> FALSE, tiviState |-> "eLookingPeer"]

Init ==
    /\ \E c \in Calls : sdp = c.sdp /\ discriminatorMode = c.discriminatorMode
    /\ call = "idle" /\ todo = [e \in Ends |-> {}]
    /\ parsing = [e \in Ends |-> "idle"]
    /\ st = [e \in Ends |-> NewStream]
    /\ pkt = [e \in Ends |-> NoPacket]
    /\ testing = [e \in Ends |-> "no"]
    /\ media = {}
    /\ sending = [e \in Ends |-> FALSE]
    /\ exception = [e \in Ends |-> FALSE]
    /\ undone = [e \in Ends |-> {}]
    /\ mishaps = 0

Update(e, upd) == st' = [st EXCEPT ![e] = [f \in DOMAIN @ |-> IF f \in DOMAIN upd THEN upd[f] ELSE @[f]]]

Mishap == mishaps < MaxMishaps /\ mishaps' = mishaps + 1

\* Note that e takes back what was set for good.
TakeBack(e, what, cond) == undone' = IF cond THEN [undone EXCEPT ![e] = @ \cup {what}] ELSE undone

isSecure(e) == st[e].tiviState \in {"eSecure", "eSecureSdes"}
isSdesActive(e) == st[e].sdes = "active"

\* onDiscriminatorException, called only in discriminator mode.
Raise(e, cond) == exception' = [exception EXCEPT ![e] = @ \/ (discriminatorMode /\ cond)]

-----------------------------------------------------------------------------
(* Signaling: the application creates the offer and hands over, one by one,  *)
(* the attributes that it finds in the peer's SDP.                           *)

\* createSdes, called for an INVITE.
CreateSdes ==
    /\ call = "idle" /\ sdp["inviter"].sdes
    /\ ~isSecure("inviter") /\ st["inviter"].sdes = "none"
    /\ Update("inviter", [sdes |-> "outReady"])
    /\ UNCHANGED <<sip, parsing, pkt, rtp, exception, undone, mishaps, discriminatorMode>>

Advertised(e, crypto) ==
    (IF crypto THEN {"crypto"} ELSE {}) \cup (IF sdp[e].encap THEN {"encap"} ELSE {})
    \cup sdp[e].hashes

Invite ==
    /\ call = "idle" /\ (sdp["inviter"].sdes => st["inviter"].sdes # "none")
    /\ call' = "offered"
    /\ todo' = [todo EXCEPT !["answerer"] = Advertised("inviter", sdp["inviter"].sdes)]
    /\ UNCHANGED <<sdp, parsing, st, pkt, rtp, exception, undone, mishaps, discriminatorMode>>

Answer ==
    /\ call = "offered" /\ todo["answerer"] = {} /\ parsing["answerer"] = "idle"
    /\ call' = "answered"
    /\ todo' = [todo EXCEPT !["inviter"] = Advertised("answerer", isSdesActive("answerer"))]
    /\ UNCHANGED <<sdp, parsing, st, pkt, rtp, exception, undone, mishaps, discriminatorMode>>

HandedOver(e, a) ==
    /\ parsing[e] = "idle" /\ a \in todo[e]
    /\ todo' = [todo EXCEPT ![e] = @ \ {a}]

\* parseSdes holds no lock.  It tests whether there is something to do and makes
\* an SDES stream if there is none.
ParseTest(e) ==
    /\ HandedOver(e, "crypto")
    /\ IF isSecure(e) \/ isSdesActive(e) \/ ~sdp[e].sdes THEN UNCHANGED <<st, parsing>>
       ELSE /\ Update(e, [sdes |-> IF st[e].sdes = "none" THEN "initialized" ELSE st[e].sdes])
            /\ parsing' = [parsing EXCEPT ![e] = "tested"]
    /\ UNCHANGED <<sdp, call, pkt, rtp, exception, undone, mishaps, discriminatorMode>>

ParseStep(e, from, to, upd) ==
    /\ parsing[e] = from /\ parsing' = [parsing EXCEPT ![e] = to]
    /\ Update(e, upd)
    /\ UNCHANGED <<sip, pkt, rtp, exception, discriminatorMode>>

\* ZrtpSdesStream::parseSdes: the inviter has created its crypto string, the
\* answerer starts from a new SDES stream, and creates its own in the same call.
ExpectsCrypto(e) == st[e].sdes = IF e = "inviter" THEN "outReady" ELSE "initialized"

ParseCrypto(e) ==
    /\ ExpectsCrypto(e)
    /\ ParseStep(e, "tested", "parsed", [sdes |-> "active"]) /\ UNCHANGED <<undone, mishaps>>

NoSdes == [sdes |-> "none", useSdesForMedia |-> FALSE, useZrtpTunnel |-> FALSE]

\* cleanup: no crypto string is expected, or it does not parse, or the answer has
\* another tag or suite than the offer.
ParseRefused(e) ==
    /\ ParseStep(e, "tested", "idle", NoSdes)
    /\ IF ExpectsCrypto(e) THEN Mishap ELSE UNCHANGED mishaps
    /\ UNCHANGED undone

\* The user is told, ...
ParseTell(e) ==
    ParseStep(e, "parsed", "told", [tiviState |-> "eSecureSdes"]) /\ UNCHANGED <<undone, mishaps>>

\* ZRTP/SRTP is on and a zrtp-hash is known: SDES is given up.
GivenUp(e) == st[e].send /\ st[e].eng # "SendOn" /\ st[e].hashes # {}

\* ... then SDES is used, ...
ParseMedia(e) ==
    /\ ParseStep(e, "told", IF st[e].zrtpEncapSignaled THEN "media" ELSE "idle", [useSdesForMedia |-> TRUE])
    /\ TakeBack(e, "media", GivenUp(e)) /\ UNCHANGED mishaps

\* ... and the tunnel.
ParseTunnel(e) ==
    ParseStep(e, "media", "idle", [useZrtpTunnel |-> TRUE]) /\ UNCHANGED <<undone, mishaps>>

ParseSdes(e) ==
    \/ ParseTest(e) \/ ParseCrypto(e) \/ ParseRefused(e)
    \/ ParseTell(e) \/ ParseMedia(e) \/ ParseTunnel(e)

\* Mutant of SetZrtpEncapAttribute: only remember the attribute.
SetZrtpEncapLater(e) ==
    /\ HandedOver(e, "encap")
    /\ Update(e, [zrtpEncapSignaled |-> TRUE])
    /\ UNCHANGED <<sdp, call, parsing, pkt, rtp, exception, undone, mishaps, discriminatorMode>>

\* Mutant of SetZrtpEncapAttribute: start the tunnel whether or not there is SDES.
SetZrtpEncapAtOnce(e) ==
    /\ HandedOver(e, "encap")
    /\ Update(e, [zrtpEncapSignaled |-> TRUE, useZrtpTunnel |-> TRUE])
    /\ UNCHANGED <<sdp, call, parsing, pkt, rtp, exception, undone, mishaps, discriminatorMode>>

\* No lock either, but what other threads do between its test of useSdesForMedia
\* and its write of useZrtpTunnel they could as well do before the test or after.
SetZrtpEncapAttribute(e) ==
    /\ HandedOver(e, "encap")
    /\ Update(e, [zrtpEncapSignaled |-> TRUE,
                  useZrtpTunnel |-> st[e].useZrtpTunnel \/ st[e].useSdesForMedia])
    /\ UNCHANGED <<sdp, call, parsing, pkt, rtp, exception, undone, mishaps, discriminatorMode>>

\* The engine is on its way from Conf2Ack to SecureState, in a handler that has the
\* lock: recvSrtp and sendSrtp still off, sendSrtp still off, both on.
Switching == {"Finishing", "RecvOn", "SendOn"}

\* Mutant of SetSignalingHelloHash: leave the comparison to InfoHelloReceived.
SetSignalingHelloHashOnly(e, h) ==
    /\ HandedOver(e, h) /\ st[e].eng \notin Switching
    /\ Update(e, [hashes |-> st[e].hashes \cup {h}])
    /\ UNCHANGED <<sdp, call, parsing, pkt, rtp, exception, undone, mishaps, discriminatorMode>>

SetSignalingHelloHash(e, h) ==
    LET hashes == st[e].hashes \cup {h}
        match  == st[e].peerHello /\ "good" \in hashes
    IN  /\ HandedOver(e, h) /\ st[e].eng \notin Switching
        /\ Update(e, [hashes |-> hashes, zrtpHashMatch |-> st[e].zrtpHashMatch \/ match,
                      useSdesForMedia |-> st[e].useSdesForMedia /\
                          ~(match /\ st[e].sdes # "none" /\ st[e].send /\ st[e].recv)])
        /\ Raise(e, st[e].peerHello /\ ~st[e].zrtpHashMatch /\ ~match)
        /\ UNCHANGED <<sdp, call, parsing, pkt, rtp, undone, mishaps, discriminatorMode>>

\* resetSdesContext(false) drops a context that is half open, resetSdesContext(true)
\* also an active one.
ResetSdesContext(e) ==
    /\ call # "idle" /\ parsing[e] = "idle" /\ st[e].sdes # "none"
    /\ Update(e, NoSdes)
    /\ TakeBack(e, "sdes", isSdesActive(e))
    /\ IF isSdesActive(e) THEN Mishap ELSE UNCHANGED mishaps
    /\ UNCHANGED <<sip, parsing, pkt, rtp, exception, discriminatorMode>>

-----------------------------------------------------------------------------
(* ZRTP.  An engine runs under its lock, a handler is one step, except where  *)
(* its callbacks switch SRTP on, which the RTP threads see at once.           *)

\* sendDataZRTP: in the tunnel, or plain unless in discriminator mode.
CanSend(e) == st[e].useZrtpTunnel \/ ~discriminatorMode
Packet(e, type) == [type |-> type, tunneled |-> st[e].useZrtpTunnel]

\* The receiving thread is not in the middle of a packet.
Receiving(e) == testing[e] # "plain" /\ st[e].eng \notin Switching

\* The part of processIncomingRtp that lets a ZRTP packet through to the engine:
\* the SDES tunnel authenticates it, or its CRC must be right.
Readable(e, m) ==
    /\ Receiving(e)
    /\ IF testing[e] = "passed" THEN ~m.tunneled
       ELSE m.tunneled = st[e].useZrtpTunnel /\ (discriminatorMode => m.tunneled)

\* Usually nothing comes between its test of useZrtpTunnel and the engine's lock; the
\* thread may be preempted in between, once the test has found no tunnel, ...
TestTunnel(e) ==
    /\ Receiving(e) /\ testing[e] = "no" /\ Mishap
    /\ \A f \in Ends : pkt[f] # NoPacket
    /\ ~st[e].useZrtpTunnel /\ ~discriminatorMode
    /\ testing' = [testing EXCEPT ![e] = "plain"]
    /\ UNCHANGED <<sip, parsing, st, pkt, media, sending, exception, undone, discriminatorMode>>

\* ... and then clears it again, whatever the application has set.
ClearTunnel(e) ==
    /\ testing[e] = "plain" /\ testing' = [testing EXCEPT ![e] = "passed"]
    /\ Update(e, [useZrtpTunnel |-> FALSE])
    /\ TakeBack(e, "tunnel", st[e].useZrtpTunnel)
    /\ UNCHANGED <<sip, parsing, pkt, media, sending, exception, mishaps, discriminatorMode>>

\* The packet has a bad CRC, or the engine does not expect it.
DropPacket(e) ==
    /\ testing[e] = "passed" /\ testing' = [testing EXCEPT ![e] = "no"]
    /\ UNCHANGED <<sip, parsing, st, pkt, media, sending, exception, undone, mishaps, discriminatorMode>>

\* e, in one of the states, gets the packet and answers it.  Where a packet got in
\* the answer can be sent: Readable(e, m) implies CanSend(e).
Handle(e, states, type, upd, answer) ==
    /\ st[e].eng \in states
    /\ pkt[Other(e)].type = type /\ Readable(e, pkt[Other(e)])
    /\ Update(e, upd)
    /\ pkt' = IF answer = "None" THEN pkt ELSE [pkt EXCEPT ![e] = Packet(e, answer)]
    /\ testing' = [testing EXCEPT ![e] = "no"]
    /\ UNCHANGED <<sip, parsing, media, sending, undone, discriminatorMode>>

\* CtZrtpSession::start of the master stream.
Start(e) ==
    /\ st[e].eng = "Initial" /\ pkt[e] = NoPacket /\ ~exception[e] /\ parsing[e] = "idle"
    /\ IF CanSend(e)
       THEN /\ Update(e, [eng |-> "Detect", tiviState |-> "eLookingPeer"])
            /\ pkt' = [pkt EXCEPT ![e] = Packet(e, "Hello")] /\ UNCHANGED exception
       ELSE /\ Update(e, [tiviState |-> "eLookingPeer"])
            /\ exception' = [exception EXCEPT ![e] = TRUE] /\ UNCHANGED pkt
    /\ UNCHANGED <<sip, parsing, rtp, undone, mishaps, discriminatorMode>>

\* prepareCommit and, in sendInfo, InfoHelloReceived.
RecvHello(e) ==
    LET match == st[e].zrtpHashMatch \/ "good" \in st[e].hashes
    IN  /\ Handle(e, {"Detect", "Quiet"}, "Hello",
                  [eng |-> "AckSent", peerHello |-> TRUE, zrtpHashMatch |-> match], "Hello")
        /\ Raise(e, st[e].hashes # {} /\ ~match) /\ UNCHANGED mishaps

\* HelloAck, which the peer sends for every Hello: send the Commit.
RecvHelloAck(e) ==
    /\ st[e].eng = "AckSent" /\ st[Other(e)].peerHello
    /\ Readable(e, Packet(Other(e), "HelloAck"))
    /\ Update(e, [eng |-> "CommitSent"])
    /\ pkt' = [pkt EXCEPT ![e] = Packet(e, "Commit")]
    /\ testing' = [testing EXCEPT ![e] = "no"]
    /\ UNCHANGED <<sip, parsing, media, sending, exception, undone, mishaps, discriminatorMode>>

\* InfoRespCommitReceived, InfoInitDH1Received in sendInfo.
GoingSecure(e) ==
    IF discriminatorMode /\ st[e].hashes = {} THEN st[e].tiviState ELSE "eGoingSecure"

\* The peer's Commit, also one that wins over e's own.
RecvCommit(e) ==
    /\ Handle(e, {"AckSent", "CommitSent"}, "Commit",
              [eng |-> "WaitDHPart2", tiviState |-> GoingSecure(e)], "DHPart1")
    /\ Raise(e, st[e].hashes = {}) /\ UNCHANGED mishaps

RecvDHPart1(e) ==
    /\ Handle(e, {"CommitSent"}, "DHPart1",
              [eng |-> "WaitConfirm1", tiviState |-> GoingSecure(e)], "DHPart2")
    /\ Raise(e, st[e].hashes = {}) /\ UNCHANGED mishaps

RecvDHPart2(e) ==
    /\ Handle(e, {"WaitDHPart2"}, "DHPart2", [eng |-> "WaitConfirm2"], "Confirm1")
    /\ UNCHANGED <<exception, mishaps>>

\* srtpSecretsReady(ForReceiver): sendSrtp does not exist yet.
RecvConfirm1(e) ==
    /\ Handle(e, {"WaitConfirm1"}, "Confirm1", [eng |-> "WaitConfAck", recv |-> TRUE], "Confirm2")
    /\ UNCHANGED <<exception, mishaps>>

RecvConfirm2(e) ==
    /\ Handle(e, {"WaitConfirm2"}, "Confirm2", [eng |-> "Finishing"], "Conf2Ack")
    /\ UNCHANGED <<exception, mishaps>>

\* srtpSecretsReady(ForSender) makes sendSrtp.
SendOn == [eng |-> "SendOn", send |-> TRUE]

RecvConf2Ack(e) ==
    Handle(e, {"WaitConfAck"}, "Conf2Ack", SendOn, "None") /\ UNCHANGED <<exception, mishaps>>

Switch(e, from, upd) ==
    /\ st[e].eng = from /\ Update(e, upd)
    /\ UNCHANGED <<sip, parsing, pkt, rtp, exception, undone, mishaps, discriminatorMode>>

\* The Responder has sent Conf2Ack: srtpSecretsReady(ForReceiver), then (ForSender).
RecvOn(e) == Switch(e, "Finishing", [eng |-> "RecvOn", recv |-> TRUE])
SenderOn(e) == Switch(e, "RecvOn", SendOn)

\* The end of srtpSecretsReady with both directions on, srtpSecretsOn and, in the
\* engine, SecureState.
SecureOn(e) ==
    Switch(e, "SendOn", [eng |-> "Secure", tiviState |-> "eSecure",
                         useSdesForMedia |-> st[e].useSdesForMedia /\ st[e].hashes = {}])

\* The Initiator's timer, and the Responder's answer to a repeated packet.
Resend(e) ==
    /\ \/ st[e].eng \in {"Detect", "AckSent", "CommitSent", "WaitConfirm1", "WaitConfAck"}
       \/ /\ st[e].eng \in {"WaitDHPart2", "WaitConfirm2", "Secure"}
          /\ Readable(e, pkt[Other(e)])
    /\ CanSend(e) /\ pkt[e].tunneled # st[e].useZrtpTunnel
    /\ pkt' = [pkt EXCEPT ![e].tunneled = st[e].useZrtpTunnel]
    /\ UNCHANGED <<sip, parsing, st, rtp, exception, undone, mishaps, discriminatorMode>>

\* Mutant of NotSuppOther: any SDES context will do.
NotSuppOtherHalfOpen(e) ==
    /\ st[e].eng \in {"Detect", "AckSent"}
    /\ Update(e, [eng |-> "Quiet",
                  tiviState |-> IF st[e].sdes # "none" THEN "eSecureSdes" ELSE "eNoPeer"])
    /\ UNCHANGED <<sip, parsing, pkt, rtp, exception, undone, mishaps, discriminatorMode>>

\* Too many Hellos without an answer: zrtpNotSuppOther.
NotSuppOther(e) ==
    /\ st[e].eng \in {"Detect", "AckSent"}
    /\ Update(e, [eng |-> "Quiet", tiviState |-> IF isSdesActive(e) THEN "eSecureSdes" ELSE "eNoPeer"])
    /\ UNCHANGED <<sip, parsing, pkt, rtp, exception, undone, mishaps, discriminatorMode>>

\* zrtpNegotiationFailed; in WaitConfAck the engine switches the receiver off again.
Failed == [eng |-> "Failed", recv |-> FALSE, tiviState |-> "eError"]

\* Too many retries: timerFailed.  With a zrtp-hash there is no limit
\* (setT2Resend(-1) in setSignalingHelloHash).
TimerFailed(e) ==
    /\ st[e].eng \in {"CommitSent", "WaitConfirm1", "WaitConfAck"} /\ st[e].hashes = {}
    /\ Update(e, Failed)
    /\ UNCHANGED <<sip, parsing, pkt, rtp, exception, undone, mishaps, discriminatorMode>>

\* The timer's packet cannot be sent: sendDataZRTP raises the exception, sendFailed.
SendFailed(e) ==
    /\ st[e].eng \in {"Detect", "AckSent", "CommitSent", "WaitConfirm1", "WaitConfAck"}
    /\ ~CanSend(e)
    /\ Update(e, Failed) /\ Raise(e, TRUE)
    /\ UNCHANGED <<sip, parsing, pkt, rtp, undone, mishaps, discriminatorMode>>

Handshake ==
    {"Detect", "Quiet", "AckSent", "CommitSent", "WaitDHPart2", "WaitConfirm1", "WaitConfirm2",
     "WaitConfAck"}

\* sendErrorPacket: a packet is malformed, or its contents are refused.  SRTP stays
\* as it is, and SecureState is left too.
SendErrorPacket(e) ==
    /\ st[e].eng \in Handshake \cup {"Secure"} /\ Mishap
    /\ pkt[Other(e)] # NoPacket /\ Readable(e, pkt[Other(e)])
    /\ Update(e, [eng |-> "Failed", tiviState |-> "eError"])
    /\ pkt' = [pkt EXCEPT ![e] = Packet(e, "Error")]
    /\ testing' = [testing EXCEPT ![e] = "no"]
    /\ UNCHANGED <<sip, parsing, media, sending, exception, undone, discriminatorMode>>

\* SecureState ignores an Error packet.
RecvError(e) == Handle(e, Handshake, "Error", Failed, "None") /\ UNCHANGED <<exception, mishaps>>

-----------------------------------------------------------------------------
(* Media.  The RTP threads take no lock.                                     *)

SdesForMedia(e) == st[e].useSdesForMedia /\ st[e].sdes # "none"

\* The layers processOutgoingRtp puts around a packet, where it finds sendSrtp or not.
LayersWith(e, sendSrtp) ==
    (IF SdesForMedia(e) /\ isSdesActive(e) THEN {"sdes"} ELSE {})
    \cup (IF sendSrtp THEN {"zrtp"} ELSE {})
Layers(e) == LayersWith(e, st[e].send)

\* The sending thread has found no sendSrtp, and is preempted before it looks whether
\* SDES is in use.
TestSendSrtp(e) ==
    /\ ~sending[e] /\ ~st[e].send /\ Mishap
    /\ sending' = [sending EXCEPT ![e] = TRUE]
    /\ UNCHANGED <<sip, parsing, st, pkt, testing, media, exception, undone, discriminatorMode>>

\* Mutant of ProcessOutgoingRtp: report the missing SRTP, and send all the same.
ProcessOutgoingRtpAnyway(e) ==
    LET srtp == st[e].send /\ ~sending[e]
    IN  /\ Cardinality(media) < MaxMedia
        /\ Raise(e, ~srtp /\ ~SdesForMedia(e))
        /\ media' = media \cup {[to |-> Other(e), layers |-> LayersWith(e, srtp)]}
        /\ sending' = [sending EXCEPT ![e] = FALSE]
        /\ UNCHANGED <<sip, parsing, st, pkt, testing, undone, mishaps, discriminatorMode>>

ProcessOutgoingRtp(e) ==
    LET srtp == st[e].send /\ ~sending[e]
        refused == discriminatorMode /\ ~srtp /\ ~SdesForMedia(e)
    IN  /\ Cardinality(media) < MaxMedia
        /\ Raise(e, refused)
        /\ media' = IF refused THEN media
                    ELSE media \cup {[to |-> Other(e), layers |-> LayersWith(e, srtp)]}
        /\ sending' = [sending EXCEPT ![e] = FALSE]
        /\ UNCHANGED <<sip, parsing, st, pkt, testing, undone, mishaps, discriminatorMode>>

Accepted(left) == [rc |-> 1, left |-> left]
Rejected == [rc |-> -1, left |-> {}]
Dropped == [rc |-> 0, left |-> {}]

\* ZrtpSdesStream::incomingRtp passes everything while it is not active.
SdesIncoming(e, l) ==
    IF ~isSdesActive(e) THEN Accepted(l) ELSE IF l = {"sdes"} THEN Accepted({}) ELSE Rejected

\* A good SRTP packet in WaitConfAck stands for Conf2Ack, before the stream looks
\* whether SDES is still in use.
SimulatesAck(e, l) == st[e].eng = "WaitConfAck" /\ st[e].recv /\ "zrtp" \in l

\* Mutant of StillSdes: look before the engine gets the simulated Conf2Ack.
StillSdesBefore(e, l) == SdesForMedia(e)

StillSdes(e, l) == SdesForMedia(e) /\ (SimulatesAck(e, l) => st[e].hashes = {})

\* What processIncomingRtp returns for a packet, and the layers left on it.
Incoming(e, l) ==
    IF ~st[e].recv
    THEN IF SdesForMedia(e) THEN SdesIncoming(e, l)
         ELSE IF discriminatorMode THEN Dropped ELSE Accepted(l)
    ELSE IF "zrtp" \in l
    THEN IF StillSdes(e, l) THEN SdesIncoming(e, l \ {"zrtp"}) ELSE Accepted(l \ {"zrtp"})
    ELSE IF st[e].sdes # "none" THEN SdesIncoming(e, l) ELSE Rejected

ProcessIncomingRtp(m) ==
    /\ Receiving(m.to) /\ testing[m.to] = "no"
    /\ media' = media \ {m}
    /\ IF SimulatesAck(m.to, m.layers) THEN Update(m.to, SendOn) ELSE UNCHANGED st
    /\ UNCHANGED <<sip, parsing, pkt, testing, sending, exception, undone, mishaps, discriminatorMode>>

-----------------------------------------------------------------------------

Signaling ==
    \/ CreateSdes \/ Invite \/ Answer
    \/ \E e \in Ends : ParseSdes(e) \/ SetZrtpEncapAttribute(e) \/ ResetSdesContext(e)
                      \/ \E h \in Hashes : SetSignalingHelloHash(e, h)

\* One event of the engine of e, given that packets arrive.
Zrtp(e) ==
    \/ RecvHello(e) \/ RecvHelloAck(e) \/ RecvCommit(e) \/ RecvDHPart1(e) \/ RecvDHPart2(e)
    \/ RecvConfirm1(e) \/ RecvConfirm2(e) \/ RecvConf2Ack(e) \/ RecvError(e)
    \/ RecvOn(e) \/ SenderOn(e) \/ SecureOn(e) \/ Resend(e) \/ ClearTunnel(e) \/ DropPacket(e)

Next ==
    \/ Signaling
    \/ \E e \in Ends :
        \/ Start(e) \/ Zrtp(e) \/ TestTunnel(e)
        \/ NotSuppOther(e) \/ TimerFailed(e) \/ SendFailed(e) \/ SendErrorPacket(e)
        \/ TestSendSrtp(e) \/ ProcessOutgoingRtp(e)
    \/ \E m \in media : ProcessIncomingRtp(m)

Spec == Init /\ [][Next]_vars

\* Every packet that is repeated gets through in the end; nobody has to signal, to
\* start, or to talk.
FairSpec == Spec /\ \A e \in Ends : WF_vars(Zrtp(e))

-----------------------------------------------------------------------------
(* Properties.                                                               *)

\* Where a stream uses SDES for media or for the ZRTP tunnel, its SDES stream is
\* active: sendDataZRTP calls it without a NULL test, and an SDES stream that is not
\* active lets packets through unprotected.
SdesInUse ==
    \A e \in Ends : st[e].useSdesForMedia \/ st[e].useZrtpTunnel => isSdesActive(e)

\* Both ends advertise the same, and all of it has been handed over.
Signaled ==
    /\ sdp["inviter"] = sdp["answerer"] /\ call = "answered"
    /\ \A e \in Ends : todo[e] = {} /\ parsing[e] = "idle"

\* Whatever the order in which the application hands over crypto and encapsulation
\* attributes, before or during ZRTP, both ends end up using the tunnel or neither
\* does; an end drops all ZRTP of a peer that differs (processIncomingRtp).  Once an
\* end is secure and has given up SDES, a late attribute reaches only the other.  The
\* one thing that separates the ends for good is the receiving thread that takes the
\* tunnel back (CtZrtpStream.cpp:367); in discriminator mode it never does.
TunnelsAgree ==
    (Signaled /\ \A e \in Ends : isSdesActive(e) /\ ~st[e].send) =>
    \A e \in Ends :
        \/ st[e].useZrtpTunnel = sdp[e].encap
        \/ "tunnel" \in undone[e] /\ ~discriminatorMode

\* Nobody took SDES back or brought it back, and no handler is between sendSrtp and
\* useSdesForMedia, where packets get both layers although a zrtp-hash is known.
Steady == \A e \in Ends : undone[e] \subseteq {"tunnel"} /\ st[e].eng \notin Switching

\* What an end sends before and after it switches to ZRTP/SRTP, both having SDES: the
\* SDES layer stays if there is no zrtp-hash.
BeforeAndAfter(e) ==
    {{"sdes"}, IF sdp[e].hashes = {} THEN {"sdes", "zrtp"} ELSE {"zrtp"}}

\* While the ends switch from SDES to ZRTP at different times, each on its own
\* evidence (zrtp-hash, Conf2Ack, a first good packet), an end that can receive
\* ZRTP/SRTP sheds exactly the layers that the other puts on now, and the ones on
\* packets already on their way when it switches: nothing is lost and nothing
\* reaches the application still encrypted.  It does not hold
\*  - when an inviter goes secure before it reads an answer without zrtp-hash: it
\*    ignores the crypto string (parseSdes), and the other protects twice;
\*  - with a zrtp-hash of another Hello: srtpSecretsReady counts it as a reason to
\*    give up SDES, setSignalingHelloHash, when it comes late, does not;
\*  - for the packets of a sending thread that comes between sendSrtp and
\*    useSdesForMedia in srtpSecretsReady (both layers) or is overtaken by it (none),
\*    and for those of one that was secure before its SDES or its zrtp-hash came;
\*  - after a parseSdes that ends when ZRTP is secure already (undone "media").
MediaFlows ==
    (Signaled /\ Steady /\ \A e \in Ends : sdp[e].hashes \subseteq {"good"}) =>
    \A e \in Ends :
        st[e].recv /\ (st[e].send \/ st[e].eng = "WaitConfAck") =>
        /\ \/ \A f \in Ends : isSdesActive(f)
           \/ \A f \in Ends : ~isSdesActive(f) /\ st[Other(e)].send
           \/ sdp[e].hashes # {} /\ st[Other(e)].send
           => Incoming(e, Layers(Other(e))) = Accepted({})
        /\ (\A f \in Ends : isSdesActive(f)) =>
           \A m \in media : m.to = e /\ m.layers \in BeforeAndAfter(e) =>
               Incoming(e, m.layers) = Accepted({})

\* A stream that tells the user it is secure (isSecure) sends nothing unprotected,
\* whatever ZRTP and signaling went through to get there.  Exempt are the moment in
\* which parseSdes has told the user and not yet set useSdesForMedia, and a stream
\* whose active SDES context the application has deleted (resetSdesContext(true)
\* leaves eSecureSdes; CtZrtpSession.h asks it to feed no more packets).
SecureIsEncrypted ==
    \A e \in Ends :
        isSecure(e) /\ parsing[e] \notin {"parsed", "told"} /\ "sdes" \notin undone[e] => Layers(e) # {}

\* In discriminator mode no unprotected packet is on its way, and none would be
\* handed to the application, in whatever state SDES and ZRTP are.
DiscriminatorSound ==
    discriminatorMode =>
    /\ \A m \in media : m.layers # {}
    /\ \A e \in Ends : Incoming(e, {}).rc # 1

\* In discriminator mode nobody goes secure with a peer whose Hello the signaling
\* does not vouch for, unless the application was told to drop the call; the hash
\* may come before the Hello, during the exchange, or not at all.
DiscriminatorWarned ==
    discriminatorMode =>
    \A e \in Ends : st[e].eng = "Secure" /\ ~st[e].zrtpHashMatch => exception[e]

\* Two started streams whose SDP is exchanged before one of them is secure both go
\* secure, unless ZRTP fails, by time or by error: no order of the attributes leaves
\* them with ZRTP packets that the other end drops.  It does where an end refuses the
\* other's crypto string, and is left without tunnel, or loses its tunnel to its own
\* receiving thread or to a reset.  (With SDP as late as to meet a handler that ends,
\* the Responder may turn the tunnel on when it has sent Conf2Ack for the last time
\* without it; only its media then ends the Initiator's wait.)
ZrtpCompletes ==
    (/\ Signaled /\ isSdesActive("inviter") = isSdesActive("answerer")
     /\ \A e \in Ends : pkt[e] # NoPacket /\ st[e].eng \notin Switching \cup {"Secure"}) ~>
    \/ \A e \in Ends : st[e].eng = "Secure"
    \/ \E e \in Ends : st[e].eng \in {"Quiet", "Failed"} \/ undone[e] \cap {"tunnel", "sdes"} # {}
=============================================================================
