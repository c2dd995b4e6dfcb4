--------------------------- MODULE ZrtpStateClass ---------------------------
(***************************************************************************)
(* The ZRTP protocol engine of one stream: class ZrtpStateClass, driven    *)
(* through ZRtp::startZrtpEngine, processZrtpMessage, processTimeout and   *)
(* stopZrtp.                                                               *)
(*                                                                         *)
(* Three threads meet in the engine.  The receive thread brings packets,   *)
(* the application starts and stops it, and the thread of the timeout      *)
(* provider brings timeouts.  processEvent runs under the stream's lock    *)
(* (synchEnter/synchLeave), so one event is one step; what is not under    *)
(* that lock has steps of its own: startZrtpEngine tests the state before  *)
(* it takes the lock, the provider takes a request off its queue before it *)
(* calls handleTimeout, and sendSASRelay, a function of the application,   *)
(* neither takes the lock nor looks at the state.                          *)
(*                                                                         *)
(* The peer and the network are left open: any packet may arrive in any    *)
(* state, and the outcome of ZRtp::prepare*() on it (a reply, "ignore this *)
(* packet", or an error code) is a free choice.  The two callbacks the     *)
(* engine tests, sendDataZRTP and activateTimer, may report failure.       *)
(***************************************************************************)
EXTENDS Integers, FiniteSets

CONSTANTS
    Versions,         \* Hello versions this stream supports (helloPackets)
    PeerVersions,     \* Hello versions a peer may send
    T1Resend,         \* resends of Hello in Detect        (t1Resend, 20)
    T1ResendExtend,   \* resends of Hello once one was seen (t1ResendExtend, 60)
    T2Resend,         \* resends of any other packet       (t2Resend, 10)
    MaxStarters,      \* bound: threads inside startZrtpEngine at a time
    MaxRelays         \* bound: calls of sendSASRelayPacket

ASSUME ConstantsOK ==
    /\ Versions \subseteq Nat /\ PeerVersions \subseteq Nat
    /\ \E top \in Versions : \A v \in Versions : v <= top
    /\ T1Resend \in Int /\ T1ResendExtend \in Int /\ T2Resend \in Int
    /\ MaxStarters \in Nat /\ MaxRelays \in Nat

VARIABLES
    state,        \* engine->state
    sentPacket,   \* the packet a timeout or a repeated request resends
    commitPkt,    \* TRUE iff commitPkt # NULL
    t1, t2,       \* T1.counter, T2.counter
    t1Max,        \* T1.maxResend
    multiStream,  \* the stream runs in multi-stream mode
    secSubstate,  \* substate of SecureState
    sentVersion,  \* version of currentHelloPacket, the Hello we send
    srtp,         \* directions for which the client holds SRTP secrets
    verdict,      \* how the last negotiation ended, as told to the client
    pending,      \* requests of this stream in the provider's queue
    firing,       \* the provider took one off and is about to deliver it
    starters,     \* threads past the inState(Initial) test of startZrtpEngine
    relay,        \* how far the application is in sendSASRelay
    relays,       \* calls of it so far
    strayRelay    \* history: one of them ran while the stream was not secure

engine  == <<state, sentPacket, commitPkt, secSubstate, verdict>>
timers  == <<t1, t2, t1Max>>
relaying == <<relay, relays, strayRelay>>
threads == <<firing, starters, multiStream, relaying>>
vars    == <<engine, timers, threads, sentVersion, srtp, pending>>

States == {"Initial", "Detect", "AckDetected", "AckSent", "WaitCommit",
           "CommitSent", "WaitDHPart2", "WaitConfirm1", "WaitConfirm2",
           "WaitConfAck", "WaitClearAck", "SecureState", "WaitErrorAck"}

Packets == {"Hello", "HelloAck", "Commit", "DHPart1", "DHPart2", "Confirm1",
            "Confirm2", "Conf2Ack", "Error", "SASrelay"}

\* Init leaves sentPacket uninitialised, as the constructor does.
SentPackets == Packets \cup {"None", "Uninit"}

Both == {"ForReceiver", "ForSender"}

\* States in which the engine waits for its peer and runs no timer.
QuietStates == {"AckDetected", "WaitCommit", "WaitDHPart2", "WaitConfirm2"}

\* States in which only our own timer moves things on if the peer is silent.
ResendStates == {"CommitSent", "WaitConfirm1", "WaitConfAck", "WaitErrorAck"}

Highest(S) == CHOOSE top \in S : \A v \in S : v <= top

Init ==
    /\ state = "Initial" /\ sentPacket = "Uninit" /\ commitPkt = FALSE
    /\ secSubstate = "Normal" /\ verdict = "closed"
    /\ t1 = 0 /\ t2 = 0 /\ t1Max = T1Resend
    /\ multiStream = FALSE /\ sentVersion = Highest(Versions) /\ srtp = {}
    /\ pending = 0 /\ firing = FALSE /\ starters = 0
    /\ relay = "idle" /\ relays = 0 /\ strayRelay = FALSE

-----------------------------------------------------------------------------
(* Steps shared by the handlers.  sendPacketZRTP fails for a NULL packet and *)
(* whenever the client's callback reports a failure.                         *)

\* Mutant of Abort: the client is not told.
AbortSilently(left) ==
    /\ state' = "Initial" /\ sentPacket' = "None" /\ UNCHANGED verdict
    /\ pending' = left

\* sendFailed() and timerFailed(); left is what remains of the timer requests.
Abort(left) ==
    /\ state' = "Initial" /\ sentPacket' = "None" /\ verdict' = "failed"
    /\ pending' = left

\* nextState(next), send pkt, startTimer(&T2), after cancelTimer().
SendAndStartT2(next, pkt) ==
    \/ /\ pkt # "None"
       /\ state' = next /\ sentPacket' = pkt /\ UNCHANGED verdict
       /\ pending' = 1 /\ t2' = 0
    \/ Abort(0) /\ t2' \in {t2, 0}

\* nextState(next) and send pkt as Responder: no timer.
SendAsResponder(next, pkt, left) ==
    \/ state' = next /\ sentPacket' = pkt /\ pending' = left /\ UNCHANGED verdict
    \/ Abort(left)

\* Send sentPacket again and stay.
Resend ==
    \/ sentPacket # "None" /\ UNCHANGED <<state, sentPacket, verdict, pending>>
    \/ Abort(pending)

\* sendErrorPacket(): cancels the timer, tells the client, waits for ErrorAck.
SendErrorPacket ==
    /\ verdict' = "failed"
    /\ \/ state' = "WaitErrorAck" /\ sentPacket' = "Error" /\ pending' = 1 /\ t2' = 0
       \/ state' = "Initial" /\ sentPacket' = "None" /\ pending' = 0 /\ t2' \in {t2, 0}

\* Mutant of Count: the counter stands still.
CountNothing(counter, max) == counter

\* nextTimer(): the counter after one more timeout, and whether it is spent.
\* Values past the limit are not told apart (the code only tests > maxResend).
Count(counter, max)     == IF max > 0 /\ counter <= max THEN counter + 1 ELSE counter
Exhausted(counter, max) == max > 0 /\ counter + 1 > max

\* Mutant of RestartT1: the old request is not cancelled.
RestartT1Twice(next) ==
    /\ t1' = 0
    /\ \/ state' = next /\ pending' = pending + 1 /\ UNCHANGED <<sentPacket, verdict>>
       \/ Abort(0)

\* startTimer(&T1) after cancelTimer(): the Hello timer runs, or timerFailed().
RestartT1(next) ==
    /\ t1' = 0
    /\ \/ state' = next /\ pending' = 1 /\ UNCHANGED <<sentPacket, verdict>>
       \/ Abort(0)

\* "unknown Event type for this state": back to Initial, SRTP receiver off if
\* it was switched on while waiting for Conf2Ack.
EndSession(v, left) ==
    /\ state \notin {"Initial", "SecureState"}
    /\ state' = "Initial" /\ verdict' = v /\ pending' = left
    /\ sentPacket' = IF state = "AckDetected" THEN sentPacket ELSE "None"
    /\ commitPkt' = (commitPkt /\ state # "AckSent")
    /\ srtp' = IF state = "WaitConfAck" THEN srtp \ {"ForReceiver"} ELSE srtp

\* The same branch of evSecureState, which switches SRTP off altogether.
EndSecure(v, left) ==
    /\ state = "SecureState"
    /\ state' = "Initial" /\ sentPacket' = "None" /\ verdict' = v
    /\ pending' = left /\ srtp' = {} /\ UNCHANGED commitPkt

-----------------------------------------------------------------------------
(* The application.                                                          *)

\* ZRtp::setMultiStrParams, called on a stream before it is started.
SetMultiStream ==
    /\ state = "Initial" /\ ~multiStream /\ multiStream' = TRUE
    /\ UNCHANGED <<engine, timers, firing, starters, relaying, sentVersion, srtp, pending>>

\* ZRtp::startZrtpEngine tests inState(Initial) without the lock ...
StartZrtp ==
    /\ state = "Initial" /\ starters < MaxStarters
    /\ starters' = starters + 1
    /\ UNCHANGED <<engine, timers, firing, multiStream, relaying, sentVersion, srtp, pending>>

\* ... and delivers ZrtpInitial under it, in whatever state it then finds.
StartInInitial ==
    /\ state = "Initial"
    /\ \/ /\ state' = "Detect" /\ sentPacket' = "Hello" /\ verdict' = "none"
          /\ pending' = pending + 1 /\ t1' = 0
       \/ Abort(pending) /\ t1' \in {t1, 0}
    /\ UNCHANGED <<commitPkt, srtp>>

StartInDetect ==
    /\ state = "Detect"
    /\ \/ sentPacket # "None" /\ RestartT1("Detect")
       \/ Abort(0) /\ UNCHANGED t1
    /\ UNCHANGED <<commitPkt, srtp>>

StartElsewhere ==
    /\ state # "Detect" /\ UNCHANGED t1
    /\ EndSession("failed", pending) \/ EndSecure("failed", pending)

ZrtpInitialEvent ==
    /\ starters > 0 /\ starters' = starters - 1
    /\ StartInInitial \/ StartInDetect \/ StartElsewhere
    /\ UNCHANGED <<firing, multiStream, relaying, t2, t1Max, secSubstate, sentVersion>>

\* ZRtp::stopZrtp: the ZrtpClose event cancels the timer and ends the session.
ZrtpClose ==
    /\ \/ EndSession("closed", 0) \/ EndSecure("closed", 0)
       \/ /\ state = "Initial" /\ pending' = 0
          /\ UNCHANGED <<state, sentPacket, commitPkt, verdict, srtp>>
    /\ UNCHANGED <<timers, threads, secSubstate, sentVersion>>

\* A step of sendSASRelay, which runs on the application's thread without the lock:
\* any event may come between two of them, and any state may be the current one.
RelayStep(from, to) ==
    /\ relay = from /\ relay' = to
    /\ strayRelay' = (strayRelay \/ state # "SecureState")
    /\ UNCHANGED <<commitPkt, t1, t1Max, firing, starters, multiStream, sentVersion, srtp>>

\* ZRtp::sendSASRelayPacket has its packet ready; cancelTimer().
RelayCancel ==
    /\ RelayStep("idle", "cancelled") /\ relays < MaxRelays /\ relays' = relays + 1
    /\ pending' = 0 /\ UNCHANGED <<state, sentPacket, secSubstate, verdict, t2>>

RelayStore ==
    /\ RelayStep("cancelled", "stored") /\ sentPacket' = "SASrelay"
    /\ UNCHANGED <<state, secSubstate, verdict, t2, pending, relays>>

RelaySubstate ==
    /\ RelayStep("stored", "waiting") /\ secSubstate' = "WaitSasRelayAck"
    /\ UNCHANGED <<state, sentPacket, verdict, t2, pending, relays>>

\* The packet is sent and startTimer(&T2) works, or one of them fails ...
RelaySend ==
    /\ \/ RelayStep("waiting", "idle") /\ pending' = pending + 1 /\ t2' = 0
       \/ RelayStep("waiting", "failed") /\ UNCHANGED pending /\ t2' \in {t2, 0}
    /\ UNCHANGED <<state, sentPacket, secSubstate, verdict, relays>>

\* ... and sendFailed() drops the packet and reports, still without the lock.
RelayDrop ==
    /\ RelayStep("failed", "dropped") /\ sentPacket' = "None"
    /\ UNCHANGED <<state, secSubstate, verdict, t2, pending, relays>>

RelayFailed ==
    /\ RelayStep("dropped", "idle") /\ state' = "Initial" /\ verdict' = "failed"
    /\ UNCHANGED <<sentPacket, secSubstate, t2, pending, relays>>

SendSASRelay == RelayStore \/ RelaySubstate \/ RelaySend \/ RelayDrop \/ RelayFailed

-----------------------------------------------------------------------------
(* Discovery packets.                                                        *)

\* evDetect: a Hello of a newer version; keep sending ours.
HelloNewer(recvVersion) ==
    /\ state = "Detect" /\ recvVersion > sentVersion
    /\ RestartT1("Detect")
    /\ UNCHANGED <<commitPkt, secSubstate, t2, t1Max, threads, sentVersion, srtp>>

\* Mutant of HelloOlder: answer with the version received, known or not.
HelloOlderEchoed(recvVersion) ==
    /\ state = "Detect" /\ recvVersion < sentVersion
    /\ sentVersion' = recvVersion /\ RestartT1("Detect")
    /\ UNCHANGED <<commitPkt, secSubstate, t2, t1Max, threads, srtp>>

\* evDetect: an older Hello; fall back to the best version not above it.
HelloOlder(recvVersion) ==
    LET known == {v \in Versions : v <= recvVersion}
    IN  /\ state = "Detect" /\ recvVersion < sentVersion
        /\ \/ known = {} /\ SendErrorPacket /\ UNCHANGED <<t1, sentVersion>>
           \/ /\ known # {} /\ sentVersion' = Highest(known) /\ UNCHANGED t2
              /\ RestartT1("Detect") \/ (Abort(0) /\ UNCHANGED t1)
        /\ UNCHANGED <<commitPkt, secSubstate, t1Max, threads, srtp>>

\* evDetect: the versions agree; send HelloAck, prepare our Commit and go on
\* sending our own Hello, with more patience.
HelloSame(recvVersion) ==
    /\ state = "Detect" /\ recvVersion = sentVersion
    /\ \/ /\ verdict' = "failed" /\ pending' = 0          \* HelloAck not sent
          /\ UNCHANGED <<state, sentPacket, commitPkt, timers>>
       \/ SendErrorPacket /\ commitPkt' = FALSE /\ UNCHANGED <<t1, t1Max>>
       \/ /\ RestartT1("AckSent") /\ commitPkt' = TRUE /\ t1Max' = T1ResendExtend
          /\ UNCHANGED t2
    /\ UNCHANGED <<secSubstate, threads, sentVersion, srtp>>

\* evAckSent: the peer missed our HelloAck.
HelloInAckSent ==
    /\ state = "AckSent"
    /\ state' = "Detect" /\ verdict' = "failed"           \* HelloAck not sent
    /\ UNCHANGED <<sentPacket, commitPkt, secSubstate, timers, threads,
                   sentVersion, srtp, pending>>

\* evAckDetected: the peer's Hello, at last; we will be Responder.
HelloInAckDetected ==
    /\ state = "AckDetected"
    /\ \/ SendErrorPacket
       \/ SendAsResponder("WaitCommit", "HelloAck", pending) /\ UNCHANGED t2
    /\ UNCHANGED <<commitPkt, secSubstate, t1, t1Max, threads, sentVersion, srtp>>

\* evWaitCommit (Hello), evWaitDHPart2 (Commit), evWaitConfirm2 (DHPart2, or
\* Commit in multi-stream mode): the peer missed our last packet.
RepeatedRequest ==
    /\ state \in {"WaitCommit", "WaitDHPart2", "WaitConfirm2"} /\ Resend
    /\ UNCHANGED <<commitPkt, secSubstate, timers, threads, sentVersion, srtp>>

RecvHello ==
    \/ \E recvVersion \in PeerVersions :
          HelloNewer(recvVersion) \/ HelloOlder(recvVersion) \/ HelloSame(recvVersion)
    \/ HelloInAckSent
    \/ HelloInAckDetected

\* Mutants of HelloAckInDetect: the Hello timer runs on; the Hello is kept.
HelloAckInDetectTimerOn ==
    /\ state = "Detect" /\ state' = "AckDetected" /\ sentPacket' = "None"
    /\ UNCHANGED <<commitPkt, secSubstate, verdict, timers, threads, sentVersion,
                   srtp, pending>>

HelloAckInDetectHelloKept ==
    /\ state = "Detect" /\ state' = "AckDetected" /\ pending' = 0
    /\ UNCHANGED <<sentPacket, commitPkt, secSubstate, verdict, timers, threads,
                   sentVersion, srtp>>

HelloAckInDetect ==
    /\ state = "Detect" /\ state' = "AckDetected"
    /\ sentPacket' = "None" /\ pending' = 0
    /\ UNCHANGED <<commitPkt, secSubstate, verdict, timers, threads, sentVersion, srtp>>

\* evAckSent: discovery is complete, send the prepared Commit as Initiator.
HelloAckInAckSent ==
    /\ state = "AckSent" /\ commitPkt' = FALSE
    /\ SendAndStartT2("CommitSent", IF commitPkt THEN "Commit" ELSE "None")
    /\ UNCHANGED <<secSubstate, t1, t1Max, threads, sentVersion, srtp>>

-----------------------------------------------------------------------------
(* Key agreement.                                                            *)

\* The Responder's answer to a Commit: DHPart1, or Confirm1 in multi-stream
\* mode, where no Diffie-Hellman exchange takes place.
AnswerCommit(left) ==
    IF multiStream THEN SendAsResponder("WaitConfirm2", "Confirm1", left)
                   ELSE SendAsResponder("WaitDHPart2", "DHPart1", left)

\* evAckSent, evWaitCommit.  Only evAckSent cancels the Hello timer, and it
\* does so before it knows whether the Commit is to be ignored.
CommitWhileWaiting ==
    LET left == IF state = "AckSent" THEN 0 ELSE pending
    IN  /\ state \in {"AckSent", "WaitCommit"}
        /\ \/ /\ AnswerCommit(left) /\ UNCHANGED t2
              /\ commitPkt' = (commitPkt /\ (state # "AckSent" \/ multiStream))
           \/ SendErrorPacket /\ UNCHANGED commitPkt
           \/ /\ pending' = left                            \* IgnorePacket
              /\ UNCHANGED <<state, sentPacket, commitPkt, verdict, t2>>
        /\ UNCHANGED <<secSubstate, t1, t1Max, threads, sentVersion, srtp>>

\* evCommitSent: both sides sent a Commit.  With the smaller hvi we change to
\* Responder; otherwise we stay Initiator and restart the Commit timer.
\* verifyH2 has already filtered what prepareDHPart1 would ignore.
CommitClash ==
    /\ state = "CommitSent"
    /\ \/ AnswerCommit(0) /\ UNCHANGED t2
       \/ SendErrorPacket
       \/ /\ pending' = 1 /\ t2' = 0 /\ UNCHANGED <<state, sentPacket, verdict>>
       \/ Abort(0) /\ t2' = 0
    /\ UNCHANGED <<commitPkt, secSubstate, t1, t1Max, threads, sentVersion, srtp>>

\* evCommitSent: our Commit was accepted.  An ignored DHPart1 restarts the
\* timer, but the Commit is no longer there to be sent again.
RecvDHPart1 ==
    /\ state = "CommitSent"
    /\ \/ SendAndStartT2("WaitConfirm1", "DHPart2")
       \/ SendErrorPacket
       \/ /\ sentPacket' = "None" /\ pending' = 1 /\ t2' = 0  \* IgnorePacket
          /\ UNCHANGED <<state, verdict>>
       \/ Abort(0) /\ t2' = 0
    /\ UNCHANGED <<commitPkt, secSubstate, t1, t1Max, threads, sentVersion, srtp>>

\* evWaitDHPart2.  An ignored DHPart2 changes nothing.
RecvDHPart2 ==
    /\ state = "WaitDHPart2"
    /\ \/ SendAsResponder("WaitConfirm2", "Confirm1", pending) /\ UNCHANGED t2
       \/ SendErrorPacket
    /\ UNCHANGED <<commitPkt, secSubstate, t1, t1Max, threads, sentVersion, srtp>>

\* Mutant of Confirm1InWaitConfirm1: both directions are enabled at once.
Confirm1EnablesSender ==
    /\ state = "WaitConfirm1"
    /\ SendAndStartT2("WaitConfAck", "Confirm2") /\ srtp' = Both
    /\ UNCHANGED <<commitPkt, secSubstate, t1, t1Max, threads, sentVersion>>

\* evWaitConfirm1: enable the SRTP receiver, then send Confirm2.
Confirm1InWaitConfirm1 ==
    /\ state = "WaitConfirm1"
    /\ \/ SendAndStartT2("WaitConfAck", "Confirm2") /\ srtp' = srtp \cup {"ForReceiver"}
       \/ SendErrorPacket /\ UNCHANGED srtp
    /\ UNCHANGED <<commitPkt, secSubstate, t1, t1Max, threads, sentVersion>>

\* Mutant of Confirm1InCommitSent: the receiver is not enabled.
Confirm1WithoutReceiver ==
    /\ state = "CommitSent" /\ multiStream
    /\ SendAndStartT2("WaitConfAck", "Confirm2") \/ SendErrorPacket
    /\ UNCHANGED <<commitPkt, secSubstate, t1, t1Max, threads, sentVersion, srtp>>

\* evCommitSent in multi-stream mode: send Confirm2, then enable the receiver.
Confirm1InCommitSent ==
    /\ state = "CommitSent" /\ multiStream
    /\ \/ /\ SendAndStartT2("WaitConfAck", "Confirm2")
          /\ srtp' = IF state' = "WaitConfAck" THEN srtp \cup {"ForReceiver"} ELSE srtp
       \/ SendErrorPacket /\ UNCHANGED srtp
    /\ UNCHANGED <<commitPkt, secSubstate, t1, t1Max, threads, sentVersion>>

\* evWaitConfirm2: acknowledge, then enable both SRTP directions.  If the
\* sender's secrets are refused the receiver stays enabled.
Confirm2InWaitConfirm2 ==
    /\ state = "WaitConfirm2"
    /\ \/ /\ state' = "SecureState" /\ sentPacket' = "Conf2Ack" /\ verdict' = "none"
          /\ srtp' = Both /\ UNCHANGED <<pending, t2>>
       \/ Abort(pending) /\ UNCHANGED <<srtp, t2>>
       \/ SendErrorPacket /\ srtp' \in {srtp, srtp \cup {"ForReceiver"}}
    /\ UNCHANGED <<commitPkt, secSubstate, t1, t1Max, threads, sentVersion>>

\* evSecureState: the peer missed our Conf2Ack; the send fails.  (If it
\* succeeds, or there is nothing to send, nothing changes.)
Confirm2InSecure ==
    /\ state = "SecureState" /\ secSubstate = "Normal" /\ sentPacket # "None"
    /\ Abort(pending) /\ srtp' = {}
    /\ UNCHANGED <<commitPkt, secSubstate, timers, threads, sentVersion>>

\* evWaitConfAck: Conf2Ack, or the first valid SRTP packet in its place
\* (ZRtp::conf2AckSecure).
RecvConf2Ack ==
    /\ state = "WaitConfAck"
    /\ \/ /\ state' = "SecureState" /\ sentPacket' = "None" /\ verdict' = "none"
          /\ pending' = 0 /\ srtp' = srtp \cup {"ForSender"} /\ UNCHANGED t2
       \/ SendErrorPacket /\ UNCHANGED srtp
    /\ UNCHANGED <<commitPkt, secSubstate, t1, t1Max, threads, sentVersion>>

RecvKeyAgreement ==
    \/ HelloAckInDetect \/ HelloAckInAckSent
    \/ RepeatedRequest
    \/ CommitWhileWaiting \/ CommitClash
    \/ RecvDHPart1 \/ RecvDHPart2
    \/ Confirm1InWaitConfirm1 \/ Confirm1InCommitSent
    \/ Confirm2InWaitConfirm2 \/ Confirm2InSecure
    \/ RecvConf2Ack

-----------------------------------------------------------------------------
(* Errors and SAS relay.                                                     *)

\* processEvent: the length field contradicts the received length.
RecvMalformed ==
    /\ state # "WaitErrorAck" /\ SendErrorPacket
    /\ UNCHANGED <<commitPkt, secSubstate, t1, t1Max, threads, sentVersion, srtp>>

\* An Error packet stops the timer and is answered in every state; it ends the
\* session unless the stream is secure.
RecvError ==
    /\ \/ EndSession("failed", 0)
       \/ /\ state \in {"Initial", "SecureState"} /\ pending' = 0
          /\ UNCHANGED <<state, sentPacket, commitPkt, verdict, srtp>>
    /\ UNCHANGED <<timers, threads, secSubstate, sentVersion>>

RecvErrorAck ==
    /\ state = "WaitErrorAck"
    /\ state' = "Initial" /\ sentPacket' = "None" /\ pending' = 0
    /\ UNCHANGED <<commitPkt, secSubstate, verdict, timers, threads, sentVersion, srtp>>

\* subEvWaitRelayAck.  Every other packet is swallowed while it waits.
RecvRelayAck ==
    /\ state = "SecureState" /\ secSubstate = "WaitSasRelayAck"
    /\ secSubstate' = "Normal" /\ sentPacket' = "None" /\ pending' = 0
    /\ UNCHANGED <<state, commitPkt, verdict, timers, threads, sentVersion, srtp>>

-----------------------------------------------------------------------------
(* Timeouts.                                                                 *)

\* TimeoutProvider::run takes the request off its queue and drops its lock.
TimeoutDue ==
    /\ pending > 0 /\ ~firing
    /\ pending' = pending - 1 /\ firing' = TRUE
    /\ UNCHANGED <<engine, timers, starters, multiStream, relaying, sentVersion, srtp>>

\* evDetect and evAckSent: resend Hello, or give up on this peer and listen.
HelloTimeout ==
    /\ state \in {"Detect", "AckSent"}
    /\ \/ /\ sentPacket # "None" /\ ~Exhausted(t1, t1Max)
          /\ t1' = Count(t1, t1Max) /\ pending' = pending + 1
          /\ UNCHANGED <<state, sentPacket, commitPkt, verdict>>
       \/ /\ sentPacket # "None"        \* exhausted, or the timer failed
          /\ t1' = Count(t1, t1Max) /\ state' = "Detect" /\ commitPkt' = FALSE
          /\ UNCHANGED <<sentPacket, verdict, pending>>
       \/ Abort(pending) /\ UNCHANGED <<t1, commitPkt>>
    /\ UNCHANGED <<t2, srtp>>

\* evCommitSent, evWaitConfirm1, evWaitConfAck, evWaitErrorAck: resend, or
\* give the session up; the receiver enabled with Confirm2 is switched off.
ResendTimeout ==
    /\ state \in ResendStates
    /\ \/ /\ sentPacket # "None" /\ ~Exhausted(t2, T2Resend)
          /\ t2' = Count(t2, T2Resend) /\ pending' = pending + 1
          /\ UNCHANGED <<state, sentPacket, verdict, srtp>>
       \/ /\ Abort(pending) /\ t2' \in {t2, Count(t2, T2Resend)}
          /\ srtp' = IF state = "WaitConfAck" THEN srtp \ {"ForReceiver"} ELSE srtp
    /\ UNCHANGED <<t1, commitPkt>>

\* subEvWaitRelayAck: resend the SAS relay packet; once the retries are used
\* up the substate stays, and a failed send ends the session with SRTP on.
RelayTimeout ==
    /\ state = "SecureState" /\ secSubstate = "WaitSasRelayAck"
    /\ \/ /\ sentPacket # "None" /\ ~Exhausted(t2, T2Resend)
          /\ t2' = Count(t2, T2Resend) /\ pending' = pending + 1
          /\ UNCHANGED <<state, sentPacket, verdict>>
       \/ /\ sentPacket # "None" /\ t2' = Count(t2, T2Resend)
          /\ UNCHANGED <<state, sentPacket, verdict, pending>>
       \/ Abort(pending) /\ UNCHANGED t2
    /\ UNCHANGED <<t1, commitPkt, srtp>>

\* evInitial and evSecureState ignore a timeout.
IgnoredTimeout ==
    /\ state = "Initial" \/ (state = "SecureState" /\ secSubstate = "Normal")
    /\ UNCHANGED <<state, sentPacket, commitPkt, verdict, pending, srtp, t1, t2>>

\* Everywhere else a timeout is an unknown event and ends the session.
StrayTimeout ==
    state \in QuietStates /\ EndSession("failed", pending) /\ UNCHANGED <<t1, t2>>

\* handleTimeout -> processTimeout.
TimerEvent ==
    /\ firing /\ firing' = FALSE
    /\ HelloTimeout \/ ResendTimeout \/ RelayTimeout \/ IgnoredTimeout \/ StrayTimeout
    /\ UNCHANGED <<t1Max, starters, multiStream, relaying, secSubstate, sentVersion>>

-----------------------------------------------------------------------------

Next ==
    \/ SetMultiStream \/ StartZrtp \/ ZrtpInitialEvent \/ ZrtpClose
    \/ RelayCancel \/ SendSASRelay
    \/ RecvHello \/ RecvKeyAgreement
    \/ RecvMalformed \/ RecvError \/ RecvErrorAck \/ RecvRelayAck
    \/ TimeoutDue \/ TimerEvent

Spec == Init /\ [][Next]_vars

\* The timeout thread never stops: it takes due requests off its queue and
\* delivers them, and the stream's lock is always released again.  A call of
\* sendSASRelay that has begun ends.
FairSpec ==
    Spec /\ WF_vars(TimeoutDue) /\ WF_vars(TimerEvent) /\ WF_vars(SendSASRelay)

-----------------------------------------------------------------------------
(* Properties.                                                               *)

\* The variables have their types; sentVersion is always one of ours.
TypeOK ==
    /\ state \in States /\ sentPacket \in SentPackets /\ commitPkt \in BOOLEAN
    /\ secSubstate \in {"Normal", "WaitSasRelayAck"}
    /\ verdict \in {"none", "failed", "closed"}
    /\ t1 \in Nat /\ t2 \in Nat /\ t1Max \in {T1Resend, T1ResendExtend}
    /\ multiStream \in BOOLEAN /\ sentVersion \in Versions /\ srtp \subseteq Both
    /\ pending \in Nat /\ firing \in BOOLEAN /\ starters \in 0..MaxStarters
    /\ relay \in {"idle", "cancelled", "stored", "waiting", "failed", "dropped"}
    /\ relays \in 0..MaxRelays /\ strayRelay \in BOOLEAN

\* The packet that the "When entering this transition function" comments of the
\* ev* handlers name for a state, and in SecureState what is resent there: Conf2Ack
\* for a repeated Confirm2.
PacketOf ==
    [Detect       |-> "Hello",    AckSent      |-> "Hello",    WaitCommit |-> "HelloAck",
     CommitSent   |-> "Commit",   WaitDHPart2  |-> "DHPart1",  WaitConfirm1 |-> "DHPart2",
     WaitConfirm2 |-> "Confirm1", WaitConfAck  |-> "Confirm2", WaitErrorAck |-> "Error",
     SecureState  |-> "Conf2Ack"]

\* A SAS relay packet is in sentPacket only while its acknowledgement is awaited, or
\* for the moment before sendSASRelay says so.
RelayResendable ==
    state = "SecureState" /\ sentPacket = "SASrelay"
    /\ (secSubstate = "WaitSasRelayAck" \/ relay = "stored")

\* What a timeout or a repeated request makes the engine send again is the packet of
\* its state (Initial resends nothing); AckSent has the Commit that HelloAck makes it
\* send.  There may be nothing to send again in AckDetected, in SecureState, and,
\* against the comment of evCommitSent, in CommitSent: a DHPart1 that is ignored has
\* dropped the Commit, and the next timeout ends the session.  All this only until
\* sendSASRelay is called, or goes on, while the stream is not secure: nothing stops
\* it from replacing the packet of any state.
ResendMatchesState ==
    \/ strayRelay \/ state = "Initial"
    \/ /\ \/ sentPacket = "None" /\ state \in {"AckDetected", "CommitSent", "SecureState"}
          \/ state \in DOMAIN PacketOf /\ sentPacket = PacketOf[state]
          \/ RelayResendable
       /\ state = "AckSent" => commitPkt

\* No engine is left waiting for a silent peer as Initiator: the states that
\* only a resend can leave have a request queued or on its way, or sendSASRelay is
\* about to start one.  The states of the Responder have none, so nothing of theirs
\* can be resent by mistake, unless a SAS relay was sent while not secure.
TimerMatchesState ==
    /\ state \in ResendStates => pending > 0 \/ firing \/ relay # "idle"
    /\ state \in QuietStates => pending = 0 \/ strayRelay

\* Failed sends, restarts and stale timeouts never pile requests up in the
\* provider's queue: sendFailed and timerFailed cancel nothing, and
\* evInitial starts a timer without cancelling one.  sendSASRelay may add one,
\* when the engine starts its own between its cancelTimer and its startTimer.
Outstanding == pending + (IF firing THEN 1 ELSE 0)

RequestsBounded ==
    Outstanding <= (IF state = "Detect" THEN 3 ELSE 2) + (IF strayRelay THEN 1 ELSE 0)

\* SRTP is on in both directions in SecureState, and an Initiator that sent
\* Confirm2 can already receive SRTP (RFC 6189, 5.8, quoted in evWaitConfirm1).
SrtpMatchesState ==
    /\ state = "SecureState" => srtp = Both
    /\ state = "WaitConfAck" => "ForReceiver" \in srtp

\* Media is sent encrypted only from the step that makes the stream secure,
\* never while the peer may still lack the keys (evWaitConfirm2, evWaitConfAck).
SenderOnlyWhenSecure ==
    [][ ("ForSender" \in srtp' /\ "ForSender" \notin srtp)
          => state' = "SecureState" /\ state \in {"WaitConfirm2", "WaitConfAck"} ]_vars

\* A negotiation never ends without the client hearing of it: back in Initial
\* the engine has reported a failure, or the client closed it.
NoSilentAbort == state = "Initial" => verdict # "none"

\* Waiting ends: an Initiator that sent DHPart2 or Confirm2, and an engine that
\* sent Error, gives up after T2Resend resends if the peer stays silent, and
\* nothing the peer sends can keep it there (startTimer(&T2) is not reached
\* from these states without leaving them, except by sendSASRelay).
WaitingEnds ==
    \A s \in {"WaitConfirm1", "WaitConfAck", "WaitErrorAck"} :
        (state = s) ~> (state # s)
=============================================================================
