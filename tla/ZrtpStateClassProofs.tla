------------------------ MODULE ZrtpStateClassProofs ------------------------
(***************************************************************************)
(* Proofs about ZrtpStateClass, for all sets of versions and all resend    *)
(* limits.                                                                 *)
(***************************************************************************)
EXTENDS ZrtpStateClass, WellFoundedInduction, TLAPS

\* Highest picks an element of a set of versions that has a greatest one.
LEMMA HighestInSet ==
    ASSUME NEW S, \E top \in S : \A v \in S : v <= top
    PROVE  Highest(S) \in S
  BY DEF Highest

\* A set of natural numbers with an upper bound among the naturals has a
\* greatest element, so the fallback version of HelloOlder exists.
LEMMA FallbackInVersions ==
    ASSUME NEW r \in Nat, NEW K, K = {v \in Versions : v <= r}, K # {}
    PROVE  Highest(K) \in Versions
  <1> DEFINE T == {r - v : v \in K}
             R == OpToRel(<, Nat)
  <1>1. K \subseteq Nat
    BY ConstantsOK
  <1>2. T \subseteq Nat /\ T # {}
    BY <1>1
  <1>3. PICK x \in T : \A y \in T : ~(<<y, x>> \in R)
    <2> HIDE DEF T, R
    <2> QED BY <1>2, WFMin, NatLessThanWellFounded DEF R
  <1>4. \A y \in T : ~(y < x)
    BY <1>2, <1>3 DEF OpToRel
  <1>5. PICK top \in K : x = r - top
    BY <1>3
  <1>6. \A v \in K : v <= top
    <2> TAKE v \in K
    <2>1. ~(r - v < x)
      BY <1>4
    <2> QED
      BY <1>1, <1>5, <2>1
  <1> QED
    BY <1>5, <1>6, HighestInSet

-----------------------------------------------------------------------------
(* Type correctness.                                                         *)

LEMMA TypeInit == Init => TypeOK
  <1> SUFFICES ASSUME Init PROVE TypeOK
    OBVIOUS
  <1>1. sentVersion \in Versions
    BY ConstantsOK, HighestInSet DEF Init
  <1>2. /\ commitPkt \in BOOLEAN /\ multiStream \in BOOLEAN /\ firing \in BOOLEAN
        /\ strayRelay \in BOOLEAN
    BY DEF Init
  <1> QED
    BY <1>1, <1>2, ConstantsOK DEF Init, TypeOK, States, SentPackets, Both

\* nextTimer keeps a counter a natural number, whatever the resend limit.
LEMMA CountType ==
    ASSUME NEW c \in Nat, NEW max \in Int
    PROVE  Count(c, max) \in Nat
  BY DEF Count

\* The two ways a session is ended by an event that its state does not know.
LEMMA EndTypes ==
    ASSUME TypeOK, NEW v, NEW left, EndSession(v, left) \/ EndSecure(v, left)
    PROVE  state' = "Initial" /\ sentPacket' \in SentPackets /\ commitPkt' \in BOOLEAN
           /\ srtp' \subseteq Both /\ verdict' = v /\ pending' = left
  <1>1. sentPacket' \in SentPackets
    BY DEF TypeOK, EndSession, EndSecure, SentPackets
  <1>2. commitPkt' \in BOOLEAN
    BY Zenon DEF TypeOK, EndSession, EndSecure
  <1>3. srtp' \subseteq Both
    BY DEF TypeOK, EndSession, EndSecure
  <1> QED
    BY <1>1, <1>2, <1>3 DEF EndSession, EndSecure

LEMMA TypeStep == TypeOK /\ [Next]_vars => TypeOK'
  <1> SUFFICES ASSUME TypeOK, [Next]_vars PROVE TypeOK'
    OBVIOUS
  <1> USE ConstantsOK DEF TypeOK, relaying
  <1>1. CASE SetMultiStream
    BY <1>1 DEF SetMultiStream, engine, timers
  <1>2. CASE StartZrtp
    BY <1>2 DEF StartZrtp, engine, timers
  <1>3. CASE ZrtpInitialEvent
    <2>1. CASE StartInInitial \/ StartInDetect
      BY <1>3, <2>1 DEF ZrtpInitialEvent, StartInInitial, StartInDetect, RestartT1, Abort,
         States, SentPackets, Packets
    <2>2. CASE StartElsewhere
      <3>1. /\ state' = "Initial" /\ sentPacket' \in SentPackets /\ commitPkt' \in BOOLEAN
            /\ srtp' \subseteq Both /\ verdict' = "failed" /\ pending' = pending
        BY <2>2, EndTypes DEF StartElsewhere
      <3>2. UNCHANGED t1
        BY <2>2 DEF StartElsewhere
      <3> QED
        BY <1>3, <3>1, <3>2 DEF ZrtpInitialEvent, States
    <2> QED
      BY <1>3, <2>1, <2>2 DEF ZrtpInitialEvent
  <1>4. CASE ZrtpClose
    <2>1. CASE EndSession("closed", 0) \/ EndSecure("closed", 0)
      <3>1. /\ state' = "Initial" /\ sentPacket' \in SentPackets /\ commitPkt' \in BOOLEAN
            /\ srtp' \subseteq Both /\ verdict' = "closed" /\ pending' = 0
        BY <2>1, EndTypes
      <3> QED
        BY <1>4, <3>1 DEF ZrtpClose, States, timers, threads
    <2>2. CASE /\ pending' = 0
               /\ UNCHANGED <<state, sentPacket, commitPkt, verdict, srtp>>
      BY <1>4, <2>2 DEF ZrtpClose, timers, threads
    <2> QED
      BY <1>4, <2>1, <2>2 DEF ZrtpClose
  <1>5. CASE RelayCancel \/ SendSASRelay
    <2>1. strayRelay' \in BOOLEAN /\ UNCHANGED <<commitPkt, firing, multiStream>>
      BY <1>5, Zenon DEF RelayCancel, SendSASRelay, RelayStore, RelaySubstate, RelaySend, RelayDrop,
         RelayFailed, RelayStep
    <2> QED
      BY <1>5, <2>1 DEF RelayCancel, SendSASRelay, RelayStore, RelaySubstate, RelaySend, RelayDrop,
         RelayFailed, RelayStep, States, SentPackets, Packets
  <1>6. CASE RecvHello
    <2>1. CASE \E v \in PeerVersions : HelloNewer(v)
      BY <2>1 DEF HelloNewer, RestartT1, Abort, States, SentPackets, threads
    <2>2. ASSUME NEW v \in PeerVersions, HelloOlder(v) PROVE TypeOK'
      <3> DEFINE known == {w \in Versions : w <= v}
      <3>1. known # {} => Highest(known) \in Versions
        BY FallbackInVersions
      <3>2. sentVersion' \in Versions
        BY <2>2, <3>1 DEF HelloOlder
      <3> QED
        BY <2>2, <3>2 DEF HelloOlder, SendErrorPacket, RestartT1, Abort, States, SentPackets,
           Packets, threads
    <2>3. ASSUME NEW v \in PeerVersions, HelloSame(v) PROVE TypeOK'
      <3>1. commitPkt' \in BOOLEAN /\ multiStream' \in BOOLEAN /\ firing' \in BOOLEAN
        BY <2>3, Zenon DEF HelloSame, threads
      <3>2. t1Max' \in {T1Resend, T1ResendExtend}
        BY <2>3 DEF HelloSame, timers
      <3>3. t1' \in Nat /\ t2' \in Nat /\ pending' \in Nat
        BY <2>3 DEF HelloSame, RestartT1, SendErrorPacket, Abort, timers
      <3> QED
        BY <2>3, <3>1, <3>2, <3>3 DEF HelloSame, SendErrorPacket, RestartT1, Abort, States, SentPackets,
           Packets, threads
    <2>4. CASE HelloInAckSent
      BY <2>4 DEF HelloInAckSent, States, timers, threads
    <2>5. CASE HelloInAckDetected
      BY <2>5 DEF HelloInAckDetected, SendErrorPacket, SendAsResponder, Abort, States,
         SentPackets, Packets, threads
    <2> QED
      BY <1>6, <2>1, <2>2, <2>3, <2>4, <2>5 DEF RecvHello
  <1>7. CASE RecvKeyAgreement
    <2> USE DEF States, SentPackets, Packets, timers, threads, Abort, SendErrorPacket,
        SendAndStartT2, SendAsResponder
    <2>1. CASE HelloAckInDetect
      BY <2>1 DEF HelloAckInDetect
    <2>2. CASE HelloAckInAckSent
      <3>1. commitPkt' \in BOOLEAN
        BY <2>2, Zenon DEF HelloAckInAckSent
      <3>2. sentPacket' \in SentPackets
        BY <2>2 DEF HelloAckInAckSent
      <3> QED
        BY <2>2, <3>1, <3>2 DEF HelloAckInAckSent
    <2>3. CASE RepeatedRequest
      BY <2>3 DEF RepeatedRequest, Resend
    <2>4. CASE CommitWhileWaiting
      BY <2>4 DEF CommitWhileWaiting, AnswerCommit
    <2>5. CASE CommitClash
      BY <2>5 DEF CommitClash, AnswerCommit
    <2>6. CASE RecvDHPart1
      BY <2>6 DEF RecvDHPart1
    <2>7. CASE RecvDHPart2
      BY <2>7 DEF RecvDHPart2
    <2>8. CASE Confirm1InWaitConfirm1
      <3>1. srtp' \subseteq Both
        BY <2>8 DEF Confirm1InWaitConfirm1, Both
      <3> QED
        BY <2>8, <3>1 DEF Confirm1InWaitConfirm1
    <2>9. CASE Confirm1InCommitSent
      <3>1. srtp' \subseteq Both
        BY <2>9 DEF Confirm1InCommitSent, Both
      <3> QED
        BY <2>9, <3>1 DEF Confirm1InCommitSent
    <2>10. CASE Confirm2InWaitConfirm2
      <3>1. srtp' \subseteq Both
        BY <2>10 DEF Confirm2InWaitConfirm2, Both
      <3> QED
        BY <2>10, <3>1 DEF Confirm2InWaitConfirm2
    <2>11. CASE Confirm2InSecure
      BY <2>11 DEF Confirm2InSecure
    <2>12. CASE RecvConf2Ack
      <3>1. srtp' \subseteq Both
        BY <2>12 DEF RecvConf2Ack, Both
      <3> QED
        BY <2>12, <3>1 DEF RecvConf2Ack
    <2> QED
      BY <1>7, <2>1, <2>2, <2>3, <2>4, <2>5, <2>6, <2>7, <2>8, <2>9, <2>10, <2>11, <2>12
         DEF RecvKeyAgreement
  <1>8. CASE RecvMalformed
    BY <1>8 DEF RecvMalformed, SendErrorPacket, States, SentPackets, Packets, threads
  <1>9. CASE RecvError
    <2>1. CASE EndSession("failed", 0)
      <3>1. /\ state' = "Initial" /\ sentPacket' \in SentPackets /\ commitPkt' \in BOOLEAN
            /\ srtp' \subseteq Both /\ verdict' = "failed" /\ pending' = 0
        BY <2>1, EndTypes
      <3> QED
        BY <1>9, <3>1 DEF RecvError, States, timers, threads
    <2>2. CASE /\ pending' = 0
               /\ UNCHANGED <<state, sentPacket, commitPkt, verdict, srtp>>
      BY <1>9, <2>2 DEF RecvError, timers, threads
    <2> QED
      BY <1>9, <2>1, <2>2 DEF RecvError
  <1>10. CASE RecvErrorAck
    BY <1>10 DEF RecvErrorAck, States, SentPackets, timers, threads
  <1>11. CASE RecvRelayAck
    BY <1>11 DEF RecvRelayAck, SentPackets, timers, threads
  <1>12. CASE TimeoutDue
    BY <1>12 DEF TimeoutDue, engine, timers
  <1>13. CASE TimerEvent
    <2>1. Count(t1, t1Max) \in Nat /\ Count(t2, T2Resend) \in Nat
      BY CountType
    <2>2. firing' \in BOOLEAN /\ multiStream' \in BOOLEAN
      BY <1>13, Zenon DEF TimerEvent
    <2>3. CASE HelloTimeout
      <3>1. commitPkt' \in BOOLEAN
        BY <2>3, Zenon DEF HelloTimeout
      <3> QED
        BY <1>13, <2>1, <2>2, <2>3, <3>1 DEF TimerEvent, HelloTimeout, Abort, States, SentPackets
    <2>4. CASE ResendTimeout
      <3>1. srtp' \subseteq Both
        BY <2>4 DEF ResendTimeout
      <3> QED
        BY <1>13, <2>1, <2>2, <2>4, <3>1 DEF TimerEvent, ResendTimeout, Abort, States, SentPackets
    <2>5. CASE RelayTimeout \/ IgnoredTimeout
      BY <1>13, <2>1, <2>2, <2>5 DEF TimerEvent, RelayTimeout, IgnoredTimeout, Abort, States,
         SentPackets
    <2>6. CASE StrayTimeout
      <3>1. /\ state' = "Initial" /\ sentPacket' \in SentPackets /\ commitPkt' \in BOOLEAN
            /\ srtp' \subseteq Both /\ verdict' = "failed" /\ pending' = pending
        BY <2>6, EndTypes DEF StrayTimeout
      <3>2. UNCHANGED <<t1, t2>>
        BY <2>6 DEF StrayTimeout
      <3> QED
        BY <1>13, <3>1, <3>2 DEF TimerEvent, States
    <2> QED
      BY <1>13, <2>3, <2>4, <2>5, <2>6 DEF TimerEvent
  <1>14. CASE UNCHANGED vars
    BY <1>14 DEF vars, engine, timers, threads
  <1> QED
    BY <1>1, <1>2, <1>3, <1>4, <1>5, <1>6, <1>7, <1>8, <1>9, <1>10, <1>11, <1>12, <1>13, <1>14
       DEF Next

\* Every variable keeps its type; in particular the version of the Hello we send
\* is always one that the engine has a Hello packet for, whatever versions the
\* peer claims (evDetect, fallback to a lower version).
THEOREM TypeCorrect == Spec => []TypeOK
  BY TypeInit, TypeStep, PTL DEF Spec


-----------------------------------------------------------------------------
(* The control invariant.                                                    *)

\* An engine that waits for ErrorAck has told its client of the error: evWaitErrorAck
\* itself reports nothing, so NoSilentAbort is not inductive without this.
ErrorReported == state = "WaitErrorAck" => verdict # "none"

\* sendSASRelay begins with cancelTimer, so that there is room for the request it
\* ends with: RequestsBounded is not inductive without this.
RelayHasRoom ==
    relay # "idle" =>
        /\ Outstanding <= (IF state = "Detect" THEN 3 ELSE 2)
        /\ state = "SecureState" => Outstanding <= 1 \/ strayRelay

ControlInv ==
    /\ ResendMatchesState /\ TimerMatchesState /\ SrtpMatchesState
    /\ ErrorReported /\ NoSilentAbort /\ RequestsBounded /\ RelayHasRoom

\* The table PacketOf, entry by entry.
LEMMA PacketOfAt ==
    /\ DOMAIN PacketOf = {"Detect", "AckSent", "WaitCommit", "CommitSent", "WaitDHPart2",
           "WaitConfirm1", "WaitConfirm2", "WaitConfAck", "WaitErrorAck", "SecureState"}
    /\ PacketOf["Detect"] = "Hello" /\ PacketOf["AckSent"] = "Hello"
    /\ PacketOf["WaitCommit"] = "HelloAck" /\ PacketOf["CommitSent"] = "Commit"
    /\ PacketOf["WaitDHPart2"] = "DHPart1" /\ PacketOf["WaitConfirm1"] = "DHPart2"
    /\ PacketOf["WaitConfirm2"] = "Confirm1" /\ PacketOf["WaitConfAck"] = "Confirm2"
    /\ PacketOf["WaitErrorAck"] = "Error" /\ PacketOf["SecureState"] = "Conf2Ack"
  BY DEF PacketOf

LEMMA ControlInit == Init => ControlInv
  BY PacketOfAt DEF Init, ControlInv, ResendMatchesState, TimerMatchesState,
     SrtpMatchesState, ErrorReported, NoSilentAbort, RequestsBounded, Outstanding,
     RelayResendable, RelayHasRoom, ResendStates, QuietStates

LEMMA ControlStep == TypeOK /\ ControlInv /\ [Next]_vars => ControlInv'
  <1> SUFFICES ASSUME TypeOK, ControlInv, [Next]_vars PROVE ControlInv'
    OBVIOUS
  <1> USE PacketOfAt DEF ControlInv, TypeOK, ResendMatchesState, TimerMatchesState,
      SrtpMatchesState, ErrorReported, NoSilentAbort, RequestsBounded, Outstanding,
      RelayResendable, RelayHasRoom, ResendStates, QuietStates, Both, relaying
  <1>1. CASE SetMultiStream
    BY <1>1 DEF SetMultiStream, engine, timers
  <1>2. CASE StartZrtp
    BY <1>2 DEF StartZrtp, engine, timers
  <1>3. CASE ZrtpInitialEvent
    BY <1>3 DEF ZrtpInitialEvent, StartInInitial, StartInDetect, StartElsewhere,
       RestartT1, Abort, EndSession, EndSecure
  <1>4. CASE ZrtpClose
    BY <1>4 DEF ZrtpClose, EndSession, EndSecure, threads
  <1>5. CASE RelayCancel \/ SendSASRelay
    <2>1. strayRelay \/ state # "SecureState" => strayRelay'
      BY <1>5, Zenon DEF RelayCancel, SendSASRelay, RelayStore, RelaySubstate, RelaySend, RelayDrop,
         RelayFailed, RelayStep
    <2>2. UNCHANGED <<commitPkt, firing, srtp>>
      BY <1>5, Zenon DEF RelayCancel, SendSASRelay, RelayStore, RelaySubstate, RelaySend, RelayDrop,
         RelayFailed, RelayStep
    <2>3. CASE RelayCancel
      BY <2>1, <2>2, <2>3 DEF RelayCancel, RelayStep
    <2>4. CASE RelayStore
      BY <2>1, <2>2, <2>4 DEF RelayStore, RelayStep
    <2>5. CASE RelaySubstate
      BY <2>1, <2>2, <2>5 DEF RelaySubstate, RelayStep
    <2>6. CASE RelaySend
      BY <2>1, <2>2, <2>6 DEF RelaySend, RelayStep
    <2>7. CASE RelayDrop
      BY <2>1, <2>2, <2>7 DEF RelayDrop, RelayStep
    <2>8. CASE RelayFailed
      BY <2>1, <2>2, <2>8 DEF RelayFailed, RelayStep
    <2> QED
      BY <1>5, <2>3, <2>4, <2>5, <2>6, <2>7, <2>8 DEF SendSASRelay
  <1>6. ASSUME NEW v \in PeerVersions, HelloNewer(v) PROVE ControlInv'
    BY <1>6 DEF HelloNewer, RestartT1, Abort, threads
  <1>7. ASSUME NEW v \in PeerVersions, HelloOlder(v) PROVE ControlInv'
    BY <1>7 DEF HelloOlder, SendErrorPacket, RestartT1, Abort, threads
  <1>8. ASSUME NEW v \in PeerVersions, HelloSame(v) PROVE ControlInv'
    BY <1>8 DEF HelloSame, SendErrorPacket, RestartT1, Abort, threads
  <1>9. CASE HelloInAckSent
    BY <1>9 DEF HelloInAckSent, threads
  <1>10. CASE HelloInAckDetected
    BY <1>10 DEF HelloInAckDetected, SendErrorPacket, SendAsResponder, Abort, threads
  <1>11. CASE HelloAckInDetect
    BY <1>11 DEF HelloAckInDetect, threads
  <1>12. CASE HelloAckInAckSent
    BY <1>12 DEF HelloAckInAckSent, SendAndStartT2, Abort, threads
  <1>13. CASE RepeatedRequest
    BY <1>13 DEF RepeatedRequest, Resend, Abort, threads
  <1>14. CASE CommitWhileWaiting
    BY <1>14 DEF CommitWhileWaiting, AnswerCommit, SendAsResponder, SendErrorPacket,
       Abort, threads
  <1>15. CASE CommitClash
    BY <1>15 DEF CommitClash, AnswerCommit, SendAsResponder, SendErrorPacket, Abort,
       threads
  <1>16. CASE RecvDHPart1
    BY <1>16 DEF RecvDHPart1, SendAndStartT2, SendErrorPacket, Abort, threads
  <1>17. CASE RecvDHPart2
    BY <1>17 DEF RecvDHPart2, SendAsResponder, SendErrorPacket, Abort, threads
  <1>18. CASE Confirm1InWaitConfirm1
    BY <1>18 DEF Confirm1InWaitConfirm1, SendAndStartT2, SendErrorPacket, Abort, threads
  <1>19. CASE Confirm1InCommitSent
    BY <1>19 DEF Confirm1InCommitSent, SendAndStartT2, SendErrorPacket, Abort, threads
  <1>20. CASE Confirm2InWaitConfirm2
    BY <1>20 DEF Confirm2InWaitConfirm2, SendErrorPacket, Abort, threads
  <1>21. CASE Confirm2InSecure
    BY <1>21 DEF Confirm2InSecure, Abort, threads
  <1>22. CASE RecvConf2Ack
    <2>1. srtp \cup {"ForSender"} = Both
      <3>1. srtp \subseteq Both /\ "ForReceiver" \in srtp
        BY <1>22 DEF RecvConf2Ack
      <3> QED
        BY ONLY <3>1 DEF Both
    <2>2. state' = "SecureState" => srtp' = Both
      BY <1>22, <2>1 DEF RecvConf2Ack, SendErrorPacket
    <2> QED
      BY <1>22, <2>2 DEF RecvConf2Ack, SendErrorPacket, threads
  <1>23. CASE RecvMalformed
    BY <1>23 DEF RecvMalformed, SendErrorPacket, threads
  <1>24. CASE RecvError
    BY <1>24 DEF RecvError, EndSession, threads
  <1>25. CASE RecvErrorAck
    BY <1>25 DEF RecvErrorAck, threads
  <1>26. CASE RecvRelayAck
    BY <1>26 DEF RecvRelayAck, threads
  <1>27. CASE TimeoutDue
    BY <1>27 DEF TimeoutDue, engine
  <1>28. CASE TimerEvent
    BY <1>28 DEF TimerEvent, HelloTimeout, ResendTimeout, RelayTimeout, IgnoredTimeout,
       StrayTimeout, EndSession, Abort
  <1>29. CASE UNCHANGED vars
    BY <1>29 DEF vars, engine, threads
  <1> QED
    BY <1>1, <1>2, <1>3, <1>4, <1>5, <1>6, <1>7, <1>8, <1>9, <1>10, <1>11, <1>12,
       <1>13, <1>14, <1>15, <1>16, <1>17, <1>18, <1>19, <1>20, <1>21, <1>22, <1>23,
       <1>24, <1>25, <1>26, <1>27, <1>28, <1>29 DEF Next, RecvHello, RecvKeyAgreement

\* The inductive invariant holds in every state the engine reaches, whatever the
\* peer sends, whichever callbacks fail, and however timeouts, starts and the
\* unlocked steps of sendSASRelay overtake one another.
THEOREM Control == Spec => [](TypeOK /\ ControlInv)
  BY TypeInit, TypeStep, ControlInit, ControlStep, PTL DEF Spec

\* What is sent again is the packet of the current state (the resend branches of
\* the ev* handlers), and AckSent always has a Commit to send (evAckSent), as long as
\* no step of sendSASRelay has run outside SecureState.
THEOREM ResendCorrect == Spec => []ResendMatchesState
  <1>1. ControlInv => ResendMatchesState
    BY DEF ControlInv
  <1> QED
    BY <1>1, Control, PTL

\* A state that only a timeout can leave has one on its way, or sendSASRelay is about
\* to start one; a Responder state has no request queued unless sendSASRelay ran
\* outside SecureState (startTimer and cancelTimer in the ev* handlers).
THEOREM TimerCorrect == Spec => []TimerMatchesState
  <1>1. ControlInv => TimerMatchesState
    BY DEF ControlInv
  <1> QED
    BY <1>1, Control, PTL

\* SecureState means SRTP in both directions, and Confirm2 is only outstanding when
\* the receiver is on (srtpSecretsReady calls of evWaitConfirm1, evCommitSent,
\* evWaitConfirm2 and evWaitConfAck).
THEOREM SrtpCorrect == Spec => []SrtpMatchesState
  <1>1. ControlInv => SrtpMatchesState
    BY DEF ControlInv
  <1> QED
    BY <1>1, Control, PTL

\* Every return to Initial has been reported or was asked for (sendFailed,
\* timerFailed, sendErrorPacket, processEvent).
THEOREM AbortsReported == Spec => []NoSilentAbort
  <1>1. ControlInv => NoSilentAbort
    BY DEF ControlInv
  <1> QED
    BY <1>1, Control, PTL

\* Requests do not pile up in the timeout provider: at most three in Detect, two
\* elsewhere, for any number of restarts and failures (evInitial, sendFailed), and
\* one more once sendSASRelay ran outside SecureState.
THEOREM RequestsStayBounded == Spec => []RequestsBounded
  <1>1. ControlInv => RequestsBounded
    BY DEF ControlInv
  <1> QED
    BY <1>1, Control, PTL

-----------------------------------------------------------------------------
(* When the SRTP sender is enabled.                                          *)

SenderStep ==
    ("ForSender" \in srtp' /\ "ForSender" \notin srtp)
      => state' = "SecureState" /\ state \in {"WaitConfirm2", "WaitConfAck"}

LEMMA SenderEnabled == [Next]_vars => SenderStep
  <1> SUFFICES ASSUME [Next]_vars PROVE SenderStep
    OBVIOUS
  <1> USE DEF SenderStep, Both, relaying
  <1>1. CASE SetMultiStream
    BY <1>1 DEF SetMultiStream, engine, timers
  <1>2. CASE StartZrtp
    BY <1>2 DEF StartZrtp, engine, timers
  <1>3. CASE ZrtpInitialEvent
    BY <1>3 DEF ZrtpInitialEvent, StartInInitial, StartInDetect, StartElsewhere,
       RestartT1, Abort, EndSession, EndSecure
  <1>4. CASE ZrtpClose
    BY <1>4 DEF ZrtpClose, EndSession, EndSecure, threads
  <1>5. CASE RelayCancel \/ SendSASRelay
    BY <1>5 DEF RelayCancel, SendSASRelay, RelayStore, RelaySubstate, RelaySend, RelayDrop,
       RelayFailed, RelayStep
  <1>6. ASSUME NEW v \in PeerVersions, HelloNewer(v) PROVE SenderStep
    BY <1>6 DEF HelloNewer, RestartT1, Abort, threads
  <1>7. ASSUME NEW v \in PeerVersions, HelloOlder(v) PROVE SenderStep
    BY <1>7 DEF HelloOlder, SendErrorPacket, RestartT1, Abort, threads
  <1>8. ASSUME NEW v \in PeerVersions, HelloSame(v) PROVE SenderStep
    BY <1>8 DEF HelloSame, SendErrorPacket, RestartT1, Abort, threads
  <1>9. CASE HelloInAckSent
    BY <1>9 DEF HelloInAckSent, threads
  <1>10. CASE HelloInAckDetected
    BY <1>10 DEF HelloInAckDetected, SendErrorPacket, SendAsResponder, Abort, threads
  <1>11. CASE HelloAckInDetect
    BY <1>11 DEF HelloAckInDetect, threads
  <1>12. CASE HelloAckInAckSent
    BY <1>12 DEF HelloAckInAckSent, SendAndStartT2, Abort, threads
  <1>13. CASE RepeatedRequest
    BY <1>13 DEF RepeatedRequest, Resend, Abort, threads
  <1>14. CASE CommitWhileWaiting
    BY <1>14 DEF CommitWhileWaiting, AnswerCommit, SendAsResponder, SendErrorPacket,
       Abort, threads
  <1>15. CASE CommitClash
    BY <1>15 DEF CommitClash, AnswerCommit, SendAsResponder, SendErrorPacket, Abort,
       threads
  <1>16. CASE RecvDHPart1
    BY <1>16 DEF RecvDHPart1, SendAndStartT2, SendErrorPacket, Abort, threads
  <1>17. CASE RecvDHPart2
    BY <1>17 DEF RecvDHPart2, SendAsResponder, SendErrorPacket, Abort, threads
  <1>18. CASE Confirm1InWaitConfirm1
    BY <1>18 DEF Confirm1InWaitConfirm1, SendAndStartT2, SendErrorPacket, Abort, threads
  <1>19. CASE Confirm1InCommitSent
    BY <1>19 DEF Confirm1InCommitSent, SendAndStartT2, SendErrorPacket, Abort, threads
  <1>20. CASE Confirm2InWaitConfirm2
    BY <1>20 DEF Confirm2InWaitConfirm2, SendErrorPacket, Abort, threads
  <1>21. CASE Confirm2InSecure
    BY <1>21 DEF Confirm2InSecure, Abort, threads
  <1>22. CASE RecvConf2Ack
    BY <1>22 DEF RecvConf2Ack, SendErrorPacket, threads
  <1>23. CASE RecvMalformed
    BY <1>23 DEF RecvMalformed, SendErrorPacket, threads
  <1>24. CASE RecvError
    BY <1>24 DEF RecvError, EndSession, threads
  <1>25. CASE RecvErrorAck
    BY <1>25 DEF RecvErrorAck, threads
  <1>26. CASE RecvRelayAck
    BY <1>26 DEF RecvRelayAck, threads
  <1>27. CASE TimeoutDue
    BY <1>27 DEF TimeoutDue, engine
  <1>28. CASE TimerEvent
    BY <1>28 DEF TimerEvent, HelloTimeout, ResendTimeout, RelayTimeout, IgnoredTimeout,
       StrayTimeout, EndSession, Abort
  <1>29. CASE UNCHANGED vars
    BY <1>29 DEF vars, engine, threads
  <1> QED
    BY <1>1, <1>2, <1>3, <1>4, <1>5, <1>6, <1>7, <1>8, <1>9, <1>10, <1>11, <1>12,
       <1>13, <1>14, <1>15, <1>16, <1>17, <1>18, <1>19, <1>20, <1>21, <1>22, <1>23,
       <1>24, <1>25, <1>26, <1>27, <1>28, <1>29 DEF Next, RecvHello, RecvKeyAgreement

\* Media is sent encrypted only from the step that enters SecureState
\* (srtpSecretsReady(ForSender) in evWaitConfirm2 and evWaitConfAck).
THEOREM SenderCorrect == Spec => SenderOnlyWhenSecure
  BY SenderEnabled, PTL DEF Spec, SenderOnlyWhenSecure, SenderStep
=============================================================================
