---------------------------- MODULE CtZrtpProofs ----------------------------
(***************************************************************************)
(* Proofs about the Tivi client.  CtZrtpStream, for any set of calls (what   *)
(* the ends advertise in SDP) and for both discriminator modes: which         *)
(* protections are in use, that the two ends agree on them, and what          *)
(* discriminator mode promises, whatever the order of signaling, ZRTP and     *)
(* media.  CtZrtpSession, for any number of calls of a session: the two       *)
(* threads that start a Slave stream without a lock cannot miss each other,   *)
(* and no Slave runs without the parameters of a Master.                      *)
(***************************************************************************)
EXTENDS CtZrtpStream, CtZrtpSession, TLAPS

-----------------------------------------------------------------------------
(* CtZrtpStream: the inductive invariant.                                    *)

Fields == {"sdes", "useSdesForMedia", "useZrtpTunnel", "zrtpEncapSignaled", "hashes",
           "zrtpHashMatch", "peerHello", "eng", "send", "recv", "tiviState"}

\* The engine has gone past the Commit; it has the peer's Hello.
Committed ==
    {"WaitDHPart2", "WaitConfirm1", "WaitConfirm2", "WaitConfAck", "Secure"} \cup Switching
Greeted == {"AckSent", "CommitSent"} \cup Committed

\* Where parseSdes has made SDES active, and is not through.
Halfway == {"parsed", "told", "media"}
Undone == {"tunnel", "media", "sdes"}

StreamType(s) ==
    /\ DOMAIN s = Fields /\ s.sdes \in {"none", "initialized", "outReady", "active"}
    /\ s.useSdesForMedia \in BOOLEAN /\ s.useZrtpTunnel \in BOOLEAN
    /\ s.zrtpEncapSignaled \in BOOLEAN /\ s.zrtpHashMatch \in BOOLEAN
    /\ s.peerHello \in BOOLEAN /\ s.send \in BOOLEAN /\ s.recv \in BOOLEAN

\* How SDES is used (p: parsing, u: undone): only when active; once parseSdes is
\* through it is used, until ZRTP/SRTP takes over, and so is the tunnel.
SdesUse(s, p, u) ==
    /\ s.useSdesForMedia \/ s.useZrtpTunnel \/ p \in Halfway => s.sdes = "active"
    /\ p = "tested" => s.sdes \in {"initialized", "outReady"}
    /\ s.sdes = "initialized" => p = "tested"
    /\ p \in Halfway => ~s.useZrtpTunnel
    /\ p = "media" => s.zrtpEncapSignaled
    /\ s.sdes = "active" /\ p \notin {"parsed", "told"} /\ ~s.useSdesForMedia
           => s.send /\ s.hashes # {}
    /\ s.sdes = "active" /\ p \notin Halfway /\ ~s.send
           => "tunnel" \in u \/ s.useZrtpTunnel = s.zrtpEncapSignaled
    /\ s.send /\ s.eng # "SendOn" /\ "good" \in s.hashes /\ "media" \notin u => ~s.useSdesForMedia

\* What the callbacks of the engine leave behind in the stream.  After an error it
\* keeps SRTP.
EngineView(s, u) ==
    /\ s.send => s.recv /\ s.peerHello
    /\ s.send => s.eng \in {"SendOn", "Secure", "Failed"}
    /\ s.recv => s.eng \in {"WaitConfAck", "RecvOn", "SendOn", "Secure", "Failed"}
    /\ s.eng \in {"SendOn", "Secure"} => s.send
    /\ s.eng \in {"WaitConfAck", "RecvOn"} => s.recv
    /\ s.tiviState = "eSecure" => s.send
    /\ s.tiviState = "eSecureSdes" => s.sdes = "active" \/ "sdes" \in u
    /\ s.eng \in Greeted => s.peerHello

\* Discriminator mode: ZRTP runs in the SDES tunnel only, no thread clears it, and
\* the peer's Hello is vouched for or the application is told (x: exception).
Discriminated(s, x, u, t) ==
    /\ t # "plain" /\ "tunnel" \notin u
    /\ s.eng # "Initial" => s.sdes \in {"active", "none"}
    /\ s.peerHello /\ s.hashes # {} => s.zrtpHashMatch \/ x
    /\ s.eng \in Committed => s.zrtpHashMatch \/ x

EndOK(e) ==
    /\ StreamType(st[e]) /\ SdesUse(st[e], parsing[e], undone[e]) /\ EngineView(st[e], undone[e])
    /\ discriminatorMode => Discriminated(st[e], exception[e], undone[e], testing[e])

Types ==
    /\ DOMAIN st = Ends /\ exception \in [Ends -> BOOLEAN] /\ discriminatorMode \in BOOLEAN
    /\ parsing \in [Ends -> {"idle", "tested"} \cup Halfway] /\ undone \in [Ends -> SUBSET Undone]
    /\ testing \in [Ends -> {"no", "plain", "passed"}] /\ sending \in [Ends -> BOOLEAN]

Streams == Types /\ \A e \in Ends : EndOK(e)

\* The peer's SDP has reached the application of e.
Reached(e) == IF e = "answerer" THEN call # "idle" ELSE call = "answered"

\* parseSdes has been called; in discriminator mode the engine does not start before.
Beyond(e) ==
    st[e].sdes = "active" \/ parsing[e] # "idle" \/ (discriminatorMode /\ st[e].eng # "Initial")

\* What e knows of the peer's SDP and what it has still to be told is the SDP.
HandOver ==
    /\ sdp \in [Ends -> Attributes] /\ DOMAIN todo = Ends
    /\ \A e \in Ends :
        IF Reached(e)
        THEN /\ sdp[Other(e)].encap <=> "encap" \in todo[e] \/ st[e].zrtpEncapSignaled
             /\ sdp[Other(e)].hashes = st[e].hashes \cup (todo[e] \cap Hashes)
        ELSE todo[e] = {} /\ ~st[e].zrtpEncapSignaled /\ st[e].hashes = {}
    /\ \A e \in Ends : Beyond(e) => Reached(e) /\ "crypto" \notin todo[e]

\* No unprotected media in discriminator mode.
MediaProtected == \A m \in media : m.to \in Ends /\ (discriminatorMode => m.layers # {})

Inv == Streams /\ HandOver /\ MediaProtected

-----------------------------------------------------------------------------
(* One stream changes at a time.                                             *)

LEMMA OtherEnd == \A e \in Ends : Other(e) \in Ends /\ Other(e) # e /\ Other(Other(e)) = e
  BY DEF Ends, Other

LEMMA Updated ==
    ASSUME DOMAIN st = Ends, NEW e \in Ends, DOMAIN st[e] = Fields, NEW upd, Update(e, upd)
    PROVE  /\ DOMAIN st' = Ends /\ DOMAIN st'[e] = Fields
           /\ \A f \in Fields : st'[e][f] = IF f \in DOMAIN upd THEN upd[f] ELSE st[e][f]
           /\ \A o \in Ends : o # e => st'[o] = st[o]
  BY DEF Update

\* onDiscriminatorException concerns one end, and is not taken back.
LEMMA Raised ==
    ASSUME exception \in [Ends -> BOOLEAN], discriminatorMode \in BOOLEAN,
           NEW e \in Ends, NEW cond \in BOOLEAN, Raise(e, cond)
    PROVE  /\ exception' \in [Ends -> BOOLEAN]
           /\ exception[e] \/ (discriminatorMode /\ cond) => exception'[e]
           /\ \A o \in Ends : o # e => exception'[o] = exception[o]
  BY DEF Raise

LEMMA TakenBack ==
    ASSUME undone \in [Ends -> SUBSET Undone], NEW e \in Ends, NEW what \in Undone,
           NEW cond \in BOOLEAN, TakeBack(e, what, cond)
    PROVE  /\ undone' \in [Ends -> SUBSET Undone]
           /\ undone'[e] = IF cond THEN undone[e] \cup {what} ELSE undone[e]
           /\ \A o \in Ends : o # e => undone'[o] = undone[o]
  BY DEF TakeBack

\* The step gives the stream of e the fields of upd.
Fieldwise(e, upd) ==
    /\ DOMAIN st'[e] = Fields
    /\ \A f \in Fields : st'[e][f] = IF f \in DOMAIN upd THEN upd[f] ELSE st[e][f]

\* A step of parseSdes, to line to, keeps the stream of e in order; and one of the
\* engine, which in discriminator mode does not start without SDES.
ParseKeeps(e, to) ==
    /\ StreamType(st'[e]) /\ SdesUse(st'[e], to, undone'[e]) /\ EngineView(st'[e], undone'[e])
    /\ discriminatorMode => Discriminated(st'[e], exception[e], undone'[e], testing[e])

Keeps(e) ==
    /\ StreamType(st'[e]) /\ SdesUse(st'[e], parsing[e], undone[e]) /\ EngineView(st'[e], undone[e])
    /\ discriminatorMode => Discriminated(st'[e], exception'[e], undone[e], "no")
    /\ st'[e].sdes = st[e].sdes
    /\ discriminatorMode /\ st[e].eng = "Initial" /\ st'[e].eng # "Initial" => st[e].sdes = "active"

\* Nothing happens to the stream of o.
Still(o) ==
    /\ st'[o] = st[o] /\ exception'[o] = exception[o] /\ parsing'[o] = parsing[o]
    /\ undone'[o] = undone[o] /\ testing'[o] = testing[o]

LEMMA StreamsStep ==
    ASSUME Streams, NEW e \in Ends, Types', \A o \in Ends : o # e => Still(o), EndOK(e)',
           UNCHANGED discriminatorMode
    PROVE  Streams'
  <1>1. ASSUME NEW o \in Ends, o # e PROVE EndOK(o)'
    BY <1>1 DEF Streams, EndOK, Still
  <1> QED
    BY <1>1 DEF Streams

\* A step that leaves the signaled attributes alone.
LEMMA HandOverStep ==
    ASSUME HandOver, UNCHANGED <<sdp, call, todo>>,
           \A o \in Ends : st'[o].zrtpEncapSignaled = st[o].zrtpEncapSignaled
                        /\ st'[o].hashes = st[o].hashes /\ (Beyond(o)' => Beyond(o))
    PROVE  HandOver'
  BY DEF HandOver, Reached

\* A step of the stream at e, of its engine or of its media threads.
LEMMA StreamStep ==
    ASSUME Inv, NEW e \in Ends, Types', \A o \in Ends : o # e => Still(o),
           st'[e].zrtpEncapSignaled = st[e].zrtpEncapSignaled, st'[e].hashes = st[e].hashes,
           UNCHANGED <<sdp, call, todo, discriminatorMode>>, media' \subseteq media,
           EndOK(e)', Beyond(e)' => Beyond(e)
    PROVE  Inv'
  <1>1. Streams'
    BY StreamsStep DEF Inv
  <1>2. HandOver'
    <2>1. \A o \in Ends : o # e => (Beyond(o)' => Beyond(o)) /\ st'[o] = st[o]
      BY DEF Beyond, Still
    <2> QED
      BY <2>1, HandOverStep DEF Inv
  <1>3. MediaProtected'
    BY DEF Inv, MediaProtected
  <1> QED
    BY <1>1, <1>2, <1>3 DEF Inv

\* What is left to show of a step that changes some fields of the stream, but not the
\* signaled attributes.
LEMMA UpdateStep ==
    ASSUME Inv, NEW e \in Ends, NEW upd, Update(e, upd),
           "hashes" \notin DOMAIN upd, "zrtpEncapSignaled" \notin DOMAIN upd,
           parsing' \in [Ends -> {"idle", "tested"} \cup Halfway],
           undone' \in [Ends -> SUBSET Undone], exception' \in [Ends -> BOOLEAN],
           testing' \in [Ends -> {"no", "plain", "passed"}], UNCHANGED sending,
           \A o \in Ends : o # e => /\ exception'[o] = exception[o] /\ parsing'[o] = parsing[o]
                                   /\ undone'[o] = undone[o] /\ testing'[o] = testing[o],
           UNCHANGED <<sdp, call, todo, discriminatorMode>>, media' \subseteq media,
           Fieldwise(e, upd) => EndOK(e)' /\ (Beyond(e)' => Beyond(e))
    PROVE  Inv'
  <1>1. Types /\ DOMAIN st[e] = Fields
    BY DEF Inv, Streams, EndOK, StreamType
  <1>2. /\ DOMAIN st' = Ends /\ DOMAIN st'[e] = Fields
        /\ \A f \in Fields : st'[e][f] = IF f \in DOMAIN upd THEN upd[f] ELSE st[e][f]
        /\ \A o \in Ends : o # e => st'[o] = st[o]
    BY <1>1, Updated DEF Types
  <1>3. st'[e].zrtpEncapSignaled = st[e].zrtpEncapSignaled /\ st'[e].hashes = st[e].hashes
    BY <1>2 DEF Fields
  <1>4. Types' /\ \A o \in Ends : o # e => Still(o)
    BY <1>1, <1>2 DEF Types, Still
  <1> QED
    BY <1>2, <1>3, <1>4, StreamStep DEF Fieldwise

\* ... of a step of the engine: the application is where it was.
LEMMA EngineStep ==
    ASSUME Inv, NEW e \in Ends, NEW upd, Update(e, upd),
           "hashes" \notin DOMAIN upd, "zrtpEncapSignaled" \notin DOMAIN upd,
           exception' \in [Ends -> BOOLEAN],
           \A o \in Ends : o # e => exception'[o] = exception[o],
           testing' = testing \/ testing' = [testing EXCEPT ![e] = "no"],
           UNCHANGED <<sdp, call, todo, parsing, sending, undone, discriminatorMode>>,
           media' \subseteq media,
           Fieldwise(e, upd) => Keeps(e)
    PROVE  Inv'
  <1>1. Types /\ EndOK(e)
    BY DEF Inv, Streams
  <1>2. /\ testing' \in [Ends -> {"no", "plain", "passed"}]
        /\ \A o \in Ends : o # e => testing'[o] = testing[o]
        /\ testing'[e] = testing[e] \/ testing'[e] = "no"
    BY <1>1 DEF Types
  <1>3. ASSUME Fieldwise(e, upd) PROVE EndOK(e)' /\ (Beyond(e)' => Beyond(e))
    <2>1. discriminatorMode => testing'[e] # "plain"
      BY <1>1, <1>2 DEF EndOK, Discriminated
    <2>2. EndOK(e)'
      BY <1>3, <2>1 DEF Keeps, EndOK, Discriminated
    <2>3. Beyond(e)' => Beyond(e)
      BY <1>3 DEF Keeps, Beyond
    <2> QED
      BY <2>2, <2>3
  <1>4. parsing' \in [Ends -> {"idle", "tested"} \cup Halfway] /\ undone' \in [Ends -> SUBSET Undone]
    BY <1>1 DEF Types
  <1> QED
    BY <1>2, <1>3, <1>4, UpdateStep

-----------------------------------------------------------------------------
(* Signaling.                                                                *)

LEMMA CreateSdesInv == Inv /\ CreateSdes => Inv'
  <1> SUFFICES ASSUME Inv, CreateSdes PROVE Inv'
    OBVIOUS
  <1> DEFINE e == "inviter"
             upd == [sdes |-> "outReady"]
  <1>0. e \in Ends /\ Types /\ EndOK(e) /\ ~Beyond(e)
    BY DEF Inv, Streams, Ends, CreateSdes, HandOver, Reached
  <1>1. Update(e, upd) /\ st[e].sdes = "none"
        /\ UNCHANGED <<sdp, call, todo, parsing, testing, media, sending, exception, undone, discriminatorMode>>
    BY DEF CreateSdes, sip, rtp
  <1> HIDE DEF e
  <1>3. ASSUME Fieldwise(e, upd) PROVE EndOK(e)' /\ (Beyond(e)' => Beyond(e))
    BY <1>0, <1>1, <1>3 DEF Fieldwise, EndOK, StreamType, SdesUse, EngineView, Discriminated, Beyond, Fields,
       Halfway
  <1> QED
    BY <1>0, <1>1, <1>3, UpdateStep DEF Types

LEMMA OfferInv == Inv /\ (Invite \/ Answer) => Inv'
  <1> SUFFICES ASSUME Inv, Invite \/ Answer PROVE Inv'
    OBVIOUS
  <1>1. UNCHANGED <<sdp, st, parsing, testing, media, sending, exception, undone, discriminatorMode>>
    BY DEF Invite, Answer, rtp
  <1>2. Streams' /\ MediaProtected' /\ \A e \in Ends : Beyond(e)' = Beyond(e)
    BY <1>1 DEF Inv, Streams, Types, EndOK, MediaProtected, Beyond
  <1>3. \A e \in Ends, crypto \in BOOLEAN :
            /\ "encap" \in Advertised(e, crypto) <=> sdp[e].encap
            /\ Advertised(e, crypto) \cap Hashes = sdp[e].hashes
    BY DEF Inv, HandOver, Attributes, Advertised, Hashes
  <1>4. Other("inviter") = "answerer" /\ Other("answerer") = "inviter"
    BY DEF Other, Ends
  <1>5. HandOver'
    <2>1. CASE Invite
      BY <1>1, <1>2, <1>3, <1>4, <2>1 DEF Invite, Inv, HandOver, Reached, Ends, Attributes
    <2>2. CASE Answer
      <3>1. PICK crypto \in BOOLEAN :
                todo' = [todo EXCEPT !["inviter"] = Advertised("answerer", crypto)]
        BY <2>2 DEF Answer, isSdesActive
      <3>2. call = "offered" /\ call' = "answered"
        BY <2>2 DEF Answer
      <3> QED
        BY <1>1, <1>2, <1>3, <1>4, <3>1, <3>2 DEF Inv, HandOver, Reached, Ends, Attributes
    <2> QED
      BY <2>1, <2>2
  <1> QED
    BY <1>2, <1>5 DEF Inv

\* The end that is handed an attribute has received the peer's SDP.
LEMMA HandedOverFacts ==
    ASSUME Inv, NEW e \in Ends, NEW a, HandedOver(e, a)
    PROVE  /\ Reached(e) /\ a \in todo[e] /\ DOMAIN todo' = Ends
           /\ todo'[e] = todo[e] \ {a} /\ \A o \in Ends : o # e => todo'[o] = todo[o]
           /\ sdp[Other(e)].encap <=> "encap" \in todo[e] \/ st[e].zrtpEncapSignaled
           /\ sdp[Other(e)].hashes = st[e].hashes \cup (todo[e] \cap Hashes)
  BY DEF Inv, HandOver, HandedOver

\* ... and what it is handed is not forgotten.
LEMMA HandedOverStep ==
    ASSUME Inv, NEW e \in Ends, NEW a, HandedOver(e, a),
           Types', \A o \in Ends : o # e => Still(o), UNCHANGED <<sdp, call, media, discriminatorMode>>,
           IF a = "encap" THEN st'[e].zrtpEncapSignaled
           ELSE st'[e].zrtpEncapSignaled = st[e].zrtpEncapSignaled,
           st'[e].hashes = st[e].hashes \cup ({a} \cap Hashes),
           EndOK(e)', a = "crypto" \/ (Beyond(e)' => Beyond(e))
    PROVE  Inv'
  <1>1. \A o \in Ends : Reached(o)' = Reached(o)
    BY DEF Reached
  <1>2. /\ sdp'[Other(e)].encap <=> "encap" \in todo'[e] \/ st'[e].zrtpEncapSignaled
        /\ sdp'[Other(e)].hashes = st'[e].hashes \cup (todo'[e] \cap Hashes)
    BY HandedOverFacts
  <1>3. \A o \in Ends : Beyond(o)' => Reached(o)' /\ "crypto" \notin todo'[o]
    <2>1. \A o \in Ends : o # e => (Beyond(o)' => Beyond(o))
      BY DEF Beyond, Still
    <2> QED
      BY <1>1, <2>1, HandedOverFacts DEF Inv, HandOver
  <1>4. \A o \in Ends : o # e => st'[o] = st[o]
    BY DEF Still
  <1>5. HandOver'
    BY <1>1, <1>2, <1>3, <1>4, HandedOverFacts DEF Inv, HandOver
  <1>6. Streams'
    BY StreamsStep DEF Inv
  <1> QED
    BY <1>5, <1>6 DEF Inv, MediaProtected

LEMMA ParseTestInv == \A e \in Ends : Inv /\ ParseTest(e) => Inv'
  <1> SUFFICES ASSUME NEW e \in Ends, Inv, ParseTest(e) PROVE Inv'
    OBVIOUS
  <1>0. Types /\ EndOK(e) /\ DOMAIN st[e] = Fields
    BY DEF Inv, Streams, EndOK, StreamType
  <1>1. /\ HandedOver(e, "crypto") /\ ~Beyond(e)
        /\ UNCHANGED <<sdp, call, testing, media, sending, exception, undone, discriminatorMode>>
    <2>1. HandedOver(e, "crypto")
      BY DEF ParseTest
    <2>2. ~Beyond(e)
      BY <2>1 DEF HandedOver, Inv, HandOver
    <2> QED
      BY <2>1, <2>2 DEF ParseTest, rtp
  <1>2. CASE UNCHANGED <<st, parsing>>
    <2>1. EndOK(e)' /\ Types' /\ (\A o \in Ends : Still(o))
      BY <1>0, <1>1, <1>2 DEF EndOK, Types, Still
    <2> QED
      BY <1>1, <1>2, <2>1, HandedOverStep DEF Hashes
  <1>3. CASE ~UNCHANGED <<st, parsing>>
    <2> DEFINE upd == [sdes |-> IF st[e].sdes = "none" THEN "initialized" ELSE st[e].sdes]
    <2>1. Update(e, upd) /\ parsing' = [parsing EXCEPT ![e] = "tested"]
      BY <1>3 DEF ParseTest
    <2>2. /\ DOMAIN st' = Ends /\ DOMAIN st'[e] = Fields
          /\ \A f \in Fields : st'[e][f] = IF f \in DOMAIN upd THEN upd[f] ELSE st[e][f]
          /\ \A o \in Ends : o # e => st'[o] = st[o]
      BY <1>0, <2>1, Updated DEF Types
    <2>3. Types' /\ (\A o \in Ends : o # e => Still(o)) /\ parsing'[e] = "tested"
      BY <1>0, <1>1, <2>1, <2>2 DEF Types, Still
    <2>4. st[e].sdes # "active" /\ parsing[e] = "idle" /\ ~(discriminatorMode /\ st[e].eng # "Initial")
      BY <1>1 DEF Beyond
    <2>5. st'[e].sdes \in {"initialized", "outReady"}
      <3>1. st[e].sdes \in {"none", "outReady"}
        BY <1>0, <2>4 DEF EndOK, StreamType, SdesUse
      <3> QED
        BY <2>2, <3>1 DEF Fields
    <2>6. EndOK(e)'
      BY <1>0, <1>1, <2>2, <2>3, <2>4, <2>5
         DEF EndOK, StreamType, SdesUse, EngineView, Discriminated, Fields, Halfway
    <2>7. st'[e].hashes = st[e].hashes /\ st'[e].zrtpEncapSignaled = st[e].zrtpEncapSignaled
      BY <2>2 DEF Fields
    <2> QED
      BY <1>1, <2>3, <2>6, <2>7, HandedOverStep DEF Hashes
  <1> QED
    BY <1>2, <1>3

\* The rest of parseSdes: Beyond(e) holds already.
LEMMA ParseStepInv ==
    ASSUME NEW e \in Ends, Inv, NEW from, NEW to, NEW upd, ParseStep(e, from, to, upd),
           "hashes" \notin DOMAIN upd, "zrtpEncapSignaled" \notin DOMAIN upd, from # "idle",
           to \in {"idle", "tested"} \cup Halfway, undone' \in [Ends -> SUBSET Undone],
           \A o \in Ends : o # e => undone'[o] = undone[o],
           Fieldwise(e, upd) => ParseKeeps(e, to)
    PROVE  Inv'
  <1>0. Types
    BY DEF Inv, Streams
  <1>1. /\ Update(e, upd) /\ parsing[e] = from /\ parsing' = [parsing EXCEPT ![e] = to]
        /\ UNCHANGED <<sdp, call, todo, testing, media, sending, exception, discriminatorMode>>
    BY DEF ParseStep, sip, rtp
  <1>2. /\ parsing' \in [Ends -> {"idle", "tested"} \cup Halfway] /\ parsing'[e] = to
        /\ \A o \in Ends : o # e => parsing'[o] = parsing[o]
    BY <1>0, <1>1 DEF Types
  <1>3. Beyond(e)
    BY <1>1 DEF Beyond
  <1>4. exception' \in [Ends -> BOOLEAN] /\ testing' \in [Ends -> {"no", "plain", "passed"}]
    BY <1>0, <1>1 DEF Types
  <1>5. ASSUME Fieldwise(e, upd) PROVE EndOK(e)' /\ (Beyond(e)' => Beyond(e))
    BY <1>1, <1>2, <1>3, <1>5 DEF ParseKeeps, EndOK
  <1> QED
    BY <1>1, <1>2, <1>4, <1>5, UpdateStep

LEMMA ParseSdesInv == \A e \in Ends : Inv /\ ParseSdes(e) => Inv'
  <1> SUFFICES ASSUME NEW e \in Ends, Inv, ParseSdes(e) PROVE Inv'
    OBVIOUS
  <1>0. Types /\ EndOK(e) /\ undone \in [Ends -> SUBSET Undone]
    BY DEF Inv, Streams, Types
  <1> USE DEF Fields, Halfway
  <1>1. CASE ParseCrypto(e)
    <2> DEFINE upd == [sdes |-> "active"]
    <2>1. ParseStep(e, "tested", "parsed", upd) /\ UNCHANGED undone /\ parsing[e] = "tested"
      BY <1>1 DEF ParseCrypto, ParseStep
    <2>2. ASSUME Fieldwise(e, upd) PROVE ParseKeeps(e, "parsed")
      BY <1>0, <2>1, <2>2 DEF ParseKeeps, Fieldwise, EndOK, StreamType, SdesUse, EngineView, Discriminated
    <2> QED
      BY <1>0, <2>1, <2>2, ParseStepInv
  <1>2. CASE ParseRefused(e)
    <2> DEFINE upd == [sdes |-> "none", useSdesForMedia |-> FALSE, useZrtpTunnel |-> FALSE]
    <2>1. ParseStep(e, "tested", "idle", upd) /\ UNCHANGED undone /\ parsing[e] = "tested"
      BY <1>2 DEF ParseRefused, ParseStep, NoSdes
    <2>2. ASSUME Fieldwise(e, upd) PROVE ParseKeeps(e, "idle")
      BY <1>0, <2>1, <2>2 DEF ParseKeeps, Fieldwise, EndOK, StreamType, SdesUse, EngineView, Discriminated
    <2> QED
      BY <1>0, <2>1, <2>2, ParseStepInv
  <1>3. CASE ParseTell(e)
    <2> DEFINE upd == [tiviState |-> "eSecureSdes"]
    <2>1. ParseStep(e, "parsed", "told", upd) /\ UNCHANGED undone /\ parsing[e] = "parsed"
      BY <1>3 DEF ParseTell, ParseStep
    <2>2. ASSUME Fieldwise(e, upd) PROVE ParseKeeps(e, "told")
      BY <1>0, <2>1, <2>2 DEF ParseKeeps, Fieldwise, EndOK, StreamType, SdesUse, EngineView, Discriminated
    <2> QED
      BY <1>0, <2>1, <2>2, ParseStepInv
  <1>4. CASE ParseMedia(e)
    <2> DEFINE upd == [useSdesForMedia |-> TRUE]
               to == IF st[e].zrtpEncapSignaled THEN "media" ELSE "idle"
    <2>1. ParseStep(e, "told", to, upd) /\ TakeBack(e, "media", GivenUp(e)) /\ parsing[e] = "told"
      BY <1>4 DEF ParseMedia, ParseStep
    <2>2. GivenUp(e) \in BOOLEAN /\ "media" \in Undone
      BY DEF GivenUp, Undone
    <2>3. /\ undone' \in [Ends -> SUBSET Undone]
          /\ undone'[e] = IF GivenUp(e) THEN undone[e] \cup {"media"} ELSE undone[e]
          /\ \A o \in Ends : o # e => undone'[o] = undone[o]
      BY <1>0, <2>1, <2>2, TakenBack
    <2>4. ASSUME Fieldwise(e, upd) PROVE ParseKeeps(e, to)
      <3>1. StreamType(st'[e]) /\ EngineView(st'[e], undone'[e])
        BY <1>0, <2>1, <2>3, <2>4 DEF Fieldwise, EndOK, StreamType, EngineView, SdesUse
      <3>2. SdesUse(st'[e], to, undone'[e])
        BY <1>0, <2>1, <2>3, <2>4 DEF Fieldwise, EndOK, StreamType, SdesUse, GivenUp, EngineView
      <3>3. discriminatorMode => Discriminated(st'[e], exception[e], undone'[e], testing[e])
        BY <1>0, <2>1, <2>3, <2>4 DEF Fieldwise, EndOK, Discriminated
      <3> QED
        BY <3>1, <3>2, <3>3 DEF ParseKeeps
    <2>5. to \in {"idle", "tested"} \cup Halfway
      OBVIOUS
    <2> HIDE DEF to
    <2> QED
      BY <2>1, <2>3, <2>4, <2>5, ParseStepInv
  <1>5. CASE ParseTunnel(e)
    <2> DEFINE upd == [useZrtpTunnel |-> TRUE]
    <2>1. ParseStep(e, "media", "idle", upd) /\ UNCHANGED undone /\ parsing[e] = "media"
      BY <1>5 DEF ParseTunnel, ParseStep
    <2>2. ASSUME Fieldwise(e, upd) PROVE ParseKeeps(e, "idle")
      BY <1>0, <2>1, <2>2 DEF ParseKeeps, Fieldwise, EndOK, StreamType, SdesUse, EngineView, Discriminated
    <2> QED
      BY <1>0, <2>1, <2>2, ParseStepInv
  <1> QED
    BY <1>1, <1>2, <1>3, <1>4, <1>5, ParseTestInv DEF ParseSdes

LEMMA SetZrtpEncapAttributeInv == \A e \in Ends : Inv /\ SetZrtpEncapAttribute(e) => Inv'
  <1> SUFFICES ASSUME NEW e \in Ends, Inv, SetZrtpEncapAttribute(e) PROVE Inv'
    OBVIOUS
  <1> DEFINE upd == [zrtpEncapSignaled |-> TRUE,
                     useZrtpTunnel |-> st[e].useZrtpTunnel \/ st[e].useSdesForMedia]
  <1>0. Types /\ EndOK(e) /\ DOMAIN st[e] = Fields
    BY DEF Inv, Streams, EndOK, StreamType
  <1>1. /\ HandedOver(e, "encap") /\ Update(e, upd) /\ parsing[e] = "idle"
        /\ UNCHANGED <<sdp, call, parsing, testing, media, sending, exception, undone, discriminatorMode>>
    BY DEF SetZrtpEncapAttribute, HandedOver, rtp
  <1>2. /\ DOMAIN st' = Ends /\ DOMAIN st'[e] = Fields
        /\ \A f \in Fields : st'[e][f] = IF f \in DOMAIN upd THEN upd[f] ELSE st[e][f]
        /\ \A o \in Ends : o # e => st'[o] = st[o]
    BY <1>0, <1>1, Updated DEF Types
  <1>3. Types' /\ \A o \in Ends : o # e => Still(o)
    BY <1>0, <1>1, <1>2 DEF Types, Still
  <1>4. EndOK(e)' /\ (Beyond(e)' => Beyond(e))
    BY <1>0, <1>1, <1>2
       DEF EndOK, StreamType, SdesUse, EngineView, Discriminated, Fields, Halfway, Beyond
  <1>5. st'[e].zrtpEncapSignaled /\ st'[e].hashes = st[e].hashes
    BY <1>2 DEF Fields
  <1> QED
    BY <1>1, <1>3, <1>4, <1>5, HandedOverStep DEF Hashes

LEMMA SetSignalingHelloHashInv ==
    \A e \in Ends, h \in Hashes : Inv /\ SetSignalingHelloHash(e, h) => Inv'
  <1> SUFFICES ASSUME NEW e \in Ends, NEW h \in Hashes, Inv, SetSignalingHelloHash(e, h)
               PROVE  Inv'
    OBVIOUS
  <1> DEFINE hashes == st[e].hashes \cup {h}
             match  == st[e].peerHello /\ "good" \in hashes
             upd == [hashes |-> hashes, zrtpHashMatch |-> st[e].zrtpHashMatch \/ match,
                     useSdesForMedia |-> st[e].useSdesForMedia /\
                         ~(match /\ st[e].sdes # "none" /\ st[e].send /\ st[e].recv)]
             cond == st[e].peerHello /\ ~st[e].zrtpHashMatch /\ ~match
  <1>0. Types /\ EndOK(e) /\ DOMAIN st[e] = Fields
    BY DEF Inv, Streams, EndOK, StreamType
  <1>1. /\ HandedOver(e, h) /\ Update(e, upd) /\ Raise(e, cond)
        /\ parsing[e] = "idle" /\ st[e].eng # "SendOn"
        /\ UNCHANGED <<sdp, call, parsing, testing, media, sending, undone, discriminatorMode>>
    BY DEF SetSignalingHelloHash, HandedOver, Switching, rtp
  <1>2. /\ DOMAIN st' = Ends /\ DOMAIN st'[e] = Fields
        /\ \A f \in Fields : st'[e][f] = IF f \in DOMAIN upd THEN upd[f] ELSE st[e][f]
        /\ \A o \in Ends : o # e => st'[o] = st[o]
    BY <1>0, <1>1, Updated DEF Types
  <1>3. /\ exception' \in [Ends -> BOOLEAN]
        /\ exception[e] \/ (discriminatorMode /\ cond) => exception'[e]
        /\ \A o \in Ends : o # e => exception'[o] = exception[o]
    <2>1. cond \in BOOLEAN
      OBVIOUS
    <2> HIDE DEF cond
    <2> QED
      BY <1>0, <1>1, <2>1, Raised DEF Types
  <1>4. /\ st'[e].hashes = hashes /\ st'[e].zrtpHashMatch = (st[e].zrtpHashMatch \/ match)
        /\ st'[e].useSdesForMedia = (st[e].useSdesForMedia /\
               ~(match /\ st[e].sdes # "none" /\ st[e].send /\ st[e].recv))
        /\ st'[e].sdes = st[e].sdes /\ st'[e].useZrtpTunnel = st[e].useZrtpTunnel
        /\ st'[e].zrtpEncapSignaled = st[e].zrtpEncapSignaled
        /\ st'[e].peerHello = st[e].peerHello /\ st'[e].eng = st[e].eng
        /\ st'[e].send = st[e].send /\ st'[e].recv = st[e].recv
        /\ st'[e].tiviState = st[e].tiviState
    BY <1>2 DEF Fields
  <1>5. EndOK(e)'
    <2>1. StreamType(st'[e])
      BY <1>0, <1>2, <1>4 DEF EndOK, StreamType
    <2>2. SdesUse(st'[e], parsing[e], undone[e])
      BY <1>0, <1>1, <1>4 DEF EndOK, StreamType, SdesUse, EngineView, Hashes, Halfway
    <2>3. EngineView(st'[e], undone[e])
      BY <1>0, <1>4 DEF EndOK, EngineView
    <2>4. discriminatorMode => Discriminated(st'[e], exception'[e], undone[e], testing[e])
      BY <1>0, <1>3, <1>4 DEF EndOK, StreamType, Discriminated
    <2> QED
      BY <1>1, <2>1, <2>2, <2>3, <2>4 DEF EndOK
  <1>6. Types' /\ \A o \in Ends : o # e => Still(o)
    BY <1>0, <1>1, <1>2, <1>3 DEF Types, Still
  <1>7. /\ h # "encap" /\ st'[e].hashes = st[e].hashes \cup ({h} \cap Hashes)
        /\ Beyond(e)' => Beyond(e)
    BY <1>1, <1>4 DEF Hashes, Beyond
  <1> QED
    BY <1>1, <1>4, <1>5, <1>6, <1>7, HandedOverStep

LEMMA ResetSdesContextInv == \A e \in Ends : Inv /\ ResetSdesContext(e) => Inv'
  <1> SUFFICES ASSUME NEW e \in Ends, Inv, ResetSdesContext(e) PROVE Inv'
    OBVIOUS
  <1> DEFINE upd == [sdes |-> "none", useSdesForMedia |-> FALSE, useZrtpTunnel |-> FALSE]
  <1>0. Types /\ EndOK(e) /\ undone \in [Ends -> SUBSET Undone]
    BY DEF Inv, Streams, Types
  <1>1. /\ Update(e, upd) /\ parsing[e] = "idle" /\ TakeBack(e, "sdes", isSdesActive(e))
        /\ UNCHANGED <<sdp, call, todo, parsing, testing, media, sending, exception, discriminatorMode>>
    BY DEF ResetSdesContext, NoSdes, sip, rtp
  <1>2. /\ undone' \in [Ends -> SUBSET Undone]
        /\ undone'[e] = IF st[e].sdes = "active" THEN undone[e] \cup {"sdes"} ELSE undone[e]
        /\ \A o \in Ends : o # e => undone'[o] = undone[o]
    <2>1. isSdesActive(e) \in BOOLEAN /\ "sdes" \in Undone
      BY DEF isSdesActive, Undone
    <2>2. /\ undone' \in [Ends -> SUBSET Undone]
          /\ undone'[e] = IF isSdesActive(e) THEN undone[e] \cup {"sdes"} ELSE undone[e]
          /\ \A o \in Ends : o # e => undone'[o] = undone[o]
      BY <1>0, <1>1, <2>1, TakenBack
    <2> QED
      BY <2>2 DEF isSdesActive
  <1>3. ASSUME Fieldwise(e, upd) PROVE EndOK(e)' /\ (Beyond(e)' => Beyond(e))
    <2>1. Beyond(e)' => Beyond(e)
      BY <1>1, <1>3 DEF Fieldwise, Beyond, Fields
    <2>2. SdesUse(st'[e], parsing[e], undone'[e])
      BY <1>0, <1>1, <1>3 DEF Fieldwise, EndOK, SdesUse, Fields, Halfway
    <2>3. EngineView(st'[e], undone'[e])
      BY <1>0, <1>2, <1>3 DEF Fieldwise, EndOK, EngineView, Fields
    <2>4. StreamType(st'[e])
      BY <1>0, <1>3 DEF Fieldwise, EndOK, StreamType, Fields
    <2>5. discriminatorMode => Discriminated(st'[e], exception[e], undone'[e], testing[e])
      BY <1>0, <1>2, <1>3 DEF Fieldwise, EndOK, Discriminated, Fields
    <2> QED
      BY <1>1, <2>1, <2>2, <2>3, <2>4, <2>5 DEF EndOK
  <1> QED
    BY <1>0, <1>1, <1>2, <1>3, UpdateStep DEF Types

-----------------------------------------------------------------------------
(* The engines.                                                              *)

LEMMA StartInv == \A e \in Ends : Inv /\ Start(e) => Inv'
  <1> SUFFICES ASSUME NEW e \in Ends, Inv, Start(e) PROVE Inv'
    OBVIOUS
  <1>0. EndOK(e) /\ exception \in [Ends -> BOOLEAN]
    BY DEF Inv, Streams, Types
  <1>1. /\ st[e].eng = "Initial" /\ parsing[e] = "idle"
        /\ UNCHANGED <<sdp, call, todo, parsing, testing, media, sending, undone, discriminatorMode>>
    BY DEF Start, sip, rtp
  <1>2. CASE CanSend(e)
    <2> DEFINE upd == [eng |-> "Detect", tiviState |-> "eLookingPeer"]
    <2>1. Update(e, upd) /\ UNCHANGED exception
      BY <1>2 DEF Start
    <2>2. ASSUME Fieldwise(e, upd) PROVE Keeps(e)
      BY <1>0, <1>1, <1>2, <2>1, <2>2 DEF Keeps, Fieldwise, EndOK, StreamType, SdesUse, EngineView,
         Discriminated, Committed, Greeted, Switching, Fields, CanSend
    <2> QED
      BY <1>0, <1>1, <2>1, <2>2, EngineStep
  <1>3. CASE ~CanSend(e)
    <2> DEFINE upd == [tiviState |-> "eLookingPeer"]
    <2>1. Update(e, upd) /\ exception' = [exception EXCEPT ![e] = TRUE]
      BY <1>3 DEF Start
    <2>2. ASSUME Fieldwise(e, upd) PROVE Keeps(e)
      BY <1>0, <1>1, <2>1, <2>2 DEF Keeps, Fieldwise, EndOK, StreamType, SdesUse, EngineView,
         Discriminated, Committed, Greeted, Switching, Fields
    <2>3. /\ exception' \in [Ends -> BOOLEAN]
          /\ \A o \in Ends : o # e => exception'[o] = exception[o]
      BY <1>0, <2>1
    <2> QED
      BY <1>1, <2>1, <2>2, <2>3, EngineStep
  <1> QED
    BY <1>2, <1>3

LEMMA RecvHelloInv == \A e \in Ends : Inv /\ RecvHello(e) => Inv'
  <1> SUFFICES ASSUME NEW e \in Ends, Inv, RecvHello(e) PROVE Inv'
    OBVIOUS
  <1> DEFINE match == st[e].zrtpHashMatch \/ "good" \in st[e].hashes
             cond == st[e].hashes # {} /\ ~match
             upd == [eng |-> "AckSent", peerHello |-> TRUE, zrtpHashMatch |-> match]
  <1>0. Types /\ EndOK(e)
    BY DEF Inv, Streams
  <1>1. /\ st[e].eng \in {"Detect", "Quiet"} /\ Update(e, upd) /\ Raise(e, cond)
        /\ testing' = [testing EXCEPT ![e] = "no"]
        /\ UNCHANGED <<sdp, call, todo, parsing, media, sending, undone, discriminatorMode>>
    BY DEF RecvHello, Handle, sip
  <1>2. /\ exception' \in [Ends -> BOOLEAN]
        /\ exception[e] \/ (discriminatorMode /\ cond) => exception'[e]
        /\ \A o \in Ends : o # e => exception'[o] = exception[o]
    <2>1. cond \in BOOLEAN
      OBVIOUS
    <2> HIDE DEF cond
    <2> QED
      BY <1>0, <1>1, <2>1, Raised DEF Types
  <1>3. ASSUME Fieldwise(e, upd) PROVE Keeps(e)
    BY <1>0, <1>1, <1>2, <1>3 DEF Keeps, Fieldwise, EndOK, StreamType, SdesUse, EngineView,
       Discriminated, Committed, Greeted, Switching, Fields
  <1> QED
    BY <1>1, <1>2, <1>3, EngineStep

\* RecvCommit and RecvDHPart1: the peer has committed.
LEMMA CommittedInv ==
    ASSUME NEW e \in Ends, NEW next \in {"WaitDHPart2", "WaitConfirm1"}, Inv,
           st[e].eng \in {"AckSent", "CommitSent"}, Raise(e, st[e].hashes = {}),
           Update(e, [eng |-> next, tiviState |-> GoingSecure(e)]),
           testing' = [testing EXCEPT ![e] = "no"],
           UNCHANGED <<sdp, call, todo, parsing, media, sending, undone, discriminatorMode>>
    PROVE  Inv'
  <1> DEFINE upd == [eng |-> next, tiviState |-> GoingSecure(e)]
             cond == st[e].hashes = {}
  <1>0. Types /\ EndOK(e)
    BY DEF Inv, Streams
  <1>1. /\ exception' \in [Ends -> BOOLEAN]
        /\ exception[e] \/ (discriminatorMode /\ cond) => exception'[e]
        /\ \A o \in Ends : o # e => exception'[o] = exception[o]
    <2>1. cond \in BOOLEAN /\ Raise(e, cond)
      OBVIOUS
    <2> HIDE DEF cond
    <2> QED
      BY <1>0, <2>1, Raised DEF Types
  <1>2. ASSUME Fieldwise(e, upd) PROVE Keeps(e)
    BY <1>0, <1>1, <1>2 DEF Keeps, Fieldwise, EndOK, StreamType, SdesUse, EngineView,
       Discriminated, Committed, Greeted, Switching, Fields, GoingSecure
  <1> QED
    BY <1>1, <1>2, EngineStep

\* The other packets of the exchange.
LEMMA ExchangeInv == \A e \in Ends : Inv /\ (RecvHelloAck(e) \/ RecvDHPart2(e) \/ RecvConfirm1(e) \/ RecvConfirm2(e)) => Inv'
  <1> SUFFICES ASSUME NEW e \in Ends, Inv, RecvHelloAck(e) \/ RecvDHPart2(e) \/ RecvConfirm1(e) \/ RecvConfirm2(e)
               PROVE  Inv'
    OBVIOUS
  <1>0. EndOK(e) /\ exception \in [Ends -> BOOLEAN]
    BY DEF Inv, Streams, Types
  <1>1. /\ UNCHANGED <<sdp, call, todo, parsing, media, sending, exception, undone, discriminatorMode>>
        /\ testing' = testing \/ testing' = [testing EXCEPT ![e] = "no"]
    BY DEF RecvHelloAck, RecvDHPart2, Handle, RecvConfirm1, RecvConfirm2, sip, rtp
  <1> USE DEF EndOK, StreamType, SdesUse, EngineView, Discriminated, Committed, Greeted, Switching, Fields
  <1>2. CASE RecvHelloAck(e)
    <2> DEFINE upd == [eng |-> "CommitSent"]
    <2>1. st[e].eng = "AckSent" /\ Update(e, upd)
      BY <1>2 DEF RecvHelloAck
    <2>2. ASSUME Fieldwise(e, upd) PROVE Keeps(e)
      BY <1>0, <1>1, <2>1, <2>2 DEF Keeps, Fieldwise
    <2> QED
      BY <1>0, <1>1, <2>1, <2>2, EngineStep
  <1>3. CASE RecvDHPart2(e)
    <2> DEFINE upd == [eng |-> "WaitConfirm2"]
    <2>1. st[e].eng = "WaitDHPart2" /\ Update(e, upd)
      BY <1>3 DEF RecvDHPart2, Handle
    <2>2. ASSUME Fieldwise(e, upd) PROVE Keeps(e)
      BY <1>0, <1>1, <2>1, <2>2 DEF Keeps, Fieldwise
    <2> QED
      BY <1>0, <1>1, <2>1, <2>2, EngineStep
  <1>4. CASE RecvConfirm1(e)
    <2> DEFINE upd == [eng |-> "WaitConfAck", recv |-> TRUE]
    <2>1. st[e].eng = "WaitConfirm1" /\ Update(e, upd)
      BY <1>4 DEF RecvConfirm1, Handle
    <2>2. ASSUME Fieldwise(e, upd) PROVE Keeps(e)
      BY <1>0, <1>1, <2>1, <2>2 DEF Keeps, Fieldwise
    <2> QED
      BY <1>0, <1>1, <2>1, <2>2, EngineStep
  <1>5. CASE RecvConfirm2(e)
    <2> DEFINE upd == [eng |-> "Finishing"]
    <2>1. st[e].eng = "WaitConfirm2" /\ Update(e, upd)
      BY <1>5 DEF RecvConfirm2, Handle
    <2>2. ASSUME Fieldwise(e, upd) PROVE Keeps(e)
      BY <1>0, <1>1, <2>1, <2>2 DEF Keeps, Fieldwise
    <2> QED
      BY <1>0, <1>1, <2>1, <2>2, EngineStep
  <1> QED
    BY <1>2, <1>3, <1>4, <1>5

\* sendSrtp: after recvSrtp, after Conf2Ack, or after a good SRTP packet.
LEMMA SendOnInv ==
    ASSUME NEW e \in Ends, Inv, st[e].eng \in {"RecvOn", "WaitConfAck"}, Update(e, SendOn),
           media' \subseteq media, testing' = testing \/ testing' = [testing EXCEPT ![e] = "no"],
           UNCHANGED <<sdp, call, todo, parsing, sending, exception, undone, discriminatorMode>>
    PROVE  Inv'
  <1> DEFINE upd == [eng |-> "SendOn", send |-> TRUE]
  <1>0. EndOK(e) /\ exception \in [Ends -> BOOLEAN]
    BY DEF Inv, Streams, Types
  <1>1. Update(e, upd)
    BY DEF SendOn
  <1>2. ASSUME Fieldwise(e, upd) PROVE Keeps(e)
    BY <1>0, <1>2 DEF Keeps, Fieldwise, EndOK, StreamType, SdesUse, EngineView, Discriminated,
       Committed, Greeted, Switching, Fields
  <1> QED
    BY <1>0, <1>1, <1>2, EngineStep

\* srtpSecretsReady in the Responder, and how it ends in both.
LEMMA SwitchInv == \A e \in Ends : Inv /\ (RecvOn(e) \/ SecureOn(e)) => Inv'
  <1> SUFFICES ASSUME NEW e \in Ends, Inv, RecvOn(e) \/ SecureOn(e)
               PROVE  Inv'
    OBVIOUS
  <1>0. EndOK(e) /\ exception \in [Ends -> BOOLEAN]
    BY DEF Inv, Streams, Types
  <1>1. /\ UNCHANGED <<sdp, call, todo, parsing, media, sending, exception, undone, discriminatorMode>>
        /\ testing' = testing \/ testing' = [testing EXCEPT ![e] = "no"]
    BY DEF RecvOn, Switch, SecureOn, sip, rtp
  <1> USE DEF EndOK, StreamType, SdesUse, EngineView, Discriminated, Committed, Greeted, Switching, Fields
  <1>2. CASE RecvOn(e)
    <2> DEFINE upd == [eng |-> "RecvOn", recv |-> TRUE]
    <2>1. st[e].eng = "Finishing" /\ Update(e, upd)
      BY <1>2 DEF RecvOn, Switch
    <2>2. ASSUME Fieldwise(e, upd) PROVE Keeps(e)
      BY <1>0, <1>1, <2>1, <2>2 DEF Keeps, Fieldwise
    <2> QED
      BY <1>0, <1>1, <2>1, <2>2, EngineStep
  <1>3. CASE SecureOn(e)
    <2> DEFINE upd == [eng |-> "Secure", tiviState |-> "eSecure",
                       useSdesForMedia |-> st[e].useSdesForMedia /\ st[e].hashes = {}]
    <2>1. st[e].eng = "SendOn" /\ Update(e, upd)
      BY <1>3 DEF SecureOn, Switch
    <2>2. ASSUME Fieldwise(e, upd) PROVE Keeps(e)
      BY <1>0, <1>1, <2>1, <2>2 DEF Keeps, Fieldwise
    <2> QED
      BY <1>0, <1>1, <2>1, <2>2, EngineStep
  <1> QED
    BY <1>2, <1>3

\* The timers, and errors.
LEMMA FailInv == \A e \in Ends : Inv /\ (NotSuppOther(e) \/ TimerFailed(e) \/ RecvError(e) \/ SendErrorPacket(e)) => Inv'
  <1> SUFFICES ASSUME NEW e \in Ends, Inv, NotSuppOther(e) \/ TimerFailed(e) \/ RecvError(e) \/ SendErrorPacket(e)
               PROVE  Inv'
    OBVIOUS
  <1>0. EndOK(e) /\ exception \in [Ends -> BOOLEAN]
    BY DEF Inv, Streams, Types
  <1>1. /\ UNCHANGED <<sdp, call, todo, parsing, media, sending, exception, undone, discriminatorMode>>
        /\ testing' = testing \/ testing' = [testing EXCEPT ![e] = "no"]
    BY DEF NotSuppOther, isSdesActive, TimerFailed, Failed, Handshake, RecvError, Handle, SendErrorPacket, sip, rtp
  <1> USE DEF EndOK, StreamType, SdesUse, EngineView, Discriminated, Committed, Greeted, Switching, Fields
  <1>2. CASE NotSuppOther(e)
    <2> DEFINE upd == [eng |-> "Quiet",
                       tiviState |-> IF st[e].sdes = "active" THEN "eSecureSdes" ELSE "eNoPeer"]
    <2>1. st[e].eng \in {"Detect", "AckSent"} /\ Update(e, upd)
      BY <1>2 DEF NotSuppOther, isSdesActive
    <2>2. ASSUME Fieldwise(e, upd) PROVE Keeps(e)
      BY <1>0, <1>1, <2>1, <2>2 DEF Keeps, Fieldwise
    <2> QED
      BY <1>0, <1>1, <2>1, <2>2, EngineStep
  <1>3. CASE TimerFailed(e)
    <2> DEFINE upd == [eng |-> "Failed", recv |-> FALSE, tiviState |-> "eError"]
    <2>1. st[e].eng \in Handshake /\ Update(e, upd)
      BY <1>3 DEF TimerFailed, Failed, Handshake
    <2>2. ASSUME Fieldwise(e, upd) PROVE Keeps(e)
      BY <1>0, <1>1, <2>1, <2>2 DEF Keeps, Fieldwise, Handshake
    <2> QED
      BY <1>0, <1>1, <2>1, <2>2, EngineStep
  <1>4. CASE RecvError(e)
    <2> DEFINE upd == [eng |-> "Failed", recv |-> FALSE, tiviState |-> "eError"]
    <2>1. st[e].eng \in Handshake /\ Update(e, upd)
      BY <1>4 DEF RecvError, Handle, Failed
    <2>2. ASSUME Fieldwise(e, upd) PROVE Keeps(e)
      BY <1>0, <1>1, <2>1, <2>2 DEF Keeps, Fieldwise, Handshake
    <2> QED
      BY <1>0, <1>1, <2>1, <2>2, EngineStep
  <1>5. CASE SendErrorPacket(e)
    <2> DEFINE upd == [eng |-> "Failed", tiviState |-> "eError"]
    <2>1. st[e].eng \in Handshake \cup {"Secure"} /\ Update(e, upd)
      BY <1>5 DEF SendErrorPacket
    <2>2. ASSUME Fieldwise(e, upd) PROVE Keeps(e)
      BY <1>0, <1>1, <2>1, <2>2 DEF Keeps, Fieldwise, Handshake
    <2> QED
      BY <1>0, <1>1, <2>1, <2>2, EngineStep
  <1> QED
    BY <1>2, <1>3, <1>4, <1>5

LEMMA SendFailedInv == \A e \in Ends : Inv /\ SendFailed(e) => Inv'
  <1> SUFFICES ASSUME NEW e \in Ends, Inv, SendFailed(e) PROVE Inv'
    OBVIOUS
  <1> DEFINE upd == [eng |-> "Failed", recv |-> FALSE, tiviState |-> "eError"]
  <1>0. Types /\ EndOK(e)
    BY DEF Inv, Streams
  <1>1. /\ st[e].eng \in Handshake /\ Update(e, upd) /\ Raise(e, TRUE)
        /\ UNCHANGED <<sdp, call, todo, parsing, testing, media, sending, undone, discriminatorMode>>
    BY DEF SendFailed, Failed, Handshake, sip, rtp
  <1>2. /\ exception' \in [Ends -> BOOLEAN] /\ (exception[e] => exception'[e])
        /\ \A o \in Ends : o # e => exception'[o] = exception[o]
    BY <1>0, <1>1, Raised DEF Types
  <1>3. ASSUME Fieldwise(e, upd) PROVE Keeps(e)
    <2> USE DEF Fieldwise, EndOK, Fields
    <2>1. StreamType(st'[e]) /\ st'[e].sdes = st[e].sdes
      BY <1>0, <1>3 DEF StreamType
    <2>2. ~st[e].send
      BY <1>0, <1>1 DEF EngineView, Handshake
    <2>3. SdesUse(st'[e], parsing[e], undone[e])
      BY <1>0, <1>3, <2>2 DEF SdesUse
    <2>4. EngineView(st'[e], undone[e])
      BY <1>0, <1>3, <2>2 DEF EngineView, Greeted, Committed, Switching
    <2>5. discriminatorMode => Discriminated(st'[e], exception'[e], undone[e], "no")
      BY <1>0, <1>1, <1>2, <1>3 DEF Discriminated, Committed, Switching, Handshake
    <2>6. st[e].eng # "Initial"
      BY <1>1 DEF Handshake
    <2> QED
      BY <2>1, <2>3, <2>4, <2>5, <2>6 DEF Keeps
  <1> QED
    BY <1>1, <1>2, <1>3, EngineStep

\* The receiving thread clears the tunnel flag.
LEMMA ClearTunnelInv == \A e \in Ends : Inv /\ ClearTunnel(e) => Inv'
  <1> SUFFICES ASSUME NEW e \in Ends, Inv, ClearTunnel(e) PROVE Inv'
    OBVIOUS
  <1> DEFINE upd == [useZrtpTunnel |-> FALSE]
             cond == st[e].useZrtpTunnel
  <1>0. Types /\ EndOK(e) /\ undone \in [Ends -> SUBSET Undone]
    BY DEF Inv, Streams, Types
  <1>1. /\ testing[e] = "plain" /\ testing' = [testing EXCEPT ![e] = "passed"]
        /\ Update(e, upd) /\ TakeBack(e, "tunnel", cond)
        /\ UNCHANGED <<sdp, call, todo, parsing, media, sending, exception, discriminatorMode>>
    BY DEF ClearTunnel, sip
  <1>2. ~discriminatorMode
    BY <1>0, <1>1 DEF EndOK, Discriminated
  <1>3. /\ undone' \in [Ends -> SUBSET Undone]
        /\ undone'[e] = IF cond THEN undone[e] \cup {"tunnel"} ELSE undone[e]
        /\ \A o \in Ends : o # e => undone'[o] = undone[o]
    <2>1. cond \in BOOLEAN /\ "tunnel" \in Undone
      BY <1>0 DEF EndOK, StreamType, Undone
    <2> HIDE DEF cond
    <2> QED
      BY <1>0, <1>1, <2>1, TakenBack
  <1>4. ASSUME Fieldwise(e, upd) PROVE EndOK(e)' /\ (Beyond(e)' => Beyond(e))
    <2>1. Beyond(e)' => Beyond(e)
      BY <1>1, <1>4 DEF Beyond, Fieldwise, Fields
    <2>2. StreamType(st'[e]) /\ EngineView(st'[e], undone'[e])
      BY <1>0, <1>3, <1>4 DEF EndOK, StreamType, EngineView, Fieldwise, Fields
    <2>3. SdesUse(st'[e], parsing[e], undone'[e])
      BY <1>0, <1>3, <1>4 DEF EndOK, StreamType, SdesUse, Fieldwise, Fields
    <2> QED
      BY <1>1, <1>2, <2>1, <2>2, <2>3 DEF EndOK
  <1>5. testing' \in [Ends -> {"no", "plain", "passed"}] /\ \A o \in Ends : o # e => testing'[o] = testing[o]
    BY <1>0, <1>1 DEF Types
  <1> QED
    BY <1>0, <1>1, <1>3, <1>4, <1>5, UpdateStep DEF Types

\* Steps of a thread that change no stream.
LEMMA ThreadInv ==
    \A e \in Ends : Inv /\ (TestTunnel(e) \/ DropPacket(e) \/ TestSendSrtp(e) \/ Resend(e)) => Inv'
  <1> SUFFICES ASSUME NEW e \in Ends, Inv, TestTunnel(e) \/ DropPacket(e) \/ TestSendSrtp(e) \/ Resend(e)
               PROVE  Inv'
    OBVIOUS
  <1>0. Types /\ EndOK(e)
    BY DEF Inv, Streams
  <1>1. UNCHANGED <<sdp, call, todo, st, parsing, media, exception, undone, discriminatorMode>>
    BY DEF TestTunnel, DropPacket, TestSendSrtp, Resend, sip, rtp
  <1>2. /\ \/ testing' = testing
           \/ testing' = [testing EXCEPT ![e] = "plain"] /\ ~discriminatorMode
           \/ testing' = [testing EXCEPT ![e] = "no"]
        /\ sending' = sending \/ sending' = [sending EXCEPT ![e] = TRUE]
    BY DEF TestTunnel, DropPacket, TestSendSrtp, Resend, rtp
  <1>3. Types' /\ (\A o \in Ends : o # e => Still(o)) /\ (discriminatorMode => testing'[e] # "plain")
    BY <1>0, <1>1, <1>2 DEF Types, Still, EndOK, Discriminated
  <1>4. EndOK(e)' /\ (Beyond(e)' => Beyond(e))
    BY <1>0, <1>1, <1>3 DEF EndOK, Discriminated, Beyond
  <1> QED
    BY <1>1, <1>3, <1>4, StreamStep

-----------------------------------------------------------------------------
(* Media.                                                                    *)

LEMMA ProcessOutgoingRtpInv == \A e \in Ends : Inv /\ ProcessOutgoingRtp(e) => Inv'
  <1> SUFFICES ASSUME NEW e \in Ends, Inv, ProcessOutgoingRtp(e) PROVE Inv'
    OBVIOUS
  <1> DEFINE srtp == st[e].send /\ ~sending[e]
             refused == discriminatorMode /\ ~srtp /\ ~SdesForMedia(e)
  <1>0. Streams /\ Types /\ EndOK(e)
    BY DEF Inv, Streams
  <1>1. /\ Raise(e, refused) /\ sending' = [sending EXCEPT ![e] = FALSE]
        /\ UNCHANGED <<sdp, call, todo, parsing, st, testing, undone, discriminatorMode>>
        /\ media' = IF refused THEN media
                    ELSE media \cup {[to |-> Other(e), layers |-> LayersWith(e, srtp)]}
    BY DEF ProcessOutgoingRtp, sip
  <1>2. /\ exception' \in [Ends -> BOOLEAN]
        /\ exception[e] => exception'[e]
        /\ \A o \in Ends : o # e => exception'[o] = exception[o]
    <2>1. refused \in BOOLEAN
      OBVIOUS
    <2> HIDE DEF refused
    <2> QED
      BY <1>0, <1>1, <2>1, Raised DEF Types
  <1>3. EndOK(e)' /\ (Beyond(e)' => Beyond(e)) /\ \A o \in Ends : o # e => Still(o)
    BY <1>0, <1>1, <1>2 DEF EndOK, Discriminated, Beyond, Still
  <1>4. Types'
    BY <1>0, <1>1, <1>2 DEF Types
  <1>5. Streams'
    BY <1>0, <1>1, <1>3, <1>4, StreamsStep
  <1>6. HandOver'
    BY <1>1, HandOverStep DEF Inv, Beyond
  <1>7. MediaProtected'
    <2>1. discriminatorMode /\ ~refused => LayersWith(e, srtp) # {}
      BY <1>0 DEF EndOK, SdesUse, LayersWith, SdesForMedia, isSdesActive
    <2> HIDE DEF refused
    <2> QED
      BY <1>1, <2>1, OtherEnd DEF Inv, MediaProtected
  <1> QED
    BY <1>5, <1>6, <1>7 DEF Inv

LEMMA ProcessIncomingRtpInv == \A m \in media : Inv /\ ProcessIncomingRtp(m) => Inv'
  <1> SUFFICES ASSUME NEW m \in media, Inv, ProcessIncomingRtp(m) PROVE Inv'
    OBVIOUS
  <1>1. /\ m.to \in Ends /\ media' \subseteq media
        /\ UNCHANGED <<sdp, call, todo, parsing, testing, sending, exception, undone, discriminatorMode>>
    BY DEF ProcessIncomingRtp, Inv, MediaProtected, sip
  <1>2. CASE SimulatesAck(m.to, m.layers)
    <2>1. st[m.to].eng \in {"RecvOn", "WaitConfAck"} /\ Update(m.to, SendOn)
      BY <1>2 DEF ProcessIncomingRtp, SimulatesAck
    <2> QED
      BY <1>1, <2>1, SendOnInv
  <1>3. CASE ~SimulatesAck(m.to, m.layers)
    <2>1. UNCHANGED st
      BY <1>3 DEF ProcessIncomingRtp
    <2> QED
      BY <1>1, <2>1, HandOverStep DEF Inv, Streams, Types, EndOK, MediaProtected, Beyond
  <1> QED
    BY <1>2, <1>3

-----------------------------------------------------------------------------

LEMMA InitInv == Init => Inv
  <1> SUFFICES ASSUME Init PROVE Inv
    OBVIOUS
  <1>0. Types /\ sdp \in [Ends -> Attributes]
    BY StreamConstants DEF Init, Types
  <1>1. \A e \in Ends : /\ st[e] = NewStream /\ ~exception[e] /\ todo[e] = {} /\ parsing[e] = "idle"
                       /\ undone[e] = {} /\ testing[e] = "no"
    BY DEF Init
  <1>2. StreamType(NewStream) /\ SdesUse(NewStream, "idle", {}) /\ EngineView(NewStream, {})
    BY DEF StreamType, SdesUse, EngineView, NewStream, Fields, Greeted, Committed, Switching, Halfway
  <1>3. \A x : Discriminated(NewStream, x, {}, "no")
    BY DEF Discriminated, NewStream, Committed, Switching
  <1>4. Streams
    BY <1>0, <1>1, <1>2, <1>3 DEF Streams, EndOK
  <1>5. HandOver
    BY <1>0, <1>1 DEF Init, HandOver, Reached, NewStream, Beyond
  <1> QED
    BY <1>4, <1>5 DEF Init, Inv, MediaProtected

LEMMA NextInv == Inv /\ [Next]_vars => Inv'
  <1> SUFFICES ASSUME Inv, [Next]_vars PROVE Inv'
    OBVIOUS
  <1>1. CASE Signaling
    BY <1>1, CreateSdesInv, OfferInv, ParseSdesInv, SetZrtpEncapAttributeInv, ResetSdesContextInv,
       SetSignalingHelloHashInv DEF Signaling
  <1>2. ASSUME NEW e \in Ends, Zrtp(e) PROVE Inv'
    <2>1. CASE RecvCommit(e)
      <3>1. /\ st[e].eng \in {"AckSent", "CommitSent"} /\ Raise(e, st[e].hashes = {})
            /\ Update(e, [eng |-> "WaitDHPart2", tiviState |-> GoingSecure(e)])
            /\ testing' = [testing EXCEPT ![e] = "no"]
            /\ UNCHANGED <<sdp, call, todo, parsing, media, sending, undone, discriminatorMode>>
        BY <2>1 DEF RecvCommit, Handle, sip
      <3> QED
        BY <3>1, CommittedInv
    <2>2. CASE RecvDHPart1(e)
      <3>1. /\ st[e].eng \in {"AckSent", "CommitSent"} /\ Raise(e, st[e].hashes = {})
            /\ Update(e, [eng |-> "WaitConfirm1", tiviState |-> GoingSecure(e)])
            /\ testing' = [testing EXCEPT ![e] = "no"]
            /\ UNCHANGED <<sdp, call, todo, parsing, media, sending, undone, discriminatorMode>>
        BY <2>2 DEF RecvDHPart1, Handle, sip
      <3> QED
        BY <3>1, CommittedInv
    <2>3. CASE SenderOn(e) \/ RecvConf2Ack(e)
      <3>1. /\ st[e].eng \in {"RecvOn", "WaitConfAck"} /\ Update(e, SendOn)
            /\ testing' = testing \/ testing' = [testing EXCEPT ![e] = "no"]
            /\ UNCHANGED <<sdp, call, todo, parsing, media, sending, exception, undone, discriminatorMode>>
        BY <2>3 DEF SenderOn, Switch, RecvConf2Ack, Handle, sip, rtp
      <3> QED
        BY <3>1, SendOnInv
    <2> QED
      BY <1>2, <2>1, <2>2, <2>3, RecvHelloInv, ExchangeInv, SwitchInv, FailInv, ClearTunnelInv,
         ThreadInv DEF Zrtp
  <1>3. ASSUME NEW e \in Ends,
               \/ Start(e) \/ TestTunnel(e) \/ NotSuppOther(e) \/ TimerFailed(e) \/ SendFailed(e)
               \/ SendErrorPacket(e) \/ TestSendSrtp(e) \/ ProcessOutgoingRtp(e)
        PROVE  Inv'
    BY <1>3, StartInv, ThreadInv, FailInv, SendFailedInv, ProcessOutgoingRtpInv
  <1>4. ASSUME NEW m \in media, ProcessIncomingRtp(m) PROVE Inv'
    BY <1>4, ProcessIncomingRtpInv
  <1>5. CASE UNCHANGED vars
    BY <1>5, HandOverStep
       DEF vars, sip, rtp, Inv, Streams, Types, EndOK, MediaProtected, Beyond
  <1> QED
    BY <1>1, <1>2, <1>3, <1>4, <1>5 DEF Next

LEMMA Invariance == Spec => []Inv
  BY InitInv, NextInv, PTL DEF Spec

-----------------------------------------------------------------------------
(* The theorems.                                                             *)

\* However signaling and ZRTP interleave, a stream uses SDES for media or as ZRTP
\* tunnel only while its SDES stream is active, so sendDataZRTP never calls through a
\* null or half-open SDES stream.
THEOREM SdesInUseHolds == Spec => []SdesInUse
  <1>1. Inv => SdesInUse
    BY DEF Inv, Streams, EndOK, SdesUse, SdesInUse, isSdesActive
  <1> QED
    BY <1>1, Invariance, PTL

\* What both ends know of each other once all has been handed over.
LEMMA SignaledFacts ==
    ASSUME Inv, Signaled, NEW e \in Ends
    PROVE  /\ sdp[Other(e)] = sdp[e] /\ parsing[e] = "idle"
           /\ sdp[e].encap <=> st[e].zrtpEncapSignaled
           /\ st[e].hashes = sdp[e].hashes
  <1>1. sdp[Other(e)] = sdp[e]
    BY DEF Signaled, Ends, Other
  <1>2. Reached(e) /\ todo[e] = {} /\ parsing[e] = "idle"
    BY DEF Signaled, Reached
  <1>3. sdp[e].hashes = st[e].hashes \cup (todo[e] \cap Hashes)
    BY <1>1, <1>2 DEF Inv, HandOver
  <1>4. sdp[e].encap <=> st[e].zrtpEncapSignaled
    BY <1>1, <1>2 DEF Inv, HandOver
  <1> QED
    BY <1>1, <1>2, <1>3, <1>4

\* When both ends advertise the same and SDES is active at both, both tunnel ZRTP or
\* neither does, whatever the order of setZrtpEncapAttribute and parseSdes; except
\* where the receiving thread, out of discriminator mode, takes the tunnel back.
THEOREM TunnelsAgreeHolds == Spec => []TunnelsAgree
  <1>1. Inv => TunnelsAgree
    <2> SUFFICES ASSUME Inv, Signaled, \A e \in Ends : isSdesActive(e) /\ ~st[e].send,
                        NEW e \in Ends
                 PROVE  \/ st[e].useZrtpTunnel = sdp[e].encap
                        \/ "tunnel" \in undone[e] /\ ~discriminatorMode
      BY DEF TunnelsAgree
    <2>1. parsing[e] = "idle" /\ (sdp[e].encap <=> st[e].zrtpEncapSignaled)
      BY SignaledFacts
    <2>2. "tunnel" \in undone[e] \/ st[e].useZrtpTunnel = st[e].zrtpEncapSignaled
      BY <2>1 DEF Inv, Streams, EndOK, SdesUse, isSdesActive, Halfway
    <2>3. sdp[e].encap \in BOOLEAN /\ st[e].zrtpEncapSignaled \in BOOLEAN
      BY DEF Inv, HandOver, Attributes, Streams, EndOK, StreamType
    <2>4. "tunnel" \in undone[e] => ~discriminatorMode
      BY DEF Inv, Streams, EndOK, Discriminated
    <2> QED
      BY <2>1, <2>2, <2>3, <2>4
  <1> QED
    BY <1>1, Invariance, PTL

\* While the ends switch from SDES to ZRTP/SRTP at different times, what one end puts
\* around a media packet (processOutgoingRtp) is what the other takes off
\* (processIncomingRtp), also of a packet on its way while they switch.
THEOREM MediaFlowsHolds == Spec => []MediaFlows
  <1>1. Inv => MediaFlows
    <2> SUFFICES ASSUME Inv, Signaled, Steady, \A e \in Ends : sdp[e].hashes \subseteq {"good"},
                        NEW e \in Ends, st[e].recv, st[e].send \/ st[e].eng = "WaitConfAck"
                 PROVE  /\ \/ \A f \in Ends : isSdesActive(f)
                           \/ \A f \in Ends : ~isSdesActive(f) /\ st[Other(e)].send
                           \/ sdp[e].hashes # {} /\ st[Other(e)].send
                           => Incoming(e, Layers(Other(e))) = Accepted({})
                        /\ (\A f \in Ends : isSdesActive(f)) =>
                           \A m \in media : m.to = e /\ m.layers \in BeforeAndAfter(e) =>
                               Incoming(e, m.layers) = Accepted({})
      BY DEF MediaFlows
    <2> DEFINE o == Other(e)
    <2>0. o \in Ends /\ EndOK(e) /\ EndOK(o)
      BY OtherEnd DEF Inv, Streams
    <2>1. sdp[o] = sdp[e] /\ parsing[e] = "idle" /\ parsing[o] = "idle"
      BY <2>0, SignaledFacts
    <2>2. st[e].hashes = sdp[e].hashes /\ st[o].hashes = sdp[e].hashes
      BY <2>0, <2>1, SignaledFacts
    <2>3. sdp[e].hashes = {} \/ "good" \in sdp[e].hashes
      OBVIOUS
    <2>4. \A f \in {e, o} : st[f].eng # "SendOn" /\ "media" \notin undone[f]
      BY <2>0 DEF Steady, Switching
    <2> HIDE DEF o
    \* What e does with each kind of packet.
    <2>5. isSdesActive(e) => Incoming(e, {"sdes"}) = Accepted({})
      BY DEF Incoming, SdesIncoming, isSdesActive
    <2>6. isSdesActive(e) /\ sdp[e].hashes = {} => Incoming(e, {"sdes", "zrtp"}) = Accepted({})
      <3> SUFFICES ASSUME isSdesActive(e), sdp[e].hashes = {}
                   PROVE  Incoming(e, {"sdes", "zrtp"}) = Accepted({})
        OBVIOUS
      <3>1. st[e].useSdesForMedia
        BY <2>0, <2>1, <2>2 DEF EndOK, StreamType, SdesUse, isSdesActive
      <3>2. StillSdes(e, {"sdes", "zrtp"})
        BY <2>2, <3>1 DEF StillSdes, SdesForMedia, isSdesActive
      <3>3. SdesIncoming(e, {"sdes", "zrtp"} \ {"zrtp"}) = Accepted({})
        <4>1. {"sdes", "zrtp"} \ {"zrtp"} = {"sdes"}
          OBVIOUS
        <4> QED
          BY <4>1 DEF SdesIncoming
      <3> QED
        BY <3>2, <3>3 DEF Incoming
    <2>7. "good" \in sdp[e].hashes \/ ~isSdesActive(e) => Incoming(e, {"zrtp"}) = Accepted({})
      <3> SUFFICES ASSUME "good" \in sdp[e].hashes \/ ~isSdesActive(e)
                   PROVE  Incoming(e, {"zrtp"}) = Accepted({})
        OBVIOUS
      <3>1. ~StillSdes(e, {"zrtp"})
        <4>1. CASE ~st[e].useSdesForMedia
          BY <4>1 DEF StillSdes, SdesForMedia
        <4>2. CASE st[e].useSdesForMedia
          <5>1. "good" \in st[e].hashes
            BY <2>0, <2>2, <4>2 DEF EndOK, SdesUse, isSdesActive
          <5>2. st[e].eng = "WaitConfAck"
            BY <2>0, <2>4, <4>2, <5>1 DEF EndOK, SdesUse
          <5> QED
            BY <5>1, <5>2 DEF StillSdes, SimulatesAck
        <4> QED
          BY <4>1, <4>2
      <3>2. {"zrtp"} \ {"zrtp"} = {}
        OBVIOUS
      <3> QED
        BY <3>1, <3>2 DEF Incoming
    \* What o sends is one of them.
    <2>8. ASSUME \/ \A f \in Ends : isSdesActive(f)
                 \/ \A f \in Ends : ~isSdesActive(f) /\ st[o].send
                 \/ sdp[e].hashes # {} /\ st[o].send
          PROVE  Incoming(e, Layers(o)) = Accepted({})
      <3>1. CASE ~st[o].send
        <4>1. isSdesActive(e) /\ isSdesActive(o)
          BY <2>0, <2>8, <3>1
        <4>2. Layers(o) = {"sdes"}
          BY <2>0, <2>1, <3>1, <4>1
             DEF Layers, LayersWith, SdesForMedia, isSdesActive, EndOK, StreamType, SdesUse
        <4> QED
          BY <2>5, <4>1, <4>2
      <3>2. CASE st[o].send /\ sdp[e].hashes = {} /\ \A f \in Ends : isSdesActive(f)
        <4>1. st[o].useSdesForMedia /\ isSdesActive(e) /\ isSdesActive(o)
          BY <2>0, <2>1, <2>2, <3>2 DEF EndOK, StreamType, SdesUse, isSdesActive
        <4>2. Layers(o) = {"sdes", "zrtp"}
          BY <3>2, <4>1 DEF Layers, LayersWith, SdesForMedia, isSdesActive
        <4> QED
          BY <2>6, <3>2, <4>1, <4>2
      <3>3. CASE st[o].send /\ ~(sdp[e].hashes = {} /\ \A f \in Ends : isSdesActive(f))
        <4>1. \/ ~isSdesActive(e) /\ ~isSdesActive(o)
              \/ "good" \in sdp[e].hashes
          BY <2>0, <2>3, <2>8, <3>3
        <4>2. ~st[o].useSdesForMedia
          BY <2>0, <2>2, <2>4, <3>3, <4>1 DEF EndOK, StreamType, SdesUse, isSdesActive
        <4>3. Layers(o) = {"zrtp"}
          BY <3>3, <4>2 DEF Layers, LayersWith, SdesForMedia
        <4> QED
          BY <2>7, <4>1, <4>3
      <3> QED
        BY <3>1, <3>2, <3>3
    \* So is what is on its way.
    <2>9. ASSUME \A f \in Ends : isSdesActive(f), NEW l \in BeforeAndAfter(e)
          PROVE  Incoming(e, l) = Accepted({})
      BY <2>3, <2>5, <2>6, <2>7, <2>9 DEF BeforeAndAfter
    <2> QED
      BY <2>8, <2>9 DEF o
  <1> QED
    BY <1>1, Invariance, PTL

\* A stream that shows the user a secure state protects what it sends, once parseSdes
\* is through and unless the application has deleted its SDES context.
THEOREM SecureIsEncryptedHolds == Spec => []SecureIsEncrypted
  <1>1. Inv => SecureIsEncrypted
    <2> SUFFICES ASSUME Inv, NEW e \in Ends, isSecure(e), parsing[e] \notin {"parsed", "told"},
                        "sdes" \notin undone[e]
                 PROVE  Layers(e) # {}
      BY DEF SecureIsEncrypted
    <2>0. EndOK(e)
      BY DEF Inv, Streams
    <2>1. st[e].send \/ (st[e].useSdesForMedia /\ st[e].sdes = "active")
      BY <2>0 DEF EndOK, StreamType, SdesUse, EngineView, isSecure
    <2>2. st[e].send => "zrtp" \in Layers(e)
      BY DEF Layers, LayersWith
    <2>3. st[e].useSdesForMedia /\ st[e].sdes = "active" => "sdes" \in Layers(e)
      BY DEF Layers, LayersWith, SdesForMedia, isSdesActive
    <2> QED
      BY <2>1, <2>2, <2>3
  <1> QED
    BY <1>1, Invariance, PTL

\* In discriminator mode nothing unprotected is sent, and nothing unprotected reaches
\* the application: also not through an SDES stream that is not active, which would
\* pass it, because the engine is not started before SDES is, and where SDES is deleted
\* the packet is rejected.
THEOREM DiscriminatorSoundHolds == Spec => []DiscriminatorSound
  <1>1. Inv => DiscriminatorSound
    <2> SUFFICES ASSUME Inv, discriminatorMode, NEW e \in Ends
                 PROVE  Incoming(e, {}).rc # 1
      BY DEF DiscriminatorSound, Inv, MediaProtected
    <2>0. /\ SdesUse(st[e], parsing[e], undone[e]) /\ EngineView(st[e], undone[e])
          /\ Discriminated(st[e], exception[e], undone[e], testing[e])
      BY DEF Inv, Streams, EndOK
    <2>1. isSdesActive(e) => SdesIncoming(e, {}) = Rejected
      <3>1. {} # {"sdes"}
        OBVIOUS
      <3> QED
        BY <3>1 DEF SdesIncoming
    <2>2. SdesForMedia(e) => isSdesActive(e)
      BY <2>0 DEF SdesForMedia, SdesUse, isSdesActive
    <2>3. st[e].recv => isSdesActive(e) \/ st[e].sdes = "none"
      BY <2>0 DEF EngineView, Discriminated, isSdesActive
    <2>4. Incoming(e, {}) \in {Rejected, Dropped}
      BY <2>1, <2>2, <2>3 DEF Incoming
    <2> QED
      BY <2>4 DEF Rejected, Dropped
  <1> QED
    BY <1>1, Invariance, PTL

\* In discriminator mode nobody goes secure on a Hello that the signaling does not
\* vouch for without the application being told, whenever the hash arrives.
THEOREM DiscriminatorWarnedHolds == Spec => []DiscriminatorWarned
  <1>1. Inv => DiscriminatorWarned
    BY DEF Inv, Streams, EndOK, Discriminated, Committed, DiscriminatorWarned
  <1> QED
    BY <1>1, Invariance, PTL

-----------------------------------------------------------------------------
(* CtZrtpSession: the inductive invariant.                                   *)

Slaves == [engine : {"none", "Initial", "Running"}, enableZrtp : BOOLEAN,
           started : BOOLEAN, params : Nat]

SessionTypes ==
    /\ calls \in Nat
    /\ audio \in {"none", "Initial", "Running", "Secure"}
    /\ video \in Slaves
    /\ multiStreamParameter \in 0..calls /\ copy \in 0..calls
    /\ app \in {"idle", "look", "start", "flag"}
    /\ master \in {"idle", "store", "look", "flag"}

\* The streams of a call live and die together; a thread is in one of the two
\* functions only while they live.
Lifetimes ==
    /\ audio = "none" <=> video.engine = "none"
    /\ audio # "none" => calls # 0
    /\ app # "idle" => audio # "none"
    /\ master # "idle" => audio = "Secure"

\* What each thread has written when it is at a given place, and what it may
\* rely on there.
Written ==
    /\ audio = "Secure" /\ master # "store" => multiStreamParameter = calls
    /\ app # "idle" => video.enableZrtp
    /\ master = "flag" => video.enableZrtp
    /\ app = "start" => copy # 0
    /\ app = "flag" \/ master = "flag" \/ video.started => video.engine = "Running"

\* In the first call there are no parameters before the Master is secure.
FirstCall ==
    calls = 1 /\ audio \notin {"none", "Secure"} =>
        multiStreamParameter = 0 /\ app # "start" /\ video.engine # "Running"

\* A running engine has the parameters of a Master.
Parameters ==
    video.engine = "Running" => video.params \in 1..calls

\* Nobody is forgotten: a Slave that waits although the Master is secure is about
\* to be started by one of the two threads.
SomebodyStarts ==
    audio = "Secure" /\ video.enableZrtp /\ ~video.started =>
        app # "idle" \/ master # "idle"

SessionInv == SessionTypes /\ Lifetimes /\ Written /\ FirstCall /\ Parameters /\ SomebodyStarts

-----------------------------------------------------------------------------

LEMMA SessionInitInv == SessionInit => SessionInv
  BY DEF SessionInit, SessionInv, SessionTypes, Lifetimes, Written, FirstCall, Parameters, SomebodyStarts, NoSlave, Slaves

\* setMultiStrParams and startZrtpEngine leave the flags of the stream alone.
LEMMA Started ==
    ASSUME NEW p \in Nat, video \in Slaves, SetAndStart(p)
    PROVE  /\ video' \in Slaves
           /\ video'.engine = "Running" /\ video'.params = p
           /\ video'.enableZrtp = video.enableZrtp /\ video'.started = video.started
  BY DEF SetAndStart, Slaves

LEMMA SessionNextInv == SessionInv /\ [SessionNext]_sessionVars => SessionInv'
  <1> SUFFICES ASSUME SessionInv, [SessionNext]_sessionVars PROVE SessionInv'
    OBVIOUS
  <1> USE DEF SessionInv, SessionTypes, Lifetimes, Written, FirstCall, Parameters, SomebodyStarts
  <1>1. CASE InitStreams
    <2>1. video' = [engine |-> "Initial", enableZrtp |-> FALSE, started |-> FALSE, params |-> 0]
      BY <1>1 DEF InitStreams, NoSlave
    <2>2. /\ calls' = calls + 1 /\ audio' = "Initial" /\ app = "idle" /\ audio = "none"
          /\ UNCHANGED <<multiStreamParameter, app, copy, master>>
      BY <1>1 DEF InitStreams
    <2>3. video' \in Slaves
      BY <2>1 DEF Slaves
    <2>4. SessionTypes'
      BY <2>2, <2>3
    <2> QED
      BY <2>1, <2>2, <2>4
  <1>2. CASE StartMaster
    BY <1>2 DEF StartMaster, Slaves
  <1>3. CASE StartSlave
    BY <1>3 DEF StartSlave, Slaves
  <1>4. CASE LookForParameters
    BY <1>4 DEF LookForParameters
  <1>5. CASE StartWithCopy
    <2>1. copy \in Nat /\ SetAndStart(copy)
      BY <1>5 DEF StartWithCopy
    <2> QED
      BY <1>5, <2>1, Started DEF StartWithCopy
  <1>6. CASE SetStarted
    BY <1>6 DEF SetStarted, Slaves
  <1>7. CASE Release
    BY <1>7 DEF Release, NoSlave, Slaves
  <1>8. CASE MasterSecure
    BY <1>8 DEF MasterSecure, Slaves
  <1>9. CASE StoreParameters
    BY <1>9 DEF StoreParameters
  <1>10. CASE StartWaiting
    <2>1. CASE video.enableZrtp
      <3>1. multiStreamParameter \in Nat /\ SetAndStart(multiStreamParameter)
        BY <1>10, <2>1 DEF StartWaiting
      <3>2. /\ video' \in Slaves /\ video'.engine = "Running"
            /\ video'.params = multiStreamParameter /\ video'.enableZrtp
            /\ video'.started = video.started
        BY <2>1, <3>1, Started
      <3>3. /\ master = "look" /\ master' = "flag"
            /\ UNCHANGED <<calls, audio, multiStreamParameter, app, copy>>
        BY <1>10, <2>1 DEF StartWaiting
      <3> QED
        BY <3>2, <3>3
    <2>2. CASE ~video.enableZrtp
      BY <1>10, <2>2 DEF StartWaiting
    <2> QED
      BY <2>1, <2>2
  <1>11. CASE MasterSetsStarted
    BY <1>11 DEF MasterSetsStarted, Slaves
  <1>12. CASE UNCHANGED sessionVars
    BY <1>12 DEF sessionVars
  <1> QED
    BY <1>1, <1>2, <1>3, <1>4, <1>5, <1>6, <1>7, <1>8, <1>9, <1>10, <1>11, <1>12
       DEF SessionNext, RestOfStart, RestOfCallback

LEMMA SessionInvariance == SessionSpec => []SessionInv
  BY SessionInitInv, SessionNextInv, PTL DEF SessionSpec

\* A Slave that the application started runs and gets its packets once both
\* threads are through (start, masterStreamSecure), however they interleaved and
\* whichever call of the session it is.
THEOREM SlaveStartedHolds == SessionSpec => []SlaveStarted
  <1>1. SessionInv => SlaveStarted
    BY DEF SessionInv, SessionTypes, Slaves, Written, SomebodyStarts, SlaveStarted, Quiet
  <1> QED
    BY <1>1, SessionInvariance, PTL

\* A Slave's engine runs only with the parameters of a Master of this session, and
\* in the first call only when that Master is secure.
THEOREM MasterFirstHolds == SessionSpec => []MasterFirst
  <1>1. SessionInv => MasterFirst
    BY DEF SessionInv, SessionTypes, Slaves, Lifetimes, FirstCall, Parameters, MasterFirst
  <1> QED
    BY <1>1, SessionInvariance, PTL
=============================================================================
