# TLA+ models of ZRTPCPP

This directory keeps TLA+ specifications of the parts of ZRTPCPP in which threads, packets
and timers meet, the TLC configurations that check small instances of them, and proofs that
TLAPS checks for every value of the constants. Source references are paths in the repository.

    tlc -config ZrtpStateClass_engine.cfg MCZrtpStateClass     one run
    tlapm ZrtpStateClassProofs.tla                             the proofs of one component

`PROJECT.json` lists components, runs, mutants (changes a plausible bug would make, each of
which breaks the property it is listed with), the source lines behind every definition, findings,
hazards and theorems.

## 1. The system and its parts

| Component | State it keeps | Operations | Correct if |
|---|---|---|---|
| Protocol state engine, `zrtp/ZrtpStateClass.cpp` | 13 states, `sentPacket`, `commitPkt`, counters of T1 and T2, SAS relay substate, the Hello version in use | `processEvent`: start, close, timeout, one handler per state for packets; `sendSASRelay` | what a timeout repeats belongs to the state; no wait without a timer; SRTP is on exactly when both sides have keys; every end is reported |
| ZRTP exchange, `zrtp/ZRtp.cpp` | hash chain, DH value, `hvi`, role, message hash, keys, nonces | `prepare*()` and the key derivation | two secure engines have the same keys and opposite roles |
| Timeout provider, `clients/ccrtp/CcrtpTimeoutProvider.h` | ordered list of requests, an event, a mutex, a thread | `requestTimeout`, `cancelRequest`, `stopThread`, `run` | a request is served at its time, or cancelled |
| Tivi timeout provider, `clients/tivi/` | the same list with another event class | as above | as above |
| SRTP index and replay window, `srtp/CryptoContext.cpp`, `srtp/SrtpHandler.cpp` | highest sequence number, ROC, 2 x 64 bit register | `protect`, `unprotect`, `guessIndex`, `checkReplay`, `update` | no packet is passed on twice, no new one is dropped |
| SRTCP index and replay window, `srtp/CryptoContextCtrl.cpp` | highest index, 64 bit register | `protectCtrl`, `unprotectCtrl` | as above |
| Retained secrets and ZID cache, `zrtp/ZIDRecord*.cpp`, `zrtp/ZIDCacheFile.cpp` | `rs1`, `rs2`, validity and SAS flags per peer | `getRecord`, `setNewRs1`, `setRs2Valid`, `saveRecord`, `SASVerified`, `resetSASVerified` | after an interrupted session two caches still share a secret, both ends use the same one, and the SAS flag was earned |
| ccrtp queue, `clients/ccrtp/ZrtpQueue.cpp` | engine object, crypto contexts, SRTP on or off | `startZrtp`, `stopZrtp`, `rtpDataIndication`, callbacks | no call into a deleted engine; what it must keep is kept when it stops |
| Tivi stream, `clients/tivi/CtZrtpStream.cpp` | SRTP contexts of ZRTP, an SDES stream, flags for SDES and the ZRTP tunnel, zrtp-hashes of the peer | `createSdes`, `parseSdes`, `setZrtpEncapAttribute`, `setSignalingHelloHash`, `resetSdesContext`, RTP in and out, engine callbacks | both ends agree on tunnel and protections at every moment; nothing leaves unprotected while the user is told "secure" |
| SDES stream, `zrtp/ZrtpSdesStream.cpp` | its state, SRTP contexts | create and parse crypto strings, RTP and tunnel in and out | active before it is used |
| Tivi session, `clients/tivi/CtZrtpSession.cpp` | streams, `multiStreamParameter` | `init`, `start`, `masterStreamSecure`, `release` | a slave stream starts, and only with the keys of a master |
| Algorithm negotiation, `zrtp/ZrtpConfigure.cpp`, `ZRtp::findBest*` | ordered lists of algorithms, the algorithms chosen | configuration, choice, the checks of `prepareDHPart1` | both sides choose the same public key algorithm; no Commit is refused |
| Packet formats, Base32, CRC32, C wrapper, cryptography | none that outlives a call | encode, decode, compute | - |

### How they interact

Three threads call into one stream. The **receive thread** passes ZRTP packets from the RTP
stack to `ZRtp::processZrtpMessage`; the **application** calls `startZrtp`, `stopZrtp`,
`setMultiStrParams` and `sendSASRelayPacket`; the **thread of the timeout provider**, one for
all streams, calls `handleTimeout`. `ZrtpStateClass::processEvent` takes the stream's lock
(`synchEnter`), so that one event is one atomic step. Outside that lock are: the test
`inState(Initial)` of `startZrtpEngine`; all of `sendSASRelay`, which does not test the state either; and the
moment between the provider taking a request off its list and the engine's lock. In the Tivi client also
the RTP threads, `parseSdes`, `setZrtpEncapAttribute` and `resetSdesContext` take no lock. The engine calls back for sending
packets, starting and cancelling its one timer, and for SRTP: `srtpSecretsReady` and
`srtpSecretsOff`. Two of those callbacks, `sendDataZRTP` and `activateTimer`, may fail, and the
engine tests that.

Two engines interact by packets alone. UDP loses, repeats and reorders them, and delivers packets
of a session that has ended. An Initiator repeats with T2, both repeat Hello with T1; a
Responder has no timer and answers again when it is asked again.

### What is hard

- events in states nobody wrote them for: a stale timeout, a second start, an ignored packet;
- what is done before a packet is found to be ignored (timer cancelled, `sentPacket` dropped);
- the commit clash, in which one of two Initiators becomes Responder;
- the order in which Confirm2 / Conf2Ack are sent and SRTP directions enabled;
- packets of an earlier session that carry nothing which tells them apart;
- the sleep of the timeout thread against requests made without its knowledge;
- unsigned arithmetic, shifts and roll-over in the two replay windows;
- a session cut between the Initiator's save of the new secret and the Responder's, or by a crash;
- SDP attributes that come before, during or after the ZRTP exchange, in any order, while media flows;
- flags of a stream that four threads read and write without a lock;
- two threads that start a slave stream without a lock.

`PROJECT.json` lists each of these as a hazard with its line and the properties aimed at it.

## 2. Modules

### ZrtpStateClass (run through MCZrtpStateClass)

One engine against every peer. Variables are the fields of `ZrtpStateClass`
(`state`, `sentPacket`, `commitPkt`, `t1`, `t2`, `t1Max`, `secSubstate`), the engine's version
(`sentVersion`), the SRTP directions the client holds keys for (`srtp`), what the client
was last told (`verdict`), and the state of the other threads: `pending` requests in the
provider's list, `firing` (one was taken off and is about to be delivered), `starters` (threads
past the unlocked test of `startZrtpEngine`), `relay` (how far the application is in `sendSASRelay`). An action is one event in the states that treat it
alike: `RecvHello` and `RecvKeyAgreement` are the unions of the packet handlers, `ZrtpClose`,
`RecvError`, `RecvMalformed` and `TimerEvent` those of the other events. The result of
`ZRtp::prepare*()` is a free choice among the results the handler distinguishes, and each
send and timer start may fail. What is sent is abstracted to its packet type.

`sendSASRelay` is cut at each of its writes (`RelayCancel`, `RelayStore`, `RelaySubstate`, `RelaySend`, and in
`sendFailed` `RelayDrop`, `RelayFailed`), in every state, between any two events of the engine; `strayRelay` remembers
that one of these steps happened while the stream was not secure. A handler of the engine stays one step towards
it: what a write in the middle of a handler could do (a data race on `sentPacket` and `state`) is not
modelled. The demo calls `sendSASRelayPacket` from the `InfoSecureStateOn` callback
(`demo/zrtptestMulti.cpp:315`), that is inside a handler that has the lock, and after `nextState(SecureState)`.

The model takes for granted that a successful `activateTimer` leaves a request on the provider's
list. The module TimeoutProvider shows when that is not so.

### ZrtpHandshake (and MCZrtpHandshake)

Two engines and a network, a set of packets that stay until they are lost, so that a packet may
arrive again, late, or in any order. Packets carry what `prepare*()` tests and hashes:
which object sent them (the hash chain), the DH value or nonce, the Hello that was committed to,
and, for Confirm1 and Confirm2, the keys. Keys are the tuple of everything that enters the
message hash and the DH result, so two keys are equal iff all of it is. After Conf2Ack
(in multi-stream mode also Confirm2) is sent, the same handler has SRTP directions still to
enable: `finishing` holds them, and `EnableSrtp` is a step of its own because the peer may
already react to the packet. That an engine handles one event at a time is `Idle`. `multiStream` is chosen once, in
Init, from the constant `Modes`. The ways out of the exchange (close, failed send,
retries used up, stray timeout), which ZrtpStateClass details, are the action `Abandon`;
`NewObject` is a client that deletes its `ZRtp` and creates another.

### TimeoutProvider (and MCTimeoutProvider)

The list, and the thread as a program with the places `check` (under the mutex), `deliver`
(`handleTimeout`, without it), `reset` (mutex released, the event not yet reset), `wait`, `done`.
The clock ticks in any of them. `owed` counts requests a subscriber made that are neither
delivered nor cancelled. The provider of the Tivi client (`clients/tivi/TiviTimeoutProvider.h`) has the
same list and thread, statement by statement; its event, a condition variable without a flag, forgets a
signal that comes before the wait, as `reset()` makes the ccrtp event do.

### SrtpReplay, SrtcpReplay

One sender and one receiver; packets are lost, repeated, reordered and, in SRTP, damaged. Words of the
replay windows are sets of bit positions, shifts are set maps, unsigned differences are taken
modulo the width. `SrtcpReplay` starts with every value of the uninitialised `s_l` (`garbage`)
and makes the result of a shift by more than the register's width a free choice.

### KeyAgreement, implemented by ZrtpHandshake

The promise of the exchange: each peer goes from `open` by `keyed` (and `confirmed`, an
Initiator) to `secure`; a key is derived in one role, equal to the other's and in the opposite role; nobody
goes secure before the other has shown the key. In ZrtpHandshake the mapping takes `stage`
from the engine's state and keys, `key` and `role` from its fields; a Responder counts as secure from
Conf2Ack on, when only the SRTP callbacks remain in its handler. Discovery, commit clashes, repeated and late
packets stutter.

### RetainedSecrets (and MCRetainedSecrets)

Two ZID caches and one session after another. A secret is named by the session that produced it, 0 is the
zeroed memory of a new record. `NewSession` reads both records and computes the ids; the
packets DHPart1 to Conf2Ack carry ids, the secret that went into the keys, and the SAS flag.
The Initiator saves with Confirm1, the Responder with Confirm2. `Stop` is `stopStream` / `stopZrtp`,
which call `setRs2Valid` after little media; `Crash` ends an engine without it. History
variables remember which secret each session was derived from (`matched`), which SAS was compared
(`verifiedBy`), and how many secrets were saved since both peers had the same one (`cuts`).

### Negotiation (and MCNegotiation)

`config` starts as one of the lists that the clients of the repository set up (empty, mandatory only, standard,
and the Tivi client's with its user settings); `AddAlgo`, `AddAlgoAt`, `RemoveAlgo` change them.
`FindBest*` and `Offered*` are the choices of `prepareCommit`, as operators on the two
lists: `Common` is the set that `ownIntersect` and `peerIntersect` both hold, each in its own order, `FirstOf`
the first match in a list. `PrepareDHPart1` has the Responder's checks. `ReplaceClient` is an object that sees the Hello of
another client and keeps members of its earlier choice (`stale`).

### CtZrtpStream (and MCCtZrtpStream)

Both ends of a call. A media packet is the set of layers around it, `"sdes"` inside, `"zrtp"` outside;
`Layers` is what `processOutgoingRtp` puts on and `Incoming` what `processIncomingRtp` makes of it.
`todo` holds the SDP attributes that an application has still to hand over; it does so one by one, in any
order (the order of SDP lines is not the library's). SDP, offer and answer are external: modelled from
the calls the stream expects. The ZRTP exchange is reduced to the packets
whose handlers call the stream back.

A stream has four threads: the application's (signaling, `Start`), the one that receives RTP and ZRTP, the one
that sends RTP, and the timer's. The engine's handlers and `setSignalingHelloHash` exclude one another by
the stream's lock; the rest does not, and is cut where one thread reads or writes what another one writes:
- `parseSdes`: `ParseTest` (643-648), `ParseCrypto` or `ParseRefused` (650-662 and the cleanup, which also a crypto string takes
  that does not parse or has another tag or suite), `ParseTell` (664-667, the user is told), `ParseMedia` (668), `ParseTunnel` (671);
- the test of `useZrtpTunnel` for a ZRTP packet (337): `TestTunnel` when it finds no tunnel, then `ClearTunnel` (367), which
  takes back what the application may have set in between; then the packet is handled or dropped;
- `srtpSecretsReady`: `RecvOn`, `SenderOn` (sendSrtp is there, 906) and `SecureOn` (useSdesForMedia is cleared, 983, and the
  stream is reported secure); `Finishing`, `RecvOn` and `SendOn` are the places of the handler in between;
- `processOutgoingRtp`: `TestSendSrtp` (201) before the look at `useSdesForMedia` (209).

`setZrtpEncapAttribute` is one step, because what other threads may do between its test and its write they could do
before or after it as well. `ResetSdesContext` has both values of `force`. ZRTP fails by its timers
(`TimerFailed`, `SendFailed`, `NotSuppOther`) and by Error packets, sent in any handshake state and in SecureState (`SendErrorPacket`)
or received (`RecvError`), with and without zrtp-hash. The history variable `undone` says what a thread took back
that another had set for good: `"tunnel"` (367), `"media"` (SDES used again by a `parseSdes` that ends when ZRTP has taken over),
`"sdes"` (an active context deleted). Not modelled: that `delete sdes` and `delete recvSrtp` may free what an RTP thread is
using, for which the code has no answer.

### CtZrtpSession

`start(VideoStream)` and `masterStreamSecure` run on two threads. Each is cut at the accesses to what
they share: `enableZrtp`, `multiStreamParameter`, the engine, `started`. Parameters are named by the call
whose master produced them.

## 3. Runs

| Run | Shows |
|---|---|
| engine | For every packet, failure and interleaving: types; `ResendMatchesState`, `TimerMatchesState`, `RequestsBounded`, `SrtpMatchesState`, `NoSilentAbort`, `SenderOnlyWhenSecure`; and `WaitingEnds`: the engine leaves WaitConfirm1, WaitConfAck and WaitErrorAck whatever the peer does |
| exchange | In DH and in multi-stream mode, with four lost packets and no one giving up: no media before the peer can open it, no false alarm of a check, both sides become and stay secure; and the exchange implements KeyAgreement, its fairness included: one Initiator, one Responder, one key, in the promised order |
| exchange_restarts | With sessions abandoned and objects replaced while old packets are on their way: `KeysAgree` |
| timeout_list | The list stays in order; what is on it is served |
| srtp_replay | The register is exact over two roll-overs, nothing is accepted twice, nothing fresh within the window is dropped |
| srtcp_replay | What holds for SRTCP for every uninitialised `s_l`: the highest index is not accepted twice, and is kept; nothing new inside the replay window is dropped |
| retained_secrets | However sessions are cut, stopped or ended by a crash: both ends derive keys from the same secret, one cut does not cost them the link, the SAS flag descends from a comparison by this user, both ends show the same flag, and where the expected secret was missing neither a Confirm packet nor a stop replaces the saved record |
| negotiation | For the configurations of the clients, with one change or a second peer: the same public key algorithm on both sides, no Commit that the peer refuses or has not offered, a strong hash with a large curve |
| tivi_stream | With every interleaving of the threads: SDES active where it is used, tunnels agree, media is readable while the ends switch from SDES to ZRTP, that on its way included, "secure" is encrypted, discriminator mode lets nothing unprotected out or in and warns of a Hello the signaling does not vouch for; and ZRTP completes. The windows of the code in which one of these fails are named in the property (below) |
| tivi_session | Over three calls of one session: the slave stream starts, with the keys of a master, whichever thread comes first |

Runs that are expected to find a violation state what the repository says of itself:

| Run | The code does otherwise |
|---|---|
| timeout_request_kept | A request that expires with the last one of the list is not queued |
| retained_match | Two sessions cut before the first secret leave records whose zeroed `rs2` is valid; the next session reports "at least one retained secret matches" |

More differences between a comment and the code, or between two parts of the code, were met while modelling.
The models have them, the properties are stated so as to say what holds beside them, and no run is
kept for them:

Engine (`zrtp/ZrtpStateClass.cpp`)
- An ignored DHPart1 has dropped the Commit (line 870, comment line 752): the next timeout
  ends the session.
- A timeout taken off the list before `cancelTimer` (`CcrtpTimeoutProvider.h:262`) ends a Responder's session
  (line 1022, against "no timer active", line 965).
- After a malformed packet on a secure stream, close in WaitErrorAck does not switch SRTP off (line 1347,
  `ZRtp.h:159`).
- evAckSent (line 391, "Timer T1 is active"): a Commit that `prepareDHPart1` ignores has already
  cancelled the timer (line 480).
- evDetect (lines 198-200, the restart of discovery when `startZrtp` is called again):
  `startZrtpEngine` delivers the event in Initial only, so an engine whose Hellos are
  used up stays in Detect until a packet arrives.
- evSecureState (lines 1379-1380, "resend Conf2Ack packet"): a SAS relay has replaced the packet. Between the writes of
  lines 1505 and 1506 a repeated Confirm2 is even answered with the SAS relay packet.
- `sendSASRelay` (line 1503) called before or after SecureState replaces the packet of that state, and when it cannot send, ends
  the session there. `ResendMatchesState`, `TimerMatchesState` and `RequestsBounded` hold until that happens
  (`strayRelay`); the bound grows by one, the other properties hold all the same.
- evWaitConfAck (lines 1213-1215): a Conf2Ack carries nothing of its session, so a late
  one of an earlier session is accepted; keys still agree (`KeysAgree`).

Timeouts and replay windows
- A signal between the unlock and `reset()` is lost (`CcrtpTimeoutProvider.h:273`, against lines
  177-178); the thread sleeps its old time, up to an hour.
- An overtaken SRTCP packet is accepted again, because `index - s_l` is never negative
  (`CryptoContextCtrl.cpp:338`, against `CryptoContextCtrl.h:200-201`). For the same reason a packet older than the
  window, which lines 209-210 and the comment "Packet too old" (`CryptoContextCtrl.cpp:345`) want refused, is
  accepted; `FreshAccepted` speaks of the window only.

Retained secrets
- `resetSASVerified` (ZRtp.cpp:2539) saves the record also when it is held back, with the new secret, against `ZRtp.h:1014`
  ("don't save record until user verified and confirmed the SAS") and the comments at ZRtp.cpp:1999 and 2161: the user who says
  that the SAS differs makes the session's secret the next one's. `SecretHeldBack` therefore speaks only of what the
  engine does of its own accord.
- Two cuts in a row can cost the peers their common secret: a record has room for two.
- `ZrtpQueue` never counts `zrtpUnprotect`, so `stopZrtp` takes every session for one with little media.

Negotiation
- `getCipherOffered` looks for "2FS2", a name that `zrtpSymCiphers` does not know.
- `cipher` and `authLength` of an earlier choice survive a second Hello without a common
  public key algorithm (ZRtp.cpp:314).
- `addAlgoAt` tests the index and not the length of the list, nor whether the algorithm is in it.

Tivi client
- While ZRTP is secure, a packet that is not ZRTP/SRTP goes to an SDES stream that is half open
  (CtZrtpStream.cpp:281), and that one passes everything (ZrtpSdesStream.cpp:244 ff.).
  `DiscriminatorSound` holds all the same: in discriminator mode ZRTP runs only in the tunnel, and the tunnel
  only on an active SDES stream. Outside that mode the packet reaches the application.
- parseSdes tells the user (lines 664-667) before it uses SDES (668): RTP in between leaves unprotected while `isSecure` is true,
  and when ZRTP/SRTP can already receive, plain RTP from the peer is passed to the application (281, ZrtpSdesStream.cpp:244).
  `SecureIsEncrypted` excepts that moment; in discriminator mode the packet is refused.
- resetSdesContext(true) (711) leaves `eSecureSdes`: the stream says it is secure and sends plain RTP.
- srtpSecretsReady has sendSrtp (906) before it gives up SDES (983): a packet in between has both layers, and a peer that has given up
  SDES takes off one. A sending thread that saw no sendSrtp (201) and then no SDES (209) sends without any layer, or, in discriminator mode,
  reports an exception although the call is secure. `MediaFlows` speaks of packets with what their sender puts on before or
  after the switch.
- The receiving thread's write of line 367 loses a tunnel that was turned on since its test of line 337: from then on each end drops the
  other's ZRTP packets. `TunnelsAgree` and `ZrtpCompletes` except it by the history variable.
- An inviter that refuses the answer's crypto string (ZrtpSdesStream.cpp:211-218, CtZrtpStream.cpp:675-680) is left without SDES and tunnel
  while the answerer uses both; ZRTP does not complete then.
- A parseSdes that began before ZRTP was secure ends with SDES in use again (668), although srtpSecretsReady has given it up.
- The answerer's tunnel may come on after its last Conf2Ack went without: only its media then ends the Initiator's wait.
- An inviter that is secure before it reads an answer without zrtp-hash ignores the crypto string
  (parseSdes), and the answerer protects twice.
- srtpSecretsReady gives up SDES when there is any zrtp-hash (line 982); the comment at line 277, and
  setSignalingHelloHash, speak of a matching one.
- When only one end sends a zrtp-hash, or an end reads it late, each end gives SDES up on its own evidence,
  and media in between is garbled: `MediaFlows` is about ends that advertise the same.
- Of several zrtp-hash lines that come after the Hello, a first one that does not match raises the
  exception although a later one would match.
- `release()` keeps `multiStreamParameter`: in the next call a slave starts at once with the former
  master's parameters, against `CtZrtpSession.h` ("may delay the start of a Slave stream until the
  Master stream enters secure mode"). `MasterFirst` therefore demands a secure master in the first call only.
- `masterStreamSecure` uses the video stream without a NULL test, also when `init` made none.

`TypeOK` is a checked property where it says something that could go wrong (ZrtpStateClass: the fallback
version); in ZrtpHandshake and TimeoutProvider it only documents the variables, in SrtpReplay it is
part of the inductive invariant and proved.

### Bounds

- *ZrtpStateClass*: own versions {2, 4} and peer versions 1..5 put the peer below, between,
  above and on ours. `T1Resend` = `T1ResendExtend` = `T2Resend` = 1 reach the first resend
  and the exhausted counter; the limits 20, 60 and 10 of the code add repetitions of the same step,
  and the proofs hold for all of them. `MaxStarters` lets threads overlap in `startZrtpEngine`; `MaxRelays` = 1 call of `sendSASRelay`, at any moment (the proofs
  hold for any number of calls that do not overlap).
- *ZrtpHandshake*: `MaxHvi` = 2 is one value each (a commit clash with either outcome), with
  `MaxLosses` = 4 any of the packets of a flight and its repetition may be lost; once the losses
  are used up the network still reorders and repeats. `exchange_restarts` has two objects
  per peer (`MaxChain` = 2) and four values, one for each object, and the peers are symmetric. It
  needs no losses: without fairness a packet may simply never arrive. The run is in DH mode, the
  theorem `KeysAgreeHolds` covers both modes.
- *TimeoutProvider*: two streams, three requests, delays below, at and, with the clock, above
  each other; `Horizon` ends new requests so that the list drains, and `LongWait` stands for the
  hour of an idle thread, longer than or equal to any delay.
- *SrtpReplay*: 8 sequence numbers, a register of two 2 bit words (window 4 = half the number
  space) and 17 packets: two roll-overs, jumps past one word, both words and the window.
  `RocMod` exceeds what is sent, so that ROC - 1 at ROC 0 is a value no packet has.
- *SrtcpReplay*: indices modulo 8, a 3 bit register, 6 packets, all 16 values of `s_l`.
- *RetainedSecrets*: four sessions and one crash: a first secret, two that are cut, one that
  must find a match; two secrets fit in a record, so a fourth session sees every way to lose one.
  `EnoughMedia` = 1 stands for the 10 or 50 packets of the clients; the proofs hold for every positive
  limit (with 0, no stream would ever make `rs2` valid again) and for two sessions or more (`cuts` must be
  able to count to two). The peers are symmetric. The run of
  MatchIsShared needs two sessions.
- *Negotiation*: all set-ups of the clients with four user settings, builds with and without the non-NIST
  curves; one change of a list or policy, or one replaced client. The choice reads one list at a time, the
  public key list apart. The clients are symmetric.
- *CtZrtpStream*: in discriminator mode all pairs of seven kinds of SDP, with and without SDES, tunnel, and
  zrtp-hash (right, wrong, none); otherwise four calls (tunnel without zrtp-hash, SDES with zrtp-hash, zrtp-hash alone, SDES at one
  end only). The safety properties are proved for all calls. Media of one kind is one packet (`MaxMedia` = 1 on its way at a time).
  `MaxMishaps` = 1 bounds what is rare: a preempted RTP thread, a forced reset, a refused crypto string, a malformed packet;
  everything else interleaves freely. 796,151 states.
- *CtZrtpSession*: three calls, so that parameters of the last call and of one before it occur.

Sequence numbers that start over from an index of 2^48 (or 2^31 for SRTCP) are not reached;
a session is rekeyed before.

### Fairness

- `ZrtpStateClass!FairSpec`: the timeout thread runs (weak fairness of `TimeoutDue` and
  `TimerEvent`): it is a loop without an exit while streams exist, and the stream lock is held for
  one event at a time. A `sendSASRelay` that has begun ends. Nothing else is assumed of peer or application.
- `ZrtpHandshake!FairSpec`: each engine eventually takes a step that is enabled for ever:
  receive a packet, time out, finish a handler. Nobody gives up and the losses are bounded: this
  is the case in which success may be expected at all.
- `TimeoutProvider!FairSpec`: the thread is scheduled and time passes.
- `KeyAgreement!FairSpec` is implied by that of ZrtpHandshake; it is the promise, not an assumption.
- `CtZrtpStream!FairSpec`: ZRTP packets are repeated until they are answered, and a packet that is
  repeated for ever arrives. Nobody has to signal, start or talk. Timers may give up, which
  `ZrtpCompletes` allows.
- `CtZrtpSession!FairSessionSpec`: a call of `start` or of the callback that has begun comes to its end.

No run assumes strong fairness. Deadlock checking is on for ZrtpStateClass and CtZrtpStream, which
may never stop; the other models may come to rest (their bounds are used up).

## 4. Proofs

Each proof module extends the module it is about and uses only the named ASSUME of that module:
sizes are natural numbers, there are two peers, and what is said below. TLC evaluates the assumptions in
the runs. The inductive invariants were checked by TLC on the instances of the runs before they were
proved.

### ZrtpStateClassProofs

From `ConstantsOK` alone (versions are natural numbers, the own versions have a greatest one, resend limits
are integers, zero and negative included):

- `TypeCorrect`: `Spec => []TypeOK`. The part that is not routine is that the version the
  engine falls back to is one of its own (`FallbackInVersions`): the set of own versions not above the
  peer's is bounded, so it has a greatest element, by well-foundedness of the distances to the bound.
- `Control`: `TypeOK /\ ControlInv` is inductive. `ControlInv` is the conjunction of the
  properties below and `ErrorReported`: in WaitErrorAck the failure has already been reported. That
  conjunct is what induction needs and no property says: `evWaitErrorAck` returns to Initial on
  ErrorAck without telling the client, so `NoSilentAbort` holds only because `sendErrorPacket` told it
  before. With `sendSASRelay` between any two events the conjuncts carry how far it is and whether it has run
  outside SecureState: `relay # "idle"` is what stands in for a timer it has cancelled. The conjuncts need one another: a resend fails if and only if `sentPacket` is
  NULL, and the bound on requests depends on which states leave one behind.
- `ResendCorrect`, `TimerCorrect`, `SrtpCorrect`, `AbortsReported`,
  `RequestsStayBounded` follow from `Control`; `SenderCorrect` is the action property
  `SenderOnlyWhenSecure`, by cases on the actions (`SenderEnabled`).

### ZrtpHandshakeProofs

Two results, with two invariants, for any number of DH values, objects, starts and losses, in both modes.

- `KeysAgreeHolds`: `Spec => []KeysAgree`, also when engines give up, start again or are
  replaced at any moment. Nothing in a packet tells a session from an earlier one, so the invariant speaks
  of every key that a peer has computed and that still matters (`Computed`: its present one, those on the
  network, and the one its peer has seen confirmed). *One key per value* (`OneKey`): a key that contains the present
  value of p is the present key of p. That alone does not exclude that p's key is from q's
  earlier session and q's from p's earlier one. In DH mode `InOneOrder` does: whoever computed a key
  with the other's present value and an old value of its own drew later. In
  multi-stream mode a key contains only the Initiator's nonce, so the argument is another one: who drew a
  nonce (`Owned`), an object answers a nonce once (`NonceSeen`, from the list of nonces), and three exclusions
  of pairs of old answers (`AnsweredLater`, `NotBothEarlier`, `NotBothRespond`).
- `NoFalseAlarmHolds`, `MediaDecodableHolds`: `FairSpec => []...`, when nobody gives up. The
  invariant `Calm` says of each engine which role, value and state go together (`InRole`), what it holds
  (`Content`: its key is *the* key of the session), how far its peer must have come (`InStep`), and
  of each packet what it implies about its sender (`Sent`). The difficult part is the commit clash: a Commit
  on the network may be one that has lost, and then its sender is Responder with the smaller value.
- `ImplementsAgreement`: `FairSpec => Agreement!Spec`, the safety part of the refinement. Each action
  moves one engine; the lemmas `Move*` show, of the engine before and after next to that of the peer, that `Calm` is
  kept and that KeyAgreement sees one of its own steps or nothing. The three theorems use no fairness, only
  `Init /\ [][UndisturbedNext]_vars`.

### TimeoutProviderProofs

`SortedHolds`, for any streams and delays and a list of any length. `Sorted` is inductive with the types.
`requestTimeout` inserts before the first later request, and that there is a first one is well-foundedness;
`cancelRequest` keeps the order of what remains.

### SrtpReplayProofs

`TypeCorrect`, `WindowExactHolds`, `NoReplayHolds`, `FreshAcceptedHolds`: for all widths, if a
sequence number space is twice `Half`, the window is not larger than half of it (128 and 2^15 in the
code), and the roll-over counter does not reach its end. `WindowExact` (bit k is set iff the packet k below
the highest was accepted) is the core of the invariant; it needs `Counters` (receiver's ROC not ahead of
the sender's, so that `guessIndex` never wraps) and `Fresh`. `Guess` bounds what `guessIndex` can return,
`Advance` is the shift of the register in `update` (below one word, one to two words, beyond), `Register` the setting
of a bit. `FreshAccepted` moreover needs that `guessIndex` is right for every packet less than
half the number space away (`GuessRight`).

### SrtcpReplayProofs

`HighestKeptHolds`, `HighestNotReplayedHolds`, `FreshAcceptedHolds`: for all widths, every value of
the uninitialised `s_l` and every result of an undefined shift. The invariant adds `Marked`: whatever a shift
made of the register, bit 0 is set after the first packet.

### RetainedSecretsProofs

`SameSecretChosenHolds`, `LinkKeptHolds`, `FlagsAgreeHolds`, `SasFlagEarnedHolds`, and the action property
`SecretHeldBackHolds`: for any number of sessions and crashes. `Inv` says that for some `offer`, which
stands for what the two records offered at the beginning of the session, `Within(offer)` holds:
- `Types`, with the order of the two secrets in a record (`rs2 < rs1`, unless both are zeroed). Because
  of it `Choose` is symmetric (`ChooseSame`): two lists in the order of age have one first common
  secret. Without it the two ends could pick different ones;
- `Session(offer)`: engines and packets carry the offer unchanged (`EngineOK`, `PacketOK`). It is a rigid
  existential, because a record that is saved forgets it; every step within a session keeps the witness,
  and `NewSession` takes the one the caches have now;
- `Link(offer)`: what `cuts` = 0 and 1 say of the two caches. With one cut, one peer is `Ahead`, and
  its second secret is the other's first: valid, or valid again when it stops;
- `Flags`: whose SAS flag is in which Confirm packet.

`SasFlagEarned` needs more: the session whose SAS a user compared may lie any number of sessions back.
`Lineage(s)` is the least set that holds `s` and is closed under `matched`, so that what the proof needs
of it (`EarnedWithSource`, `EarnedForEver`) takes no induction. `SasInv` adds `Sas(offer, had)`, where
`had` is the flag of each record when the session began:
- `CacheEarned`: a verified record has earned its first secret. Of its second one this cannot be said (a
  user may verify a session after one that nobody verified), and yet `Stop` makes it valid and the peers may fall
  back on it. What holds is that an unearned second secret is never the one two verified records would
  choose: the peer does not have it as first, and a verified peer that has it as second
  has the same first one, which `Choose` prefers;
- `EngineEarned`: until a Confirm packet an engine's flag is that of its record, and it is gone when the
  expected match is missing; afterwards a flag is in the cache, with the secret of the session;
- `PacketEarned`: a flag in a Confirm packet was in the record of its sender, and a Confirm2 and a Conf2Ack
  are sent after their sender saved, if the peers had a secret in common;
- `OfferEarned`: if both records were verified, both peers have earned the secret they share.

### CtZrtpProofs

One module for the two Tivi models, which is why the formulas of CtZrtpSession carry its name (`SessionInit`,
`SessionNext`, `SessionSpec`).

Of CtZrtpStream: `SdesInUseHolds`, `TunnelsAgreeHolds`, `MediaFlowsHolds`, `SecureIsEncryptedHolds`,
`DiscriminatorSoundHolds`, `DiscriminatorWarnedHolds`, for any set of calls and any number of mishaps and packets. The invariant
has one part per stream (`SdesUse`: how SDES is used at each place of `parseSdes`; `EngineView`: what the callbacks of
the engine left behind; `Discriminated`: in discriminator mode the engine runs in the tunnel only, so line 367 is never reached) and
one for the signaling (`HandOver`: what an end has been told and what it has still to be told is the peer's SDP, and `parseSdes`
begins once, `Beyond`). `TunnelsAgree` and `MediaFlows`, which relate the two ends, follow from it. The lemmas `UpdateStep`, `EngineStep` and
`ParseStepInv` say what is left to show of a step of one thread: that the fields it writes keep the stream's part.

Of CtZrtpSession: `SlaveStartedHolds`, `MasterFirstHolds`, for any number of calls. The invariant says what each of the
two threads has written at each place of its program (`Written`), and that somebody is about to start a Slave that
waits although the Master is secure (`SomebodyStarts`): of the two orders of `enableZrtp` and
`multiStreamParameter` each thread writes its own before it reads the other's. This takes sequential consistency for granted,
which the plain `bool` and `std::string` of the code do not give: a processor that delays a write past the following read
can leave the Slave waiting.

### NegotiationProofs

`PubKeySymmetricHolds`, `CommitAcceptedHolds`, `StrongHashOfferedHolds`, `OnlyOfferedHolds`: for every set of
user settings, lists of any length with repeated entries, and any number of changes and of clients that
replace one another. The assumption used is that there are two peers (and that indices are natural numbers).
- *The operators.* `FirstOf` finds a member or the list has none (`FirstOfMember`): a set of positions that
  is not empty has a least element, by well-foundedness. `FindBestPubkey` is symmetric (`SymmetricPubkey`): the
  two sides have the same set of common algorithms and, swapped, the same two first choices, and
  two algorithms with one rank in `orderedAlgos` are the same. What each `FindBest*` and `Offered*` returns is
  in the Hello or mandatory (`Granted`), a strong hash with a large curve included (`OfferedHashGranted`).
- *The configurations.* `TiviConfigLists`, for all combinations of the settings and both builds: the lists
  hold what the client was built with, and a large curve brings its hash with it (`LargeHash`).
- *The invariant* `IInv` adds to the properties: every list holds known algorithms, and so do the members
  that an object keeps from an earlier peer (`Lists`, `Kept`); an object past its Hello holds
  what `FindBestPubkey` returns for the two lists as they are now (`PubKeyChosen`), also as Responder, which took it from
  the Commit; and `LargeHash` holds of both lists until somebody changes one. `Kept` is what makes
  `CommitAccepted` inductive: without a common public key algorithm the old cipher and authentication length go into
  a Commit for a peer that never offered them, and it accepts them only because every build knows the
  same ones.

### Only model-checked

- Liveness, which needs fairness and ENABLED: `WaitingEnds`, `BothSecure`, `Served`,
  `ZrtpCompletes`, `SlaveStarts`, and of `ImplementsKeyAgreement` the fairness of KeyAgreement.

## 5. Not modelled

- Byte layouts, Base32, the C wrapper, CRC32, and the cryptographic primitives (`cryptcommon`, `srtp/crypto`,
  `bnlib`, `zrtp/crypto`): no state, or pure computation whose properties are not those of a
  transition system. In the exchange they are free constructors (a hash or MAC matches iff its inputs do).
- SQLite and SQLCipher, which are third-party code, and the cache that uses them: the same record in a
  table, with the same calls around it.
- Auxiliary and PBX secrets, enrollment, and SAS signatures: further inputs of the key derivation and further flags
  of the record, without control of their own. The SAS relay is in the engine (ZrtpStateClass), its PBX side is not.
- The crypto contexts of the ccrtp queue, one per SSRC, which ccrtp keeps and which is not in the
  repository; and the life time of the engine object: `stopZrtp` deletes it while the timeout thread may be in
  `handleTimeout`, nothing orders the two, and so there is no property to check.
- Crypto strings, key mixing and SRTCP of the SDES stream; statistics, texts and `stop()` of the Tivi
  session, which only makes it ignore a stream.

## 6. Plan

Modelled: the engine, the exchange and its abstract specification, the timeout provider, both
replay windows, retained secrets, negotiation, the Tivi stream with SDES, the Tivi session. Proved: every
invariant and action property that a run expects to hold, and the safety part of the refinement. Left are the liveness properties,
which the prover does not reach, and the parts of section 5.
