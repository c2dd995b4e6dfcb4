---------------------------- MODULE Negotiation ----------------------------
(***************************************************************************)
(* The algorithms of a session: ZrtpConfigure's lists, the Hello packet     *)
(* made from them, and the choice ZRtp::prepareCommit makes from the peer's *)
(* Hello, which the peer checks in prepareDHPart1.                          *)
(*                                                                         *)
(* An application changes its lists before it creates the ZRtp object.  An  *)
(* object may see the Hello of another client after it has prepared a       *)
(* Commit (the Hello timer gave up, and the call went elsewhere): its       *)
(* members hash, cipher and authLength then still hold the old choice.      *)
(* Multi-stream mode, which takes over the algorithms of its master stream, *)
(* is left out.                                                            *)
(***************************************************************************)
EXTENDS Naturals, Sequences, SequencesExt, FiniteSets, FiniteSetsExt, Functions

CONSTANTS
    Peers,           \* the two clients
    maxNoOfAlgos,    \* bound of the code: algorithms in a list
    Flags,           \* bound: user settings of a Tivi client that vary
    Indices,         \* bound: arguments of addAlgoAt
    MaxChanges,      \* bound: calls that change a list
    MaxReplaced      \* bound: clients, with unchanged lists, that another one replaces

ASSUME NegotiationConstants ==
    /\ IsFiniteSet(Peers) /\ Cardinality(Peers) = 2
    /\ maxNoOfAlgos \in Nat /\ Indices \subseteq Nat
    /\ MaxChanges \in Nat /\ MaxReplaced \in Nat

VARIABLES
    config,          \* lists of algorithms, by type
    policy,          \* selectionPolicy
    nonNist,         \* the clients built with SUPPORT_NON_NIST
    suite,           \* the algorithms an object has chosen
    stage,           \* how far it has come
    stale,           \* history: types whose choice predates the present peer
    changes, replaced

vars == <<config, policy, nonNist, suite, stage, stale, changes, replaced>>

Other(p) == CHOOSE q \in Peers : q # p

Null == "null"

Types == {"hash", "cipher", "pubKey", "sas", "auth"}

mandatory == [hash |-> "S256", cipher |-> "AES1", pubKey |-> "DH3k", sas |-> "B32", auth |-> "HS32"]

\* HashEnum, SymCipherEnum, PubKeyEnum, SasTypeEnum, AuthLengthEnum: what a client
\* was built with.
Known(p, t) ==
    CASE t = "hash"   -> {"S256", "S384", "SKN2", "SKN3"}
      [] t = "cipher" -> {"AES3", "AES1", "2FS3", "2FS1"}
      [] t = "pubKey" -> {"DH2k", "EC25", "DH3k", "EC38", "Mult"}
                           \cup (IF p \in nonNist THEN {"E255", "E414"} ELSE {})
      [] t = "sas"    -> {"B32", "B256", "B32E", "B10D"}
      [] t = "auth"   -> {"HS32", "HS80", "SK32", "SK64"}

-----------------------------------------------------------------------------
(* ZrtpConfigure.                                                            *)

Cleared == [t \in Types |-> <<>>]

StandardConfig ==
    [hash |-> <<"S384", "S256">>, cipher |-> <<"2FS3", "AES3", "2FS1", "AES1">>,
     pubKey |-> <<"EC25", "DH3k", "EC38", "DH2k", "Mult">>, sas |-> <<"B32">>,
     auth |-> <<"SK32", "SK64", "HS32", "HS80">>]

MandatoryOnly ==
    [hash |-> <<"S256">>, cipher |-> <<"AES1">>, pubKey |-> <<"DH3k", "Mult">>,
     sas |-> <<"B32">>, auth |-> <<"HS32", "HS80">>]

If(cond, list) == IF cond THEN list ELSE <<>>

\* Mutant of TiviConfig: the strong hashes depend on the hash settings alone.
TiviConfigNoLargeHash(p, set) ==
    LET nonNistFirst == "iPreferNIST" \notin set
        Both(other, nist) == IF nonNistFirst THEN other \o nist ELSE nist \o other
    IN  [pubKey |-> Both(If("iDisableBernsteinCurve3617" \notin set /\ p \in nonNist, <<"E414">>),
                         If("iDisableECDH384" \notin set, <<"EC38">>))
                    \o <<"DH3k", "Mult">>,
         hash   |-> Both(If("iDisableSkeinHash" \notin set, <<"SKN3">>),
                         If("iEnableSHA384=0" \notin set, <<"S384">>)) \o <<"S256">>,
         cipher |-> <<"AES1">>, sas |-> <<"B32">>, auth |-> <<"HS32">>]

\* CtZrtpSession::setupConfiguration.  set: the settings whose value is not the
\* default; getByName finds no non-NIST curve in a client built without them.
TiviConfig(p, set) ==
    LET nonNistFirst == "iPreferNIST" \notin set
        On(setting) == setting \notin set
        Both(other, nist) == IF nonNistFirst THEN other \o nist ELSE nist \o other
    IN  [pubKey |->
             Both(If(On("iDisableBernsteinCurve3617") /\ p \in nonNist, <<"E414">>),
                  If(On("iDisableECDH384"), <<"EC38">>))
             \o Both(If(On("iDisableBernsteinCurve25519") /\ p \in nonNist, <<"E255">>),
                     If(On("iDisableECDH256"), <<"EC25">>))
             \o If("iPreferDH2K" \in set /\ On("iDisableDH2K"), <<"DH2k">>)
             \o <<"DH3k">> \o If(On("iPreferDH2K") /\ On("iDisableDH2K"), <<"DH2k">>)
             \o <<"Mult">>,
         hash |-> Both(If(On("iDisableSkeinHash") \/ On("iDisableBernsteinCurve3617"), <<"SKN3">>),
                       If(On("iEnableSHA384=0") \/ On("iDisableECDH384"), <<"S384">>))
                  \o Both(If(On("iDisableSkeinHash"), <<"SKN2">>), <<"S256">>),
         cipher |-> If(On("iDisableAES256"), If(On("iDisableTwofish"), <<"2FS3">>) \o <<"AES3">>)
                    \o If(On("iDisableTwofish"), <<"2FS1">>) \o <<"AES1">>,
         sas  |-> (CASE "iDisable256SAS=1" \in set -> <<>>
                     [] "iDisable256SAS=2" \in set -> <<"B32E">>
                     [] OTHER -> <<"B256">>) \o <<"B32">>,
         auth |-> Both(If(On("iDisableSkein"), <<"SK32", "SK64">>), <<"HS32", "HS80">>)]

\* How the clients of this repository set up a configuration.
Setups(p) ==
    {[lists |-> c, policy |-> "Standard"] : c \in {Cleared, StandardConfig, MandatoryOnly}}
      \cup {[lists |-> TiviConfig(p, set), policy |-> "PreferNonNist"] : set \in SUBSET Flags}

NoSuite == [t \in Types |-> Null]

Init ==
    /\ nonNist \in SUBSET Peers
    /\ \E setup \in [Peers -> UNION {Setups(p) : p \in Peers}] :
         /\ \A p \in Peers : setup[p] \in Setups(p)
         /\ config = [p \in Peers |-> setup[p].lists]
         /\ policy = [p \in Peers |-> setup[p].policy]
    /\ suite = [p \in Peers |-> NoSuite] /\ stage = [p \in Peers |-> "Start"]
    /\ stale = [p \in Peers |-> {}] /\ changes = 0 /\ replaced = 0

Change(p, t, list) ==
    /\ changes < MaxChanges /\ changes' = changes + 1
    /\ \A q \in Peers : stage[q] = "Start" /\ suite[q] = NoSuite
    /\ config' = [config EXCEPT ![p][t] = list]
    /\ UNCHANGED <<policy, nonNist, suite, stage, stale, replaced>>

\* addAlgo: appends, unless the list is full or has it.
AddAlgo(p, t, a) ==
    /\ Len(config[p][t]) < maxNoOfAlgos /\ a \notin Range(config[p][t])
    /\ Change(p, t, Append(config[p][t], a))

\* addAlgoAt: inserts at index, or appends behind the end; index counts from 0.
AddAlgoAt(p, t, a, index) ==
    /\ index < maxNoOfAlgos
    /\ LET list == config[p][t]
       IN  Change(p, t, IF index >= Len(list) THEN Append(list, a)
                        ELSE InsertAt(list, index + 1, a))

\* The places of list that hold one of S.
Places(list, S) == {i \in DOMAIN list : list[i] \in S}

\* removeAlgo: the first occurrence.
RemoveAlgo(p, t, a) ==
    /\ a \in Range(config[p][t])
    /\ Change(p, t, RemoveAt(config[p][t], Min(Places(config[p][t], {a}))))

SetSelectionPolicy(p, pol) ==
    /\ changes < MaxChanges /\ changes' = changes + 1
    /\ \A q \in Peers : stage[q] = "Start" /\ suite[q] = NoSuite
    /\ policy' = [policy EXCEPT ![p] = pol]
    /\ UNCHANGED <<config, nonNist, suite, stage, stale, replaced>>

-----------------------------------------------------------------------------
(* The choice.  hello: the peer's lists; own: the configured ones.           *)

\* The first of list that is in S.
FirstOf(list, S) == IF Places(list, S) = {} THEN Null ELSE list[Min(Places(list, S))]

\* Mutant of FindBest: without a match, the own first choice is taken.
FindBestOwn(t, hello, own) ==
    LET a == FirstOf(hello[t], Range(own[t]))
    IN  CASE a # Null -> a [] own[t] # <<>> -> Head(own[t]) [] OTHER -> mandatory[t]

\* findBestHash, findBestSASType, findBestAuthLen: in the order of the Hello.
FindBest(t, hello, own) ==
    LET a == FirstOf(hello[t], Range(own[t])) IN IF a = Null THEN mandatory[t] ELSE a

FindBestCipher(hello, own, pubKey) ==
    IF pubKey = "DH2k" THEN "AES1" ELSE FindBest("cipher", hello, own)

\* RFC 6189, 4.1.2: from fast to slow.
orderedAlgos == <<"DH2k", "E255", "EC25", "DH3k", "E414", "EC38">>
Rank(a) == CHOOSE i \in DOMAIN orderedAlgos : orderedAlgos[i] = a

\* What ownIntersect and peerIntersect hold, each in its own order; multi-stream mode
\* is no public key algorithm.
Common(hello, own) == (Range(own.pubKey) \cap Range(hello.pubKey)) \ {"Mult"}

\* Mutant of FindBestPubkey: the peer's preference always wins.
PeerPubkey(hello, own) ==
    IF Common(hello, own) = {} THEN mandatory.pubKey
    ELSE FirstOf(hello.pubKey, Common(hello, own))

\* findBestPubkey: of the two first choices the faster one.  The code's test for a
\* single common algorithm saves work only: mine and theirs are then the same.
FindBestPubkey(hello, own) ==
    LET common == Common(hello, own)
        mine   == FirstOf(own.pubKey, common)
        theirs == FirstOf(hello.pubKey, common)
    IN  CASE common = {} -> mandatory.pubKey
          [] common # {} /\ Rank(mine) < Rank(theirs) -> mine
          [] OTHER -> theirs

Strong(pubKey) == pubKey \in {"EC38", "E414"}
StrongHashes == {"S384", "SKN3"}

PrefersNonNist(p, pubKey) == pubKey \in {"E414", "E255"} /\ policy[p] = "PreferNonNist"

\* What findBestPubkey has set besides: getStrongHashOffered, getHashOffered.
OfferedHash(p, hello, own, pubKey) ==
    LET skein  == IF ~PrefersNonNist(p, pubKey) THEN Null
                  ELSE FirstOf(hello.hash, IF Strong(pubKey) THEN {"SKN3"} ELSE {"SKN2", "SKN3"})
        strong == FirstOf(hello.hash, StrongHashes)
    IN  CASE skein # Null -> skein
          [] skein = Null /\ Strong(pubKey) -> strong
          [] OTHER -> FindBest("hash", hello, own)

\* getStrongCipherOffered, getCipherOffered; Null leaves the choice to findBestCipher.
OfferedCipher(p, hello, pubKey) ==
    LET twofish == IF ~PrefersNonNist(p, pubKey) THEN Null
                   ELSE FirstOf(hello.cipher, IF Strong(pubKey) THEN {"2FS3"} ELSE {"2FS2", "2FS3"})
    IN  CASE twofish # Null -> twofish
          [] twofish = Null /\ Strong(pubKey) -> FirstOf(hello.cipher, {"AES3", "2FS3"})
          [] OTHER -> Null

\* getAuthLenOffered.
OfferedAuth(p, hello, own, pubKey) ==
    LET skein == IF ~PrefersNonNist(p, pubKey) THEN Null
                 ELSE FirstOf(hello.auth, {"SK32", "SK64"})
    IN  IF skein # Null THEN skein ELSE FindBest("auth", hello, own)

OrElse(a, b) == IF a # Null THEN a ELSE b

\* prepareCommit.  Without a common public key algorithm findBestPubkey returns
\* early, and cipher and authLength keep what an earlier call has left.
Chosen(p, hello, own) ==
    LET pubKey == FindBestPubkey(hello, own)
        common == Common(hello, own) # {}
        cipher == IF common THEN OfferedCipher(p, hello, pubKey) ELSE suite[p].cipher
        auth   == IF common THEN OfferedAuth(p, hello, own, pubKey) ELSE suite[p].auth
    IN  [pubKey |-> pubKey, sas |-> FindBest("sas", hello, own),
         hash   |-> IF common THEN OfferedHash(p, hello, own, pubKey)
                    ELSE FindBest("hash", hello, own),
         cipher |-> OrElse(cipher, FindBestCipher(hello, own, pubKey)),
         auth   |-> OrElse(auth, FindBest("auth", hello, own))]

PrepareCommit(p) ==
    LET hello == config[Other(p)]
        new   == Chosen(p, hello, config[p])
    IN  /\ stage[p] = "Start"
        /\ suite' = [suite EXCEPT ![p] = new]
        /\ stage' = [stage EXCEPT ![p] = IF new.hash = Null THEN "UnsuppHashType" ELSE "Prepared"]
        /\ stale' = [stale EXCEPT ![p] =
             IF Common(hello, config[p]) # {} THEN {}
             ELSE {t \in {"cipher", "auth"} : suite[p][t] # Null}]
        /\ UNCHANGED <<config, policy, nonNist, changes, replaced>>

\* Mutant of Acceptable: a Responder insists on what it has in its own lists.
AcceptableConfigured(p, commit) ==
    \A t \in Types : commit[t] \in Known(p, t) /\ commit[t] \in Range(config[p][t])

\* The checks of prepareDHPart1.
Acceptable(p, commit) ==
    /\ \A t \in Types : commit[t] \in Known(p, t)
    /\ Strong(commit.pubKey) => commit.hash \in StrongHashes

\* The peer was first: its Commit is ours to answer.  A refusal ends the session,
\* whatever members the checks before it have set.
PrepareDHPart1(p) ==
    LET commit == suite[Other(p)]
    IN  /\ stage[p] = "Prepared" /\ stage[Other(p)] = "Prepared"
        /\ IF Acceptable(p, commit)
           THEN suite' = [suite EXCEPT ![p] = commit] /\ stage' = [stage EXCEPT ![p] = "Responder"]
           ELSE suite' = suite /\ stage' = [stage EXCEPT ![p] = "Refused"]
        /\ UNCHANGED <<config, policy, nonNist, stale, changes, replaced>>

\* Another client takes the place of p; the object of its peer stays.
ReplaceClient(p, setup) ==
    /\ replaced < MaxReplaced /\ replaced' = replaced + 1 /\ changes = 0
    /\ stage[Other(p)] = "Prepared"
    /\ config' = [config EXCEPT ![p] = setup.lists]
    /\ policy' = [policy EXCEPT ![p] = setup.policy]
    /\ suite' = [suite EXCEPT ![p] = NoSuite]
    /\ stage' = [q \in Peers |-> "Start"] /\ stale' = [q \in Peers |-> {}]
    /\ UNCHANGED <<nonNist, changes>>

-----------------------------------------------------------------------------

Next ==
    \E p \in Peers :
      \/ \E t \in Types : \E a \in Known(p, t) :
           AddAlgo(p, t, a) \/ RemoveAlgo(p, t, a)
             \/ \E index \in Indices : AddAlgoAt(p, t, a, index)
      \/ PrepareCommit(p) \/ PrepareDHPart1(p)
      \/ \E pol \in {"Standard", "PreferNonNist"} : SetSelectionPolicy(p, pol)
      \/ \E setup \in Setups(p) : ReplaceClient(p, setup)

Spec == Init /\ [][Next]_vars

-----------------------------------------------------------------------------
(* Properties.                                                               *)

\* Each client chooses the same public key algorithm from the other's Hello, so
\* that a commit clash costs nobody a second key generation (RFC 6189, 4.1.2).
PubKeySymmetric ==
    (\A p \in Peers : stage[p] \in {"Prepared", "UnsuppHashType", "Responder"}) =>
        \A p, q \in Peers : suite[p].pubKey = suite[q].pubKey

\* What a Commit asks for, the peer can do: no choice that lists, policy and
\* build of the two lead to is refused by prepareDHPart1.
CommitAccepted ==
    \A p \in Peers : stage[p] = "Prepared" => Acceptable(Other(p), suite[p])

\* Lists that nobody has changed never lead to UnsuppHashType: whoever enables a
\* large curve also offers a hash that is strong enough for it.
StrongHashOffered ==
    changes = 0 => \A p \in Peers : stage[p] # "UnsuppHashType"

\* A Commit asks for nothing that the peer has not offered in its Hello, the
\* mandatory algorithms apart; the exception are a cipher and an authentication
\* length that an object has kept from the Hello of another client.
OnlyOffered ==
    \A p \in Peers : stage[p] = "Prepared" =>
        \A t \in Types \ stale[p] :
            suite[p][t] \in Range(config[Other(p)][t]) \cup {mandatory[t]}
=============================================================================
