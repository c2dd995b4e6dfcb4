------------------------- MODULE NegotiationProofs -------------------------
(***************************************************************************)
(* Both clients choose the same public key algorithm, and every Commit is  *)
(* one the peer has offered and accepts: for any user settings, lists of   *)
(* any length, any number of changes and of clients that come and go.      *)
(***************************************************************************)
EXTENDS Negotiation, SequenceTheorems, FiniteSetTheorems, WellFoundedInduction, TLAPS

-----------------------------------------------------------------------------
(* Peers, lists and the first match in a list.                               *)

LEMMA OtherPeer ==
    \A p \in Peers : /\ Other(p) \in Peers /\ Other(p) # p /\ Other(Other(p)) = p
                     /\ \A q \in Peers : q = p \/ q = Other(p)
  <1> SUFFICES ASSUME NEW p \in Peers
               PROVE  /\ Other(p) \in Peers /\ Other(p) # p /\ Other(Other(p)) = p
                      /\ \A q \in Peers : q = p \/ q = Other(p)
    OBVIOUS
  <1>1. IsFiniteSet(Peers \ {p}) /\ Cardinality(Peers \ {p}) = 1
    BY NegotiationConstants, FS_RemoveElement
  <1>2. PICK q : Peers \ {p} = {q}
    BY <1>1, FS_Singleton
  <1>3. Other(p) = q /\ Other(q) = p
    BY <1>2 DEF Other
  <1> QED
    BY <1>2, <1>3

\* A set of natural numbers that is not empty has a smallest member.
LEMMA MinExists ==
    ASSUME NEW S, S \subseteq Nat, S # {}
    PROVE  Min(S) \in S /\ \A i \in S : Min(S) <= i
  <1> DEFINE R == OpToRel(<, Nat)
  <1>1. PICK x \in S : \A y \in S : ~(<<y, x>> \in R)
    <2>1. IsWellFoundedOn(R, Nat)
      BY NatLessThanWellFounded
    <2> HIDE DEF R
    <2> QED
      BY <2>1, WFMin
  <1>2. \A i, j \in S : j < i => <<j, i>> \in R
    BY DEF OpToRel
  <1> HIDE DEF R
  <1>3. \A y \in S : ~(y < x)
    BY <1>1, <1>2
  <1>4. \A y \in S : x <= y
    BY <1>3
  <1> QED
    BY <1>4 DEF Min

\* FirstOf finds a member of S in the list, unless the list has none.
LEMMA FirstOfMember ==
    ASSUME NEW T, NEW list \in Seq(T), NEW S
    PROVE  \/ FirstOf(list, S) = Null /\ Range(list) \cap S = {}
           \/ FirstOf(list, S) \in Range(list) \cap S
  <1>1. CASE Places(list, S) = {}
    BY <1>1 DEF FirstOf, Places, Range
  <1>2. CASE Places(list, S) # {}
    <2>1. Places(list, S) \subseteq Nat
      BY DEF Places
    <2>2. Min(Places(list, S)) \in Places(list, S)
      BY <1>2, <2>1, MinExists
    <2> QED
      BY <1>2, <2>2 DEF FirstOf, Places, Range
  <1> QED
    BY <1>1, <1>2

-----------------------------------------------------------------------------
(* findBestPubkey.                                                           *)

PubKeys == {"DH2k", "EC25", "DH3k", "EC38", "Mult", "E255", "E414"}

\* The lists of a client hold what it was built with.
Offers(p, c) == DOMAIN c = Types /\ \A t \in Types : c[t] \in Seq(Known(p, t))

LEMMA OfferedPubKeys ==
    ASSUME NEW p, NEW c, Offers(p, c)
    PROVE  c.pubKey \in Seq(Known(p, "pubKey")) /\ Range(c.pubKey) \subseteq PubKeys
  <1>1. c.pubKey \in Seq(Known(p, "pubKey"))
    BY DEF Offers, Types
  <1>2. Range(c.pubKey) \subseteq Known(p, "pubKey")
    BY <1>1, RangeOfSeq
  <1> QED
    BY <1>1, <1>2 DEF Known, PubKeys

LEMMA RankOf ==
    ASSUME NEW a \in PubKeys \ {"Mult"}
    PROVE  Rank(a) \in 1..6 /\ orderedAlgos[Rank(a)] = a
  <1>1. \E i \in DOMAIN orderedAlgos : orderedAlgos[i] = a
    <2>1. DOMAIN orderedAlgos = 1..6
      BY DEF orderedAlgos
    <2>2. /\ orderedAlgos[1] = "DH2k" /\ orderedAlgos[2] = "E255" /\ orderedAlgos[3] = "EC25"
          /\ orderedAlgos[4] = "DH3k" /\ orderedAlgos[5] = "E414" /\ orderedAlgos[6] = "EC38"
      BY DEF orderedAlgos
    <2> QED
      BY <2>1, <2>2 DEF PubKeys
  <1>2. Rank(a) \in DOMAIN orderedAlgos /\ orderedAlgos[Rank(a)] = a
    BY <1>1 DEF Rank
  <1> QED
    BY <1>2 DEF orderedAlgos

LEMMA RankInjective ==
    ASSUME NEW a \in PubKeys \ {"Mult"}, NEW b \in PubKeys \ {"Mult"}, Rank(a) = Rank(b)
    PROVE  a = b
  BY RankOf

\* The first choices of both sides are among the common algorithms.
LEMMA FirstChoice ==
    ASSUME NEW p, NEW q, NEW hello, NEW own, Offers(q, hello), Offers(p, own),
           Common(hello, own) # {}
    PROVE  /\ FirstOf(own.pubKey, Common(hello, own)) \in Common(hello, own)
           /\ FirstOf(hello.pubKey, Common(hello, own)) \in Common(hello, own)
  <1> DEFINE common == Common(hello, own)
  <1>1. \E a \in common : a \in Range(own.pubKey) /\ a \in Range(hello.pubKey)
    BY DEF Common
  <1>2. own.pubKey \in Seq(Known(p, "pubKey")) /\ hello.pubKey \in Seq(Known(q, "pubKey"))
    BY OfferedPubKeys
  <1> HIDE DEF common
  <1>3. FirstOf(own.pubKey, common) \in Range(own.pubKey) \cap common
    BY <1>1, <1>2, FirstOfMember
  <1>4. FirstOf(hello.pubKey, common) \in Range(hello.pubKey) \cap common
    BY <1>1, <1>2, FirstOfMember
  <1> QED
    BY <1>3, <1>4 DEF common

\* What findBestPubkey returns: a common algorithm, or the mandatory one.
LEMMA BestPubkey ==
    ASSUME NEW p, NEW q, NEW hello, NEW own, Offers(q, hello), Offers(p, own)
    PROVE  IF Common(hello, own) = {} THEN FindBestPubkey(hello, own) = "DH3k"
           ELSE FindBestPubkey(hello, own) \in Common(hello, own)
  <1>1. CASE Common(hello, own) = {}
    BY <1>1 DEF FindBestPubkey, mandatory
  <1>2. CASE Common(hello, own) # {}
    BY <1>2, FirstChoice DEF FindBestPubkey
  <1> QED
    BY <1>1, <1>2

\* Either side finds the same algorithm: ranks decide, and no two algorithms share one.
LEMMA SymmetricPubkey ==
    ASSUME NEW p, NEW q, NEW hello, NEW own, Offers(q, hello), Offers(p, own)
    PROVE  FindBestPubkey(hello, own) = FindBestPubkey(own, hello)
  <1>0. Common(hello, own) = Common(own, hello)
    BY DEF Common
  <1>1. CASE Common(hello, own) = {}
    BY <1>0, <1>1 DEF FindBestPubkey
  <1>2. CASE Common(hello, own) # {}
    <2> DEFINE mine   == FirstOf(own.pubKey, Common(hello, own))
               theirs == FirstOf(hello.pubKey, Common(hello, own))
    <2>1. mine \in PubKeys \ {"Mult"} /\ theirs \in PubKeys \ {"Mult"}
      BY <1>2, FirstChoice, OfferedPubKeys DEF Common
    <2>2. FindBestPubkey(hello, own) = IF Rank(mine) < Rank(theirs) THEN mine ELSE theirs
      BY <1>2 DEF FindBestPubkey
    <2>3. FindBestPubkey(own, hello) = IF Rank(theirs) < Rank(mine) THEN theirs ELSE mine
      BY <1>0, <1>2 DEF FindBestPubkey
    <2> HIDE DEF mine, theirs
    <2>4. Rank(mine) \in 1..6 /\ Rank(theirs) \in 1..6
      BY <2>1, RankOf
    <2>5. Rank(mine) = Rank(theirs) => mine = theirs
      BY <2>1, RankInjective
    <2> QED
      BY <2>2, <2>3, <2>4, <2>5
  <1> QED
    BY <1>1, <1>2

-----------------------------------------------------------------------------
(* The other algorithms.                                                     *)

\* A large curve in a list comes with a hash that is strong enough for it.
LargeHash(c) ==
    (\E a \in Range(c.pubKey) : Strong(a)) => Range(c.hash) \cap StrongHashes # {}

\* Whether a is in the peer's list or mandatory.
Granted(t, a, hello) == a \in Range(hello[t]) \cup {mandatory[t]}

LEMMA MandatoryKnown ==
    ASSUME NEW p, NEW t \in Types
    PROVE  mandatory[t] \in Known(p, t) /\ Null \notin Known(p, t)
  BY DEF Types, mandatory, Known, Null

LEMMA GrantedKnown ==
    ASSUME NEW p, NEW hello, Offers(p, hello), NEW t \in Types, NEW a, Granted(t, a, hello)
    PROVE  a \in Known(p, t) /\ a # Null
  <1>1. Range(hello[t]) \subseteq Known(p, t)
    BY RangeOfSeq DEF Offers
  <1> QED
    BY <1>1, MandatoryKnown DEF Granted

\* An algorithm found in the Hello, if there is one.
LEMMA FirstGranted ==
    ASSUME NEW p, NEW hello, Offers(p, hello), NEW t \in Types, NEW S
    PROVE  \/ FirstOf(hello[t], S) = Null /\ Range(hello[t]) \cap S = {}
           \/ /\ Granted(t, FirstOf(hello[t], S), hello)
              /\ FirstOf(hello[t], S) \in Range(hello[t]) \cap S
              /\ FirstOf(hello[t], S) # Null
  <1>1. hello[t] \in Seq(Known(p, t))
    BY DEF Offers
  <1>2. \/ FirstOf(hello[t], S) = Null /\ Range(hello[t]) \cap S = {}
        \/ FirstOf(hello[t], S) \in Range(hello[t]) \cap S
    BY <1>1, FirstOfMember
  <1>3. FirstOf(hello[t], S) \in Range(hello[t]) \cap S =>
            Granted(t, FirstOf(hello[t], S), hello)
    BY DEF Granted
  <1>4. Granted(t, FirstOf(hello[t], S), hello) => FirstOf(hello[t], S) # Null
    BY GrantedKnown
  <1> QED
    BY <1>2, <1>3, <1>4

LEMMA FindBestGranted ==
    ASSUME NEW p, NEW hello, Offers(p, hello), NEW own, NEW t \in Types
    PROVE  Granted(t, FindBest(t, hello, own), hello) /\ FindBest(t, hello, own) # Null
  <1>1. Granted(t, FindBest(t, hello, own), hello)
    <2> DEFINE a == FirstOf(hello[t], Range(own[t]))
    <2>1. a = Null \/ Granted(t, a, hello)
      BY FirstGranted
    <2>2. FindBest(t, hello, own) = IF a = Null THEN mandatory[t] ELSE a
      BY DEF FindBest
    <2> HIDE DEF a
    <2> QED
      BY <2>1, <2>2 DEF Granted
  <1> QED
    BY <1>1, GrantedKnown

LEMMA FindBestCipherGranted ==
    ASSUME NEW p, NEW hello, Offers(p, hello), NEW own, NEW pubKey
    PROVE  /\ Granted("cipher", FindBestCipher(hello, own, pubKey), hello)
           /\ FindBestCipher(hello, own, pubKey) # Null
  <1>1. Granted("cipher", FindBest("cipher", hello, own), hello)
    BY FindBestGranted DEF Types
  <1>2. Granted("cipher", "AES1", hello)
    BY DEF Granted, mandatory
  <1>3. Granted("cipher", FindBestCipher(hello, own, pubKey), hello)
    BY <1>1, <1>2 DEF FindBestCipher
  <1> QED
    BY <1>3, GrantedKnown DEF Types

\* A hash from the Hello; for a large curve a strong one, or none if the Hello has none.
LEMMA OfferedHashGranted ==
    ASSUME NEW p, NEW q, NEW hello, Offers(q, hello), NEW own, NEW pubKey
    PROVE  LET a == OfferedHash(p, hello, own, pubKey)
           IN  \/ a = Null /\ Strong(pubKey) /\ Range(hello.hash) \cap StrongHashes = {}
               \/ a # Null /\ Granted("hash", a, hello) /\ (Strong(pubKey) => a \in StrongHashes)
  <1> DEFINE want   == IF Strong(pubKey) THEN {"SKN3"} ELSE {"SKN2", "SKN3"}
             skein  == IF ~PrefersNonNist(p, pubKey) THEN Null ELSE FirstOf(hello.hash, want)
             strong == FirstOf(hello.hash, StrongHashes)
             best   == FindBest("hash", hello, own)
  <1>0. "hash" \in Types
    BY DEF Types
  <1>1. skein = Null \/ (skein # Null /\ Granted("hash", skein, hello) /\ skein \in want)
    BY <1>0, FirstGranted
  <1>2. \/ strong = Null /\ Range(hello.hash) \cap StrongHashes = {}
        \/ strong # Null /\ Granted("hash", strong, hello) /\ strong \in StrongHashes
    BY <1>0, FirstGranted
  <1>3. Granted("hash", best, hello) /\ best # Null
    BY <1>0, FindBestGranted
  <1>4. OfferedHash(p, hello, own, pubKey) =
            IF skein # Null THEN skein ELSE IF Strong(pubKey) THEN strong ELSE best
    BY DEF OfferedHash
  <1>5. Strong(pubKey) => want \subseteq StrongHashes
    BY DEF StrongHashes
  <1> HIDE DEF want, skein, strong, best
  <1> QED
    BY <1>1, <1>2, <1>3, <1>4, <1>5

LEMMA OfferedCipherGranted ==
    ASSUME NEW p, NEW q, NEW hello, Offers(q, hello), NEW pubKey
    PROVE  \/ OfferedCipher(p, hello, pubKey) = Null
           \/ Granted("cipher", OfferedCipher(p, hello, pubKey), hello)
  <1> DEFINE want    == IF Strong(pubKey) THEN {"2FS3"} ELSE {"2FS2", "2FS3"}
             twofish == IF ~PrefersNonNist(p, pubKey) THEN Null ELSE FirstOf(hello.cipher, want)
             strong  == FirstOf(hello.cipher, {"AES3", "2FS3"})
  <1>0. "cipher" \in Types
    BY DEF Types
  <1>1. twofish = Null \/ Granted("cipher", twofish, hello)
    BY <1>0, FirstGranted
  <1>2. strong = Null \/ Granted("cipher", strong, hello)
    BY <1>0, FirstGranted
  <1>3. OfferedCipher(p, hello, pubKey) =
            IF twofish # Null THEN twofish ELSE IF Strong(pubKey) THEN strong ELSE Null
    BY DEF OfferedCipher
  <1> HIDE DEF want, twofish, strong
  <1> QED
    BY <1>1, <1>2, <1>3

LEMMA OfferedAuthGranted ==
    ASSUME NEW p, NEW q, NEW hello, Offers(q, hello), NEW own, NEW pubKey
    PROVE  Granted("auth", OfferedAuth(p, hello, own, pubKey), hello)
  <1> DEFINE skein == IF ~PrefersNonNist(p, pubKey) THEN Null
                      ELSE FirstOf(hello.auth, {"SK32", "SK64"})
  <1>0. "auth" \in Types
    BY DEF Types
  <1>1. skein = Null \/ Granted("auth", skein, hello)
    BY <1>0, FirstGranted
  <1>2. Granted("auth", FindBest("auth", hello, own), hello)
    BY <1>0, FindBestGranted
  <1>3. OfferedAuth(p, hello, own, pubKey) =
            IF skein # Null THEN skein ELSE FindBest("auth", hello, own)
    BY DEF OfferedAuth
  <1> HIDE DEF skein
  <1> QED
    BY <1>1, <1>2, <1>3

-----------------------------------------------------------------------------
(* prepareCommit.                                                            *)

\* The members cipher and authLength an object may have kept from an earlier peer.
Kept(p) == /\ suite[p].cipher \in Known(p, "cipher") \cup {Null}
           /\ suite[p].auth \in Known(p, "auth") \cup {Null}

\* Every client was built with the same ciphers and authentication lengths.
LEMMA SameCiphersBuilt ==
    ASSUME NEW p, NEW q
    PROVE  Known(p, "cipher") = Known(q, "cipher") /\ Known(p, "auth") = Known(q, "auth")
  BY DEF Known

LEMMA ChosenPubKey ==
    ASSUME NEW p, NEW q, NEW hello, NEW own, Offers(q, hello), Offers(p, own)
    PROVE  /\ Chosen(p, hello, own).pubKey = FindBestPubkey(hello, own)
           /\ Granted("pubKey", Chosen(p, hello, own).pubKey, hello)
           /\ Strong(Chosen(p, hello, own).pubKey) =>
                Common(hello, own) # {} /\ Chosen(p, hello, own).pubKey \in Range(hello.pubKey)
  <1>1. Chosen(p, hello, own).pubKey = FindBestPubkey(hello, own)
    BY DEF Chosen
  <1>2. Common(hello, own) \subseteq Range(hello.pubKey)
    BY DEF Common
  <1> QED
    BY <1>1, <1>2, BestPubkey DEF Granted, mandatory, Strong

\* The hash is missing only where a large curve meets a Hello without a strong hash.
LEMMA ChosenHash ==
    ASSUME NEW p, NEW q, NEW hello, NEW own, Offers(q, hello), Offers(p, own)
    PROVE  LET c == Chosen(p, hello, own)
           IN  \/ c.hash = Null /\ ~LargeHash(hello)
               \/ /\ c.hash # Null /\ Granted("hash", c.hash, hello)
                  /\ Strong(c.pubKey) => c.hash \in StrongHashes
  <1> DEFINE c == Chosen(p, hello, own) pubKey == FindBestPubkey(hello, own)
  <1>1. c.pubKey = pubKey
    BY DEF Chosen
  <1>2. Strong(c.pubKey) => Common(hello, own) # {} /\ c.pubKey \in Range(hello.pubKey)
    BY ChosenPubKey
  <1>3. c.hash = IF Common(hello, own) # {} THEN OfferedHash(p, hello, own, pubKey)
                 ELSE FindBest("hash", hello, own)
    BY DEF Chosen
  <1> HIDE DEF c, pubKey
  <1>4. CASE Common(hello, own) = {}
    <2>1. Granted("hash", c.hash, hello) /\ c.hash # Null
      BY <1>3, <1>4, FindBestGranted DEF Types
    <2> QED
      BY <1>2, <1>4, <2>1 DEF c
  <1>5. CASE Common(hello, own) # {}
    <2>1. \/ c.hash = Null /\ Strong(pubKey) /\ Range(hello.hash) \cap StrongHashes = {}
          \/ c.hash # Null /\ Granted("hash", c.hash, hello) /\ (Strong(pubKey) => c.hash \in StrongHashes)
      BY <1>3, <1>5, OfferedHashGranted
    <2>2. Strong(pubKey) /\ Range(hello.hash) \cap StrongHashes = {} => ~LargeHash(hello)
      BY <1>1, <1>2 DEF LargeHash
    <2> QED
      BY <1>1, <2>1, <2>2 DEF c
  <1> QED
    BY <1>4, <1>5

\* Cipher and authentication length are the peer's, or kept where nothing is in common.
LEMMA ChosenCipher ==
    ASSUME NEW p, NEW q, NEW hello, NEW own, Offers(q, hello), Offers(p, own), Kept(p)
    PROVE  LET c == Chosen(p, hello, own)
           IN  /\ c.cipher \in Known(p, "cipher")
               /\ \/ Granted("cipher", c.cipher, hello)
                  \/ Common(hello, own) = {} /\ suite[p].cipher # Null
  <1> DEFINE c == Chosen(p, hello, own)
             offered == OfferedCipher(p, hello, FindBestPubkey(hello, own))
             best == FindBestCipher(hello, own, FindBestPubkey(hello, own))
  <1>1. c.cipher = OrElse(IF Common(hello, own) # {} THEN offered ELSE suite[p].cipher, best)
    BY DEF Chosen
  <1>2. offered = Null \/ Granted("cipher", offered, hello)
    BY OfferedCipherGranted
  <1>3. Granted("cipher", best, hello)
    BY FindBestCipherGranted
  <1> HIDE DEF c, offered, best
  <1>4. \/ Granted("cipher", c.cipher, hello)
        \/ Common(hello, own) = {} /\ suite[p].cipher # Null /\ c.cipher = suite[p].cipher
    BY <1>1, <1>2, <1>3 DEF OrElse
  <1>5. Granted("cipher", c.cipher, hello) => c.cipher \in Known(p, "cipher")
    BY GrantedKnown, SameCiphersBuilt DEF Types
  <1> QED
    BY <1>4, <1>5 DEF c, Kept

LEMMA ChosenAuth ==
    ASSUME NEW p, NEW q, NEW hello, NEW own, Offers(q, hello), Offers(p, own), Kept(p)
    PROVE  LET c == Chosen(p, hello, own)
           IN  /\ c.auth \in Known(p, "auth")
               /\ \/ Granted("auth", c.auth, hello)
                  \/ Common(hello, own) = {} /\ suite[p].auth # Null
  <1> DEFINE c == Chosen(p, hello, own)
             offered == OfferedAuth(p, hello, own, FindBestPubkey(hello, own))
             best == FindBest("auth", hello, own)
  <1>1. c.auth = OrElse(IF Common(hello, own) # {} THEN offered ELSE suite[p].auth, best)
    BY DEF Chosen
  <1>2. Granted("auth", offered, hello)
    BY OfferedAuthGranted
  <1>3. Granted("auth", best, hello)
    BY FindBestGranted DEF Types
  <1> HIDE DEF c, offered, best
  <1>4. \/ Granted("auth", c.auth, hello)
        \/ Common(hello, own) = {} /\ suite[p].auth # Null /\ c.auth = suite[p].auth
    BY <1>1, <1>2, <1>3 DEF OrElse
  <1>5. Granted("auth", c.auth, hello) => c.auth \in Known(p, "auth")
    BY GrantedKnown, SameCiphersBuilt DEF Types
  <1> QED
    BY <1>4, <1>5 DEF c, Kept

\* What the peer checks in prepareDHPart1 holds of what prepareCommit chooses.
LEMMA ChosenAcceptable ==
    ASSUME NEW p, NEW q, NEW hello, NEW own, Offers(q, hello), Offers(p, own), Kept(p),
           Chosen(p, hello, own).hash # Null
    PROVE  Acceptable(q, Chosen(p, hello, own))
  <1> DEFINE c == Chosen(p, hello, own)
  <1>1. c.pubKey \in Known(q, "pubKey") /\ c.hash \in Known(q, "hash")
    BY ChosenPubKey, ChosenHash, GrantedKnown DEF Types
  <1>2. c.sas \in Known(q, "sas")
    <2>1. c.sas = FindBest("sas", hello, own)
      BY DEF Chosen
    <2> QED
      BY <2>1, FindBestGranted, GrantedKnown DEF Types
  <1>3. c.cipher \in Known(q, "cipher") /\ c.auth \in Known(q, "auth")
    BY ChosenCipher, ChosenAuth, SameCiphersBuilt
  <1>4. Strong(c.pubKey) => c.hash \in StrongHashes
    BY ChosenHash
  <1> HIDE DEF c
  <1>5. \A t \in Types : c[t] \in Known(q, t)
    BY <1>1, <1>2, <1>3 DEF Types
  <1> QED
    BY <1>4, <1>5 DEF Acceptable, c

-----------------------------------------------------------------------------
(* The configurations of the clients.                                        *)

\* A list that is there under a condition.
LEMMA IfList ==
    ASSUME NEW S, NEW list \in Seq(S), NEW cond
    PROVE  /\ If(cond, list) \in Seq(S)
           /\ cond => Range(list) \subseteq Range(If(cond, list))
           /\ ~cond => Range(If(cond, list)) = {}
  <1>1. <<>> \in Seq(S) /\ Range(<<>>) = {}
    BY DEF Range
  <1> QED
    BY <1>1 DEF If

LEMMA Concatenated ==
    ASSUME NEW S, NEW s1 \in Seq(S), NEW s2 \in Seq(S)
    PROVE  s1 \o s2 \in Seq(S) /\ Range(s1 \o s2) = Range(s1) \cup Range(s2)
  BY ConcatProperties, RangeConcatenation

\* Concatenation of two lists in the order the user prefers.
EitherOrder(first, other, nist) == IF first THEN other \o nist ELSE nist \o other

LEMMA EitherOrderList ==
    ASSUME NEW S, NEW s1 \in Seq(S), NEW s2 \in Seq(S), NEW first
    PROVE  /\ EitherOrder(first, s1, s2) \in Seq(S)
           /\ Range(EitherOrder(first, s1, s2)) = Range(s1) \cup Range(s2)
  BY Concatenated DEF EitherOrder

LEMMA FixedConfigs ==
    ASSUME NEW p, NEW c \in {Cleared, StandardConfig, MandatoryOnly}
    PROVE  Offers(p, c) /\ LargeHash(c)
  <1>1. CASE c = Cleared
    <2>1. Offers(p, c)
      BY <1>1 DEF Cleared, Offers, Types
    <2>2. c.pubKey = <<>>
      BY <1>1 DEF Cleared, Types
    <2>3. Range(c.pubKey) = {}
      BY <2>2 DEF Range
    <2> QED
      BY <2>1, <2>3 DEF LargeHash
  <1>2. CASE c = StandardConfig
    <2>1. DOMAIN c = Types
      BY <1>2 DEF StandardConfig, Types
    <2>2. c.hash \in Seq(Known(p, "hash")) /\ c.cipher \in Seq(Known(p, "cipher"))
      BY <1>2 DEF StandardConfig, Known
    <2>3. c.pubKey \in Seq(Known(p, "pubKey"))
      BY <1>2 DEF StandardConfig, Known
    <2>4. c.sas \in Seq(Known(p, "sas")) /\ c.auth \in Seq(Known(p, "auth"))
      BY <1>2 DEF StandardConfig, Known
    <2>5. Offers(p, c)
      BY <2>1, <2>2, <2>3, <2>4 DEF Offers, Types
    <2>6. 1 \in DOMAIN c.hash /\ c.hash[1] = "S384"
      BY <1>2 DEF StandardConfig
    <2>7. "S384" \in Range(c.hash)
      BY <2>6 DEF Range
    <2> QED
      BY <2>5, <2>7 DEF LargeHash, StrongHashes
  <1>3. CASE c = MandatoryOnly
    <2>1. DOMAIN c = Types
      BY <1>3 DEF MandatoryOnly, Types
    <2>2. c.hash \in Seq(Known(p, "hash")) /\ c.cipher \in Seq(Known(p, "cipher"))
      BY <1>3 DEF MandatoryOnly, Known
    <2>3. c.pubKey \in Seq(Known(p, "pubKey")) /\ c.pubKey \in Seq({"DH3k", "Mult"})
      BY <1>3 DEF MandatoryOnly, Known
    <2>4. c.sas \in Seq(Known(p, "sas")) /\ c.auth \in Seq(Known(p, "auth"))
      BY <1>3 DEF MandatoryOnly, Known
    <2>5. Offers(p, c)
      BY <2>1, <2>2, <2>3, <2>4 DEF Offers, Types
    <2>6. Range(c.pubKey) \subseteq {"DH3k", "Mult"}
      BY <2>3, RangeOfSeq
    <2> QED
      BY <2>5, <2>6 DEF LargeHash, Strong
  <1> QED
    BY <1>1, <1>2, <1>3

\* CtZrtpSession::setupConfiguration, for every combination of settings.
LEMMA TiviConfigLists ==
    ASSUME NEW p, NEW set
    PROVE  Offers(p, TiviConfig(p, set)) /\ LargeHash(TiviConfig(p, set))
  <1> DEFINE c     == TiviConfig(p, set)
             first == "iPreferNIST" \notin set
             On(setting) == setting \notin set
             K(t)  == Known(p, t)
             e414  == If(On("iDisableBernsteinCurve3617") /\ p \in nonNist, <<"E414">>)
             ec38  == If(On("iDisableECDH384"), <<"EC38">>)
             e255  == If(On("iDisableBernsteinCurve25519") /\ p \in nonNist, <<"E255">>)
             ec25  == If(On("iDisableECDH256"), <<"EC25">>)
             dh2k1 == If("iPreferDH2K" \in set /\ On("iDisableDH2K"), <<"DH2k">>)
             dh2k2 == If(On("iPreferDH2K") /\ On("iDisableDH2K"), <<"DH2k">>)
             dh3k  == <<"DH3k">>
             mult  == <<"Mult">>
             skn3  == If(On("iDisableSkeinHash") \/ On("iDisableBernsteinCurve3617"), <<"SKN3">>)
             s384  == If(On("iEnableSHA384=0") \/ On("iDisableECDH384"), <<"S384">>)
             skn2  == If(On("iDisableSkeinHash"), <<"SKN2">>)
             tfs3  == If(On("iDisableTwofish"), <<"2FS3">>)
             big   == If(On("iDisableAES256"), tfs3 \o <<"AES3">>)
             tfs1  == If(On("iDisableTwofish"), <<"2FS1">>)
             words == CASE "iDisable256SAS=1" \in set -> <<>>
                        [] "iDisable256SAS=2" \in set -> <<"B32E">>
                        [] OTHER -> <<"B256">>
             skein == If(On("iDisableSkein"), <<"SK32", "SK64">>)
             hs    == <<"HS32", "HS80">>
             large  == EitherOrder(first, e414, ec38)
             middle == EitherOrder(first, e255, ec25)
             strong == EitherOrder(first, skn3, s384)
             weak   == EitherOrder(first, skn2, <<"S256">>)
             auth   == EitherOrder(first, skein, hs)
  <1>1. DOMAIN c = Types
    BY DEF TiviConfig, Types
  <1>2. /\ c.pubKey = large \o middle \o dh2k1 \o dh3k \o dh2k2 \o mult
        /\ c.hash = strong \o weak /\ c.cipher = big \o tfs1 \o <<"AES1">>
        /\ c.sas = words \o <<"B32">> /\ c.auth = auth
    BY DEF TiviConfig, EitherOrder
  <1>3. /\ <<"EC38">> \in Seq(K("pubKey")) /\ <<"EC25">> \in Seq(K("pubKey"))
        /\ <<"DH2k">> \in Seq(K("pubKey")) /\ dh3k \in Seq(K("pubKey"))
        /\ mult \in Seq(K("pubKey"))
        /\ p \in nonNist => <<"E414">> \in Seq(K("pubKey")) /\ <<"E255">> \in Seq(K("pubKey"))
    BY DEF Known
  <1>4. /\ <<"SKN3">> \in Seq(K("hash")) /\ <<"S384">> \in Seq(K("hash"))
        /\ <<"SKN2">> \in Seq(K("hash")) /\ <<"S256">> \in Seq(K("hash"))
    BY DEF Known
  <1>5. /\ <<"2FS3">> \in Seq(K("cipher")) /\ <<"AES3">> \in Seq(K("cipher"))
        /\ <<"2FS1">> \in Seq(K("cipher")) /\ <<"AES1">> \in Seq(K("cipher"))
    BY DEF Known
  <1>6. words \in Seq(K("sas")) /\ <<"B32">> \in Seq(K("sas"))
    <2>1. /\ <<>> \in Seq(K("sas")) /\ <<"B32E">> \in Seq(K("sas"))
          /\ <<"B256">> \in Seq(K("sas")) /\ <<"B32">> \in Seq(K("sas"))
      BY DEF Known
    <2> QED
      BY <2>1
  <1>7. <<"SK32", "SK64">> \in Seq(K("auth")) /\ hs \in Seq(K("auth"))
    BY DEF Known
  <1> HIDE DEF K, dh3k, mult, hs
  \* The lists hold what the client knows.
  <1>8. e414 \in Seq(K("pubKey")) /\ e255 \in Seq(K("pubKey"))
    BY <1>3 DEF If
  <1>9. /\ ec38 \in Seq(K("pubKey")) /\ ec25 \in Seq(K("pubKey"))
        /\ dh2k1 \in Seq(K("pubKey")) /\ dh2k2 \in Seq(K("pubKey"))
    BY <1>3, IfList
  <1> HIDE DEF e414, ec38, e255, ec25, dh2k1, dh2k2
  <1>10. large \in Seq(K("pubKey")) /\ middle \in Seq(K("pubKey"))
    BY <1>8, <1>9, EitherOrderList
  <1> HIDE DEF large, middle
  <1>11. c.pubKey \in Seq(K("pubKey"))
    BY <1>2, <1>3, <1>9, <1>10, Concatenated
  <1>12. skn3 \in Seq(K("hash")) /\ s384 \in Seq(K("hash")) /\ skn2 \in Seq(K("hash"))
    BY <1>4, IfList
  <1> HIDE DEF skn3, s384, skn2
  <1>13. strong \in Seq(K("hash")) /\ weak \in Seq(K("hash"))
    BY <1>4, <1>12, EitherOrderList
  <1> HIDE DEF strong, weak
  <1>14. c.hash \in Seq(K("hash"))
    BY <1>2, <1>13, Concatenated
  <1>15. tfs3 \in Seq(K("cipher")) /\ tfs1 \in Seq(K("cipher"))
    BY <1>5, IfList
  <1> HIDE DEF tfs3, tfs1
  <1>16. tfs3 \o <<"AES3">> \in Seq(K("cipher"))
    BY <1>5, <1>15, Concatenated
  <1>17. big \in Seq(K("cipher"))
    BY <1>16, IfList
  <1> HIDE DEF big
  <1>18. c.cipher \in Seq(K("cipher"))
    BY <1>2, <1>5, <1>15, <1>17, Concatenated
  <1> HIDE DEF words
  <1>19. c.sas \in Seq(K("sas"))
    BY <1>2, <1>6, Concatenated
  <1>20. skein \in Seq(K("auth"))
    BY <1>7, IfList
  <1> HIDE DEF skein
  <1>21. c.auth \in Seq(K("auth"))
    BY <1>2, <1>7, <1>20, EitherOrderList
  <1> HIDE DEF c
  <1>22. Offers(p, c)
    BY <1>1, <1>11, <1>14, <1>18, <1>19, <1>21 DEF Offers, Types, K
  \* A curve that is on brings its hash with it.
  <1>23. /\ Range(c.pubKey) = Range(large) \cup Range(middle) \cup Range(dh2k1)
                               \cup Range(dh3k) \cup Range(dh2k2) \cup Range(mult)
         /\ Range(large) = Range(e414) \cup Range(ec38)
         /\ Range(middle) = Range(e255) \cup Range(ec25)
    <2>1. Range(large) = Range(e414) \cup Range(ec38) /\ Range(middle) = Range(e255) \cup Range(ec25)
      BY <1>8, <1>9, EitherOrderList DEF large, middle
    <2> DEFINE l1 == large \o middle  l2 == l1 \o dh2k1  l3 == l2 \o dh3k  l4 == l3 \o dh2k2
    <2>2. l1 \in Seq(K("pubKey")) /\ Range(l1) = Range(large) \cup Range(middle)
      BY <1>10, Concatenated
    <2>3. c.pubKey = l4 \o mult
      BY <1>2
    <2> HIDE DEF l1
    <2>4. l2 \in Seq(K("pubKey")) /\ Range(l2) = Range(l1) \cup Range(dh2k1)
      BY <2>2, <1>9, Concatenated
    <2> HIDE DEF l2
    <2>5. l3 \in Seq(K("pubKey")) /\ Range(l3) = Range(l2) \cup Range(dh3k)
      BY <2>4, <1>3, Concatenated
    <2> HIDE DEF l3
    <2>6. l4 \in Seq(K("pubKey")) /\ Range(l4) = Range(l3) \cup Range(dh2k2)
      BY <2>5, <1>9, Concatenated
    <2> HIDE DEF l4
    <2>7. Range(c.pubKey) = Range(l4) \cup Range(mult)
      BY <2>3, <2>6, <1>3, Concatenated
    <2> QED
      BY <2>1, <2>2, <2>4, <2>5, <2>6, <2>7
  <1>24. /\ Range(e255) \subseteq {"E255"} /\ Range(ec25) \subseteq {"EC25"}
         /\ Range(dh2k1) \subseteq {"DH2k"} /\ Range(dh2k2) \subseteq {"DH2k"}
         /\ Range(dh3k) = {"DH3k"} /\ Range(mult) = {"Mult"}
    BY DEF Range, If, e255, ec25, dh2k1, dh2k2, dh3k, mult
  <1>25. /\ Range(e414) \subseteq IF On("iDisableBernsteinCurve3617") THEN {"E414"} ELSE {}
         /\ Range(ec38) \subseteq IF On("iDisableECDH384") THEN {"EC38"} ELSE {}
    BY DEF Range, If, e414, ec38
  <1>26. /\ On("iDisableBernsteinCurve3617") => "SKN3" \in Range(skn3)
         /\ On("iDisableECDH384") => "S384" \in Range(s384)
    BY DEF Range, If, skn3, s384
  <1>27. /\ Range(c.hash) = Range(strong) \cup Range(weak)
         /\ Range(strong) = Range(skn3) \cup Range(s384)
    <2>1. Range(strong) = Range(skn3) \cup Range(s384)
      BY <1>12, EitherOrderList DEF strong
    <2> QED
      BY <2>1, <1>2, <1>13, Concatenated
  <1>28. \A a \in Range(c.pubKey) : Strong(a) =>
             On("iDisableBernsteinCurve3617") \/ On("iDisableECDH384")
    BY <1>23, <1>24, <1>25 DEF Strong
  <1>29. LargeHash(c)
    BY <1>26, <1>27, <1>28 DEF LargeHash, StrongHashes
  <1> QED
    BY <1>22, <1>29 DEF c

LEMMA SetupLists ==
    ASSUME NEW p, NEW setup \in Setups(p)
    PROVE  Offers(p, setup.lists) /\ LargeHash(setup.lists)
  <1>1. \/ \E c \in {Cleared, StandardConfig, MandatoryOnly} : setup.lists = c
        \/ \E set \in SUBSET Flags : setup.lists = TiviConfig(p, set)
    <2> HIDE DEF Cleared, StandardConfig, MandatoryOnly, TiviConfig
    <2> QED
      BY DEF Setups
  <1> QED
    BY <1>1, FixedConfigs, TiviConfigLists

-----------------------------------------------------------------------------
(* The inductive invariant.                                                  *)

\* Types, as far as the proof needs them: every list holds algorithms its client knows.
Lists ==
    /\ DOMAIN config = Peers /\ DOMAIN suite = Peers /\ DOMAIN stage = Peers
    /\ DOMAIN stale = Peers /\ changes \in Nat
    /\ \A p \in Peers : Offers(p, config[p]) /\ Kept(p)

\* An object that is past its Hello holds what findBestPubkey returns for the two
\* lists; a Responder has it from the Commit of its peer.
PubKeyChosen ==
    \A p \in Peers : stage[p] \in {"Prepared", "UnsuppHashType", "Responder"} =>
        suite[p].pubKey = FindBestPubkey(config[Other(p)], config[p])

\* As long as nobody changes a list.
HashesLargeEnough == changes = 0 => \A p \in Peers : LargeHash(config[p])

IInv ==
    /\ Lists /\ PubKeyChosen /\ HashesLargeEnough
    /\ CommitAccepted /\ StrongHashOffered /\ OnlyOffered

LEMMA KnownStays ==
    ASSUME nonNist' = nonNist
    PROVE  /\ \A p, t : Known(p, t)' = Known(p, t)
           /\ \A p, c : Offers(p, c)' = Offers(p, c)
  <1>1. \A p, t : Known(p, t)' = Known(p, t)
    BY DEF Known
  <1> QED
    BY <1>1 DEF Offers

\* With both objects at the start, only the lists matter.
LEMMA AtStart ==
    ASSUME Lists', HashesLargeEnough', \A p \in Peers : stage'[p] = "Start"
    PROVE  IInv'
  <1>1. PubKeyChosen' /\ CommitAccepted' /\ StrongHashOffered' /\ OnlyOffered'
    BY DEF PubKeyChosen, CommitAccepted, StrongHashOffered, OnlyOffered
  <1> QED
    BY <1>1 DEF IInv

LEMMA InitIInv == Init => IInv
  <1> SUFFICES ASSUME Init PROVE IInv
    OBVIOUS
  <1>1. PICK setup \in [Peers -> UNION {Setups(p) : p \in Peers}] :
            /\ \A p \in Peers : setup[p] \in Setups(p)
            /\ config = [p \in Peers |-> setup[p].lists]
    BY DEF Init
  <1>2. \A p \in Peers : Offers(p, config[p]) /\ LargeHash(config[p])
    BY <1>1, SetupLists
  <1>3. \A p \in Peers : Kept(p)
    BY DEF Init, Kept, NoSuite, Types
  <1>4. Lists /\ HashesLargeEnough
    BY <1>1, <1>2, <1>3 DEF Init, Lists, HashesLargeEnough
  <1>5. \A p \in Peers : stage[p] = "Start"
    BY DEF Init
  <1>6. PubKeyChosen /\ CommitAccepted /\ StrongHashOffered /\ OnlyOffered
    BY <1>5 DEF PubKeyChosen, CommitAccepted, StrongHashOffered, OnlyOffered
  <1> QED
    BY <1>4, <1>6 DEF IInv

-----------------------------------------------------------------------------
(* Changes of a list.                                                        *)

LEMMA ChangeKeeps ==
    ASSUME IInv, NEW p \in Peers, NEW t \in Types, NEW list \in Seq(Known(p, t)),
           Change(p, t, list)
    PROVE  IInv'
  <1>1. \A q \in Peers : Offers(q, config[q])'
    <2>1. config' = [config EXCEPT ![p][t] = list] /\ DOMAIN config = Peers
      BY DEF Change, IInv, Lists
    <2>2. \A q \in Peers : Offers(q, config'[q])
      BY <2>1 DEF IInv, Lists, Offers
    <2> QED
      BY <2>2, KnownStays DEF Change, Offers
  <1>2. \A q \in Peers : Kept(q)'
    BY KnownStays DEF Change, IInv, Lists, Kept
  <1>3. Lists'
    <2>1. DOMAIN config' = Peers /\ changes' \in Nat
      BY DEF Change, IInv, Lists
    <2>2. suite' = suite /\ stage' = stage /\ stale' = stale
      BY DEF Change
    <2> QED
      BY <1>1, <1>2, <2>1, <2>2 DEF IInv, Lists
  <1>4. HashesLargeEnough'
    BY DEF Change, IInv, Lists, HashesLargeEnough
  <1>5. \A q \in Peers : stage'[q] = "Start"
    BY DEF Change
  <1> QED
    BY <1>3, <1>4, <1>5, AtStart

LEMMA AddAlgoKeeps ==
    ASSUME IInv, NEW p \in Peers, NEW t \in Types, NEW a \in Known(p, t), AddAlgo(p, t, a)
    PROVE  IInv'
  <1>1. config[p][t] \in Seq(Known(p, t))
    BY DEF IInv, Lists, Offers
  <1>2. Append(config[p][t], a) \in Seq(Known(p, t))
    BY <1>1, AppendProperties
  <1> QED
    BY <1>2, ChangeKeeps DEF AddAlgo

LEMMA InsertAtList ==
    ASSUME NEW S, NEW s \in Seq(S), NEW i \in 1..Len(s), NEW e \in S
    PROVE  InsertAt(s, i, e) \in Seq(S)
  <1> DEFINE front == SubSeq(s, 1, i - 1) back == SubSeq(s, i, Len(s))
  <1>1. Len(s) \in Nat /\ \A j \in 1..Len(s) : s[j] \in S
    BY ElementOfSeq
  <1>2. \A j \in 1..(i - 1) : s[j] \in S
    BY <1>1
  <1>3. \A j \in i..Len(s) : s[j] \in S
    BY <1>1
  <1>4. i \in Int /\ i - 1 \in Int /\ Len(s) \in Int /\ 1 \in Int
    BY <1>1
  <1>5. front \in Seq(S)
    BY <1>2, <1>4, SubSeqProperties
  <1>6. back \in Seq(S)
    BY <1>3, <1>4, SubSeqProperties
  <1>7. InsertAt(s, i, e) = (front \o <<e>>) \o back
    BY DEF InsertAt
  <1> HIDE DEF front, back
  <1>8. front \o <<e>> \in Seq(S)
    BY <1>5
  <1>9. (front \o <<e>>) \o back \in Seq(S)
    BY <1>6, <1>8, ConcatProperties
  <1> QED
    BY <1>7, <1>9

LEMMA AddAlgoAtKeeps ==
    ASSUME IInv, NEW p \in Peers, NEW t \in Types, NEW a \in Known(p, t),
           NEW index \in Indices, AddAlgoAt(p, t, a, index)
    PROVE  IInv'
  <1> DEFINE list == config[p][t]
             new  == IF index >= Len(list) THEN Append(list, a) ELSE InsertAt(list, index + 1, a)
  <1>1. list \in Seq(Known(p, t)) /\ index \in Nat
    BY NegotiationConstants DEF IInv, Lists, Offers
  <1>2. Change(p, t, new)
    BY DEF AddAlgoAt
  <1> HIDE DEF list
  <1>3. index >= Len(list) => new \in Seq(Known(p, t))
    BY <1>1, AppendProperties
  <1>4. ASSUME ~(index >= Len(list)) PROVE new \in Seq(Known(p, t))
    <2>1. index + 1 \in 1..Len(list)
      <3>1. Len(list) \in Nat
        BY <1>1
      <3> QED
        BY <1>1, <1>4, <3>1
    <2> QED
      BY <1>1, <1>4, <2>1, InsertAtList
  <1> HIDE DEF new
  <1> QED
    BY <1>2, <1>3, <1>4, ChangeKeeps

LEMMA RemoveAlgoKeeps ==
    ASSUME IInv, NEW p \in Peers, NEW t \in Types, NEW a \in Known(p, t), RemoveAlgo(p, t, a)
    PROVE  IInv'
  <1> DEFINE list == config[p][t] i == Min(Places(list, {a}))
  <1>1. list \in Seq(Known(p, t))
    BY DEF IInv, Lists, Offers
  <1>2. Places(list, {a}) # {}
    BY DEF RemoveAlgo, Places, Range
  <1>3. Change(p, t, RemoveAt(list, i))
    BY DEF RemoveAlgo
  <1> HIDE DEF list
  <1>4. i \in 1..Len(list)
    <2>1. Places(list, {a}) \subseteq 1..Len(list) /\ Len(list) \in Nat
      BY <1>1 DEF Places
    <2>2. Places(list, {a}) \subseteq Nat
      BY <1>1 DEF Places
    <2> QED
      BY <1>2, <2>1, <2>2, MinExists
  <1> HIDE DEF i
  <1>5. Len(list) \in Nat /\ \A j \in 1..Len(list) : list[j] \in Known(p, t)
    BY <1>1, ElementOfSeq
  <1>6. \A j \in 1..(i - 1) : list[j] \in Known(p, t)
    BY <1>4, <1>5
  <1>7. \A j \in (i + 1)..Len(list) : list[j] \in Known(p, t)
    BY <1>4, <1>5
  <1>8. i - 1 \in Int /\ i + 1 \in Int /\ Len(list) \in Int /\ 1 \in Int
    BY <1>4, <1>5
  <1>9. SubSeq(list, 1, i - 1) \in Seq(Known(p, t))
    BY <1>6, <1>8, SubSeqProperties
  <1>10. SubSeq(list, i + 1, Len(list)) \in Seq(Known(p, t))
    BY <1>7, <1>8, SubSeqProperties
  <1>11. RemoveAt(list, i) \in Seq(Known(p, t))
    BY <1>9, <1>10, ConcatProperties DEF RemoveAt
  <1> QED
    BY <1>3, <1>11, ChangeKeeps

LEMMA SetSelectionPolicyKeeps ==
    ASSUME IInv, NEW p \in Peers, NEW pol, SetSelectionPolicy(p, pol)
    PROVE  IInv'
  <1>1. \A q \in Peers : Offers(q, config[q])' /\ Kept(q)'
    BY KnownStays DEF SetSelectionPolicy, IInv, Lists, Kept, Offers
  <1>2. Lists' /\ HashesLargeEnough'
    BY <1>1 DEF SetSelectionPolicy, IInv, Lists, HashesLargeEnough
  <1>3. \A q \in Peers : stage'[q] = "Start"
    BY DEF SetSelectionPolicy
  <1> QED
    BY <1>2, <1>3, AtStart

\* The object of the peer keeps its suite, which later counts as stale.
LEMMA ReplaceClientKeeps ==
    ASSUME IInv, NEW p \in Peers, NEW setup \in Setups(p), ReplaceClient(p, setup)
    PROVE  IInv'
  <1>0. /\ config' = [config EXCEPT ![p] = setup.lists] /\ DOMAIN config = Peers
        /\ suite' = [suite EXCEPT ![p] = NoSuite] /\ DOMAIN suite = Peers
        /\ nonNist' = nonNist /\ changes' = changes
    BY DEF ReplaceClient, IInv, Lists
  <1>1. \A q \in Peers : Offers(q, config'[q])
    BY <1>0, SetupLists DEF IInv, Lists
  <1>2. \A q \in Peers : Offers(q, config[q])'
    BY <1>0, <1>1, KnownStays DEF Offers
  <1>3. \A q \in Peers : Kept(q)'
    BY <1>0, KnownStays DEF IInv, Lists, Kept, NoSuite, Types
  <1>4. Lists'
    BY <1>0, <1>2, <1>3 DEF ReplaceClient, IInv, Lists
  <1>5. HashesLargeEnough'
    <2>1. changes = 0 => \A q \in Peers : LargeHash(config'[q])
      BY <1>0, SetupLists DEF IInv, HashesLargeEnough
    <2> QED
      BY <1>0, <2>1 DEF HashesLargeEnough, LargeHash
  <1>6. \A q \in Peers : stage'[q] = "Start"
    BY DEF ReplaceClient
  <1> QED
    BY <1>4, <1>5, <1>6, AtStart

LEMMA AcceptableStays ==
    ASSUME nonNist' = nonNist
    PROVE  \A p, c : Acceptable(p, c)' = Acceptable(p, c)
  BY KnownStays DEF Acceptable

LEMMA PrepareCommitKeeps ==
    ASSUME IInv, NEW p \in Peers, PrepareCommit(p)
    PROVE  IInv'
  <1> DEFINE hello == config[Other(p)]
             own   == config[p]
             new   == Chosen(p, hello, own)
  <1>0. /\ stage[p] = "Start" /\ suite' = [suite EXCEPT ![p] = new]
        /\ stage' = [stage EXCEPT ![p] = IF new.hash = Null THEN "UnsuppHashType" ELSE "Prepared"]
        /\ stale' = [stale EXCEPT ![p] =
             IF Common(hello, own) # {} THEN {} ELSE {t \in {"cipher", "auth"} : suite[p][t] # Null}]
        /\ config' = config /\ nonNist' = nonNist /\ changes' = changes
    BY DEF PrepareCommit
  <1>1. /\ DOMAIN suite = Peers /\ DOMAIN stage = Peers /\ DOMAIN stale = Peers
        /\ Other(p) \in Peers /\ Offers(Other(p), hello) /\ Offers(p, own) /\ Kept(p)
    BY OtherPeer DEF IInv, Lists
  <1>2. /\ new.pubKey = FindBestPubkey(hello, own) /\ Granted("pubKey", new.pubKey, hello)
        /\ new.hash = Null => ~LargeHash(hello)
        /\ new.hash # Null => Granted("hash", new.hash, hello)
        /\ new.hash # Null => Acceptable(Other(p), new)
    BY <1>1, ChosenPubKey, ChosenHash, ChosenAcceptable
  <1>3. Granted("sas", new.sas, hello)
    <2>1. new.sas = FindBest("sas", hello, own)
      BY DEF Chosen
    <2> QED
      BY <1>1, <2>1, FindBestGranted DEF Types
  <1>4. /\ new.cipher \in Known(p, "cipher") /\ new.auth \in Known(p, "auth")
        /\ Granted("cipher", new.cipher, hello) \/ (Common(hello, own) = {} /\ suite[p].cipher # Null)
        /\ Granted("auth", new.auth, hello) \/ (Common(hello, own) = {} /\ suite[p].auth # Null)
    BY <1>1, ChosenCipher, ChosenAuth
  <1> HIDE DEF new
  <1>5. Lists'
    <2>1. \A q \in Peers : Offers(q, config[q])'
      BY <1>0, KnownStays DEF IInv, Lists, Offers
    <2>2. \A q \in Peers : Kept(q)'
      BY <1>0, <1>1, <1>4, KnownStays DEF IInv, Lists, Kept
    <2> QED
      BY <1>0, <1>1, <2>1, <2>2 DEF IInv, Lists
  <1>6. PubKeyChosen'
    <2> SUFFICES ASSUME NEW q \in Peers, stage'[q] \in {"Prepared", "UnsuppHashType", "Responder"}
                 PROVE  suite'[q].pubKey = FindBestPubkey(config[Other(q)], config[q])
      BY <1>0 DEF PubKeyChosen, FindBestPubkey, Common
    <2>1. CASE q = p
      BY <1>0, <1>1, <1>2, <2>1
    <2>2. CASE q # p
      BY <1>0, <1>1, <2>2 DEF IInv, PubKeyChosen
    <2> QED
      BY <2>1, <2>2
  <1>7. HashesLargeEnough'
    BY <1>0 DEF IInv, HashesLargeEnough, LargeHash
  <1>8. CommitAccepted'
    <2> SUFFICES ASSUME NEW q \in Peers, stage'[q] = "Prepared"
                 PROVE  Acceptable(Other(q), suite'[q])
      BY <1>0, KnownStays DEF CommitAccepted, Acceptable
    <2>1. CASE q = p
      BY <1>0, <1>1, <1>2, <2>1
    <2>2. CASE q # p
      BY <1>0, <1>1, <2>2 DEF IInv, CommitAccepted
    <2> QED
      BY <2>1, <2>2
  <1>9. StrongHashOffered'
    BY <1>0, <1>1, <1>2 DEF IInv, HashesLargeEnough, StrongHashOffered
  <1>10. OnlyOffered'
    <2> SUFFICES ASSUME NEW q \in Peers, stage'[q] = "Prepared", NEW t \in Types \ stale'[q]
                 PROVE  suite'[q][t] \in Range(config[Other(q)][t]) \cup {mandatory[t]}
      BY <1>0 DEF OnlyOffered
    <2>1. CASE q = p
      <3>1. suite'[q] = new /\ new.hash # Null
        BY <1>0, <1>1, <2>1
      <3>2. Granted(t, new[t], hello)
        BY <1>0, <1>1, <1>2, <1>3, <1>4, <2>1, <3>1 DEF Types
      <3> QED
        BY <2>1, <3>1, <3>2 DEF Granted
    <2>2. CASE q # p
      BY <1>0, <1>1, <2>2 DEF IInv, OnlyOffered
    <2> QED
      BY <2>1, <2>2
  <1> QED
    BY <1>5, <1>6, <1>7, <1>8, <1>9, <1>10 DEF IInv

LEMMA PrepareDHPart1Keeps ==
    ASSUME IInv, NEW p \in Peers, PrepareDHPart1(p)
    PROVE  IInv'
  <1> DEFINE commit == suite[Other(p)]
  <1>0. /\ stage[p] = "Prepared" /\ stage[Other(p)] = "Prepared"
        /\ \/ /\ suite' = [suite EXCEPT ![p] = commit]
              /\ stage' = [stage EXCEPT ![p] = "Responder"]
           \/ suite' = suite /\ stage' = [stage EXCEPT ![p] = "Refused"]
        /\ config' = config /\ nonNist' = nonNist /\ changes' = changes /\ stale' = stale
    BY DEF PrepareDHPart1
  <1>1. /\ DOMAIN suite = Peers /\ DOMAIN stage = Peers /\ DOMAIN stale = Peers
        /\ Other(p) \in Peers /\ Other(p) # p /\ Other(Other(p)) = p
        /\ Offers(Other(p), config[Other(p)]) /\ Offers(p, config[p])
    BY OtherPeer DEF IInv, Lists
  <1>2. commit.pubKey = FindBestPubkey(config[Other(p)], config[p])
    <2>1. commit.pubKey = FindBestPubkey(config[p], config[Other(p)])
      BY <1>0, <1>1 DEF IInv, PubKeyChosen
    <2> QED
      BY <1>1, <2>1, SymmetricPubkey
  <1>3. Lists'
    <2>1. \A q \in Peers : Offers(q, config[q])'
      BY <1>0, KnownStays DEF IInv, Lists, Offers
    <2>2. \A q \in Peers : Kept(q)'
      <3>1. \A q \in Peers : suite'[q] = suite[q] \/ suite'[q] = suite[Other(p)]
        BY <1>0, <1>1
      <3>2. \A q \in Peers : Known(q, "cipher")' = Known(Other(p), "cipher")
                              /\ Known(q, "auth")' = Known(Other(p), "auth")
        BY <1>0, KnownStays, SameCiphersBuilt
      <3>3. \A q \in Peers : Known(q, "cipher")' = Known(q, "cipher")
                              /\ Known(q, "auth")' = Known(q, "auth")
        BY <1>0, KnownStays
      <3> QED
        BY <1>1, <3>1, <3>2, <3>3 DEF IInv, Lists, Kept
    <2> QED
      BY <1>0, <1>1, <2>1, <2>2 DEF IInv, Lists
  <1>4. PubKeyChosen'
    <2> SUFFICES ASSUME NEW q \in Peers, stage'[q] \in {"Prepared", "UnsuppHashType", "Responder"}
                 PROVE  suite'[q].pubKey = FindBestPubkey(config[Other(q)], config[q])
      BY <1>0 DEF PubKeyChosen, FindBestPubkey, Common
    <2>1. CASE q = p
      BY <1>0, <1>1, <1>2, <2>1
    <2>2. CASE q # p
      BY <1>0, <1>1, <2>2 DEF IInv, PubKeyChosen
    <2> QED
      BY <2>1, <2>2
  <1>5. HashesLargeEnough'
    BY <1>0 DEF IInv, HashesLargeEnough, LargeHash
  <1>6. \A q \in Peers : stage'[q] \in {"Prepared", "UnsuppHashType"} =>
            q # p /\ stage'[q] = stage[q] /\ suite'[q] = suite[q]
    BY <1>0, <1>1
  <1>7. CommitAccepted'
    BY <1>0, <1>6, AcceptableStays DEF IInv, CommitAccepted, Acceptable
  <1>8. StrongHashOffered'
    BY <1>0, <1>6 DEF IInv, StrongHashOffered
  <1>9. OnlyOffered'
    BY <1>0, <1>6 DEF IInv, OnlyOffered
  <1> QED
    BY <1>3, <1>4, <1>5, <1>7, <1>8, <1>9 DEF IInv

LEMMA NextIInv == IInv /\ [Next]_vars => IInv'
  <1> SUFFICES ASSUME IInv, [Next]_vars PROVE IInv'
    OBVIOUS
  <1>1. ASSUME NEW p \in Peers, NEW t \in Types, NEW a \in Known(p, t), AddAlgo(p, t, a)
        PROVE  IInv'
    BY <1>1, AddAlgoKeeps
  <1>2. ASSUME NEW p \in Peers, NEW t \in Types, NEW a \in Known(p, t), RemoveAlgo(p, t, a)
        PROVE  IInv'
    BY <1>2, RemoveAlgoKeeps
  <1>3. ASSUME NEW p \in Peers, NEW t \in Types, NEW a \in Known(p, t), NEW index \in Indices,
               AddAlgoAt(p, t, a, index)
        PROVE  IInv'
    BY <1>3, AddAlgoAtKeeps
  <1>4. ASSUME NEW p \in Peers, PrepareCommit(p) PROVE IInv'
    BY <1>4, PrepareCommitKeeps
  <1>5. ASSUME NEW p \in Peers, PrepareDHPart1(p) PROVE IInv'
    BY <1>5, PrepareDHPart1Keeps
  <1>6. ASSUME NEW p \in Peers, NEW pol, SetSelectionPolicy(p, pol) PROVE IInv'
    BY <1>6, SetSelectionPolicyKeeps
  <1>7. ASSUME NEW p \in Peers, NEW setup \in Setups(p), ReplaceClient(p, setup) PROVE IInv'
    BY <1>7, ReplaceClientKeeps
  <1>8. CASE UNCHANGED vars
    BY <1>8 DEF vars, IInv, Lists, Offers, Known, Kept, PubKeyChosen, HashesLargeEnough, LargeHash,
         CommitAccepted, Acceptable, StrongHashOffered, OnlyOffered, FindBestPubkey, Common
  <1> QED
    BY <1>1, <1>2, <1>3, <1>4, <1>5, <1>6, <1>7, <1>8 DEF Next

LEMMA Inductive == Spec => []IInv
  BY InitIInv, NextIInv, PTL DEF Spec

-----------------------------------------------------------------------------
(* The theorems.                                                             *)

\* prepareCommit on both sides, or prepareCommit and prepareDHPart1, end with the same
\* public key algorithm, whatever the two clients have in their lists.
THEOREM PubKeySymmetricHolds == Spec => []PubKeySymmetric
  <1>1. IInv => PubKeySymmetric
    <2> SUFFICES ASSUME IInv,
                        \A p \in Peers : stage[p] \in {"Prepared", "UnsuppHashType", "Responder"},
                        NEW p \in Peers, NEW q \in Peers
                 PROVE  suite[p].pubKey = suite[q].pubKey
      BY DEF PubKeySymmetric
    <2>1. CASE q = p
      BY <2>1
    <2>2. CASE q = Other(p)
      <3>1. Other(p) \in Peers /\ Other(Other(p)) = p
        BY OtherPeer
      <3>2. /\ suite[p].pubKey = FindBestPubkey(config[Other(p)], config[p])
            /\ suite[q].pubKey = FindBestPubkey(config[p], config[Other(p)])
        BY <2>2, <3>1 DEF IInv, PubKeyChosen
      <3>3. Offers(p, config[p]) /\ Offers(Other(p), config[Other(p)])
        BY <3>1 DEF IInv, Lists
      <3> QED
        BY <3>2, <3>3, SymmetricPubkey
    <2> QED
      BY <2>1, <2>2, OtherPeer
  <1> QED
    BY <1>1, Inductive, PTL

\* No Commit that prepareCommit makes is refused by the checks of the peer's
\* prepareDHPart1, not even one with a cipher kept from the Hello of another client.
THEOREM CommitAcceptedHolds == Spec => []CommitAccepted
  BY Inductive, PTL DEF IInv

\* As long as nobody changes a list by hand, prepareCommit never fails with
\* UnsuppHashType, for every combination of the settings of setupConfiguration.
THEOREM StrongHashOfferedHolds == Spec => []StrongHashOffered
  BY Inductive, PTL DEF IInv

\* prepareCommit asks only for what the peer's Hello offers or is mandatory, apart
\* from what the object has kept from an earlier peer.
THEOREM OnlyOfferedHolds == Spec => []OnlyOffered
  BY Inductive, PTL DEF IInv
=============================================================================
