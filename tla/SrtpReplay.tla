----------------------------- MODULE SrtpReplay -----------------------------
(***************************************************************************)
(* The packet index of one SRTP stream, from SrtpHandler::protect to        *)
(* SrtpHandler::unprotect: how the receiver reconstructs the roll-over       *)
(* counter from 16 bit sequence numbers, and its replay window               *)
(* (CryptoContext::guessIndex, checkReplay and update).                      *)
(*                                                                         *)
(* Packets may be lost, repeated, reordered and damaged.  The sequence       *)
(* number and the words of the window have the widths SeqMod and WordSize; a *)
(* word is the set of its one bits.  The authentication tag covers the       *)
(* roll-over counter: a packet is authentic iff the counter was guessed      *)
(* right.  The policy is not the null policy, which has no replay check.     *)
(***************************************************************************)
EXTENDS Integers

CONSTANTS
    SeqMod,      \* sequence numbers                      (2^16)
    RocMod,      \* roll-over counters                    (2^32)
    WordSize,    \* bits in a word of the replay window   (64)
    MaxSent      \* bound: packets sent

Half   == SeqMod \div 2
Window == 2 * WordSize        \* REPLAY_WINDOW_SIZE

ASSUME ReplayConstants ==
    /\ SeqMod \in Nat \ {0} /\ WordSize \in Nat \ {0} /\ RocMod \in Nat /\ MaxSent \in Nat
    /\ SeqMod = 2 * Half /\ Window <= Half
    /\ RocMod > MaxSent \div SeqMod + 2

VARIABLES
    nextSeq, txRoc,        \* the sender: next sequence number, its ROC
    sent,                  \* packets sent
    seqNumSet, s_l, roc,   \* the receiver: highest sequence number, its ROC
    window0, window1,      \* replay_window[0], replay_window[1]
    accepted               \* indices of the packets unprotect has passed on

sender   == <<nextSeq, txRoc, sent>>
receiver == <<seqNumSet, s_l, roc, window0, window1, accepted>>
vars     == <<sender, receiver>>

SeqNumbers == 0..(SeqMod - 1)
Bits       == 0..(WordSize - 1)

\* Where the first packet finds the random initial sequence number.
Init ==
    /\ nextSeq \in SeqNumbers /\ txRoc = 0 /\ sent = {}
    /\ seqNumSet = FALSE /\ s_l = 0 /\ roc = 0
    /\ window0 = {} /\ window1 = {} /\ accepted = {}

Index(r, seq) == r * SeqMod + seq

-----------------------------------------------------------------------------
(* The sender.                                                               *)

\* SrtpHandler::protect, for the packets of an RTP stream in their order.
Protect ==
    /\ txRoc * SeqMod + nextSeq < MaxSent
    /\ sent' = sent \cup {[roc |-> txRoc, seq |-> nextSeq]}
    /\ txRoc' = IF nextSeq = SeqMod - 1 THEN txRoc + 1 ELSE txRoc
    /\ nextSeq' = (nextSeq + 1) % SeqMod
    /\ UNCHANGED receiver

-----------------------------------------------------------------------------
(* The receiver.                                                             *)

\* guessIndex and checkReplay take the first sequence number they see for the
\* highest one.
Highest(seq) == IF seqNumSet THEN s_l ELSE seq

\* guessIndex: the ROC that brings seq closest to the highest number seen.
GuessedRoc(seq) ==
    LET top == Highest(seq)
    IN  IF top < Half
        THEN IF seq - top > Half THEN (roc - 1) % RocMod ELSE roc
        ELSE IF top - Half > seq THEN (roc + 1) % RocMod ELSE roc

Delta(seq) == Index(GuessedRoc(seq), seq) - Index(roc, Highest(seq))

\* Bit d of the 128 bit register.
Bit(d) == IF d < WordSize THEN d \in window0 ELSE d - WordSize \in window1

\* Mutants of CheckReplay: the last packet of the window is too old; the
\* register is not looked at.
CheckReplayShort(seq) ==
    Delta(seq) > 0 \/ (-Delta(seq) < Window - 1 /\ ~Bit(-Delta(seq)))

CheckReplayAge(seq) == Delta(seq) > 0 \/ -Delta(seq) < Window

CheckReplay(seq) == Delta(seq) > 0 \/ (-Delta(seq) < Window /\ ~Bit(-Delta(seq)))

\* Both tests of unprotect.
Accepts(p) == CheckReplay(p.seq) /\ GuessedRoc(p.seq) = p.roc

\* word << n and word >> n.
ShiftL(word, n) == {b \in Bits : b - n \in word}
ShiftR(word, n) == {b \in Bits : b + n \in word}

\* Mutant of UpdateWindow: the carry between the words is lost.
UpdateWindowNoCarry(delta) ==
    CASE delta >= Window -> window0' = {0} /\ window1' = {}
      [] delta > 0 /\ delta < WordSize ->
            /\ window0' = ShiftL(window0, delta) \cup {0}
            /\ window1' = ShiftL(window1, delta)
      [] delta >= WordSize /\ delta < Window ->
            window0' = {0} /\ window1' = ShiftL(window0, delta - WordSize)
      [] OTHER -> IF -delta < WordSize THEN window0' = window0 \cup {-delta} /\ UNCHANGED window1
                  ELSE window1' = window1 \cup {-delta - WordSize} /\ UNCHANGED window0

\* The replay shift register: shift by a new packet, or mark an older one.
UpdateWindow(delta) ==
    CASE delta >= Window -> window0' = {0} /\ window1' = {}
      [] delta > 0 /\ delta < WordSize ->
            /\ window0' = ShiftL(window0, delta) \cup {0}
            /\ window1' = ShiftL(window1, delta) \cup ShiftR(window0, WordSize - delta)
      [] delta >= WordSize /\ delta < Window ->
            window0' = {0} /\ window1' = ShiftL(window0, delta - WordSize)
      [] OTHER -> IF -delta < WordSize THEN window0' = window0 \cup {-delta} /\ UNCHANGED window1
                  ELSE window1' = window1 \cup {-delta - WordSize} /\ UNCHANGED window0

\* The local ROC and highest sequence number.
UpdateIndex(seq) ==
    IF GuessedRoc(seq) > roc THEN roc' = GuessedRoc(seq) /\ s_l' = seq
    ELSE /\ UNCHANGED roc
         /\ s_l' = IF Delta(seq) > 0 /\ seq > Highest(seq) THEN seq ELSE Highest(seq)

\* SrtpHandler::unprotect: a packet that passes both tests ...
UnprotectAccept(p) ==
    /\ Accepts(p) /\ seqNumSet' = TRUE
    /\ UpdateWindow(Delta(p.seq)) /\ UpdateIndex(p.seq)
    /\ accepted' = accepted \cup {Index(p.roc, p.seq)}
    /\ UNCHANGED sender

\* ... or fails one of them, as a damaged packet does with any number; what the
\* tests have initialised stays.
UnprotectReject(seq) ==
    /\ seqNumSet' = TRUE /\ s_l' = Highest(seq)
    /\ UNCHANGED <<sender, roc, window0, window1, accepted>>

Receive(p) == UnprotectAccept(p) \/ (~Accepts(p) /\ UnprotectReject(p.seq))

Next ==
    \/ Protect
    \/ \E p \in sent : Receive(p)
    \/ \E seq \in SeqNumbers : UnprotectReject(seq)

Spec == Init /\ [][Next]_vars

-----------------------------------------------------------------------------
(* Properties.                                                               *)

LocalIndex == Index(roc, s_l)

\* The variables have their types: protect keeps the sequence number in 16 bits.
TypeOK ==
    /\ nextSeq \in SeqNumbers /\ txRoc \in Nat
    /\ sent \subseteq [roc : Nat, seq : SeqNumbers]
    /\ seqNumSet \in BOOLEAN /\ s_l \in SeqNumbers /\ roc \in Nat
    /\ window0 \subseteq Bits /\ window1 \subseteq Bits /\ accepted \subseteq Nat

\* The two words, with their shifts and carries, are exactly the record of the
\* last Window indices: bit d is set iff the packet d before the highest one was
\* accepted, across any number of roll-overs.
WindowExact ==
    /\ \A d \in 0..(Window - 1) : Bit(d) <=> LocalIndex - d \in accepted
    /\ \A i \in accepted : i <= LocalIndex

\* No packet is passed on twice, however late it is repeated.
NoReplay == \A p \in sent : Index(p.roc, p.seq) \in accepted => ~Accepts(p)

\* No false alarm: once the stream has begun, a packet that was not accepted before
\* is, if it is not older than the window and not half the number space ahead.
FreshAccepted ==
    \A p \in sent :
        LET i == Index(p.roc, p.seq)
        IN  (accepted # {} /\ i \notin accepted /\ LocalIndex - i < Window /\ i - LocalIndex < Half)
              => Accepts(p)
=============================================================================
