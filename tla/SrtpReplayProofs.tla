-------------------------- MODULE SrtpReplayProofs --------------------------
(***************************************************************************)
(* Proofs about SrtpReplay, for all widths of sequence number, roll-over    *)
(* counter and window word, and any number of packets below the end of the   *)
(* roll-over counter: the replay register is exact, nothing is accepted      *)
(* twice, and nothing fresh is refused.                                      *)
(***************************************************************************)
EXTENDS SrtpReplay, TLAPS

-----------------------------------------------------------------------------
(* Arithmetic of indices.                                                    *)

LEMMA Widths ==
    /\ SeqMod \in Nat /\ Half \in Nat /\ Half > 0 /\ SeqMod = 2 * Half
    /\ WordSize \in Nat /\ WordSize > 0 /\ Window = 2 * WordSize /\ Window <= Half
    /\ RocMod \in Nat /\ MaxSent \in Nat
  BY ReplayConstants DEF Window, Half

LEMMA IndexType ==
    ASSUME NEW r \in Nat, NEW seq \in SeqNumbers
    PROVE  Index(r, seq) \in Nat
  BY Widths DEF Index, SeqNumbers

\* One roll-over is SeqMod packets.
LEMMA IndexNext ==
    ASSUME NEW r \in Int, NEW seq \in Int
    PROVE  Index(r + 1, seq) = Index(r, seq) + SeqMod
  BY Widths DEF Index

\* Indices less than half the number space apart have neighbouring counters.
LEMMA Neighbours ==
    ASSUME NEW r \in Nat, NEW q \in Nat, NEW s \in SeqNumbers, NEW t \in SeqNumbers,
           Index(r, s) - Index(q, t) < Half, Index(q, t) - Index(r, s) < Half
    PROVE  r \in {q - 1, q, q + 1}
  <1> USE Widths DEF SeqNumbers
  <1>1. Index(r, s) - Index(q, t) = (r - q) * SeqMod + (s - t)
    BY DEF Index
  <1>2. CASE r >= q + 2
    <2>1. (r - q - 2) * SeqMod >= 0
      BY <1>2
    <2>2. (r - q) * SeqMod >= 2 * SeqMod
      BY <2>1
    <2> QED
      BY <1>1, <2>2
  <1>3. CASE q >= r + 2
    <2>1. (q - r - 2) * SeqMod >= 0
      BY <1>3
    <2>2. (q - r) * SeqMod >= 2 * SeqMod
      BY <2>1
    <2>3. Index(q, t) - Index(r, s) = (q - r) * SeqMod + (t - s)
      BY DEF Index
    <2> QED
      BY <2>2, <2>3
  <1> QED
    BY <1>2, <1>3

\* A multiple of the divisor is bounded by the quotient.
LEMMA DivBound ==
    ASSUME NEW a \in Nat, a * SeqMod <= MaxSent
    PROVE  a <= MaxSent \div SeqMod
  <1> DEFINE q == MaxSent \div SeqMod
  <1> USE Widths
  <1>1. q \in Nat /\ MaxSent < (q + 1) * SeqMod
    OBVIOUS
  <1>2. CASE a >= q + 1
    <2>1. (a - (q + 1)) * SeqMod >= 0
      BY <1>1, <1>2
    <2> QED
      BY <1>1, <2>1
  <1> QED
    BY <1>1, <1>2

-----------------------------------------------------------------------------
(* The inductive invariant.                                                  *)

\* The sender's counter is far from its end, and ahead of every packet and of
\* the receiver.
Counters ==
    /\ txRoc + 2 < RocMod /\ roc <= txRoc
    /\ \A p \in sent : p.roc <= txRoc

\* The receiver has seen nothing.
Fresh ==
    ~seqNumSet => accepted = {} /\ window0 = {} /\ window1 = {} /\ roc = 0 /\ s_l = 0

Inv == TypeOK /\ Counters /\ Fresh /\ WindowExact

LEMMA InitInv == Init => Inv
  <1> SUFFICES ASSUME Init PROVE Inv
    OBVIOUS
  <1>1. TypeOK
    <2>1. seqNumSet \in BOOLEAN
      BY DEF Init
    <2>2. nextSeq \in SeqNumbers /\ s_l \in SeqNumbers
      BY Widths DEF Init, SeqNumbers
    <2> QED
      BY <2>1, <2>2 DEF Init, TypeOK
  <1>2. MaxSent \div SeqMod \in Nat
    BY Widths
  <1>3. Counters
    BY <1>2, ReplayConstants DEF Init, Counters
  <1>4. Fresh
    BY DEF Init, Fresh
  <1>5. WindowExact
    BY DEF Init, WindowExact, Bit
  <1> QED
    BY <1>1, <1>3, <1>4, <1>5 DEF Inv

\* guessIndex goes at most one roll-over up or down, and modulo RocMod only where
\* it goes below zero.
LEMMA Guess ==
    ASSUME TypeOK, Counters, NEW seq \in SeqNumbers
    PROVE  \/ GuessedRoc(seq) = roc
           \/ GuessedRoc(seq) = roc + 1
           \/ roc > 0 /\ GuessedRoc(seq) = roc - 1
           \/ roc = 0 /\ GuessedRoc(seq) = RocMod - 1
  <1>1. roc \in Nat /\ roc + 2 < RocMod /\ RocMod \in Nat
    BY Widths DEF TypeOK, Counters
  <1>2. (roc + 1) % RocMod = roc + 1
    BY <1>1
  <1>3. (roc - 1) % RocMod = IF roc > 0 THEN roc - 1 ELSE RocMod - 1
    BY <1>1
  <1> QED
    BY <1>1, <1>2, <1>3 DEF GuessedRoc

\* For the first packet there is nothing to guess.
LEMMA GuessFirst ==
    ASSUME TypeOK, ~seqNumSet, NEW seq \in SeqNumbers
    PROVE  GuessedRoc(seq) = roc /\ Highest(seq) = seq
  BY Widths DEF GuessedRoc, Highest, TypeOK, SeqNumbers

\* The packet that passes both tests: its index is what the receiver computed, and
\* update makes it the highest one iff it is.
LEMMA Advance ==
    ASSUME Inv, NEW p \in sent, Accepts(p), UpdateIndex(p.seq)
    PROVE  /\ Index(p.roc, p.seq) \in Nat /\ Delta(p.seq) \in Int
           /\ roc' \in Nat /\ roc' <= txRoc /\ s_l' \in SeqNumbers
           /\ seqNumSet => Delta(p.seq) = Index(p.roc, p.seq) - LocalIndex
           /\ seqNumSet => LocalIndex' = IF Delta(p.seq) > 0 THEN Index(p.roc, p.seq) ELSE LocalIndex
           /\ ~seqNumSet => Delta(p.seq) = 0 /\ LocalIndex' = Index(p.roc, p.seq)
  <1>1. p.roc \in Nat /\ p.seq \in SeqNumbers /\ p.roc <= txRoc /\ txRoc \in Nat
    BY DEF Inv, TypeOK, Counters
  <1>2. roc \in Nat /\ s_l \in SeqNumbers /\ seqNumSet \in BOOLEAN /\ RocMod \in Nat /\ txRoc + 2 < RocMod
    BY Widths DEF Inv, TypeOK, Counters
  <1>3. p.roc = roc \/ p.roc = roc + 1 \/ (roc > 0 /\ p.roc = roc - 1)
    <2>1. p.roc = GuessedRoc(p.seq) /\ p.roc # RocMod - 1
      BY <1>1, <1>2 DEF Accepts
    <2> QED
      BY <1>1, <2>1, Guess DEF Inv
  <1>4. GuessedRoc(p.seq) = p.roc
    BY DEF Accepts
  <1>5. Highest(p.seq) \in SeqNumbers
    BY <1>1, <1>2 DEF Highest
  <1>6. Index(p.roc, p.seq) \in Nat /\ Index(roc, Highest(p.seq)) \in Nat
    BY <1>1, <1>2, <1>5, IndexType
  <1>7. Delta(p.seq) = Index(p.roc, p.seq) - Index(roc, Highest(p.seq))
    BY <1>4 DEF Delta
  <1>8. roc' \in Nat /\ roc' <= txRoc /\ s_l' \in SeqNumbers
    BY <1>1, <1>2, <1>4, <1>5 DEF UpdateIndex, Inv, Counters
  <1>9. ASSUME seqNumSet
        PROVE  /\ Delta(p.seq) = Index(p.roc, p.seq) - LocalIndex
               /\ LocalIndex' = IF Delta(p.seq) > 0 THEN Index(p.roc, p.seq) ELSE LocalIndex
    <2>1. Highest(p.seq) = s_l
      BY <1>9 DEF Highest
    <2>2. Delta(p.seq) = Index(p.roc, p.seq) - LocalIndex
      BY <1>7, <2>1 DEF LocalIndex
    <2>3. CASE p.roc = roc + 1
      <3>1. roc' = p.roc /\ s_l' = p.seq
        BY <1>2, <1>4, <2>3 DEF UpdateIndex
      <3>2. Index(p.roc, p.seq) = Index(roc, p.seq) + SeqMod
        BY <1>1, <1>2, <2>3, IndexNext DEF SeqNumbers
      <3>3. Index(roc, p.seq) - Index(roc, s_l) = p.seq - s_l
        BY <1>1, <1>2, Widths DEF Index, SeqNumbers
      <3>4. Index(roc, p.seq) \in Nat
        BY <1>1, <1>2, IndexType
      <3>5. Delta(p.seq) > 0
        BY <1>1, <1>2, <1>6, <2>1, <1>7, <3>2, <3>3, <3>4, Widths DEF SeqNumbers
      <3> QED
        BY <2>2, <3>1, <3>5 DEF LocalIndex
    <2>4. CASE p.roc = roc
      <3>1. roc' = roc /\ s_l' = IF Delta(p.seq) > 0 /\ p.seq > s_l THEN p.seq ELSE s_l
        BY <1>2, <1>4, <2>1, <2>4 DEF UpdateIndex
      <3>2. Delta(p.seq) = p.seq - s_l
        BY <1>1, <1>2, <1>7, <2>1, <2>4, Widths DEF Index, SeqNumbers
      <3> QED
        BY <1>1, <1>2, <2>2, <2>4, <3>1, <3>2 DEF LocalIndex, SeqNumbers
    <2>5. CASE roc > 0 /\ p.roc = roc - 1
      <3>1. Index(roc, p.seq) = Index(p.roc, p.seq) + SeqMod
        <4>1. roc = p.roc + 1 /\ p.roc \in Int /\ p.seq \in Int
          BY <1>1, <1>2, <2>5 DEF SeqNumbers
        <4> QED
          BY <4>1, IndexNext
      <3>2. Index(roc, p.seq) - Index(roc, s_l) = p.seq - s_l
        BY <1>1, <1>2, Widths DEF Index, SeqNumbers
      <3>3. Index(roc, p.seq) \in Nat
        BY <1>1, <1>2, IndexType
      <3>4. ~(Delta(p.seq) > 0)
        BY <1>1, <1>2, <1>6, <1>7, <2>1, <3>1, <3>2, <3>3, Widths DEF SeqNumbers
      <3>5. roc' = roc /\ s_l' = s_l
        BY <1>2, <1>4, <2>1, <2>5, <3>4 DEF UpdateIndex
      <3> QED
        BY <2>2, <3>4, <3>5 DEF LocalIndex
    <2> QED
      BY <1>3, <2>2, <2>3, <2>4, <2>5
  <1>10. ASSUME ~seqNumSet
         PROVE  Delta(p.seq) = 0 /\ LocalIndex' = Index(p.roc, p.seq)
    <2>1. p.roc = roc /\ Highest(p.seq) = p.seq
      BY <1>1, <1>4, <1>10, GuessFirst DEF Inv
    <2>2. Delta(p.seq) = 0
      BY <1>6, <1>7, <2>1
    <2>3. roc' = roc /\ s_l' = p.seq
      BY <1>2, <1>4, <2>1, <2>2 DEF UpdateIndex
    <2> QED
      BY <2>1, <2>2, <2>3 DEF LocalIndex
  <1> QED
    BY <1>6, <1>7, <1>8, <1>9, <1>10

\* The two words are one register: a new packet shifts it and sets bit 0, an
\* older one sets its bit.
LEMMA Register ==
    ASSUME window0 \subseteq Bits, window1 \subseteq Bits,
           NEW delta \in Int, -delta < Window, UpdateWindow(delta)
    PROVE  /\ window0' \subseteq Bits /\ window1' \subseteq Bits
           /\ delta > 0 => \A d \in 0..(Window - 1) :
                Bit(d)' <=> d = 0 \/ (d >= delta /\ Bit(d - delta))
           /\ delta <= 0 => \A d \in 0..(Window - 1) : Bit(d)' <=> d = -delta \/ Bit(d)
  <1> USE Widths DEF Bits
  <1>1. CASE delta >= Window
    <2>1. window0' = {0} /\ window1' = {}
      BY <1>1 DEF UpdateWindow
    <2> QED
      BY <1>1, <2>1 DEF Bit
  <1>2. CASE delta > 0 /\ delta < WordSize
    <2>1. /\ window0' = ShiftL(window0, delta) \cup {0}
          /\ window1' = ShiftL(window1, delta) \cup ShiftR(window0, WordSize - delta)
      BY <1>2 DEF UpdateWindow
    <2>2. ASSUME NEW d \in 0..(Window - 1)
          PROVE  Bit(d)' <=> d = 0 \/ (d >= delta /\ Bit(d - delta))
      <3>1. CASE d < WordSize
        BY <1>2, <2>1, <3>1 DEF Bit, ShiftL
      <3>2. CASE d >= WordSize
        <4>1. Bit(d)' <=> (d - WordSize) - delta \in window1 \/ d - delta \in window0
          BY <1>2, <2>1, <3>2 DEF Bit, ShiftL, ShiftR
        <4>2. (d - WordSize) - delta = (d - delta) - WordSize
          OBVIOUS
        <4> QED
          BY <1>2, <3>2, <4>1, <4>2 DEF Bit
      <3> QED
        BY <3>1, <3>2
    <2> QED
      BY <1>2, <2>1, <2>2 DEF ShiftL, ShiftR
  <1>3. CASE delta >= WordSize /\ delta < Window
    <2>1. window0' = {0} /\ window1' = ShiftL(window0, delta - WordSize)
      BY <1>3 DEF UpdateWindow
    <2>2. ASSUME NEW d \in 0..(Window - 1)
          PROVE  Bit(d)' <=> d = 0 \/ (d >= delta /\ Bit(d - delta))
      <3>1. CASE d < WordSize
        BY <1>3, <2>1, <3>1 DEF Bit
      <3>2. CASE d >= WordSize
        <4>1. Bit(d)' <=> d - delta \in window0
          BY <1>3, <2>1, <3>2 DEF Bit, ShiftL
        <4> QED
          BY <1>3, <3>2, <4>1 DEF Bit
      <3> QED
        BY <3>1, <3>2
    <2> QED
      BY <1>3, <2>1, <2>2 DEF ShiftL
  <1>4. CASE delta <= 0
    <2>1. IF -delta < WordSize THEN window0' = window0 \cup {-delta} /\ UNCHANGED window1
          ELSE window1' = window1 \cup {-delta - WordSize} /\ UNCHANGED window0
      BY <1>4 DEF UpdateWindow
    <2>2. CASE -delta < WordSize
      <3>1. window0' = window0 \cup {-delta} /\ UNCHANGED window1
        BY <2>1, <2>2
      <3> QED
        BY <1>4, <2>2, <3>1 DEF Bit
    <2>3. CASE ~(-delta < WordSize)
      <3>1. window1' = window1 \cup {-delta - WordSize} /\ UNCHANGED window0
        BY <2>1, <2>3
      <3>2. ASSUME NEW d \in 0..(Window - 1)
            PROVE  Bit(d)' <=> d = -delta \/ Bit(d)
        BY <1>4, <2>3, <3>1 DEF Bit
      <3> QED
        BY <1>4, <2>3, <3>1, <3>2
    <2> QED
      BY <2>2, <2>3
  <1> QED
    BY <1>1, <1>2, <1>3, <1>4

\* A packet that is accepted leaves the register exact.
LEMMA AcceptExact ==
    ASSUME Inv, NEW p \in sent, UnprotectAccept(p)
    PROVE  WindowExact'
  <1> DEFINE delta == Delta(p.seq)
             i     == Index(p.roc, p.seq)
  <1>1. /\ i \in Nat /\ delta \in Int
        /\ seqNumSet => delta = i - LocalIndex
        /\ seqNumSet => LocalIndex' = IF delta > 0 THEN i ELSE LocalIndex
        /\ ~seqNumSet => delta = 0 /\ LocalIndex' = i
    BY Advance DEF UnprotectAccept
  <1>2. LocalIndex \in Nat
    BY IndexType DEF Inv, TypeOK, LocalIndex
  <1>3. -delta < Window
    BY <1>1, Widths DEF UnprotectAccept, Accepts, CheckReplay
  <1>4. accepted' = accepted \cup {i} /\ accepted \subseteq Nat
    BY DEF UnprotectAccept, Inv, TypeOK
  <1>5. /\ delta > 0 => \A d \in 0..(Window - 1) :
             Bit(d)' <=> d = 0 \/ (d >= delta /\ Bit(d - delta))
        /\ delta <= 0 => \A d \in 0..(Window - 1) : Bit(d)' <=> d = -delta \/ Bit(d)
    BY <1>1, <1>3, Register DEF UnprotectAccept, Inv, TypeOK
  <1>6. /\ \A d \in 0..(Window - 1) : Bit(d) <=> LocalIndex - d \in accepted
        /\ \A a \in accepted : a <= LocalIndex
    BY DEF Inv, WindowExact
  <1> HIDE DEF delta, i
  <1>7. CASE ~seqNumSet
    <2>1. accepted = {} /\ delta = 0 /\ LocalIndex' = i
      BY <1>1, <1>7 DEF Inv, Fresh
    <2>2. ASSUME NEW d \in 0..(Window - 1) PROVE Bit(d)' <=> LocalIndex' - d \in accepted'
      BY <1>1, <1>4, <1>5, <1>6, <2>1, Widths
    <2> QED
      BY <1>1, <1>4, <2>1, <2>2 DEF WindowExact
  <1>8. CASE seqNumSet /\ delta > 0
    <2>1. LocalIndex' = i /\ i = LocalIndex + delta
      BY <1>1, <1>2, <1>8
    <2>2. ASSUME NEW d \in 0..(Window - 1) PROVE Bit(d)' <=> LocalIndex' - d \in accepted'
      <3>1. CASE d = 0
        BY <1>1, <1>4, <1>5, <1>8, <2>1, <3>1
      <3>2. CASE d # 0 /\ d < delta
        BY <1>1, <1>2, <1>4, <1>5, <1>6, <1>8, <2>1, <3>2, Widths
      <3>3. CASE d # 0 /\ d >= delta
        <4>1. d - delta \in 0..(Window - 1) /\ LocalIndex' - d = LocalIndex - (d - delta)
          BY <1>1, <1>2, <1>8, <2>1, <3>3, Widths
        <4>2. Bit(d)' <=> LocalIndex - (d - delta) \in accepted
          BY <1>5, <1>6, <1>8, <3>3, <4>1
        <4>3. LocalIndex - (d - delta) # i
          BY <1>1, <1>2, <1>8, <2>1, <3>3, Widths
        <4> QED
          BY <1>4, <4>1, <4>2, <4>3
      <3> QED
        BY <1>1, <3>1, <3>2, <3>3, Widths
    <2> QED
      BY <1>1, <1>2, <1>4, <1>6, <1>8, <2>1, <2>2 DEF WindowExact
  <1>9. CASE seqNumSet /\ delta <= 0
    <2>1. LocalIndex' = LocalIndex /\ i = LocalIndex + delta
      BY <1>1, <1>2, <1>9
    <2>2. ASSUME NEW d \in 0..(Window - 1) PROVE Bit(d)' <=> LocalIndex' - d \in accepted'
      <3>1. LocalIndex - d = i <=> d = -delta
        BY <1>1, <1>2, <2>1, Widths
      <3> QED
        BY <1>4, <1>5, <1>6, <1>9, <2>1, <3>1
    <2> QED
      BY <1>1, <1>2, <1>4, <1>6, <1>9, <2>1, <2>2 DEF WindowExact
  <1> QED
    BY <1>1, <1>7, <1>8, <1>9

\* The sender's step: the counter counts up only behind the last sequence number.
LEMMA ProtectInv == Inv /\ Protect => Inv'
  <1> SUFFICES ASSUME Inv, Protect PROVE Inv'
    OBVIOUS
  <1>1. UNCHANGED <<seqNumSet, s_l, roc, window0, window1, accepted>>
    BY DEF Protect, receiver
  <1>2. nextSeq \in SeqNumbers /\ txRoc \in Nat
    BY DEF Inv, TypeOK
  <1>3. nextSeq' \in SeqNumbers
    BY <1>2, Widths DEF Protect, SeqNumbers
  <1>4. txRoc' \in Nat /\ txRoc <= txRoc'
    BY <1>2 DEF Protect
  <1>5. sent' \subseteq [roc : Nat, seq : SeqNumbers]
    BY <1>2 DEF Protect, Inv, TypeOK
  <1>6. TypeOK'
    BY <1>1, <1>3, <1>4, <1>5 DEF Inv, TypeOK
  <1>7. txRoc' + 2 < RocMod
    <2>1. CASE nextSeq = SeqMod - 1
      <3>1. (txRoc + 1) * SeqMod <= MaxSent
        BY <1>2, <2>1, Widths DEF Protect
      <3>2. txRoc + 1 <= MaxSent \div SeqMod /\ MaxSent \div SeqMod \in Nat
        BY <1>2, <3>1, DivBound, Widths
      <3> QED
        BY <1>2, <2>1, <3>2, ReplayConstants DEF Protect
    <2>2. CASE nextSeq # SeqMod - 1
      BY <2>2 DEF Protect, Inv, Counters
    <2> QED
      BY <2>1, <2>2
  <1>8. Counters'
    <2>1. \A p \in sent : p.roc \in Nat /\ p.roc <= txRoc
      BY DEF Inv, TypeOK, Counters
    <2>2. \A p \in sent' : p.roc <= txRoc'
      BY <1>2, <1>4, <2>1 DEF Protect
    <2>3. roc' <= txRoc'
      BY <1>1, <1>2, <1>4 DEF Inv, TypeOK, Counters
    <2> QED
      BY <1>7, <2>2, <2>3 DEF Counters
  <1>9. Fresh' /\ WindowExact'
    BY <1>1 DEF Inv, Fresh, WindowExact, Bit, LocalIndex
  <1> QED
    BY <1>6, <1>8, <1>9 DEF Inv

\* A packet that is refused changes nothing but what the tests initialise.
LEMMA RejectInv ==
    ASSUME Inv, NEW seq \in SeqNumbers, UnprotectReject(seq)
    PROVE  Inv'
  <1>1. /\ UNCHANGED <<nextSeq, txRoc, sent, roc, window0, window1, accepted>>
        /\ seqNumSet' = TRUE /\ s_l' = Highest(seq)
    BY DEF UnprotectReject, sender
  <1>2. s_l' \in SeqNumbers
    BY <1>1 DEF Highest, Inv, TypeOK
  <1>3. TypeOK' /\ Counters' /\ Fresh'
    BY <1>1, <1>2 DEF Inv, TypeOK, Counters, Fresh
  <1>4. WindowExact'
    <2>1. CASE seqNumSet
      BY <1>1, <2>1 DEF Inv, WindowExact, Bit, LocalIndex, Highest
    <2>2. CASE ~seqNumSet
      BY <1>1, <2>2 DEF Inv, Fresh, WindowExact, Bit
    <2> QED
      BY <2>1, <2>2
  <1> QED
    BY <1>3, <1>4 DEF Inv

LEMMA AcceptInv ==
    ASSUME Inv, NEW p \in sent, UnprotectAccept(p)
    PROVE  Inv'
  <1>1. /\ UNCHANGED <<nextSeq, txRoc, sent>> /\ seqNumSet' = TRUE
        /\ accepted' = accepted \cup {Index(p.roc, p.seq)}
    BY DEF UnprotectAccept, sender
  <1>2. /\ Index(p.roc, p.seq) \in Nat /\ Delta(p.seq) \in Int
        /\ roc' \in Nat /\ roc' <= txRoc /\ s_l' \in SeqNumbers
    BY Advance DEF UnprotectAccept
  <1>3. window0' \subseteq Bits /\ window1' \subseteq Bits
    <2>1. -Delta(p.seq) < Window
      BY <1>2, Widths DEF UnprotectAccept, Accepts, CheckReplay
    <2> QED
      BY <1>2, <2>1, Register DEF UnprotectAccept, Inv, TypeOK
  <1>4. TypeOK' /\ Counters' /\ Fresh'
    BY <1>1, <1>2, <1>3 DEF Inv, TypeOK, Counters, Fresh
  <1> QED
    BY <1>4, AcceptExact DEF Inv

LEMMA NextInv == Inv /\ [Next]_vars => Inv'
  <1> SUFFICES ASSUME Inv, [Next]_vars PROVE Inv'
    OBVIOUS
  <1>1. CASE Protect
    BY <1>1, ProtectInv
  <1>2. ASSUME NEW p \in sent, Receive(p) PROVE Inv'
    <2>1. p.seq \in SeqNumbers
      BY DEF Inv, TypeOK
    <2> QED
      BY <1>2, <2>1, AcceptInv, RejectInv DEF Receive
  <1>3. ASSUME NEW seq \in SeqNumbers, UnprotectReject(seq) PROVE Inv'
    BY <1>3, RejectInv
  <1>4. CASE UNCHANGED vars
    BY <1>4 DEF vars, sender, receiver, Inv, TypeOK, Counters, Fresh, WindowExact, Bit, LocalIndex
  <1> QED
    BY <1>1, <1>2, <1>3, <1>4 DEF Next

LEMMA Invariance == Spec => []Inv
  BY InitInv, NextInv, PTL DEF Spec

-----------------------------------------------------------------------------

\* The variables keep their types; protect keeps the sequence number in its width.
THEOREM TypeCorrect == Spec => []TypeOK
  <1>1. Inv => TypeOK
    BY DEF Inv
  <1> QED
    BY <1>1, Invariance, PTL

\* The shifts and carries of update keep the two words an exact record of the
\* last packets, across roll-overs, jumps and damaged packets.
THEOREM WindowExactHolds == Spec => []WindowExact
  <1>1. Inv => WindowExact
    BY DEF Inv
  <1> QED
    BY <1>1, Invariance, PTL

\* An accepted packet shows that the receiver has a highest number.
LEMMA Begun == ASSUME Inv, accepted # {}, NEW seq PROVE seqNumSet /\ Highest(seq) = s_l
  BY DEF Inv, Fresh, Highest

\* unprotect passes no packet on twice, however late it is repeated.
THEOREM NoReplayHolds == Spec => []NoReplay
  <1>1. ASSUME Inv, NEW p \in sent, Index(p.roc, p.seq) \in accepted, Accepts(p)
        PROVE  FALSE
    <2>1. p.roc \in Nat /\ p.seq \in SeqNumbers
      BY <1>1 DEF Inv, TypeOK
    <2>2. Index(p.roc, p.seq) \in Nat /\ LocalIndex \in Nat
      BY <1>1, <2>1, IndexType DEF Inv, TypeOK, LocalIndex
    <2>3. Delta(p.seq) = Index(p.roc, p.seq) - LocalIndex
      BY <1>1, Begun DEF Accepts, Delta, LocalIndex
    <2>4. Index(p.roc, p.seq) <= LocalIndex
      BY <1>1 DEF Inv, WindowExact
    <2>5. -Delta(p.seq) \in 0..(Window - 1) /\ ~Bit(-Delta(p.seq))
      BY <1>1, <2>2, <2>3, <2>4, Widths DEF Accepts, CheckReplay
    <2>6. LocalIndex - (-Delta(p.seq)) = Index(p.roc, p.seq)
      BY <2>2, <2>3
    <2> QED
      BY <1>1, <2>5, <2>6 DEF Inv, WindowExact
  <1>2. Inv => NoReplay
    BY <1>1 DEF NoReplay
  <1> QED
    BY <1>2, Invariance, PTL

\* guessIndex finds the counter of every packet less than half the number space
\* away from the highest one.
LEMMA GuessRight ==
    ASSUME Inv, seqNumSet, NEW p \in sent,
           LocalIndex - Index(p.roc, p.seq) < Half, Index(p.roc, p.seq) - LocalIndex < Half
    PROVE  GuessedRoc(p.seq) = p.roc
  <1>1. /\ p.roc \in Nat /\ p.seq \in SeqNumbers /\ p.roc <= txRoc /\ txRoc \in Nat
        /\ roc \in Nat /\ s_l \in SeqNumbers /\ roc <= txRoc /\ txRoc + 2 < RocMod
    BY DEF Inv, TypeOK, Counters
  <1>2. Highest(p.seq) = s_l
    BY DEF Highest
  <1>3. p.roc \in {roc - 1, roc, roc + 1}
    BY <1>1, Neighbours DEF LocalIndex
  <1>4. Index(roc, p.seq) - LocalIndex = p.seq - s_l
    BY <1>1, Widths DEF LocalIndex, Index, SeqNumbers
  <1>5. Index(roc, p.seq) \in Nat /\ LocalIndex \in Nat
    BY <1>1, IndexType DEF LocalIndex
  <1>6. CASE p.roc = roc
    <2>1. p.seq - s_l < Half /\ s_l - p.seq < Half
      BY <1>1, <1>4, <1>5, <1>6, Widths DEF SeqNumbers
    <2> QED
      BY <1>1, <1>2, <1>6, <2>1, Widths DEF GuessedRoc, SeqNumbers
  <1>7. CASE p.roc = roc + 1
    <2>1. Index(p.roc, p.seq) = Index(roc, p.seq) + SeqMod
      BY <1>1, <1>7, IndexNext DEF SeqNumbers
    <2>2. s_l - p.seq > Half
      BY <1>1, <1>4, <1>5, <2>1, Widths DEF SeqNumbers
    <2>3. (roc + 1) % RocMod = roc + 1
      BY <1>1, Widths
    <2> QED
      BY <1>1, <1>2, <1>7, <2>2, <2>3, Widths DEF GuessedRoc, SeqNumbers
  <1>8. CASE p.roc = roc - 1
    <2>1. Index(roc, p.seq) = Index(p.roc, p.seq) + SeqMod
      <3>1. roc = p.roc + 1 /\ p.roc \in Int /\ p.seq \in Int
        BY <1>1, <1>8 DEF SeqNumbers
      <3> QED
        BY <3>1, IndexNext
    <2>2. Index(p.roc, p.seq) \in Nat
      BY <1>1, IndexType
    <2>3. p.seq - s_l > Half
      BY <1>1, <1>4, <1>5, <2>1, <2>2, Widths DEF SeqNumbers
    <2>4. (roc - 1) % RocMod = roc - 1
      BY <1>1, <1>8, Widths
    <2> QED
      BY <1>1, <1>2, <1>8, <2>3, <2>4, Widths DEF GuessedRoc, SeqNumbers
  <1> QED
    BY <1>3, <1>6, <1>7, <1>8

\* No false alarm: once the stream has begun, unprotect accepts every packet that it
\* has not seen, if it is in the window and less than half the number space ahead.
THEOREM FreshAcceptedHolds == Spec => []FreshAccepted
  <1>1. ASSUME Inv, NEW p \in sent, accepted # {}, Index(p.roc, p.seq) \notin accepted,
               LocalIndex - Index(p.roc, p.seq) < Window, Index(p.roc, p.seq) - LocalIndex < Half
        PROVE  Accepts(p)
    <2>1. Index(p.roc, p.seq) \in Nat /\ LocalIndex \in Nat
      BY <1>1, IndexType DEF Inv, TypeOK, LocalIndex
    <2>2. seqNumSet /\ Highest(p.seq) = s_l
      BY <1>1, Begun
    <2>3. GuessedRoc(p.seq) = p.roc
      BY <1>1, <2>1, <2>2, GuessRight, Widths
    <2>4. Delta(p.seq) = Index(p.roc, p.seq) - LocalIndex
      BY <2>2, <2>3 DEF Delta, LocalIndex
    <2>5. CASE Delta(p.seq) > 0
      BY <2>3, <2>5 DEF Accepts, CheckReplay
    <2>6. CASE ~(Delta(p.seq) > 0)
      <3>1. -Delta(p.seq) \in 0..(Window - 1) /\ LocalIndex - (-Delta(p.seq)) = Index(p.roc, p.seq)
        BY <1>1, <2>1, <2>4, <2>6, Widths
      <3>2. ~Bit(-Delta(p.seq))
        BY <1>1, <3>1 DEF Inv, WindowExact
      <3> QED
        BY <2>3, <3>1, <3>2, Widths DEF Accepts, CheckReplay
    <2> QED
      BY <2>5, <2>6
  <1>2. Inv => FreshAccepted
    BY <1>1 DEF FreshAccepted
  <1> QED
    BY <1>2, Invariance, PTL
=============================================================================
