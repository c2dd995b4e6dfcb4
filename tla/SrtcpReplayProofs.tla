-------------------------- MODULE SrtcpReplayProofs --------------------------
(***************************************************************************)
(* Proofs about SrtcpReplay, for all widths of the index and of the         *)
(* register, all values of the uninitialised s_l, and every result that a    *)
(* shift by more than the register's width may have.                         *)
(***************************************************************************)
EXTENDS SrtcpReplay, TLAPS

-----------------------------------------------------------------------------
(* The unsigned difference of two numbers.                                   *)

LEMMA UintModType == UintMod \in Nat \ {0} /\ IndexMod < UintMod
  BY CtrlConstants DEF UintMod

\* An unsigned number has difference 0 with itself and with no other.
LEMMA DeltaZero ==
    ASSUME s_l \in 0..(UintMod - 1), NEW index \in 0..(UintMod - 1)
    PROVE  /\ Delta(index) \in 0..(UintMod - 1)
           /\ Delta(index) = 0 <=> index = s_l
  <1> DEFINE d == index - s_l
  <1>1. UintMod \in Nat \ {0} /\ d \in Int /\ -UintMod < d /\ d < UintMod
    BY UintModType
  <1>2. CASE d >= 0
    <2>1. d % UintMod = d
      BY <1>1, <1>2
    <2> QED
      BY <2>1, <1>1, <1>2 DEF Delta
  <1>3. CASE d < 0
    <2>1. d % UintMod = d + UintMod
      BY <1>1, <1>3
    <2> QED
      BY <2>1, <1>1, <1>3 DEF Delta
  <1> QED
    BY <1>1, <1>2, <1>3

-----------------------------------------------------------------------------
(* The inductive invariant.                                                  *)

Types ==
    /\ srtcpIndex \in 0..MaxSent
    /\ garbage \in 0..(UintMod - 1) /\ s_l \in 0..(UintMod - 1)
    /\ accepted \subseteq 0..(srtcpIndex - 1)

\* Whatever a shift made of the register, the bit of the highest packet is set.
Marked == accepted # {} => 0 \in replay_window

Inv == Types /\ Marked /\ HighestKept

LEMMA InitInv == Init => Inv
  BY UintModType, CtrlConstants DEF Init, Inv, Types, Marked, HighestKept

LEMMA UpdateFacts ==
    ASSUME NEW index, Update(index)
    PROVE  0 \in replay_window' /\ s_l' = IF index > s_l THEN index ELSE s_l
  BY DEF Update

LEMMA NextInv == Inv /\ [Next]_vars => Inv'
  <1> SUFFICES ASSUME Inv, [Next]_vars PROVE Inv'
    OBVIOUS
  <1> USE DEF Inv, Types, Marked, HighestKept
  <1>1. CASE ProtectCtrl
    <2>1. srtcpIndex + 1 < IndexMod \/ srtcpIndex + 1 = MaxSent
      BY <1>1, CtrlConstants DEF ProtectCtrl
    <2>2. srtcpIndex' = srtcpIndex + 1
      BY <1>1, <2>1, CtrlConstants DEF ProtectCtrl
    <2> QED
      BY <1>1, <2>2, CtrlConstants DEF ProtectCtrl
  <1>2. ASSUME NEW index \in 0..(srtcpIndex - 1), UnprotectCtrl(index)
        PROVE  Inv'
    <2>1. index \in 0..(UintMod - 1)
      BY UintModType, CtrlConstants
    <2>2. 0 \in replay_window' /\ s_l' = IF index > s_l THEN index ELSE s_l
      BY <1>2, UpdateFacts DEF UnprotectCtrl
    <2>3. accepted' = accepted \cup {index} /\ UNCHANGED <<srtcpIndex, garbage>>
      BY <1>2 DEF UnprotectCtrl
    <2> QED
      BY <2>1, <2>2, <2>3
  <1>3. CASE UNCHANGED vars
    BY <1>3 DEF vars
  <1> QED
    BY <1>1, <1>2, <1>3 DEF Next

LEMMA Invariance == Spec => []Inv
  BY InitInv, NextInv, PTL DEF Spec

-----------------------------------------------------------------------------

\* s_l is the highest index that unprotectCtrl has passed on, or still what the
\* constructor left there, for every such value and every order of packets.
THEOREM HighestKeptHolds == Spec => []HighestKept
  <1>1. Inv => HighestKept
    BY DEF Inv
  <1> QED
    BY <1>1, Invariance, PTL

\* checkReplay refuses the highest packet that was accepted, also after a shift
\* whose result C++ leaves undefined.
THEOREM HighestNotReplayedHolds == Spec => []HighestNotReplayed
  <1>1. ASSUME Inv, s_l \in accepted PROVE ~CheckReplay(s_l)
    <2>1. Delta(s_l) = 0
      BY <1>1, DeltaZero DEF Inv, Types
    <2>2. 0 \in replay_window
      BY <1>1 DEF Inv, Marked
    <2> QED
      BY <2>1, <2>2 DEF CheckReplay
  <1>2. Inv => HighestNotReplayed
    BY <1>1 DEF HighestNotReplayed
  <1> QED
    BY <1>2, Invariance, PTL

\* checkReplay takes no packet of the last WordSize ones for a replay that it has not
\* passed on before, the one apart whose index is the uninitialised s_l.
THEOREM FreshAcceptedHolds == Spec => []FreshAccepted
  <1>1. ASSUME Inv, NEW index \in 0..(srtcpIndex - 1), index \notin accepted, index # garbage,
               s_l - index < WordSize
        PROVE  CheckReplay(index)
    <2>1. index # s_l
      BY <1>1 DEF Inv, HighestKept
    <2>2. index \in 0..(UintMod - 1) /\ s_l \in 0..(UintMod - 1)
      BY <1>1, UintModType, CtrlConstants DEF Inv, Types
    <2> QED
      BY <2>1, <2>2, DeltaZero DEF CheckReplay
  <1>2. Inv => FreshAccepted
    BY <1>1 DEF FreshAccepted
  <1> QED
    BY <1>2, Invariance, PTL
=============================================================================
