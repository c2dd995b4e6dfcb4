---------------------------- MODULE SrtcpReplay ----------------------------
(***************************************************************************)
(* The packet index of SRTCP: SrtpHandler::protectCtrl and unprotectCtrl,   *)
(* CryptoContextCtrl::checkReplay and update.  The index travels in the      *)
(* packet, so there is nothing to guess.                                     *)
(*                                                                         *)
(* Three things of the code matter.  index and s_l are unsigned 32 bit       *)
(* numbers, and their difference is taken as such before it is widened to    *)
(* int64_t, so that it is never negative.  The constructor does not           *)
(* initialise s_l.  And the 64 bit register may be shifted by more than its   *)
(* width, with a result that C++ leaves undefined.                            *)
(***************************************************************************)
EXTENDS Integers

CONSTANTS
    IndexMod,    \* packet indices                      (2^31)
    WordSize,    \* bits of the replay window           (64)
    MaxSent      \* bound: packets sent

ASSUME CtrlConstants ==
    IndexMod \in Nat \ {0} /\ WordSize \in Nat \ {0} /\ MaxSent \in 0..(IndexMod - 1)

UintMod == 2 * IndexMod           \* 2^32
Window  == 2 * WordSize           \* REPLAY_WINDOW_SIZE
Bits    == 0..(WordSize - 1)

VARIABLES
    srtcpIndex,      \* the sender's next index
    s_l,             \* the receiver's highest index
    replay_window,   \* its register, as the set of its one bits
    accepted,        \* indices of the packets unprotectCtrl has passed on
    garbage          \* what s_l held before the constructor ran

vars == <<srtcpIndex, s_l, replay_window, accepted, garbage>>

Init ==
    /\ srtcpIndex = 0 /\ replay_window = {} /\ accepted = {}
    /\ garbage \in 0..(UintMod - 1) /\ s_l = garbage

-----------------------------------------------------------------------------

\* protectCtrl: the index goes into the packet, then counts up modulo 2^31.
ProtectCtrl ==
    /\ srtcpIndex < MaxSent
    /\ srtcpIndex' = (srtcpIndex + 1) % IndexMod
    /\ UNCHANGED <<s_l, replay_window, accepted, garbage>>

\* int64_t delta = index - s_l
Delta(index) == (index - s_l) % UintMod

\* Mutant of CheckReplay: packets that were overtaken are too old.
CheckReplayNewer(index) == index > s_l

CheckReplay(index) ==
    \/ Delta(index) > 0
    \/ -Delta(index) < Window /\ -Delta(index) \notin replay_window

\* Mutants of Update: the new packet is not marked; the E flag is not removed.
UpdateUnmarked(index) ==
    /\ replay_window' = {b \in Bits : b - Delta(index) \in replay_window}
    /\ s_l' = IF index > s_l THEN index ELSE s_l

UpdateFlagged(index) ==
    /\ replay_window' = {b \in Bits : b - Delta(index) \in replay_window} \cup {0}
    /\ s_l' = IF index + IndexMod > s_l THEN index + IndexMod ELSE s_l

Update(index) ==
    /\ IF Delta(index) < WordSize
       THEN replay_window' = {b \in Bits : b - Delta(index) \in replay_window} \cup {0}
       ELSE \E shifted \in SUBSET Bits : replay_window' = shifted \cup {0}
    /\ s_l' = IF index > s_l THEN index ELSE s_l

\* unprotectCtrl for a packet that was sent; others fail the authentication and
\* change nothing.
UnprotectCtrl(index) ==
    /\ CheckReplay(index) /\ Update(index)
    /\ accepted' = accepted \cup {index}
    /\ UNCHANGED <<srtcpIndex, garbage>>

Next ==
    \/ ProtectCtrl
    \/ \E index \in 0..(srtcpIndex - 1) : UnprotectCtrl(index)

Spec == Init /\ [][Next]_vars

-----------------------------------------------------------------------------
(* Properties.                                                               *)

\* The highest index of an accepted packet is not accepted again; this is all that
\* remains of the replay check.
HighestNotReplayed == s_l \in accepted => ~CheckReplay(s_l)

\* s_l is the highest index accepted, or still what the constructor left there.
HighestKept ==
    /\ s_l \in accepted \cup {garbage}
    /\ \A index \in accepted : index <= s_l

\* A packet of the last WordSize ones (the "64 packet history" of checkReplay) that
\* was not accepted before is not taken for a replay, except the one whose index is
\* the uninitialised s_l.  Of older packets nothing is said: the documentation of
\* checkReplay has them refused, the unsigned difference lets them pass.
FreshAccepted ==
    \A index \in 0..(srtcpIndex - 1) :
        index \notin accepted /\ index # garbage /\ s_l - index < WordSize => CheckReplay(index)
=============================================================================
