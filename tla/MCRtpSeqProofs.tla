--------------------------- MODULE MCRtpSeqProofs ---------------------------
(***************************************************************************)
(* What MCRtpSeq checks on a circle of 11 numbers holds on every circle,   *)
(* for every window that fits it and every number of slots.                *)
(***************************************************************************)
EXTENDS MCRtpSeq, RtpSeqProofs

\* The walk stays on the circle.
OnCircle == probe \in SeqNums /\ base \in SeqNums /\ size \in 0..(SEQ_MAX + 1)

LEMMA AlwaysOnCircle == Spec => []OnCircle
<1>1. Init => OnCircle
  BY DEF Init, OnCircle
<1>2. OnCircle /\ [Slide]_vars => OnCircle'
  <2>1. OnCircle /\ Slide => OnCircle'
    BY NextSeqType DEF OnCircle, Slide
  <2>2. OnCircle /\ UNCHANGED vars => OnCircle'
    BY DEF OnCircle, vars
  <2> QED BY <2>1, <2>2
<1> QED BY <1>1, <1>2, PTL DEF Spec

(* The two branches of in_window are one test of circular distance, on     *)
(* whatever side of the wrap the window lies (sender.c:71-77,              *)
(* receiver.c:61-67).                                                      *)
THEOREM AlwaysCircular == Spec => []InWindowIsCircular
<1>1. OnCircle => InWindowIsCircular
  BY InWindowOffset DEF OnCircle, InWindowIsCircular
<1> QED BY <1>1, AlwaysOnCircle, PTL

(* No two packets of a slot-safe window share a slot (sender.c:27,         *)
(* receiver.c:19).                                                         *)
THEOREM AlwaysDistinctSlots == Spec => []SafeWindowsHaveDistinctSlots
<1>1. OnCircle => SafeWindowsHaveDistinctSlots
  <2> SUFFICES ASSUME OnCircle, SlotSafe(base, size), NEW s \in SeqNums, NEW t \in SeqNums,
                      in_window(s, base, size), in_window(t, base, size), Slot(s) = Slot(t)
               PROVE  s = t
    BY DEF SafeWindowsHaveDistinctSlots
  <2>1. Offset(base, s) < size /\ Offset(base, t) < size
    BY InWindowOffset DEF OnCircle
  <2> QED BY <2>1, SafeSlotsDistinct DEF OnCircle
<1> QED BY <1>1, AlwaysOnCircle, PTL

(* A window's step over next_seq drops its base and takes in one number at *)
(* its end (sender.c:64-69, 324, 542; receiver.c:224).                     *)
THEOREM SlideAlwaysDropsBase == Spec => SlideDropsOnlyBase
<1> DEFINE Step ==
      size <= SEQ_MAX =>
        /\ in_window(probe, base, size) /\ ~in_window(probe, base', size) => probe = base
        /\ ~in_window(probe, base, size) /\ in_window(probe, base', size)
             => Offset(base, probe) = size
<1>1. ASSUME OnCircle, Slide PROVE Step
  <2> SUFFICES ASSUME size <= SEQ_MAX PROVE Step
    OBVIOUS
  <2>1. /\ probe \in SeqNums /\ base \in SeqNums /\ base' = next_seq(base) /\ base' \in SeqNums
        /\ size \in 0..(SEQ_MAX + 1)
    BY <1>1, NextSeqType DEF OnCircle, Slide
  <2>2. in_window(probe, base, size) <=> Offset(base, probe) < size
    BY <2>1, InWindowOffset
  <2>3. in_window(probe, base', size) <=> Offset(base', probe) < size
    BY <2>1, InWindowOffset
  <2>4. IF probe = base THEN Offset(base', probe) = SEQ_MAX
                        ELSE Offset(base', probe) = Offset(base, probe) - 1
    BY <2>1, SeqMaxAssumption DEF next_seq, Offset, SeqNums
  <2>5. Offset(base, probe) \in Int /\ (probe = base => Offset(base, probe) = 0)
    BY <2>1, OffsetType, OffsetSelf
  <2> QED BY <2>1, <2>2, <2>3, <2>4, <2>5, SeqMaxAssumption
<1>2. OnCircle /\ [Slide]_vars => [Step]_vars
  BY <1>1
<1> QED BY <1>2, AlwaysOnCircle, PTL DEF Spec, SlideDropsOnlyBase
=============================================================================
