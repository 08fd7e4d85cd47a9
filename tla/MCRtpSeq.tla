------------------------------ MODULE MCRtpSeq ------------------------------
(* A window of every size slides once and more round the number circle,    *)
(* with a probe at every number: the operators of RtpSeq against what they *)
(* are meant to compute.                                                   *)
EXTENDS RtpSeq

VARIABLES probe, base, size

vars == <<probe, base, size>>

Init == probe \in SeqNums /\ base \in SeqNums /\ size \in 0..(SEQ_MAX + 1)

Slide == base' = next_seq(base) /\ UNCHANGED <<probe, size>>

Spec == Init /\ [][Slide]_vars

(* in_window tests circular distance from base, whatever the wrap-around:  *)
(* the reference definition of the two branches at sender.c:71-77.         *)
InWindowIsCircular == in_window(probe, base, size) <=> Offset(base, probe) < size

(* The packets of a slot-safe window never share an array slot, so the     *)
(* ring buffers of sender.c:27 and receiver.c:19 keep them all.            *)
SafeWindowsHaveDistinctSlots ==
  SlotSafe(base, size) =>
    \A s, t \in SeqNums :
      in_window(s, base, size) /\ in_window(t, base, size) /\ Slot(s) = Slot(t) => s = t

(* Moving base by one next_seq drops exactly the old base from a window    *)
(* (unless the window is the whole circle) and adds one number at its end. *)
SlideDropsOnlyBase ==
  [][size <= SEQ_MAX =>
       /\ in_window(probe, base, size) /\ ~in_window(probe, base', size) => probe = base
       /\ ~in_window(probe, base, size) /\ in_window(probe, base', size)
            => Offset(base, probe) = size]_vars
=============================================================================
