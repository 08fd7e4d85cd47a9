------------------------------- MODULE RtpSeq -------------------------------
(***************************************************************************)
(* Circular sequence numbers of the RTP transport of lab2.  sender.c and   *)
(* receiver.c carry the same next_seq and in_window; both keep packets in  *)
(* an array of MAX_WINDOW_SIZE slots indexed by sequence number.           *)
(*                                                                         *)
(* The C code computes base + window_size in an int: SEQ_MAX is chosen     *)
(* ("IntMax - 20000") so that this cannot overflow for a window of at most *)
(* 20000 packets, and the integers below need no width.                    *)
(***************************************************************************)
EXTENDS Integers

CONSTANTS
  SEQ_MAX,          \* the largest sequence number, 2147463647 in the code
  MAX_WINDOW_SIZE   \* slots of the packet arrays, 20001 in the code

ASSUME SeqMaxAssumption == SEQ_MAX \in Nat \ {0}
ASSUME SlotsAssumption  == MAX_WINDOW_SIZE \in Nat \ {0}

SeqNums == 0..SEQ_MAX

next_seq(seq) == IF seq = SEQ_MAX THEN 0 ELSE seq + 1

\* Mutant: the wrapped end of the window is reduced modulo SEQ_MAX.
in_window_short_modulus(seq, base, window_size) ==
  IF base + window_size <= SEQ_MAX
  THEN seq >= base /\ seq < base + window_size
  ELSE \/ seq >= base /\ seq <= SEQ_MAX
       \/ seq >= 0 /\ seq < (base + window_size) % SEQ_MAX

\* Mutant: the window is one packet too long at its upper end.
in_window_inclusive(seq, base, window_size) ==
  IF base + window_size <= SEQ_MAX
  THEN seq >= base /\ seq <= base + window_size
  ELSE \/ seq >= base /\ seq <= SEQ_MAX
       \/ seq >= 0 /\ seq < (base + window_size) % (SEQ_MAX + 1)

\* seq is one of the window_size numbers that start at base.
in_window(seq, base, window_size) ==
  IF base + window_size <= SEQ_MAX
  THEN seq >= base /\ seq < base + window_size
  ELSE \/ seq >= base /\ seq <= SEQ_MAX
       \/ seq >= 0 /\ seq < (base + window_size) % (SEQ_MAX + 1)

\* Mutant: one slot too few, so two packets a full window apart collide.
SlotOfSmallerRing(seq) ==
  IF MAX_WINDOW_SIZE = 1 THEN 0 ELSE seq % (MAX_WINDOW_SIZE - 1)

\* The array slot that holds packet seq.
Slot(seq) == seq % MAX_WINDOW_SIZE

Slots == 0..(MAX_WINDOW_SIZE - 1)

\* How many next_seq steps lead from one number to another.
Offset(from, to) == IF to >= from THEN to - from ELSE to + SEQ_MAX + 1 - from

\* The numbers a loop "for (s = from; s != to; s = next_seq(s))" visits.
SeqRange(from, to) == {s \in SeqNums : Offset(from, s) < Offset(from, to)}

-----------------------------------------------------------------------------
(* The packets of a window have slots of their own when the window is no   *)
(* longer than the array and either does not run over SEQ_MAX or is no     *)
(* longer than what is left of the last lap of the array before SEQ_MAX:   *)
(* 2147463648 % 20001 = 16281, so a window of 20000 is unsafe there.       *)

LastLap == (SEQ_MAX + 1) % MAX_WINDOW_SIZE

SlotSafe(base, window_size) ==
  /\ window_size <= MAX_WINDOW_SIZE
  /\ \/ base + window_size <= SEQ_MAX + 1
     \/ LastLap = 0
     \/ window_size <= LastLap
=============================================================================
