-------------------------- MODULE RtpTransferProofs --------------------------
(***************************************************************************)
(* What the proofs about both modes of the RTP transport rest on: facts    *)
(* about positions in the file, packets, channels and the events of        *)
(* epoll_wait.                                                             *)
(***************************************************************************)
EXTENDS RtpTransfer, RtpSeqProofs, SequenceTheorems

Closing == spc \in {"fin", "finwait", "ok", "failed"}

EndOfFile == input_eof => fpos = N \/ "read" \in Faults

-----------------------------------------------------------------------------
(* Positions in the file.                                                  *)
LEMMA PosFacts ==
  /\ ISN \in SeqNums /\ ISN - 1 \in SeqNums
  /\ \A s \in SeqNums : Pos(s) \in 0..SEQ_MAX /\ next_seq(s) \in SeqNums
  /\ \A s \in SeqNums : Pos(s) < SEQ_MAX => Pos(next_seq(s)) = Pos(s) + 1
  /\ \A s, t \in SeqNums : Pos(s) = Pos(t) => s = t
  /\ Pos(ISN) = 0
<1>1. ISN \in SeqNums /\ ISN - 1 \in SeqNums
  BY IsnAssumption, SeqMaxAssumption DEF SeqNums
<1> QED BY <1>1, OffsetType, OffsetSelf, OffsetInjective, NextSeqType, NextSeqOffset DEF Pos

LEMMA WindowPos ==
  ASSUME NEW s \in SeqNums, NEW b \in SeqNums, Pos(b) + WS <= SEQ_MAX + 1
  PROVE  in_window(s, b, WS) <=> Pos(b) <= Pos(s) /\ Pos(s) < Pos(b) + WS
BY WindowAssumption, IsnAssumption, InWindowInterval DEF Pos

LEMMA ConstantFacts ==
  /\ SEQ_MAX \in Nat \ {0} /\ N \in Nat /\ WS \in Nat \ {0} /\ MAXTRY \in Nat
  /\ N + WS <= SEQ_MAX
BY SeqMaxAssumption, SizeAssumption, WindowAssumption, TriesAssumption, NoReuseAssumption

LEMMA PacketTypes ==
  /\ \A s \in SeqNums : Ack(s) \in PacketType /\ Fin(s) \in PacketType /\ FinAck(s) \in PacketType
  /\ \A s \in SeqNums, c \in 1..N : DataPacket(s, c) \in PacketType
  /\ Garbled \in PacketType
  /\ StaleToReceiver \subseteq PacketType /\ StaleToSender(0) \subseteq PacketType
BY PosFacts, ConstantFacts
   DEF Ack, Fin, FinAck, DataPacket, Packet, PacketType, Garbled, StaleToReceiver, StaleToSender, Syn, SynAck, SeqNums

LEMMA DeliveryLeaves ==
  ASSUME NEW c, NEW p, NEW rest \in AfterDelivery(c, p)
  PROVE  rest \subseteq c
BY DEF AfterDelivery

-----------------------------------------------------------------------------
(* The events of a batch are handled one by one (sender.c:343-424,         *)
(* 487-557).                                                               *)
LEMMA PollTyped ==
  ASSUME PollEvents
  PROVE  /\ events' \in Seq({"timer", "socket"}) /\ Len(events') \in 0..2
         /\ events' # <<>> /\ spc' = "events"
<1> DEFINE E == {"timer", "socket"}
<1>1. /\ spc' = "events"
      /\ events' \in {<<"timer">>, <<"socket">>, <<"timer", "socket">>, <<"socket", "timer">>}
  BY DEF PollEvents
<1>2. events' \in Seq(E) /\ Len(events') \in 0..2 /\ Len(events') # 0
  <2>1. CASE events' = <<"timer">>
    BY <2>1
  <2>2. CASE events' = <<"socket">>
    BY <2>2
  <2>3. CASE events' = <<"timer", "socket">>
    BY <2>3
  <2>4. CASE events' = <<"socket", "timer">>
    BY <2>4
  <2> QED BY <1>1, <2>1, <2>2, <2>3, <2>4
<1>3. events' # <<>>
  BY <1>2, EmptySeq
<1> QED BY <1>1, <1>2, <1>3

LEMMA NextEventTyped ==
  ASSUME events \in Seq({"timer", "socket"}), Len(events) \in 0..2, events # <<>>,
         NextEvent
  PROVE  /\ events' \in Seq({"timer", "socket"}) /\ Len(events') \in 0..2
         /\ spc' \in {"fill", "events"}
         /\ spc' = "events" <=> events' # <<>>
<1> DEFINE E == {"timer", "socket"}
           n == Len(events)
<1>1. n \in 1..2
  BY EmptySeq
<1>2. Tail(events) \in Seq(E) /\ Len(Tail(events)) = n - 1
  BY HeadTailProperties
<1>3. /\ events' = Tail(events)
      /\ n = 1 => spc' = "fill"
      /\ n # 1 => spc' = "events"
  BY DEF NextEvent
<1> HIDE DEF n
<1>4. Len(events') \in 0..2 /\ (n = 1 <=> Len(events') = 0)
  BY <1>1, <1>2, <1>3
<1>5. events' \in Seq(E)
  BY <1>2, <1>3
<1>6. events' = <<>> <=> Len(events') = 0
  BY <1>5, EmptySeq
<1> QED BY <1>3, <1>4, <1>5, <1>6

-----------------------------------------------------------------------------
(* The slots of the window buffer suffice when the window is no longer     *)
(* than the buffer and the numbers do not wrap round during the transfer,  *)
(* or wrap round where the window still fits.                              *)
SlotsSuffice ==
  /\ WS <= MAX_WINDOW_SIZE
  /\ \/ ISN + N + WS <= SEQ_MAX + 1
     \/ LastLap = 0
     \/ WS <= LastLap

LEMMA NewSlotIsFree ==
  ASSUME SlotsSuffice, base \in SeqNums, nextseqnum \in SeqNums, Pos(base) <= N,
         in_window(nextseqnum, base, WS), NEW s \in SeqRange(base, nextseqnum)
  PROVE  Slot(s) # Slot(nextseqnum)
<1>1. /\ s \in SeqNums /\ Pos(base) \in 0..N
      /\ WS \in 0..(SEQ_MAX + 1) /\ Offset(base, s) < Offset(base, nextseqnum)
  BY PosFacts, ConstantFacts DEF SeqRange
<1>2. Offset(base, nextseqnum) < WS
  BY <1>1, InWindowOffset
<1>3. Offset(base, s) < WS /\ s # nextseqnum
  <2>1. Offset(base, s) \in 0..SEQ_MAX /\ Offset(base, nextseqnum) \in 0..SEQ_MAX
    BY <1>1, OffsetType
  <2> QED BY <1>1, <1>2, <2>1, ConstantFacts
<1>4. SlotSafe(base, WS)
  BY <1>1, IsnAssumption, ConstantFacts DEF SlotsSuffice, SlotSafe, Pos, Offset, SeqNums
<1> QED BY <1>1, <1>2, <1>3, <1>4, SafeSlotsDistinct

(* A chunk that is read goes to a slot that no outstanding packet has, the *)
(* slot's packet of an earlier lap being acknowledged by then              *)
(* (sender.c:302-319, 445-462).                                            *)
HeldInSlots(from, to, slots) ==
  \A s \in SeqRange(from, to) : slots[Slot(s)] = DataPacket(s, Pos(s) + 1)

LEMMA FillKeepsSlots ==
  ASSUME SlotsSuffice, base \in SeqNums, nextseqnum \in SeqNums,
         window = [t \in Slots |-> window[t]], fpos = Pos(nextseqnum),
         Pos(base) <= Pos(nextseqnum), FillChunk,
         HeldInSlots(base, nextseqnum, window)
  PROVE  HeldInSlots(base', nextseqnum', window')
<1>1. /\ UNCHANGED base /\ nextseqnum' = next_seq(nextseqnum) /\ fpos < N
      /\ in_window(nextseqnum, base, WS)
      /\ window' = [window EXCEPT ![Slot(nextseqnum)] = DataPacket(nextseqnum, fpos + 1)]
  BY DEF FillChunk
<1>2. /\ Pos(base) \in 0..N /\ Pos(nextseqnum) \in 0..N /\ N < SEQ_MAX
  BY <1>1, PosFacts, ConstantFacts
<1>3. nextseqnum' \in SeqNums /\ Pos(nextseqnum') = Pos(nextseqnum) + 1
  BY <1>1, <1>2, PosFacts, ConstantFacts
<1> SUFFICES ASSUME NEW s \in SeqRange(base, nextseqnum')
             PROVE  window'[Slot(s)] = DataPacket(s, Pos(s) + 1)
  BY <1>1 DEF HeldInSlots
<1>4. s \in SeqNums /\ (s \in SeqRange(base, nextseqnum) \/ s = nextseqnum)
  <2>1. s \in SeqNums
    BY DEF SeqRange
  <2>2. Pos(base) <= Pos(s) /\ Pos(s) < Pos(nextseqnum) + 1
    BY SMTT(30), <1>2, <1>3, <2>1, PosFacts, SeqRangeInterval DEF Pos
  <2>3. Pos(s) < Pos(nextseqnum) \/ Pos(s) = Pos(nextseqnum)
    BY <1>2, <2>1, <2>2, PosFacts
  <2> QED BY <2>1, <2>2, <2>3, PosFacts, SeqRangeInterval DEF Pos
<1>5. CASE s = nextseqnum
  BY <1>1, <1>5, SlotType
<1>6. CASE s \in SeqRange(base, nextseqnum)
  <2>1. Slot(s) # Slot(nextseqnum) /\ Slot(s) \in Slots
    BY <1>1, <1>2, <1>4, <1>6, NewSlotIsFree, SlotType
  <2> QED BY <1>1, <1>6, <2>1 DEF HeldInSlots
<1> QED BY <1>4, <1>5, <1>6
=============================================================================
