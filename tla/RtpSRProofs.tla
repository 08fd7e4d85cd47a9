---------------------------- MODULE RtpSRProofs ----------------------------
(***************************************************************************)
(* Theorems about mode 1 of the RTP transport, for every file shorter than *)
(* the packet arrays, every window, first number and combination of        *)
(* faults.  SROutstandingAlwaysKept also covers a ring used more than once;*)
(* the others assume RingNeverReused.                                      *)
(***************************************************************************)
EXTENDS RtpSR, RtpTransferProofs

(* What the theorems assume.  No copy of a handshake packet is under way   *)
(* (the run sr_stale_handshake shows what one does); every number of the   *)
(* transfer, that of the FIN included, has a slot of its own, so that no   *)
(* mark is left from a number that used the slot before (the run           *)
(* sr_stale_mark shows what one does); and the receiver's window does not  *)
(* reach round the circle to the first number.                             *)
RingNeverReused ==
  /\ ~StaleHandshake
  /\ SlotSafe(ISN, N + 1)
  /\ N + WR <= SEQ_MAX + 1

\* The numbers of the chunks and of the FIN.
Numbers == {s \in SeqNums : Pos(s) <= N}

\* The receiver has written packet s or holds it in its window.
Kept(s) ==
  \/ Pos(s) < Pos(cursor)
  \/ racked[Slot(s)] /\ rwindow[Slot(s)] = DataPacket(s, Pos(s) + 1)

\* The receiver may have acknowledged s: the packet that started the write
\* loop is answered only after the loop.
Answered(s) == Kept(s) /\ s # expected

(* What the packets under way can be: data is what fread returned, a FIN   *)
(* carries the number after the last chunk, an ACK answers a packet the    *)
(* receiver keeps, a FIN+ACK follows its completion.                       *)
GenuineToReceiver ==
  {p \in PacketType : p.intact =>
     \/ p.flags = {} /\ p.chunk = Pos(p.seq) + 1 /\ p.chunk <= fpos
     \/ p.flags = {"FIN"} /\ Closing /\ p.seq = nextseqnum}

GenuineToSender ==
  {p \in PacketType : p.intact =>
     IF "FIN" \in p.flags THEN ReceiverComplete ELSE Answered(p.seq)}

Genuine ==
  /\ toReceiver \subseteq GenuineToReceiver
  /\ toSender \subseteq GenuineToSender

(* The ends agree on how far the transfer is: the write loop's cursor is   *)
(* ahead of the receiver's base only inside the loop, or where it failed.  *)
Counts ==
  /\ fpos = Pos(nextseqnum)
  /\ written = FirstChunks(Pos(cursor))
  /\ Pos(expected) <= Pos(cursor) /\ Pos(cursor) <= Pos(nextseqnum)
  /\ rpc \notin {"write", "failed"} => cursor = expected

(* The sender's arrays: every chunk sent is in its slot, and a mark stands *)
(* for an answer of the receiver.                                          *)
SenderRing ==
  \A s \in Numbers :
    /\ Pos(s) < fpos => window[Slot(s)] = DataPacket(s, Pos(s) + 1)
    /\ acked[Slot(s)] => Answered(s)

(* The receiver's arrays: a marked slot holds a packet that is still to be *)
(* written; the expected one's slot is taken only by the write loop.       *)
ReceiverRing ==
  /\ rpc = "data" => ~racked[Slot(expected)]
  /\ rpc = "write" => cursor # expected \/ racked[Slot(expected)]
  /\ \A t \in Slots : racked[t] =>
       LET s == rwindow[t].seq IN
         /\ Slot(s) = t /\ rwindow[t] = DataPacket(s, Pos(s) + 1)
         /\ Pos(cursor) <= Pos(s) /\ Pos(s) < fpos

Endings ==
  /\ Closing => input_eof /\ base = nextseqnum
  /\ ReceiverComplete => Closing /\ expected = nextseqnum
  /\ spc = "ok" => ReceiverComplete
  /\ spc = "finwait" => tries < MAXTRY

(* The inductive invariant behind the theorems.                            *)
IInv ==
  /\ TypeOK
  /\ WindowsAgree
  /\ TimerCoversWindow
  /\ Genuine
  /\ Counts
  /\ SenderRing
  /\ ReceiverRing
  /\ EndOfFile
  /\ Endings

-----------------------------------------------------------------------------
(* The array slots of the transfer's numbers.                              *)
LEMMA SlotsDistinct ==
  ASSUME RingNeverReused, NEW s \in Numbers, NEW t \in Numbers, Slot(s) = Slot(t)
  PROVE  s = t
<1>1. /\ ISN \in SeqNums /\ N + 1 \in 0..(SEQ_MAX + 1) /\ SlotSafe(ISN, N + 1)
      /\ s \in SeqNums /\ t \in SeqNums
  BY PosFacts, ConstantFacts DEF RingNeverReused, Numbers
<1>2. Offset(ISN, s) < N + 1 /\ Offset(ISN, t) < N + 1
  <2>1. Pos(s) \in Int /\ Pos(t) \in Int /\ Pos(s) <= N /\ Pos(t) <= N /\ N \in Nat
    BY PosFacts, ConstantFacts DEF Numbers
  <2> QED BY <2>1 DEF Pos
<1> QED BY <1>1, <1>2, SafeSlotsDistinct

LEMMA ReceiverWindowPos ==
  ASSUME RingNeverReused, NEW s \in SeqNums, NEW b \in SeqNums, Pos(b) <= N
  PROVE  in_window(s, b, WR) <=> Pos(b) <= Pos(s) /\ Pos(s) < Pos(b) + WR
<1>1. WR \in Nat /\ Offset(ISN, b) + WR <= SEQ_MAX + 1 /\ ISN \in SeqNums
  BY ReceiverWindowAssumption, PosFacts, ConstantFacts DEF RingNeverReused, Pos
<1> QED BY <1>1, InWindowInterval DEF Pos

(* What IInv says of the counters, as numbers.                             *)
LEMMA CounterFacts ==
  ASSUME IInv
  PROVE  /\ base \in Numbers /\ nextseqnum \in Numbers
         /\ expected \in Numbers /\ cursor \in Numbers
         /\ fpos = Pos(nextseqnum) /\ fpos \in 0..N
         /\ Pos(base) \in 0..N /\ Pos(expected) \in 0..N /\ Pos(cursor) \in 0..N
         /\ Pos(base) <= Pos(expected) /\ Pos(expected) <= Pos(cursor)
         /\ Pos(cursor) <= Pos(nextseqnum) /\ Pos(nextseqnum) <= Pos(base) + WS
<1>1. /\ base \in SeqNums /\ nextseqnum \in SeqNums
      /\ expected \in SeqNums /\ cursor \in SeqNums /\ fpos \in 0..N
  BY DEF IInv, TypeOK, TransferTypeOK
<1>2. /\ fpos = Pos(nextseqnum)
      /\ Pos(base) <= Pos(expected) /\ Pos(expected) <= Pos(cursor)
      /\ Pos(cursor) <= Pos(nextseqnum) /\ Pos(nextseqnum) <= Pos(base) + WS
  BY DEF IInv, Counts, WindowsAgree
<1>3. /\ Pos(base) \in 0..SEQ_MAX /\ Pos(expected) \in 0..SEQ_MAX
      /\ Pos(cursor) \in 0..SEQ_MAX /\ Pos(nextseqnum) \in 0..SEQ_MAX
  BY <1>1, PosFacts
<1> QED BY <1>1, <1>2, <1>3, ConstantFacts DEF Numbers

(* What the receiver keeps has been sent.                                  *)
LEMMA KeptWasSent ==
  ASSUME IInv, NEW s \in SeqNums, Kept(s)
  PROVE  s \in Numbers /\ Pos(s) < fpos
<1>1. Pos(s) \in Int /\ Pos(s) >= 0 /\ fpos \in 0..N /\ Pos(cursor) <= fpos /\ Pos(cursor) \in Int
      /\ N \in Nat
  BY PosFacts, CounterFacts, ConstantFacts
<1>2. CASE Pos(s) < Pos(cursor)
  BY <1>1, <1>2 DEF Numbers
<1>3. CASE racked[Slot(s)] /\ rwindow[Slot(s)] = DataPacket(s, Pos(s) + 1)
  <2>1. rwindow[Slot(s)].seq = s
    BY <1>3 DEF DataPacket, Packet
  <2>2. Pos(s) < fpos
    BY <1>3, <2>1, SlotType DEF IInv, ReceiverRing
  <2> QED BY <1>1, <2>2 DEF Numbers
<1> QED BY <1>2, <1>3 DEF Kept

-----------------------------------------------------------------------------
LEMMA InitIInv == RingNeverReused /\ Init => IInv
<1> SUFFICES ASSUME RingNeverReused, Init PROVE IInv
  OBVIOUS
<1> USE DEF Init, TransferInit
<1>1. toReceiver = {} /\ toSender = {}
  BY DEF RingNeverReused
<1>2. TypeOK
  <2>1. toReceiver \subseteq PacketType /\ toSender \subseteq PacketType
    BY <1>1
  <2>2. /\ window \in [Slots -> PacketType] /\ rwindow \in [Slots -> PacketType]
        /\ acked \in [Slots -> BOOLEAN] /\ racked \in [Slots -> BOOLEAN]
    BY PacketTypes
  <2>3. events \in Seq({"timer", "socket"}) /\ Len(events) = 0 /\ written \in Seq(1..N)
        /\ events = <<>>
    OBVIOUS
  <2>4. /\ base \in SeqNums /\ nextseqnum \in SeqNums
        /\ expected \in SeqNums /\ cursor \in SeqNums
    BY PosFacts
  <2>5. fpos = 0 /\ tries = 0 /\ input_eof = FALSE /\ timer = "off"
        /\ spc = "fill" /\ rpc = "data"
    OBVIOUS
  <2> HIDE DEF Init, TransferInit
  <2>6. fpos \in 0..N /\ tries \in 0..MAXTRY /\ Len(events) \in 0..2
        /\ timer \in {"off", "armed", "expired"}
    BY <2>5, <2>3, ConstantFacts
  <2>7. input_eof \in BOOLEAN
    BY <2>5
  <2>8. TransferTypeOK
    BY <2>1, <2>2, <2>3, <2>4, <2>6, <2>7, Zenon DEF TransferTypeOK
  <2> QED BY <2>2, <2>3, <2>4, <2>5, <2>8 DEF TypeOK
<1>3. WindowsAgree /\ TimerCoversWindow
  BY PosFacts, ConstantFacts DEF WindowsAgree, TimerCoversWindow
<1>4. Genuine
  BY <1>1 DEF Genuine
<1>5. Counts
  BY PosFacts DEF Counts, FirstChunks
<1>6. SenderRing /\ ReceiverRing
  <2>1. \A s \in Numbers : Slot(s) \in Slots /\ ~(Pos(s) < 0)
    BY SlotType, PosFacts DEF Numbers
  <2>2. Slot(expected) \in Slots
    BY PosFacts, SlotType
  <2> QED BY <2>1, <2>2 DEF SenderRing, ReceiverRing
<1>7. EndOfFile /\ Endings
  BY DEF EndOfFile, Endings, Closing, ReceiverComplete
<1> QED BY <1>2, <1>3, <1>4, <1>5, <1>6, <1>7 DEF IInv

-----------------------------------------------------------------------------
(* Seven actions move the transfer forward; the others leave its numbers,  *)
(* its files and its four arrays alone, and only end the receiver's data   *)
(* loop.                                                                   *)
Still ==
  /\ UNCHANGED <<base, nextseqnum, fpos, window, acked, expected, written, ringVars>>
  /\ \/ UNCHANGED rpc
     \/ rpc' = "failed"
     \/ rpc \notin {"write", "failed"} /\ rpc' \notin {"data", "write"}

LEMMA WhoMoves ==
  ASSUME [Next]_vars
  PROVE  \/ Still
         \/ SRFillChunk \/ SRFillEnd \/ SweepStep \/ WriteStep \/ WriteEnd
         \/ \E p \in toSender : AckEvent(p)
         \/ \E p \in toReceiver : ReceiveFresh(p)
<1> USE DEF Still, transferVars, netVars, fileVars, senderVars, receiverVars, ringVars
<1>1. Stopped /\ UNCHANGED <<acked, ringVars>> => Still
  BY DEF Stopped
<1>2. (TimerEvent \/ SweepEnd) => Still
  BY DEF TimerEvent, HandleTimer, SweepEnd
<1>3. WriteFails => Still
  BY DEF WriteFails
<1>4. (\E p \in toReceiver : ReceiveFin(p) \/ ReceiveIgnored(p) \/ ReceiveOther(p)) => Still
  BY DEF ReceiveFin, ReceiveIgnored, ReceiveOther
<1>5. Shared => Still
  BY DEF Shared, SenderLoop, SenderClose, ReceiverClose, Network, FillNothing, PollEvents,
       PollTimeout, HandleNoPacket, TimerFires, StartClose, SendFin, FinTimeout,
       GiveUp, ReceiveFinAck, DataTimeout, SendFinAck, LingerTimeout, LingerReceive,
       Lose, Corrupt
<1>6. CASE UNCHANGED vars
  BY <1>6 DEF vars
<1> HIDE DEF Still, transferVars, netVars, fileVars, senderVars, receiverVars, ringVars
<1>7. CASE Next
  BY <1>1, <1>2, <1>3, <1>4, <1>5, <1>7 DEF Next, Receive, WriteLoop
<1> QED BY <1>6, <1>7

-----------------------------------------------------------------------------
(* A marked slot of the receiver holds the packet it belongs to.           *)
LEMMA RackedHolds ==
  ASSUME RingNeverReused, IInv, NEW s \in Numbers, racked[Slot(s)]
  PROVE  /\ rwindow[Slot(s)] = DataPacket(s, Pos(s) + 1)
         /\ Pos(cursor) <= Pos(s) /\ Pos(s) < fpos
<1> DEFINE u == rwindow[Slot(s)].seq
<1>1. s \in SeqNums /\ Slot(s) \in Slots
  BY SlotType DEF Numbers
<1>2. u \in SeqNums
  BY <1>1 DEF IInv, TypeOK, PacketType
<1>3. /\ Slot(u) = Slot(s) /\ rwindow[Slot(s)] = DataPacket(u, Pos(u) + 1)
      /\ Pos(cursor) <= Pos(u) /\ Pos(u) < fpos
  BY <1>1 DEF IInv, ReceiverRing
<1> HIDE DEF u
<1>4. u \in Numbers
  <2>1. Pos(u) \in Int /\ fpos \in Int /\ fpos <= N /\ N \in Int
    BY <1>2, PosFacts, CounterFacts, ConstantFacts
  <2> QED BY <1>2, <1>3, <2>1 DEF Numbers
<1>5. u = s
  BY <1>3, <1>4, SlotsDistinct
<1> QED BY <1>3, <1>5

Positions ==
  /\ base \in SeqNums /\ nextseqnum \in SeqNums
  /\ expected \in SeqNums /\ cursor \in SeqNums
  /\ fpos \in 0..N
  /\ written \in Seq(1..N)
  /\ Counts
  /\ WindowsAgree

LEMMA PositionsStep ==
  ASSUME RingNeverReused, IInv, [Next]_vars
  PROVE  Positions'
<1>1. /\ base \in SeqNums /\ nextseqnum \in SeqNums
      /\ expected \in SeqNums /\ cursor \in SeqNums
      /\ fpos \in 0..N /\ written \in Seq(1..N)
  BY DEF IInv, TypeOK, TransferTypeOK
<1>2. /\ fpos = Pos(nextseqnum) /\ written = FirstChunks(Pos(cursor))
      /\ Pos(base) <= Pos(expected) /\ Pos(expected) <= Pos(cursor)
      /\ Pos(cursor) <= Pos(nextseqnum) /\ Pos(nextseqnum) <= Pos(base) + WS
      /\ rpc \notin {"write", "failed"} => cursor = expected
  BY DEF IInv, Counts, WindowsAgree
<1>3. /\ Pos(base) \in 0..N /\ Pos(expected) \in 0..N /\ Pos(nextseqnum) \in 0..N
      /\ Pos(cursor) \in 0..N /\ N \in Nat /\ N < SEQ_MAX /\ WS \in Nat /\ SEQ_MAX \in Nat
      /\ Pos(base) + WS <= SEQ_MAX + 1
  BY CounterFacts, ConstantFacts
<1>4. CASE Still
  <2>1. /\ UNCHANGED <<base, nextseqnum, fpos, expected, written, cursor>>
        /\ rpc' \notin {"write", "failed"} => rpc \notin {"write", "failed"}
    BY <1>4 DEF Still, ringVars
  <2> QED BY <1>1, <1>2, <1>3, <2>1 DEF Positions, Counts, WindowsAgree, Pos
<1>5. CASE SRFillEnd \/ \E p \in toSender : AckEvent(p)
  <2>1. UNCHANGED <<base, nextseqnum, fpos, expected, written, cursor, rpc>>
    BY <1>5 DEF SRFillEnd, FillEnd, AckEvent, fileVars, receiverVars, ringVars
  <2> QED BY <1>1, <1>2, <1>3, <2>1 DEF Positions, Counts, WindowsAgree, Pos
<1>6. CASE SRFillChunk
  <2>1. /\ nextseqnum' = next_seq(nextseqnum) /\ fpos' = fpos + 1 /\ fpos < N
        /\ UNCHANGED <<base, expected, written, cursor, rpc>>
        /\ in_window(nextseqnum, base, WS)
    BY <1>6 DEF SRFillChunk, FillChunk, receiverVars, ringVars
  <2>2. nextseqnum' \in SeqNums /\ Pos(nextseqnum') = Pos(nextseqnum) + 1
    BY <1>1, <1>3, <2>1, PosFacts
  <2>3. Pos(nextseqnum) < Pos(base) + WS
    BY <1>1, <1>3, <2>1, WindowPos
  <2> HIDE DEF Pos
  <2> QED
    BY <1>1, <1>2, <1>3, <2>1, <2>2, <2>3 DEF Positions, Counts, WindowsAgree
<1>7. CASE SweepStep
  <2>1. /\ base' = next_seq(base) /\ acked[Slot(base)]
        /\ UNCHANGED <<nextseqnum, fpos, expected, written, cursor, rpc>>
    BY <1>7 DEF SweepStep, fileVars, receiverVars, ringVars
  <2>2. base # expected
    BY <2>1, CounterFacts DEF IInv, SenderRing, Answered
  <2>3. Pos(base) < Pos(expected)
    BY <1>1, <1>2, <1>3, <2>2, PosFacts
  <2>4. base' \in SeqNums /\ Pos(base') = Pos(base) + 1
    BY <1>1, <1>3, <2>1, PosFacts
  <2> QED BY <1>1, <1>2, <1>3, <2>1, <2>3, <2>4 DEF Positions, Counts, WindowsAgree
<1>8. CASE \E p \in toReceiver : ReceiveFresh(p)
  <2>1. /\ UNCHANGED <<base, nextseqnum, fpos, expected, written>>
        /\ rpc = "data" /\ (cursor' = cursor \/ cursor' = expected)
    BY <1>8 DEF ReceiveFresh, senderVars, fileVars
  <2>2. cursor' = cursor /\ cursor = expected
    BY <1>2, <2>1
  <2> QED BY <1>1, <1>2, <1>3, <2>1, <2>2 DEF Positions, Counts, WindowsAgree, Pos
<1>9. CASE WriteStep
  <2>1. /\ racked[Slot(cursor)] /\ rpc = "write"
        /\ written' = Append(written, rwindow[Slot(cursor)].chunk)
        /\ cursor' = next_seq(cursor)
        /\ UNCHANGED <<base, nextseqnum, fpos, expected, rpc>>
    BY <1>9 DEF WriteStep, senderVars, fileVars
  <2>2. rwindow[Slot(cursor)].chunk = Pos(cursor) + 1 /\ Pos(cursor) < fpos
    <3>1. rwindow[Slot(cursor)] = DataPacket(cursor, Pos(cursor) + 1) /\ Pos(cursor) < fpos
      BY <2>1, CounterFacts, RackedHolds
    <3> QED BY <3>1 DEF DataPacket, Packet
  <2>3. cursor' \in SeqNums /\ Pos(cursor') = Pos(cursor) + 1
    BY <1>1, <1>3, <2>1, PosFacts
  <2>4. written' = FirstChunks(Pos(cursor) + 1)
    BY <1>2, <1>3, <2>1, <2>2 DEF FirstChunks
  <2>5. written' \in Seq(1..N)
    <3>1. rwindow[Slot(cursor)].chunk \in 1..N
      BY <1>1, <1>3, <2>2
    <3> QED BY <1>1, <2>1, <3>1
  <2> QED
    BY <1>1, <1>2, <1>3, <2>1, <2>2, <2>3, <2>4, <2>5 DEF Positions, Counts, WindowsAgree
<1>10. CASE WriteEnd
  <2>1. /\ expected' = cursor
        /\ UNCHANGED <<base, nextseqnum, fpos, written, cursor>>
    BY <1>10 DEF WriteEnd, senderVars, fileVars, ringVars
  <2> QED BY <1>1, <1>2, <1>3, <2>1 DEF Positions, Counts, WindowsAgree, Pos
<1> QED BY <1>4, <1>5, <1>6, <1>7, <1>8, <1>9, <1>10, WhoMoves

-----------------------------------------------------------------------------
(* Neither end goes back: what a packet under way may be only grows.       *)
LEMMA AnsweredStays ==
  ASSUME RingNeverReused, IInv, [Next]_vars, NEW s \in SeqNums, Answered(s)
  PROVE  Answered(s)'
<1>1. /\ cursor \in Numbers /\ s \in Numbers /\ s # expected
      /\ Slot(s) \in Slots /\ Slot(cursor) \in Slots
      /\ Pos(s) \in Int /\ Pos(cursor) \in Int /\ Pos(cursor) < SEQ_MAX
  BY CounterFacts, KeptWasSent, PosFacts, SlotType, ConstantFacts DEF Answered, Numbers
<1>2. Pos(s) < Pos(cursor) \/ (racked[Slot(s)] /\ rwindow[Slot(s)] = DataPacket(s, Pos(s) + 1))
  BY DEF Answered, Kept
<1>3. racked \in [Slots -> BOOLEAN] /\ rwindow \in [Slots -> PacketType]
  BY DEF IInv, TypeOK
<1>4. CASE UNCHANGED <<expected, cursor, racked, rwindow>>
  BY <1>1, <1>2, <1>4 DEF Answered, Kept, Pos
<1>5. ASSUME NEW p \in toReceiver, ReceiveFresh(p) PROVE Answered(s)'
  <2>1. /\ ~racked[Slot(p.seq)] /\ expected' = expected
        /\ racked' = [racked EXCEPT ![Slot(p.seq)] = TRUE]
        /\ rwindow' = [rwindow EXCEPT ![Slot(p.seq)] = p]
    BY <1>5 DEF ReceiveFresh, IsFresh
  <2>2. cursor' = cursor
    BY <1>5 DEF ReceiveFresh, IInv, Counts
  <2>3. CASE Pos(s) < Pos(cursor)
    BY <1>1, <2>1, <2>2, <2>3 DEF Answered, Kept
  <2>4. CASE racked[Slot(s)] /\ rwindow[Slot(s)] = DataPacket(s, Pos(s) + 1)
    <3>1. racked'[Slot(s)] /\ rwindow'[Slot(s)] = rwindow[Slot(s)]
      BY <1>1, <1>3, <2>1, <2>4
    <3> QED BY <1>1, <2>1, <2>4, <3>1 DEF Answered, Kept
  <2> QED BY <1>2, <2>3, <2>4
<1>6. CASE WriteStep
  <2>1. /\ cursor' = next_seq(cursor) /\ UNCHANGED <<expected, rwindow>>
        /\ racked' = [racked EXCEPT ![Slot(cursor)] = FALSE]
    BY <1>6 DEF WriteStep
  <2>2. Pos(cursor') = Pos(cursor) + 1
    BY <1>1, <2>1, PosFacts DEF Numbers
  <2>3. CASE Pos(s) < Pos(cursor) \/ s = cursor
    BY <1>1, <2>1, <2>2, <2>3 DEF Answered, Kept
  <2>4. CASE /\ s # cursor
             /\ racked[Slot(s)] /\ rwindow[Slot(s)] = DataPacket(s, Pos(s) + 1)
    <3>1. Slot(s) # Slot(cursor)
      BY <1>1, <2>4, SlotsDistinct
    <3>2. racked'[Slot(s)]
      BY <1>1, <1>3, <2>1, <2>4, <3>1
    <3> QED BY <1>1, <2>1, <2>4, <3>2 DEF Answered, Kept
  <2> QED BY <1>2, <2>3, <2>4
<1>7. CASE WriteEnd
  <2>1. expected' = cursor /\ UNCHANGED <<cursor, racked, rwindow>> /\ ~racked[Slot(cursor)]
    BY <1>7 DEF WriteEnd, ringVars
  <2>2. s # cursor
    BY <1>1, <1>2, <2>1
  <2> QED BY <1>2, <2>1, <2>2 DEF Answered, Kept, Pos
<1>8. \/ UNCHANGED <<expected, cursor, racked, rwindow>> \/ WriteStep \/ WriteEnd
      \/ \E p \in toReceiver : ReceiveFresh(p)
  BY WhoMoves DEF Still, SRFillChunk, SRFillEnd, FillChunk, FillEnd, SweepStep, AckEvent,
                  receiverVars, ringVars
<1> QED BY <1>4, <1>5, <1>6, <1>7, <1>8

LEMMA NeverBack ==
  ASSUME RingNeverReused, IInv, [Next]_vars
  PROVE  /\ Closing => Closing' /\ UNCHANGED nextseqnum
         /\ ReceiverComplete => ReceiverComplete'
         /\ fpos <= fpos'
<1>1. CASE SRFillChunk \/ SRFillEnd \/ TimerEvent \/ SweepStep \/ SweepEnd
             \/ \E p \in toSender : AckEvent(p)
  <2>1. spc \notin {"fin", "finwait", "ok", "failed"} /\ rpc' = rpc
    BY <1>1 DEF SRFillChunk, SRFillEnd, FillChunk, FillEnd, TimerEvent, HandleTimer,
         SweepStep, SweepEnd, AckEvent, fileVars, receiverVars, ringVars, Handling
  <2>2. fpos' = fpos \/ fpos' = fpos + 1
    BY <1>1 DEF SRFillChunk, SRFillEnd, FillChunk, FillEnd, TimerEvent, HandleTimer,
         SweepStep, SweepEnd, AckEvent, fileVars, receiverVars, ringVars, Handling
  <2> QED BY <2>1, <2>2, CounterFacts DEF Closing, ReceiverComplete
<1>2. CASE WriteLoop \/ (\E p \in toReceiver : Receive(p))
             \/ (Stopped /\ UNCHANGED <<acked, ringVars>>)
  <2>1. /\ UNCHANGED <<spc, nextseqnum, fpos>>
        /\ rpc' = rpc \/ rpc \in {"data", "write"}
    BY <1>2 DEF transferVars, senderVars, fileVars, receiverVars, ringVars,
         Stopped, WriteLoop, WriteStep, WriteEnd, WriteFails, Receive, ReceiveFresh,
         ReceiveFin, ReceiveIgnored, ReceiveOther
  <2> QED BY <2>1, CounterFacts DEF Closing, ReceiverComplete
<1>3. CASE Shared
  <2>1. /\ UNCHANGED <<nextseqnum, fpos>>
        /\ Closing => Closing'
        /\ ReceiverComplete => ReceiverComplete'
    BY <1>3 DEF Shared, SenderLoop, SenderClose, ReceiverClose, Network, FillNothing, PollEvents,
       PollTimeout, HandleNoPacket, TimerFires, StartClose, SendFin, FinTimeout,
       GiveUp, ReceiveFinAck, DataTimeout, SendFinAck, LingerTimeout, LingerReceive,
       Lose, Corrupt, Closing, ReceiverComplete, Handling, NextEvent,
       senderVars, fileVars, receiverVars
  <2> QED BY <2>1, CounterFacts
<1>4. CASE UNCHANGED vars
  BY <1>4, CounterFacts DEF vars, transferVars, senderVars, fileVars, receiverVars, Closing, ReceiverComplete
<1> QED BY <1>1, <1>2, <1>3, <1>4 DEF Next

-----------------------------------------------------------------------------
(* The packets under way.                                                  *)
LEMMA DataIs ==
  ASSUME IInv, NEW p \in toReceiver, p.intact, p.flags = {}
  PROVE  /\ p = DataPacket(p.seq, Pos(p.seq) + 1)
         /\ p.seq \in Numbers /\ Pos(p.seq) < fpos
<1>1. /\ p \in PacketType /\ p.intact = TRUE
      /\ p.chunk = Pos(p.seq) + 1 /\ p.chunk <= fpos
  BY DEF IInv, Genuine, GenuineToReceiver, PacketType
<1>2. p.seq \in SeqNums /\ Pos(p.seq) \in Int /\ fpos \in Int /\ fpos <= N /\ N \in Int
  BY <1>1, PosFacts, CounterFacts, ConstantFacts DEF PacketType
<1>3. p = DataPacket(p.seq, Pos(p.seq) + 1)
  BY <1>1 DEF DataPacket, Packet, PacketType
<1> QED BY <1>1, <1>2, <1>3 DEF Numbers

LEMMA NewToReceiver ==
  ASSUME [Next]_vars, NEW q \in toReceiver', q \notin toReceiver, q # Garbled
  PROVE  \/ SRFillChunk /\ q = DataPacket(nextseqnum, fpos + 1)
         \/ \E s \in SeqRange(base, nextseqnum) : q = window[Slot(s)]
         \/ spc = "fin" /\ q = Fin(nextseqnum)
<1>1. CASE UNCHANGED toReceiver \/ Lose \/ Corrupt
  BY <1>1 DEF Lose, Corrupt
<1>2. CASE \E p \in toReceiver : Receive(p) \/ LingerReceive(p)
  BY <1>2 DEF Receive, ReceiveFresh, ReceiveFin, ReceiveIgnored, ReceiveOther,
              LingerReceive, AfterDelivery
<1>3. CASE SRFillChunk
  BY <1>3 DEF SRFillChunk, FillChunk
<1>4. CASE TimerEvent
  BY <1>4 DEF TimerEvent, HandleTimer
<1>5. CASE SendFin
  BY <1>5 DEF SendFin
<1>6. UNCHANGED toReceiver \/ Lose \/ Corrupt \/ SRFillChunk \/ TimerEvent \/ SendFin
        \/ \E p \in toReceiver : Receive(p) \/ LingerReceive(p)
  BY DEF vars, transferVars, netVars, Next, Shared, SenderLoop, SenderClose, ReceiverClose,
         Network, Stopped, SRFillEnd, FillEnd, FillNothing, PollEvents, PollTimeout,
         HandleNoPacket, TimerFires, AckEvent, SweepStep, SweepEnd, StartClose, FinTimeout,
         GiveUp, ReceiveFinAck, DataTimeout, SendFinAck, LingerTimeout, WriteLoop,
         WriteStep, WriteFails, WriteEnd
<1> QED BY <1>1, <1>2, <1>3, <1>4, <1>5, <1>6

LEMMA NewToSender ==
  ASSUME [Next]_vars, NEW q \in toSender', q \notin toSender, q # Garbled
  PROVE  \/ \E p \in toReceiver : ReceiveFresh(p) /\ p.seq # expected /\ q = Ack(p.seq)
         \/ \E p \in toReceiver : ReceiveOther(p) /\ q = Ack(p.seq)
         \/ WriteEnd /\ q = Ack(expected)
         \/ rpc = "finack" /\ q = FinAck(expected)
<1>1. CASE UNCHANGED toSender \/ Lose \/ Corrupt
  BY <1>1 DEF Lose, Corrupt
<1>2. CASE \E p \in toSender : AckEvent(p) \/ ReceiveFinAck(p)
  BY <1>2 DEF AckEvent, ReceiveFinAck, AfterDelivery
<1>3. CASE \E p \in toReceiver : ReceiveFresh(p)
  BY <1>3 DEF ReceiveFresh
<1>4. CASE \E p \in toReceiver : ReceiveOther(p)
  BY <1>4 DEF ReceiveOther
<1>5. CASE WriteEnd
  BY <1>5 DEF WriteEnd
<1>6. CASE SendFinAck
  BY <1>6 DEF SendFinAck
<1>7. UNCHANGED toSender \/ Lose \/ Corrupt \/ SendFinAck \/ WriteEnd
        \/ (\E p \in toSender : AckEvent(p) \/ ReceiveFinAck(p))
        \/ (\E p \in toReceiver : ReceiveFresh(p))
        \/ (\E p \in toReceiver : ReceiveOther(p))
  BY DEF vars, transferVars, netVars, Next, Shared, SenderLoop, SenderClose, ReceiverClose,
         Network, Stopped, SRFillChunk, SRFillEnd, FillChunk, FillEnd, FillNothing,
         PollEvents, PollTimeout, HandleNoPacket, TimerFires, TimerEvent, HandleTimer,
         SweepStep, SweepEnd, StartClose, SendFin, FinTimeout, GiveUp, DataTimeout,
         LingerTimeout, LingerReceive, Receive, ReceiveFin, ReceiveIgnored, WriteLoop,
         WriteStep, WriteFails
<1> QED BY <1>1, <1>2, <1>3, <1>4, <1>5, <1>6, <1>7

(* Every ACK the receiver sends is of a packet it keeps: what it drops for *)
(* being out of its window it has written before.                          *)
LEMMA FreshAnswered ==
  ASSUME RingNeverReused, IInv, NEW p \in toReceiver, ReceiveFresh(p), p.seq # expected
  PROVE  Answered(p.seq)'
<1>1. p.seq \in SeqNums /\ p = DataPacket(p.seq, Pos(p.seq) + 1)
  BY DataIs DEF ReceiveFresh, IsFresh, InReceiveWindow, Numbers
<1>2. /\ racked' = [racked EXCEPT ![Slot(p.seq)] = TRUE]
      /\ rwindow' = [rwindow EXCEPT ![Slot(p.seq)] = p]
      /\ expected' = expected
  BY DEF ReceiveFresh
<1>3. racked \in [Slots -> BOOLEAN] /\ rwindow \in [Slots -> PacketType] /\ Slot(p.seq) \in Slots
  BY <1>1, SlotType DEF IInv, TypeOK
<1>4. racked'[Slot(p.seq)] /\ rwindow'[Slot(p.seq)] = p
  BY <1>2, <1>3
<1> QED BY <1>1, <1>2, <1>4 DEF Answered, Kept

LEMMA OtherAnswered ==
  ASSUME RingNeverReused, IInv, NEW p \in toReceiver, ReceiveOther(p)
  PROVE  Answered(p.seq)
<1>1. p.intact /\ p.flags = {} /\ rpc = "data" /\ ~IsFresh(p)
  BY DEF ReceiveOther, IsFin, IInv, Genuine, GenuineToReceiver
<1>2. p.seq \in Numbers /\ p.seq \in SeqNums /\ Pos(p.seq) < fpos
  BY <1>1, DataIs DEF Numbers
<1>3. cursor = expected /\ ~racked[Slot(expected)]
  BY <1>1 DEF IInv, Counts, ReceiverRing
<1>4. CASE racked[Slot(p.seq)]
  BY <1>2, <1>3, <1>4, RackedHolds DEF Answered, Kept
<1>5. CASE ~in_window(p.seq, expected, WR)
  <2>1. /\ Pos(p.seq) \in Int /\ Pos(expected) \in Int /\ Pos(base) \in Int
        /\ WS \in Int /\ WR \in Int /\ WS <= WR
        /\ Pos(p.seq) < Pos(base) + WS /\ Pos(base) <= Pos(expected)
        /\ expected \in SeqNums /\ Pos(expected) <= N
    BY <1>2, PosFacts, CounterFacts, ConstantFacts, ReceiverWindowAssumption DEF Numbers
  <2>2. Pos(p.seq) < Pos(expected)
    BY <1>2, <1>5, <2>1, ReceiverWindowPos
  <2> QED BY <1>3, <2>1, <2>2 DEF Answered, Kept
<1> QED BY <1>1, <1>4, <1>5 DEF IsFresh, InReceiveWindow

LEMMA WriteEndAnswered ==
  ASSUME IInv, WriteEnd, NEW s, s = expected
  PROVE  Answered(s)'
<1>1. /\ rpc = "write" /\ ~racked[Slot(cursor)]
      /\ expected' = cursor /\ UNCHANGED <<cursor, racked, rwindow>>
  BY DEF WriteEnd, ringVars
<1>2. cursor # expected
  BY <1>1 DEF IInv, ReceiverRing
<1>3. Pos(s) < Pos(cursor)
  BY <1>2, CounterFacts, PosFacts DEF Numbers
<1> QED BY <1>1, <1>2, <1>3 DEF Answered, Kept, Pos

LEMMA GenuineStep ==
  ASSUME RingNeverReused, IInv, [Next]_vars
  PROVE  Genuine'
<1>1. Positions'
  BY PositionsStep
<1>2. /\ nextseqnum \in SeqNums /\ base \in SeqNums /\ expected \in SeqNums
      /\ fpos = Pos(nextseqnum) /\ fpos \in Int /\ fpos' \in Int /\ fpos <= fpos'
  BY <1>1, CounterFacts, NeverBack DEF Numbers, Positions
<1>3. GenuineToReceiver \subseteq GenuineToReceiver'
  <2>1. \A p \in PacketType : p.chunk \in Int
    BY ConstantFacts DEF PacketType
  <2> QED BY <1>2, <2>1, NeverBack DEF GenuineToReceiver
<1>4. GenuineToSender \subseteq GenuineToSender'
  <2> SUFFICES ASSUME NEW p \in GenuineToSender PROVE p \in GenuineToSender'
    OBVIOUS
  <2>1. p \in PacketType /\ p.seq \in SeqNums
    BY DEF GenuineToSender, PacketType
  <2>2. Answered(p.seq) => Answered(p.seq)'
    BY <2>1, AnsweredStays
  <2> QED BY <2>1, <2>2, NeverBack DEF GenuineToSender
<1>5. Garbled \in GenuineToReceiver' /\ Garbled \in GenuineToSender'
  BY PacketTypes DEF GenuineToReceiver, GenuineToSender, Garbled
<1>6. ASSUME NEW q \in toReceiver' PROVE q \in GenuineToReceiver'
  <2>1. CASE q \in toReceiver \/ q = Garbled
    BY <2>1, <1>3, <1>5 DEF IInv, Genuine
  <2>2. CASE SRFillChunk /\ q = DataPacket(nextseqnum, fpos + 1)
    <3>1. fpos' = fpos + 1 /\ fpos + 1 \in 1..N
      <4>1. fpos' = fpos + 1 /\ fpos < N
        BY <2>2 DEF SRFillChunk, FillChunk
      <4> QED BY <4>1, CounterFacts, ConstantFacts
    <3>2. q \in PacketType
      BY <1>2, <2>2, <3>1, PacketTypes
    <3>3. q.flags = {} /\ q.seq = nextseqnum /\ q.chunk = fpos + 1
      BY <2>2 DEF DataPacket, Packet
    <3> QED BY <1>2, <3>1, <3>2, <3>3 DEF GenuineToReceiver
  <2>3. CASE \E s \in SeqRange(base, nextseqnum) : q = window[Slot(s)]
    <3>1. PICK s \in SeqRange(base, nextseqnum) : q = window[Slot(s)]
      BY <2>3
    <3>2. s \in Numbers /\ s \in SeqNums /\ Pos(s) < fpos
      <4>1. s \in SeqNums
        BY DEF SeqRange
      <4>2. Pos(s) < Pos(nextseqnum)
        BY <1>2, <4>1, CounterFacts, PosFacts, SeqRangeInterval DEF Pos
      <4> QED BY <1>2, <4>1, <4>2, CounterFacts, PosFacts, ConstantFacts DEF Numbers
    <3>3. q = DataPacket(s, Pos(s) + 1)
      BY <3>1, <3>2 DEF IInv, SenderRing
    <3>4. Pos(s) + 1 \in 1..N /\ Pos(s) + 1 <= fpos
      BY <3>2, PosFacts, CounterFacts, ConstantFacts
    <3>5. q \in PacketType
      BY <3>2, <3>3, <3>4, PacketTypes
    <3>6. q.flags = {} /\ q.seq = s /\ q.chunk = Pos(s) + 1
      BY <3>3 DEF DataPacket, Packet
    <3>7. q.chunk <= fpos'
      BY <1>2, <3>2, <3>4, <3>6, PosFacts
    <3> QED BY <3>5, <3>6, <3>7 DEF GenuineToReceiver
  <2>4. CASE spc = "fin" /\ q = Fin(nextseqnum)
    <3>1. Closing' /\ nextseqnum' = nextseqnum /\ q \in PacketType
      BY <1>2, <2>4, NeverBack, PacketTypes DEF Closing
    <3>2. q.flags = {"FIN"} /\ q.seq = nextseqnum
      BY <2>4 DEF Fin, Packet
    <3> QED BY <3>1, <3>2 DEF GenuineToReceiver
  <2> QED BY <1>6, <2>1, <2>2, <2>3, <2>4, NewToReceiver
<1>7. ASSUME NEW q \in toSender' PROVE q \in GenuineToSender'
  <2>1. CASE q \in toSender \/ q = Garbled
    BY <2>1, <1>4, <1>5 DEF IInv, Genuine
  <2>2. ASSUME NEW s \in SeqNums, q = Ack(s), Answered(s)' PROVE q \in GenuineToSender'
    <3>1. q \in PacketType /\ q.seq = s /\ q.flags = {"ACK"}
      BY <2>2, PacketTypes DEF Ack, Packet
    <3> QED BY <2>2, <3>1 DEF GenuineToSender
  <2>3. ASSUME NEW p \in toReceiver PROVE p.seq \in SeqNums
    BY DEF IInv, TypeOK, TransferTypeOK, PacketType
  <2>4. CASE \E p \in toReceiver : ReceiveFresh(p) /\ p.seq # expected /\ q = Ack(p.seq)
    BY <2>2, <2>3, <2>4, FreshAnswered
  <2>5. CASE \E p \in toReceiver : ReceiveOther(p) /\ q = Ack(p.seq)
    BY <2>2, <2>3, <2>5, OtherAnswered, AnsweredStays
  <2>6. CASE WriteEnd /\ q = Ack(expected)
    BY <1>2, <2>2, <2>6, WriteEndAnswered
  <2>7. CASE rpc = "finack" /\ q = FinAck(expected)
    <3>1. q \in PacketType /\ q.flags = {"ACK", "FIN"}
      BY <1>2, <2>7, PacketTypes DEF FinAck, Packet
    <3>2. ReceiverComplete'
      BY <2>7, NeverBack DEF ReceiverComplete
    <3> QED BY <3>1, <3>2 DEF GenuineToSender
  <2> QED BY <1>7, <2>1, <2>4, <2>5, <2>6, <2>7, NewToSender
<1> QED BY <1>6, <1>7 DEF Genuine

-----------------------------------------------------------------------------
(* The arrays.                                                             *)
LEMMA SenderRingStep ==
  ASSUME RingNeverReused, IInv, [Next]_vars
  PROVE  SenderRing'
<1> SUFFICES ASSUME NEW s \in Numbers
             PROVE  /\ Pos(s) < fpos' => window'[Slot(s)] = DataPacket(s, Pos(s) + 1)
                    /\ acked'[Slot(s)] => Answered(s)'
  BY DEF SenderRing, Numbers, Pos
<1>1. /\ s \in SeqNums /\ Slot(s) \in Slots /\ Pos(s) \in Int
      /\ nextseqnum \in Numbers /\ nextseqnum \in SeqNums /\ Slot(nextseqnum) \in Slots
      /\ fpos = Pos(nextseqnum) /\ fpos \in Int
  BY PosFacts, SlotType, CounterFacts DEF Numbers
<1>2. /\ Pos(s) < fpos => window[Slot(s)] = DataPacket(s, Pos(s) + 1)
      /\ acked[Slot(s)] => Answered(s)
      /\ window \in [Slots -> PacketType] /\ acked \in [Slots -> BOOLEAN]
  BY DEF IInv, SenderRing, TypeOK, TransferTypeOK
<1>3. Answered(s) => Answered(s)'
  BY <1>1, AnsweredStays
<1>4. CASE UNCHANGED <<fpos, window, acked>>
  BY <1>2, <1>3, <1>4
<1>5. CASE SRFillChunk
  <2>1. /\ fpos' = fpos + 1
        /\ window' = [window EXCEPT ![Slot(nextseqnum)] = DataPacket(nextseqnum, fpos + 1)]
        /\ acked' = [acked EXCEPT ![Slot(nextseqnum)] = FALSE]
    BY <1>5 DEF SRFillChunk, FillChunk, ClearNextSlot
  <2>2. CASE s = nextseqnum
    BY <1>1, <1>2, <2>1, <2>2
  <2>3. CASE s # nextseqnum
    <3>1. Slot(s) # Slot(nextseqnum)
      BY <1>1, <2>3, SlotsDistinct
    <3>2. Pos(s) # Pos(nextseqnum)
      BY <1>1, <2>3, PosFacts
    <3>3. Pos(s) < fpos' => Pos(s) < fpos
      BY <1>1, <2>1, <3>2
    <3> QED BY <1>1, <1>2, <1>3, <2>1, <3>1, <3>3
  <2> QED BY <2>2, <2>3
<1>6. CASE SRFillEnd
  BY <1>1, <1>2, <1>3, <1>6 DEF SRFillEnd, FillEnd, ClearNextSlot
<1>7. CASE \E p \in toSender : AckEvent(p)
  <2>1. PICK p \in toSender : AckEvent(p)
    BY <1>7
  <2>2. /\ UNCHANGED <<fpos, window>> /\ spc = "events"
        /\ \/ UNCHANGED acked
           \/ IsAck(p) /\ acked' = [acked EXCEPT ![Slot(p.seq)] = TRUE]
    BY <2>1 DEF AckEvent, Handling, fileVars
  <2>3. IsAck(p) => p.seq \in Numbers /\ Answered(p.seq)
    <3>1. ~ReceiverComplete
      BY <2>2 DEF IInv, Endings, Closing
    <3>2. IsAck(p) => p.seq \in SeqNums /\ Answered(p.seq)
      BY <3>1 DEF IInv, Genuine, GenuineToSender, IsAck, PacketType
    <3> QED BY <3>2, KeptWasSent DEF Answered
  <2>4. CASE IsAck(p) /\ Slot(p.seq) = Slot(s)
    <3>1. p.seq = s
      BY <2>3, <2>4, SlotsDistinct
    <3> QED BY <1>2, <1>3, <2>2, <2>3, <2>4, <3>1
  <2>5. CASE ~IsAck(p) \/ Slot(p.seq) # Slot(s)
    BY <1>1, <1>2, <1>3, <2>2, <2>5
  <2> QED BY <2>4, <2>5
<1> QED
  BY <1>4, <1>5, <1>6, <1>7, WhoMoves
  DEF Still, SweepStep, WriteStep, WriteEnd, ReceiveFresh, fileVars, senderVars

LEMMA ReceiverRingStep ==
  ASSUME RingNeverReused, IInv, [Next]_vars
  PROVE  ReceiverRing'
<1> DEFINE Holds(t) == LET s == rwindow[t].seq IN
             /\ Slot(s) = t /\ rwindow[t] = DataPacket(s, Pos(s) + 1)
             /\ Pos(cursor) <= Pos(s) /\ Pos(s) < fpos
<1>1. /\ rpc = "data" => ~racked[Slot(expected)]
      /\ rpc = "write" => cursor # expected \/ racked[Slot(expected)]
      /\ \A t \in Slots : racked[t] => Holds(t)
  BY DEF IInv, ReceiverRing
<1>2. /\ racked \in [Slots -> BOOLEAN] /\ rwindow \in [Slots -> PacketType]
      /\ cursor \in Numbers /\ expected \in Numbers /\ cursor \in SeqNums /\ expected \in SeqNums
      /\ Slot(cursor) \in Slots /\ Slot(expected) \in Slots
      /\ Pos(cursor) \in Int /\ Pos(expected) \in Int /\ Pos(expected) <= Pos(cursor)
      /\ Pos(cursor) < SEQ_MAX
      /\ fpos \in Int /\ fpos' \in Int /\ fpos <= fpos'
  <2>1. fpos' \in Int
    BY PositionsStep DEF Positions
  <2>2. cursor \in SeqNums /\ expected \in SeqNums
    BY CounterFacts DEF Numbers
  <2>3. Slot(cursor) \in Slots /\ Slot(expected) \in Slots
    BY <2>2, SlotType
  <2> QED BY <2>1, <2>2, <2>3, CounterFacts, ConstantFacts, NeverBack DEF IInv, TypeOK
<1>3. \A t \in Slots : rwindow[t].seq \in SeqNums /\ Pos(rwindow[t].seq) \in Int
  BY <1>2, PosFacts DEF PacketType
<1>4. CASE /\ UNCHANGED <<expected, cursor, racked, rwindow>>
           /\ rpc' = "data" => rpc = "data"
           /\ rpc' = "write" => rpc = "write"
  <2>1. \A t \in Slots : Holds(t) => Holds(t)'
    BY <1>2, <1>3, <1>4 DEF Pos
  <2> HIDE DEF Holds
  <2>2. \A t \in Slots : racked'[t] => Holds(t)'
    BY <1>1, <1>4, <2>1
  <2> QED BY <1>1, <1>4, <2>2 DEF ReceiverRing, Holds
<1>5. CASE \E p \in toReceiver : ReceiveFresh(p)
  <2>1. PICK p \in toReceiver : ReceiveFresh(p)
    BY <1>5
  <2>2. /\ rpc = "data" /\ p.intact /\ p.flags = {} /\ in_window(p.seq, expected, WR)
        /\ racked' = [racked EXCEPT ![Slot(p.seq)] = TRUE]
        /\ rwindow' = [rwindow EXCEPT ![Slot(p.seq)] = p]
        /\ expected' = expected /\ fpos' = fpos
        /\ cursor' \in {cursor, expected}
        /\ IF p.seq = expected THEN rpc' = "write" ELSE rpc' = "data"
    BY <2>1 DEF ReceiveFresh, IsFresh, InReceiveWindow, senderVars, fileVars
  <2>3. cursor = expected /\ cursor' = cursor
    BY <2>2 DEF IInv, Counts
  <2>4. /\ p = DataPacket(p.seq, Pos(p.seq) + 1) /\ Pos(p.seq) < fpos
        /\ p.seq \in Numbers /\ p.seq \in SeqNums /\ Slot(p.seq) \in Slots
    <3>1. /\ p = DataPacket(p.seq, Pos(p.seq) + 1) /\ Pos(p.seq) < fpos
          /\ p.seq \in Numbers /\ p.seq \in SeqNums
      BY <2>2, DataIs DEF Numbers
    <3> QED BY <3>1, SlotType
  <2>5. Pos(cursor) <= Pos(p.seq)
    BY <1>2, <2>2, <2>3, <2>4, ReceiverWindowPos DEF Numbers
  <2>6. ASSUME NEW t \in Slots, racked'[t] PROVE Holds(t)'
    <3>1. CASE t = Slot(p.seq)
      <4>1. rwindow'[t] = p
        BY <1>2, <2>2, <2>4, <3>1
      <4> QED BY <2>2, <2>3, <2>4, <2>5, <3>1, <4>1 DEF Pos
    <3>2. CASE t # Slot(p.seq)
      <4>1. rwindow'[t] = rwindow[t] /\ racked[t]
        BY <1>2, <2>2, <2>6, <3>2
      <4> QED BY <1>1, <2>2, <2>3, <4>1 DEF Pos
    <3> QED BY <3>1, <3>2
  <2>7. rpc' = "data" => ~racked'[Slot(expected')]
    <3>1. p.seq # expected => Slot(expected) # Slot(p.seq)
      BY <1>2, <2>4, SlotsDistinct
    <3> QED BY <1>1, <1>2, <2>2, <2>4, <3>1
  <2>8. rpc' = "write" => racked'[Slot(expected')]
    BY <1>2, <2>2, <2>4
  <2> QED BY <2>6, <2>7, <2>8 DEF ReceiverRing
<1>6. CASE WriteStep
  <2>1. /\ cursor' = next_seq(cursor) /\ UNCHANGED <<expected, rwindow, fpos, rpc>>
        /\ racked' = [racked EXCEPT ![Slot(cursor)] = FALSE] /\ rpc = "write"
    BY <1>6 DEF WriteStep, senderVars, fileVars
  <2>2. Pos(cursor') = Pos(cursor) + 1 /\ cursor' \in SeqNums
    BY <1>2, <2>1, PosFacts
  <2>3. cursor' # expected'
    BY <1>2, <2>1, <2>2
  <2>4. ASSUME NEW t \in Slots, racked'[t] PROVE Holds(t)'
    <3> DEFINE u == rwindow[t].seq
    <3>1. t # Slot(cursor) /\ racked[t]
      BY <1>2, <2>1, <2>4
    <3>2. Holds(t)
      BY <1>1, <3>1
    <3>3. u # cursor
      BY <3>1, <3>2
    <3>4. Pos(cursor) < Pos(u)
      BY <1>2, <1>3, <3>2, <3>3, PosFacts
    <3>5. Pos(cursor') <= Pos(u)
      BY <1>2, <1>3, <2>2, <3>4
    <3> QED BY <2>1, <3>2, <3>5 DEF Pos
  <2> QED BY <2>1, <2>3, <2>4 DEF ReceiverRing
<1>7. CASE WriteEnd
  <2>1. /\ expected' = cursor /\ rpc' = "data" /\ ~racked[Slot(cursor)]
        /\ UNCHANGED <<cursor, racked, rwindow, fpos>>
    BY <1>7 DEF WriteEnd, ringVars, senderVars, fileVars
  <2>2. \A t \in Slots : racked'[t] => Holds(t)'
    BY <1>1, <2>1 DEF Pos
  <2> QED BY <2>1, <2>2 DEF ReceiverRing
<1> QED
  <2>1. CASE SRFillChunk \/ SRFillEnd \/ SweepStep \/ \E p \in toSender : AckEvent(p)
    BY <1>4, <2>1 DEF SRFillChunk, SRFillEnd, FillChunk, FillEnd, SweepStep, AckEvent,
         receiverVars, ringVars
  <2>2. CASE Still
    BY <1>4, <2>2 DEF Still, ringVars
  <2> QED BY <1>5, <1>6, <1>7, <2>1, <2>2, WhoMoves

-----------------------------------------------------------------------------
(* The timer.                                                              *)
LEMMA TimerStep ==
  ASSUME RingNeverReused, IInv, [Next]_vars
  PROVE  TimerCoversWindow'
<1>1. /\ base \in SeqNums /\ nextseqnum \in SeqNums /\ Pos(nextseqnum) < SEQ_MAX
      /\ Pos(base) \in Int /\ Pos(nextseqnum) \in Int /\ Pos(base) <= Pos(nextseqnum)
      /\ spc # "sweep" => (timer # "off" <=> base # nextseqnum)
  BY CounterFacts, ConstantFacts DEF Numbers, IInv, TimerCoversWindow
<1>2. CASE UNCHANGED <<base, nextseqnum, timer>> /\ (spc = "sweep" => spc' = "sweep")
  BY <1>1, <1>2 DEF TimerCoversWindow
<1>3. CASE SRFillChunk
  <2>1. /\ UNCHANGED base /\ nextseqnum' = next_seq(nextseqnum)
        /\ spc = "fill" /\ timer' = IF base = nextseqnum THEN "armed" ELSE timer
    BY <1>3 DEF SRFillChunk, FillChunk
  <2>2. Pos(nextseqnum') = Pos(nextseqnum) + 1
    BY <1>1, <2>1, PosFacts
  <2>3. base' # nextseqnum'
    BY <1>1, <2>1, <2>2
  <2> QED BY <1>1, <2>1, <2>3 DEF TimerCoversWindow
<1>4. CASE TimerFires
  BY <1>1, <1>4 DEF TimerFires, fileVars, TimerCoversWindow
<1>5. CASE TimerEvent
  BY <1>1, <1>5 DEF TimerEvent, HandleTimer, Handling, fileVars, TimerCoversWindow
<1>6. CASE \E p \in toSender : AckEvent(p)
  BY <1>1, <1>6 DEF AckEvent, Handling, fileVars, TimerCoversWindow
<1>7. CASE SweepStep
  BY <1>7 DEF SweepStep, TimerCoversWindow
<1>8. CASE SweepEnd
  BY <1>8 DEF SweepEnd, TimerFor, fileVars, TimerCoversWindow
<1> QED
  BY <1>2, <1>3, <1>4, <1>5, <1>6, <1>7, <1>8
  DEF vars, transferVars, netVars, senderVars, fileVars, Next, Shared, SenderLoop, SenderClose,
      ReceiverClose, Network, Stopped, SRFillEnd, FillEnd, FillNothing, PollEvents, PollTimeout,
      HandleNoPacket, Handling, StartClose, SendFin, FinTimeout, GiveUp, ReceiveFinAck,
      DataTimeout, SendFinAck, LingerTimeout, LingerReceive, Lose, Corrupt, Receive,
      ReceiveFresh, ReceiveFin, ReceiveIgnored, ReceiveOther, WriteLoop, WriteStep,
      WriteFails, WriteEnd

-----------------------------------------------------------------------------
(* The end of the file and of the connection.                              *)
LEMMA EndOfFileStep ==
  ASSUME IInv, [Next]_vars
  PROVE  EndOfFile'
<1>1. CASE UNCHANGED <<input_eof, fpos>>
  BY <1>1 DEF IInv, EndOfFile
<1>2. CASE SRFillChunk
  BY <1>2 DEF SRFillChunk, FillChunk, EndOfFile
<1>3. CASE SRFillEnd
  BY <1>3 DEF SRFillEnd, FillEnd, EndOfFile
<1> QED
  BY <1>1, <1>2, <1>3
  DEF vars, transferVars, netVars, senderVars, fileVars, Next, Shared, SenderLoop, SenderClose,
      ReceiverClose, Network, Stopped, FillNothing, PollEvents, PollTimeout, HandleNoPacket,
      TimerFires, TimerEvent, HandleTimer, AckEvent, SweepStep, SweepEnd, StartClose, SendFin,
      FinTimeout, GiveUp, ReceiveFinAck, DataTimeout, SendFinAck, LingerTimeout, LingerReceive,
      Lose, Corrupt, Receive, ReceiveFresh, ReceiveFin, ReceiveIgnored, ReceiveOther,
      WriteLoop, WriteStep, WriteFails, WriteEnd

LEMMA EndingsStep ==
  ASSUME IInv, [Next]_vars
  PROVE  Endings'
<1>1. Endings
  BY DEF IInv
<1>2. CASE UNCHANGED <<spc, rpc, input_eof, base, nextseqnum, expected, tries>>
  BY <1>1, <1>2 DEF Endings, Closing, ReceiverComplete
<1>3. CASE SRFillChunk \/ SRFillEnd \/ SenderLoop \/ TimerEvent \/ SweepStep \/ SweepEnd
             \/ (\E p \in toSender : AckEvent(p))
  <2>1. ~Closing /\ ~Closing' /\ UNCHANGED <<rpc, expected>> /\ spc' # "ok" /\ spc' # "finwait"
    BY <1>3 DEF SRFillChunk, SRFillEnd, FillChunk, FillEnd, SenderLoop, FillNothing, PollEvents,
                PollTimeout, HandleNoPacket, TimerEvent, HandleTimer, SweepStep, SweepEnd,
                AckEvent, Handling, NextEvent, Closing, receiverVars
  <2> QED BY <1>1, <2>1 DEF Endings, ReceiverComplete
<1>4. CASE StartClose \/ SendFin \/ FinTimeout \/ GiveUp
  BY <1>1, <1>4, ConstantFacts
  DEF StartClose, SendFin, FinTimeout, GiveUp, fileVars, receiverVars, Endings, Closing, ReceiverComplete
<1>5. ASSUME NEW p \in toSender, ReceiveFinAck(p) PROVE Endings'
  <2>1. p.intact /\ "FIN" \in p.flags => ReceiverComplete
    BY DEF IInv, Genuine, GenuineToSender
  <2>2. /\ spc = "finwait" /\ Closing'
        /\ UNCHANGED <<base, nextseqnum, input_eof, rpc, expected>>
        /\ spc' \in {"ok", "fin"}
        /\ spc' = "ok" => p.intact /\ p.flags = {"ACK", "FIN"}
    BY <1>5 DEF ReceiveFinAck, Closing, fileVars, receiverVars
  <2>3. spc' = "ok" => ReceiverComplete
    BY <2>1, <2>2
  <2> QED BY <1>1, <2>2, <2>3 DEF Endings, Closing, ReceiverComplete
<1>6. ASSUME NEW p \in toReceiver, Receive(p) PROVE Endings'
  <2>1. CASE ReceiveFin(p)
    <3>1. p.intact /\ p.flags = {"FIN"} /\ p.seq = expected
      BY <2>1 DEF ReceiveFin, IsFin
    <3>2. Closing /\ expected = nextseqnum
      BY <3>1 DEF IInv, Genuine, GenuineToReceiver
    <3> QED BY <1>1, <2>1, <3>2 DEF ReceiveFin, senderVars, fileVars, Endings, Closing, ReceiverComplete
  <2>2. CASE ~ReceiveFin(p)
    BY <1>1, <1>6, <2>2
    DEF Receive, ReceiveFresh, ReceiveIgnored, ReceiveOther, senderVars, fileVars, receiverVars,
        Endings, Closing, ReceiverComplete
  <2> QED BY <2>1, <2>2
<1>7. CASE ReceiverClose \/ WriteLoop
  BY <1>1, <1>7
  DEF ReceiverClose, DataTimeout, SendFinAck, LingerTimeout, LingerReceive, WriteLoop, WriteStep,
      WriteFails, WriteEnd, senderVars, fileVars, Endings, Closing, ReceiverComplete
<1> QED
  BY <1>2, <1>3, <1>4, <1>5, <1>6, <1>7
  DEF vars, transferVars, netVars, senderVars, fileVars, receiverVars, Next, Shared, SenderClose,
      Network, Stopped, TimerFires, Lose, Corrupt

-----------------------------------------------------------------------------
(* The types of what no lemma above covers.                                *)
EventsTyped ==
  /\ events \in Seq({"timer", "socket"})
  /\ Len(events) \in 0..2
  /\ spc \in {"events", "sweep"} <=> events # <<>>

LEMMA EventsStep ==
  ASSUME TypeOK, [Next]_vars
  PROVE  EventsTyped'
<1> DEFINE Busy == spc \in {"events", "sweep"}
<1>1. events \in Seq({"timer", "socket"}) /\ Len(events) \in 0..2 /\ (Busy <=> events # <<>>)
  BY DEF TypeOK, TransferTypeOK
<1>2. CASE UNCHANGED events /\ (Busy <=> Busy')
  BY <1>1, <1>2 DEF EventsTyped
<1>3. CASE PollEvents
  BY <1>3, PollTyped DEF EventsTyped
<1>4. CASE Busy /\ NextEvent
  BY <1>1, <1>4, NextEventTyped DEF EventsTyped
<1>5. \/ UNCHANGED events /\ (Busy <=> Busy')
      \/ PollEvents
      \/ Busy /\ NextEvent
  BY DEF vars, transferVars, netVars, senderVars, fileVars, Next, Shared, SenderLoop, SenderClose,
      ReceiverClose, Network, Stopped, SRFillChunk, SRFillEnd, FillChunk, FillEnd, FillNothing,
      PollTimeout, HandleNoPacket, TimerFires, TimerEvent, HandleTimer, AckEvent, SweepStep,
      SweepEnd, Handling, StartClose, SendFin, FinTimeout, GiveUp, ReceiveFinAck, DataTimeout,
      SendFinAck, LingerTimeout, LingerReceive, Lose, Corrupt, Receive, ReceiveFresh,
      ReceiveFin, ReceiveIgnored, ReceiveOther, WriteLoop, WriteStep, WriteFails, WriteEnd
<1> QED BY <1>2, <1>3, <1>4, <1>5

LEMMA ControlStep ==
  ASSUME TypeOK, [Next]_vars, spc = "finwait" => tries < MAXTRY
  PROVE  /\ spc' \in {"fill", "poll", "events", "sweep", "fin", "finwait", "ok", "failed"}
         /\ rpc' \in {"data", "write", "finack", "linger", "done", "failed", "abandoned"}
         /\ timer' \in {"off", "armed", "expired"}
         /\ tries' \in 0..MAXTRY
         /\ input_eof' \in BOOLEAN
<1>1. /\ spc \in {"fill", "poll", "events", "sweep", "fin", "finwait", "ok", "failed"}
      /\ rpc \in {"data", "write", "finack", "linger", "done", "failed", "abandoned"}
      /\ timer \in {"off", "armed", "expired"}
      /\ tries \in 0..MAXTRY
      /\ input_eof \in BOOLEAN
  BY DEF TypeOK, TransferTypeOK
<1> USE DEF vars, transferVars, netVars, senderVars, fileVars, receiverVars, Next, Shared,
      SenderLoop, SenderClose, ReceiverClose, Network, Stopped, SRFillChunk, SRFillEnd,
      FillChunk, FillEnd, FillNothing, PollEvents, PollTimeout, HandleNoPacket, TimerFires,
      TimerEvent, HandleTimer, AckEvent, SweepStep, SweepEnd, Handling, NextEvent, StartClose,
      SendFin, FinTimeout, GiveUp, ReceiveFinAck, DataTimeout, SendFinAck, LingerTimeout,
      LingerReceive, Lose, Corrupt, Receive, ReceiveFresh, ReceiveFin, ReceiveIgnored,
      ReceiveOther, WriteLoop, WriteStep, WriteFails, WriteEnd, TimerFor
<1>2. spc' \in {"fill", "poll", "events", "sweep", "fin", "finwait", "ok", "failed"}
  BY <1>1
<1>3. rpc' \in {"data", "write", "finack", "linger", "done", "failed", "abandoned"}
  BY <1>1
<1>4. timer' \in {"off", "armed", "expired"}
  BY <1>1
<1>5. \/ UNCHANGED tries \/ StartClose \/ FinTimeout
      \/ \E p \in toSender : ReceiveFinAck(p)
  OBVIOUS
<1>6. tries' = tries \/ tries' = 0 \/ (tries' = tries + 1 /\ spc = "finwait")
  <2> HIDE DEF Next, vars
  <2> QED BY <1>5
<1>7. input_eof' = input_eof \/ input_eof' = TRUE
  OBVIOUS
<1> HIDE DEF Next, vars
<1>8. tries' \in 0..MAXTRY
  BY <1>1, <1>6, ConstantFacts
<1>9. input_eof' \in BOOLEAN
  BY <1>1, <1>7
<1> QED BY <1>2, <1>3, <1>4, <1>8, <1>9

LEMMA ArraysTyped ==
  ASSUME TypeOK, [Next]_vars, base \in SeqNums, nextseqnum \in SeqNums, fpos \in 0..N
  PROVE  /\ window' \in [Slots -> PacketType] /\ rwindow' \in [Slots -> PacketType]
         /\ acked' \in [Slots -> BOOLEAN] /\ racked' \in [Slots -> BOOLEAN]
<1>1. /\ window \in [Slots -> PacketType] /\ rwindow \in [Slots -> PacketType]
      /\ acked \in [Slots -> BOOLEAN] /\ racked \in [Slots -> BOOLEAN]
      /\ toReceiver \subseteq PacketType
  BY DEF TypeOK, TransferTypeOK
<1>2. CASE Still \/ SweepStep \/ WriteEnd \/ SRFillEnd \/ \E p \in toSender : AckEvent(p)
  BY <1>1, <1>2 DEF Still, SweepStep, WriteEnd, SRFillEnd, FillEnd, ClearNextSlot, AckEvent,
                    fileVars, senderVars, ringVars
<1>3. CASE SRFillChunk
  <2>1. fpos + 1 \in 1..N
    <3>1. fpos < N
      BY <1>3 DEF SRFillChunk, FillChunk
    <3> QED BY <3>1, ConstantFacts
  <2>2. DataPacket(nextseqnum, fpos + 1) \in PacketType
    BY <2>1, PacketTypes
  <2> QED BY <1>1, <1>3, <2>2 DEF SRFillChunk, FillChunk, ClearNextSlot, ringVars
<1>4. CASE WriteStep \/ \E p \in toReceiver : ReceiveFresh(p)
  BY ZenonT(30), <1>1, <1>4 DEF WriteStep, ReceiveFresh, fileVars, senderVars
<1> QED BY <1>2, <1>3, <1>4, WhoMoves

LEMMA TypeStep ==
  ASSUME RingNeverReused, IInv, [Next]_vars
  PROVE  TypeOK'
<1>1. Positions' /\ Genuine'
  BY PositionsStep, GenuineStep
<1>2. toReceiver' \subseteq PacketType /\ toSender' \subseteq PacketType
  BY <1>1 DEF Genuine, GenuineToReceiver, GenuineToSender
<1>3. /\ TypeOK /\ (spc = "finwait" => tries < MAXTRY)
      /\ base \in SeqNums /\ nextseqnum \in SeqNums /\ fpos \in 0..N
  BY DEF IInv, TypeOK, TransferTypeOK, Endings
<1>4. TransferTypeOK'
  BY <1>1, <1>2, <1>3, EventsStep, ControlStep, ArraysTyped DEF TransferTypeOK, Positions, EventsTyped
<1> QED BY <1>1, <1>3, <1>4, EventsStep, ControlStep, ArraysTyped DEF TypeOK, EventsTyped, Positions

-----------------------------------------------------------------------------
LEMMA Inductive ==
  ASSUME RingNeverReused, IInv, [Next]_vars
  PROVE  IInv'
<1>1. Positions'
  BY PositionsStep
<1> QED
  BY <1>1, TypeStep, TimerStep, GenuineStep, SenderRingStep, ReceiverRingStep, EndOfFileStep,
     EndingsStep
  DEF IInv, Positions

(* The invariant holds in every reachable state, for every file shorter    *)
(* than the packet arrays, every window, number of tries and combination   *)
(* of faults (sender.c:431-562, receiver.c:247-345).                       *)
THEOREM SRInvariantHolds ==
  ASSUME RingNeverReused
  PROVE  Spec => []IInv
<1>1. IInv /\ [Next]_vars => IInv'
  BY Inductive
<1>2. Init => IInv
  BY InitIInv
<1> QED BY <1>1, <1>2, PTL DEF Spec

(* Every variable keeps its type (Sender_State_t, Receive_State_t and the  *)
(* control state of both programs).                                        *)
THEOREM SRTypeCorrect ==
  ASSUME RingNeverReused
  PROVE  Spec => []TypeOK
<1>1. IInv => TypeOK
  BY DEF IInv
<1> QED BY <1>1, SRInvariantHolds, PTL

(* The two windows agree whatever is lost, repeated, damaged or reordered: *)
(* the sweep never moves base past a packet the receiver has not written   *)
(* (sender.c:537-543, receiver.c:302-326).                                 *)
THEOREM SRWindowsAlwaysAgree ==
  ASSUME RingNeverReused
  PROVE  Spec => []WindowsAgree
<1>1. IInv => WindowsAgree
  BY DEF IInv
<1> QED BY <1>1, SRInvariantHolds, PTL

(* Something outstanding always has a timer, also after a sweep            *)
(* (sender.c:462-464, 513, 540-551).                                       *)
THEOREM SRTimerAlwaysCovers ==
  ASSUME RingNeverReused
  PROVE  Spec => []TimerCoversWindow
<1>1. IInv => TimerCoversWindow
  BY DEF IInv
<1> QED BY <1>1, SRInvariantHolds, PTL

(* What is outstanding are numbers of the transfer that were sent.         *)
LEMMA OutstandingSent ==
  ASSUME IInv, NEW s \in SeqRange(base, nextseqnum)
  PROVE  s \in Numbers /\ Pos(s) < fpos
<1>1. s \in SeqNums /\ base \in SeqNums /\ nextseqnum \in SeqNums
  BY CounterFacts DEF SeqRange, Numbers
<1>2. Pos(s) < Pos(nextseqnum)
  BY <1>1, CounterFacts, PosFacts, SeqRangeInterval DEF Pos
<1> QED BY <1>1, <1>2, CounterFacts, PosFacts, ConstantFacts DEF Numbers

(* What the sender will never send again the receiver has: a mark in the   *)
(* acked array stands for a packet that is written or kept                 *)
(* (sender.c:504, 538, receiver.c:308-309).                                *)
THEOREM AckedIsStored ==
  ASSUME RingNeverReused
  PROVE  Spec => []AckedMeansStored
<1>1. IInv => AckedMeansStored
  <2> SUFFICES ASSUME IInv, rpc \in {"data", "write"},
                      NEW s \in SeqRange(base, nextseqnum), acked[Slot(s)]
               PROVE  \/ Pos(s) < Pos(IF rpc = "write" THEN cursor ELSE expected)
                      \/ racked[Slot(s)] /\ rwindow[Slot(s)] = DataPacket(s, Pos(s) + 1)
    BY DEF AckedMeansStored
  <2>1. Kept(s)
    BY OutstandingSent DEF IInv, SenderRing, Answered
  <2>2. rpc = "data" => cursor = expected
    BY DEF IInv, Counts
  <2> QED BY <2>1, <2>2 DEF Kept
<1> QED BY <1>1, SRInvariantHolds, PTL

(* The receiver's arrays hold exactly the early packets of its window, and *)
(* the expected packet is never taken for a duplicate (receiver.c:302-326).*)
THEOREM ReceiveBufferAlwaysSound ==
  ASSUME RingNeverReused
  PROVE  Spec => []ReceiveBufferSound
<1>1. IInv => ReceiveBufferSound
  <2> SUFFICES ASSUME IInv PROVE ReceiveBufferSound
    OBVIOUS
  <2>1. rpc = "data" => ~racked[Slot(expected)]
    BY DEF IInv, ReceiverRing
  <2>2. ASSUME NEW t \in Slots, racked[t], NEW s, s = rwindow[t].seq
        PROVE  /\ Slot(s) = t /\ in_window(s, expected, WR)
               /\ rwindow[t] = DataPacket(s, Pos(s) + 1)
               /\ rpc = "write" => Pos(s) >= Pos(cursor)
    <3>1. /\ Slot(s) = t /\ rwindow[t] = DataPacket(s, Pos(s) + 1)
          /\ Pos(cursor) <= Pos(s) /\ Pos(s) < fpos
      BY <2>2 DEF IInv, ReceiverRing
    <3>2. s \in SeqNums
      BY <2>2 DEF IInv, TypeOK, PacketType
    <3>3. Pos(s) \in Int
      BY <3>2, PosFacts
    <3>4. /\ expected \in SeqNums /\ Pos(expected) <= N
          /\ Pos(expected) <= Pos(s) /\ Pos(s) < Pos(expected) + WR
      BY <3>1, <3>3, CounterFacts, ConstantFacts, ReceiverWindowAssumption DEF Numbers
    <3>5. in_window(s, expected, WR)
      BY <3>2, <3>4, ReceiverWindowPos
    <3> QED BY <3>1, <3>3, <3>5, CounterFacts
  <2> QED BY <2>1, <2>2 DEF ReceiveBufferSound
<1> QED BY <1>1, SRInvariantHolds, PTL

-----------------------------------------------------------------------------
(* The sender's slots when the file is longer than the ring, every slot    *)
(* being used again and again: nothing is assumed of the marks, of the     *)
(* receiver or of what the handshake left, only that the sweep has stopped *)
(* at nextseqnum (the claim that the run sr_stale_mark refutes).           *)
SweepStops == Pos(base) <= Pos(nextseqnum)

\* Where the next chunk goes.
FillPlace ==
  /\ base \in SeqNums /\ nextseqnum \in SeqNums
  /\ fpos \in 0..N /\ fpos = Pos(nextseqnum)
  /\ window = [t \in Slots |-> window[t]]

LEMMA SlotsAtStart == Init => FillPlace /\ OutstandingKept
<1> SUFFICES ASSUME Init PROVE FillPlace /\ OutstandingKept
  OBVIOUS
<1>1. /\ base = ISN /\ nextseqnum = ISN /\ fpos = 0
      /\ window = [t \in Slots |-> Garbled]
  BY DEF Init, TransferInit
<1>2. SeqRange(base, nextseqnum) = {}
  BY <1>1, PosFacts, OffsetSelf, OffsetType DEF SeqRange
<1> QED BY <1>1, <1>2, PosFacts, ConstantFacts DEF FillPlace, OutstandingKept

LEMMA SlotsStep ==
  ASSUME SlotsSuffice, SweepStops, SweepStops', FillPlace, OutstandingKept, [Next]_vars
  PROVE  FillPlace' /\ OutstandingKept'
<1>1. /\ base \in SeqNums /\ nextseqnum \in SeqNums /\ next_seq(base) \in SeqNums
      /\ fpos = Pos(nextseqnum) /\ fpos \in 0..N
      /\ window = [t \in Slots |-> window[t]] /\ Pos(base) <= Pos(nextseqnum)
      /\ Pos(base) \in 0..N /\ N < SEQ_MAX
  BY PosFacts, ConstantFacts DEF FillPlace, SweepStops
<1>2. CASE UNCHANGED <<base, nextseqnum, fpos, window>>
  BY <1>1, <1>2 DEF FillPlace, OutstandingKept, Pos
<1>3. CASE SRFillChunk
  <2>1. /\ UNCHANGED base /\ nextseqnum' = next_seq(nextseqnum)
        /\ fpos < N /\ fpos' = fpos + 1
        /\ window' = [window EXCEPT ![Slot(nextseqnum)] = DataPacket(nextseqnum, fpos + 1)]
    BY <1>3 DEF SRFillChunk, FillChunk
  <2>2. nextseqnum' \in SeqNums /\ Pos(nextseqnum') = Pos(nextseqnum) + 1
    BY <1>1, <2>1, PosFacts, ConstantFacts
  <2>3. FillPlace'
    BY <1>1, <2>1, <2>2, ConstantFacts DEF FillPlace, Pos
  <2>4. OutstandingKept'
    BY <1>1, <1>3, FillKeepsSlots DEF SRFillChunk, OutstandingKept, HeldInSlots
  <2> QED BY <2>3, <2>4
<1>4. CASE SweepStep
  <2>1. base' = next_seq(base) /\ UNCHANGED <<nextseqnum, fpos, window>>
    BY <1>4 DEF SweepStep, fileVars
  <2>2. FillPlace'
    BY <1>1, <2>1 DEF FillPlace, Pos
  <2>3. Pos(base') = Pos(base) + 1 /\ Pos(base') <= Pos(nextseqnum)
    <3>1. Pos(base') <= Pos(nextseqnum')
      BY DEF SweepStops, Pos
    <3> QED BY <1>1, <2>1, <3>1, PosFacts, ConstantFacts
  <2>4. SeqRange(base', nextseqnum) \subseteq SeqRange(base, nextseqnum)
    BY <1>1, <2>1, <2>3, PosFacts, SeqRangeInterval DEF Pos, SeqRange
  <2> QED BY <2>1, <2>2, <2>4 DEF OutstandingKept
<1> QED
  BY <1>2, <1>3, <1>4, WhoMoves
     DEF Still, SRFillEnd, FillEnd, WriteStep, WriteEnd, AckEvent, ReceiveFresh, senderVars,
         fileVars

(* A resend sends what was lost and nothing else (sender.c:502-511), for a *)
(* file of any length on a ring of any size: no outstanding packet is      *)
(* overwritten by the one that takes its slot a lap later, as long as the  *)
(* sweep stops at nextseqnum.                                              *)
THEOREM SROutstandingAlwaysKept ==
  ASSUME SlotsSuffice
  PROVE  Spec /\ []SweepStops => []OutstandingKept
<1>1. Init => FillPlace /\ OutstandingKept
  BY SlotsAtStart
<1>2. SweepStops /\ SweepStops' /\ FillPlace /\ OutstandingKept /\ [Next]_vars
        => FillPlace' /\ OutstandingKept'
  BY SlotsStep
<1> QED BY <1>1, <1>2, PTL DEF Spec

-----------------------------------------------------------------------------
(* Mode 1 implements FileTransfer.                                         *)
LEMMA TransferInitially == Init => Transfer!Init
BY DEF Init, TransferInit, Transfer!Init, Transfer!FirstChunks, ReceiverComplete

\* The control states of the two ends, as FileTransfer sees them.
receiverEnd == IF rpc \in {"data", "write"} THEN "open"
               ELSE IF ReceiverComplete THEN "complete" ELSE "aborted"
senderEnd   == CASE spc = "ok" -> "succeeded" [] spc = "failed" -> "failed"
                 [] OTHER -> "active"

LEMMA TransferStep ==
  ASSUME RingNeverReused, "read" \notin Faults, IInv, Positions', [Next]_vars
  PROVE  [Transfer!Next]_(Transfer!vars)
<1> DEFINE Same == UNCHANGED <<written, receiverEnd, senderEnd>>
<1>1. Same => [Transfer!Next]_(Transfer!vars)
  BY DEF Transfer!vars, receiverEnd, senderEnd
<1>2. CASE WriteStep
  <2>1. /\ UNCHANGED <<rpc, spc>> /\ rpc = "write"
        /\ cursor' = next_seq(cursor)
    BY <1>2 DEF WriteStep, senderVars
  <2>2. /\ Pos(cursor) \in 0..N /\ Pos(cursor') \in 0..N
        /\ written = FirstChunks(Pos(cursor)) /\ written' = FirstChunks(Pos(cursor'))
        /\ cursor \in SeqNums
    BY CounterFacts, PosFacts, ConstantFacts
    DEF IInv, Counts, Numbers, Positions, Pos
  <2>3. Pos(cursor') = Pos(cursor) + 1
    BY <2>1, <2>2, PosFacts, ConstantFacts
  <2>4. Transfer!Deliver
    BY <2>1, <2>2, <2>3
    DEF Transfer!Deliver, Transfer!FirstChunks, FirstChunks, ReceiverComplete
  <2> QED BY <2>4 DEF Transfer!Next
<1>3. CASE \E p \in toReceiver : ReceiveFin(p)
  <2>1. /\ rpc = "data" /\ rpc' = "finack" /\ UNCHANGED <<written, expected, senderVars>>
    BY <1>3 DEF ReceiveFin
  <2>2. Closing /\ expected = nextseqnum
    BY <1>3 DEF ReceiveFin, IsFin, IInv, Genuine, GenuineToReceiver
  <2>3. fpos = N /\ fpos = Pos(nextseqnum) /\ cursor = expected
    BY <2>1, <2>2 DEF IInv, Endings, EndOfFile, Counts
  <2>4. written = FirstChunks(N)
    BY <2>2, <2>3 DEF IInv, Counts
  <2>5. Transfer!Complete
    BY <2>1, <2>4
    DEF Transfer!Complete, Transfer!FirstChunks, FirstChunks, ReceiverComplete, senderVars
  <2> QED BY <2>5 DEF Transfer!Next
<1>4. CASE DataTimeout \/ WriteFails
  <2>1. /\ rpc \in {"data", "write"} /\ rpc' \in {"failed", "abandoned"}
        /\ UNCHANGED <<written, spc>>
    BY <1>4 DEF DataTimeout, WriteFails, senderVars
  <2>2. Transfer!Abort
    BY <2>1 DEF Transfer!Abort, ReceiverComplete
  <2> QED BY <2>2 DEF Transfer!Next
<1>5. CASE \E p \in toSender : ReceiveFinAck(p)
  <2>1. /\ spc = "finwait" /\ spc' \in {"ok", "fin"} /\ UNCHANGED <<written, rpc>>
        /\ spc' = "ok" => \E p \in toSender : p.intact /\ "FIN" \in p.flags
    BY <1>5 DEF ReceiveFinAck, receiverVars
  <2>2. spc' = "ok" => ReceiverComplete
    BY <2>1 DEF IInv, Genuine, GenuineToSender
  <2>3. CASE spc' = "ok"
    <3>1. Transfer!Succeed
      BY <2>1, <2>2, <2>3 DEF Transfer!Succeed, ReceiverComplete
    <3> QED BY <3>1 DEF Transfer!Next
  <2>4. CASE spc' = "fin"
    BY <1>1, <2>1, <2>4 DEF receiverEnd, senderEnd, ReceiverComplete
  <2> QED BY <2>1, <2>3, <2>4
<1>6. CASE GiveUp
  <2>1. spc = "fin" /\ spc' = "failed" /\ UNCHANGED <<written, rpc>>
    BY <1>6 DEF GiveUp, receiverVars
  <2>2. Transfer!Fail
    BY <2>1 DEF Transfer!Fail, ReceiverComplete
  <2> QED BY <2>2 DEF Transfer!Next
<1>7. CASE /\ UNCHANGED written
           /\ \/ UNCHANGED rpc
              \/ rpc \in {"data", "write"} /\ rpc' \in {"data", "write"}
              \/ ReceiverComplete /\ ReceiverComplete'
           /\ UNCHANGED spc \/ (spc \notin {"ok", "failed"} /\ spc' \notin {"ok", "failed"})
  BY <1>1, <1>7 DEF receiverEnd, senderEnd, ReceiverComplete
<1> QED
  <2>1. CASE SenderLoop \/ SRFillChunk \/ SRFillEnd \/ TimerFires \/ TimerEvent \/ SweepStep
               \/ SweepEnd \/ (\E p \in toSender : AckEvent(p)) \/ StartClose \/ SendFin
               \/ FinTimeout
    BY <1>7, <2>1
    DEF SenderLoop, SRFillChunk, SRFillEnd, FillChunk, FillEnd, FillNothing, PollEvents,
        PollTimeout, HandleNoPacket, TimerFires, TimerEvent, HandleTimer, AckEvent, SweepStep,
        SweepEnd, Handling, NextEvent, StartClose, SendFin, FinTimeout, receiverVars
  <2>2. CASE SendFinAck \/ LingerTimeout \/ (\E p \in toReceiver : LingerReceive(p)) \/ WriteEnd
               \/ (\E p \in toReceiver : ReceiveFresh(p))
    BY <1>7, <2>2
    DEF SendFinAck, LingerTimeout, LingerReceive, WriteEnd, ReceiveFresh, ReceiverComplete, senderVars
  <2>3. CASE Network \/ Stopped \/ (\E p \in toReceiver : ReceiveOther(p) \/ ReceiveIgnored(p))
    BY <1>7, <2>3
    DEF Network, Lose, Corrupt, Stopped, transferVars, senderVars, receiverVars, ReceiveOther,
        ReceiveIgnored
  <2>4. CASE UNCHANGED vars
    BY <1>7, <2>4 DEF vars, transferVars, senderVars, receiverVars
  <2> QED
    BY <1>2, <1>3, <1>4, <1>5, <1>6, <2>1, <2>2, <2>3, <2>4
    DEF Next, Shared, SenderClose, ReceiverClose, Receive, WriteLoop

(* Unless fread fails, a transfer delivers the file in order, its receiver *)
(* ends it only with the whole file, and its sender reports success only   *)
(* after that (sender.c:158-203, receiver.c:284-292, 311-327).             *)
THEOREM SRImplementsTransfer ==
  ASSUME RingNeverReused, "read" \notin Faults
  PROVE  Spec => ImplementsTransfer
<1>1. IInv /\ [Next]_vars => [Transfer!Next]_(Transfer!vars)
  BY PositionsStep, TransferStep
<1>2. Init => Transfer!Init
  BY TransferInitially
<1> QED BY <1>1, <1>2, SRInvariantHolds, PTL DEF Spec, ImplementsTransfer, Transfer!Spec
=============================================================================
