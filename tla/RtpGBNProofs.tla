---------------------------- MODULE RtpGBNProofs ----------------------------
(***************************************************************************)
(* Theorems about mode 0 of the RTP transport, for every file length,      *)
(* window, first number and combination of faults.                         *)
(***************************************************************************)
EXTENDS RtpGBN, RtpTransferProofs

(* What the packets under way can be: data is what fread returned, a FIN   *)
(* carries the number after the last chunk, an ACK never runs ahead of the *)
(* receiver, a FIN+ACK follows the receiver's completion.                  *)
GenuineToReceiver ==
  {p \in PacketType : p.intact =>
     /\ p.flags = {} => p.chunk = Pos(p.seq) + 1 /\ p.chunk <= fpos
     /\ "FIN" \in p.flags => Closing /\ p.seq = nextseqnum}

GenuineData == {p \in GenuineToReceiver : p.flags = {}}

GenuineToSender ==
  {p \in PacketType : p.intact =>
     /\ Pos(p.seq) <= Pos(expected)
     /\ "FIN" \in p.flags => ReceiverComplete}

Genuine ==
  /\ toReceiver \subseteq GenuineToReceiver
  /\ window \in [Slots -> GenuineData]
  /\ toSender \subseteq GenuineToSender

(* The ends agree on how far the transfer is.                              *)
Counts ==
  /\ fpos = Pos(nextseqnum)
  /\ written = FirstChunks(Pos(expected))

Endings ==
  /\ Closing => input_eof /\ base = nextseqnum
  /\ ReceiverComplete => Closing /\ expected = nextseqnum
  /\ spc = "ok" => ReceiverComplete
  /\ spc = "finwait" => tries < MAXTRY

(* The inductive invariant behind the theorems.                            *)
IInv ==
  /\ TypeOK
  /\ WindowsAgree
  /\ TimerCoversWindow
  /\ Genuine
  /\ Counts
  /\ EndOfFile
  /\ Endings

-----------------------------------------------------------------------------
LEMMA InitIInv == Init => IInv
<1> SUFFICES ASSUME Init PROVE IInv
  OBVIOUS
<1> USE DEF Init, TransferInit
<1>1. toReceiver \subseteq StaleToReceiver /\ toSender \subseteq StaleToSender(0)
  OBVIOUS
<1>2. TypeOK
  <2>1. toReceiver \subseteq PacketType /\ toSender \subseteq PacketType
    BY <1>1, PacketTypes
  <2>2. window \in [Slots -> PacketType]
    BY PacketTypes
  <2>3. events \in Seq({"timer", "socket"}) /\ Len(events) = 0 /\ written \in Seq(1..N)
    OBVIOUS
  <2>4. base \in SeqNums /\ nextseqnum \in SeqNums /\ expected \in SeqNums
    BY PosFacts
  <2>5. TransferTypeOK
    <3>1. fpos = 0 /\ tries = 0 /\ input_eof = FALSE /\ timer = "off"
      OBVIOUS
    <3> HIDE DEF Init, TransferInit
    <3>2. fpos \in 0..N /\ tries \in 0..MAXTRY /\ Len(events) \in 0..2
          /\ timer \in {"off", "armed", "expired"}
      BY <3>1, <2>3, ConstantFacts
    <3>3. input_eof \in BOOLEAN
      BY <3>1
    <3> QED BY <2>1, <2>2, <2>3, <2>4, <3>2, <3>3, Zenon DEF TransferTypeOK
  <2> QED BY <2>5 DEF TypeOK
<1>3. WindowsAgree /\ TimerCoversWindow
  BY PosFacts, ConstantFacts DEF WindowsAgree, TimerCoversWindow
<1>4. Garbled \in GenuineData
  BY PacketTypes DEF GenuineData, GenuineToReceiver, Garbled
<1>5. StaleToReceiver \subseteq GenuineToReceiver
  <2>1. ASSUME NEW p \in StaleToReceiver PROVE p.flags # {} /\ "FIN" \notin p.flags
    <3>1. p.flags = {"SYN"} \/ p.flags = {"ACK"}
      BY <2>1 DEF StaleToReceiver, Syn, Packet, Ack
    <3> QED BY <3>1
  <2> QED BY <2>1, PacketTypes DEF GenuineToReceiver
<1>6. StaleToSender(0) \subseteq GenuineToSender
  BY PacketTypes, PosFacts DEF GenuineToSender, StaleToSender, SynAck, Packet, Ack
<1>7. Genuine
  BY <1>1, <1>4, <1>5, <1>6 DEF Genuine
<1>8. Counts /\ EndOfFile /\ Endings
  BY PosFacts DEF Counts, EndOfFile, Endings, Closing, ReceiverComplete, FirstChunks
<1> QED BY <1>2, <1>3, <1>7, <1>8 DEF IInv

-----------------------------------------------------------------------------
(* Only three actions move the transfer forward.                           *)
LEMMA WhoMoves ==
  ASSUME [Next]_vars
  PROVE  \/ UNCHANGED <<base, nextseqnum, fpos, window, expected, written>>
         \/ FillChunk
         \/ \E p \in toSender : AckEvent(p)
         \/ \E p \in toReceiver : ReceiveChunk(p)
BY DEF vars, transferVars, netVars, fileVars, senderVars, receiverVars, Next, SenderLoop,
       SenderClose, ReceiverClose, Network, Receive, Stopped, FillNothing, PollEvents,
       PollTimeout, HandleNoPacket, FillEnd, TimerFires, TimerEvent, HandleTimer,
       ReceiveChunkFails, ReceiveFin, ReceiveOther, StartClose, SendFin, FinTimeout,
       GiveUp, ReceiveFinAck, DataTimeout, SendFinAck, LingerTimeout, LingerReceive,
       Lose, Corrupt

Positions ==
  /\ base \in SeqNums /\ nextseqnum \in SeqNums /\ expected \in SeqNums
  /\ fpos \in 0..N
  /\ written \in Seq(1..N)
  /\ Counts
  /\ WindowsAgree

LEMMA PositionsStep == IInv /\ [Next]_vars => Positions'
<1> SUFFICES ASSUME IInv, [Next]_vars PROVE Positions'
  OBVIOUS
<1>1. /\ base \in SeqNums /\ nextseqnum \in SeqNums /\ expected \in SeqNums
      /\ fpos \in 0..N /\ written \in Seq(1..N)
      /\ toReceiver \subseteq PacketType /\ toSender \subseteq PacketType
  BY DEF IInv, TypeOK, TransferTypeOK
<1>2. /\ fpos = Pos(nextseqnum) /\ written = FirstChunks(Pos(expected))
      /\ Pos(base) <= Pos(expected) /\ Pos(expected) <= Pos(nextseqnum)
      /\ Pos(nextseqnum) <= Pos(base) + WS
  BY DEF IInv, Counts, WindowsAgree
<1>3. /\ Pos(base) \in 0..N /\ Pos(expected) \in 0..N /\ Pos(nextseqnum) \in 0..N
      /\ Pos(base) + 1 + WS <= SEQ_MAX + 1 /\ N < SEQ_MAX
  BY <1>1, <1>2, PosFacts, ConstantFacts
<1>4. CASE UNCHANGED <<base, nextseqnum, fpos, window, expected, written>>
  BY <1>1, <1>2, <1>4 DEF Positions, Counts, WindowsAgree, Pos
<1>5. CASE FillChunk
  <2>1. /\ nextseqnum' = next_seq(nextseqnum) /\ fpos' = fpos + 1 /\ fpos < N
        /\ UNCHANGED <<base, expected, written>>
        /\ in_window(nextseqnum, base, WS)
    BY <1>5 DEF FillChunk, receiverVars
  <2>2. nextseqnum' \in SeqNums /\ Pos(nextseqnum') = Pos(nextseqnum) + 1
    BY <1>1, <1>3, <2>1, PosFacts, ConstantFacts
  <2>3. Pos(nextseqnum) < Pos(base) + WS
    BY <1>1, <1>3, <2>1, WindowPos, ConstantFacts
  <2> HIDE DEF Pos
  <2> QED
    BY <1>1, <1>2, <1>3, <2>1, <2>2, <2>3, ConstantFacts DEF Positions, Counts, WindowsAgree
<1>6. ASSUME NEW p \in toSender, AckEvent(p) PROVE Positions'
  <2>1. /\ UNCHANGED <<nextseqnum, fpos, expected, written>>
        /\ \/ UNCHANGED base
           \/ base' = p.seq /\ p.intact /\ in_window(p.seq, next_seq(base), WS)
    BY <1>6 DEF AckEvent, IsAck, fileVars, receiverVars
  <2>2. p.seq \in SeqNums /\ (p.intact => Pos(p.seq) <= Pos(expected))
    BY <1>1 DEF IInv, Genuine, GenuineToSender, PacketType
  <2>3. next_seq(base) \in SeqNums /\ Pos(next_seq(base)) = Pos(base) + 1
    BY <1>1, <1>3, PosFacts, ConstantFacts
  <2>4. in_window(p.seq, next_seq(base), WS) => Pos(base) < Pos(p.seq)
    BY <1>1, <1>3, <2>2, <2>3, WindowPos, PosFacts, ConstantFacts
  <2>5. base' \in SeqNums /\ Pos(base) <= Pos(base') /\ Pos(base') <= Pos(expected)
    BY <1>1, <1>2, <1>3, <2>1, <2>2, <2>4, PosFacts, ConstantFacts
  <2> QED
    BY <1>1, <1>2, <1>3, <2>1, <2>5, PosFacts, ConstantFacts DEF Positions, Counts, WindowsAgree
<1>7. ASSUME NEW p \in toReceiver, ReceiveChunk(p) PROVE Positions'
  <2>1. /\ p.intact /\ p.flags = {} /\ p.seq = expected
        /\ written' = Append(written, p.chunk) /\ expected' = next_seq(expected)
        /\ UNCHANGED <<base, nextseqnum, fpos>>
    BY <1>7 DEF ReceiveChunk, IsNextChunk, senderVars, fileVars
  <2>2. p.chunk = Pos(expected) + 1 /\ p.chunk <= fpos
    BY <2>1 DEF IInv, Genuine, GenuineToReceiver
  <2>3. expected' \in SeqNums /\ Pos(expected') = Pos(expected) + 1
    BY <1>1, <1>3, <2>1, PosFacts, ConstantFacts
  <2>4. written' = FirstChunks(Pos(expected) + 1)
    BY <1>2, <1>3, <2>1, <2>2 DEF FirstChunks
  <2>5. written' \in Seq(1..N)
    <3>1. p.chunk \in 1..N
      BY <1>1, <1>3, <2>2, ConstantFacts
    <3> QED BY <1>1, <2>1, <3>1
  <2> QED
    BY <1>1, <1>2, <1>3, <2>1, <2>2, <2>3, <2>4, <2>5 DEF Positions, Counts, WindowsAgree
<1> QED BY <1>4, <1>5, <1>6, <1>7, WhoMoves

-----------------------------------------------------------------------------
(* Neither end goes back: what a packet under way may be only grows.       *)
LEMMA NeverBack ==
  ASSUME IInv, [Next]_vars
  PROVE  /\ Closing => Closing' /\ UNCHANGED nextseqnum
         /\ ReceiverComplete => ReceiverComplete'
         /\ Pos(expected) <= Pos(expected')
         /\ fpos <= fpos'
<1> USE DEF vars, transferVars, netVars, fileVars, senderVars, receiverVars, Next,
      SenderLoop, SenderClose, ReceiverClose, Network, Receive, Stopped, FillChunk,
      FillEnd, FillNothing, PollEvents, PollTimeout, HandleNoPacket, TimerFires,
      TimerEvent, HandleTimer, AckEvent, Handling, NextEvent, ReceiveChunk,
      ReceiveChunkFails, ReceiveFin, ReceiveOther, StartClose, SendFin, FinTimeout,
      GiveUp, ReceiveFinAck, DataTimeout, SendFinAck, LingerTimeout, LingerReceive,
      Lose, Corrupt
<1>1. Closing => Closing' /\ UNCHANGED nextseqnum
  BY DEF Closing
<1>2. ReceiverComplete => ReceiverComplete'
  BY DEF ReceiverComplete
<1>3. fpos' = fpos \/ fpos' = fpos + 1
  OBVIOUS
<1>4. expected' = expected \/ expected' = next_seq(expected)
  OBVIOUS
<1> HIDE DEF Next, vars
<1>5. /\ fpos \in 0..N /\ expected \in SeqNums /\ Pos(expected) <= fpos
      /\ N < SEQ_MAX
  BY ConstantFacts DEF IInv, TypeOK, TransferTypeOK, Counts, WindowsAgree
<1>6. Pos(expected') = Pos(expected) \/ Pos(expected') = Pos(expected) + 1
  BY <1>4, <1>5, PosFacts, ConstantFacts DEF Pos
<1> QED BY <1>1, <1>2, <1>3, <1>5, <1>6, PosFacts

LEMMA GenuineGrows ==
  ASSUME IInv, [Next]_vars, Positions'
  PROVE  /\ GenuineToReceiver \subseteq GenuineToReceiver'
         /\ GenuineData \subseteq GenuineData'
         /\ GenuineToSender \subseteq GenuineToSender'
<1>1. /\ fpos \in Int /\ fpos' \in Int
      /\ \A p \in PacketType : p.chunk \in Int /\ Pos(p.seq) \in Int
      /\ Pos(expected) \in Int /\ Pos(expected') \in Int
  BY PosFacts DEF IInv, TypeOK, TransferTypeOK, Positions, PacketType
<1>2. GenuineToReceiver \subseteq GenuineToReceiver'
  BY <1>1, NeverBack DEF GenuineToReceiver
<1>3. GenuineData \subseteq GenuineData'
  BY <1>2 DEF GenuineData
<1>4. GenuineToSender \subseteq GenuineToSender'
  BY <1>1, NeverBack DEF GenuineToSender
<1> QED BY <1>2, <1>3, <1>4

(* Where a packet under way comes from.                                    *)
LEMMA NewToReceiver ==
  ASSUME [Next]_vars, NEW q \in toReceiver', q \notin toReceiver, q # Garbled
  PROVE  \/ FillChunk /\ q = DataPacket(nextseqnum, fpos + 1)
         \/ \E s \in SeqNums : q = window[Slot(s)]
         \/ spc = "fin" /\ q = Fin(nextseqnum)
<1>1. CASE UNCHANGED toReceiver \/ Lose \/ Corrupt
  BY <1>1 DEF Lose, Corrupt
<1>2. CASE \E p \in toReceiver : Receive(p) \/ LingerReceive(p)
  BY <1>2 DEF Receive, ReceiveChunk, ReceiveChunkFails, ReceiveFin, ReceiveOther,
              LingerReceive, AfterDelivery
<1>3. CASE FillChunk
  BY <1>3 DEF FillChunk
<1>4. CASE TimerEvent
  BY <1>4 DEF TimerEvent, HandleTimer, SeqRange
<1>5. CASE SendFin
  BY <1>5 DEF SendFin
<1>6. UNCHANGED toReceiver \/ Lose \/ Corrupt \/ FillChunk \/ TimerEvent \/ SendFin
        \/ \E p \in toReceiver : Receive(p) \/ LingerReceive(p)
  BY DEF vars, transferVars, netVars, Next, SenderLoop, SenderClose, ReceiverClose,
         Network, Stopped, FillEnd, FillNothing, PollEvents, PollTimeout, HandleNoPacket,
         TimerFires, AckEvent, StartClose, FinTimeout, GiveUp, ReceiveFinAck, DataTimeout,
         SendFinAck, LingerTimeout
<1> QED BY <1>1, <1>2, <1>3, <1>4, <1>5, <1>6

LEMMA NewToSender ==
  ASSUME [Next]_vars, NEW q \in toSender', q \notin toSender, q # Garbled
  PROVE  \/ q = Ack(expected')
         \/ rpc = "finack" /\ q = FinAck(expected)
<1>1. CASE UNCHANGED toSender \/ Lose \/ Corrupt
  BY <1>1 DEF Lose, Corrupt
<1>2. CASE \E p \in toSender : AckEvent(p) \/ ReceiveFinAck(p)
  BY <1>2 DEF AckEvent, ReceiveFinAck, AfterDelivery
<1>3. CASE \E p \in toReceiver : ReceiveChunk(p) \/ ReceiveOther(p)
  BY <1>3 DEF ReceiveChunk, ReceiveOther, receiverVars
<1>4. CASE SendFinAck
  BY <1>4 DEF SendFinAck
<1>5. UNCHANGED toSender \/ Lose \/ Corrupt \/ SendFinAck
        \/ (\E p \in toSender : AckEvent(p) \/ ReceiveFinAck(p))
        \/ (\E p \in toReceiver : ReceiveChunk(p) \/ ReceiveOther(p))
  BY DEF vars, transferVars, netVars, Next, SenderLoop, SenderClose, ReceiverClose,
         Network, Stopped, FillChunk, FillEnd, FillNothing, PollEvents, PollTimeout,
         HandleNoPacket, TimerFires, TimerEvent, HandleTimer, StartClose, SendFin,
         FinTimeout, GiveUp, DataTimeout, LingerTimeout, LingerReceive, Receive,
         ReceiveChunkFails, ReceiveFin
<1> QED BY <1>1, <1>2, <1>3, <1>4, <1>5

LEMMA GenuineStep == IInv /\ [Next]_vars => Genuine'
<1> SUFFICES ASSUME IInv, [Next]_vars PROVE Genuine'
  OBVIOUS
<1>1. Positions' /\ Positions
  BY PositionsStep DEF IInv, TypeOK, TransferTypeOK, Positions
<1>2. /\ GenuineToReceiver \subseteq GenuineToReceiver'
      /\ GenuineData \subseteq GenuineData'
      /\ GenuineToSender \subseteq GenuineToSender'
  BY <1>1, GenuineGrows
<1>3. /\ toReceiver \subseteq GenuineToReceiver
      /\ window \in [Slots -> GenuineData]
      /\ toSender \subseteq GenuineToSender
  BY DEF IInv, Genuine
<1>4. Garbled \in GenuineToReceiver' /\ Garbled \in GenuineToSender'
  BY PacketTypes DEF GenuineToReceiver, GenuineToSender, Garbled
<1>5. FillChunk => DataPacket(nextseqnum, fpos + 1) \in GenuineData'
  <2> SUFFICES ASSUME FillChunk PROVE DataPacket(nextseqnum, fpos + 1) \in GenuineData'
    OBVIOUS
  <2>1. /\ fpos' = fpos + 1 /\ fpos = Pos(nextseqnum) /\ fpos + 1 \in 1..N
        /\ nextseqnum \in SeqNums
    BY <1>1 DEF FillChunk, Positions, Counts
  <2>2. DataPacket(nextseqnum, fpos + 1) \in PacketType
    BY <2>1, PacketTypes
  <2> QED BY <2>1, <2>2 DEF GenuineData, GenuineToReceiver, DataPacket, Packet
<1>6. ASSUME NEW q \in toReceiver' PROVE q \in GenuineToReceiver'
  <2>1. CASE q \in toReceiver \/ q = Garbled
    BY <2>1, <1>2, <1>3, <1>4
  <2>2. CASE FillChunk /\ q = DataPacket(nextseqnum, fpos + 1)
    BY <2>2, <1>5 DEF GenuineData
  <2>3. CASE \E s \in SeqNums : q = window[Slot(s)]
    BY <2>3, <1>2, <1>3, SlotType DEF GenuineData
  <2>4. CASE spc = "fin" /\ q = Fin(nextseqnum)
    <3>1. Closing' /\ nextseqnum' = nextseqnum /\ q \in PacketType
      BY <1>1, <2>4, NeverBack, PacketTypes DEF Closing, Positions
    <3>2. q.flags # {} /\ q.seq = nextseqnum
      BY <2>4 DEF Fin, Packet
    <3> QED BY <3>1, <3>2 DEF GenuineToReceiver
  <2> QED BY <1>6, <2>1, <2>2, <2>3, <2>4, NewToReceiver
<1>7. window' \in [Slots -> GenuineData']
  <2>1. CASE UNCHANGED window
    BY <1>2, <1>3, <2>1
  <2>2. CASE FillChunk
    BY <1>2, <1>3, <1>5, <2>2 DEF FillChunk
  <2> QED BY <2>1, <2>2, WhoMoves DEF AckEvent, ReceiveChunk, fileVars, senderVars
<1>8. ASSUME NEW q \in toSender' PROVE q \in GenuineToSender'
  <2>1. CASE q \in toSender \/ q = Garbled
    BY <2>1, <1>2, <1>3, <1>4
  <2>2. CASE q = Ack(expected')
    <3>1. q \in PacketType /\ q.seq = expected' /\ q.flags = {"ACK"}
      BY <1>1, <2>2, PacketTypes DEF Positions, Ack, Packet
    <3>2. Pos(q.seq) <= Pos(expected')
      BY <1>1, <3>1, PosFacts DEF Positions
    <3> QED BY <3>1, <3>2 DEF GenuineToSender
  <2>3. CASE rpc = "finack" /\ q = FinAck(expected)
    <3>1. q \in PacketType /\ q.seq = expected
      BY <1>1, <2>3, PacketTypes DEF Positions, FinAck, Packet
    <3>2. ReceiverComplete' /\ Pos(expected) <= Pos(expected')
      BY <2>3, NeverBack DEF ReceiverComplete
    <3> QED BY <3>1, <3>2 DEF GenuineToSender
  <2> QED BY <1>8, <2>1, <2>2, <2>3, NewToSender
<1> QED BY <1>6, <1>7, <1>8 DEF Genuine

-----------------------------------------------------------------------------
(* The timer.                                                              *)
LEMMA TimerStep == IInv /\ [Next]_vars => TimerCoversWindow'
<1> SUFFICES ASSUME IInv, [Next]_vars PROVE TimerCoversWindow'
  OBVIOUS
<1>1. /\ base \in SeqNums /\ nextseqnum \in SeqNums /\ Pos(nextseqnum) < SEQ_MAX
      /\ Pos(base) <= Pos(nextseqnum)
      /\ timer # "off" <=> base # nextseqnum
  BY PosFacts, ConstantFacts
     DEF IInv, TypeOK, TransferTypeOK, WindowsAgree, Counts, TimerCoversWindow
<1>2. CASE UNCHANGED <<base, nextseqnum, timer>>
  BY <1>1, <1>2 DEF TimerCoversWindow
<1>3. CASE FillChunk
  <2>1. /\ UNCHANGED base /\ nextseqnum' = next_seq(nextseqnum)
        /\ timer' = IF base = nextseqnum THEN "armed" ELSE timer
    BY <1>3 DEF FillChunk
  <2>2. Pos(nextseqnum') = Pos(nextseqnum) + 1
    BY <1>1, <2>1, PosFacts
  <2>3. base' # nextseqnum'
    BY <1>1, <2>1, <2>2, PosFacts
  <2> QED BY <1>1, <2>1, <2>3 DEF TimerCoversWindow
<1>4. CASE TimerFires
  BY <1>1, <1>4 DEF TimerFires, fileVars, TimerCoversWindow
<1>5. CASE TimerEvent
  BY <1>1, <1>5 DEF TimerEvent, HandleTimer, fileVars, TimerCoversWindow
<1>6. CASE \E p \in toSender : AckEvent(p)
  BY <1>1, <1>6 DEF AckEvent, TimerFor, fileVars, TimerCoversWindow
<1> QED
  BY <1>2, <1>3, <1>4, <1>5, <1>6
  DEF vars, transferVars, netVars, senderVars, fileVars, Next, SenderLoop, SenderClose,
      ReceiverClose, Network, Stopped, FillEnd, FillNothing, PollEvents, PollTimeout,
      HandleNoPacket, StartClose, SendFin, FinTimeout, GiveUp, ReceiveFinAck, DataTimeout,
      SendFinAck, LingerTimeout, LingerReceive, Lose, Corrupt, Receive, ReceiveChunk,
      ReceiveChunkFails, ReceiveFin, ReceiveOther

(* The end of the file.                                                    *)
LEMMA EndOfFileStep == IInv /\ [Next]_vars => EndOfFile'
<1> SUFFICES ASSUME IInv, [Next]_vars PROVE EndOfFile'
  OBVIOUS
<1>1. CASE UNCHANGED <<input_eof, fpos>>
  BY <1>1 DEF IInv, EndOfFile
<1>2. CASE FillChunk
  BY <1>2 DEF FillChunk, EndOfFile
<1>3. CASE FillEnd
  BY <1>3 DEF FillEnd, EndOfFile
<1> QED
  BY <1>1, <1>2, <1>3
  DEF vars, transferVars, netVars, senderVars, fileVars, Next, SenderLoop, SenderClose,
      ReceiverClose, Network, Stopped, FillNothing, PollEvents, PollTimeout,
      HandleNoPacket, StartClose, SendFin, FinTimeout, GiveUp, ReceiveFinAck, DataTimeout,
      SendFinAck, LingerTimeout, LingerReceive, Lose, Corrupt, Receive, ReceiveChunk,
      ReceiveChunkFails, ReceiveFin, ReceiveOther, TimerFires, TimerEvent, HandleTimer, AckEvent

(* The end of the connection.                                              *)
LEMMA EndingsStep == IInv /\ [Next]_vars => Endings'
<1> SUFFICES ASSUME IInv, [Next]_vars PROVE Endings'
  OBVIOUS
<1>1. Endings
  BY DEF IInv
<1>2. CASE UNCHANGED <<spc, rpc, input_eof, base, nextseqnum, expected, tries>>
  BY <1>1, <1>2 DEF Endings, Closing, ReceiverComplete
<1>3. CASE FillChunk \/ FillEnd \/ SenderLoop \/ TimerEvent \/ (\E p \in toSender : AckEvent(p))
  <2>1. ~Closing /\ ~Closing' /\ UNCHANGED <<rpc, expected>> /\ spc' # "ok" /\ spc' # "finwait"
    BY <1>3 DEF FillChunk, FillEnd, SenderLoop, FillNothing, PollEvents, PollTimeout,
                HandleNoPacket, TimerEvent, HandleTimer, AckEvent, Handling, NextEvent,
                Closing, receiverVars
  <2> QED BY <1>1, <2>1 DEF Endings, ReceiverComplete
<1>4. CASE StartClose \/ SendFin \/ FinTimeout \/ GiveUp
  BY <1>1, <1>4, ConstantFacts
  DEF StartClose, SendFin, FinTimeout, GiveUp, fileVars, receiverVars, Endings, Closing, ReceiverComplete
<1>5. ASSUME NEW p \in toSender, ReceiveFinAck(p) PROVE Endings'
  <2>1. p.intact /\ "FIN" \in p.flags => ReceiverComplete
    BY DEF IInv, Genuine, GenuineToSender
  <2>2. /\ spc = "finwait" /\ Closing'
        /\ UNCHANGED <<base, nextseqnum, input_eof, rpc, expected>>
        /\ spc' \in {"ok", "fin"}
        /\ spc' = "ok" => p.intact /\ p.flags = {"ACK", "FIN"}
    BY <1>5 DEF ReceiveFinAck, Closing, fileVars, receiverVars
  <2>3. spc' = "ok" => ReceiverComplete
    BY <2>1, <2>2
  <2> QED BY <1>1, <2>2, <2>3 DEF Endings, Closing, ReceiverComplete
<1>6. ASSUME NEW p \in toReceiver, Receive(p) PROVE Endings'
  <2>1. CASE ReceiveFin(p)
    <3>1. p.intact /\ p.flags = {"FIN"} /\ p.seq = expected
      BY <2>1 DEF ReceiveFin, IsLastFin
    <3>2. Closing /\ expected = nextseqnum
      BY <3>1 DEF IInv, Genuine, GenuineToReceiver
    <3> QED BY <1>1, <2>1, <3>2 DEF ReceiveFin, senderVars, fileVars, Endings, Closing, ReceiverComplete
  <2>2. CASE ~ReceiveFin(p)
    BY <1>1, <1>6, <2>2
    DEF Receive, ReceiveChunk, ReceiveChunkFails, ReceiveOther, senderVars, fileVars, receiverVars,
        Endings, Closing, ReceiverComplete
  <2> QED BY <2>1, <2>2
<1>7. CASE ReceiverClose
  BY <1>1, <1>7
  DEF ReceiverClose, DataTimeout, SendFinAck, LingerTimeout, LingerReceive, senderVars, fileVars,
      Endings, Closing, ReceiverComplete
<1> QED
  BY <1>2, <1>3, <1>4, <1>5, <1>6, <1>7
  DEF vars, transferVars, netVars, senderVars, fileVars, receiverVars, Next, SenderClose, Network, Stopped,
      TimerFires, Lose, Corrupt

-----------------------------------------------------------------------------
(* The types of what no lemma above covers.                                *)
EventsTyped ==
  /\ events \in Seq({"timer", "socket"})
  /\ Len(events) \in 0..2
  /\ spc = "events" <=> events # <<>>

LEMMA EventsStep ==
  ASSUME TypeOK, [Next]_vars
  PROVE  EventsTyped'
<1> DEFINE E == {"timer", "socket"}
<1>1. events \in Seq(E) /\ Len(events) \in 0..2
  BY DEF TypeOK, TransferTypeOK
<1>2. spc = "events" <=> events # <<>>
  BY DEF TypeOK
<1>3. CASE UNCHANGED events /\ (UNCHANGED spc \/ (spc # "events" /\ spc' # "events"))
  <2>1. spc' = "events" <=> events' # <<>>
    BY <1>2, <1>3
  <2>2. events' \in Seq(E) /\ Len(events') \in 0..2
    BY <1>1, <1>3
  <2> QED BY <2>1, <2>2 DEF EventsTyped
<1>4. CASE PollEvents
  BY <1>4, PollTyped DEF EventsTyped
<1>5. CASE spc = "events" /\ NextEvent
  <2>1. events # <<>>
    BY <1>2, <1>5
  <2> QED BY <1>1, <1>5, <2>1, NextEventTyped DEF EventsTyped
<1>6. \/ UNCHANGED events /\ (UNCHANGED spc \/ (spc # "events" /\ spc' # "events"))
      \/ PollEvents
      \/ spc = "events" /\ NextEvent
  BY DEF vars, transferVars, netVars, senderVars, fileVars, Next, SenderLoop, SenderClose,
      ReceiverClose, Network, Stopped, FillChunk, FillEnd, FillNothing, PollTimeout,
      HandleNoPacket, TimerFires, TimerEvent, HandleTimer, AckEvent, Handling, StartClose,
      SendFin, FinTimeout, GiveUp, ReceiveFinAck, DataTimeout, SendFinAck, LingerTimeout,
      LingerReceive, Lose, Corrupt, Receive, ReceiveChunk, ReceiveChunkFails, ReceiveFin,
      ReceiveOther
<1> QED BY <1>3, <1>4, <1>5, <1>6

LEMMA ControlStep ==
  ASSUME TypeOK, [Next]_vars, spc = "finwait" => tries < MAXTRY
  PROVE  /\ spc' \in {"fill", "poll", "events", "fin", "finwait", "ok", "failed"}
         /\ rpc' \in {"data", "finack", "linger", "done", "failed", "abandoned"}
         /\ timer' \in {"off", "armed", "expired"}
         /\ tries' \in 0..MAXTRY
<1>1. /\ spc \in {"fill", "poll", "events", "fin", "finwait", "ok", "failed"}
      /\ rpc \in {"data", "finack", "linger", "done", "failed", "abandoned"}
      /\ timer \in {"off", "armed", "expired"}
      /\ tries \in 0..MAXTRY
  BY DEF TypeOK, TransferTypeOK
<1> USE DEF vars, transferVars, netVars, senderVars, fileVars, receiverVars, Next,
      SenderLoop, SenderClose, ReceiverClose, Network, Stopped, FillChunk, FillEnd,
      FillNothing, PollEvents, PollTimeout, HandleNoPacket, TimerFires, TimerEvent,
      HandleTimer, AckEvent, Handling, NextEvent, StartClose, SendFin, FinTimeout, GiveUp,
      ReceiveFinAck, DataTimeout, SendFinAck, LingerTimeout, LingerReceive, Lose, Corrupt,
      Receive, ReceiveChunk, ReceiveChunkFails, ReceiveFin, ReceiveOther, TimerFor
<1>2. spc' \in {"fill", "poll", "events", "fin", "finwait", "ok", "failed"}
  BY <1>1
<1>3. rpc' \in {"data", "finack", "linger", "done", "failed", "abandoned"}
  BY <1>1
<1>4. timer' \in {"off", "armed", "expired"}
  BY <1>1
<1>5. \/ UNCHANGED tries \/ StartClose \/ FinTimeout
      \/ \E p \in toSender : ReceiveFinAck(p)
  OBVIOUS
<1>6. tries' = tries \/ tries' = 0 \/ (tries' = tries + 1 /\ spc = "finwait")
  <2> HIDE DEF Next, vars
  <2> QED BY <1>5
<1> HIDE DEF Next, vars
<1> QED BY <1>1, <1>2, <1>3, <1>4, <1>6, ConstantFacts

LEMMA EofType ==
  ASSUME input_eof \in BOOLEAN, [Next]_vars
  PROVE  input_eof' \in BOOLEAN
<1>1. input_eof' = input_eof \/ input_eof' = TRUE
  BY DEF vars, transferVars, netVars, senderVars, fileVars, Next, SenderLoop, SenderClose,
      ReceiverClose, Network, Stopped, FillChunk, FillEnd, FillNothing, PollEvents,
      PollTimeout, HandleNoPacket, TimerFires, TimerEvent, HandleTimer, AckEvent,
      StartClose, SendFin, FinTimeout, GiveUp, ReceiveFinAck, DataTimeout, SendFinAck,
      LingerTimeout, LingerReceive, Lose, Corrupt, Receive, ReceiveChunk,
      ReceiveChunkFails, ReceiveFin, ReceiveOther
<1> QED BY <1>1

LEMMA TypeStep == IInv /\ [Next]_vars => TypeOK'
<1> SUFFICES ASSUME IInv, [Next]_vars PROVE TypeOK'
  OBVIOUS
<1>1. Positions' /\ Genuine'
  BY PositionsStep, GenuineStep
<1>2. toReceiver' \subseteq PacketType /\ toSender' \subseteq PacketType
      /\ window' \in [Slots -> PacketType]
  BY <1>1 DEF Genuine, GenuineToReceiver, GenuineToSender, GenuineData
<1>3. TypeOK /\ input_eof \in BOOLEAN /\ (spc = "finwait" => tries < MAXTRY)
  BY DEF IInv, TypeOK, TransferTypeOK, Endings
<1>4. input_eof' \in BOOLEAN
  BY <1>3, EofType
<1>5. TransferTypeOK'
  BY <1>1, <1>2, <1>3, <1>4, EventsStep, ControlStep DEF TransferTypeOK, Positions, EventsTyped
<1> QED BY <1>3, <1>5, EventsStep, ControlStep DEF TypeOK, EventsTyped

-----------------------------------------------------------------------------
LEMMA Inductive == IInv /\ [Next]_vars => IInv'
<1> SUFFICES ASSUME IInv, [Next]_vars PROVE IInv'
  OBVIOUS
<1>1. Positions'
  BY PositionsStep
<1> QED
  BY <1>1, TypeStep, TimerStep, GenuineStep, EndOfFileStep, EndingsStep DEF IInv, Positions

(* The invariant holds in every reachable state, for every file length,    *)
(* window, number of tries and combination of faults.                      *)
THEOREM InvariantHolds == Spec => []IInv
BY InitIInv, Inductive, PTL DEF Spec

(* Every variable keeps its type (Sender_State_t and the control state of  *)
(* both programs).                                                         *)
THEOREM TypeCorrect == Spec => []TypeOK
<1>1. IInv => TypeOK
  BY DEF IInv
<1> QED BY <1>1, InvariantHolds, PTL

(* The two windows agree whatever is lost, repeated, damaged, reordered or *)
(* left over from the handshake (sender.c:406-410, receiver.c:213-241).    *)
THEOREM WindowsAlwaysAgree == Spec => []WindowsAgree
<1>1. IInv => WindowsAgree
  BY DEF IInv
<1> QED BY <1>1, InvariantHolds, PTL

(* Something outstanding always has a timer (sender.c:319-321, 413-421).   *)
THEOREM TimerAlwaysCovers == Spec => []TimerCoversWindow
<1>1. IInv => TimerCoversWindow
  BY DEF IInv
<1> QED BY <1>1, InvariantHolds, PTL

-----------------------------------------------------------------------------
LEMMA OutstandingStep ==
  ASSUME SlotsSuffice, IInv, [Next]_vars, OutstandingKept
  PROVE  OutstandingKept'
<1>1. /\ base \in SeqNums /\ nextseqnum \in SeqNums /\ window \in [Slots -> GenuineData]
      /\ Pos(base) <= Pos(nextseqnum) /\ Pos(nextseqnum) \in 0..N /\ N < SEQ_MAX
      /\ fpos = Pos(nextseqnum)
  BY ConstantFacts, PosFacts
     DEF IInv, TypeOK, TransferTypeOK, Counts, WindowsAgree, Genuine
<1>2. CASE UNCHANGED <<base, nextseqnum, window>>
  BY <1>2 DEF OutstandingKept
<1>3. CASE FillChunk
  BY <1>1, <1>3, FillKeepsSlots DEF OutstandingKept, HeldInSlots
<1>4. CASE \E p \in toSender : AckEvent(p)
  <2>1. UNCHANGED <<nextseqnum, window>>
    BY <1>4 DEF AckEvent, fileVars
  <2>2. base' \in SeqNums /\ Pos(base) <= Pos(base') /\ Pos(base') <= Pos(nextseqnum)
    <3>1. PICK p \in toSender : AckEvent(p)
      BY <1>4
    <3>2. \/ UNCHANGED base
          \/ base' = p.seq /\ p.intact /\ in_window(p.seq, next_seq(base), WS)
      BY <3>1 DEF AckEvent, IsAck
    <3>3. p.seq \in SeqNums /\ (p.intact => Pos(p.seq) <= Pos(nextseqnum))
      BY PosFacts DEF IInv, TypeOK, TransferTypeOK, Genuine, GenuineToSender, PacketType, WindowsAgree
    <3>4. next_seq(base) \in SeqNums /\ Pos(next_seq(base)) = Pos(base) + 1
      BY <1>1, PosFacts, ConstantFacts
    <3>5. Pos(next_seq(base)) + WS <= SEQ_MAX + 1
      BY <1>1, <3>4, ConstantFacts, PosFacts
    <3>6. in_window(p.seq, next_seq(base), WS) => Pos(base) < Pos(p.seq)
      BY <1>1, <3>3, <3>4, <3>5, WindowPos, PosFacts
    <3> QED BY <1>1, <3>2, <3>3, <3>6, PosFacts
  <2>3. SeqRange(base', nextseqnum) \subseteq SeqRange(base, nextseqnum)
    BY <1>1, <2>2, PosFacts, SeqRangeInterval DEF Pos, SeqRange
  <2> QED BY <2>1, <2>3 DEF OutstandingKept
<1> QED
  BY <1>2, <1>3, <1>4, WhoMoves DEF ReceiveChunk, senderVars, fileVars

(* A resend sends what was lost and nothing else (sender.c:369-377), when  *)
(* the slots suffice.                                                      *)
THEOREM OutstandingAlwaysKept ==
  ASSUME SlotsSuffice
  PROVE  Spec => []OutstandingKept
<1>1. Init => OutstandingKept
  <2> SUFFICES ASSUME Init PROVE SeqRange(base, nextseqnum) = {}
    BY DEF OutstandingKept
  <2>1. base = ISN /\ nextseqnum = ISN
    BY DEF Init, TransferInit
  <2> QED BY <2>1, PosFacts, OffsetSelf, OffsetType DEF SeqRange
<1>2. IInv /\ [Next]_vars /\ OutstandingKept => OutstandingKept'
  BY OutstandingStep
<1> QED BY <1>1, <1>2, InvariantHolds, PTL DEF Spec

-----------------------------------------------------------------------------
(* Mode 0 implements FileTransfer.                                         *)
LEMMA TransferInitially == Init => Transfer!Init
BY DEF Init, TransferInit, Transfer!Init, Transfer!FirstChunks, ReceiverComplete

\* The control states of the two ends, as FileTransfer sees them.
receiverEnd == IF rpc = "data" THEN "open"
               ELSE IF ReceiverComplete THEN "complete" ELSE "aborted"
senderEnd   == CASE spc = "ok" -> "succeeded" [] spc = "failed" -> "failed"
                 [] OTHER -> "active"

LEMMA TransferStep ==
  ASSUME "read" \notin Faults, IInv, Positions', [Next]_vars
  PROVE  [Transfer!Next]_(Transfer!vars)
<1> DEFINE Same == UNCHANGED <<written, receiverEnd, senderEnd>>
<1>1. Same => [Transfer!Next]_(Transfer!vars)
  BY DEF Transfer!vars, receiverEnd, senderEnd
<1>2. CASE \E p \in toReceiver : ReceiveChunk(p)
  <2>1. /\ UNCHANGED <<rpc, spc>> /\ rpc = "data"
        /\ expected' = next_seq(expected)
    BY <1>2 DEF ReceiveChunk, senderVars
  <2>2. /\ Pos(expected) \in 0..N /\ Pos(expected') \in 0..N
        /\ written = FirstChunks(Pos(expected)) /\ written' = FirstChunks(Pos(expected'))
        /\ expected \in SeqNums
    BY PosFacts, ConstantFacts
    DEF IInv, TypeOK, TransferTypeOK, WindowsAgree, Counts, Positions, Pos
  <2>3. Pos(expected') = Pos(expected) + 1
    BY <2>1, <2>2, PosFacts, ConstantFacts
  <2>4. Transfer!Deliver
    BY <2>1, <2>2, <2>3
    DEF Transfer!Deliver, Transfer!FirstChunks, FirstChunks, ReceiverComplete
  <2> QED BY <2>4 DEF Transfer!Next
<1>3. CASE \E p \in toReceiver : ReceiveFin(p)
  <2>1. /\ rpc = "data" /\ rpc' = "finack" /\ UNCHANGED <<written, expected, senderVars>>
    BY <1>3 DEF ReceiveFin
  <2>2. Closing /\ expected = nextseqnum
    BY <1>3 DEF ReceiveFin, IsLastFin, IInv, Genuine, GenuineToReceiver
  <2>3. fpos = N /\ fpos = Pos(nextseqnum)
    BY <2>2 DEF IInv, Endings, EndOfFile, Counts
  <2>4. written = FirstChunks(N)
    BY <2>2, <2>3 DEF IInv, Counts
  <2>5. Transfer!Complete
    BY <2>1, <2>4
    DEF Transfer!Complete, Transfer!FirstChunks, FirstChunks, ReceiverComplete, senderVars
  <2> QED BY <2>5 DEF Transfer!Next
<1>4. CASE DataTimeout \/ \E p \in toReceiver : ReceiveChunkFails(p)
  <2>1. /\ rpc = "data" /\ rpc' \in {"failed", "abandoned"} /\ UNCHANGED <<written, spc>>
    BY <1>4 DEF DataTimeout, ReceiveChunkFails, senderVars
  <2>2. Transfer!Abort
    BY <2>1 DEF Transfer!Abort, ReceiverComplete
  <2> QED BY <2>2 DEF Transfer!Next
<1>5. CASE \E p \in toSender : ReceiveFinAck(p)
  <2>1. /\ spc = "finwait" /\ spc' \in {"ok", "fin"} /\ UNCHANGED <<written, rpc>>
        /\ spc' = "ok" => \E p \in toSender : p.intact /\ "FIN" \in p.flags
    BY <1>5 DEF ReceiveFinAck, receiverVars
  <2>2. spc' = "ok" => ReceiverComplete
    BY <2>1 DEF IInv, Genuine, GenuineToSender
  <2>3. CASE spc' = "ok"
    <3>1. Transfer!Succeed
      BY <2>1, <2>2, <2>3 DEF Transfer!Succeed, ReceiverComplete
    <3> QED BY <3>1 DEF Transfer!Next
  <2>4. CASE spc' = "fin"
    BY <1>1, <2>1, <2>4 DEF receiverEnd, senderEnd, ReceiverComplete
  <2> QED BY <2>1, <2>3, <2>4
<1>6. CASE GiveUp
  <2>1. spc = "fin" /\ spc' = "failed" /\ UNCHANGED <<written, rpc>>
    BY <1>6 DEF GiveUp, receiverVars
  <2>2. Transfer!Fail
    BY <2>1 DEF Transfer!Fail, ReceiverComplete
  <2> QED BY <2>2 DEF Transfer!Next
<1>7. CASE /\ UNCHANGED written
           /\ UNCHANGED rpc \/ (ReceiverComplete /\ ReceiverComplete')
           /\ UNCHANGED spc \/ (spc \notin {"ok", "failed"} /\ spc' \notin {"ok", "failed"})
  BY <1>1, <1>7 DEF receiverEnd, senderEnd, ReceiverComplete
<1> QED
  <2>1. CASE SenderLoop \/ FillChunk \/ FillEnd \/ TimerFires \/ TimerEvent
               \/ (\E p \in toSender : AckEvent(p)) \/ StartClose \/ SendFin \/ FinTimeout
    BY <1>7, <2>1
    DEF SenderLoop, FillChunk, FillEnd, FillNothing, PollEvents, PollTimeout,
        HandleNoPacket, TimerFires, TimerEvent, HandleTimer, AckEvent, Handling, NextEvent,
        StartClose, SendFin, FinTimeout, receiverVars
  <2>2. CASE SendFinAck \/ LingerTimeout \/ (\E p \in toReceiver : LingerReceive(p))
    BY <1>7, <2>2
    DEF SendFinAck, LingerTimeout, LingerReceive, ReceiverComplete, senderVars
  <2>3. CASE Network \/ Stopped \/ UNCHANGED vars \/ (\E p \in toReceiver : ReceiveOther(p))
    BY <1>7, <2>3
    DEF Network, Lose, Corrupt, Stopped, vars, transferVars, senderVars, receiverVars, ReceiveOther
  <2> QED
    BY <1>2, <1>3, <1>4, <1>5, <1>6, <2>1, <2>2, <2>3
    DEF Next, SenderClose, ReceiverClose, Receive

(* Unless fread fails, a transfer delivers the file in order, its receiver *)
(* ends it only with the whole file, and its sender reports success only   *)
(* after that (sender.c:158-203, receiver.c:196-203).                      *)
THEOREM GBNImplementsTransfer ==
  ASSUME "read" \notin Faults
  PROVE  Spec => ImplementsTransfer
<1>1. IInv /\ IInv' /\ [Next]_vars => [Transfer!Next]_(Transfer!vars)
  BY PositionsStep, TransferStep
<1>2. Init => Transfer!Init
  BY TransferInitially
<1> QED BY <1>1, <1>2, InvariantHolds, PTL DEF Spec, ImplementsTransfer, Transfer!Spec
=============================================================================
