-------------------------- MODULE RtpConnectProofs --------------------------
(***************************************************************************)
(* The handshake is safe for every number of tries, every number and kind  *)
(* of faults and whatever a crashed sender has left under way.             *)
(***************************************************************************)
EXTENDS RtpConnect, TLAPS

-----------------------------------------------------------------------------
(* Bags under way.                                                         *)

LEMMA AddedBag ==
  ASSUME NEW B, IsABag(B), NEW p
  PROVE  IsABag(BagAdd(B, p)) /\ BagToSet(BagAdd(B, p)) = BagToSet(B) \cup {p}
<1> DEFINE C == BagAdd(B, p)
<1>1. CASE p \in DOMAIN B
  <2>1. C = [e \in DOMAIN B |-> IF e = p THEN B[e] + 1 ELSE B[e]]
    BY <1>1 DEF BagAdd
  <2>2. \A e \in DOMAIN B : B[e] \in Nat /\ B[e] > 0
    BY DEF IsABag
  <2> QED BY <1>1, <2>1, <2>2 DEF IsABag, BagToSet
<1>2. CASE p \notin DOMAIN B
  <2>1. C = [e \in DOMAIN B \cup {p} |-> IF e = p THEN 1 ELSE B[e]]
    BY <1>2 DEF BagAdd
  <2>2. \A e \in DOMAIN B : B[e] \in Nat /\ B[e] > 0
    BY DEF IsABag
  <2> QED BY <1>2, <2>1, <2>2 DEF IsABag, BagToSet
<1> QED BY <1>1, <1>2

LEMMA RemovedBag ==
  ASSUME NEW B, IsABag(B), NEW p
  PROVE  IsABag(BagRemove(B, p)) /\ BagToSet(BagRemove(B, p)) \subseteq BagToSet(B)
<1> DEFINE C == BagRemove(B, p)
<1>0. \A e \in DOMAIN B : B[e] \in Nat /\ B[e] > 0
  BY DEF IsABag
<1>1. CASE p \notin DOMAIN B
  BY <1>1 DEF BagRemove
<1>2. CASE p \in DOMAIN B /\ B[p] = 1
  <2>1. C = [e \in DOMAIN B \ {p} |-> B[e]]
    BY <1>2 DEF BagRemove
  <2> QED BY <1>0, <2>1 DEF IsABag, BagToSet
<1>3. CASE p \in DOMAIN B /\ B[p] # 1
  <2>1. C = [e \in DOMAIN B |-> IF e = p THEN B[e] - 1 ELSE B[e]]
    BY <1>3 DEF BagRemove
  <2> QED BY <1>0, <1>3, <2>1 DEF IsABag, BagToSet
<1> QED BY <1>1, <1>2, <1>3

LEMMA BagOfSet ==
  ASSUME NEW S
  PROVE  IsABag(SetToBag(S)) /\ BagToSet(SetToBag(S)) = S
BY DEF IsABag, BagToSet, SetToBag

-----------------------------------------------------------------------------
(* The inductive invariant.                                                *)

SeenSynAck == {"ack", "ackwait", "connected", "unconfirmed"}

MayReachReceiver == StaleToReceiver \cup EarlierPackets \cup {Garbled, DataPacket(ISN, 1)}
MayReachSender   == StaleToSender(mode) \cup {Garbled} \cup EarlierAnswers

\* TypeOK but for the packets, which have their type by UnderWay.
ControlOK ==
  /\ mode \in {0, 1} /\ timely \in BOOLEAN /\ faults \in 0..MaxFaults
  /\ overdue \subseteq ShortWaits
  /\ spc \in {"syn", "synwait", "ack", "ackwait", "connected", "failed", "unconfirmed"}
  /\ rpc \in {"listen", "synack", "synackwait", "connected", "failed"}
  /\ stries \in 0..MAXTRY /\ rtries \in 0..MAXTRY
  /\ peer \in {0, ISN, EarlierISN}

\* Only this sender and receiver, a crashed sender and the network send.
UnderWay ==
  /\ IsABag(toReceiver) /\ BagToSet(toReceiver) \subseteq MayReachReceiver
  /\ IsABag(toSender) /\ BagToSet(toSender) \subseteq MayReachSender

\* Nobody is a step ahead: what a packet or a state says has happened has.
InOrder ==
  /\ rpc = "listen" => peer = 0
  /\ BagToSet(toSender) # {} => peer = ISN
  /\ spc \in SeenSynAck => peer = ISN
  /\ Ack(ISN) \in BagToSet(toReceiver) => spc \in SeenSynAck
  /\ ConnectedPeerAcked

\* A packet is only waited for while a try is left.
TryUnderWay ==
  /\ spc \in {"synwait", "ackwait"} => stries < MAXTRY
  /\ rpc = "synackwait" => rtries < MAXTRY

IInv == ControlOK /\ UnderWay /\ InOrder /\ TryUnderWay

-----------------------------------------------------------------------------
(* Packets.                                                                *)

LEMMA PacketTypes ==
  ASSUME mode \in {0, 1}
  PROVE  MayReachReceiver \subseteq PacketType /\ MayReachSender \subseteq PacketType
<1>1. /\ ISN \in SeqNums /\ ISN - 1 \in SeqNums /\ 0 \in SeqNums
      /\ 0 \in 0..N /\ 1 \in 0..N
      /\ EarlierISN # 0 => EarlierISN \in SeqNums /\ EarlierISN - 1 \in SeqNums
  BY IsnAssumption, SizeAssumption, FileAssumption, EarlierAssumption, SeqMaxAssumption DEF SeqNums
<1>2. \A f \in SUBSET {"SYN", "ACK", "FIN"}, s \in SeqNums, c \in 0..N, i \in BOOLEAN :
        [flags |-> f, seq |-> s, chunk |-> c, intact |-> i] \in PacketType
  BY DEF PacketType
<1>3. StaleToReceiver \subseteq PacketType /\ StaleToSender(mode) \subseteq PacketType
  BY ZenonT(30), <1>1, <1>2 DEF StaleToReceiver, StaleToSender, Syn, SynAck, Ack, Packet
<1>4. EarlierPackets \subseteq PacketType
  BY <1>1, <1>2 DEF EarlierPackets, Ack, Packet
<1>5. EarlierAnswers \subseteq PacketType
  <2>1. \A p \in EarlierPackets : p.seq \in SeqNums
    BY <1>4 DEF PacketType
  <2>2. \A s \in SeqNums : Ack(s) \in PacketType
    BY <1>1, <1>2 DEF Ack, Packet
  <2> QED BY <2>1, <2>2 DEF EarlierAnswers
<1>6. Garbled \in PacketType /\ DataPacket(ISN, 1) \in PacketType
  BY <1>1, <1>2 DEF Garbled, DataPacket, Packet
<1> QED BY <1>3, <1>4, <1>5, <1>6 DEF MayReachReceiver, MayReachSender

(* The final ACK is none of the other packets.                             *)
LEMMA FinalAckUnlike ==
  /\ Ack(ISN) # Syn /\ Ack(ISN) # Garbled /\ Ack(ISN) # DataPacket(ISN, 1)
  /\ Ack(ISN) \notin EarlierPackets
<1>1. {"ACK"} # {"SYN"} /\ {"ACK"} # {} /\ EarlierISN # ISN
  BY EarlierAssumption
<1> QED BY <1>1 DEF Ack, Syn, Garbled, DataPacket, EarlierPackets, Packet

(* A SYN that is taken names this sender or the crashed one.               *)
LEMMA SynNames ==
  ASSUME NEW p \in MayReachReceiver, p.intact, p.flags = {"SYN"}
  PROVE  p.seq + 1 \in {ISN, EarlierISN}
<1>1. {"ACK"} # {"SYN"} /\ {} # {"SYN"} /\ ISN \in Int /\ EarlierISN \in Int
  BY IsnAssumption, EarlierAssumption DEF SeqNums
<1> QED BY <1>1 DEF MayReachReceiver, StaleToReceiver, EarlierPackets, Syn, Ack, Garbled,
              DataPacket, Packet

(* The answer of the data loop is one the transfer is started with.        *)
LEMMA AnswersAllowed ==
  ASSUME NEW p \in MayReachReceiver, mode \in {0, 1}
  PROVE  /\ Ack(ISN) \in MayReachSender
         /\ mode = 1 /\ p.intact => Ack(p.seq) \in MayReachSender
<1>1. ISN \in Int
  BY IsnAssumption DEF SeqNums
<1>2. Ack(ISN) \in MayReachSender
  BY DEF MayReachSender, StaleToSender
<1>3. ASSUME mode = 1, p.intact
      PROVE  Ack(p.seq) \in MayReachSender
  <2>1. CASE p \in EarlierPackets
    BY <1>3, <2>1 DEF MayReachSender, EarlierAnswers
  <2>2. CASE p = Syn
    BY <1>3, <2>2 DEF MayReachSender, StaleToSender, Syn, Packet
  <2>3. CASE p = Ack(ISN)
    BY <1>2, <2>3 DEF Ack, Packet
  <2>4. CASE p = DataPacket(ISN, 1)
    BY <1>2, <2>4 DEF DataPacket, Packet
  <2>5. p # Garbled
    BY <1>3 DEF Garbled
  <2> QED BY <2>1, <2>2, <2>3, <2>4, <2>5 DEF MayReachReceiver, StaleToReceiver
<1> QED BY <1>2, <1>3

-----------------------------------------------------------------------------
(* What a packet that is sent, taken, lost or damaged leaves under way.    *)

LEMMA ReceiverGets ==
  ASSUME UnderWay, NEW p \in MayReachReceiver, SendToReceiver(p), mode' = mode
  PROVE  UnderWay' /\ BagToSet(toReceiver)' = BagToSet(toReceiver) \cup {p}
<1>1. toReceiver' = BagAdd(toReceiver, p) /\ toSender' = toSender
  BY DEF SendToReceiver
<1>2. IsABag(toReceiver') /\ BagToSet(toReceiver') = BagToSet(toReceiver) \cup {p}
  BY <1>1, AddedBag DEF UnderWay
<1>3. MayReachSender' = MayReachSender
  BY DEF MayReachSender, StaleToSender, EarlierAnswers
<1> QED BY <1>1, <1>2, <1>3 DEF UnderWay

LEMMA ReceiverTook ==
  ASSUME UnderWay, NEW p, TakeFromReceiver(p), toSender' = toSender, mode' = mode
  PROVE  UnderWay' /\ BagToSet(toReceiver)' \subseteq BagToSet(toReceiver)
<1>1. toReceiver' = BagRemove(toReceiver, p)
  BY DEF TakeFromReceiver
<1>2. IsABag(toReceiver') /\ BagToSet(toReceiver') \subseteq BagToSet(toReceiver)
  BY <1>1, RemovedBag DEF UnderWay
<1>3. MayReachSender' = MayReachSender
  BY DEF MayReachSender, StaleToSender, EarlierAnswers
<1> QED BY <1>1, <1>2, <1>3 DEF UnderWay

LEMMA SenderTook ==
  ASSUME UnderWay, NEW p, TakeFromSender(p), mode' = mode
  PROVE  /\ UnderWay' /\ BagToSet(toSender)' \subseteq BagToSet(toSender)
         /\ toReceiver' = toReceiver
<1>1. toSender' = BagRemove(toSender, p) /\ toReceiver' = toReceiver
  BY DEF TakeFromSender
<1>2. IsABag(toSender') /\ BagToSet(toSender') \subseteq BagToSet(toSender)
  BY <1>1, RemovedBag DEF UnderWay
<1>3. MayReachSender' = MayReachSender
  BY DEF MayReachSender, StaleToSender, EarlierAnswers
<1> QED BY <1>1, <1>2, <1>3 DEF UnderWay

(* The steps that leave the network alone.                                 *)
LEMMA NetUnchanged ==
  ASSUME UnderWay, UNCHANGED netVars, mode' = mode
  PROVE  /\ UnderWay' /\ BagToSet(toReceiver)' = BagToSet(toReceiver)
         /\ BagToSet(toSender)' = BagToSet(toSender)
<1>1. MayReachSender' = MayReachSender
  BY DEF MayReachSender, StaleToSender, EarlierAnswers
<1> QED BY <1>1 DEF UnderWay, netVars

(* The tries that a loop counts stay within their bound.                   *)
LEMMA OneMoreTry ==
  ASSUME NEW n \in 0..MAXTRY, n < MAXTRY
  PROVE  n + 1 \in 0..MAXTRY
BY TriesAssumption

-----------------------------------------------------------------------------
LEMMA InvariantStarts == Init => IInv
<1> SUFFICES ASSUME Init PROVE IInv
  OBVIOUS
<1>1. PICK left \in SUBSET EarlierPackets : toReceiver = SetToBag(left)
  BY DEF Init
<1>2. IsABag(toReceiver) /\ BagToSet(toReceiver) \subseteq EarlierPackets
  BY <1>1, BagOfSet
<1>3. IsABag(toSender) /\ BagToSet(toSender) = {}
  BY BagOfSet DEF Init, EmptyBag
<1>4. UnderWay
  BY <1>2, <1>3 DEF UnderWay, MayReachReceiver
<1>5. ControlOK
  BY TriesAssumption, BoundAssumption DEF Init, ControlOK
<1>6. InOrder /\ TryUnderWay
  BY <1>2, <1>3, FinalAckUnlike DEF Init, InOrder, TryUnderWay, SeenSynAck, ConnectedPeerAcked
<1> QED BY <1>4, <1>5, <1>6 DEF IInv

(* The steps of the sender's program (sender.c:84-152).                    *)
LEMMA SenderSteps ==
  ASSUME IInv, SenderStep
  PROVE  IInv'
<1> USE DEF IInv, setting, notes, senderVars, receiverVars, Leaves, ShortWaits
<1>1. CASE SendSyn
  <2>1. UnderWay' /\ BagToSet(toReceiver)' = BagToSet(toReceiver) \cup {Syn}
    BY <1>1, ReceiverGets DEF SendSyn, MayReachReceiver, StaleToReceiver
  <2>2. ControlOK' /\ TryUnderWay'
    BY <1>1 DEF SendSyn, ControlOK, TryUnderWay
  <2>3. InOrder'
    BY <1>1, <2>1, FinalAckUnlike DEF SendSyn, SendToReceiver, InOrder, SeenSynAck,
       ConnectedPeerAcked
  <2> QED BY <2>1, <2>2, <2>3
<1>2. CASE SynTimeout
  <2>1. stries + 1 \in 0..MAXTRY
    BY <1>2, OneMoreTry DEF SynTimeout, ControlOK, TryUnderWay
  <2>2. UnderWay' /\ BagToSet(toReceiver)' = BagToSet(toReceiver)
                  /\ BagToSet(toSender)' = BagToSet(toSender)
    BY <1>2, NetUnchanged DEF SynTimeout
  <2> QED BY <1>2, <2>1, <2>2 DEF SynTimeout, SynRetry, ControlOK, TryUnderWay, InOrder,
                                   SeenSynAck, ConnectedPeerAcked
<1>3. CASE SynGiveUp
  <2>1. UnderWay' /\ BagToSet(toReceiver)' = BagToSet(toReceiver)
                  /\ BagToSet(toSender)' = BagToSet(toSender)
    BY <1>3, NetUnchanged DEF SynGiveUp
  <2> QED BY <1>3, <2>1 DEF SynGiveUp, ControlOK, TryUnderWay, InOrder, SeenSynAck,
                            ConnectedPeerAcked
<1>4. CASE SendFinalAck
  <2>1. UnderWay' /\ BagToSet(toReceiver)' = BagToSet(toReceiver) \cup {Ack(ISN)}
    BY <1>4, ReceiverGets DEF SendFinalAck, MayReachReceiver, StaleToReceiver
  <2>2. ControlOK' /\ TryUnderWay'
    BY <1>4 DEF SendFinalAck, ControlOK, TryUnderWay
  <2>3. InOrder'
    BY <1>4, <2>1 DEF SendFinalAck, SendToReceiver, InOrder, SeenSynAck, ConnectedPeerAcked
  <2> QED BY <2>1, <2>2, <2>3
<1>5. CASE ConfirmTimeout
  <2>1. UnderWay' /\ BagToSet(toReceiver)' = BagToSet(toReceiver)
                  /\ BagToSet(toSender)' = BagToSet(toSender)
    BY <1>5, NetUnchanged DEF ConfirmTimeout
  <2> QED BY <1>5, <2>1 DEF ConfirmTimeout, ControlOK, TryUnderWay, InOrder, SeenSynAck,
                            ConnectedPeerAcked
<1>6. CASE AckGiveUp
  <2>1. UnderWay' /\ BagToSet(toReceiver)' = BagToSet(toReceiver)
                  /\ BagToSet(toSender)' = BagToSet(toSender)
    BY <1>6, NetUnchanged DEF AckGiveUp
  <2> QED BY <1>6, <2>1 DEF AckGiveUp, ControlOK, TryUnderWay, InOrder, SeenSynAck,
                            ConnectedPeerAcked
<1>7. ASSUME NEW p \in BagToSet(toSender), ReceiveSynAck(p)
      PROVE  IInv'
  <2>1. UnderWay' /\ BagToSet(toSender)' \subseteq BagToSet(toSender) /\ toReceiver' = toReceiver
    BY <1>7, SenderTook DEF ReceiveSynAck
  <2>2. peer = ISN
    BY <1>7 DEF InOrder
  <2>3. stries + 1 \in 0..MAXTRY /\ 0 \in 0..MAXTRY
    BY <1>7, OneMoreTry, TriesAssumption DEF ReceiveSynAck, ControlOK, TryUnderWay
  <2>4. ControlOK' /\ TryUnderWay'
    BY <1>7, <2>3 DEF ReceiveSynAck, SynRetry, ControlOK, TryUnderWay
  <2>5. InOrder'
    BY <1>7, <2>1, <2>2 DEF ReceiveSynAck, SynRetry, InOrder, SeenSynAck, ConnectedPeerAcked
  <2> QED BY <2>1, <2>4, <2>5
<1>8. ASSUME NEW p \in BagToSet(toSender), ReceiveAfterFinalAck(p)
      PROVE  IInv'
  <2>1. UnderWay' /\ BagToSet(toSender)' \subseteq BagToSet(toSender) /\ toReceiver' = toReceiver
    BY <1>8, SenderTook DEF ReceiveAfterFinalAck
  <2>2. stries + 1 \in 0..MAXTRY
    BY <1>8, OneMoreTry DEF ReceiveAfterFinalAck, ControlOK, TryUnderWay
  <2> QED BY <1>8, <2>1, <2>2 DEF ReceiveAfterFinalAck, ControlOK, TryUnderWay, InOrder,
                                   SeenSynAck, ConnectedPeerAcked
<1> QED BY <1>1, <1>2, <1>3, <1>4, <1>5, <1>6, <1>7, <1>8 DEF SenderStep

(* The receiver sends only to the address of the SYN it took.              *)
LEMMA SenderGets ==
  ASSUME UnderWay, NEW p, peer = ISN => p \in MayReachSender, SendToPeer(p),
         IsABag(toReceiver)', BagToSet(toReceiver)' \subseteq BagToSet(toReceiver),
         mode' = mode
  PROVE  UnderWay' /\ (peer # ISN => toSender' = toSender)
<1>1. MayReachSender' = MayReachSender
  BY DEF MayReachSender, StaleToSender, EarlierAnswers
<1>2. CASE peer = ISN
  <2>1. toSender' = BagAdd(toSender, p)
    BY <1>2 DEF SendToPeer
  <2>2. IsABag(toSender') /\ BagToSet(toSender') = BagToSet(toSender) \cup {p}
    BY <2>1, AddedBag DEF UnderWay
  <2> QED BY <1>1, <1>2, <2>2 DEF UnderWay
<1>3. CASE peer # ISN
  BY <1>1, <1>3 DEF SendToPeer, UnderWay
<1> QED BY <1>2, <1>3

(* The steps of the receiver's program (receiver.c:72-132, 225-348).       *)
LEMMA ReceiverSteps ==
  ASSUME IInv, ReceiverStep
  PROVE  IInv'
<1> USE DEF IInv, setting, notes, senderVars, receiverVars, Leaves, ShortWaits
<1>1. CASE ListenTimeout
  <2>1. UnderWay' /\ BagToSet(toReceiver)' = BagToSet(toReceiver)
                  /\ BagToSet(toSender)' = BagToSet(toSender)
    BY <1>1, NetUnchanged DEF ListenTimeout
  <2> QED BY <1>1, <2>1 DEF ListenTimeout, ControlOK, TryUnderWay, InOrder, SeenSynAck,
                            ConnectedPeerAcked
<1>2. CASE SendSynAck
  <2>1. peer = ISN => Packet({"ACK", "SYN"}, peer, 0) \in MayReachSender
    BY DEF MayReachSender, StaleToSender, SynAck
  <2>2. IsABag(toReceiver)' /\ BagToSet(toReceiver)' = BagToSet(toReceiver)
    BY <1>2 DEF SendSynAck, UnderWay
  <2>3. UnderWay' /\ (peer # ISN => toSender' = toSender)
    BY <1>2, <2>1, <2>2, SenderGets DEF SendSynAck
  <2>4. ControlOK' /\ TryUnderWay'
    BY <1>2 DEF SendSynAck, ControlOK, TryUnderWay
  <2>5. InOrder'
    BY <1>2, <2>2, <2>3 DEF SendSynAck, InOrder, SeenSynAck, ConnectedPeerAcked
  <2> QED BY <2>3, <2>4, <2>5
<1>3. CASE SynAckTimeout
  <2>1. rtries + 1 \in 0..MAXTRY
    BY <1>3, OneMoreTry DEF SynAckTimeout, ControlOK, TryUnderWay
  <2>2. UnderWay' /\ BagToSet(toReceiver)' = BagToSet(toReceiver)
                  /\ BagToSet(toSender)' = BagToSet(toSender)
    BY <1>3, NetUnchanged DEF SynAckTimeout
  <2> QED BY <1>3, <2>1, <2>2 DEF SynAckTimeout, SynAckRetry, ControlOK, TryUnderWay, InOrder,
                                   SeenSynAck, ConnectedPeerAcked
<1>4. CASE SynAckGiveUp
  <2>1. UnderWay' /\ BagToSet(toReceiver)' = BagToSet(toReceiver)
                  /\ BagToSet(toSender)' = BagToSet(toSender)
    BY <1>4, NetUnchanged DEF SynAckGiveUp
  <2> QED BY <1>4, <2>1 DEF SynAckGiveUp, ControlOK, TryUnderWay, InOrder, SeenSynAck,
                            ConnectedPeerAcked
<1>5. ASSUME NEW p \in BagToSet(toReceiver), ReceiveSyn(p)
      PROVE  IInv'
  <2>1. UnderWay' /\ BagToSet(toReceiver)' \subseteq BagToSet(toReceiver) /\ toSender' = toSender
    BY <1>5, ReceiverTook DEF ReceiveSyn
  <2>2. p \in MayReachReceiver
    BY DEF UnderWay
  <2>3. p.intact /\ p.flags = {"SYN"} => p.seq + 1 \in {ISN, EarlierISN}
    BY <2>2, SynNames
  <2>4. ControlOK' /\ TryUnderWay'
    BY <1>5, <2>3 DEF ReceiveSyn, ControlOK, TryUnderWay
  <2>5. 0 # ISN
    BY IsnAssumption
  <2>6. InOrder'
    BY <1>5, <2>1, <2>5 DEF ReceiveSyn, InOrder, SeenSynAck, ConnectedPeerAcked
  <2> QED BY <2>1, <2>4, <2>6
<1>6. ASSUME NEW p \in BagToSet(toReceiver), ReceiveFinalAck(p)
      PROVE  IInv'
  <2>1. UnderWay' /\ BagToSet(toReceiver)' \subseteq BagToSet(toReceiver) /\ toSender' = toSender
    BY <1>6, ReceiverTook DEF ReceiveFinalAck
  <2>2. rtries + 1 \in 0..MAXTRY
    BY <1>6, OneMoreTry DEF ReceiveFinalAck, ControlOK, TryUnderWay
  <2>3. ControlOK' /\ TryUnderWay'
    BY <1>6, <2>2 DEF ReceiveFinalAck, SynAckRetry, ControlOK, TryUnderWay
  <2>4. rpc' = "connected" /\ peer = ISN => spc \in SeenSynAck
    BY <1>6 DEF ReceiveFinalAck, SynAckRetry, InOrder
  <2>5. InOrder'
    BY <1>6, <2>1, <2>4 DEF ReceiveFinalAck, SynAckRetry, InOrder, SeenSynAck, ConnectedPeerAcked
  <2> QED BY <2>1, <2>3, <2>5
<1>7. ASSUME NEW p \in BagToSet(toReceiver), AnswerInDataLoop(p)
      PROVE  IInv'
  <2>1. p \in MayReachReceiver
    BY DEF UnderWay
  <2>2. toReceiver' = BagRemove(toReceiver, p)
    BY <1>7 DEF AnswerInDataLoop, TakeFromReceiver
  <2>3. IsABag(toReceiver)' /\ BagToSet(toReceiver)' \subseteq BagToSet(toReceiver)
    BY <2>2, RemovedBag DEF UnderWay
  <2>4. mode' = mode /\ mode \in {0, 1}
    BY <1>7 DEF AnswerInDataLoop, ControlOK
  <2>5. UnderWay' /\ (peer # ISN => toSender' = toSender)
    <3>1. CASE mode = 0
      <4>1. SendToPeer(Ack(peer)) /\ (peer = ISN => Ack(peer) \in MayReachSender)
        BY <1>7, <2>1, <2>4, <3>1, AnswersAllowed DEF AnswerInDataLoop
      <4> QED BY <2>3, <2>4, <4>1, SenderGets
    <3>2. CASE mode = 1 /\ p.intact
      <4>1. SendToPeer(Ack(p.seq)) /\ Ack(p.seq) \in MayReachSender
        BY <1>7, <2>1, <2>4, <3>2, AnswersAllowed DEF AnswerInDataLoop
      <4> QED BY <2>3, <2>4, <4>1, SenderGets
    <3>3. CASE mode = 1 /\ ~p.intact
      <4>1. toSender' = toSender /\ TakeFromReceiver(p)
        BY <1>7, <3>3 DEF AnswerInDataLoop
      <4> QED BY <2>4, <4>1, ReceiverTook
    <3> QED BY <2>4, <3>1, <3>2, <3>3
  <2>6. ControlOK' /\ TryUnderWay'
    BY <1>7 DEF AnswerInDataLoop, ControlOK, TryUnderWay
  <2>7. InOrder'
    BY <1>7, <2>3, <2>5 DEF AnswerInDataLoop, InOrder, SeenSynAck, ConnectedPeerAcked
  <2> QED BY <2>5, <2>6, <2>7
<1> QED BY <1>1, <1>2, <1>3, <1>4, <1>5, <1>6, <1>7 DEF ReceiverStep

(* The network and the data that is sent too early.                        *)
LEMMA NetworkSteps ==
  ASSUME IInv, SendEarlyData \/ Lose \/ Duplicate \/ Corrupt
  PROVE  IInv'
<1> USE DEF IInv, setting, notes, senderVars, receiverVars, Leaves, ShortWaits
<1>1. CASE SendEarlyData
  <2>1. UnderWay' /\ BagToSet(toReceiver)' = BagToSet(toReceiver) \cup {DataPacket(ISN, 1)}
    BY <1>1, ReceiverGets DEF SendEarlyData, MayReachReceiver
  <2> QED BY <1>1, <2>1, FinalAckUnlike DEF SendEarlyData, SendToReceiver, ControlOK, TryUnderWay,
             InOrder, SeenSynAck, ConnectedPeerAcked
<1>2. ASSUME Fault, UnderWay', overdue' \subseteq ShortWaits,
             BagToSet(toReceiver)' \subseteq BagToSet(toReceiver) \cup {Garbled},
             BagToSet(toSender) = {} => BagToSet(toSender)' = {}
      PROVE  IInv'
  <2>1. faults' \in 0..MaxFaults
    BY <1>2, BoundAssumption DEF Fault, ControlOK
  <2>2. ShortWaits' = ShortWaits
    BY <1>2 DEF Fault
  <2>3. ControlOK' /\ TryUnderWay'
    BY <1>2, <2>1, <2>2 DEF Fault, ControlOK, TryUnderWay
  <2>4. InOrder'
    BY <1>2, FinalAckUnlike DEF Fault, InOrder, SeenSynAck, ConnectedPeerAcked
  <2> QED BY <1>2, <2>3, <2>4
<1>3. /\ MayReachSender' = MayReachSender /\ mode' = mode
      /\ Lose \/ Duplicate \/ Corrupt => overdue' \subseteq ShortWaits
  BY DEF ControlOK, SendEarlyData, Lose, Duplicate, Corrupt, Fault, MayReachSender, StaleToSender,
         EarlierAnswers
<1>4. CASE Lose
  <2>1. ASSUME NEW p \in BagToSet(toReceiver), TakeFromReceiver(p), UNCHANGED toSender
        PROVE  IInv'
    <3>1. UnderWay' /\ BagToSet(toReceiver)' \subseteq BagToSet(toReceiver)
      BY <2>1, <1>3, ReceiverTook
    <3> QED BY <1>2, <1>3, <1>4, <2>1, <3>1 DEF Lose
  <2>2. ASSUME NEW p \in BagToSet(toSender), TakeFromSender(p)
        PROVE  IInv'
    <3>1. /\ UnderWay' /\ BagToSet(toSender)' \subseteq BagToSet(toSender)
          /\ toReceiver' = toReceiver
      BY <2>2, <1>3, SenderTook
    <3> QED BY <1>2, <1>3, <1>4, <2>2, <3>1 DEF Lose
  <2> QED BY <1>4, <2>1, <2>2 DEF Lose
<1>5. CASE Duplicate
  <2>1. ASSUME NEW p \in BagToSet(toReceiver), SendToReceiver(p)
        PROVE  IInv'
    <3>1. p \in MayReachReceiver
      BY <2>1 DEF UnderWay
    <3>2. UnderWay' /\ BagToSet(toReceiver)' = BagToSet(toReceiver) \cup {p}
      BY <2>1, <1>3, <3>1, ReceiverGets
    <3> QED BY <1>2, <1>3, <1>5, <2>1, <3>2 DEF Duplicate, SendToReceiver
  <2>2. ASSUME NEW p \in BagToSet(toSender), toSender' = BagAdd(toSender, p), UNCHANGED toReceiver
        PROVE  IInv'
    <3>1. IsABag(toSender') /\ BagToSet(toSender') = BagToSet(toSender) \cup {p}
      BY <2>2, AddedBag DEF UnderWay
    <3>2. UnderWay'
      BY <2>2, <1>3, <3>1 DEF UnderWay
    <3> QED BY <1>2, <1>3, <1>5, <2>2, <3>1, <3>2 DEF Duplicate
  <2> QED BY <1>5, <2>1, <2>2 DEF Duplicate
<1>6. CASE Corrupt
  <2>1. ASSUME NEW B, IsABag(B), NEW p \in BagToSet(B)
        PROVE  /\ IsABag(BagAdd(BagRemove(B, p), Garbled))
               /\ BagToSet(BagAdd(BagRemove(B, p), Garbled)) \subseteq BagToSet(B) \cup {Garbled}
    <3>1. IsABag(BagRemove(B, p)) /\ BagToSet(BagRemove(B, p)) \subseteq BagToSet(B)
      BY <2>1, RemovedBag
    <3> QED BY <3>1, AddedBag
  <2>2. ASSUME NEW p \in BagToSet(toReceiver), UNCHANGED toSender,
               toReceiver' = BagAdd(BagRemove(toReceiver, p), Garbled)
        PROVE  IInv'
    <3>1. /\ IsABag(toReceiver')
          /\ BagToSet(toReceiver') \subseteq BagToSet(toReceiver) \cup {Garbled}
      BY <2>1, <2>2 DEF UnderWay
    <3>2. UnderWay'
      BY <2>2, <1>3, <3>1 DEF UnderWay, MayReachReceiver
    <3> QED BY <1>2, <1>3, <1>6, <2>2, <3>1, <3>2 DEF Corrupt
  <2>3. ASSUME NEW p \in BagToSet(toSender), UNCHANGED toReceiver,
               toSender' = BagAdd(BagRemove(toSender, p), Garbled)
        PROVE  IInv'
    <3>1. /\ IsABag(toSender')
          /\ BagToSet(toSender') \subseteq BagToSet(toSender) \cup {Garbled}
      BY <2>1, <2>3 DEF UnderWay
    <3>2. UnderWay'
      BY <2>3, <1>3, <3>1 DEF UnderWay, MayReachSender
    <3> QED BY <1>2, <1>3, <1>6, <2>3, <3>1, <3>2 DEF Corrupt
  <2> QED BY <1>6, <2>2, <2>3 DEF Corrupt
<1> QED BY <1>1, <1>4, <1>5, <1>6

-----------------------------------------------------------------------------
LEMMA InvariantKept == IInv /\ [Next]_vars => IInv'
<1> SUFFICES ASSUME IInv, [Next]_vars PROVE IInv'
  OBVIOUS
<1>1. CASE UNCHANGED vars
  <2>1. UnderWay' /\ BagToSet(toReceiver)' = BagToSet(toReceiver)
                  /\ BagToSet(toSender)' = BagToSet(toSender)
    BY <1>1, NetUnchanged DEF IInv, vars, setting
  <2> QED BY <1>1, <2>1 DEF IInv, vars, setting, notes, senderVars, receiverVars, ControlOK,
             ShortWaits, TryUnderWay, InOrder, SeenSynAck, ConnectedPeerAcked
<1>2. CASE Next
  BY <1>1, <1>2, SenderSteps, ReceiverSteps, NetworkSteps DEF Next, Ended
<1> QED BY <1>1, <1>2

(* The invariant holds for every number of tries, every number and kind of *)
(* faults, and whatever a crashed sender left (sender.c:84-152,            *)
(* receiver.c:68-132).                                                     *)
THEOREM HandshakeInvariantHolds == Spec => []IInv
BY InvariantStarts, InvariantKept, PTL DEF Spec

(* Every variable of the handshake keeps its type: no program tries more   *)
(* than MAXTRY times (sender.c:90, 128; receiver.c:96).                    *)
THEOREM HandshakeTypeCorrect == Spec => []TypeOK
<1>1. IInv => TypeOK
  BY PacketTypes DEF IInv, ControlOK, UnderWay, TypeOK
<1> QED BY <1>1, HandshakeInvariantHolds, PTL

(* A receiver takes no handshake for complete whose sender has not seen    *)
(* its SYN+ACK (receiver.c:111-132).                                       *)
THEOREM PeerAlwaysAcked == Spec => []ConnectedPeerAcked
<1>1. IInv => ConnectedPeerAcked
  BY DEF IInv, InOrder
<1> QED BY <1>1, HandshakeInvariantHolds, PTL

(* When both ends are connected they count from the same number, and only  *)
(* known packets are still under way (sender.c:118-142, receiver.c:96-132, *)
(* 232-241, 341-348).                                                      *)
THEOREM HandsOverAlwaysCleanly == Spec => []HandsOverCleanly
<1>1. IInv => HandsOverCleanly
  BY DEF IInv, InOrder, UnderWay, SeenSynAck, Connected, HandsOverCleanly, MayReachReceiver,
         MayReachSender
<1> QED BY <1>1, HandshakeInvariantHolds, PTL
=============================================================================
