----------------------------- MODULE RtpConnect -----------------------------
(***************************************************************************)
(* The three-way handshake of lab2: ConnectSocket of sender.c with         *)
(* ConnectSocket of receiver.c, and what a receiver that is already in its *)
(* data loop answers to a sender that is not.  The handshake ends where    *)
(* the transfer modules begin.                                             *)
(*                                                                         *)
(* Every received packet, whatever it is, costs its reader a try or is     *)
(* answered, so the number of copies matters: the network is a bag of      *)
(* packets in each direction, any of which may arrive next.                *)
(***************************************************************************)
EXTENDS RtpPacket, Bags, BagsExt

CONSTANTS
  MAXTRY,         \* tries of each loop, 50 in the code
  Faults,         \* what may go wrong, see FaultKinds
  MaxFaults,      \* bound: packets lost, duplicated or damaged
  EarlierISN      \* 0, or the first number of a sender that has crashed

(* lose, duplicate, corrupt: the network.                                  *)
(* delay: a packet may take longer than the timeouts of 100 ms.            *)
(* outage: the waits of 2 s and 5 s run out although the other end is      *)
(*   still sending, all its packets of that time being lost, or before     *)
(*   the other end has started to send.                                    *)
FaultKinds == {"lose", "duplicate", "corrupt", "delay", "outage"}

ASSUME TriesAssumption   == MAXTRY \in Nat \ {0}
ASSUME FaultsAssumption  == Faults \subseteq FaultKinds
ASSUME BoundAssumption   == MaxFaults \in Nat
ASSUME EarlierAssumption == EarlierISN \in SeqNums \ {ISN}
ASSUME FileAssumption    == N > 0

VARIABLES
  mode,                   \* the receiver's mode: 0 GBN, 1 SR
  timely,                 \* no delay, no outage, nothing doubled or left behind
  toReceiver, toSender,   \* packets under way in each direction
  faults,                 \* packets lost, duplicated or damaged so far
  overdue,                \* ends whose wait of 100 ms has seen a packet lost
  spc, stries,            \* where the sender is, and its tries
  rpc, rtries,            \* where the receiver is, and its tries
  peer                    \* final number the receiver waits for, 0 before a SYN

setting      == <<mode, timely>>
notes        == <<faults, overdue>>
netVars      == <<toReceiver, toSender>>
senderVars   == <<spc, stries>>
receiverVars == <<rpc, rtries, peer>>
vars         == <<setting, notes, netVars, senderVars, receiverVars>>

(* spc: "syn", "ack": about to send the SYN or the final ACK; "synwait",   *)
(*   "ackwait": waiting after it; "connected"; "failed": no SYN+ACK came;  *)
(*   "unconfirmed": the final ACK was never followed by 2 s of silence.    *)
(* rpc: "listen"; "synack", "synackwait": about to send SYN+ACK, waiting   *)
(*   after it; "connected"; "failed".                                      *)

\* A sender that crashed during its handshake may have left these behind.
EarlierPackets ==
  IF EarlierISN = 0 THEN {} ELSE {Packet({"SYN"}, EarlierISN - 1, 0), Ack(EarlierISN)}

Init ==
  /\ mode \in {0, 1} /\ timely \in BOOLEAN
  /\ \E left \in SUBSET EarlierPackets :
       toReceiver = SetToBag(left) /\ (timely => left = {})
  /\ toSender = EmptyBag /\ faults = 0 /\ overdue = {}
  /\ spc = "syn" /\ stries = 0
  /\ rpc = "listen" /\ rtries = 0 /\ peer = 0

SenderEnded   == spc \in {"connected", "failed", "unconfirmed"}
ReceiverEnded == rpc \in {"connected", "failed"}

SendToReceiver(p) == toReceiver' = BagAdd(toReceiver, p) /\ UNCHANGED toSender

\* Mutant: the packets reach this sender whichever SYN the receiver took.
SendToPeerAnyone(p) == toSender' = BagAdd(toSender, p)

\* The receiver's packets go to the address of the SYN it took.
SendToPeer(p) ==
  toSender' = IF peer = ISN THEN BagAdd(toSender, p) ELSE toSender

TakeFromReceiver(p) == toReceiver' = BagRemove(toReceiver, p)
TakeFromSender(p)   == toSender' = BagRemove(toSender, p) /\ UNCHANGED toReceiver

-----------------------------------------------------------------------------
(* Timeouts.  Unless a fault says otherwise a packet and its answer take   *)
(* less than 100 ms, and a wait of 2 s or 5 s outlasts every retransmission *)
(* of the other end.  A timely network loses and damages packets at most.  *)
(* A wait of 100 ms in which a packet was lost runs out by its own clock:  *)
(* the waits of the two ends begin a packet's way apart, so one of them    *)
(* may end before or after what the other one sends at its end arrives.    *)

Late(fault) == fault \in Faults /\ ~timely

Arriving ==
  \/ ~SenderEnded /\ toSender # EmptyBag
  \/ rpc # "failed" /\ toReceiver # EmptyBag

ShortWaitOver(end) ==
  \/ Late("delay") \/ end \in overdue
  \/ ~(Arriving \/ spc \in {"syn", "ack"} \/ rpc = "synack")

\* That end's wait is over, for whatever reason.
Leaves(end) == overdue' = overdue \ {end} /\ UNCHANGED faults

ConfirmWaitOver == Late("outage") \/ ~(Arriving \/ rpc \in {"synack", "synackwait"})

ListenWaitOver == Late("outage") \/ (SenderEnded /\ toReceiver = EmptyBag)

-----------------------------------------------------------------------------
(* Sender.  A failing sendto costs a try as a lost packet does.            *)

SendSyn ==
  /\ spc = "syn" /\ stries < MAXTRY
  /\ SendToReceiver(Syn)
  /\ spc' = "synwait"
  /\ UNCHANGED <<setting, notes, stries, receiverVars>>

SynRetry == spc' = "syn" /\ stries' = stries + 1

SynTimeout ==
  /\ spc = "synwait" /\ ShortWaitOver("sender")
  /\ SynRetry /\ Leaves("sender")
  /\ UNCHANGED <<setting, netVars, receiverVars>>

\* Only the intact SYN+ACK of this SYN ends the first loop.
ReceiveSynAck(p) ==
  /\ spc = "synwait"
  /\ TakeFromSender(p) /\ Leaves("sender")
  /\ IF p = SynAck THEN spc' = "ack" /\ stries' = 0 ELSE SynRetry
  /\ UNCHANGED <<setting, receiverVars>>

SynGiveUp ==
  /\ spc = "syn" /\ stries = MAXTRY
  /\ spc' = "failed"
  /\ UNCHANGED <<setting, notes, stries, netVars, receiverVars>>

\* Mutant: one final ACK more than the tries allow.
SendFinalAckOneMore ==
  /\ spc = "ack" /\ stries <= MAXTRY
  /\ SendToReceiver(Ack(ISN))
  /\ spc' = "ackwait"
  /\ UNCHANGED <<setting, notes, stries, receiverVars>>

SendFinalAck ==
  /\ spc = "ack" /\ stries < MAXTRY
  /\ SendToReceiver(Ack(ISN))
  /\ spc' = "ackwait"
  /\ UNCHANGED <<setting, notes, stries, receiverVars>>

\* Any packet within 2 s, read with no buffer, makes it send the ACK again.
ReceiveAfterFinalAck(p) ==
  /\ spc = "ackwait"
  /\ TakeFromSender(p)
  /\ spc' = "ack" /\ stries' = stries + 1
  /\ UNCHANGED <<setting, notes, receiverVars>>

ConfirmTimeout ==
  /\ spc = "ackwait" /\ ConfirmWaitOver
  /\ spc' = "connected"
  /\ UNCHANGED <<setting, notes, stries, netVars, receiverVars>>

AckGiveUp ==
  /\ spc = "ack" /\ stries = MAXTRY
  /\ spc' = "unconfirmed"
  /\ UNCHANGED <<setting, notes, stries, netVars, receiverVars>>

\* A connected sender sends its first chunk, again and again if need be,
\* while the receiver still waits for the final ACK.
SendEarlyData ==
  /\ spc = "connected" /\ rpc \in {"synack", "synackwait"}
  /\ ~BagIn(DataPacket(ISN, 1), toReceiver)
  /\ SendToReceiver(DataPacket(ISN, 1))
  /\ UNCHANGED <<setting, notes, senderVars, receiverVars>>

-----------------------------------------------------------------------------
(* Receiver.                                                               *)

\* The first intact SYN fixes the address and the number; the rest is dropped.
ReceiveSyn(p) ==
  /\ rpc = "listen"
  /\ TakeFromReceiver(p)
  /\ IF p.intact /\ p.flags = {"SYN"}
     THEN rpc' = "synack" /\ peer' = p.seq + 1
     ELSE UNCHANGED <<rpc, peer>>
  /\ UNCHANGED <<setting, notes, toSender, senderVars, rtries>>

ListenTimeout ==
  /\ rpc = "listen" /\ ListenWaitOver
  /\ rpc' = "failed"
  /\ UNCHANGED <<setting, notes, netVars, senderVars, rtries, peer>>

SendSynAck ==
  /\ rpc = "synack" /\ rtries < MAXTRY
  /\ SendToPeer(Packet({"ACK", "SYN"}, peer, 0))
  /\ rpc' = "synackwait"
  /\ UNCHANGED <<setting, notes, toReceiver, senderVars, rtries, peer>>

SynAckRetry == rpc' = "synack" /\ rtries' = rtries + 1

\* Mutant: the receiver goes on waiting instead of sending its SYN+ACK again.
SynAckTimeoutWaits ==
  rpc = "synackwait" /\ ShortWaitOver("receiver") /\ UNCHANGED vars

SynAckTimeout ==
  /\ rpc = "synackwait" /\ ShortWaitOver("receiver")
  /\ SynAckRetry /\ Leaves("receiver")
  /\ UNCHANGED <<setting, netVars, senderVars, peer>>

\* Mutant: any intact packet is taken for the final ACK.
ReceiveFinalAckAny(p) ==
  /\ rpc = "synackwait"
  /\ TakeFromReceiver(p) /\ Leaves("receiver")
  /\ IF p.intact THEN rpc' = "connected" /\ UNCHANGED rtries ELSE SynAckRetry
  /\ UNCHANGED <<setting, toSender, senderVars, peer>>

\* Mutant: the first packet that is not the final ACK ends the handshake.
ReceiveFinalAckStrict(p) ==
  /\ rpc = "synackwait"
  /\ TakeFromReceiver(p) /\ Leaves("receiver")
  /\ rpc' = IF p = Ack(peer) THEN "connected" ELSE "failed"
  /\ UNCHANGED <<setting, toSender, senderVars, rtries, peer>>

\* Only the intact final ACK connects; everything else costs a try: a copy of
\* the SYN, another sender's packet, and data (cut off, so its checksum fails).
ReceiveFinalAck(p) ==
  /\ rpc = "synackwait"
  /\ TakeFromReceiver(p) /\ Leaves("receiver")
  /\ IF p = Ack(peer) THEN rpc' = "connected" /\ UNCHANGED rtries ELSE SynAckRetry
  /\ UNCHANGED <<setting, toSender, senderVars, peer>>

SynAckGiveUp ==
  /\ rpc = "synack" /\ rtries = MAXTRY
  /\ rpc' = "failed"
  /\ UNCHANGED <<setting, notes, netVars, senderVars, rtries, peer>>

\* Mutant: the data loop answers with its number + 1.
AnswerInDataLoopNext(p) ==
  /\ rpc = "connected" /\ spc # "connected"
  /\ TakeFromReceiver(p)
  /\ SendToPeer(Ack(next_seq(peer)))
  /\ UNCHANGED <<setting, notes, senderVars, receiverVars>>

\* The data loop while the sender is not connected yet: mode 0 answers every
\* packet with the first number, mode 1 an intact one with the packet's own.
AnswerInDataLoop(p) ==
  /\ rpc = "connected" /\ spc # "connected"
  /\ TakeFromReceiver(p)
  /\ IF mode = 0 THEN SendToPeer(Ack(peer))
     ELSE IF p.intact THEN SendToPeer(Ack(p.seq))
     ELSE UNCHANGED toSender
  /\ UNCHANGED <<setting, notes, senderVars, receiverVars>>

-----------------------------------------------------------------------------
(* Network.                                                                *)

Fault ==
  /\ faults < MaxFaults /\ faults' = faults + 1
  /\ UNCHANGED <<setting, senderVars, receiverVars>>

\* The ends in a wait of 100 ms.
ShortWaits ==
  {end \in {"sender", "receiver"} :
     IF end = "sender" THEN spc = "synwait" ELSE rpc = "synackwait"}

Lose ==
  /\ "lose" \in Faults /\ Fault
  /\ overdue' = IF timely THEN overdue \cup ShortWaits ELSE overdue
  /\ \/ \E p \in BagToSet(toReceiver) : TakeFromReceiver(p) /\ UNCHANGED toSender
     \/ \E p \in BagToSet(toSender) : TakeFromSender(p)

Duplicate ==
  /\ Late("duplicate") /\ Fault /\ UNCHANGED overdue
  /\ \/ \E p \in BagToSet(toReceiver) : SendToReceiver(p)
     \/ \E p \in BagToSet(toSender) : toSender' = BagAdd(toSender, p) /\ UNCHANGED toReceiver

Corrupt ==
  /\ "corrupt" \in Faults /\ Fault /\ UNCHANGED overdue
  /\ \/ \E p \in BagToSet(toReceiver) \ {Garbled} :
          toReceiver' = BagAdd(BagRemove(toReceiver, p), Garbled) /\ UNCHANGED toSender
     \/ \E p \in BagToSet(toSender) \ {Garbled} :
          toSender' = BagAdd(BagRemove(toSender, p), Garbled) /\ UNCHANGED toReceiver

-----------------------------------------------------------------------------
SenderStep ==
  \/ SendSyn \/ SynTimeout \/ SynGiveUp
  \/ SendFinalAck \/ ConfirmTimeout \/ AckGiveUp
  \/ \E p \in BagToSet(toSender) : ReceiveSynAck(p) \/ ReceiveAfterFinalAck(p)

ReceiverStep ==
  \/ ListenTimeout \/ SendSynAck \/ SynAckTimeout \/ SynAckGiveUp
  \/ \E p \in BagToSet(toReceiver) :
       ReceiveSyn(p) \/ ReceiveFinalAck(p) \/ AnswerInDataLoop(p)

\* The transfer takes over, or the programs have exited.
Ended == SenderEnded /\ ReceiverEnded /\ UNCHANGED vars

Next ==
  SenderStep \/ ReceiverStep \/ SendEarlyData \/ Lose \/ Duplicate \/ Corrupt \/ Ended

Spec == Init /\ [][Next]_vars

\* Both programs keep running; neither reads nor waits for ever.
FairSpec == Spec /\ WF_vars(SenderStep) /\ WF_vars(ReceiverStep)

-----------------------------------------------------------------------------
TypeOK ==
  /\ mode \in {0, 1} /\ timely \in BOOLEAN /\ faults \in 0..MaxFaults
  /\ overdue \subseteq ShortWaits
  /\ IsABag(toReceiver) /\ BagToSet(toReceiver) \subseteq PacketType
  /\ IsABag(toSender) /\ BagToSet(toSender) \subseteq PacketType
  /\ spc \in {"syn", "synwait", "ack", "ackwait", "connected", "failed", "unconfirmed"}
  /\ rpc \in {"listen", "synack", "synackwait", "connected", "failed"}
  /\ stries \in 0..MAXTRY /\ rtries \in 0..MAXTRY
  /\ peer \in {0, ISN, EarlierISN}

Connected == spc = "connected" /\ rpc = "connected"

(* A receiver that takes its peer's handshake for complete has a peer that *)
(* has seen the SYN+ACK and knows its number: copies of the SYN, damaged   *)
(* packets and packets of a crashed sender do not pass for the final ACK   *)
(* (receiver.c:111-132).                                                   *)
ConnectedPeerAcked ==
  rpc = "connected" /\ peer = ISN => spc \in {"ack", "ackwait", "connected", "unconfirmed"}

\* Mode 1 answers a crashed sender's packets to the one it is connected to.
EarlierAnswers == IF mode = 0 THEN {} ELSE {Ack(p.seq) : p \in EarlierPackets}

(* When the transfer begins, both ends count from the same number and the  *)
(* packets under way are the stale ones it is started with (TransferInit   *)
(* of RtpTransfer), damaged ones, early data and those a crashed sender is *)
(* the cause of (sender.c:118-142, receiver.c:96-132, 232-241, 341-348).   *)
HandsOverCleanly ==
  Connected =>
    /\ peer = ISN
    /\ BagToSet(toReceiver) \subseteq StaleToReceiver \cup EarlierPackets
                                        \cup {Garbled, DataPacket(ISN, 1)}
    /\ BagToSet(toSender) \subseteq StaleToSender(mode) \cup {Garbled} \cup EarlierAnswers

(* A sender that gives up the handshake for want of confirmation has no    *)
(* receiver that waits for its data (sender.c:142-152).                    *)
UnconfirmedMeansNotConnected == spc = "unconfirmed" => rpc # "connected"

(* Both handshakes end, however packets are lost, doubled, damaged or late *)
(* (the loops at sender.c:90, 128 and receiver.c:72, 96).                  *)
HandshakeEnds == <>(SenderEnded /\ ReceiverEnded)

(* On a timely network, fewer lost or damaged packets than tries never     *)
(* keep the two programs from connecting, as long as none is lost in the   *)
(* waits of 100 ms of both ends at once: those waits may cross, and their  *)
(* two SYN+ACKs cost the connection (run connect_ping_pong).  So the tries *)
(* of sender.c:90, 128 and receiver.c:96 suffice for lost SYNs, lost final *)
(* ACKs and whatever is damaged, and not for a lost SYN+ACK.               *)
BothConnect ==
  timely /\ [](faults < MAXTRY) /\ [](overdue # {"sender", "receiver"}) => <>Connected
=============================================================================
