------------------------------- MODULE RtpGBN -------------------------------
(***************************************************************************)
(* Mode 0 of the RTP transport: Send_with_GBN of sender.c with             *)
(* Receive_with_GBN of receiver.c.  The sender keeps one timer for the     *)
(* oldest outstanding packet and resends everything outstanding when it    *)
(* fires; the receiver takes packets in order only and answers every       *)
(* packet with the number it expects next.                                 *)
(***************************************************************************)
EXTENDS RtpTransfer

vars == transferVars

Init == TransferInit(StaleToSender(0))

-----------------------------------------------------------------------------
(* Sender.                                                                 *)

\* Mutant: resends only the oldest packet, and that from the wrong end.
TimerEventSkipsBase ==
  HandleTimer({window[Slot(s)] : s \in SeqRange(next_seq(base), nextseqnum)})

TimerEvent == HandleTimer({window[Slot(s)] : s \in SeqRange(base, nextseqnum)})

\* Mutant: an ACK of base itself is taken for new.
AckEventOldWindow(p) ==
  /\ Handling("socket")
  /\ \E rest \in AfterDelivery(toSender, p) : toSender' = rest
  /\ IF IsAck(p) /\ p.seq # nextseqnum /\ in_window(p.seq, next_seq(base), WS)
     THEN base' = next_seq(p.seq) /\ timer' = TimerFor(next_seq(p.seq))
     ELSE UNCHANGED <<base, timer>>
  /\ NextEvent
  /\ UNCHANGED <<toReceiver, fileVars, tries, receiverVars>>

\* Mutant: the timer is stopped whenever the window moves.
AckEventStopsTimer(p) ==
  /\ Handling("socket")
  /\ \E rest \in AfterDelivery(toSender, p) : toSender' = rest
  /\ IF IsAck(p) /\ in_window(p.seq, next_seq(base), WS)
     THEN base' = p.seq /\ timer' = "off"
     ELSE UNCHANGED <<base, timer>>
  /\ NextEvent
  /\ UNCHANGED <<toReceiver, fileVars, tries, receiverVars>>

\* An ACK inside the window acknowledges everything before its number; the
\* timer restarts, or stops when nothing is outstanding.
AckEvent(p) ==
  /\ Handling("socket")
  /\ \E rest \in AfterDelivery(toSender, p) : toSender' = rest
  /\ IF IsAck(p) /\ in_window(p.seq, next_seq(base), WS)
     THEN base' = p.seq /\ timer' = TimerFor(p.seq)
     ELSE UNCHANGED <<base, timer>>
  /\ NextEvent
  /\ UNCHANGED <<toReceiver, fileVars, tries, receiverVars>>

-----------------------------------------------------------------------------
(* Receiver.                                                               *)

\* Mutant: data is taken whatever its number.
IsNextChunkAny(p) == p.intact /\ p.flags = {}

IsNextChunk(p) == p.intact /\ p.flags = {} /\ p.seq = expected

IsLastFin(p) == p.intact /\ p.flags = {"FIN"} /\ p.seq = expected

\* The next packet in order: write its chunk, expect the next, acknowledge.
ReceiveChunk(p) ==
  /\ rpc = "data" /\ IsNextChunk(p)
  /\ \E rest \in AfterDelivery(toReceiver, p) : toReceiver' = rest
  /\ written' = Append(written, p.chunk)
  /\ expected' = next_seq(expected)
  /\ toSender' = toSender \cup {Ack(next_seq(expected))}
  /\ UNCHANGED <<rpc, senderVars>>

\* fwrite fails: the file is closed here and again in main, which is undefined;
\* either main goes on and removes the file or the process dies before that.
ReceiveChunkFails(p) ==
  /\ rpc = "data" /\ IsNextChunk(p) /\ "write" \in Faults
  /\ \E rest \in AfterDelivery(toReceiver, p) : toReceiver' = rest
  /\ rpc' \in {"failed", "abandoned"}
  /\ UNCHANGED <<toSender, senderVars, expected, written>>

\* The FIN after the last chunk ends the data loop.
ReceiveFin(p) ==
  /\ rpc = "data" /\ IsLastFin(p)
  /\ \E rest \in AfterDelivery(toReceiver, p) : toReceiver' = rest
  /\ rpc' = "finack"
  /\ UNCHANGED <<toSender, senderVars, expected, written>>

\* Anything else is dropped and answered with the expected number.
ReceiveOther(p) ==
  /\ rpc = "data" /\ ~IsNextChunk(p) /\ ~IsLastFin(p)
  /\ \E rest \in AfterDelivery(toReceiver, p) : toReceiver' = rest
  /\ toSender' = toSender \cup {Ack(expected)}
  /\ UNCHANGED <<senderVars, receiverVars>>

Receive(p) ==
  ReceiveChunk(p) \/ ReceiveChunkFails(p) \/ ReceiveFin(p) \/ ReceiveOther(p)

-----------------------------------------------------------------------------
Next ==
  \/ FillChunk \/ FillEnd \/ SenderLoop \/ TimerFires \/ TimerEvent
  \/ \E p \in toSender : AckEvent(p)
  \/ \E p \in toReceiver : Receive(p)
  \/ SenderClose \/ ReceiverClose \/ Network \/ Stopped

Spec == Init /\ [][Next]_vars

\* An ACK that moves the window is under way to the data loop.
NewAck(p) ==
  /\ spc \in {"fill", "poll", "events"}
  /\ IsAck(p) /\ in_window(p.seq, next_seq(base), WS)

(* What RtpMain asks fairness of.                                          *)
SenderRuns ==
  \/ FillChunk \/ FillEnd \/ SenderLoop \/ TimerEvent
  \/ \E p \in toSender : AckEvent(p)
  \/ StartClose \/ SendFin \/ GiveUp

ReceiverRuns == DataTimeout \/ SendFinAck \/ LingerTimeout

ChunkArrives  == \E p \in toReceiver : ReceiveChunk(p)
PacketArrives == \E p \in toReceiver : Receive(p) \/ LingerReceive(p)

AckWaits == \E p \in toSender : NewAck(p)
AckTaken == \E p \in toSender : AckEvent(p) /\ base' # base

-----------------------------------------------------------------------------
TypeOK ==
  /\ TransferTypeOK
  /\ spc \in {"fill", "poll", "events", "fin", "finwait", "ok", "failed"}
  /\ rpc \in {"data", "finack", "linger", "done", "failed", "abandoned"}
  /\ spc = "events" <=> events # <<>>

(* The sender never runs ahead of the receiver nor further than its window *)
(* behind what it sent: base, the receiver's next_expected_seq and         *)
(* nextseqnum stay in this order, at most WS apart, also when old          *)
(* handshake packets, duplicates and damaged packets arrive                *)
(* (sender.c:406-410, receiver.c:213-241).                                 *)
WindowsAgree ==
  /\ Pos(base) <= Pos(expected)
  /\ Pos(expected) <= Pos(nextseqnum)
  /\ Pos(nextseqnum) <= Pos(base) + WS

(* The slots of the outstanding packets still hold those packets, so that  *)
(* a resend (sender.c:369-377) sends what was lost and nothing else.       *)
OutstandingKept ==
  \A s \in SeqRange(base, nextseqnum) : window[Slot(s)] = DataPacket(s, Pos(s) + 1)

(* The timer runs exactly while something is outstanding: never off with a *)
(* packet waiting for its ACK (nobody would resend it), never on with an   *)
(* empty window, whatever the order of events in a batch                   *)
(* (sender.c:319-321, 380, 413-421).                                       *)
TimerCoversWindow == timer # "off" <=> base # nextseqnum

(* A transfer whose two ends end well has delivered the whole file, in     *)
(* order; the sender ends well only after the receiver has seen everything *)
(* (sender.c:158-203, receiver.c:196-203).                                 *)
Transfer ==
  INSTANCE FileTransfer WITH
    Size     <- N,
    output   <- written,
    receiver <- IF rpc = "data" THEN "open"
                ELSE IF ReceiverComplete THEN "complete" ELSE "aborted",
    sender   <- CASE spc = "ok" -> "succeeded" [] spc = "failed" -> "failed"
                  [] OTHER -> "active"

ImplementsTransfer == Transfer!Spec
=============================================================================
