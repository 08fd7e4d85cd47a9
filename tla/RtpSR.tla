-------------------------------- MODULE RtpSR --------------------------------
(***************************************************************************)
(* Mode 1 of the RTP transport: Send_with_SR of sender.c with              *)
(* Receive_with_SR of receiver.c.  Every packet is acknowledged on its     *)
(* own, the receiver keeps the packets of its window that come early, and  *)
(* one timer resends what is outstanding and not acknowledged.             *)
(*                                                                         *)
(* The two loops that run over the acked arrays are modelled one round at  *)
(* a time: spc = "sweep" is the sender's loop that moves base, rpc =       *)
(* "write" the receiver's loop that writes the packets in order.           *)
(***************************************************************************)
EXTENDS RtpTransfer

CONSTANT WR        \* the receiver's window_size

\* A packet the receiver drops as out of its window is acknowledged all the
\* same: it must not have the smaller window (test.cpp gives both the same).
ASSUME ReceiverWindowAssumption == WR \in Nat /\ WS <= WR

VARIABLES
  acked,           \* Sender_State_t: which slots have been acknowledged
  racked,          \* Receive_State_t.acked: which slots hold an early packet
  rwindow,         \* Receive_State_t.window
  cursor           \* current_seq of the receiver's write loop

ringVars == <<racked, rwindow, cursor>>
vars == <<transferVars, acked, ringVars>>

Init ==
  /\ TransferInit(StaleToSender(1))
  /\ acked = [s \in Slots |-> FALSE]
  /\ racked = [s \in Slots |-> FALSE]
  /\ rwindow = [s \in Slots |-> Garbled]      \* malloc: not initialised
  /\ cursor = ISN

-----------------------------------------------------------------------------
(* Sender.                                                                 *)

ClearNextSlot == acked' = [acked EXCEPT ![Slot(nextseqnum)] = FALSE]

\* The slot's mark is cleared before fread, at the end of the file as well.
SRFillChunk == FillChunk /\ ClearNextSlot /\ UNCHANGED ringVars
SRFillEnd   == FillEnd /\ ClearNextSlot /\ UNCHANGED ringVars

TimerEvent ==
  /\ HandleTimer({window[Slot(s)] :
                    s \in {t \in SeqRange(base, nextseqnum) : ~acked[Slot(t)]}})
  /\ UNCHANGED <<acked, ringVars>>

\* Mutant: ACKs are cumulative, as in mode 0.
AckEventCumulative(p) ==
  /\ Handling("socket")
  /\ \E rest \in AfterDelivery(toSender, p) : toSender' = rest
  /\ IF IsAck(p) /\ in_window(p.seq, base, WS)
     THEN /\ acked' = [s \in Slots |->
               acked[s] \/ s \in {Slot(t) : t \in SeqRange(base, next_seq(p.seq))}]
          /\ spc' = "sweep" /\ UNCHANGED events
     ELSE UNCHANGED acked /\ NextEvent
  /\ UNCHANGED <<toReceiver, base, fileVars, timer, tries, receiverVars, ringVars>>

\* An ACK inside the window marks its packet; the ACK of base starts the sweep.
AckEvent(p) ==
  /\ Handling("socket")
  /\ \E rest \in AfterDelivery(toSender, p) : toSender' = rest
  /\ IF IsAck(p) /\ in_window(p.seq, base, WS)
     THEN acked' = [acked EXCEPT ![Slot(p.seq)] = TRUE]
     ELSE UNCHANGED acked
  /\ IF IsAck(p) /\ in_window(p.seq, base, WS) /\ p.seq = base
     THEN spc' = "sweep" /\ UNCHANGED events
     ELSE NextEvent
  /\ UNCHANGED <<toReceiver, base, fileVars, timer, tries, receiverVars, ringVars>>

\* while (acked[base % MAX_WINDOW_SIZE] == 1) base = next_seq(base)
SweepStep ==
  /\ spc = "sweep" /\ acked[Slot(base)]
  /\ base' = next_seq(base)
  /\ UNCHANGED <<netVars, spc, fileVars, events, timer, tries, receiverVars, acked, ringVars>>

\* Mutant: the timer is not started again for what is still outstanding.
SweepEndNoRestart ==
  /\ spc = "sweep" /\ ~acked[Slot(base)]
  /\ timer' = "off"
  /\ NextEvent
  /\ UNCHANGED <<netVars, base, fileVars, tries, receiverVars, acked, ringVars>>

\* The sweep is over: the timer restarts, or stops with nothing outstanding.
SweepEnd ==
  /\ spc = "sweep" /\ ~acked[Slot(base)]
  /\ timer' = TimerFor(base)
  /\ NextEvent
  /\ UNCHANGED <<netVars, base, fileVars, tries, receiverVars, acked, ringVars>>

-----------------------------------------------------------------------------
(* Receiver.                                                               *)

IsFin(p) == p.intact /\ p.flags = {"FIN"}

InReceiveWindow(p) == p.flags = {} /\ in_window(p.seq, expected, WR)

IsFresh(p) == p.intact /\ InReceiveWindow(p) /\ ~racked[Slot(p.seq)]

\* A packet of the window not seen before is kept.  The one that is expected
\* starts the write loop; any other is acknowledged right away.
ReceiveFresh(p) ==
  /\ rpc = "data" /\ IsFresh(p)
  /\ \E rest \in AfterDelivery(toReceiver, p) : toReceiver' = rest
  /\ racked' = [racked EXCEPT ![Slot(p.seq)] = TRUE]
  /\ rwindow' = [rwindow EXCEPT ![Slot(p.seq)] = p]
  /\ IF p.seq = expected
     THEN rpc' = "write" /\ cursor' = expected /\ UNCHANGED toSender
     ELSE toSender' = toSender \cup {Ack(p.seq)} /\ UNCHANGED <<rpc, cursor>>
  /\ UNCHANGED <<senderVars, expected, written, acked>>

\* Mutant: the slot stays marked after its packet is written.
WriteStepKeepsMark ==
  /\ rpc = "write" /\ racked[Slot(cursor)]
  /\ written' = Append(written, rwindow[Slot(cursor)].chunk)
  /\ cursor' = next_seq(cursor)
  /\ UNCHANGED <<netVars, senderVars, rpc, expected, acked, racked, rwindow>>

\* One round of the write loop: the chunk is written and its slot freed.
WriteStep ==
  /\ rpc = "write" /\ racked[Slot(cursor)]
  /\ written' = Append(written, rwindow[Slot(cursor)].chunk)
  /\ racked' = [racked EXCEPT ![Slot(cursor)] = FALSE]
  /\ cursor' = next_seq(cursor)
  /\ UNCHANGED <<netVars, senderVars, rpc, expected, acked, rwindow>>

\* fwrite fails: back to main, which removes the file.
WriteFails ==
  /\ rpc = "write" /\ racked[Slot(cursor)] /\ "write" \in Faults
  /\ rpc' = "failed"
  /\ UNCHANGED <<netVars, senderVars, expected, written, acked, ringVars>>

\* Mutant: the answer carries the next expected number, as in mode 0.
WriteEndAcksNext ==
  /\ rpc = "write" /\ ~racked[Slot(cursor)]
  /\ expected' = cursor
  /\ toSender' = toSender \cup {Ack(cursor)}
  /\ rpc' = "data"
  /\ UNCHANGED <<toReceiver, senderVars, written, acked, ringVars>>

\* The loop is over: the window moves and the packet that started it, which
\* was the expected one, is acknowledged.
WriteEnd ==
  /\ rpc = "write" /\ ~racked[Slot(cursor)]
  /\ expected' = cursor
  /\ toSender' = toSender \cup {Ack(expected)}
  /\ rpc' = "data"
  /\ UNCHANGED <<toReceiver, senderVars, written, acked, ringVars>>

\* The FIN after the last chunk ends the data loop.
ReceiveFin(p) ==
  /\ rpc = "data" /\ IsFin(p) /\ p.seq = expected
  /\ \E rest \in AfterDelivery(toReceiver, p) : toReceiver' = rest
  /\ rpc' = "finack"
  /\ UNCHANGED <<toSender, senderVars, expected, written, acked, ringVars>>

\* A damaged packet or an early FIN is dropped without an answer.
ReceiveIgnored(p) ==
  /\ rpc = "data"
  /\ ~p.intact \/ (IsFin(p) /\ p.seq # expected)
  /\ \E rest \in AfterDelivery(toReceiver, p) : toReceiver' = rest
  /\ UNCHANGED <<toSender, senderVars, receiverVars, acked, ringVars>>

\* Every other packet, a duplicate or one that does not belong in the window,
\* whatever its flags, is dropped and acknowledged with its own number.
ReceiveOther(p) ==
  /\ rpc = "data" /\ p.intact /\ ~IsFin(p) /\ ~IsFresh(p)
  /\ \E rest \in AfterDelivery(toReceiver, p) : toReceiver' = rest
  /\ toSender' = toSender \cup {Ack(p.seq)}
  /\ UNCHANGED <<senderVars, receiverVars, acked, ringVars>>

Receive(p) ==
  ReceiveFresh(p) \/ ReceiveFin(p) \/ ReceiveIgnored(p) \/ ReceiveOther(p)

WriteLoop == WriteStep \/ WriteFails \/ WriteEnd

-----------------------------------------------------------------------------
Shared ==
  /\ SenderLoop \/ TimerFires \/ SenderClose \/ ReceiverClose \/ Network
  /\ UNCHANGED <<acked, ringVars>>

Next ==
  \/ SRFillChunk \/ SRFillEnd \/ TimerEvent \/ SweepStep \/ SweepEnd
  \/ \E p \in toSender : AckEvent(p)
  \/ \E p \in toReceiver : Receive(p)
  \/ WriteLoop \/ Shared
  \/ Stopped /\ UNCHANGED <<acked, ringVars>>

Spec == Init /\ [][Next]_vars

\* An ACK of a packet not yet acknowledged is under way to the data loop.
NewAck(p) ==
  /\ spc \in {"fill", "poll", "events", "sweep"}
  /\ IsAck(p) /\ in_window(p.seq, base, WS) /\ ~acked[Slot(p.seq)]

(* What RtpMain asks fairness of.                                          *)
SenderRuns ==
  \/ SRFillChunk \/ SRFillEnd \/ TimerEvent \/ SweepStep \/ SweepEnd
  \/ \E p \in toSender : AckEvent(p)
  \/ /\ SenderLoop \/ StartClose \/ SendFin \/ GiveUp
     /\ UNCHANGED <<acked, ringVars>>

ReceiverRuns ==
  \/ WriteLoop
  \/ /\ DataTimeout \/ SendFinAck \/ LingerTimeout
     /\ UNCHANGED <<acked, ringVars>>

ChunkArrives  == \E p \in toReceiver : ReceiveFresh(p)
OtherArrives  == \E p \in toReceiver : ReceiveOther(p)
PacketArrives ==
  \E p \in toReceiver :
    Receive(p) \/ (LingerReceive(p) /\ UNCHANGED <<acked, ringVars>>)

AckWaits == \E p \in toSender : NewAck(p)
AckTaken == \E p \in toSender : AckEvent(p) /\ acked' # acked

-----------------------------------------------------------------------------
TypeOK ==
  /\ TransferTypeOK
  /\ spc \in {"fill", "poll", "events", "sweep", "fin", "finwait", "ok", "failed"}
  /\ rpc \in {"data", "write", "finack", "linger", "done", "failed", "abandoned"}
  /\ spc \in {"events", "sweep"} <=> events # <<>>
  /\ acked \in [Slots -> BOOLEAN] /\ racked \in [Slots -> BOOLEAN]
  /\ rwindow \in [Slots -> PacketType] /\ cursor \in SeqNums

(* base, the receiver's base and nextseqnum stay in this order, at most WS *)
(* apart: the sweep never moves base past a packet the receiver has not    *)
(* written, nor past what was sent (sender.c:537-543, receiver.c:302-326). *)
WindowsAgree ==
  /\ Pos(base) <= Pos(expected)
  /\ Pos(expected) <= Pos(nextseqnum)
  /\ Pos(nextseqnum) <= Pos(base) + WS

(* What the sender counts as acknowledged, and so never sends again, the   *)
(* receiver has written or keeps (sender.c:504, 538, receiver.c:308-309).  *)
AckedMeansStored ==
  rpc \in {"data", "write"} =>
    \A s \in SeqRange(base, nextseqnum) :
      acked[Slot(s)] =>
        \/ Pos(s) < Pos(IF rpc = "write" THEN cursor ELSE expected)
        \/ racked[Slot(s)] /\ rwindow[Slot(s)] = DataPacket(s, Pos(s) + 1)

(* Every occupied slot of the receiver holds the packet of the one number  *)
(* of its window that maps there, and between two packets the slot of the  *)
(* expected number is free: otherwise that packet would be taken for a     *)
(* duplicate for ever (receiver.c:302-326).                                *)
ReceiveBufferSound ==
  /\ rpc = "data" => ~racked[Slot(expected)]
  /\ \A t \in Slots : racked[t] =>
       LET s == rwindow[t].seq IN
         /\ Slot(s) = t /\ in_window(s, expected, WR)
         /\ rwindow[t] = DataPacket(s, Pos(s) + 1)
         /\ rpc = "write" => Pos(s) >= Pos(cursor)

(* The slots of the outstanding packets still hold those packets           *)
(* (sender.c:502-511).                                                     *)
OutstandingKept ==
  \A s \in SeqRange(base, nextseqnum) : window[Slot(s)] = DataPacket(s, Pos(s) + 1)

(* The timer runs exactly while something is outstanding, whatever the     *)
(* order of ACKs and events (sender.c:462-464, 513, 540-551).              *)
TimerCoversWindow == spc # "sweep" => (timer # "off" <=> base # nextseqnum)

(* Selective repeat makes the promise of FileTransfer: in-order writes,    *)
(* and success only with the whole file (sender.c:158-203,                 *)
(* receiver.c:284-292, 311-327).                                           *)
Transfer ==
  INSTANCE FileTransfer WITH
    Size     <- N,
    output   <- written,
    receiver <- IF rpc \in {"data", "write"} THEN "open"
                ELSE IF ReceiverComplete THEN "complete" ELSE "aborted",
    sender   <- CASE spc = "ok" -> "succeeded" [] spc = "failed" -> "failed"
                  [] OTHER -> "active"

ImplementsTransfer == Transfer!Spec
=============================================================================
