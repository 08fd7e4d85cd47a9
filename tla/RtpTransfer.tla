----------------------------- MODULE RtpTransfer -----------------------------
(***************************************************************************)
(* What the two modes of the RTP transport share, from the moment both     *)
(* ends of a connection have finished the handshake (RtpConnect): the UDP  *)
(* network, the sender's loop over fread, epoll_wait and its timerfd, the  *)
(* receiver's timeouts, and the FIN exchange that ends a transfer.         *)
(* RtpGBN and RtpSR add the handlers of mode 0 and mode 1.                 *)
(*                                                                         *)
(* The network is a set of packets in each direction: any of them may      *)
(* arrive next.                                                            *)
(***************************************************************************)
EXTENDS RtpPacket, Sequences

CONSTANTS
  WS,          \* the sender's window_size
  MAXTRY,      \* attempts to close a connection, 50 in the code
  Faults,      \* what may go wrong, see FaultKinds
  StaleHandshake  \* may copies of handshake packets still be under way?

(* lose, duplicate, corrupt: the network, as the tests' "err" argument     *)
(*   asks of it (test.cpp:188-202); reordering is always possible.         *)
(* read, write: fread or fwrite fails.                                     *)
(* silence: the receiver's 5 s and 2 s timeouts fire although the sender   *)
(*   is still at work, all its packets of that time being lost.            *)
FaultKinds == {"lose", "duplicate", "corrupt", "read", "write", "silence"}

ASSUME WindowAssumption  == WS \in Nat \ {0}
ASSUME TriesAssumption   == MAXTRY \in Nat
ASSUME FaultsAssumption  == Faults \subseteq FaultKinds
ASSUME StaleAssumption   == StaleHandshake \in BOOLEAN
\* No number is used twice while a copy of its first use may be under way.
ASSUME NoReuseAssumption == N + WS <= SEQ_MAX

VARIABLES
  toReceiver, toSender,   \* packets under way in each direction
  spc,                    \* where the sender is
  base, nextseqnum,       \* Sender_State_t
  window,                 \* Sender_State_t: the packets sent, by slot
  input_eof,              \* fread has returned 0
  fpos,                   \* chunks read from the file so far
  events,                 \* events of the last epoll_wait still to be handled
  timer,                  \* the timerfd: "off", "armed" or "expired" (readable)
  tries,                  \* attempts to close the connection
  rpc,                    \* where the receiver is
  expected,               \* next_expected_seq (GBN), SR_state->base (SR)
  written                 \* chunks in the output file

netVars      == <<toReceiver, toSender>>
fileVars     == <<nextseqnum, window, input_eof, fpos>>
senderVars   == <<spc, base, fileVars, events, timer, tries>>
receiverVars == <<rpc, expected, written>>
transferVars == <<netVars, senderVars, receiverVars>>

-----------------------------------------------------------------------------
\* Channel c after packet p was delivered: a duplicate may stay behind.
AfterDelivery(c, p) == {c \ {p}} \cup (IF "duplicate" \in Faults THEN {c} ELSE {})

Lose ==
  /\ "lose" \in Faults
  /\ \/ \E p \in toReceiver : toReceiver' = toReceiver \ {p} /\ UNCHANGED toSender
     \/ \E p \in toSender   : toSender' = toSender \ {p} /\ UNCHANGED toReceiver
  /\ UNCHANGED <<senderVars, receiverVars>>

Corrupt ==
  /\ "corrupt" \in Faults
  /\ \/ \E p \in toReceiver :
          toReceiver' = (toReceiver \ {p}) \cup {Garbled} /\ UNCHANGED toSender
     \/ \E p \in toSender :
          toSender' = (toSender \ {p}) \cup {Garbled} /\ UNCHANGED toReceiver
  /\ UNCHANGED <<senderVars, receiverVars>>

-----------------------------------------------------------------------------
(* The sender's loop.  spc = "fill": at the top of the loop or in its fill *)
(* loop; "poll": in epoll_wait; "events": in the for loop over events.     *)

\* staleAnswers: what the receiver may have sent during the handshake.
TransferInit(staleAnswers) ==
  /\ IF StaleHandshake
     THEN toReceiver \in SUBSET StaleToReceiver /\ toSender \in SUBSET staleAnswers
     ELSE toReceiver = {} /\ toSender = {}
  /\ spc = "fill" /\ base = ISN /\ nextseqnum = ISN
  /\ window = [s \in Slots |-> Garbled]       \* malloc: not initialised
  /\ input_eof = FALSE /\ fpos = 0
  /\ events = <<>> /\ timer = "off" /\ tries = 0
  /\ rpc = "data" /\ expected = ISN /\ written = <<>>

\* Mutant: the chunk is kept in the slot of the next number.
FillChunkNextSlot ==
  /\ spc = "fill" /\ ~input_eof
  /\ in_window(nextseqnum, base, WS)
  /\ fpos < N
  /\ window' = [window EXCEPT ![Slot(next_seq(nextseqnum))] = DataPacket(nextseqnum, fpos + 1)]
  /\ toReceiver' = toReceiver \cup {DataPacket(nextseqnum, fpos + 1)}
  /\ timer' = IF base = nextseqnum THEN "armed" ELSE timer
  /\ nextseqnum' = next_seq(nextseqnum)
  /\ fpos' = fpos + 1
  /\ UNCHANGED <<toSender, spc, base, input_eof, events, tries, receiverVars>>

\* One round of the fill loop that reads a chunk: store, send, start the timer
\* when nothing else is outstanding.
FillChunk ==
  /\ spc = "fill" /\ ~input_eof
  /\ in_window(nextseqnum, base, WS)
  /\ fpos < N
  /\ window' = [window EXCEPT ![Slot(nextseqnum)] = DataPacket(nextseqnum, fpos + 1)]
  /\ toReceiver' = toReceiver \cup {DataPacket(nextseqnum, fpos + 1)}
  /\ timer' = IF base = nextseqnum THEN "armed" ELSE timer
  /\ nextseqnum' = next_seq(nextseqnum)
  /\ fpos' = fpos + 1
  /\ UNCHANGED <<toSender, spc, base, input_eof, events, tries, receiverVars>>

\* fread returns 0, at the end of the file or on a read error: its size_t
\* result is never negative, so the error branch below it is dead.
FillEnd ==
  /\ spc = "fill" /\ ~input_eof
  /\ in_window(nextseqnum, base, WS)
  /\ fpos = N \/ "read" \in Faults
  /\ input_eof' = TRUE /\ spc' = "poll"
  /\ UNCHANGED <<netVars, base, nextseqnum, window, fpos, events, timer, tries, receiverVars>>

\* The loop is not finished and there is nothing to fill: on to epoll_wait.
FillNothing ==
  /\ spc = "fill"
  /\ ~(input_eof /\ base = nextseqnum)
  /\ input_eof \/ ~in_window(nextseqnum, base, WS)
  /\ spc' = "poll"
  /\ UNCHANGED <<netVars, base, fileVars, events, timer, tries, receiverVars>>

\* The armed one-shot timerfd expires and becomes readable.
TimerFires ==
  /\ timer = "armed"
  /\ timer' = "expired"
  /\ UNCHANGED <<netVars, spc, base, fileVars, events, tries, receiverVars>>

\* epoll_wait returns what is ready, in either order: the timerfd when it has
\* expired, the socket when a packet has arrived.
PollEvents ==
  /\ spc = "poll"
  /\ \E batch \in {<<"timer">>, <<"socket">>, <<"timer", "socket">>, <<"socket", "timer">>} :
       /\ (\E i \in DOMAIN batch : batch[i] = "timer") <=> timer = "expired"
       /\ (\E i \in DOMAIN batch : batch[i] = "socket") => toSender # {}
       /\ events' = batch
  /\ spc' = "events"
  /\ UNCHANGED <<netVars, base, fileVars, timer, tries, receiverVars>>

\* 200 ms pass without an event.  A running timer would have fired after 100.
PollTimeout ==
  /\ spc = "poll" /\ timer = "off"
  /\ spc' = "fill"
  /\ UNCHANGED <<netVars, base, fileVars, events, timer, tries, receiverVars>>

Handling(event) == spc = "events" /\ Head(events) = event

\* The for loop over the events goes on, or ends and the outer loop starts again.
NextEvent ==
  /\ events' = Tail(events)
  /\ spc' = IF Len(events) = 1 THEN "fill" ELSE "events"

\* The timer's event: resend the given packets and start the timer again,
\* unless an ACK handled earlier in the batch has disarmed or restarted the
\* timer, so that reading it fails with EAGAIN.
HandleTimer(resent) ==
  /\ Handling("timer")
  /\ IF timer = "expired"
     THEN toReceiver' = toReceiver \cup resent /\ timer' = "armed"
     ELSE UNCHANGED <<toReceiver, timer>>
  /\ NextEvent
  /\ UNCHANGED <<toSender, base, fileVars, tries, receiverVars>>

\* The socket's event with nothing left to read: recvfrom fails.
HandleNoPacket ==
  /\ Handling("socket") /\ toSender = {}
  /\ NextEvent
  /\ UNCHANGED <<netVars, base, fileVars, timer, tries, receiverVars>>

\* A readable ACK, as both modes' event loops accept it (SYN+ACK included).
IsAck(p) == p.intact /\ "ACK" \in p.flags

\* What the timer is set to once base has moved to newBase.
TimerFor(newBase) == IF newBase # nextseqnum THEN "armed" ELSE "off"

-----------------------------------------------------------------------------
(* CloseConnection of sender.c.  "fin": at the top of its loop; "finwait": *)
(* in recv_with_timeout; "ok" and "failed": main has returned.  A failing  *)
(* sendto costs a try as a lost FIN does.                                  *)

\* Mutant: the file's end is enough to close, outstanding packets or not.
StartCloseEarly ==
  /\ spc = "fill" /\ input_eof
  /\ spc' = "fin" /\ tries' = 0
  /\ UNCHANGED <<netVars, base, fileVars, events, timer, receiverVars>>

StartClose ==
  /\ spc = "fill" /\ input_eof /\ base = nextseqnum
  /\ spc' = "fin" /\ tries' = 0
  /\ UNCHANGED <<netVars, base, fileVars, events, timer, receiverVars>>

\* Mutant: one FIN more than the tries allow.
SendFinOneMore ==
  /\ spc = "fin" /\ tries <= MAXTRY
  /\ toReceiver' = toReceiver \cup {Fin(nextseqnum)}
  /\ spc' = "finwait"
  /\ UNCHANGED <<toSender, base, fileVars, events, timer, tries, receiverVars>>

SendFin ==
  /\ spc = "fin" /\ tries < MAXTRY
  /\ toReceiver' = toReceiver \cup {Fin(nextseqnum)}
  /\ spc' = "finwait"
  /\ UNCHANGED <<toSender, base, fileVars, events, timer, tries, receiverVars>>

\* Mutant: any packet with the ACK flag counts as the answer to the FIN.
ReceiveFinAckAnyAck(p) ==
  /\ spc = "finwait"
  /\ \E rest \in AfterDelivery(toSender, p) : toSender' = rest
  /\ IF IsAck(p)
     THEN spc' = "ok" /\ UNCHANGED tries
     ELSE spc' = "fin" /\ tries' = tries + 1
  /\ UNCHANGED <<toReceiver, base, fileVars, events, timer, receiverVars>>

\* Whatever is not the FIN+ACK of this FIN costs a try, a late ACK too.
ReceiveFinAck(p) ==
  /\ spc = "finwait"
  /\ \E rest \in AfterDelivery(toSender, p) : toSender' = rest
  /\ IF p.intact /\ p.flags = {"ACK", "FIN"} /\ p.seq = nextseqnum
     THEN spc' = "ok" /\ UNCHANGED tries
     ELSE spc' = "fin" /\ tries' = tries + 1
  /\ UNCHANGED <<toReceiver, base, fileVars, events, timer, receiverVars>>

FinTimeout ==
  /\ spc = "finwait"
  /\ spc' = "fin" /\ tries' = tries + 1
  /\ UNCHANGED <<netVars, base, fileVars, events, timer, receiverVars>>

GiveUp ==
  /\ spc = "fin" /\ tries = MAXTRY
  /\ spc' = "failed"
  /\ UNCHANGED <<netVars, base, fileVars, events, timer, tries, receiverVars>>

SenderStopped == spc \in {"ok", "failed"}

-----------------------------------------------------------------------------
(* The receiver outside its data handlers.  rpc = "data": in Receive_with_ *)
(* GBN or _SR; "finack": about to send FIN+ACK; "linger": in the 2 s wait  *)
(* after it; "done": exit 0; "failed": exit 1 through main, which removes  *)
(* the output file; "abandoned": exit elsewhere, the output file is left.  *)

\* The sender has been silent for the receiver's whole timeout.
SenderSilent == "silence" \in Faults \/ (SenderStopped /\ toReceiver = {})

\* 5 s without data: LOG_FATAL exits on the spot, its "return -1" is dead.
DataTimeout ==
  /\ rpc = "data" /\ SenderSilent
  /\ rpc' = "abandoned"
  /\ UNCHANGED <<netVars, senderVars, expected, written>>

SendFinAck ==
  /\ rpc = "finack"
  /\ toSender' = toSender \cup {FinAck(expected)}
  /\ rpc' = "linger"
  /\ UNCHANGED <<toReceiver, senderVars, expected, written>>

\* Any packet at all makes the receiver answer again.
LingerReceive(p) ==
  /\ rpc = "linger"
  /\ \E rest \in AfterDelivery(toReceiver, p) : toReceiver' = rest
  /\ rpc' = "finack"
  /\ UNCHANGED <<toSender, senderVars, expected, written>>

LingerTimeout ==
  /\ rpc = "linger" /\ SenderSilent
  /\ rpc' = "done"
  /\ UNCHANGED <<netVars, senderVars, expected, written>>

ReceiverComplete == rpc \in {"finack", "linger", "done"}
ReceiverStopped  == rpc \in {"done", "failed", "abandoned"}

-----------------------------------------------------------------------------
(* The actions both modes share.                                           *)

SenderLoop == FillNothing \/ PollEvents \/ PollTimeout \/ HandleNoPacket

SenderClose ==
  \/ StartClose \/ SendFin \/ FinTimeout \/ GiveUp
  \/ \E p \in toSender : ReceiveFinAck(p)

ReceiverClose ==
  \/ DataTimeout \/ SendFinAck \/ LingerTimeout
  \/ \E p \in toReceiver : LingerReceive(p)

Network == Lose \/ Corrupt

\* Both programs have exited; what is left in the network does not matter.
Stopped == SenderStopped /\ ReceiverStopped /\ UNCHANGED transferVars

-----------------------------------------------------------------------------
(* Positions: how far a number is into the file.                           *)

Pos(seq) == Offset(ISN, seq)

\* The number of the chunk that has i chunks before it.
SeqAt(i) == IF ISN + i <= SEQ_MAX THEN ISN + i ELSE ISN + i - SEQ_MAX - 1

\* The first n chunks of the file.
FirstChunks(n) == [i \in 1..n |-> i]

TransferTypeOK ==
  /\ toReceiver \subseteq PacketType
  /\ toSender \subseteq PacketType
  /\ base \in SeqNums /\ nextseqnum \in SeqNums /\ expected \in SeqNums
  /\ window \in [Slots -> PacketType]
  /\ input_eof \in BOOLEAN
  /\ fpos \in 0..N
  /\ events \in Seq({"timer", "socket"}) /\ Len(events) \in 0..2
  /\ timer \in {"off", "armed", "expired"}
  /\ tries \in 0..MAXTRY
  /\ written \in Seq(1..N)

(* Whatever is lost, both programs come to an end, although the sender's   *)
(* data loops (sender.c:294, 439) have no bound on their retransmissions;  *)
(* only a receiver that gave up early leaves the sender there for good.    *)
TransferEnds == <>(ReceiverStopped /\ (SenderStopped \/ rpc # "done"))
=============================================================================
