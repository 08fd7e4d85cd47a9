------------------------------ MODULE RtpPacket ------------------------------
(***************************************************************************)
(* The packets of the RTP transport (rtp.h), as far as the two programs    *)
(* tell them apart.  The file is chunks 1..N, one per packet; random_x is  *)
(* ISN - 1, and the first data packet has number ISN.                      *)
(***************************************************************************)
EXTENDS RtpSeq

CONSTANTS
  N,           \* chunks in the file
  ISN          \* sequence number of the first chunk

ASSUME SizeAssumption == N \in Nat
ASSUME IsnAssumption  == ISN \in SeqNums \ {0}

-----------------------------------------------------------------------------
(* Packets: header flags, number, chunk (0: no payload), and whether the   *)
(* checksum and the length still fit.                                      *)

PacketType == [flags : SUBSET {"SYN", "ACK", "FIN"}, seq : SeqNums,
               chunk : 0..N, intact : BOOLEAN]

Packet(flags, seq, chunk) ==
  [flags |-> flags, seq |-> seq, chunk |-> chunk, intact |-> TRUE]

DataPacket(seq, chunk) == Packet({}, seq, chunk)
Ack(seq)               == Packet({"ACK"}, seq, 0)
Fin(seq)               == Packet({"FIN"}, seq, 0)
FinAck(seq)            == Packet({"ACK", "FIN"}, seq, 0)

\* A packet damaged on its way: both programs reject it by its checksum or
\* its length before they look at any other field.
Garbled == [flags |-> {}, seq |-> 0, chunk |-> 0, intact |-> FALSE]

-----------------------------------------------------------------------------
(* What the handshake may leave under way when both ends are connected:    *)
(* SYNs and final ACKs; SYN+ACKs and the answers that a receiver already   *)
(* in its data loop gives to those, in mode 0 and in mode 1.               *)

Syn    == Packet({"SYN"}, ISN - 1, 0)
SynAck == Packet({"ACK", "SYN"}, ISN, 0)

StaleToReceiver   == {Syn, Ack(ISN)}
StaleToSender(mode) ==
  IF mode = 0 THEN {SynAck, Ack(ISN)} ELSE {SynAck, Ack(ISN), Ack(ISN - 1)}
=============================================================================
