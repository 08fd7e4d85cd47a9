------------------------------- MODULE RtpMain -------------------------------
(***************************************************************************)
(* main of sender.c and receiver.c: both programs are started in the same  *)
(* mode, which picks the transfer that follows the handshake.  In mode 0   *)
(* old packets of the handshake may be under way; mode 1 takes them for    *)
(* ACKs of data (the run sr_stale_handshake) and is left without them.     *)
(***************************************************************************)
EXTENDS RtpSR

VARIABLE mode   \* 0: Go-Back-N, 1: selective repeat

GBN == INSTANCE RtpGBN WITH StaleHandshake <- TRUE

mainVars == <<mode, vars>>

MainInit ==
  \/ mode = 1 /\ Init
  \/ /\ mode = 0 /\ GBN!Init
     /\ acked = [s \in Slots |-> FALSE] /\ racked = [s \in Slots |-> FALSE]
     /\ rwindow = [s \in Slots |-> Garbled] /\ cursor = ISN

\* A step of mode 0, which has no acked arrays, or one of mode 1.
InMode(gbn, sr) ==
  /\ UNCHANGED mode
  /\ \/ mode = 0 /\ gbn /\ UNCHANGED <<acked, ringVars>>
     \/ mode = 1 /\ sr

MainNext == InMode(GBN!Next, Next)

Waits == IF mode = 0 THEN GBN!AckWaits ELSE AckWaits

(* Both programs keep running and the timer runs down.  Losses need not    *)
(* stop, but what is sent again and again arrives in the end: the chunk    *)
(* the receiver waits for, in mode 1 also one it has seen and must         *)
(* acknowledge again, and an ACK that is news to the sender.               *)
MainFairness ==
  /\ WF_mainVars(InMode(GBN!SenderRuns, SenderRuns))
  /\ WF_mainVars(InMode(GBN!ReceiverRuns, ReceiverRuns))
  /\ WF_mainVars(TimerFires /\ UNCHANGED <<mode, acked, ringVars>>)
  /\ WF_mainVars(FinTimeout /\ UNCHANGED <<mode, acked, ringVars>>)
  /\ WF_mainVars(InMode(GBN!PacketArrives, PacketArrives))
  /\ SF_mainVars(InMode(GBN!ChunkArrives, ChunkArrives))
  /\ SF_mainVars(InMode(GBN!PacketArrives, OtherArrives))
  /\ []<>Waits => []<><<InMode(GBN!AckTaken, AckTaken)>>_mainVars

MainSpec == MainInit /\ [][MainNext]_mainVars /\ MainFairness
=============================================================================
