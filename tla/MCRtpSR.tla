------------------------------- MODULE MCRtpSR -------------------------------
(* A claim that a comment of lab2 makes about mode 1 and that the code     *)
(* does not keep; it is the property of a run that refutes it.             *)
EXTENDS RtpSR

(* base is the smallest number that waits for its ACK (sender.c:25), so it *)
(* stops at nextseqnum when nothing waits.  The loop at sender.c:541 looks *)
(* only at the acked array, whose next slot is still marked from the       *)
(* packet MAX_WINDOW_SIZE numbers earlier when a full window is            *)
(* acknowledged: base runs past nextseqnum and the loop never ends.        *)
BaseStopsAtNext == Pos(base) <= Pos(nextseqnum)
=============================================================================
