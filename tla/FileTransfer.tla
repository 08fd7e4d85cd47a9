---------------------------- MODULE FileTransfer ----------------------------
(***************************************************************************)
(* What a transfer of lab2 promises its user, whatever protocol carries    *)
(* it: main of sender.c reads a file and exits 0 or 1, main of receiver.c  *)
(* writes a file and exits 0 or 1, and test.cpp accepts a run when both    *)
(* exit 0 and the files are equal.  RtpGBN and RtpSR implement it.         *)
(***************************************************************************)
EXTENDS Integers

CONSTANT Size          \* number of chunks of the file that is sent

VARIABLES
  output,              \* chunks in the output file, in the order written
  receiver,            \* "open", "complete" or "aborted"
  sender               \* "active", "succeeded" or "failed"

vars == <<output, receiver, sender>>

\* The first n chunks of the file, chunk i being the number i.
FirstChunks(n) == [i \in 1..n |-> i]

Init == output = FirstChunks(0) /\ receiver = "open" /\ sender = "active"

\* The output grows by the next chunks of the file, in order.
Deliver ==
  /\ receiver = "open"
  /\ \E n, m \in 0..Size : n < m /\ output = FirstChunks(n) /\ output' = FirstChunks(m)
  /\ UNCHANGED <<receiver, sender>>

\* The receiver takes the transfer for complete only with the whole file.
Complete ==
  /\ receiver = "open" /\ output = FirstChunks(Size)
  /\ receiver' = "complete"
  /\ UNCHANGED <<output, sender>>

Abort == receiver = "open" /\ receiver' = "aborted" /\ UNCHANGED <<output, sender>>

\* The sender reports success only of a transfer the receiver completed.
Succeed ==
  /\ sender = "active" /\ receiver = "complete"
  /\ sender' = "succeeded"
  /\ UNCHANGED <<output, receiver>>

Fail == sender = "active" /\ sender' = "failed" /\ UNCHANGED <<output, receiver>>

Next == Deliver \/ Complete \/ Abort \/ Succeed \/ Fail

Spec == Init /\ [][Next]_vars
=============================================================================
