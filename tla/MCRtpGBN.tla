------------------------------ MODULE MCRtpGBN ------------------------------
(* A claim that a test of lab2 makes about mode 0 and that the code does   *)
(* not keep; it is the property of a run that refutes it.                  *)
EXTENDS RtpGBN

(* A transfer both programs call a success has copied the file: test.cpp   *)
(* demands equal files, and sender.c:327 takes fread's 0 for the end of    *)
(* the file.  After a read error the rest of the file is dropped silently. *)
SuccessIsWholeFile ==
  spc = "ok" /\ rpc = "done" => written = FirstChunks(N)
=============================================================================
