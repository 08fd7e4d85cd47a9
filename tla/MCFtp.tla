-------------------------------- MODULE MCFtp --------------------------------
(* Small file systems for Ftp. *)
EXTENDS Ftp

CONSTANTS c1, c2, root, sub, f, d, dotdot, loop, a, b, t

\* The server runs in "/", which holds the file f and the directory d.
Below == [path \in Dirs \X Names |->
  CASE path = <<root, d>>                -> sub
    [] path \in Dirs \X {dotdot}         -> root
    [] OTHER                             -> Absent]

\* In every directory, loop is a symbolic link to itself.
Loops == Dirs \X (Names \cap {loop})

OneTree == [path \in Dirs \X Names |->
  IF path = <<root, f>> THEN Payload(<<a, b>>) ELSE Absent]

\* A user owns a file f, and one with the name of the server's directory.
OneOwn == [c \in Clients |-> [n \in Names |->
  IF n \in {f, d} THEN Payload(<<b>>) ELSE Absent]]

\* Two users with files f of different lengths, and no file under the name loop.
TwoOwn == [c \in Clients |-> [n \in Names |->
  IF n = f THEN IF c = c1 THEN Payload(<<a>>) ELSE Payload(<<b, b>>) ELSE Absent]]

Bytes == Names \cup {a, b, t, NUL}

Printed == {<<>>, <<t>>}
=============================================================================
