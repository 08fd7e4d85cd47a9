------------------------------- MODULE FtpFiles -------------------------------
(***************************************************************************)
(* The file systems behind the two FTP programs, as their calls of fopen,  *)
(* fread, fwrite and std::filesystem use them.  A file is its sequence of  *)
(* bytes, or Absent.                                                       *)
(***************************************************************************)
EXTENDS Integers, Sequences, FiniteSetsExt

CONSTANTS
  Dirs, Root,   \* the server's directories, the one it is started in
  Names,        \* what a user may type for a file or a directory
  Enter,        \* Enter[<<d, n>>]: the directory n names in d, or Absent
  Absent,       \* there is no such file, or directory
  Blocked,      \* the paths the system will not look at: a link to itself, a
                \* name too long, a directory without search permission
  NUL,          \* the byte that ends a string
  Block,        \* bytes a transfer hands to one call, 4096 in the code
  Faults        \* what may go wrong outside the protocol

ASSUME BlockAssumption == Block \in Nat \ {0}
ASSUME BlockedAssumption == Blocked \subseteq Dirs \X Names
ASSUME EnterAssumption == Root \in Dirs /\ Enter \in [Dirs \X Names -> Dirs \cup {Absent}]

\* What a handler knows of its transfer: the file's name, the bytes done,
\* the bytes announced.
Transfer(name, done, size) == [name |-> name, done |-> done, size |-> size]
NoTransfer == Transfer(Absent, 0, 0)

\* Mutant: every block is read from the start of the file.
NextBlockRewound(file, done, size) ==
  SubSeq(file, 1, Min({size - done, Block, Len(file)}))

\* fread: what the file holds now, behind the bytes that are done.
NextBlock(file, done, size) ==
  SubSeq(file, done + 1, Min({size, done + Block, Len(file)}))

\* fwrite at the writer's own offset: a file that someone else truncated in
\* between gets a hole of NULs.
WriteAt(file, done, bytes) ==
  [i \in 1..Max({Len(file), done + Len(bytes)}) |->
     IF i \in (done + 1)..(done + Len(bytes)) THEN bytes[i - done]
     ELSE IF i <= Len(file) THEN file[i]
     ELSE [at |-> 0, of |-> NUL]]
=============================================================================
