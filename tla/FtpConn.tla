------------------------------- MODULE FtpConn -------------------------------
(***************************************************************************)
(* The TCP connection between an FTP client and its thread of the server,  *)
(* as lab1's calls of send, recv and close use it: two bounded streams of  *)
(* bytes and two ends.  A stream keeps no trace of the calls that wrote    *)
(* it: what a reader takes for a header is whatever bytes come next.       *)
(***************************************************************************)
EXTENDS FtpHeader, Sequences

CONSTANTS
  Clients,   \* the client processes
  Cap,       \* bytes a stream holds before send blocks
  Values     \* what a byte of a string or a file may be

ASSUME CapAssumption == Cap \in Nat /\ HEADER_LENGTH <= Cap

VARIABLES
  toServer,   \* toServer[c]: bytes from client c that its thread has not read
  toClient,   \* toClient[c]: bytes to client c that it has not read
  copen,      \* copen[c]: the client's end of the connection is open
  sopen,      \* sopen[c]: the server's end of the connection is open
  broken      \* broken[c]: a send has met the closed end of the other side

connVars == <<toServer, toClient, copen, sopen, broken>>

Byte == [at : {0}, of : Values] \cup [at : 1..HEADER_LENGTH, of : HeaderType]

\* A byte of a header knows its place in it; a byte of a payload has place 0.
Payload(values) == [i \in DOMAIN values |-> [at |-> 0, of |-> values[i]]]

\* Write_Head: the bytes of a header.
HeaderBytes(header) == [i \in 1..HEADER_LENGTH |-> [at |-> i, of |-> header]]

\* Read_Head: the next bytes of a stream are the header they look like only
\* when they are all the bytes of one header, in their order.
HeadReady(stream) == Len(stream) >= HEADER_LENGTH

ReadHead(stream) ==
  IF \A i \in 1..HEADER_LENGTH : stream[i] = [at |-> i, of |-> stream[1].of]
  THEN stream[1].of
  ELSE NotAHeader

Rest(stream, n) == SubSeq(stream, n + 1, Len(stream))

\* recv: the server's thread, or the client, takes n bytes.
ServerTakes(c, n) == toServer' = [toServer EXCEPT ![c] = Rest(@, n)]
ClientTakes(c, n) == toClient' = [toClient EXCEPT ![c] = Rest(@, n)]

\* send blocks while the stream has no room.  The first send toward an end
\* that is closed is lost, or fails; the ones after it may raise SIGPIPE.
\* The failure and the signal are actions of the two programs.
ServerSends(c, bytes) ==
  IF copen[c]
  THEN /\ Len(toClient[c]) + Len(bytes) <= Cap
       /\ toClient' = [toClient EXCEPT ![c] = @ \o bytes]
       /\ UNCHANGED broken
  ELSE broken' = [broken EXCEPT ![c] = TRUE] /\ UNCHANGED toClient

ClientSends(c, bytes) ==
  IF sopen[c]
  THEN /\ Len(toServer[c]) + Len(bytes) <= Cap
       /\ toServer' = [toServer EXCEPT ![c] = @ \o bytes]
       /\ UNCHANGED broken
  ELSE broken' = [broken EXCEPT ![c] = TRUE] /\ UNCHANGED toServer

\* connect succeeds before accept: the kernel queues the connection.
Connect(c) ==
  /\ copen'    = [copen EXCEPT ![c] = TRUE]
  /\ sopen'    = [sopen EXCEPT ![c] = TRUE]
  /\ toServer' = [toServer EXCEPT ![c] = HeaderBytes(Create(OPEN_CONN_REQUEST, 0, 0))]
  /\ toClient' = [toClient EXCEPT ![c] = <<>>]
  /\ broken'   = [broken EXCEPT ![c] = FALSE]

\* close: what the closed end has not read is lost.
ClientCloses(c) ==
  /\ copen'    = [copen EXCEPT ![c] = FALSE]
  /\ toClient' = [toClient EXCEPT ![c] = <<>>]

\* Mutant: a path of Handler that returns without close.
ServerClosesLeaks(closed) ==
  UNCHANGED sopen /\ toServer' = [c \in Clients |-> IF c \in closed THEN <<>> ELSE toServer[c]]

ServerCloses(closed) ==
  /\ sopen'    = [c \in Clients |-> sopen[c] /\ c \notin closed]
  /\ toServer' = [c \in Clients |-> IF c \in closed THEN <<>> ELSE toServer[c]]

ConnInit ==
  /\ toServer = [c \in Clients |-> <<>>]
  /\ toClient = [c \in Clients |-> <<>>]
  /\ copen    = [c \in Clients |-> FALSE]
  /\ sopen    = [c \in Clients |-> FALSE]
  /\ broken   = [c \in Clients |-> FALSE]
=============================================================================
