------------------------------ MODULE FtpClient ------------------------------
(***************************************************************************)
(* lab1/ftp_client.cpp: main reads a command, runs its handler to the end  *)
(* and reads the next one.  server_ip is a name other than "none" exactly  *)
(* while the client's end of a connection is open at the prompt.  Without  *)
(* a connection every handler fails at once and changes nothing.           *)
(***************************************************************************)
EXTENDS FtpConn, FtpFiles

CONSTANT Commands   \* the commands the users give

VARIABLES
  cpc,     \* cpc[c]: where client c is
  task,    \* task[c]: the name it was given, bytes done, bytes announced
  local,   \* local[c][n]: the bytes of c's own file n, or Absent
  told,    \* told[c]: "get" or "put" after that command's success message
  where,   \* where[c]: the server's directory according to CD's messages
  slip     \* slip[c]: how c left bytes of this connection unread or unsent

clientVars == <<cpc, task, local, told, where, slip>>

\* The reply a handler waits for, and the data it receives or sends.
Waiting == {"open", "ls", "cd", "get", "gethead", "put", "sha", "shahead", "quit"}
Receiving == {"lsdata", "getdata", "shadata"}
ClientPlaces ==
  Waiting \cup Receiving \cup {"prompt", "putdata", "exited", "killed"}

Expected == [
  open |-> OPEN_CONN_REPLY, ls |-> LIST_REPLY, cd |-> CHANGE_DIR_REPLY,
  get |-> GET_REPLY, gethead |-> File_DATA, put |-> PUT_REPLY,
  sha |-> SHA_REPLY, shahead |-> File_DATA, quit |-> QUIT_REPLY]

Move(c, place) == cpc' = [cpc EXCEPT ![c] = place]

\* The handler returns to main's prompt; a success message names the file.
Return(c, message) ==
  /\ Move(c, "prompt")
  /\ told' = [told EXCEPT ![c] = message]
  /\ task' = [task EXCEPT ![c] =
                IF message = "none" THEN NoTransfer ELSE Transfer(@.name, 0, 0)]

(* Open_Handler, refused by main while server_ip names a server. *)
Open(c) ==
  /\ "open" \in Commands
  /\ cpc[c] = "prompt" /\ ~copen[c]
  /\ Connect(c)
  /\ Move(c, "open")
  /\ told' = [told EXCEPT ![c] = "none"]
  /\ task' = [task EXCEPT ![c] = NoTransfer]
  /\ UNCHANGED <<local, where, slip>>

\* The handlers up to the request they send: a header, and the name's string.
Issue(c, command, kind) ==
  /\ command \in Commands
  /\ cpc[c] = "prompt" /\ copen[c]
  /\ ClientSends(c, HeaderBytes(Create(kind, 0, 0)))
  /\ Move(c, command)
  /\ told' = [told EXCEPT ![c] = "none"]
  /\ task' = [task EXCEPT ![c] = NoTransfer]
  /\ UNCHANGED <<toClient, copen, sopen, local, where, slip>>

IssueName(c, command, kind, name, size) ==
  /\ command \in Commands
  /\ cpc[c] = "prompt" /\ copen[c]
  /\ ClientSends(c, HeaderBytes(Create(kind, 0, 1)) \o Payload(<<name, NUL>>))
  /\ Move(c, command)
  /\ told' = [told EXCEPT ![c] = "none"]
  /\ task' = [task EXCEPT ![c] = Transfer(name, 0, size)]
  /\ UNCHANGED <<toClient, copen, sopen, local, where, slip>>

Ls(c)   == Issue(c, "ls", LIST_REQUEST)
Cd(c)   == \E name \in Names : IssueName(c, "cd", CHANGE_DIR_REQUEST, name, 0)
Get(c)  == \E name \in Names : IssueName(c, "get", GET_REQUEST, name, 0)
Sha(c)  == \E name \in Names : IssueName(c, "sha", SHA_REQUEST, name, 0)
Quit(c) == Issue(c, "quit", QUIT_REQUEST)

\* PUT asks only for a file the client has, and notes its length now.
Put(c) ==
  \E name \in DOMAIN local[c] :
    /\ local[c][name] # Absent
    /\ IssueName(c, "put", PUT_REQUEST, name, Len(local[c][name]) % WORD)

\* The header that comes next is the one the handler wants.
Replied(c, place) ==
  /\ cpc[c] = place /\ HeadReady(toClient[c])
  /\ Is(Expected[place], ReadHead(toClient[c]))
  /\ ClientTakes(c, HEADER_LENGTH)

GotStatus(c) == ReadHead(toClient[c]).status
GotLength(c) == PayloadLength(ReadHead(toClient[c]))

GotOpen(c) ==
  /\ Replied(c, "open")
  /\ Return(c, "none")
  /\ UNCHANGED <<toServer, copen, sopen, broken, local, where, slip>>

(* LS_Handler: every recv asks for the whole length, at the buffer's start. *)
GotList(c) ==
  /\ Replied(c, "ls")
  /\ Move(c, "lsdata")
  /\ task' = [task EXCEPT ![c].size = GotLength(c)]
  /\ UNCHANGED <<toServer, copen, sopen, broken, local, told, where, slip>>

ListPart(c) ==
  /\ cpc[c] = "lsdata"
  /\ \E n \in 1..Min({task[c].size, Len(toClient[c])}) :
       /\ ClientTakes(c, n)
       /\ IF task[c].done + n < task[c].size
          THEN task' = [task EXCEPT ![c].done = @ + n] /\ UNCHANGED <<cpc, told>>
          ELSE Return(c, "none")
  /\ UNCHANGED <<toServer, copen, sopen, broken, local, where, slip>>

(* CD_Handler *)
GotCd(c) ==
  /\ Replied(c, "cd")
  /\ LET there == Enter[<<where[c], task[c].name>>]
     IN  where' = IF GotStatus(c) = 1 /\ there # Absent
                  THEN [where EXCEPT ![c] = there] ELSE where
  /\ Return(c, "none")
  /\ UNCHANGED <<toServer, copen, sopen, broken, local, slip>>

(* GET_Handler and SHA_Handler: no such file, or the data follow. *)
GotFile(c, place, next) ==
  /\ Replied(c, place)
  /\ IF GotStatus(c) = 1
     THEN Move(c, next) /\ UNCHANGED <<task, told>>
     ELSE Return(c, "none")
  /\ UNCHANGED <<toServer, copen, sopen, broken, local, where, slip>>

GotGet(c) == GotFile(c, "get", "gethead")
GotSha(c) == GotFile(c, "sha", "shahead")

\* Mutant: one call in place of the loop.
CarryOnce(c, place, done, size, message) ==
  IF done = 0 /\ size > 0 /\ place = "putdata"
  THEN Move(c, place) /\ task' = [task EXCEPT ![c].size = size] /\ UNCHANGED told
  ELSE Return(c, message)

\* Mutant: the loop runs once more when all is done.
CarryPast(c, place, done, size, message) ==
  IF done <= size
  THEN /\ Move(c, place)
       /\ task' = [task EXCEPT ![c].done = done, ![c].size = size]
       /\ UNCHANGED told
  ELSE Return(c, message)

\* A transfer goes on in place, or the handler returns with its message.
Carry(c, place, done, size, message) ==
  IF done < size
  THEN /\ Move(c, place)
       /\ task' = [task EXCEPT ![c].done = done, ![c].size = size]
       /\ UNCHANGED told
  ELSE Return(c, message)

(* GET_Handler: fopen "wb" truncates the local file. *)
GetStart(c) ==
  /\ Replied(c, "gethead")
  /\ local' = [local EXCEPT ![c][task[c].name] = <<>>]
  /\ Carry(c, "getdata", 0, GotLength(c), "get")
  /\ UNCHANGED <<toServer, copen, sopen, broken, where, slip>>

\* ... or it fails, and the data stay in the stream.
GetUnopened(c) ==
  /\ "localopen" \in Faults
  /\ Replied(c, "gethead")
  /\ Return(c, "none")
  /\ slip' = IF GotLength(c) = 0 THEN slip ELSE [slip EXCEPT ![c] = @ \cup {"localopen"}]
  /\ UNCHANGED <<toServer, copen, sopen, broken, local, where>>

GetPart(c) ==
  /\ cpc[c] = "getdata"
  /\ \E n \in 1..Min({Block, task[c].size - task[c].done, Len(toClient[c])}) :
       /\ ClientTakes(c, n)
       /\ local' = [local EXCEPT ![c][task[c].name] = @ \o SubSeq(toClient[c], 1, n)]
       /\ Carry(c, "getdata", task[c].done + n, task[c].size, "get")
  /\ UNCHANGED <<toServer, copen, sopen, broken, where, slip>>

(* PUT_Handler: the reply, then the header with the length noted before. *)
GotPut(c) ==
  /\ Replied(c, "put")
  /\ ClientSends(c, HeaderBytes(Create(File_DATA, 0, task[c].size)))
  /\ Carry(c, "putdata", 0, task[c].size, "put")
  /\ UNCHANGED <<copen, sopen, local, where, slip>>

LocalBlock(c) == NextBlock(local[c][task[c].name], task[c].done, task[c].size)

PutPart(c) ==
  /\ cpc[c] = "putdata" /\ LocalBlock(c) # <<>>
  /\ ClientSends(c, LocalBlock(c))
  /\ Carry(c, "putdata", task[c].done + Len(LocalBlock(c)), task[c].size, "put")
  /\ UNCHANGED <<toClient, copen, sopen, local, where, slip>>

\* Another program shortens the file while PUT sends it ...
Shorten(c) ==
  /\ "localread" \in Faults
  /\ cpc[c] = "putdata"
  /\ local' = [local EXCEPT ![c][task[c].name] = SubSeq(@, 1, task[c].done)]
  /\ UNCHANGED <<connVars, cpc, task, told, where, slip>>

\* ... fread returns 0, and the announced bytes are never sent.
PutShort(c) ==
  /\ cpc[c] = "putdata" /\ LocalBlock(c) = <<>>
  /\ Return(c, "none")
  /\ slip' = [slip EXCEPT ![c] = @ \cup {"localread"}]
  /\ UNCHANGED <<connVars, local, where>>

\* SHA_Handler takes one byte less than the payload and leaves that one unread.
ShaStep(c, done, size) ==
  /\ Carry(c, "shadata", done, size, "none")
  /\ slip' = IF done < size THEN slip ELSE [slip EXCEPT ![c] = @ \cup {"sha"}]

ShaStart(c) ==
  /\ Replied(c, "shahead")
  /\ ShaStep(c, 0, (GotLength(c) - 1) % WORD)
  /\ UNCHANGED <<toServer, copen, sopen, broken, local, where>>

ShaPart(c) ==
  /\ cpc[c] = "shadata"
  /\ \E n \in 1..Min({task[c].size - task[c].done, Len(toClient[c])}) :
       /\ ClientTakes(c, n)
       /\ ShaStep(c, task[c].done + n, task[c].size)
  /\ UNCHANGED <<toServer, copen, sopen, broken, local, where>>

\* The connection is over: a new one starts in the server's directory.
Forget(c) ==
  /\ where' = [where EXCEPT ![c] = Root]
  /\ slip'  = [slip EXCEPT ![c] = {}]

(* QUIT_Handler: only its success closes the socket and resets server_ip. *)
GotQuit(c) ==
  /\ cpc[c] = "quit" /\ HeadReady(toClient[c])
  /\ Is(QUIT_REPLY, ReadHead(toClient[c]))
  /\ ClientCloses(c)
  /\ Return(c, "none")
  /\ Forget(c)
  /\ UNCHANGED <<toServer, sopen, broken, local>>

\* A handler that fails returns to the prompt; only Open_Handler closes.
Fail(c) ==
  /\ Return(c, "none")
  /\ IF cpc[c] = "open" THEN ClientCloses(c) /\ Forget(c)
                        ELSE UNCHANGED <<copen, where, slip>>

\* Every "Invalid ..." of the handlers: 12 bytes are taken, the rest stays.
BadReply(c) ==
  /\ cpc[c] \in Waiting /\ HeadReady(toClient[c])
  /\ ~Is(Expected[cpc[c]], ReadHead(toClient[c]))
  /\ Fail(c)
  /\ cpc[c] # "open" => ClientTakes(c, HEADER_LENGTH)
  /\ UNCHANGED <<toServer, sopen, broken, local>>

\* recv returns 0: the server closed before the bytes the handler waits for.
\* What an incomplete header had is taken.
ReadFailed(c) ==
  /\ ~sopen[c]
  /\ \/ cpc[c] \in Waiting /\ ~HeadReady(toClient[c])
     \/ cpc[c] \in Receiving /\ toClient[c] = <<>>
  /\ Fail(c)
  /\ cpc[c] # "open" => toClient' = [toClient EXCEPT ![c] = <<>>]
  /\ UNCHANGED <<toServer, sopen, broken, local>>

\* The handler's next call is a send: of a command's request, or of PUT's data.
Writing(c) ==
  \/ cpc[c] = "prompt" /\ copen[c]
  \/ cpc[c] = "putdata"
  \/ cpc[c] = "put" /\ HeadReady(toClient[c]) /\ Is(PUT_REPLY, ReadHead(toClient[c]))

\* send to the closed end of the server returns -1 ...
SendFailed(c) ==
  /\ Writing(c) /\ ~sopen[c]
  /\ broken' = [broken EXCEPT ![c] = TRUE]
  /\ toClient' = IF cpc[c] = "put"
                 THEN [toClient EXCEPT ![c] = Rest(@, HEADER_LENGTH)] ELSE toClient
  /\ Return(c, "none")
  /\ UNCHANGED <<toServer, copen, sopen, local, where, slip>>

\* The process ends, and the kernel closes its socket.
End(c, how) ==
  /\ Move(c, how)
  /\ ClientCloses(c)
  /\ told' = [told EXCEPT ![c] = "none"]
  /\ task' = [task EXCEPT ![c] = NoTransfer]
  /\ UNCHANGED <<toServer, sopen, broken, local, where, slip>>

\* ... or raises SIGPIPE: at the second send to that end, so also at the
\* name that follows a request's header.
BrokenPipeKills(c) ==
  /\ Writing(c) /\ ~sopen[c]
  /\ \/ broken[c]
     \/ cpc[c] = "prompt" /\ Commands \cap {"cd", "get", "put", "sha"} # {}
  /\ End(c, "killed")

\* The input ends, or the user quits without a connection.
Exit(c) == "exit" \in Commands /\ cpc[c] = "prompt" /\ End(c, "exited")

\* The user interrupts the program; or a call of std::filesystem throws in
\* GET_Handler or PUT_Handler (ftp_client.cpp:240-243, 284-286), which
\* nothing catches.
Kill(c) ==
  /\ "kill" \in Faults
  /\ cpc[c] \notin {"exited", "killed"}
  /\ End(c, "killed")

\* What a user starts, and what the program does on its own.
Command(c) == Ls(c) \/ Cd(c) \/ Get(c) \/ Put(c) \/ Sha(c) \/ Quit(c)

Program(c) ==
  \/ GotOpen(c) \/ GotList(c)  \/ ListPart(c) \/ GotCd(c)    \/ GotGet(c)
  \/ GetStart(c) \/ GetUnopened(c) \/ GetPart(c) \/ GotPut(c) \/ PutPart(c)
  \/ PutShort(c) \/ GotSha(c)  \/ ShaStart(c) \/ ShaPart(c)  \/ GotQuit(c)
  \/ BadReply(c) \/ ReadFailed(c)
  \/ cpc[c] # "prompt" /\ (SendFailed(c) \/ BrokenPipeKills(c))

User(c) ==
  \/ Command(c)
  \/ Exit(c)
  \/ cpc[c] = "prompt" /\ (SendFailed(c) \/ BrokenPipeKills(c))

ClientInit(own) ==
  /\ cpc   = [c \in Clients |-> "prompt"]
  /\ task  = [c \in Clients |-> NoTransfer]
  /\ local = own
  /\ told  = [c \in Clients |-> "none"]
  /\ where = [c \in Clients |-> Root]
  /\ slip  = [c \in Clients |-> {}]
=============================================================================
