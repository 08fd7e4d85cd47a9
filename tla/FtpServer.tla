------------------------------ MODULE FtpServer ------------------------------
(***************************************************************************)
(* lab1/ftp_server.cpp: main accepts connections and gives each a thread,  *)
(* which runs Handler until the client quits, hangs up or sends what it    *)
(* does not accept.  Threads share the file system and nothing else; a     *)
(* thread's directory is its own.  The process dies as a whole: a send to  *)
(* an end that is closed raises SIGPIPE, and a call of std::filesystem     *)
(* that fails throws filesystem_error; nothing catches either.             *)
(***************************************************************************)
EXTENDS FtpConn, FtpFiles

CONSTANT Outputs   \* what ls or sha256sum may print

VARIABLES
  up,      \* the server process runs
  files,   \* files[<<d, n>>]: the bytes of file n of directory d, or Absent
  spc,     \* spc[c]: where c's thread is
  cwd,     \* cwd[c]: the directory of c's thread
  job      \* job[c]: the file it transfers, bytes done, bytes announced

serverVars == <<up, files, spc, cwd, job>>

ServerPlaces ==
  {"none", "backlog", "head", "getopen", "getdata", "puthead", "putdata", "sha"}

Path(c) == <<cwd[c], job[c].name>>

Goto(c, place) == spc' = [spc EXCEPT ![c] = place]

\* The thread ends its connection, or every thread of closed does.
Hangup(closed) ==
  /\ ServerCloses(closed)
  /\ spc' = [c \in Clients |-> IF c \in closed THEN "none" ELSE spc[c]]
  /\ cwd' = [c \in Clients |-> IF c \in closed THEN Root ELSE cwd[c]]
  /\ job' = [c \in Clients |-> IF c \in closed THEN NoTransfer ELSE job[c]]

\* The request of this kind is at the front of the stream, name and all.
Request(c, kind) ==
  /\ spc[c] = "head" /\ HeadReady(toServer[c])
  /\ Is(kind, ReadHead(toServer[c]))
  /\ Len(toServer[c]) >= ReadHead(toServer[c]).length

RequestLength(c) == ReadHead(toServer[c]).length

\* The string behind the header, up to its first NUL.
NameOf(c) == LET first == toServer[c][HEADER_LENGTH + 1]
             IN  IF first.at = 0 THEN first.of ELSE Absent

\* What the handlers that take a name ask the file system about ...
Target(c) == <<cwd[c], NameOf(c)>>

\* ... which it does not answer for this request.
Blocks(c) ==
  /\ \E kind \in {CHANGE_DIR_REQUEST, GET_REQUEST, SHA_REQUEST} : Request(c, kind)
  /\ Target(c) \in Blocked

\* fs::exists and fs::is_regular_file, of a path that is not Blocked.
Exists(c, name) ==
  <<cwd[c], name>> \in DOMAIN files /\ files[<<cwd[c], name>>] # Absent

Status(exist) == IF exist THEN 1 ELSE 0

(* main: connect has queued the connection; accept gives it a thread. *)
Backlog(c) ==
  /\ up /\ spc[c] = "none"
  /\ Goto(c, "backlog")
  /\ UNCHANGED <<up, files, cwd, job>>

Accept(c) ==
  /\ spc[c] = "backlog"
  /\ Goto(c, "head")
  /\ UNCHANGED <<connVars, up, files, cwd, job>>

(* Open_Handler *)
HandleOpen(c) ==
  /\ Request(c, OPEN_CONN_REQUEST)
  /\ ServerTakes(c, RequestLength(c))
  /\ ServerSends(c, HeaderBytes(Create(OPEN_CONN_REPLY, 1, 0)))
  /\ UNCHANGED <<copen, sopen, serverVars>>

(* LS_Handler: the listing is sent with its NUL. *)
HandleList(c) ==
  /\ Request(c, LIST_REQUEST)
  /\ ServerTakes(c, RequestLength(c))
  /\ \E out \in Outputs :
       ServerSends(c, HeaderBytes(Create(LIST_REPLY, 0, Len(out)))
                        \o Payload(Append(out, NUL)))
  /\ UNCHANGED <<copen, sopen, serverVars>>

\* fs::exists and fs::is_directory, of a path that is not Blocked.
IsDir(dir, name) == <<dir, name>> \in DOMAIN Enter /\ Enter[<<dir, name>>] # Absent

\* Mutant: the handler changes a copy of cwd, as if it were passed by value.
ChangeDirCopy(dir, name) == dir

\* Mutant: cwd is changed before the directory is known to exist.
ChangeDirUnchecked(dir, name) == Enter[<<dir, name>>]

\* fs::canonical of the directory that name is in dir, if there is one.
ChangeDir(dir, name) ==
  IF IsDir(dir, name) THEN Enter[<<dir, name>>] ELSE dir

(* CD_Handler: the thread's own directory, and if it exists. *)
HandleCd(c) ==
  /\ Request(c, CHANGE_DIR_REQUEST) /\ Target(c) \notin Blocked
  /\ ServerTakes(c, RequestLength(c))
  /\ ServerSends(c, HeaderBytes(Create(CHANGE_DIR_REPLY,
                                      Status(IsDir(cwd[c], NameOf(c))), 0)))
  /\ cwd' = [cwd EXCEPT ![c] = ChangeDir(@, NameOf(c))]
  /\ UNCHANGED <<copen, sopen, up, files, spc, job>>

(* GET_Handler and SHA_Handler up to the reply that says if the file exists. *)
HandleFile(c, request, reply, next) ==
  /\ Request(c, request) /\ Target(c) \notin Blocked
  /\ ServerTakes(c, RequestLength(c))
  /\ LET exist == Exists(c, NameOf(c))
     IN  /\ ServerSends(c, HeaderBytes(Create(reply, Status(exist), 0)))
         /\ IF exist
            THEN Goto(c, next) /\ job' = [job EXCEPT ![c].name = NameOf(c)]
            ELSE UNCHANGED <<spc, job>>
  /\ UNCHANGED <<copen, sopen, up, files, cwd>>

HandleGet(c) == HandleFile(c, GET_REQUEST, GET_REPLY, "getopen")
HandleSha(c) == HandleFile(c, SHA_REQUEST, SHA_REPLY, "sha")

\* The transfer goes on in place, or the handler returns to Handler's loop.
Continue(c, place, done, size) ==
  IF done < size
  THEN /\ Goto(c, place)
       /\ job' = [job EXCEPT ![c].done = done, ![c].size = size]
  ELSE Goto(c, "head") /\ job' = [job EXCEPT ![c] = NoTransfer]

(* GET_Handler: fopen, the length of the file now, and its header. *)
GetOpen(c) ==
  /\ spc[c] = "getopen"
  /\ LET file_size == Len(files[Path(c)]) % WORD
     IN  /\ ServerSends(c, HeaderBytes(Create(File_DATA, 0, file_size)))
         /\ Continue(c, "getdata", 0, file_size)
  /\ UNCHANGED <<toServer, copen, sopen, up, files, cwd>>

GetBlock(c) ==
  /\ spc[c] = "getdata"
  /\ LET block == NextBlock(files[Path(c)], job[c].done, job[c].size)
     IN  /\ block # <<>>
         /\ ServerSends(c, block)
         /\ Continue(c, "getdata", job[c].done + Len(block), job[c].size)
  /\ UNCHANGED <<toServer, copen, sopen, up, files, cwd>>

\* Mutant: the handler returns 0, and the thread reads the next request.
GetShortReturns(c) ==
  /\ spc[c] = "getdata"
  /\ NextBlock(files[Path(c)], job[c].done, job[c].size) = <<>>
  /\ Goto(c, "head") /\ job' = [job EXCEPT ![c] = NoTransfer]
  /\ UNCHANGED <<connVars, up, files, cwd>>

\* The file has become shorter than the header said: the client is cut off.
GetShort(c) ==
  /\ spc[c] = "getdata"
  /\ NextBlock(files[Path(c)], job[c].done, job[c].size) = <<>>
  /\ Hangup({c})
  /\ UNCHANGED <<toClient, copen, broken, up, files>>

(* PUT_Handler up to its reply; no request for a file is refused here. *)
HandlePut(c) ==
  /\ Request(c, PUT_REQUEST)
  /\ ServerTakes(c, RequestLength(c))
  /\ ServerSends(c, HeaderBytes(Create(PUT_REPLY, 0, 0)))
  /\ job' = [job EXCEPT ![c].name = NameOf(c)]
  /\ Goto(c, "puthead")
  /\ UNCHANGED <<copen, sopen, up, files, cwd>>

DataHead(c) ==
  /\ spc[c] = "puthead" /\ HeadReady(toServer[c])
  /\ Is(File_DATA, ReadHead(toServer[c]))

Writable(c) ==
  Path(c) \in DOMAIN files /\ Path(c) \notin Blocked /\ Enter[Path(c)] = Absent

\* Mutant: fopen "r+b", the old file is not truncated.
PutOpenKeeps(c) ==
  /\ DataHead(c) /\ Writable(c)
  /\ files' = [files EXCEPT ![Path(c)] = IF @ = Absent THEN <<>> ELSE @]
  /\ Continue(c, "putdata", 0, PayloadLength(ReadHead(toServer[c])))
  /\ ServerTakes(c, HEADER_LENGTH)
  /\ UNCHANGED <<toClient, copen, sopen, broken, up, cwd>>

(* PUT_Handler: the header of the data, then fopen "wb" truncates the file. *)
PutOpen(c) ==
  /\ DataHead(c) /\ Writable(c)
  /\ files' = [files EXCEPT ![Path(c)] = <<>>]
  /\ Continue(c, "putdata", 0, PayloadLength(ReadHead(toServer[c])))
  /\ ServerTakes(c, HEADER_LENGTH)
  /\ UNCHANGED <<toClient, copen, sopen, broken, up, cwd>>

\* fopen "wb" fails on a directory, or on a path that is blocked, after the
\* reply promised nothing.
PutRefused(c) ==
  /\ DataHead(c) /\ ~Writable(c)
  /\ Hangup({c})
  /\ UNCHANGED <<toClient, copen, broken, up, files>>

PutBlock(c) ==
  /\ spc[c] = "putdata"
  /\ \E n \in 1..Min({Block, job[c].size - job[c].done, Len(toServer[c])}) :
       /\ files' = [files EXCEPT ![Path(c)] =
                      WriteAt(@, job[c].done, SubSeq(toServer[c], 1, n))]
       /\ ServerTakes(c, n)
       /\ Continue(c, "putdata", job[c].done + n, job[c].size)
  /\ UNCHANGED <<toClient, copen, sopen, broken, up, cwd>>

(* SHA_Handler: what sha256sum prints, sent with its NUL; the NUL counts. *)
ShaSend(c) ==
  /\ spc[c] = "sha"
  /\ \E out \in Outputs :
       ServerSends(c, HeaderBytes(Create(File_DATA, 0, Len(out) + 1))
                        \o Payload(Append(out, NUL)))
  /\ Goto(c, "head")
  /\ job' = [job EXCEPT ![c] = NoTransfer]
  /\ UNCHANGED <<toServer, copen, sopen, up, files, cwd>>

(* QUIT_Handler: the reply, then the server is the first to close. *)
HandleQuit(c) ==
  /\ Request(c, QUIT_REQUEST)
  /\ ServerSends(c, HeaderBytes(Create(QUIT_REPLY, 0, 0)))
  /\ Hangup({c})
  /\ UNCHANGED <<copen, up, files>>

(* Handler's default, and every "Invalid" of the handlers. *)
Refuse(c) ==
  /\ HeadReady(toServer[c])
  /\ LET header == ReadHead(toServer[c])
     IN  \/ spc[c] = "head" /\ \A kind \in Requests : ~Is(kind, header)
         \/ spc[c] = "puthead" /\ ~Is(File_DATA, header)
  /\ Hangup({c})
  /\ UNCHANGED <<toClient, copen, broken, up, files>>

\* Mutant: Read_Head takes 0 for "nothing yet" and goes on reading.
ReadFailsInData(c) ==
  /\ ~copen[c]
  /\ spc[c] = "putdata" /\ toServer[c] = <<>>
  /\ Hangup({c})
  /\ UNCHANGED <<toClient, copen, broken, up, files>>

\* recv returns 0: the client closed before the bytes the thread waits for.
ReadFails(c) ==
  /\ ~copen[c]
  /\ \/ spc[c] \in {"head", "puthead"} /\ ~HeadReady(toServer[c])
     \/ spc[c] = "putdata" /\ toServer[c] = <<>>
  /\ Hangup({c})
  /\ UNCHANGED <<toClient, copen, broken, up, files>>

\* The thread's next call is a send, once it has looked at the path it was
\* given.
Sending(c) ==
  \/ spc[c] \in {"getopen", "sha"}
  \/ spc[c] = "getdata" /\ NextBlock(files[Path(c)], job[c].done, job[c].size) # <<>>
  \/ \E kind \in Requests : Request(c, kind)

\* send to a closed end returns -1: the handler fails and Handler closes.
SendFails(c) ==
  /\ Sending(c) /\ ~Blocks(c) /\ ~copen[c]
  /\ Hangup({c})
  /\ UNCHANGED <<toClient, copen, broken, up, files>>

\* The process ends, and every connection of the server with it.
Terminate ==
  /\ up' = FALSE
  /\ Hangup(Clients)
  /\ UNCHANGED <<toClient, copen, broken, files>>

\* The next one, or the payload after the header of a listing or of an SHA
\* value, raises SIGPIPE.
BrokenPipe(c) ==
  /\ Sending(c) /\ ~Blocks(c) /\ ~copen[c]
  /\ broken[c] \/ spc[c] = "sha" \/ Request(c, LIST_REQUEST)
  /\ Terminate

\* fs::exists of a path it is not allowed to look at throws in CD_Handler,
\* GET_Handler and SHA_Handler; std::terminate ends the process.
PathThrows(c) == Blocks(c) /\ Terminate

\* A call of the server's own fails (pthread_create, popen, fopen, or the
\* listed directory is gone): the connection is closed without a reply.
CallFails(c) ==
  /\ "server" \in Faults
  /\ \/ spc[c] \in {"backlog", "getopen", "sha"}
     \/ Request(c, LIST_REQUEST)
     \/ DataHead(c)
  /\ Hangup({c})
  /\ UNCHANGED <<toClient, copen, broken, up, files>>

\* A call of std::filesystem fails for a reason of the moment, whatever the
\* path: current_path in Handler, exists in LS_Handler and in the handlers
\* that take a name, canonical in CD_Handler.
CallThrows(c) ==
  /\ "server" \in Faults
  /\ \/ spc[c] = "backlog"
     \/ \E kind \in {LIST_REQUEST, CHANGE_DIR_REQUEST, GET_REQUEST, SHA_REQUEST} :
          Request(c, kind)
  /\ Terminate

Thread(c) ==
  \/ Accept(c)     \/ HandleOpen(c) \/ HandleList(c) \/ HandleCd(c)
  \/ HandleGet(c)  \/ GetOpen(c)    \/ GetBlock(c)   \/ GetShort(c)
  \/ HandlePut(c)  \/ PutOpen(c)    \/ PutRefused(c) \/ PutBlock(c)
  \/ HandleSha(c)  \/ ShaSend(c)    \/ HandleQuit(c) \/ Refuse(c)
  \/ ReadFails(c)  \/ SendFails(c)  \/ BrokenPipe(c) \/ PathThrows(c)

ServerInit(tree) ==
  /\ up = TRUE
  /\ files = tree
  /\ spc = [c \in Clients |-> "none"]
  /\ cwd = [c \in Clients |-> Root]
  /\ job = [c \in Clients |-> NoTransfer]
=============================================================================
