--------------------------------- MODULE Ftp ---------------------------------
(***************************************************************************)
(* The FTP of lab1: the server with its threads and the clients, joined by *)
(* one TCP connection each.  A client connects again only when the thread  *)
(* of its last connection has ended.                                       *)
(***************************************************************************)
EXTENDS FtpServer, FtpClient

CONSTANTS
  Tree, Own,   \* the files the server, and the clients, start with
  MaxAfter     \* bound: commands a user gives after a slip

Files == {Absent} \cup Seq(Byte)

ASSUME ValuesAssumption == Names \cup {NUL} \subseteq Values /\ Outputs \subseteq Seq(Values)
ASSUME TreeAssumption   == Tree \in [Dirs \X Names -> Files]
ASSUME OwnAssumption    == Own \in [Clients -> [Names -> Files]]

VARIABLES
  view,   \* history: view[c] is what the file held when c's GET opened it
  torn,   \* history: torn[c] when another thread changed the file under c's
          \* transfer, or the one that c has uploaded
  after   \* bound: commands given since c slipped

vars == <<connVars, serverVars, clientVars, view, torn, after>>

Init ==
  /\ ConnInit
  /\ ServerInit(Tree)
  /\ ClientInit(Own)
  /\ view = [c \in Clients |-> <<>>]
  /\ torn = [c \in Clients |-> FALSE]
  /\ after = [c \in Clients |-> 0]

\* The files of d's transfer, and of the upload its user was told of.
Watched(d) ==
  {path \in Dirs \X Names :
     \/ spc[d] \in {"getdata", "putdata"} /\ path = Path(d)
     \/ told[d] = "put" /\ path = <<where[d], task[d].name>>}

\* What the histories note of a step of client c or of its thread.
Note(c) ==
  /\ view' = [view EXCEPT ![c] =
       IF spc[c] = "getopen" /\ sopen'[c] THEN files[Path(c)]
       ELSE IF cpc'[c] \in {"get", "gethead", "getdata"} \/ told'[c] = "get" THEN @
       ELSE <<>>]
  /\ torn' = [d \in Clients |->
       IF d = c /\ spc[c] \in {"getopen", "puthead"} THEN FALSE
       ELSE torn[d] \/ (d # c /\ \E path \in Watched(d) : files'[path] # files[path])]
  /\ after' = [after EXCEPT ![c] =
       IF slip'[c] = {} THEN 0
       ELSE IF cpc[c] = "prompt" /\ cpc'[c] \in Waiting THEN @ + 1 ELSE @]

Dial(c)       == Open(c) /\ Backlog(c) /\ Note(c)
ServerStep(c) == Thread(c) /\ UNCHANGED clientVars /\ Note(c)
ClientStep(c) == Program(c) /\ UNCHANGED serverVars /\ Note(c)
UserStep(c)   ==
  /\ User(c) /\ UNCHANGED serverVars /\ Note(c)
  /\ after'[c] <= MaxAfter

FaultStep(c) ==
  /\ \/ (CallFails(c) \/ CallThrows(c)) /\ UNCHANGED clientVars
     \/ Kill(c) /\ UNCHANGED serverVars
     \/ Shorten(c) /\ UNCHANGED serverVars
  /\ Note(c)

Next ==
  \E c \in Clients :
    Dial(c) \/ ServerStep(c) \/ ClientStep(c) \/ UserStep(c) \/ FaultStep(c)

\* A thread, or a client inside a handler, goes on when it can; a user need
\* not give a command, and no fault need happen.
Fairness == \A c \in Clients : WF_vars(ServerStep(c)) /\ WF_vars(ClientStep(c))

Spec == Init /\ [][Next]_vars /\ Fairness

-----------------------------------------------------------------------------
Transfers == [name : Values \cup {Absent}, done : Lengths, size : Lengths]

ConnTypeOK ==
  /\ toServer \in [Clients -> Seq(Byte)] /\ toClient \in [Clients -> Seq(Byte)]
  /\ copen \in [Clients -> BOOLEAN] /\ sopen \in [Clients -> BOOLEAN]
  /\ broken \in [Clients -> BOOLEAN]

ServerTypeOK ==
  /\ up \in BOOLEAN
  /\ files \in [Dirs \X Names -> Files]
  /\ spc \in [Clients -> ServerPlaces]
  /\ cwd \in [Clients -> Dirs]
  /\ job \in [Clients -> Transfers]

ClientTypeOK ==
  /\ cpc \in [Clients -> ClientPlaces]
  /\ task \in [Clients -> Transfers]
  /\ local \in [Clients -> [Names -> Files]]
  /\ told \in [Clients -> {"none", "get", "put"}]
  /\ where \in [Clients -> Dirs]
  /\ slip \in [Clients -> SUBSET {"sha", "localopen", "localread"}]

\* Types, and no stream holds more than it can.
TypeOK ==
  /\ ConnTypeOK /\ ServerTypeOK /\ ClientTypeOK
  /\ \A c \in Clients : Len(toServer[c]) <= Cap /\ Len(toClient[c]) <= Cap

\* Whatever way a handler ends, its end of the connection is closed with it
\* and never before: the server's socket is open exactly while a thread
\* serves it, and no socket, thread, directory or unread byte of one
\* connection is left to the next (the close calls of Handler,
\* ftp_server.cpp:400-468, and of ftp_client.cpp:70-98, 459).
EveryEndOwned ==
  \A c \in Clients :
    /\ sopen[c] <=> spc[c] # "none"
    /\ ~sopen[c] => toServer[c] = <<>> /\ cwd[c] = Root /\ job[c] = NoTransfer
    /\ cpc[c] \notin {"prompt", "exited", "killed"} => copen[c]
    /\ cpc[c] \in {"exited", "killed"} => ~copen[c]
    /\ ~copen[c] => toClient[c] = <<>>
    /\ sopen[c] => up

Whole(c) == copen[c] /\ sopen[c] /\ slip[c] = {}

\* What the thread has still to read of the PUT it is in.
Wanted(c) ==
  CASE spc[c] = "putdata" -> job[c].size - job[c].done
    [] spc[c] = "puthead" /\ HeadReady(toServer[c]) -> ReadHead(toServer[c]).length
    [] OTHER              -> 0

\* What the thread has still to send of the GET it is in.
Owed(c) == IF spc[c] = "getdata" THEN job[c].size - job[c].done ELSE 0

\* The two programs stay in step until one of the three slips: at the
\* prompt nothing is on its way to the client and the thread wants exactly
\* the bytes that are on their way to it; a client that waits has its
\* request or its reply under way, never both; data are neither short nor
\* long by a byte (the loops of ftp_server.cpp and ftp_client.cpp).
StepKept ==
  \A c \in Clients : Whole(c) =>
    /\ cpc[c] = "prompt" =>
         /\ toClient[c] = <<>> /\ spc[c] \in {"head", "puthead", "putdata"}
         /\ Len(toServer[c]) = Wanted(c)
    /\ cpc[c] \in Waiting =>
         /\ HeadReady(toClient[c]) => Is(Expected[cpc[c]], ReadHead(toClient[c]))
         /\ toClient[c] # <<>> => toServer[c] = <<>>
         /\ toClient[c] = <<>> =>
              toServer[c] # <<>> \/ spc[c] \in {"getopen", "sha"}
    /\ cpc[c] = "getdata" => Len(toClient[c]) + Owed(c) = task[c].size - task[c].done
    /\ cpc[c] = "putdata" =>
         Len(toServer[c]) + task[c].size - task[c].done = Wanted(c)

\* In step, the directory CD's messages told the user is the thread's.
DirectoryAgreed ==
  \A c \in Clients : Whole(c) /\ cpc[c] = "prompt" => where[c] = cwd[c]

\* What ends the server, with every user's connection, as long as its own
\* calls work: a client that was killed (a send to it raises SIGPIPE), one
\* out of step, or a user who names a path that the server may not look at
\* (the filesystem_error of ftp_server.cpp:113, 159, 311 is not caught).
\* Nothing else that users do ends it, whatever their threads do meanwhile.
ServerSurvives ==
  [][up /\ ~up' =>
       \E c \in Clients :
         \/ cpc[c] = "killed" \/ slip[c] # {}
         \/ cpc[c] \in {"cd", "get", "sha"} /\ <<where[c], task[c].name>> \in Blocked]_vars

\* After "downloaded successfully" the local file is what the server's file
\* held when GET opened it, unless another thread changed it meanwhile.
DownloadWhole ==
  \A c \in Clients :
    told[c] = "get" /\ slip[c] = {} /\ ~torn[c] => local[c][task[c].name] = view[c]

\* A PUT that a thread completes, alone with the file, leaves exactly the
\* client's file on the server.
UploadStored ==
  [][\A c \in Clients :
       /\ spc[c] \in {"puthead", "putdata"} /\ spc'[c] = "head"
       /\ slip[c] = {} /\ ~torn'[c]
       => files'[Path(c)] = local[c][job[c].name]]_vars

\* "uploaded successfully" is printed before the server has taken the data
\* (ftp_client.cpp:367); it has come true when the thread waits for the next
\* request.  (When the thread has ended instead, it need not.)
PromiseKept ==
  \A c \in Clients :
    /\ told[c] = "put" /\ Whole(c) /\ spc[c] = "head" /\ toServer[c] = <<>> /\ ~torn[c]
    => files[<<where[c], task[c].name>>] = local[c][task[c].name]

\* No client in step loses its connection to what other clients do, except
\* when one took the server with it (see ServerSurvives), or when another's
\* PUT shortened the file it was downloading; its own PUT to a directory's
\* name or a blocked path costs it the connection, and a server whose calls
\* fail is another matter.
HeldOpen ==
  [][\A c \in Clients :
       Whole(c) /\ ~sopen'[c] =>
         \/ cpc[c] = "quit" \/ ~up'
         \/ spc[c] = "getdata" /\ torn[c]
         \/ spc[c] = "puthead" /\ ~Writable(c)]_vars

\* Every command comes back to the prompt, unless the client has left its
\* server waiting for data.
CommandReturns ==
  \A c \in Clients :
    (cpc[c] \notin {"prompt", "exited", "killed"}) ~>
      (cpc[c] \in {"prompt", "exited", "killed"} \/ "localread" \in slip[c])

\* A thread does not outlive its client's connection.
ThreadEnds ==
  \A c \in Clients : (~copen[c]) ~> (spc[c] = "none" \/ copen[c])

\* A command leaves nothing of its reply in the connection (define.h:70 asks
\* the sender of a SHA value to count its NUL in the payload).
NothingUnread ==
  \A c \in Clients :
    cpc[c] = "prompt" /\ spc[c] = "head" /\ toServer[c] = <<>> => toClient[c] = <<>>
=============================================================================
