------------------------------ MODULE FtpProofs ------------------------------
(***************************************************************************)
(* Theorems about the FTP of lab1, for any number of clients, any file     *)
(* systems, blocks and streams of any size and every combination of        *)
(* faults.                                                                 *)
(***************************************************************************)
EXTENDS Ftp, SequenceTheorems, TLAPS

-----------------------------------------------------------------------------
(* The header codec: what it promises for every length of a payload and      *)
(* every width of the length field.                                        *)

\* The kinds whose payload is a string: its NUL is counted by Create.
TextKinds ==
  {LIST_REPLY, CHANGE_DIR_REQUEST, GET_REQUEST, PUT_REQUEST, SHA_REQUEST}

LEMMA ModSmall ==
  ASSUME NEW n \in Nat, n < WORD
  PROVE  n % WORD = n
BY HeaderAssumption, WordAssumption, SMT

\* One turn of the circle of lengths, and no more.
LEMMA ModOnce ==
  ASSUME NEW n \in Nat, WORD <= n, n < 2 * WORD
  PROVE  n % WORD = n - WORD
BY HeaderAssumption, WordAssumption, SMT

LEMMA ModRange ==
  ASSUME NEW n \in Nat
  PROVE  n % WORD \in Nat /\ n % WORD < WORD
BY HeaderAssumption, WordAssumption, SMT

(* A string that fits the length field is announced with its NUL and read  *)
(* back with it: the reader of a request or of a listing takes exactly the *)
(* bytes its writer sends (Create_ and Is_ functions of define.cpp, the    *)
(* payload loops of ftp_server.cpp:93-109 and ftp_client.cpp:160-169).     *)
THEOREM TextAnnounced ==
  ASSUME NEW kind \in TextKinds, NEW status \in AnyStatus,
         NEW n \in Nat, HEADER_LENGTH + n + 1 < WORD
  PROVE  /\ Is(kind, Create(kind, status, n))
         /\ PayloadLength(Create(kind, status, n)) = n + 1
<1> DEFINE header == Create(kind, status, n)
<1>1. kind.bare = FALSE /\ kind.nul = 1 /\ kind.statuses = AnyStatus
  BY DEF TextKinds, WithPayload, LIST_REPLY, CHANGE_DIR_REQUEST, GET_REQUEST,
         PUT_REQUEST, SHA_REQUEST
<1>2. header.length = HEADER_LENGTH + n + 1
  BY <1>1, ModSmall, HeaderAssumption DEF Create
<1>3. header.type = kind.type /\ header.status = status
  BY DEF Create
<1>4. Is(kind, header)
  BY <1>1, <1>2, <1>3, HeaderAssumption DEF Is
<1>5. PayloadLength(header) = (n + 1) % WORD
  BY <1>2, HeaderAssumption DEF PayloadLength
<1>6. n + 1 \in Nat /\ n + 1 < WORD
  BY HeaderAssumption, WordAssumption
<1>7. (n + 1) % WORD = n + 1
  BY <1>6, ModSmall
<1> QED
  BY <1>4, <1>5, <1>7

(* A file's length goes through a uint32_t twice, when ftell's result is   *)
(* stored and when the header's 12 bytes are added.  File_DATA of a file   *)
(* of size bytes is accepted exactly when the wrapped size leaves room for *)
(* the header, and then announces the wrapped size: a file of 4 GiB or     *)
(* more is either refused by the reader, with its data left unread, or     *)
(* taken for its remainder (ftp_server.cpp:184-187, ftp_client.cpp:296,    *)
(* 332).                                                                   *)
THEOREM DataAnnounced ==
  ASSUME NEW status \in AnyStatus, NEW size \in Nat
  PROVE  LET header == Create(File_DATA, status, size % WORD)
         IN  /\ Is(File_DATA, header) <=> size % WORD < WORD - HEADER_LENGTH
             /\ Is(File_DATA, header) => PayloadLength(header) = size % WORD
<1> DEFINE file_size == size % WORD
           header == Create(File_DATA, status, file_size)
<1>1. file_size \in Nat /\ file_size < WORD
  BY ModRange
<1>2. header.length = (HEADER_LENGTH + file_size) % WORD
  BY <1>1, HeaderAssumption DEF Create, File_DATA, WithPayload
<1>3. Is(File_DATA, header) <=> header.length >= HEADER_LENGTH
  BY HeaderAssumption DEF Is, Create, File_DATA, WithPayload
<1>4. CASE file_size < WORD - HEADER_LENGTH
  <2>1. header.length = HEADER_LENGTH + file_size
    BY <1>1, <1>2, <1>4, ModSmall, HeaderAssumption, WordAssumption
  <2>2. Is(File_DATA, header)
    BY <1>1, <1>3, <2>1, HeaderAssumption
  <2>3. PayloadLength(header) = file_size % WORD
    BY <1>1, <2>1, HeaderAssumption DEF PayloadLength
  <2>4. file_size % WORD = file_size
    BY <1>1, ModSmall
  <2> QED
    BY <1>4, <2>2, <2>3, <2>4
<1>5. CASE ~(file_size < WORD - HEADER_LENGTH)
  <2>1. header.length = HEADER_LENGTH + file_size - WORD
    BY <1>1, <1>2, <1>5, ModOnce, HeaderAssumption, WordAssumption
  <2>2. ~Is(File_DATA, header)
    BY <1>1, <1>3, <2>1, HeaderAssumption, WordAssumption
  <2> QED
    BY <1>5, <2>2
<1> QED
  BY <1>4, <1>5

LEMMA Types ==
  /\ OPEN_CONN_REQUEST.type = 161 /\ OPEN_CONN_REPLY.type = 162
  /\ LIST_REQUEST.type = 163 /\ LIST_REPLY.type = 164
  /\ CHANGE_DIR_REQUEST.type = 165 /\ CHANGE_DIR_REPLY.type = 166
  /\ GET_REQUEST.type = 167 /\ GET_REPLY.type = 168
  /\ PUT_REQUEST.type = 169 /\ PUT_REPLY.type = 170
  /\ SHA_REQUEST.type = 171 /\ SHA_REPLY.type = 172
  /\ QUIT_REQUEST.type = 173 /\ QUIT_REPLY.type = 174
  /\ File_DATA.type = 255
BY DEF Bare, WithPayload, OPEN_CONN_REQUEST, OPEN_CONN_REPLY, LIST_REQUEST,
  LIST_REPLY, CHANGE_DIR_REQUEST, CHANGE_DIR_REPLY, GET_REQUEST, GET_REPLY,
  PUT_REQUEST, PUT_REPLY, SHA_REQUEST, SHA_REPLY, QUIT_REQUEST, QUIT_REPLY,
  File_DATA

(* No header is two messages at once: whatever a peer sends, at most one   *)
(* case of the server's switch and one reply of the client accept it       *)
(* (ftp_server.cpp:407-468).                                               *)
THEOREM OneKindAtMost ==
  ASSUME NEW first \in Kinds, NEW second \in Kinds, NEW header,
         Is(first, header), Is(second, header)
  PROVE  first = second
<1>1. first.type = second.type
  BY DEF Is
<1> QED
  BY <1>1, Types DEF Kinds, Requests, Replies

(* What is not a header, wherever in the stream it was read from, is       *)
(* nobody's message: a reader that has lost its place fails and does not   *)
(* act on garbage (the magic number in every Is_ function of define.cpp).  *)
THEOREM GarbageRefused ==
  \A kind \in Kinds : ~Is(kind, NotAHeader)
<1>1. \A kind \in Kinds : kind.type # 0
  BY Types DEF Kinds, Requests, Replies
<1> QED
  BY <1>1 DEF Is, NotAHeader

-----------------------------------------------------------------------------
(* The programs.                                                           *)


ConnOK ==
  /\ ConnTypeOK
  /\ \A c \in Clients : Len(toServer[c]) <= Cap /\ Len(toClient[c]) <= Cap

\* A command that needs its name, or its local file, has it, and PUT has sent
\* no more than the file holds.
TaskNamed ==
  \A c \in Clients :
    /\ cpc[c] \in {"cd", "get", "gethead", "getdata", "put", "putdata", "sha"}
         => task[c].name \in Names
    /\ cpc[c] \in {"getdata", "put", "putdata"}
         => local[c][task[c].name] \in Seq(Byte)
    /\ cpc[c] = "putdata" => task[c].done <= Len(local[c][task[c].name])

\* A file that a thread has opened is there.
JobNamed ==
  \A c \in Clients :
    spc[c] \in {"getopen", "getdata", "putdata"} =>
      Path(c) \in Dirs \X Names /\ files[Path(c)] \in Seq(Byte)

(* The inductive invariant.                                                *)
IInv == TypeOK /\ EveryEndOwned /\ TaskNamed /\ JobNamed

-----------------------------------------------------------------------------
(* Bytes.                                                                  *)
LEMMA WordFacts ==
  /\ HEADER_LENGTH \in Nat \ {0} /\ WORD \in Nat /\ 0 \in Lengths
  /\ \A n \in Lengths : n \in Nat
  /\ \A n \in Int : n % WORD \in Lengths
BY HeaderAssumption, WordAssumption, SMT DEF Lengths

LEMMA KindStatus ==
  \A kind \in Kinds : kind.type \in 0..255 /\ kind.nul \in {0, 1}
BY DEF Kinds, Requests, Replies, Bare, WithPayload, OPEN_CONN_REQUEST,
  OPEN_CONN_REPLY, LIST_REQUEST, LIST_REPLY, CHANGE_DIR_REQUEST,
  CHANGE_DIR_REPLY, GET_REQUEST, GET_REPLY, PUT_REQUEST, PUT_REPLY,
  SHA_REQUEST, SHA_REPLY, QUIT_REQUEST, QUIT_REPLY, File_DATA

LEMMA CreateType ==
  ASSUME NEW kind \in Kinds, NEW status \in {0, 1}, NEW n \in Nat
  PROVE  Create(kind, status, n) \in HeaderType
<1>1. kind.type \in 0..255 /\ kind.nul \in Int
  BY KindStatus
<1>2. HEADER_LENGTH + n + kind.nul \in Int
  BY <1>1, WordFacts
<1>3. (HEADER_LENGTH + n + kind.nul) % WORD \in Lengths
  BY <1>2, WordFacts
<1> QED
  BY <1>1, <1>3 DEF Create, HeaderType, AnyStatus

LEMMA HeaderBytesType ==
  ASSUME NEW header \in HeaderType
  PROVE  HeaderBytes(header) \in Seq(Byte) /\ Len(HeaderBytes(header)) = HEADER_LENGTH
<1>1. \A i \in 1..HEADER_LENGTH : [at |-> i, of |-> header] \in Byte
  BY DEF Byte
<1> QED
  BY <1>1, WordFacts DEF HeaderBytes

LEMMA PayloadType ==
  ASSUME NEW values \in Seq(Values)
  PROVE  Payload(values) \in Seq(Byte) /\ Len(Payload(values)) = Len(values)
<1>1. \A i \in DOMAIN values : [at |-> 0, of |-> values[i]] \in Byte
  BY DEF Byte
<1> QED
  BY <1>1 DEF Payload

\* What a reader takes for a header has the type of one.
LEMMA ReadHeadType ==
  ASSUME NEW stream \in Seq(Byte), HeadReady(stream)
  PROVE  ReadHead(stream) \in HeaderType
<1>1. NotAHeader \in HeaderType
  BY WordFacts DEF NotAHeader, HeaderType, AnyStatus
<1>2. stream[1] \in Byte
  BY WordFacts DEF HeadReady
<1>3. stream[1].at = 1 => stream[1].of \in HeaderType
  BY <1>2 DEF Byte
<1> DEFINE one == \A i \in 1..HEADER_LENGTH : stream[i] = [at |-> i, of |-> stream[1].of]
<1>4. one => stream[1] = [at |-> 1, of |-> stream[1].of]
  BY WordFacts
<1>5. one => stream[1].of \in HeaderType
  BY <1>3, <1>4
<1>6. ReadHead(stream) = IF one THEN stream[1].of ELSE NotAHeader
  BY DEF ReadHead
<1> HIDE DEF one
<1> QED
  BY <1>1, <1>5, <1>6

LEMMA LengthType ==
  ASSUME NEW header \in HeaderType
  PROVE  /\ header.length \in Nat
         /\ PayloadLength(header) \in Lengths
         /\ (PayloadLength(header) - 1) % WORD \in Lengths
<1>1. header.length \in Lengths
  BY DEF HeaderType
<1>2. header.length \in Nat /\ header.length - HEADER_LENGTH \in Int
  BY <1>1, WordFacts
<1>3. PayloadLength(header) \in Lengths
  BY <1>2, WordFacts DEF PayloadLength
<1>4. PayloadLength(header) \in Int
  BY <1>3, WordFacts
<1>5. PayloadLength(header) - 1 \in Int
  BY <1>4
<1> QED
  BY <1>2, <1>3, <1>5, WordFacts

LEMMA RestType ==
  ASSUME NEW stream \in Seq(Byte), NEW n \in Nat
  PROVE  /\ Rest(stream, n) \in Seq(Byte)
         /\ Len(Rest(stream, n)) <= Len(stream)
         /\ stream = <<>> => Rest(stream, n) = <<>>
BY DEF Rest

LEMMA MinOfThree ==
  ASSUME NEW x \in Int, NEW y \in Int, NEW z \in Int
  PROVE  Min({x, y, z}) \in {x, y, z} /\ Min({x, y, z}) <= x
           /\ Min({x, y, z}) <= y /\ Min({x, y, z}) <= z
<1>1. PICK m \in {x, y, z} : \A u \in {x, y, z} : m <= u
  OBVIOUS
<1> QED
  BY <1>1 DEF Min

LEMMA MaxOfTwo ==
  ASSUME NEW x \in Int, NEW y \in Int
  PROVE  Max({x, y}) \in {x, y} /\ Max({x, y}) >= x /\ Max({x, y}) >= y
<1>1. PICK m \in {x, y} : \A u \in {x, y} : m >= u
  OBVIOUS
<1> QED
  BY <1>1 DEF Max

LEMMA NextBlockType ==
  ASSUME NEW file \in Seq(Byte), NEW done \in Nat, NEW size \in Nat
  PROVE  /\ NextBlock(file, done, size) \in Seq(Byte)
         /\ done <= Len(file) => done + Len(NextBlock(file, done, size)) <= Len(file)
<1> DEFINE last == Min({size, done + Block, Len(file)})
<1>1. size \in Int /\ done + Block \in Int /\ Len(file) \in Int
  BY BlockAssumption
<1>2. last \in Int /\ last <= Len(file)
  BY <1>1, MinOfThree
<1>3. NextBlock(file, done, size) = SubSeq(file, done + 1, last)
  BY DEF NextBlock
<1> HIDE DEF last
<1> QED
  BY <1>2, <1>3, SubSeqProperties

LEMMA WriteAtType ==
  ASSUME NEW file \in Seq(Byte), NEW done \in Nat, NEW bytes \in Seq(Byte)
  PROVE  WriteAt(file, done, bytes) \in Seq(Byte)
<1> DEFINE last == Max({Len(file), done + Len(bytes)})
<1>0. Len(file) \in Nat /\ done + Len(bytes) \in Nat
  OBVIOUS
<1>1. last \in {Len(file), done + Len(bytes)}
  <2>1. \A x, y \in Int : Max({x, y}) \in {x, y}
    BY MaxOfTwo
  <2> QED
    BY <1>0, <2>1
<1>2. last \in Nat
  BY <1>0, <1>1
<1>3. [at |-> 0, of |-> NUL] \in Byte
  BY ValuesAssumption DEF Byte
<1>4. \A i \in 1..last : (IF i \in (done + 1)..(done + Len(bytes)) THEN bytes[i - done]
        ELSE IF i <= Len(file) THEN file[i] ELSE [at |-> 0, of |-> NUL]) \in Byte
  BY <1>2, <1>3
<1> HIDE DEF last
<1>5. [i \in 1..last |->
         IF i \in (done + 1)..(done + Len(bytes)) THEN bytes[i - done]
         ELSE IF i <= Len(file) THEN file[i] ELSE [at |-> 0, of |-> NUL]] \in Seq(Byte)
  BY <1>2, <1>4
<1> QED
  BY <1>5 DEF WriteAt, last
-----------------------------------------------------------------------------
(* The streams.                                                            *)

\* A step of c's thread, or of c itself, that closes no end.
ThreadStreams(c) ==
  /\ ConnOK' /\ UNCHANGED <<copen, sopen>>
  /\ \A e \in Clients : /\ ~copen[e] => toClient'[e] = toClient[e]
                        /\ e # c => toServer'[e] = toServer[e]

ClientStreams(c) ==
  /\ ConnOK' /\ UNCHANGED <<copen, sopen>>
  /\ \A e \in Clients : /\ ~sopen[e] => toServer'[e] = toServer[e]
                        /\ e # c => toClient'[e] = toClient[e]

LEMMA AppendType ==
  ASSUME NEW stream \in Seq(Byte), NEW bytes \in Seq(Byte),
         Len(stream) + Len(bytes) <= Cap
  PROVE  stream \o bytes \in Seq(Byte) /\ Len(stream \o bytes) <= Cap
BY ConcatProperties

LEMMA ThreadReads ==
  ASSUME ConnOK, NEW c \in Clients, NEW n \in Nat,
         ServerTakes(c, n), UNCHANGED <<toClient, copen, sopen, broken>>
  PROVE  ThreadStreams(c)
<1>1. Rest(toServer[c], n) \in Seq(Byte) /\ Len(Rest(toServer[c], n)) <= Cap
  BY RestType, CapAssumption DEF ConnOK, ConnTypeOK
<1> QED
  BY <1>1 DEF ConnOK, ConnTypeOK, ServerTakes, ThreadStreams

LEMMA ServerSendsType ==
  ASSUME ConnOK, NEW c \in Clients, NEW bytes \in Seq(Byte), ServerSends(c, bytes)
  PROVE  /\ toClient' \in [Clients -> Seq(Byte)] /\ broken' \in [Clients -> BOOLEAN]
         /\ \A e \in Clients : Len(toClient'[e]) <= Cap
                               /\ (~copen[e] => toClient'[e] = toClient[e])
<1>1. CASE copen[c]
  <2>1. Len(toClient[c]) + Len(bytes) <= Cap
        /\ toClient' = [toClient EXCEPT ![c] = toClient[c] \o bytes] /\ broken' = broken
    BY <1>1 DEF ServerSends
  <2>2. toClient[c] \o bytes \in Seq(Byte) /\ Len(toClient[c] \o bytes) <= Cap
    BY <2>1, AppendType DEF ConnOK, ConnTypeOK
  <2> QED
    BY <1>1, <2>1, <2>2 DEF ConnOK, ConnTypeOK
<1>2. CASE ~copen[c]
  <2>1. toClient' = toClient /\ broken' = [broken EXCEPT ![c] = TRUE]
    BY <1>2 DEF ServerSends
  <2> QED
    BY <2>1 DEF ConnOK, ConnTypeOK
<1> QED
  BY <1>1, <1>2

LEMMA ThreadWrites ==
  ASSUME ConnOK, NEW c \in Clients, NEW bytes \in Seq(Byte), ServerSends(c, bytes),
         UNCHANGED <<copen, sopen>>,
         UNCHANGED toServer \/ \E n \in Nat : ServerTakes(c, n)
  PROVE  ThreadStreams(c)
<1>1. \A n \in Nat : Rest(toServer[c], n) \in Seq(Byte) /\ Len(Rest(toServer[c], n)) <= Cap
  BY RestType, CapAssumption DEF ConnOK, ConnTypeOK
<1>2. /\ toServer' \in [Clients -> Seq(Byte)]
      /\ \A e \in Clients : Len(toServer'[e]) <= Cap
                            /\ (e # c => toServer'[e] = toServer[e])
  BY <1>1 DEF ConnOK, ConnTypeOK, ServerTakes
<1> QED
  BY <1>2, ServerSendsType DEF ConnOK, ConnTypeOK, ThreadStreams

LEMMA ClientReads ==
  ASSUME ConnOK, NEW c \in Clients, NEW n \in Nat,
         ClientTakes(c, n), UNCHANGED <<toServer, copen, sopen, broken>>
  PROVE  ClientStreams(c)
<1>1. Rest(toClient[c], n) \in Seq(Byte) /\ Len(Rest(toClient[c], n)) <= Cap
  BY RestType, CapAssumption DEF ConnOK, ConnTypeOK
<1> QED
  BY <1>1 DEF ConnOK, ConnTypeOK, ClientTakes, ClientStreams

LEMMA ClientWrites ==
  ASSUME ConnOK, NEW c \in Clients, NEW bytes \in Seq(Byte), ClientSends(c, bytes),
         UNCHANGED <<copen, sopen>>,
         UNCHANGED toClient \/ \E n \in Nat : ClientTakes(c, n)
  PROVE  ClientStreams(c)
<1>1. \A n \in Nat : Rest(toClient[c], n) \in Seq(Byte) /\ Len(Rest(toClient[c], n)) <= Cap
  BY RestType, CapAssumption DEF ConnOK, ConnTypeOK
<1>2. /\ toClient' \in [Clients -> Seq(Byte)]
      /\ \A e \in Clients : Len(toClient'[e]) <= Cap
                            /\ (e # c => toClient'[e] = toClient[e])
  BY <1>1 DEF ConnOK, ConnTypeOK, ClientTakes
<1>3. /\ toServer' \in [Clients -> Seq(Byte)] /\ broken' \in [Clients -> BOOLEAN]
      /\ \A e \in Clients : Len(toServer'[e]) <= Cap
                            /\ (~sopen[e] => toServer'[e] = toServer[e])
  <2>1. CASE sopen[c]
    <3>1. Len(toServer[c]) + Len(bytes) <= Cap
          /\ toServer' = [toServer EXCEPT ![c] = toServer[c] \o bytes] /\ broken' = broken
      BY <2>1 DEF ClientSends
    <3>2. toServer[c] \o bytes \in Seq(Byte) /\ Len(toServer[c] \o bytes) <= Cap
      BY <3>1, AppendType DEF ConnOK, ConnTypeOK
    <3> QED
      BY <2>1, <3>1, <3>2 DEF ConnOK, ConnTypeOK
  <2>2. CASE ~sopen[c]
    <3>1. toServer' = toServer /\ broken' = [broken EXCEPT ![c] = TRUE]
      BY <2>2 DEF ClientSends
    <3> QED
      BY <3>1 DEF ConnOK, ConnTypeOK
  <2> QED
    BY <2>1, <2>2
<1> QED
  BY <1>2, <1>3 DEF ConnOK, ConnTypeOK, ClientStreams
-----------------------------------------------------------------------------
(* Every step is one of five shapes.                                       *)

\* The transfer records are edited field by field.
LEMMA NameEdit ==
  ASSUME NEW f \in [Clients -> Transfers], NEW c \in Clients, NEW name \in Values \cup {Absent}
  PROVE  LET g == [f EXCEPT ![c].name = name]
         IN  /\ g \in [Clients -> Transfers] /\ g[c].name = name
             /\ \A e \in Clients : e # c => g[e] = f[e]
BY DEF Transfers

LEMMA BareTransfer ==
  ASSUME NEW name \in Values \cup {Absent}, NEW size \in Lengths
  PROVE  Transfer(name, 0, size) \in Transfers /\ NoTransfer \in Transfers
BY WordFacts DEF Transfers, NoTransfer, Transfer

\* The thread of c goes on, with a file it may write.
LEMMA ThreadGoesOn ==
  ASSUME IInv, NEW c \in Clients, ThreadStreams(c), ServerTypeOK',
         spc[c] # "none", spc'[c] # "none", UNCHANGED <<up, clientVars>>,
         \A e \in Clients : e # c => spc'[e] = spc[e] /\ cwd'[e] = cwd[e] /\ job'[e] = job[e],
         \A path \in Dirs \X Names : files[path] \in Seq(Byte) => files'[path] \in Seq(Byte),
         spc'[c] \in {"getopen", "getdata", "putdata"} =>
           Path(c)' \in Dirs \X Names /\ files'[Path(c)'] \in Seq(Byte)
  PROVE  IInv'
<1>1. TypeOK'
  BY DEF IInv, TypeOK, ClientTypeOK, clientVars, ThreadStreams, ConnOK
<1>2. EveryEndOwned'
  BY DEF IInv, EveryEndOwned, ThreadStreams, clientVars
<1>3. TaskNamed'
  BY DEF IInv, TaskNamed, clientVars
<1>4. JobNamed'
  BY DEF IInv, JobNamed, Path
<1> QED
  BY <1>1, <1>2, <1>3, <1>4 DEF IInv

\* Threads end, and nothing else does, unless the whole server ends.
LEMMA ThreadsHangUp ==
  ASSUME IInv, NEW closed \in SUBSET Clients, Hangup(closed),
         up' \in BOOLEAN, up' = up \/ closed = Clients,
         UNCHANGED <<copen, files, clientVars>>,
         toClient' \in [Clients -> Seq(Byte)], broken' \in [Clients -> BOOLEAN],
         \A e \in Clients : Len(toClient'[e]) <= Cap
                            /\ (~copen[e] => toClient'[e] = toClient[e])
  PROVE  IInv'
<1>1. TypeOK'
  <2>1. ServerTypeOK'
    BY EnterAssumption, WordFacts DEF IInv, TypeOK, ServerTypeOK, Hangup, ServerPlaces,
       NoTransfer, Transfer, Transfers
  <2>2. ConnTypeOK' /\ \A e \in Clients : Len(toServer'[e]) <= Cap
    BY CapAssumption, EmptySeq DEF IInv, TypeOK, ConnTypeOK, Hangup, ServerCloses
  <2> QED
    BY <2>1, <2>2 DEF IInv, TypeOK, ClientTypeOK, clientVars
<1>2. EveryEndOwned'
  <2>1. \A e \in Clients : sopen'[e] => sopen[e] /\ e \notin closed
    BY DEF Hangup, ServerCloses
  <2>2. \A e \in Clients : sopen'[e] => up'
    <3>1. CASE up' = up
      BY <2>1, <3>1 DEF IInv, EveryEndOwned
    <3>2. CASE closed = Clients
      BY <2>1, <3>2
    <3> QED
      BY <3>1, <3>2
  <2> QED
    BY <2>2 DEF IInv, EveryEndOwned, Hangup, ServerCloses, clientVars
<1>3. TaskNamed'
  BY DEF IInv, TaskNamed, clientVars
<1>4. JobNamed'
  BY DEF IInv, JobNamed, Hangup, Path
<1> QED
  BY <1>1, <1>2, <1>3, <1>4 DEF IInv

\* The client c goes on, with a name it may use.
LEMMA ClientGoesOn ==
  ASSUME IInv, NEW c \in Clients, ClientStreams(c), ClientTypeOK',
         copen[c], cpc'[c] \notin {"exited", "killed"}, UNCHANGED serverVars,
         \A e \in Clients : e # c => cpc'[e] = cpc[e] /\ task'[e] = task[e] /\ local'[e] = local[e],
         cpc'[c] \in {"cd", "get", "gethead", "getdata", "put", "putdata", "sha"}
           => task'[c].name \in Names,
         cpc'[c] \in {"getdata", "put", "putdata"}
           => local'[c][task'[c].name] \in Seq(Byte),
         cpc'[c] = "putdata" => task'[c].done <= Len(local'[c][task'[c].name])
  PROVE  IInv'
<1>1. TypeOK'
  BY DEF IInv, TypeOK, ServerTypeOK, serverVars, ClientStreams, ConnOK
<1>2. EveryEndOwned'
  BY DEF IInv, EveryEndOwned, ClientStreams, serverVars
<1>3. TaskNamed'
  BY DEF IInv, TaskNamed
<1>4. JobNamed'
  BY DEF IInv, JobNamed, serverVars, Path
<1> QED
  BY <1>1, <1>2, <1>3, <1>4 DEF IInv

\* The client c closes its end.
LEMMA ClientHangsUp ==
  ASSUME IInv, NEW c \in Clients, ClientCloses(c), ClientTypeOK',
         UNCHANGED <<toServer, sopen, broken>>, UNCHANGED serverVars,
         cpc'[c] \in {"prompt", "exited", "killed"},
         \A e \in Clients : e # c => cpc'[e] = cpc[e] /\ task'[e] = task[e] /\ local'[e] = local[e]
  PROVE  IInv'
<1>1. ConnOK'
  BY CapAssumption DEF IInv, TypeOK, ConnTypeOK, ClientCloses, ConnOK
<1>2. TypeOK'
  BY <1>1 DEF IInv, TypeOK, ServerTypeOK, serverVars, ConnOK
<1>3. EveryEndOwned'
  BY DEF IInv, TypeOK, ConnTypeOK, EveryEndOwned, ClientCloses, serverVars
<1>4. TaskNamed'
  BY DEF IInv, TaskNamed
<1>5. JobNamed'
  BY DEF IInv, JobNamed, serverVars, Path
<1> QED
  BY <1>2, <1>3, <1>4, <1>5 DEF IInv
-----------------------------------------------------------------------------
(* The steps of a thread.                                                  *)
LEMMA KindsAre ==
  /\ {OPEN_CONN_REPLY, LIST_REPLY, CHANGE_DIR_REPLY, GET_REPLY, PUT_REPLY,
      SHA_REPLY, QUIT_REPLY, File_DATA} \subseteq Kinds
  /\ Requests \subseteq Kinds
BY DEF Kinds, Replies

LEMMA HeaderSent ==
  ASSUME NEW kind \in Kinds, NEW status \in {0, 1}, NEW n \in Nat
  PROVE  HeaderBytes(Create(kind, status, n)) \in Seq(Byte)
BY CreateType, HeaderBytesType

LEMMA OutputSent ==
  ASSUME NEW kind \in Kinds, NEW n \in Nat, NEW out \in Outputs
  PROVE  HeaderBytes(Create(kind, 0, n)) \o Payload(Append(out, NUL)) \in Seq(Byte)
<1>1. Append(out, NUL) \in Seq(Values)
  BY ValuesAssumption, AppendProperties
<1> QED
  BY <1>1, HeaderSent, PayloadType, ConcatProperties

LEMMA RequestFacts ==
  ASSUME IInv, NEW c \in Clients, NEW kind, Request(c, kind)
  PROVE  /\ spc[c] = "head" /\ RequestLength(c) \in Nat
         /\ ~kind.bare /\ kind.nul = 1 => NameOf(c) \in Values \cup {Absent}
<1>1. /\ toServer[c] \in Seq(Byte) /\ HeadReady(toServer[c]) /\ spc[c] = "head"
      /\ Is(kind, ReadHead(toServer[c]))
      /\ Len(toServer[c]) >= ReadHead(toServer[c]).length
  BY DEF Request, IInv, TypeOK, ConnTypeOK
<1>2. ReadHead(toServer[c]).length \in Nat
  BY <1>1, ReadHeadType, LengthType
<1>3. ASSUME ~kind.bare, kind.nul = 1
      PROVE  NameOf(c) \in Values \cup {Absent}
  <2>1. ReadHead(toServer[c]).length >= HEADER_LENGTH + 1
    BY <1>1, <1>3 DEF Is
  <2>2. toServer[c][HEADER_LENGTH + 1] \in Byte
    BY <1>1, <1>2, <2>1, WordFacts
  <2>3. toServer[c][HEADER_LENGTH + 1].at = 0 => toServer[c][HEADER_LENGTH + 1].of \in Values
    BY <2>2, WordFacts DEF Byte
  <2> QED
    BY <2>3 DEF NameOf
<1> QED
  BY <1>1, <1>2, <1>3 DEF RequestLength

LEMMA NamesFollow ==
  \A kind \in {CHANGE_DIR_REQUEST, GET_REQUEST, PUT_REQUEST, SHA_REQUEST} :
    ~kind.bare /\ kind.nul = 1
BY DEF CHANGE_DIR_REQUEST, GET_REQUEST, PUT_REQUEST, SHA_REQUEST, WithPayload

LEMMA StepAccept ==
  ASSUME IInv, NEW c \in Clients, Accept(c), UNCHANGED clientVars
  PROVE  IInv'
<1>1. ThreadStreams(c)
  BY DEF Accept, connVars, IInv, TypeOK, ConnOK, ConnTypeOK, ThreadStreams
<1>2. ServerTypeOK' /\ spc[c] = "backlog" /\ spc'[c] = "head"
      /\ \A e \in Clients : e # c => spc'[e] = spc[e] /\ cwd'[e] = cwd[e] /\ job'[e] = job[e]
  BY DEF Accept, Goto, IInv, TypeOK, ServerTypeOK, ServerPlaces
<1> QED
  BY <1>1, <1>2, ThreadGoesOn DEF Accept

LEMMA StepOpen ==
  ASSUME IInv, NEW c \in Clients, HandleOpen(c), UNCHANGED clientVars
  PROVE  IInv'
<1>1. RequestLength(c) \in Nat /\ spc[c] = "head"
  BY RequestFacts DEF HandleOpen
<1>2. ThreadStreams(c)
  BY <1>1, KindsAre, HeaderSent, ThreadWrites DEF HandleOpen, IInv, TypeOK, ConnOK
<1> QED
  BY <1>1, <1>2, ThreadGoesOn DEF HandleOpen, serverVars, IInv, TypeOK, ServerTypeOK

LEMMA StepList ==
  ASSUME IInv, NEW c \in Clients, HandleList(c), UNCHANGED clientVars
  PROVE  IInv'
<1>1. RequestLength(c) \in Nat /\ spc[c] = "head"
  BY RequestFacts DEF HandleList
<1>2. PICK out \in Outputs :
        ServerSends(c, HeaderBytes(Create(LIST_REPLY, 0, Len(out))) \o Payload(Append(out, NUL)))
  BY DEF HandleList
<1>3. Len(out) \in Nat
  BY ValuesAssumption
<1>4. ThreadStreams(c)
  BY <1>1, <1>2, <1>3, KindsAre, OutputSent, ThreadWrites DEF HandleList, IInv, TypeOK, ConnOK
<1> QED
  BY <1>1, <1>4, ThreadGoesOn DEF HandleList, serverVars, IInv, TypeOK, ServerTypeOK

LEMMA StepCd ==
  ASSUME IInv, NEW c \in Clients, HandleCd(c), UNCHANGED clientVars
  PROVE  IInv'
<1>1. RequestLength(c) \in Nat /\ spc[c] = "head"
  BY RequestFacts DEF HandleCd
<1>2. Status(IsDir(cwd[c], NameOf(c))) \in {0, 1}
  BY DEF Status
<1>3. ThreadStreams(c)
  BY <1>1, <1>2, KindsAre, HeaderSent, ThreadWrites DEF HandleCd, IInv, TypeOK, ConnOK
<1>4. ChangeDir(cwd[c], NameOf(c)) \in Dirs
  BY EnterAssumption DEF ChangeDir, IsDir, IInv, TypeOK, ServerTypeOK
<1>5. ServerTypeOK' /\ \A e \in Clients : e # c => cwd'[e] = cwd[e]
  BY <1>4 DEF HandleCd, IInv, TypeOK, ServerTypeOK
<1> QED
  BY <1>1, <1>3, <1>5, ThreadGoesOn DEF HandleCd

LEMMA StepFile ==
  ASSUME IInv, NEW c \in Clients, UNCHANGED clientVars,
         NEW request \in {GET_REQUEST, SHA_REQUEST}, NEW reply \in {GET_REPLY, SHA_REPLY},
         NEW next \in {"getopen", "sha"}, HandleFile(c, request, reply, next)
  PROVE  IInv'
<1>1. RequestLength(c) \in Nat /\ spc[c] = "head" /\ NameOf(c) \in Values \cup {Absent}
  BY RequestFacts, NamesFollow DEF HandleFile
<1>2. Status(Exists(c, NameOf(c))) \in {0, 1}
  BY DEF Status
<1>3. ThreadStreams(c)
  BY <1>1, <1>2, KindsAre, HeaderSent, ThreadWrites DEF HandleFile, IInv, TypeOK, ConnOK
<1>4. CASE ~Exists(c, NameOf(c))
  <2>1. UNCHANGED <<spc, job, up, files, cwd>>
    BY <1>4 DEF HandleFile
  <2> QED
    BY <1>1, <1>3, <2>1, ThreadGoesOn DEF IInv, TypeOK, ServerTypeOK
<1>5. CASE Exists(c, NameOf(c))
  <2>1. /\ spc' = [spc EXCEPT ![c] = next] /\ job' = [job EXCEPT ![c].name = NameOf(c)]
        /\ UNCHANGED <<up, files, cwd>>
    BY <1>5 DEF HandleFile, Goto
  <2>2. /\ job' \in [Clients -> Transfers] /\ job'[c].name = NameOf(c)
        /\ \A e \in Clients : e # c => job'[e] = job[e]
    <3>1. job \in [Clients -> Transfers]
      BY DEF IInv, TypeOK, ServerTypeOK
    <3> QED
      BY <1>1, <2>1, <3>1, NameEdit
  <2>3. ServerTypeOK' /\ spc'[c] = next /\ \A e \in Clients : e # c => spc'[e] = spc[e]
    BY <2>1, <2>2 DEF IInv, TypeOK, ServerTypeOK, ServerPlaces
  <2>4. <<cwd[c], NameOf(c)>> \in Dirs \X Names /\ files[<<cwd[c], NameOf(c)>>] \in Seq(Byte)
    BY <1>5 DEF Exists, Files, IInv, TypeOK, ServerTypeOK
  <2>5. Path(c)' = <<cwd[c], NameOf(c)>>
    BY <2>1, <2>2 DEF Path
  <2> QED
    BY <1>1, <1>3, <2>1, <2>2, <2>3, <2>4, <2>5, ThreadGoesOn
<1> QED
  BY <1>4, <1>5

\* A transfer goes on with the same file, or the thread reads a request next.
LEMMA ContinueFacts ==
  ASSUME IInv, NEW c \in Clients, NEW place \in {"getdata", "putdata"},
         NEW done \in Nat, NEW size \in Lengths, Continue(c, place, done, size),
         files' \in [Dirs \X Names -> Files], UNCHANGED <<up, cwd>>
  PROVE  /\ ServerTypeOK' /\ spc'[c] # "none"
         /\ \A e \in Clients : e # c => spc'[e] = spc[e] /\ cwd'[e] = cwd[e] /\ job'[e] = job[e]
         /\ spc'[c] \in {"getopen", "getdata", "putdata"} => Path(c)' = Path(c)
<1>1. job \in [Clients -> Transfers] /\ spc \in [Clients -> ServerPlaces]
      /\ up \in BOOLEAN /\ cwd \in [Clients -> Dirs]
  BY DEF IInv, TypeOK, ServerTypeOK
<1>2. CASE done < size
  <2>1. done \in Lengths
    BY <1>2, WordAssumption, SMT DEF Lengths
  <2>2. /\ spc' = [spc EXCEPT ![c] = place]
        /\ job' = [job EXCEPT ![c].done = done, ![c].size = size]
    BY <1>2 DEF Continue, Goto
  <2>3. /\ job' \in [Clients -> Transfers] /\ job'[c].name = job[c].name
        /\ \A e \in Clients : e # c => job'[e] = job[e]
    <3>1. job \in [Clients -> Transfers] /\ size \in Lengths
      BY <1>1
    <3> QED
      BY <2>1, <2>2, <3>1 DEF Transfers
  <2> QED
    BY <1>1, <2>2, <2>3 DEF ServerTypeOK, ServerPlaces, Path
<1>3. CASE ~(done < size)
  <2>1. spc' = [spc EXCEPT ![c] = "head"] /\ job' = [job EXCEPT ![c] = NoTransfer]
    BY <1>3 DEF Continue, Goto
  <2>2. NoTransfer \in Transfers
    BY BareTransfer, WordFacts
  <2> QED
    BY <1>1, <2>1, <2>2 DEF ServerTypeOK, ServerPlaces
<1> QED
  BY <1>2, <1>3

LEMMA OpenedFile ==
  ASSUME IInv, NEW c \in Clients, spc[c] \in {"getopen", "getdata", "putdata"}
  PROVE  /\ Path(c) \in Dirs \X Names /\ files[Path(c)] \in Seq(Byte)
         /\ job[c].done \in Nat /\ job[c].size \in Lengths /\ job[c].size \in Nat
<1>1. job[c] \in Transfers
  BY DEF IInv, TypeOK, ServerTypeOK
<1>2. job[c].done \in Lengths /\ job[c].size \in Lengths
  BY <1>1 DEF Transfers
<1> QED
  BY <1>2, WordFacts DEF IInv, JobNamed

LEMMA StepGetOpen ==
  ASSUME IInv, NEW c \in Clients, GetOpen(c), UNCHANGED clientVars
  PROVE  IInv'
<1> DEFINE file_size == Len(files[Path(c)]) % WORD
<1>1. spc[c] = "getopen" /\ Path(c) \in Dirs \X Names /\ files[Path(c)] \in Seq(Byte)
  BY OpenedFile DEF GetOpen
<1>2. file_size \in Lengths /\ file_size \in Nat
  <2>1. Len(files[Path(c)]) \in Int
    BY <1>1
  <2>2. file_size \in Lengths
    BY <2>1, WordFacts
  <2> HIDE DEF file_size
  <2> QED
    BY <2>2, WordFacts
<1>3. /\ ServerSends(c, HeaderBytes(Create(File_DATA, 0, file_size)))
      /\ Continue(c, "getdata", 0, file_size)
      /\ UNCHANGED <<toServer, copen, sopen, up, files, cwd>>
  BY DEF GetOpen
<1> HIDE DEF file_size
<1>4. ThreadStreams(c)
  BY <1>2, <1>3, KindsAre, HeaderSent, ThreadWrites DEF IInv, TypeOK, ConnOK
<1>5. files' \in [Dirs \X Names -> Files]
  BY <1>3 DEF IInv, TypeOK, ServerTypeOK
<1> QED
  BY <1>1, <1>2, <1>3, <1>4, <1>5, ContinueFacts, ThreadGoesOn

LEMMA StepGetBlock ==
  ASSUME IInv, NEW c \in Clients, GetBlock(c), UNCHANGED clientVars
  PROVE  IInv'
<1> DEFINE block == NextBlock(files[Path(c)], job[c].done, job[c].size)
<1>1. /\ spc[c] = "getdata" /\ Path(c) \in Dirs \X Names /\ files[Path(c)] \in Seq(Byte)
      /\ job[c].done \in Nat /\ job[c].size \in Lengths /\ job[c].size \in Nat
  BY OpenedFile DEF GetBlock
<1>2. block \in Seq(Byte)
  BY <1>1, NextBlockType
<1>3. /\ ServerSends(c, block)
      /\ Continue(c, "getdata", job[c].done + Len(block), job[c].size)
      /\ UNCHANGED <<toServer, copen, sopen, up, files, cwd>>
  BY DEF GetBlock
<1> HIDE DEF block
<1>4. ThreadStreams(c)
  BY <1>2, <1>3, ThreadWrites DEF IInv, TypeOK, ConnOK
<1>5. files' \in [Dirs \X Names -> Files] /\ job[c].done + Len(block) \in Nat
  BY <1>1, <1>2, <1>3 DEF IInv, TypeOK, ServerTypeOK
<1> QED
  BY <1>1, <1>3, <1>4, <1>5, ContinueFacts, ThreadGoesOn

LEMMA StepPut ==
  ASSUME IInv, NEW c \in Clients, HandlePut(c), UNCHANGED clientVars
  PROVE  IInv'
<1>1. RequestLength(c) \in Nat /\ spc[c] = "head" /\ NameOf(c) \in Values \cup {Absent}
  BY RequestFacts, NamesFollow DEF HandlePut
<1>2. ThreadStreams(c)
  BY <1>1, KindsAre, HeaderSent, ThreadWrites DEF HandlePut, IInv, TypeOK, ConnOK
<1>3. job \in [Clients -> Transfers]
  BY DEF IInv, TypeOK, ServerTypeOK
<1>4. job' \in [Clients -> Transfers] /\ \A e \in Clients : e # c => job'[e] = job[e]
  BY <1>1, <1>3, NameEdit DEF HandlePut
<1>5. ServerTypeOK' /\ spc'[c] = "puthead" /\ \A e \in Clients : e # c => spc'[e] = spc[e]
  BY <1>4 DEF HandlePut, Goto, IInv, TypeOK, ServerTypeOK, ServerPlaces
<1> QED
  BY <1>1, <1>2, <1>4, <1>5, ThreadGoesOn DEF HandlePut

LEMMA StepPutOpen ==
  ASSUME IInv, NEW c \in Clients, PutOpen(c), UNCHANGED clientVars
  PROVE  IInv'
<1> DEFINE size == PayloadLength(ReadHead(toServer[c]))
<1>1. /\ spc[c] = "puthead" /\ HeadReady(toServer[c]) /\ toServer[c] \in Seq(Byte)
      /\ Path(c) \in Dirs \X Names
  BY DEF PutOpen, DataHead, Writable, IInv, TypeOK, ConnTypeOK, ServerTypeOK
<1>2. size \in Lengths
  BY <1>1, ReadHeadType, LengthType
<1>3. /\ files' = [files EXCEPT ![Path(c)] = <<>>]
      /\ Continue(c, "putdata", 0, size)
      /\ ServerTakes(c, HEADER_LENGTH)
      /\ UNCHANGED <<toClient, copen, sopen, broken, up, cwd>>
  BY DEF PutOpen
<1> HIDE DEF size
<1>4. ThreadStreams(c)
  BY <1>3, WordFacts, ThreadReads DEF IInv, TypeOK, ConnOK
<1>5. /\ files' \in [Dirs \X Names -> Files] /\ files'[Path(c)] \in Seq(Byte)
      /\ \A path \in Dirs \X Names : files[path] \in Seq(Byte) => files'[path] \in Seq(Byte)
  <2>1. <<>> \in Seq(Byte)
    BY EmptySeq
  <2> QED
    BY <1>1, <1>3, <2>1 DEF IInv, TypeOK, ServerTypeOK, Files
<1> QED
  BY <1>1, <1>2, <1>3, <1>4, <1>5, ContinueFacts, ThreadGoesOn

LEMMA StepPutBlock ==
  ASSUME IInv, NEW c \in Clients, PutBlock(c), UNCHANGED clientVars
  PROVE  IInv'
<1>1. /\ spc[c] = "putdata" /\ Path(c) \in Dirs \X Names /\ files[Path(c)] \in Seq(Byte)
      /\ job[c].done \in Nat /\ job[c].size \in Lengths /\ job[c].size \in Nat
      /\ toServer[c] \in Seq(Byte)
  BY OpenedFile DEF PutBlock, IInv, TypeOK, ConnTypeOK
<1>2. PICK n \in 1..Min({Block, job[c].size - job[c].done, Len(toServer[c])}) :
        /\ files' = [files EXCEPT ![Path(c)] =
                       WriteAt(files[Path(c)], job[c].done, SubSeq(toServer[c], 1, n))]
        /\ ServerTakes(c, n)
        /\ Continue(c, "putdata", job[c].done + n, job[c].size)
  BY DEF PutBlock
<1>3. Block \in Int /\ job[c].size - job[c].done \in Int /\ Len(toServer[c]) \in Int
  BY <1>1, BlockAssumption
<1>4. n \in Nat /\ n <= Len(toServer[c])
  <2> DEFINE last == Min({Block, job[c].size - job[c].done, Len(toServer[c])})
  <2>1. last \in Int /\ last <= Len(toServer[c])
    BY <1>3, MinOfThree
  <2>2. n \in 1..last
    OBVIOUS
  <2> HIDE DEF last
  <2> QED
    BY <1>3, <2>1, <2>2
<1>5. SubSeq(toServer[c], 1, n) \in Seq(Byte)
  BY <1>1, <1>4, SubSeqProperties
<1>6. WriteAt(files[Path(c)], job[c].done, SubSeq(toServer[c], 1, n)) \in Seq(Byte)
  BY <1>1, <1>5, WriteAtType
<1>7. /\ files' \in [Dirs \X Names -> Files] /\ files'[Path(c)] \in Seq(Byte)
      /\ \A path \in Dirs \X Names : files[path] \in Seq(Byte) => files'[path] \in Seq(Byte)
  BY <1>1, <1>2, <1>6 DEF IInv, TypeOK, ServerTypeOK, Files
<1>8. ThreadStreams(c) /\ UNCHANGED <<up, cwd>> /\ job[c].done + n \in Nat
  BY <1>1, <1>2, <1>4, ThreadReads DEF PutBlock, IInv, TypeOK, ConnOK
<1> QED
  BY <1>1, <1>2, <1>7, <1>8, ContinueFacts, ThreadGoesOn

LEMMA StepShaSend ==
  ASSUME IInv, NEW c \in Clients, ShaSend(c), UNCHANGED clientVars
  PROVE  IInv'
<1>1. PICK out \in Outputs :
        ServerSends(c, HeaderBytes(Create(File_DATA, 0, Len(out) + 1)) \o Payload(Append(out, NUL)))
  BY DEF ShaSend
<1>2. Len(out) + 1 \in Nat
  BY ValuesAssumption
<1>3. ThreadStreams(c)
  BY <1>1, <1>2, KindsAre, OutputSent, ThreadWrites DEF ShaSend, IInv, TypeOK, ConnOK
<1>4. NoTransfer \in Transfers
  BY BareTransfer, WordFacts
<1>5. ServerTypeOK' /\ spc[c] = "sha" /\ spc'[c] = "head"
      /\ \A e \in Clients : e # c => spc'[e] = spc[e] /\ cwd'[e] = cwd[e] /\ job'[e] = job[e]
  BY <1>4 DEF ShaSend, Goto, IInv, TypeOK, ServerTypeOK, ServerPlaces
<1> QED
  BY <1>3, <1>5, ThreadGoesOn DEF ShaSend

LEMMA StepQuit ==
  ASSUME IInv, NEW c \in Clients, HandleQuit(c), UNCHANGED clientVars
  PROVE  IInv'
<1> DEFINE closed == {c}
<1>1. ServerSends(c, HeaderBytes(Create(QUIT_REPLY, 0, 0))) /\ Hangup(closed)
      /\ UNCHANGED <<copen, up, files>>
  BY DEF HandleQuit
<1>2. HeaderBytes(Create(QUIT_REPLY, 0, 0)) \in Seq(Byte) /\ ConnOK /\ closed \in SUBSET Clients
      /\ up' \in BOOLEAN
  BY <1>1, KindsAre, HeaderSent DEF IInv, TypeOK, ConnOK, ServerTypeOK
<1>3. /\ toClient' \in [Clients -> Seq(Byte)] /\ broken' \in [Clients -> BOOLEAN]
      /\ \A e \in Clients : Len(toClient'[e]) <= Cap
                            /\ (~copen[e] => toClient'[e] = toClient[e])
  BY <1>1, <1>2, ServerSendsType
<1> HIDE DEF closed
<1> QED
  BY <1>1, <1>2, <1>3, ThreadsHangUp

LEMMA StepHangup ==
  ASSUME IInv, NEW closed \in SUBSET Clients, Hangup(closed),
         up' \in BOOLEAN, up' = up \/ closed = Clients,
         UNCHANGED <<toClient, copen, broken, files, clientVars>>
  PROVE  IInv'
<1>1. /\ toClient \in [Clients -> Seq(Byte)] /\ broken \in [Clients -> BOOLEAN]
      /\ \A e \in Clients : Len(toClient[e]) <= Cap
  BY DEF IInv, TypeOK, ConnTypeOK
<1> QED
  BY <1>1, ThreadsHangUp

\* What a thread may do, and the steps of it that end the server.
Acts(c) == Thread(c) \/ CallFails(c) \/ CallThrows(c)
Dies(c) == BrokenPipe(c) \/ PathThrows(c) \/ CallThrows(c)

LEMMA StepThread ==
  ASSUME IInv, NEW c \in Clients, Acts(c), UNCHANGED clientVars
  PROVE  IInv'
<1>1. CASE HandleGet(c) \/ HandleSha(c)
  BY <1>1, StepFile DEF HandleGet, HandleSha
<1>2. CASE \/ GetShort(c) \/ PutRefused(c) \/ Refuse(c) \/ ReadFails(c) \/ SendFails(c)
           \/ CallFails(c)
  <2> DEFINE closed == {c}
  <2>1. Hangup(closed) /\ UNCHANGED <<toClient, copen, broken, up, files>>
    BY <1>2 DEF GetShort, PutRefused, Refuse, ReadFails, SendFails, CallFails
  <2>2. closed \in SUBSET Clients /\ up' \in BOOLEAN
    BY <2>1 DEF IInv, TypeOK, ServerTypeOK
  <2> HIDE DEF closed
  <2> QED
    BY <2>1, <2>2, StepHangup
<1>3. CASE Dies(c)
  <2>1. Hangup(Clients) /\ up' = FALSE /\ UNCHANGED <<toClient, copen, broken, files>>
    BY <1>3 DEF Dies, BrokenPipe, PathThrows, CallThrows, Terminate
  <2> QED
    BY <2>1, StepHangup
<1> QED
  BY <1>1, <1>2, <1>3, StepAccept, StepOpen, StepList, StepCd, StepGetOpen, StepGetBlock,
     StepPut, StepPutOpen, StepPutBlock, StepShaSend, StepQuit DEF Acts, Dies, Thread
-----------------------------------------------------------------------------
(* The steps of a client.                                                  *)

\* What every one of its steps keeps of where it is.
ClientMoves(c) ==
  /\ cpc' \in [Clients -> ClientPlaces] /\ task' \in [Clients -> Transfers]
  /\ told' \in [Clients -> {"none", "get", "put"}]
  /\ \A e \in Clients : e # c => cpc'[e] = cpc[e] /\ task'[e] = task[e]

LEMMA ClientTypes ==
  ASSUME IInv
  PROVE  /\ cpc \in [Clients -> ClientPlaces] /\ task \in [Clients -> Transfers]
         /\ told \in [Clients -> {"none", "get", "put"}]
         /\ local \in [Clients -> [Names -> Files]]
         /\ where \in [Clients -> Dirs]
         /\ slip \in [Clients -> SUBSET {"sha", "localopen", "localread"}]
         /\ toClient \in [Clients -> Seq(Byte)] /\ ConnOK
BY DEF IInv, TypeOK, ClientTypeOK, ConnTypeOK, ConnOK

LEMMA TransferTypes ==
  ASSUME IInv, NEW c \in Clients
  PROVE  /\ task[c].done \in Lengths /\ task[c].size \in Lengths
         /\ task[c].done \in Nat /\ task[c].size \in Nat
         /\ task[c].name \in Values \cup {Absent}
<1>1. task[c] \in Transfers
  BY ClientTypes
<1>2. /\ task[c].done \in Lengths /\ task[c].size \in Lengths
      /\ task[c].name \in Values \cup {Absent}
  BY <1>1 DEF Transfers
<1> QED
  BY <1>2, WordFacts

LEMMA ReturnFacts ==
  ASSUME IInv, NEW c \in Clients, NEW message \in {"none", "get", "put"}, Return(c, message)
  PROVE  ClientMoves(c) /\ cpc'[c] = "prompt"
<1>1. NoTransfer \in Transfers /\ Transfer(task[c].name, 0, 0) \in Transfers
  BY TransferTypes, BareTransfer, WordFacts
<1>2. /\ cpc' = [cpc EXCEPT ![c] = "prompt"] /\ told' = [told EXCEPT ![c] = message]
      /\ task' = [task EXCEPT ![c] = IF message = "none" THEN NoTransfer
                                     ELSE Transfer(task[c].name, 0, 0)]
  BY DEF Return, Move
<1> QED
  BY <1>1, <1>2, ClientTypes DEF ClientMoves, ClientPlaces

LEMMA CarryFacts ==
  ASSUME IInv, NEW c \in Clients, NEW place \in {"getdata", "putdata", "shadata"},
         NEW done \in Nat, NEW size \in Lengths, NEW message \in {"none", "get", "put"},
         Carry(c, place, done, size, message)
  PROVE  /\ ClientMoves(c) /\ cpc'[c] \in {place, "prompt"}
         /\ cpc'[c] = place => task'[c].name = task[c].name /\ task'[c].done = done
<1>1. CASE done < size
  <2>1. done \in Lengths
    BY <1>1, WordAssumption, SMT DEF Lengths
  <2>2. /\ cpc' = [cpc EXCEPT ![c] = place] /\ told' = told
        /\ task' = [task EXCEPT ![c].done = done, ![c].size = size]
    BY <1>1 DEF Carry, Move
  <2>3. /\ task' \in [Clients -> Transfers]
        /\ task'[c].name = task[c].name /\ task'[c].done = done
        /\ \A e \in Clients : e # c => task'[e] = task[e]
    <3>1. task \in [Clients -> Transfers] /\ size \in Lengths
      BY ClientTypes
    <3> QED
      BY <2>1, <2>2, <3>1 DEF Transfers
  <2> QED
    BY <2>2, <2>3, ClientTypes DEF ClientMoves, ClientPlaces, Receiving
<1>2. CASE ~(done < size)
  <2>1. Return(c, message)
    BY <1>2 DEF Carry
  <2> QED
    BY <2>1, ReturnFacts
<1> QED
  BY <1>1, <1>2

LEMMA RepliedFacts ==
  ASSUME IInv, NEW c \in Clients, NEW place \in Waiting, Replied(c, place)
  PROVE  /\ cpc[c] = place /\ copen[c] /\ ClientTakes(c, HEADER_LENGTH)
         /\ GotLength(c) \in Lengths /\ (GotLength(c) - 1) % WORD \in Lengths
<1>1. HeadReady(toClient[c]) /\ toClient[c] \in Seq(Byte) /\ cpc[c] = place
      /\ ClientTakes(c, HEADER_LENGTH)
  BY ClientTypes DEF Replied
<1>2. GotLength(c) \in Lengths /\ (GotLength(c) - 1) % WORD \in Lengths
  BY <1>1, ReadHeadType, LengthType DEF GotLength
<1>3. copen[c]
  BY <1>1 DEF Waiting, IInv, EveryEndOwned
<1> QED
  BY <1>1, <1>2, <1>3

\* A handler that only reads, and moves on with nothing of its own changed.
LEMMA ReadsOn ==
  ASSUME IInv, NEW c \in Clients, copen[c], ClientStreams(c), ClientMoves(c),
         cpc'[c] \notin {"exited", "killed"}, UNCHANGED <<local, serverVars>>,
         where' \in [Clients -> Dirs],
         slip' \in [Clients -> SUBSET {"sha", "localopen", "localread"}],
         cpc'[c] \in {"cd", "get", "gethead", "getdata", "put", "putdata", "sha"}
           => task'[c].name \in Names,
         cpc'[c] \in {"getdata", "put", "putdata"}
           => local[c][task'[c].name] \in Seq(Byte),
         cpc'[c] = "putdata" => task'[c].done <= Len(local[c][task'[c].name])
  PROVE  IInv'
<1>1. ClientTypeOK'
  BY ClientTypes DEF ClientMoves, ClientTypeOK
<1> QED
  BY <1>1, ClientGoesOn DEF ClientMoves

LEMMA StepIssue ==
  ASSUME IInv, NEW c \in Clients, NEW command \in {"ls", "quit"}, UNCHANGED serverVars,
         NEW kind \in Kinds, Issue(c, command, kind)
  PROVE  IInv'
<1>1. ClientStreams(c) /\ copen[c]
  BY HeaderSent, ClientWrites DEF Issue, IInv, TypeOK, ConnOK
<1>2. ClientMoves(c) /\ cpc'[c] = command
  BY BareTransfer, WordFacts, ClientTypes
  DEF Issue, Move, ClientMoves, ClientPlaces, Waiting
<1> QED
  BY <1>1, <1>2, ReadsOn, ClientTypes DEF Issue

LEMMA StepIssueName ==
  ASSUME IInv, NEW c \in Clients, NEW command \in {"cd", "get", "put", "sha"},
         NEW kind \in Kinds, NEW name \in Names, NEW size \in Lengths,
         IssueName(c, command, kind, name, size), UNCHANGED serverVars,
         command = "put" => local[c][name] \in Seq(Byte)
  PROVE  IInv'
<1>1. HeaderBytes(Create(kind, 0, 1)) \o Payload(<<name, NUL>>) \in Seq(Byte)
  <2>1. <<name, NUL>> \in Seq(Values)
    BY ValuesAssumption
  <2> QED
    BY <2>1, HeaderSent, PayloadType, ConcatProperties
<1>2. ClientStreams(c) /\ copen[c]
  BY <1>1, ClientWrites DEF IssueName, IInv, TypeOK, ConnOK
<1>3. Transfer(name, 0, size) \in Transfers /\ Transfer(name, 0, size).name = name
  BY BareTransfer, ValuesAssumption DEF Transfer
<1>4. ClientMoves(c) /\ cpc'[c] = command /\ task'[c].name = name
  BY <1>3, ClientTypes DEF IssueName, Move, ClientMoves, ClientPlaces, Waiting
<1> QED
  BY <1>2, <1>4, ReadsOn, ClientTypes DEF IssueName

LEMMA RequestKinds ==
  {LIST_REQUEST, QUIT_REQUEST, CHANGE_DIR_REQUEST, GET_REQUEST, PUT_REQUEST,
   SHA_REQUEST} \subseteq Kinds
BY DEF Kinds, Requests

LEMMA StepCommand ==
  ASSUME IInv, NEW c \in Clients, Command(c), UNCHANGED serverVars
  PROVE  IInv'
<1>1. CASE Ls(c) \/ Quit(c)
  BY <1>1, RequestKinds, StepIssue DEF Ls, Quit
<1>2. CASE Cd(c) \/ Get(c) \/ Sha(c)
  <2>1. 0 \in Lengths
    BY WordFacts
  <2> QED
    BY <1>2, <2>1, RequestKinds, StepIssueName DEF Cd, Get, Sha
<1>3. CASE Put(c)
  <2>1. PICK name \in Names :
          /\ local[c][name] # Absent
          /\ IssueName(c, "put", PUT_REQUEST, name, Len(local[c][name]) % WORD)
    BY <1>3, ClientTypes DEF Put
  <2>2. local[c][name] \in Seq(Byte)
    BY <2>1, ClientTypes DEF Files
  <2>3. Len(local[c][name]) \in Int
    BY <2>2
  <2>4. Len(local[c][name]) % WORD \in Lengths
    BY <2>3, WordFacts
  <2> QED
    BY <2>1, <2>2, <2>4, RequestKinds, StepIssueName
<1> QED
  BY <1>1, <1>2, <1>3 DEF Command

LEMMA StepGotOpen ==
  ASSUME IInv, NEW c \in Clients, GotOpen(c), UNCHANGED serverVars
  PROVE  IInv'
<1>1. copen[c] /\ ClientTakes(c, HEADER_LENGTH)
  BY RepliedFacts DEF GotOpen, Waiting
<1>2. ClientStreams(c)
  BY <1>1, ClientReads, WordFacts, ClientTypes DEF GotOpen
<1>3. ClientMoves(c) /\ cpc'[c] = "prompt"
  BY ReturnFacts DEF GotOpen
<1> QED
  BY <1>1, <1>2, <1>3, ReadsOn, ClientTypes DEF GotOpen

LEMMA StepGotList ==
  ASSUME IInv, NEW c \in Clients, GotList(c), UNCHANGED serverVars
  PROVE  IInv'
<1>1. copen[c] /\ ClientTakes(c, HEADER_LENGTH) /\ GotLength(c) \in Lengths
  BY RepliedFacts DEF GotList, Waiting
<1>2. ClientStreams(c)
  BY <1>1, ClientReads, WordFacts, ClientTypes DEF GotList
<1>3. ClientMoves(c) /\ cpc'[c] = "lsdata"
  <2>1. task' = [task EXCEPT ![c].size = GotLength(c)] /\ cpc' = [cpc EXCEPT ![c] = "lsdata"]
        /\ told' = told
    BY DEF GotList, Move
  <2>2. task' \in [Clients -> Transfers] /\ \A e \in Clients : e # c => task'[e] = task[e]
    BY <1>1, <2>1, ClientTypes DEF Transfers
  <2> QED
    BY <2>1, <2>2, ClientTypes DEF ClientMoves, ClientPlaces, Receiving
<1> QED
  BY <1>1, <1>2, <1>3, ReadsOn, ClientTypes DEF GotList

LEMMA StepListPart ==
  ASSUME IInv, NEW c \in Clients, ListPart(c), UNCHANGED serverVars
  PROVE  IInv'
<1>1. cpc[c] = "lsdata" /\ copen[c]
  BY DEF ListPart, IInv, EveryEndOwned
<1>2. PICK n \in 1..Min({task[c].size, Len(toClient[c])}) :
        /\ ClientTakes(c, n)
        /\ IF task[c].done + n < task[c].size
           THEN task' = [task EXCEPT ![c].done = task[c].done + n] /\ UNCHANGED <<cpc, told>>
           ELSE Return(c, "none")
  BY DEF ListPart
<1>3. ClientStreams(c)
  BY <1>2, ClientReads, ClientTypes DEF ListPart
<1>4. CASE task[c].done + n < task[c].size
  <2>1. task[c].done + n \in Lengths
    BY <1>4, TransferTypes, WordAssumption, SMT DEF Lengths
  <2>2. task' = [task EXCEPT ![c].done = task[c].done + n] /\ cpc' = cpc /\ told' = told
    BY <1>2, <1>4
  <2>3. task' \in [Clients -> Transfers] /\ \A e \in Clients : e # c => task'[e] = task[e]
    BY <2>1, <2>2, ClientTypes DEF Transfers
  <2>4. ClientMoves(c)
    BY <2>2, <2>3, ClientTypes DEF ClientMoves
  <2> QED
    BY <1>1, <1>3, <2>2, <2>4, ReadsOn, ClientTypes DEF ListPart
<1>5. CASE ~(task[c].done + n < task[c].size)
  <2>1. ClientMoves(c) /\ cpc'[c] = "prompt"
    BY <1>2, <1>5, ReturnFacts
  <2> QED
    BY <1>1, <1>3, <2>1, ReadsOn, ClientTypes DEF ListPart
<1> QED
  BY <1>4, <1>5

LEMMA StepGotCd ==
  ASSUME IInv, NEW c \in Clients, GotCd(c), UNCHANGED serverVars
  PROVE  IInv'
<1>1. copen[c] /\ ClientTakes(c, HEADER_LENGTH) /\ cpc[c] = "cd"
  BY RepliedFacts DEF GotCd, Waiting
<1>2. ClientStreams(c)
  BY <1>1, ClientReads, WordFacts, ClientTypes DEF GotCd
<1>3. ClientMoves(c) /\ cpc'[c] = "prompt"
  BY ReturnFacts DEF GotCd
<1>4. where' \in [Clients -> Dirs]
  <2> DEFINE there == Enter[<<where[c], task[c].name>>]
  <2>1. <<where[c], task[c].name>> \in Dirs \X Names
    BY <1>1, ClientTypes DEF IInv, TaskNamed
  <2>2. there # Absent => there \in Dirs
    BY <2>1, EnterAssumption
  <2>3. where' = IF GotStatus(c) = 1 /\ there # Absent
                 THEN [where EXCEPT ![c] = there] ELSE where
    BY DEF GotCd
  <2> HIDE DEF there
  <2> QED
    BY <2>2, <2>3, ClientTypes
<1> QED
  BY <1>1, <1>2, <1>3, <1>4, ReadsOn, ClientTypes DEF GotCd

LEMMA StepGotFile ==
  ASSUME IInv, NEW c \in Clients, UNCHANGED serverVars,
         \/ GotFile(c, "get", "gethead") \/ GotFile(c, "sha", "shahead")
  PROVE  IInv'
<1>1. PICK place \in {"get", "sha"}, next \in {"gethead", "shahead"} :
        GotFile(c, place, next) /\ (next = "gethead" => place = "get")
  OBVIOUS
<1>2. copen[c] /\ ClientTakes(c, HEADER_LENGTH) /\ cpc[c] = place
  BY <1>1, RepliedFacts DEF GotFile, Waiting
<1>3. ClientStreams(c)
  BY <1>1, <1>2, ClientReads, WordFacts, ClientTypes DEF GotFile
<1>4. CASE GotStatus(c) = 1
  <2>1. ClientMoves(c) /\ cpc'[c] = next /\ task' = task
    BY <1>1, <1>4, ClientTypes DEF GotFile, Move, ClientMoves, ClientPlaces, Waiting
  <2>2. next = "gethead" => task[c].name \in Names
    BY <1>1, <1>2 DEF IInv, TaskNamed
  <2> QED
    BY <1>1, <1>2, <1>3, <2>1, <2>2, ReadsOn, ClientTypes DEF GotFile
<1>5. CASE GotStatus(c) # 1
  <2>1. ClientMoves(c) /\ cpc'[c] = "prompt"
    BY <1>1, <1>5, ReturnFacts DEF GotFile
  <2> QED
    BY <1>1, <1>2, <1>3, <2>1, ReadsOn, ClientTypes DEF GotFile
<1> QED
  BY <1>4, <1>5

\* The local file of a GET is open for writing.
LEMMA WritesOn ==
  ASSUME IInv, NEW c \in Clients, copen[c], ClientStreams(c), ClientMoves(c),
         NEW name \in Names, NEW bytes \in Seq(Byte),
         local' = [local EXCEPT ![c][name] = bytes],
         cpc'[c] \in {"getdata", "prompt"}, cpc'[c] = "getdata" => task'[c].name = name,
         UNCHANGED <<where, slip, serverVars>>
  PROVE  IInv'
<1>1. /\ local' \in [Clients -> [Names -> Files]] /\ local'[c][name] = bytes
      /\ \A e \in Clients : e # c => local'[e] = local[e]
  BY ClientTypes DEF Files
<1>2. ClientTypeOK'
  BY <1>1, ClientTypes DEF ClientMoves, ClientTypeOK
<1> QED
  BY <1>1, <1>2, ClientGoesOn DEF ClientMoves

LEMMA StepGetStart ==
  ASSUME IInv, NEW c \in Clients, GetStart(c), UNCHANGED serverVars
  PROVE  IInv'
<1>1. /\ copen[c] /\ ClientTakes(c, HEADER_LENGTH) /\ GotLength(c) \in Lengths
      /\ cpc[c] = "gethead"
  BY RepliedFacts DEF GetStart, Waiting
<1>2. ClientStreams(c)
  BY <1>1, ClientReads, WordFacts, ClientTypes DEF GetStart
<1>3. task[c].name \in Names /\ <<>> \in Seq(Byte)
  BY <1>1, EmptySeq DEF IInv, TaskNamed
<1>4. /\ ClientMoves(c) /\ cpc'[c] \in {"getdata", "prompt"}
      /\ cpc'[c] = "getdata" => task'[c].name = task[c].name
  BY <1>1, CarryFacts DEF GetStart
<1> QED
  BY <1>1, <1>2, <1>3, <1>4, WritesOn DEF GetStart

LEMMA StepGetUnopened ==
  ASSUME IInv, NEW c \in Clients, GetUnopened(c), UNCHANGED serverVars
  PROVE  IInv'
<1>1. copen[c] /\ ClientTakes(c, HEADER_LENGTH)
  BY RepliedFacts DEF GetUnopened, Waiting
<1>2. ClientStreams(c)
  BY <1>1, ClientReads, WordFacts, ClientTypes DEF GetUnopened
<1>3. ClientMoves(c) /\ cpc'[c] = "prompt"
  BY ReturnFacts DEF GetUnopened
<1>4. slip' \in [Clients -> SUBSET {"sha", "localopen", "localread"}]
  BY ClientTypes DEF GetUnopened
<1> QED
  BY <1>1, <1>2, <1>3, <1>4, ReadsOn, ClientTypes DEF GetUnopened

LEMMA StepGetPart ==
  ASSUME IInv, NEW c \in Clients, GetPart(c), UNCHANGED serverVars
  PROVE  IInv'
<1>1. /\ cpc[c] = "getdata" /\ copen[c] /\ task[c].name \in Names
      /\ local[c][task[c].name] \in Seq(Byte)
  BY DEF GetPart, IInv, EveryEndOwned, TaskNamed
<1>2. PICK n \in 1..Min({Block, task[c].size - task[c].done, Len(toClient[c])}) :
        /\ ClientTakes(c, n)
        /\ local' = [local EXCEPT ![c][task[c].name] = @ \o SubSeq(toClient[c], 1, n)]
        /\ Carry(c, "getdata", task[c].done + n, task[c].size, "get")
  BY DEF GetPart
<1>3. /\ Block \in Int /\ task[c].size - task[c].done \in Int
      /\ Len(toClient[c]) \in Int /\ toClient[c] \in Seq(Byte)
  BY TransferTypes, ClientTypes, BlockAssumption
<1>4. n \in Nat /\ n <= Len(toClient[c])
  <2> DEFINE last == Min({Block, task[c].size - task[c].done, Len(toClient[c])})
  <2>1. last \in Int /\ last <= Len(toClient[c])
    BY <1>3, MinOfThree
  <2>2. n \in 1..last
    OBVIOUS
  <2> HIDE DEF last
  <2> QED
    BY <1>3, <2>1, <2>2
<1> DEFINE bytes == local[c][task[c].name] \o SubSeq(toClient[c], 1, n)
<1>5. SubSeq(toClient[c], 1, n) \in Seq(Byte)
  BY <1>3, <1>4, SubSeqProperties
<1>6. bytes \in Seq(Byte)
  BY <1>1, <1>5, ConcatProperties
<1>7. local' = [local EXCEPT ![c][task[c].name] = bytes]
  BY <1>2, ClientTypes
<1> HIDE DEF bytes
<1>8. ClientStreams(c)
  BY <1>2, <1>4, ClientReads, ClientTypes DEF GetPart
<1>9. /\ ClientMoves(c) /\ cpc'[c] \in {"getdata", "prompt"}
      /\ cpc'[c] = "getdata" => task'[c].name = task[c].name
  <2>1. task[c].done + n \in Nat /\ task[c].size \in Lengths
    BY <1>4, TransferTypes
  <2> QED
    BY <1>2, <2>1, CarryFacts
<1> QED
  BY <1>1, <1>6, <1>7, <1>8, <1>9, WritesOn DEF GetPart

LEMMA StepGotPut ==
  ASSUME IInv, NEW c \in Clients, GotPut(c), UNCHANGED serverVars
  PROVE  IInv'
<1>1. copen[c] /\ ClientTakes(c, HEADER_LENGTH) /\ cpc[c] = "put"
  BY RepliedFacts DEF GotPut, Waiting
<1>2. task[c].size \in Nat /\ task[c].size \in Lengths
  BY TransferTypes
<1>3. ClientStreams(c)
  BY <1>1, <1>2, KindsAre, HeaderSent, ClientWrites, WordFacts, ClientTypes DEF GotPut
<1>4. /\ ClientMoves(c) /\ cpc'[c] \in {"putdata", "prompt"}
      /\ cpc'[c] = "putdata" => task'[c].name = task[c].name /\ task'[c].done = 0
  BY <1>2, CarryFacts DEF GotPut
<1>5. /\ task[c].name \in Names /\ local[c][task[c].name] \in Seq(Byte)
      /\ 0 <= Len(local[c][task[c].name])
  BY <1>1 DEF IInv, TaskNamed
<1> QED
  BY <1>1, <1>3, <1>4, <1>5, ReadsOn, ClientTypes DEF GotPut

LEMMA StepPutPart ==
  ASSUME IInv, NEW c \in Clients, PutPart(c), UNCHANGED serverVars
  PROVE  IInv'
<1>1. /\ cpc[c] = "putdata" /\ copen[c] /\ task[c].name \in Names
      /\ local[c][task[c].name] \in Seq(Byte)
      /\ task[c].done <= Len(local[c][task[c].name])
  BY DEF PutPart, IInv, EveryEndOwned, TaskNamed
<1>2. /\ LocalBlock(c) \in Seq(Byte)
      /\ task[c].done + Len(LocalBlock(c)) <= Len(local[c][task[c].name])
  BY <1>1, TransferTypes, NextBlockType DEF LocalBlock
<1>3. ClientStreams(c)
  BY <1>2, ClientWrites, ClientTypes DEF PutPart
<1>4. /\ ClientMoves(c) /\ cpc'[c] \in {"putdata", "prompt"}
      /\ cpc'[c] = "putdata" => /\ task'[c].name = task[c].name
                                /\ task'[c].done = task[c].done + Len(LocalBlock(c))
  <2>1. task[c].done + Len(LocalBlock(c)) \in Nat /\ task[c].size \in Lengths
    BY <1>2, TransferTypes
  <2> QED
    BY <2>1, CarryFacts DEF PutPart
<1> QED
  BY <1>1, <1>2, <1>3, <1>4, ReadsOn, ClientTypes DEF PutPart

LEMMA StepShorten ==
  ASSUME IInv, NEW c \in Clients, Shorten(c), UNCHANGED serverVars
  PROVE  IInv'
<1> DEFINE name == task[c].name
           bytes == SubSeq(local[c][name], 1, task[c].done)
<1>1. /\ cpc[c] = "putdata" /\ copen[c] /\ name \in Names
      /\ local[c][name] \in Seq(Byte) /\ task[c].done <= Len(local[c][name])
  BY DEF Shorten, IInv, EveryEndOwned, TaskNamed
<1>2. task[c].done \in Nat
  BY TransferTypes
<1>3. bytes \in Seq(Byte) /\ Len(bytes) = task[c].done
  BY <1>1, <1>2, SubSeqProperties
<1>4. /\ local' = [local EXCEPT ![c][name] = bytes]
      /\ UNCHANGED <<connVars, cpc, task, told, where, slip>>
  BY ClientTypes DEF Shorten
<1> HIDE DEF bytes
<1>5. /\ local' \in [Clients -> [Names -> Files]] /\ local'[c][name] = bytes
      /\ \A e \in Clients : e # c => local'[e] = local[e]
  BY <1>1, <1>3, <1>4, ClientTypes DEF Files
<1>6. ClientTypeOK'
  BY <1>4, <1>5, ClientTypes DEF ClientTypeOK
<1>7. ClientStreams(c)
  BY <1>4, ClientTypes DEF connVars, ConnOK, ConnTypeOK, ClientStreams
<1> QED
  BY <1>1, <1>2, <1>3, <1>4, <1>5, <1>6, <1>7, ClientGoesOn

LEMMA StepPutShort ==
  ASSUME IInv, NEW c \in Clients, PutShort(c), UNCHANGED serverVars
  PROVE  IInv'
<1>1. copen[c]
  BY DEF PutShort, IInv, EveryEndOwned
<1>2. ClientStreams(c)
  BY ClientTypes DEF PutShort, connVars, ConnOK, ConnTypeOK, ClientStreams
<1>3. ClientMoves(c) /\ cpc'[c] = "prompt"
  BY ReturnFacts DEF PutShort
<1>4. slip' \in [Clients -> SUBSET {"sha", "localopen", "localread"}]
  BY ClientTypes DEF PutShort
<1> QED
  BY <1>1, <1>2, <1>3, <1>4, ReadsOn, ClientTypes DEF PutShort

LEMMA ShaStepFacts ==
  ASSUME IInv, NEW c \in Clients, NEW done \in Nat, NEW size \in Lengths,
         ShaStep(c, done, size)
  PROVE  /\ ClientMoves(c) /\ cpc'[c] \in {"shadata", "prompt"}
         /\ slip' \in [Clients -> SUBSET {"sha", "localopen", "localread"}]
<1>1. ClientMoves(c) /\ cpc'[c] \in {"shadata", "prompt"}
  BY CarryFacts DEF ShaStep
<1> QED
  BY <1>1, ClientTypes DEF ShaStep

LEMMA StepSha ==
  ASSUME IInv, NEW c \in Clients, ShaStart(c) \/ ShaPart(c), UNCHANGED serverVars
  PROVE  IInv'
<1>1. CASE ShaStart(c)
  <2> DEFINE size == (GotLength(c) - 1) % WORD
  <2>1. copen[c] /\ ClientTakes(c, HEADER_LENGTH) /\ size \in Lengths /\ ShaStep(c, 0, size)
    BY <1>1, RepliedFacts DEF ShaStart, Waiting
  <2> HIDE DEF size
  <2>2. ClientStreams(c)
    BY <1>1, <2>1, ClientReads, WordFacts, ClientTypes DEF ShaStart
  <2> QED
    BY <1>1, <2>1, <2>2, ShaStepFacts, ReadsOn, ClientTypes DEF ShaStart
<1>2. CASE ShaPart(c)
  <2>1. copen[c]
    BY <1>2 DEF ShaPart, IInv, EveryEndOwned
  <2>2. PICK n \in 1..Min({task[c].size - task[c].done, Len(toClient[c])}) :
          ClientTakes(c, n) /\ ShaStep(c, task[c].done + n, task[c].size)
    BY <1>2 DEF ShaPart
  <2>3. task[c].done + n \in Nat /\ task[c].size \in Lengths
    BY TransferTypes
  <2>4. ClientStreams(c)
    BY <1>2, <2>2, ClientReads, ClientTypes DEF ShaPart
  <2> QED
    BY <1>2, <2>1, <2>2, <2>3, <2>4, ShaStepFacts, ReadsOn, ClientTypes DEF ShaPart
<1> QED
  BY <1>1, <1>2

LEMMA ForgetFacts ==
  ASSUME IInv, NEW c \in Clients, Forget(c)
  PROVE  /\ where' \in [Clients -> Dirs]
         /\ slip' \in [Clients -> SUBSET {"sha", "localopen", "localread"}]
BY EnterAssumption, ClientTypes DEF Forget

\* A handler, or the process, ends with a close.
LEMMA Closes ==
  ASSUME IInv, NEW c \in Clients, ClientCloses(c), ClientMoves(c),
         cpc'[c] \in {"prompt", "exited", "killed"},
         UNCHANGED <<toServer, sopen, broken, local, serverVars>>,
         where' \in [Clients -> Dirs],
         slip' \in [Clients -> SUBSET {"sha", "localopen", "localread"}]
  PROVE  IInv'
<1>1. ClientTypeOK'
  BY ClientTypes DEF ClientMoves, ClientTypeOK
<1> QED
  BY <1>1, ClientHangsUp DEF ClientMoves

LEMMA StepGotQuit ==
  ASSUME IInv, NEW c \in Clients, GotQuit(c), UNCHANGED serverVars
  PROVE  IInv'
<1>1. ClientMoves(c) /\ cpc'[c] = "prompt"
  BY ReturnFacts DEF GotQuit
<1> QED
  BY <1>1, ForgetFacts, Closes DEF GotQuit

LEMMA StepFail ==
  ASSUME IInv, NEW c \in Clients, UNCHANGED serverVars,
         BadReply(c) \/ ReadFailed(c)
  PROVE  IInv'
<1>1. /\ Fail(c) /\ UNCHANGED <<toServer, sopen, broken, local>>
      /\ cpc[c] \in Waiting \cup Receiving
      /\ cpc[c] # "open" => \/ ClientTakes(c, HEADER_LENGTH)
                            \/ toClient' = [toClient EXCEPT ![c] = <<>>]
  BY DEF BadReply, ReadFailed
<1>2. ClientMoves(c) /\ cpc'[c] = "prompt"
  BY <1>1, ReturnFacts DEF Fail
<1>3. CASE cpc[c] = "open"
  BY <1>1, <1>2, <1>3, ForgetFacts, Closes DEF Fail
<1>4. CASE cpc[c] # "open"
  <2>1. copen[c] /\ UNCHANGED <<copen, where, slip>>
    BY <1>1, <1>4 DEF Fail, Waiting, Receiving, IInv, EveryEndOwned
  <2>2. ClientStreams(c)
    <3>1. CASE ClientTakes(c, HEADER_LENGTH)
      BY <1>1, <2>1, <3>1, ClientReads, WordFacts, ClientTypes
    <3>2. CASE toClient' = [toClient EXCEPT ![c] = <<>>]
      BY <1>1, <2>1, <3>2, CapAssumption, EmptySeq, ClientTypes
      DEF ConnOK, ConnTypeOK, ClientStreams
    <3> QED
      BY <1>1, <1>4, <3>1, <3>2
  <2> QED
    BY <1>1, <1>2, <2>1, <2>2, ReadsOn, ClientTypes
<1> QED
  BY <1>3, <1>4

LEMMA StepSendFailed ==
  ASSUME IInv, NEW c \in Clients, SendFailed(c), UNCHANGED serverVars
  PROVE  IInv'
<1>1. copen[c]
  BY DEF SendFailed, Writing, IInv, EveryEndOwned
<1>2. Rest(toClient[c], HEADER_LENGTH) \in Seq(Byte)
      /\ Len(Rest(toClient[c], HEADER_LENGTH)) <= Cap
  BY RestType, WordFacts, CapAssumption, ClientTypes DEF ConnOK
<1>3. ClientStreams(c)
  BY <1>2, ClientTypes DEF SendFailed, ConnOK, ConnTypeOK, ClientStreams
<1>4. ClientMoves(c) /\ cpc'[c] = "prompt"
  BY ReturnFacts DEF SendFailed
<1> QED
  BY <1>1, <1>3, <1>4, ReadsOn, ClientTypes DEF SendFailed

LEMMA StepEnd ==
  ASSUME IInv, NEW c \in Clients, UNCHANGED serverVars,
         BrokenPipeKills(c) \/ Exit(c) \/ Kill(c)
  PROVE  IInv'
<1>1. PICK how \in {"exited", "killed"} : End(c, how)
  BY DEF BrokenPipeKills, Exit, Kill
<1>2. ClientMoves(c) /\ cpc'[c] = how
  BY <1>1, BareTransfer, WordFacts, ClientTypes
  DEF End, Move, ClientMoves, ClientPlaces
<1> QED
  BY <1>1, <1>2, Closes, ClientTypes DEF End

LEMMA StepClient ==
  ASSUME IInv, NEW c \in Clients, UNCHANGED serverVars,
         Program(c) \/ User(c) \/ Kill(c) \/ Shorten(c)
  PROVE  IInv'
BY StepCommand, StepGotOpen, StepGotList, StepListPart, StepGotCd, StepGotFile,
   StepGetStart, StepGetUnopened, StepGetPart, StepGotPut, StepPutPart,
   StepPutShort, StepShorten, StepSha, StepGotQuit, StepFail, StepSendFailed,
   StepEnd
DEF Program, User, GotGet, GotSha

-----------------------------------------------------------------------------
(* A connection opens.                                                     *)
LEMMA StepDial ==
  ASSUME IInv, NEW c \in Clients, Dial(c)
  PROVE  IInv'
<1> DEFINE request == HeaderBytes(Create(OPEN_CONN_REQUEST, 0, 0))
<1>1. request \in Seq(Byte) /\ Len(request) <= Cap
  <2>1. OPEN_CONN_REQUEST \in Kinds
    BY DEF Kinds, Requests
  <2> QED
    BY <2>1, CreateType, HeaderBytesType, CapAssumption
<1>2. /\ copen' = [copen EXCEPT ![c] = TRUE] /\ sopen' = [sopen EXCEPT ![c] = TRUE]
      /\ toServer' = [toServer EXCEPT ![c] = request]
      /\ toClient' = [toClient EXCEPT ![c] = <<>>]
      /\ broken' = [broken EXCEPT ![c] = FALSE]
  BY DEF Dial, Open, Connect
<1> HIDE DEF request
<1>3. /\ cpc[c] = "prompt" /\ cpc' = [cpc EXCEPT ![c] = "open"]
      /\ told' = [told EXCEPT ![c] = "none"] /\ task' = [task EXCEPT ![c] = NoTransfer]
      /\ UNCHANGED <<local, where, slip>>
  BY DEF Dial, Open, Move
<1>4. /\ up /\ spc[c] = "none" /\ spc' = [spc EXCEPT ![c] = "backlog"]
      /\ UNCHANGED <<up, files, cwd, job>>
  BY DEF Dial, Backlog, Goto
<1>5. TypeOK'
  <2>1. ConnTypeOK' /\ \A e \in Clients : Len(toServer'[e]) <= Cap /\ Len(toClient'[e]) <= Cap
    BY <1>1, <1>2, EmptySeq, CapAssumption, ClientTypes DEF ConnOK, ConnTypeOK
  <2>2. ClientTypeOK'
    BY <1>3, BareTransfer, WordFacts, ClientTypes DEF ClientTypeOK, ClientPlaces, Waiting
  <2>3. ServerTypeOK'
    BY <1>4 DEF IInv, TypeOK, ServerTypeOK, ServerPlaces
  <2> QED
    BY <2>1, <2>2, <2>3 DEF TypeOK
<1>6. EveryEndOwned'
  BY <1>2, <1>3, <1>4 DEF IInv, EveryEndOwned, TypeOK, ConnTypeOK, ClientTypeOK, ServerTypeOK
<1>7. TaskNamed'
  BY <1>3, ClientTypes DEF IInv, TaskNamed
<1>8. JobNamed'
  BY <1>4 DEF IInv, JobNamed, Path, TypeOK, ServerTypeOK
<1> QED
  BY <1>5, <1>6, <1>7, <1>8 DEF IInv

-----------------------------------------------------------------------------
LEMMA InitIInv == Init => IInv
<1> SUFFICES ASSUME Init PROVE IInv
  OBVIOUS
<1> USE DEF Init, ConnInit, ServerInit, ClientInit
<1>1. NoTransfer \in Transfers
  BY BareTransfer, WordFacts
<1>2. TypeOK
  <2>1. ConnTypeOK /\ \A c \in Clients : Len(toServer[c]) <= Cap /\ Len(toClient[c]) <= Cap
    BY EmptySeq, CapAssumption DEF ConnTypeOK
  <2>2. ServerTypeOK
    BY <1>1, TreeAssumption, EnterAssumption DEF ServerTypeOK, ServerPlaces
  <2>3. ClientTypeOK
    BY <1>1, OwnAssumption, EnterAssumption DEF ClientTypeOK, ClientPlaces
  <2> QED
    BY <2>1, <2>2, <2>3 DEF TypeOK
<1>3. EveryEndOwned
  BY DEF EveryEndOwned
<1>4. TaskNamed /\ JobNamed
  BY DEF TaskNamed, JobNamed
<1> QED
  BY <1>2, <1>3, <1>4 DEF IInv

LEMMA StepIInv == IInv /\ [Next]_vars => IInv'
<1> SUFFICES ASSUME IInv, [Next]_vars PROVE IInv'
  OBVIOUS
<1>1. CASE UNCHANGED vars
  BY <1>1 DEF vars, connVars, serverVars, clientVars, IInv, TypeOK, ConnTypeOK,
     ServerTypeOK, ClientTypeOK, EveryEndOwned, TaskNamed, JobNamed, Path
<1>2. ASSUME NEW c \in Clients, Dial(c) \/ ServerStep(c) \/ ClientStep(c)
                                \/ UserStep(c) \/ FaultStep(c)
      PROVE  IInv'
  <2>1. CASE Dial(c)
    BY <2>1, StepDial
  <2>2. CASE ServerStep(c)
    BY <2>2, StepThread DEF Acts, ServerStep
  <2>3. CASE ClientStep(c) \/ UserStep(c)
    BY <2>3, StepClient DEF ClientStep, UserStep
  <2>4. CASE FaultStep(c)
    BY <2>4, StepThread, StepClient DEF Acts, FaultStep
  <2> QED
    BY <1>2, <2>1, <2>2, <2>3, <2>4
<1> QED
  BY <1>1, <1>2 DEF Next

LEMMA Invariant == Spec => []IInv
<1> QED
  BY InitIInv, StepIInv, PTL DEF Spec

(***************************************************************************)
(* Every byte, length, file, directory and place of the two programs is    *)
(* one of its type, whatever arrives in whatever order, and no stream ever *)
(* holds more than it can.                                                 *)
(***************************************************************************)
THEOREM TypeCorrect == Spec => []TypeOK
<1>1. IInv => TypeOK
  BY DEF IInv
<1> QED
  BY <1>1, Invariant, PTL

(***************************************************************************)
(* Whatever goes wrong, a handler's end of the connection is closed with   *)
(* it and never before, and nothing of a connection is left to the next:   *)
(* no descriptor leaks and no thread serves a closed one.                  *)
(***************************************************************************)
THEOREM EndsOwned == Spec => []EveryEndOwned
<1>1. IInv => EveryEndOwned
  BY DEF IInv
<1> QED
  BY <1>1, Invariant, PTL
=============================================================================
