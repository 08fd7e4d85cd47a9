---------------------------- MODULE FtpStepProofs ----------------------------
(***************************************************************************)
(* A client and its thread stay in step until one of the three slips, for  *)
(* any number of clients and any files, streams and blocks.                *)
(***************************************************************************)
EXTENDS FtpProofs

(* Every length fits its field: 2^32 bytes in the code, and a file of that *)
(* size is announced with a wrong length (ftp_server.cpp:187).             *)
Short(file) == HEADER_LENGTH + Len(file) < WORD

LengthsFit ==
  /\ HEADER_LENGTH + 2 < WORD
  /\ \A out \in Outputs : HEADER_LENGTH + Len(out) + 1 < WORD
  /\ \A path \in Dirs \X Names : Tree[path] \in Seq(Byte) => Short(Tree[path])
  /\ \A c \in Clients, name \in Names : Own[c][name] \in Seq(Byte) => Short(Own[c][name])

-----------------------------------------------------------------------------
(* Sizes, whether in step or not.                                          *)

FilesShort ==
  /\ \A path \in Dirs \X Names : files[path] \in Seq(Byte) => Short(files[path])
  /\ \A c \in Clients, name \in Names : local[c][name] \in Seq(Byte) => Short(local[c][name])

JobSizes ==
  \A c \in Clients : spc[c] \in {"getdata", "putdata"} =>
    job[c].done < job[c].size /\ HEADER_LENGTH + job[c].size < WORD

TaskSizes ==
  \A c \in Clients :
    /\ cpc[c] \in Waiting => task[c].done = 0
    /\ cpc[c] \in Receiving \cup {"putdata"} => task[c].done < task[c].size
    /\ cpc[c] \in {"put", "putdata", "getdata"} => HEADER_LENGTH + task[c].size < WORD
    /\ cpc[c] = "put" => task[c].size = Len(local[c][task[c].name])
    /\ cpc[c] = "getdata" => task[c].done = Len(local[c][task[c].name])

Sizes == FilesShort /\ JobSizes /\ TaskSizes

-----------------------------------------------------------------------------
(* In step.                                                                *)

Front(stream, kind) == HeadReady(stream) /\ Is(kind, ReadHead(stream))

\* The bytes of a request, as the client's handlers send them.
Requested == [
  open |-> OPEN_CONN_REQUEST, ls |-> LIST_REQUEST, cd |-> CHANGE_DIR_REQUEST,
  get |-> GET_REQUEST, put |-> PUT_REQUEST, sha |-> SHA_REQUEST, quit |-> QUIT_REQUEST]

RequestBytes(c) ==
  IF cpc[c] \in {"open", "ls", "quit"}
  THEN HeaderBytes(Create(Requested[cpc[c]], 0, 0))
  ELSE HeaderBytes(Create(Requested[cpc[c]], 0, 1)) \o Payload(<<task[c].name, NUL>>)

\* The thread takes what it wants of an upload before anything else.
Uploading(c) ==
  /\ spc[c] \in {"head", "puthead", "putdata"}
  /\ spc[c] = "puthead" => Front(toServer[c], File_DATA)

Unsent(c) == IF cpc[c] = "putdata" THEN task[c].size - task[c].done ELSE 0

\* The client waits for nothing.
Quiet(c) ==
  /\ cpc[c] \in {"prompt", "putdata"} /\ toClient[c] = <<>>
  /\ Uploading(c) /\ Len(toServer[c]) + Unsent(c) = Wanted(c)

\* Its request is under way, behind the rest of an upload.
Asked(c) ==
  /\ cpc[c] \in DOMAIN Requested /\ toClient[c] = <<>>
  /\ Uploading(c) \/ (cpc[c] = "open" /\ spc[c] = "backlog")
  /\ Wanted(c) <= Len(toServer[c])
  /\ Rest(toServer[c], Wanted(c)) = RequestBytes(c)

\* A file or an SHA value from its header on.
FileComes(c, stream) ==
  \/ spc[c] = "getopen" /\ stream = <<>>
  \/ /\ spc[c] \in {"getdata", "head"} /\ Front(stream, File_DATA)
     /\ Len(stream) + Owed(c) = ReadHead(stream).length

ShaComes(c, stream) ==
  \/ spc[c] = "sha" /\ stream = <<>>
  \/ /\ spc[c] = "head" /\ Front(stream, File_DATA)
     /\ Len(stream) = ReadHead(stream).length /\ HEADER_LENGTH < Len(stream)

\* Its reply is under way, or what follows it, and nothing else.
Answered(c) ==
  LET stream == toClient[c]
      found  == ReadHead(stream).status = 1
  IN
  /\ toServer[c] = <<>>
  /\ cpc[c] \in {"open", "ls", "cd", "get", "put", "sha"} => Front(stream, Expected[cpc[c]])
  /\ CASE cpc[c] \in {"open", "cd"} -> spc[c] = "head" /\ Len(stream) = HEADER_LENGTH
       [] cpc[c] = "put"     -> spc[c] = "puthead" /\ Len(stream) = HEADER_LENGTH
       [] cpc[c] = "ls"      -> spc[c] = "head" /\ Len(stream) = ReadHead(stream).length
       [] cpc[c] = "get"     -> IF found THEN FileComes(c, Rest(stream, HEADER_LENGTH))
                                ELSE spc[c] = "head" /\ Len(stream) = HEADER_LENGTH
       [] cpc[c] = "sha"     -> IF found THEN ShaComes(c, Rest(stream, HEADER_LENGTH))
                                ELSE spc[c] = "head" /\ Len(stream) = HEADER_LENGTH
       [] cpc[c] = "gethead" -> FileComes(c, stream)
       [] cpc[c] = "shahead" -> ShaComes(c, stream)
       [] cpc[c] = "lsdata"  -> spc[c] = "head" /\ Len(stream) = task[c].size - task[c].done
       [] cpc[c] = "getdata" -> /\ spc[c] \in {"getdata", "head"}
                                /\ Len(stream) + Owed(c) = task[c].size - task[c].done
       [] cpc[c] = "shadata" -> spc[c] = "head" /\ Len(stream) = task[c].size - task[c].done + 1
       [] OTHER              -> FALSE

InStepAt(c) == Whole(c) => Quiet(c) \/ Asked(c) \/ Answered(c)

InStep == \A c \in Clients : InStepAt(c)

StepInv == IInv /\ Sizes /\ InStep

-----------------------------------------------------------------------------
(* Streams.                                                                *)

LEMMA RestFacts ==
  ASSUME NEW s \in Seq(Byte), NEW n \in Nat, n <= Len(s)
  PROVE  /\ Rest(s, n) \in Seq(Byte) /\ Len(Rest(s, n)) = Len(s) - n
         /\ \A i \in 1..(Len(s) - n) : Rest(s, n)[i] = s[n + i]
BY SMT DEF Rest

\* How much of an upload was sent, n, when its head was read, and when it was not.
LEMMA AheadOfStored ==
  ASSUME NEW c \in Clients, NEW n \in Nat, Len(toServer[c]) \in Nat,
         job[c].size \in Nat, job[c].done \in Nat,
         \/ n + (job[c].size - job[c].done) = job[c].size + Len(toServer[c])
         \/ Len(toServer[c]) + (job[c].size - n) = job[c].size - job[c].done
  PROVE  n = job[c].done + Len(toServer[c])
BY SMTT(30)

LEMMA AheadOfHead ==
  ASSUME NEW c \in Clients, NEW n \in Nat, Len(toServer[c]) \in Nat, HEADER_LENGTH \in Nat,
         ReadHead(toServer[c]).length \in Nat,
         \/ n + ReadHead(toServer[c]).length
              = (ReadHead(toServer[c]).length - HEADER_LENGTH) + Len(toServer[c])
         \/ Len(toServer[c]) + ((ReadHead(toServer[c]).length - HEADER_LENGTH) - n)
              = ReadHead(toServer[c]).length
  PROVE  n = Len(toServer[c]) - HEADER_LENGTH
OBVIOUS

LEMMA RestAll ==
  ASSUME NEW s \in Seq(Byte)
  PROVE  Rest(s, 0) = s /\ Rest(s, Len(s)) = <<>>
<1>1. Rest(s, 0) = s
  <2>1. Rest(s, 0) \in Seq(Byte) /\ Len(Rest(s, 0)) = Len(s)
        /\ \A i \in 1..Len(s) : Rest(s, 0)[i] = s[i]
    BY RestFacts
  <2> QED
    BY <2>1, SeqEqual
<1>2. Rest(s, Len(s)) = <<>>
  BY RestFacts, EmptySeq
<1> QED
  BY <1>1, <1>2

LEMMA RestRest ==
  ASSUME NEW s \in Seq(Byte), NEW n \in Nat, NEW m \in Nat, n + m <= Len(s)
  PROVE  Rest(Rest(s, n), m) = Rest(s, n + m)
<1> DEFINE t == Rest(s, n)
<1>0. n <= Len(s)
  OBVIOUS
<1>1. t \in Seq(Byte) /\ Len(t) = Len(s) - n /\ \A i \in 1..(Len(s) - n) : t[i] = s[n + i]
  BY <1>0, RestFacts
<1> HIDE DEF t
<1>2. /\ Rest(t, m) \in Seq(Byte) /\ Len(Rest(t, m)) = Len(s) - (n + m)
      /\ \A i \in 1..(Len(s) - (n + m)) : Rest(t, m)[i] = t[m + i]
  <2>1. Len(t) = Len(s) - n /\ Len(s) \in Nat /\ t \in Seq(Byte)
    BY <1>1
  <2>2. m <= Len(t) /\ Len(t) - m = Len(s) - (n + m)
    BY <2>1
  <2>3. /\ Rest(t, m) \in Seq(Byte) /\ Len(Rest(t, m)) = Len(t) - m
        /\ \A i \in 1..(Len(t) - m) : Rest(t, m)[i] = t[m + i]
    <3> HIDE <2>1, <2>2
    <3>1. t \in Seq(Byte) /\ m \in Nat /\ m <= Len(t)
      BY <2>1, <2>2
    <3> QED
      BY <3>1, RestFacts
  <2> QED
    BY <2>2, <2>3
<1>3. /\ Rest(s, n + m) \in Seq(Byte) /\ Len(Rest(s, n + m)) = Len(s) - (n + m)
      /\ \A i \in 1..(Len(s) - (n + m)) : Rest(s, n + m)[i] = s[(n + m) + i]
  BY RestFacts
<1>4. \A i \in 1..(Len(s) - (n + m)) : Rest(t, m)[i] = Rest(s, n + m)[i]
  BY <1>1, <1>2, <1>3
<1> QED
  BY <1>2, <1>3, <1>4, SeqEqual DEF t

LEMMA RestAppend ==
  ASSUME NEW s \in Seq(Byte), NEW t \in Seq(Byte), NEW n \in Nat, n <= Len(s)
  PROVE  Rest(s \o t, n) = Rest(s, n) \o t
<1>1. /\ s \o t \in Seq(Byte) /\ Len(s \o t) = Len(s) + Len(t)
      /\ \A i \in 1..(Len(s) + Len(t)) :
           (s \o t)[i] = IF i <= Len(s) THEN s[i] ELSE t[i - Len(s)]
  BY ConcatProperties
<1>2. /\ Rest(s, n) \in Seq(Byte) /\ Len(Rest(s, n)) = Len(s) - n
      /\ \A i \in 1..(Len(s) - n) : Rest(s, n)[i] = s[n + i]
  BY RestFacts
<1> DEFINE left == Rest(s \o t, n)
           right == Rest(s, n) \o t
<1>3. /\ left \in Seq(Byte) /\ Len(left) = Len(s) - n + Len(t)
      /\ \A i \in 1..(Len(s) - n + Len(t)) : left[i] = (s \o t)[n + i]
  <2> DEFINE u == s \o t
  <2>1. u \in Seq(Byte) /\ n <= Len(u) /\ Len(u) - n = Len(s) - n + Len(t)
    BY <1>1
  <2> HIDE DEF u
  <2>2. /\ Rest(u, n) \in Seq(Byte) /\ Len(Rest(u, n)) = Len(u) - n
        /\ \A i \in 1..(Len(u) - n) : Rest(u, n)[i] = u[n + i]
    BY <2>1, RestFacts
  <2> QED
    BY <2>1, <2>2 DEF u
<1>4. /\ right \in Seq(Byte) /\ Len(right) = Len(s) - n + Len(t)
      /\ \A i \in 1..(Len(s) - n + Len(t)) :
           right[i] = IF i <= Len(s) - n THEN Rest(s, n)[i] ELSE t[i - (Len(s) - n)]
  <2> DEFINE u == Rest(s, n)
  <2>1. u \in Seq(Byte) /\ Len(u) = Len(s) - n
    BY <1>2
  <2> HIDE DEF u
  <2>2. /\ u \o t \in Seq(Byte) /\ Len(u \o t) = Len(u) + Len(t)
        /\ \A i \in 1..(Len(u) + Len(t)) :
             (u \o t)[i] = IF i <= Len(u) THEN u[i] ELSE t[i - Len(u)]
    BY <2>1, ConcatProperties
  <2> QED
    BY <2>1, <2>2 DEF u
<1> HIDE DEF left, right
<1>5. ASSUME NEW i \in 1..(Len(s) - n + Len(t)) PROVE left[i] = right[i]
  <2>1. left[i] = (s \o t)[n + i] /\ n + i \in 1..(Len(s) + Len(t))
    BY <1>3
  <2>2. left[i] = IF n + i <= Len(s) THEN s[n + i] ELSE t[n + i - Len(s)]
    BY <1>1, <2>1
  <2>3. CASE i <= Len(s) - n
    BY <1>2, <1>4, <2>2, <2>3
  <2>4. CASE ~(i <= Len(s) - n)
    <3>1. right[i] = t[i - (Len(s) - n)] /\ left[i] = t[n + i - Len(s)]
      BY <1>4, <2>2, <2>4
    <3>2. i - (Len(s) - n) = n + i - Len(s)
      OBVIOUS
    <3> QED
      BY <3>1, <3>2
  <2> QED
    BY <2>3, <2>4
<1> QED
  BY <1>3, <1>4, <1>5, SeqEqual DEF left, right

\* What is sent behind a header changes nothing of how it is read.
LEMMA HeadAppend ==
  ASSUME NEW s \in Seq(Byte), NEW t \in Seq(Byte), HeadReady(s)
  PROVE  HeadReady(s \o t) /\ ReadHead(s \o t) = ReadHead(s)
<1>1. /\ s \o t \in Seq(Byte) /\ Len(s \o t) = Len(s) + Len(t)
      /\ \A i \in 1..(Len(s) + Len(t)) :
           (s \o t)[i] = IF i <= Len(s) THEN s[i] ELSE t[i - Len(s)]
  BY ConcatProperties
<1>2. HEADER_LENGTH \in Nat \ {0} /\ HEADER_LENGTH <= Len(s)
  BY WordFacts DEF HeadReady
<1>3. HeadReady(s \o t)
  BY <1>1, <1>2 DEF HeadReady
<1>4. \A i \in 1..HEADER_LENGTH : (s \o t)[i] = s[i]
  BY <1>1, <1>2
<1>5. (s \o t)[1] = s[1]
  BY <1>2, <1>4
<1> QED
  BY <1>3, <1>4, <1>5 DEF ReadHead

LEMMA HeadOfHeader ==
  ASSUME NEW header \in HeaderType, NEW t \in Seq(Byte)
  PROVE  LET s == HeaderBytes(header) \o t
         IN  /\ s \in Seq(Byte) /\ Len(s) = HEADER_LENGTH + Len(t)
             /\ HeadReady(s) /\ ReadHead(s) = header /\ Rest(s, HEADER_LENGTH) = t
<1> DEFINE h == HeaderBytes(header)
<1>1. h \in Seq(Byte) /\ Len(h) = HEADER_LENGTH
  BY HeaderBytesType
<1>2. \A i \in 1..HEADER_LENGTH : h[i] = [at |-> i, of |-> header]
  BY DEF HeaderBytes
<1> HIDE DEF h
<1>3. HeadReady(h) /\ ReadHead(h) = header
  <2>1. h[1] = [at |-> 1, of |-> header] /\ h[1].of = header
    BY SMTT(30), <1>2, WordFacts
  <2>2. \A i \in 1..HEADER_LENGTH : h[i] = [at |-> i, of |-> h[1].of]
    BY <1>2, <2>1
  <2>3. ReadHead(h) = h[1].of
    BY <2>2 DEF ReadHead
  <2> QED
    BY <1>1, <2>1, <2>3, WordFacts DEF HeadReady
<1>4. Rest(h \o t, HEADER_LENGTH) = t
  <2>1. Rest(h, Len(h)) = <<>>
    BY <1>1, RestAll
  <2>2. Rest(h \o t, HEADER_LENGTH) = Rest(h, HEADER_LENGTH) \o t
    BY <1>1, RestAppend, WordFacts
  <2>3. Rest(h \o t, HEADER_LENGTH) = <<>> \o t
    BY <1>1, <2>1, <2>2
  <2> QED
    BY <2>3, ConcatEmptySeq
<1> QED
  BY <1>1, <1>3, <1>4, HeadAppend, ConcatProperties DEF h

LEMMA FrontAppend ==
  ASSUME NEW s \in Seq(Byte), NEW t \in Seq(Byte), NEW kind, Front(s, kind)
  PROVE  Front(s \o t, kind) /\ ReadHead(s \o t) = ReadHead(s)
BY HeadAppend DEF Front

-----------------------------------------------------------------------------
(* Kinds.                                                                  *)

LEMMA RequestedKinds ==
  /\ DOMAIN Requested = {"open", "ls", "cd", "get", "put", "sha", "quit"}
  /\ Requested["open"] = OPEN_CONN_REQUEST /\ Requested["ls"] = LIST_REQUEST
  /\ Requested["cd"] = CHANGE_DIR_REQUEST /\ Requested["get"] = GET_REQUEST
  /\ Requested["put"] = PUT_REQUEST /\ Requested["sha"] = SHA_REQUEST
  /\ Requested["quit"] = QUIT_REQUEST
BY DEF Requested

LEMMA ExpectedKinds ==
  /\ Expected["open"] = OPEN_CONN_REPLY /\ Expected["ls"] = LIST_REPLY
  /\ Expected["cd"] = CHANGE_DIR_REPLY /\ Expected["get"] = GET_REPLY
  /\ Expected["gethead"] = File_DATA /\ Expected["put"] = PUT_REPLY
  /\ Expected["sha"] = SHA_REPLY /\ Expected["shahead"] = File_DATA
  /\ Expected["quit"] = QUIT_REPLY
BY DEF Expected

\* A request names the command it was sent for.
LEMMA RequestNames ==
  ASSUME NEW place \in DOMAIN Requested, NEW other \in DOMAIN Requested,
         Requested[place] = Requested[other]
  PROVE  place = other
<1>1. Requested[place].type = Requested[other].type
  OBVIOUS
<1> QED
  BY <1>1, RequestedKinds, Types

\* The headers that need no more than themselves.
LEMMA BareSent ==
  ASSUME NEW kind \in Kinds, kind.bare, NEW status \in {0, 1}, status \in kind.statuses
  PROVE  LET header == Create(kind, status, 0)
         IN  /\ header \in HeaderType /\ Is(kind, header)
             /\ header.length = HEADER_LENGTH /\ header.status = status
<1>1. kind.nul = 0
  BY DEF Kinds, Requests, Replies, Bare, WithPayload, OPEN_CONN_REQUEST,
    OPEN_CONN_REPLY, LIST_REQUEST, LIST_REPLY, CHANGE_DIR_REQUEST,
    CHANGE_DIR_REPLY, GET_REQUEST, GET_REPLY, PUT_REQUEST, PUT_REPLY,
    SHA_REQUEST, SHA_REPLY, QUIT_REQUEST, QUIT_REPLY, File_DATA
<1>2. Create(kind, status, 0) \in HeaderType
  BY CreateType
<1>3. (HEADER_LENGTH + 0 + kind.nul) % WORD = HEADER_LENGTH
  BY <1>1, ModSmall, HeaderAssumption, WordAssumption
<1> QED
  BY <1>2, <1>3 DEF Create, Is

LEMMA BareKinds ==
  /\ \A kind \in {OPEN_CONN_REQUEST, LIST_REQUEST, QUIT_REQUEST, PUT_REPLY, QUIT_REPLY} :
       kind \in Kinds /\ kind.bare /\ 0 \in kind.statuses
  /\ \A kind \in {CHANGE_DIR_REPLY, GET_REPLY, SHA_REPLY} :
       kind \in Kinds /\ kind.bare /\ kind.statuses = {0, 1}
  /\ OPEN_CONN_REPLY \in Kinds /\ OPEN_CONN_REPLY.bare /\ 1 \in OPEN_CONN_REPLY.statuses
<1>1. 0 \in AnyStatus
  BY DEF AnyStatus
<1> QED
  BY <1>1 DEF Bare, Kinds, Requests, Replies, OPEN_CONN_REQUEST, LIST_REQUEST, QUIT_REQUEST,
     PUT_REPLY, CHANGE_DIR_REPLY, GET_REPLY, SHA_REPLY, OPEN_CONN_REPLY, QUIT_REPLY

\* A text goes with a header that announces it, and so do data.
LEMMA TextSent ==
  ASSUME NEW kind \in TextKinds, NEW n \in Nat, HEADER_LENGTH + n + 1 < WORD
  PROVE  LET header == Create(kind, 0, n)
         IN  /\ header \in HeaderType /\ Is(kind, header)
             /\ header.length = HEADER_LENGTH + n + 1
<1>1. kind \in Kinds /\ kind.nul = 1
  BY DEF TextKinds, Kinds, Requests, Replies, WithPayload, LIST_REPLY, CHANGE_DIR_REQUEST,
         GET_REQUEST, PUT_REQUEST, SHA_REQUEST
<1>2. Create(kind, 0, n) \in HeaderType
  BY <1>1, CreateType
<1>3. Is(kind, Create(kind, 0, n))
  <2>1. 0 \in AnyStatus
    BY DEF AnyStatus
  <2> QED
    BY <2>1, TextAnnounced
<1>4. HEADER_LENGTH + n + kind.nul \in Nat /\ HEADER_LENGTH + n + kind.nul < WORD
  BY <1>1, HeaderAssumption, WordAssumption
<1> QED
  BY <1>1, <1>2, <1>3, <1>4, ModSmall DEF Create

LEMMA DataSent ==
  ASSUME NEW n \in Nat, HEADER_LENGTH + n < WORD
  PROVE  LET header == Create(File_DATA, 0, n)
         IN  /\ header \in HeaderType /\ Is(File_DATA, header)
             /\ header.length = HEADER_LENGTH + n
<1>1. File_DATA \in Kinds /\ File_DATA.nul = 0 /\ ~File_DATA.bare
      /\ File_DATA.statuses = AnyStatus /\ 0 \in AnyStatus
  BY DEF Kinds, WithPayload, File_DATA, AnyStatus
<1>2. Create(File_DATA, 0, n) \in HeaderType
  BY <1>1, CreateType
<1>3. (HEADER_LENGTH + n + File_DATA.nul) % WORD = HEADER_LENGTH + n
  BY <1>1, ModSmall, HeaderAssumption, WordAssumption
<1> QED
  BY <1>1, <1>2, <1>3, HeaderAssumption DEF Create, Is

\* What a reader takes for the length of what follows is the length of it.
LEMMA LengthRead ==
  ASSUME NEW header \in HeaderType, HEADER_LENGTH <= header.length
  PROVE  /\ header.length \in Nat /\ header.length < WORD
         /\ PayloadLength(header) = header.length - HEADER_LENGTH
<1>1. header.length \in Nat /\ header.length < WORD
  BY WordAssumption DEF HeaderType, Lengths
<1>2. header.length - HEADER_LENGTH \in Nat /\ header.length - HEADER_LENGTH < WORD
  BY <1>1, HeaderAssumption, WordAssumption
<1> QED
  BY <1>1, <1>2, ModSmall DEF PayloadLength

-----------------------------------------------------------------------------
(* Requests.                                                               *)

LEMMA LengthsFacts ==
  ASSUME LengthsFit
  PROVE  /\ HEADER_LENGTH + 1 + 1 < WORD
         /\ \A out \in Outputs : HEADER_LENGTH + Len(out) + 1 < WORD
BY WordFacts DEF LengthsFit

\* What a client sends is one request, and its name behind it.
LEMMA RequestFormed ==
  ASSUME LengthsFit, IInv, NEW c \in Clients, cpc[c] \in DOMAIN Requested
  PROVE  LET s == RequestBytes(c)
         IN  /\ s \in Seq(Byte) /\ HeadReady(s) /\ s # <<>>
             /\ Is(Requested[cpc[c]], ReadHead(s)) /\ ReadHead(s).length = Len(s)
             /\ cpc[c] \in {"cd", "get", "put", "sha"} =>
                  s[HEADER_LENGTH + 1] = [at |-> 0, of |-> task[c].name]
<1> DEFINE kind == Requested[cpc[c]]
<1>1. CASE cpc[c] \in {"open", "ls", "quit"}
  <2> DEFINE header == Create(kind, 0, 0)
  <2>1. header \in HeaderType /\ Is(kind, header) /\ header.length = HEADER_LENGTH
    <3>1. kind \in Kinds /\ kind.bare /\ 0 \in kind.statuses
      BY <1>1, RequestedKinds, BareKinds
    <3> HIDE DEF kind
    <3> QED
      BY <3>1, BareSent
  <2>2. RequestBytes(c) = HeaderBytes(header)
    BY <1>1 DEF RequestBytes
  <2> HIDE DEF header, kind
  <2>3. HeaderBytes(header) \o <<>> = HeaderBytes(header) /\ <<>> \in Seq(Byte) /\ Len(<<>>) = 0
    BY <2>1, HeaderBytesType, ConcatEmptySeq, EmptySeq
  <2>4. LET s == HeaderBytes(header) \o <<>>
        IN  s \in Seq(Byte) /\ Len(s) = HEADER_LENGTH + Len(<<>>) /\ HeadReady(s)
            /\ ReadHead(s) = header
    BY <2>1, <2>3, HeadOfHeader
  <2>5. RequestBytes(c) # <<>>
    BY <2>2, <2>3, <2>4, WordFacts, EmptySeq
  <2> QED
    BY <1>1, <2>1, <2>2, <2>3, <2>4, <2>5, WordFacts DEF kind
<1>2. CASE cpc[c] \in {"cd", "get", "put", "sha"}
  <2> DEFINE header == Create(kind, 0, 1)
             text == Payload(<<task[c].name, NUL>>)
  <2>1. header \in HeaderType /\ Is(kind, header) /\ header.length = HEADER_LENGTH + 1 + 1
    <3>1. kind \in TextKinds
      BY <1>2, RequestedKinds DEF TextKinds
    <3> HIDE DEF kind
    <3> QED
      BY <3>1, TextSent, LengthsFacts
  <2>2. RequestBytes(c) = HeaderBytes(header) \o text
    BY <1>2 DEF RequestBytes
  <2>3. text \in Seq(Byte) /\ Len(text) = 2 /\ text[1] = [at |-> 0, of |-> task[c].name]
    <3>1. task[c].name \in Names
      BY <1>2 DEF IInv, TaskNamed
    <3>2. <<task[c].name, NUL>> \in Seq(Values) /\ Len(<<task[c].name, NUL>>) = 2
          /\ DOMAIN <<task[c].name, NUL>> = 1..2
      BY <3>1, ValuesAssumption
    <3>3. text \in Seq(Byte) /\ Len(text) = 2
      BY <3>2, PayloadType
    <3>4. text[1] = [at |-> 0, of |-> task[c].name]
      BY <3>2 DEF Payload
    <3> QED
      BY <3>3, <3>4
  <2> HIDE DEF header, kind, text
  <2>4. LET s == HeaderBytes(header) \o text
        IN  s \in Seq(Byte) /\ Len(s) = HEADER_LENGTH + Len(text) /\ HeadReady(s)
            /\ ReadHead(s) = header
    BY <2>1, <2>3, HeadOfHeader
  <2>5. (HeaderBytes(header) \o text)[HEADER_LENGTH + 1] = text[1]
    <3> DEFINE h == HeaderBytes(header)
    <3>1. h \in Seq(Byte) /\ Len(h) = HEADER_LENGTH
      BY <2>1, HeaderBytesType
    <3> HIDE DEF h

    <3> DEFINE i == HEADER_LENGTH + 1
    <3>3. \A k \in 1..(Len(h) + Len(text)) :
            (h \o text)[k] = IF k <= Len(h) THEN h[k] ELSE text[k - Len(h)]
      BY <2>3, <3>1, ConcatProperties
    <3>4. i \in 1..(Len(h) + Len(text)) /\ ~(i <= Len(h)) /\ i - Len(h) = 1
      BY <2>3, <3>1, WordFacts
    <3> HIDE DEF i
    <3>5. (h \o text)[i] = text[i - Len(h)]
      BY <3>3, <3>4
    <3> QED
      BY <3>4, <3>5 DEF h, i
  <2>6. RequestBytes(c) # <<>>
    BY <2>2, <2>3, <2>4, WordFacts, EmptySeq
  <2> QED
    BY <2>1, <2>2, <2>3, <2>4, <2>5, <2>6, WordFacts DEF kind
<1> QED
  BY <1>1, <1>2, RequestedKinds

LEMMA UnsentType ==
  ASSUME IInv, TaskSizes, NEW c \in Clients
  PROVE  Unsent(c) \in Nat
<1>1. task[c].size \in Nat /\ task[c].done \in Nat
  BY TransferTypes
<1>2. cpc[c] = "putdata" => task[c].done < task[c].size
  BY DEF TaskSizes
<1> QED
  BY <1>1, <1>2 DEF Unsent

\* A thread in step that meets a request meets the one its client waits on.
LEMMA RequestMet ==
  ASSUME LengthsFit, IInv, TaskSizes, NEW c \in Clients, InStepAt(c), Whole(c),
         NEW kind \in Requests, Request(c, kind)
  PROVE  /\ cpc[c] \in DOMAIN Requested /\ kind = Requested[cpc[c]]
         /\ toClient[c] = <<>> /\ toServer[c] = RequestBytes(c)
         /\ Rest(toServer[c], RequestLength(c)) = <<>>
         /\ cpc[c] \in {"cd", "get", "put", "sha"} => NameOf(c) = task[c].name
<1>1. /\ spc[c] = "head" /\ HeadReady(toServer[c]) /\ Is(kind, ReadHead(toServer[c]))
      /\ toServer[c] \in Seq(Byte)
  BY DEF Request, IInv, TypeOK, ConnTypeOK
<1>2. Wanted(c) = 0
  BY <1>1 DEF Wanted
<1>3. Len(toServer[c]) >= HEADER_LENGTH /\ toServer[c] # <<>>
  BY <1>1, WordFacts, EmptySeq DEF HeadReady
<1>4. ~Answered(c)
  BY <1>3 DEF Answered
<1>5. ~Quiet(c)
  <2>1. Unsent(c) \in Nat
    BY UnsentType
  <2> QED
    BY <1>1, <1>2, <1>3, <2>1, WordFacts DEF Quiet
<1>6. Asked(c)
  BY <1>4, <1>5 DEF InStepAt
<1>7. /\ cpc[c] \in DOMAIN Requested /\ toClient[c] = <<>>
      /\ toServer[c] = RequestBytes(c)
  BY <1>1, <1>2, <1>6, RestAll DEF Asked
<1>8. /\ Is(Requested[cpc[c]], ReadHead(toServer[c])) /\ RequestLength(c) = Len(toServer[c])
      /\ cpc[c] \in {"cd", "get", "put", "sha"} =>
           toServer[c][HEADER_LENGTH + 1] = [at |-> 0, of |-> task[c].name]
  BY <1>7, RequestFormed DEF RequestLength
<1>9. kind = Requested[cpc[c]]
  <2>1. Requested[cpc[c]] \in Kinds /\ kind \in Kinds
    BY <1>7, RequestedKinds DEF Kinds, Requests
  <2> QED
    BY <1>1, <1>8, <2>1, OneKindAtMost
<1> QED
  BY <1>1, <1>7, <1>8, <1>9, RestAll DEF NameOf

\* A thread in step that answers QUIT has a client that asked for it.
LEMMA QuitMet ==
  ASSUME LengthsFit, IInv, TaskSizes, NEW c \in Clients, InStepAt(c), Whole(c), HandleQuit(c)
  PROVE  cpc[c] = "quit"
<1>1. Request(c, QUIT_REQUEST) /\ QUIT_REQUEST \in Requests
  BY DEF HandleQuit, Requests
<1>2. cpc[c] \in DOMAIN Requested /\ QUIT_REQUEST = Requested[cpc[c]]
  BY <1>1, RequestMet
<1>3. "quit" \in DOMAIN Requested /\ QUIT_REQUEST = Requested["quit"]
  BY RequestedKinds
<1> QED
  BY <1>2, <1>3, RequestNames

LEMMA HeaderAlone ==
  ASSUME NEW header \in HeaderType
  PROVE  LET s == HeaderBytes(header)
         IN  /\ s \in Seq(Byte) /\ Len(s) = HEADER_LENGTH
             /\ HeadReady(s) /\ ReadHead(s) = header /\ Rest(s, HEADER_LENGTH) = <<>>
<1> DEFINE h == HeaderBytes(header)
           s == h \o <<>>
<1>1. h \in Seq(Byte) /\ Len(h) = HEADER_LENGTH
  BY HeaderBytesType
<1>2. <<>> \in Seq(Byte) /\ s = h
  BY <1>1, EmptySeq, ConcatEmptySeq
<1>3. HeadReady(s) /\ ReadHead(s) = header /\ Rest(s, HEADER_LENGTH) = <<>>
  BY <1>2, HeadOfHeader
<1> QED
  BY <1>1, <1>2, <1>3

\* The request is taken, and what its handler sends is all there is.
LEMMA ReplySent ==
  ASSUME LengthsFit, IInv, TaskSizes, NEW c \in Clients, InStepAt(c), Whole(c),
         NEW kind \in Requests, Request(c, kind), ServerTakes(c, RequestLength(c)),
         NEW bytes \in Seq(Byte), ServerSends(c, bytes)
  PROVE  /\ cpc[c] \in DOMAIN Requested /\ kind = Requested[cpc[c]]
         /\ toServer'[c] = <<>> /\ toClient'[c] = bytes /\ spc[c] = "head"
         /\ cpc[c] \in {"cd", "get", "put", "sha"} => NameOf(c) = task[c].name
<1>1. /\ cpc[c] \in DOMAIN Requested /\ kind = Requested[cpc[c]]
      /\ toClient[c] = <<>> /\ Rest(toServer[c], RequestLength(c)) = <<>>
      /\ cpc[c] \in {"cd", "get", "put", "sha"} => NameOf(c) = task[c].name
  BY RequestMet
<1>2. toServer'[c] = <<>>
  BY <1>1 DEF ServerTakes, IInv, TypeOK, ConnTypeOK
<1>3. toClient'[c] = <<>> \o bytes
  BY <1>1 DEF ServerSends, Whole, IInv, TypeOK, ConnTypeOK
<1>4. toClient'[c] = bytes
  BY <1>3, ConcatEmptySeq
<1> QED
  BY <1>1, <1>2, <1>4 DEF Request

-----------------------------------------------------------------------------
(* The steps of a thread, for its own client.                              *)

LEMMA InStepOpen ==
  ASSUME LengthsFit, IInv, TaskSizes, NEW c \in Clients, InStepAt(c), Whole(c),
         HandleOpen(c), UNCHANGED clientVars
  PROVE  Answered(c)'
<1> DEFINE header == Create(OPEN_CONN_REPLY, 1, 0)
<1>1. header \in HeaderType /\ Is(OPEN_CONN_REPLY, header)
  BY BareKinds, BareSent
<1> HIDE DEF header
<1>2. /\ HeaderBytes(header) \in Seq(Byte) /\ Len(HeaderBytes(header)) = HEADER_LENGTH
      /\ Front(HeaderBytes(header), OPEN_CONN_REPLY)
  BY <1>1, HeaderAlone DEF Front
<1>3. /\ Request(c, OPEN_CONN_REQUEST) /\ ServerTakes(c, RequestLength(c))
      /\ ServerSends(c, HeaderBytes(header)) /\ OPEN_CONN_REQUEST \in Requests
  BY DEF HandleOpen, header, Requests
<1>4. /\ cpc[c] \in DOMAIN Requested /\ OPEN_CONN_REQUEST = Requested[cpc[c]]
      /\ toServer'[c] = <<>> /\ toClient'[c] = HeaderBytes(header) /\ spc[c] = "head"
  BY <1>2, <1>3, ReplySent
<1>5. cpc[c] = "open"
  BY <1>4, RequestedKinds, RequestNames
<1>6. cpc'[c] = "open" /\ spc'[c] = "head"
  BY <1>4, <1>5 DEF HandleOpen, serverVars, clientVars
<1> QED
  BY <1>2, <1>4, <1>6, ExpectedKinds DEF Answered

LEMMA InStepList ==
  ASSUME LengthsFit, IInv, TaskSizes, NEW c \in Clients, InStepAt(c), Whole(c),
         HandleList(c), UNCHANGED clientVars
  PROVE  Answered(c)'
<1>1. PICK out \in Outputs :
        ServerSends(c, HeaderBytes(Create(LIST_REPLY, 0, Len(out))) \o Payload(Append(out, NUL)))
  BY DEF HandleList
<1> DEFINE header == Create(LIST_REPLY, 0, Len(out))
           text == Payload(Append(out, NUL))
<1>2. /\ header \in HeaderType /\ Is(LIST_REPLY, header)
      /\ header.length = HEADER_LENGTH + Len(out) + 1 /\ Len(out) \in Nat
  <2>1. LIST_REPLY \in TextKinds /\ Len(out) \in Nat
    BY ValuesAssumption DEF TextKinds
  <2> QED
    BY <2>1, TextSent, LengthsFacts
<1>3. text \in Seq(Byte) /\ Len(text) = Len(out) + 1
  <2>1. Append(out, NUL) \in Seq(Values) /\ Len(Append(out, NUL)) = Len(out) + 1
    BY ValuesAssumption, AppendProperties
  <2> QED
    BY <2>1, PayloadType
<1> HIDE DEF header, text
<1> DEFINE s == HeaderBytes(header) \o text
<1>4. s \in Seq(Byte) /\ Len(s) = header.length /\ Front(s, LIST_REPLY) /\ ReadHead(s) = header
  <2>1. /\ s \in Seq(Byte) /\ Len(s) = HEADER_LENGTH + Len(text)
        /\ HeadReady(s) /\ ReadHead(s) = header
    BY <1>2, <1>3, HeadOfHeader
  <2> HIDE DEF s
  <2>2. Len(s) = header.length
    BY <1>2, <1>3, <2>1, WordFacts
  <2> QED
    BY <1>2, <2>1, <2>2 DEF Front
<1>5. /\ Request(c, LIST_REQUEST) /\ ServerTakes(c, RequestLength(c))
      /\ ServerSends(c, s) /\ LIST_REQUEST \in Requests
  BY <1>1 DEF HandleList, header, text, Requests
<1> HIDE DEF s
<1>6. /\ cpc[c] \in DOMAIN Requested /\ LIST_REQUEST = Requested[cpc[c]]
      /\ toServer'[c] = <<>> /\ toClient'[c] = s /\ spc[c] = "head"
  BY <1>4, <1>5, ReplySent
<1>7. cpc[c] = "ls"
  BY <1>6, RequestedKinds, RequestNames
<1>8. cpc'[c] = "ls" /\ spc'[c] = "head"
  BY <1>6, <1>7 DEF HandleList, serverVars, clientVars
<1> QED
  BY <1>4, <1>6, <1>8, ExpectedKinds DEF Answered

LEMMA InStepCd ==
  ASSUME LengthsFit, IInv, TaskSizes, NEW c \in Clients, InStepAt(c), Whole(c),
         HandleCd(c), UNCHANGED clientVars
  PROVE  /\ Answered(c)' /\ cpc[c] = "cd" /\ NameOf(c) = task[c].name
         /\ ReadHead(toClient'[c]).status = Status(IsDir(cwd[c], task[c].name))
<1> DEFINE status == Status(IsDir(cwd[c], NameOf(c)))
           header == Create(CHANGE_DIR_REPLY, status, 0)
<1>0. status \in {0, 1}
  BY DEF Status
<1> HIDE DEF status
<1>1. header \in HeaderType /\ Is(CHANGE_DIR_REPLY, header) /\ header.status = status
  <2>1. /\ CHANGE_DIR_REPLY \in Kinds /\ CHANGE_DIR_REPLY.bare
        /\ CHANGE_DIR_REPLY.statuses = {0, 1}
    BY BareKinds
  <2> QED
    BY <1>0, <2>1, BareSent
<1> HIDE DEF header
<1>2. /\ HeaderBytes(header) \in Seq(Byte) /\ Len(HeaderBytes(header)) = HEADER_LENGTH
      /\ Front(HeaderBytes(header), CHANGE_DIR_REPLY) /\ ReadHead(HeaderBytes(header)) = header
  BY <1>1, HeaderAlone DEF Front
<1>3. /\ Request(c, CHANGE_DIR_REQUEST) /\ ServerTakes(c, RequestLength(c))
      /\ ServerSends(c, HeaderBytes(header)) /\ CHANGE_DIR_REQUEST \in Requests
  BY DEF HandleCd, header, status, Requests
<1>4. /\ cpc[c] \in DOMAIN Requested /\ CHANGE_DIR_REQUEST = Requested[cpc[c]]
      /\ toServer'[c] = <<>> /\ toClient'[c] = HeaderBytes(header) /\ spc[c] = "head"
      /\ cpc[c] \in {"cd", "get", "put", "sha"} => NameOf(c) = task[c].name
  BY <1>2, <1>3, ReplySent
<1>5. cpc[c] = "cd"
  BY <1>4, RequestedKinds, RequestNames
<1>6. cpc'[c] = "cd" /\ spc'[c] = "head"
  BY <1>4, <1>5 DEF HandleCd, clientVars
<1>7. Answered(c)'
  BY <1>2, <1>4, <1>6, ExpectedKinds DEF Answered
<1> QED
  BY <1>1, <1>2, <1>4, <1>5, <1>7 DEF status

LEMMA InStepFile ==
  ASSUME LengthsFit, IInv, TaskSizes, NEW c \in Clients, InStepAt(c), Whole(c),
         HandleGet(c) \/ HandleSha(c), UNCHANGED clientVars
  PROVE  Answered(c)'
<1>1. PICK command \in {"get", "sha"}, request \in Requests, reply \in {GET_REPLY, SHA_REPLY},
           next \in {"getopen", "sha"} :
        /\ HandleFile(c, request, reply, next)
        /\ request = Requested[command] /\ reply = Expected[command]
        /\ next = IF command = "get" THEN "getopen" ELSE "sha"
  BY RequestedKinds, ExpectedKinds DEF HandleGet, HandleSha, Requests
<1> DEFINE exist == Exists(c, NameOf(c))
           header == Create(reply, Status(exist), 0)
<1>2. header \in HeaderType /\ Is(reply, header) /\ header.status = Status(exist)
  <2>1. reply \in Kinds /\ reply.bare /\ reply.statuses = {0, 1} /\ Status(exist) \in {0, 1}
    BY BareKinds DEF Status
  <2> HIDE DEF exist
  <2> QED
    BY <2>1, BareSent
<1> HIDE DEF header
<1>3. /\ HeaderBytes(header) \in Seq(Byte) /\ Len(HeaderBytes(header)) = HEADER_LENGTH
      /\ Front(HeaderBytes(header), reply) /\ ReadHead(HeaderBytes(header)) = header
      /\ Rest(HeaderBytes(header), HEADER_LENGTH) = <<>>
  BY <1>2, HeaderAlone DEF Front
<1>4. /\ Request(c, request) /\ ServerTakes(c, RequestLength(c))
      /\ ServerSends(c, HeaderBytes(header))
  BY <1>1 DEF HandleFile, header
<1>5. /\ cpc[c] \in DOMAIN Requested /\ request = Requested[cpc[c]]
      /\ toServer'[c] = <<>> /\ toClient'[c] = HeaderBytes(header) /\ spc[c] = "head"
  BY <1>3, <1>4, ReplySent
<1>6. cpc[c] = command /\ cpc'[c] = command
  <2>1. command \in DOMAIN Requested
    BY RequestedKinds
  <2> QED
    BY <1>1, <1>5, <2>1, RequestNames DEF clientVars
<1>7. spc'[c] = IF exist THEN next ELSE "head"
  BY <1>1, <1>5 DEF HandleFile, Goto, IInv, TypeOK, ServerTypeOK
<1>8. ReadHead(toClient'[c]).status = 1 <=> exist
  BY <1>2, <1>3, <1>5 DEF Status
<1> HIDE DEF exist
<1> QED
  BY <1>1, <1>3, <1>5, <1>6, <1>7, <1>8 DEF Answered, FileComes, ShaComes

LEMMA InStepPut ==
  ASSUME LengthsFit, IInv, TaskSizes, NEW c \in Clients, InStepAt(c), Whole(c),
         HandlePut(c), UNCHANGED clientVars
  PROVE  Answered(c)' /\ cpc[c] = "put" /\ NameOf(c) = task[c].name
<1> DEFINE header == Create(PUT_REPLY, 0, 0)
<1>1. header \in HeaderType /\ Is(PUT_REPLY, header)
  BY BareKinds, BareSent
<1> HIDE DEF header
<1>2. /\ HeaderBytes(header) \in Seq(Byte) /\ Len(HeaderBytes(header)) = HEADER_LENGTH
      /\ Front(HeaderBytes(header), PUT_REPLY)
  BY <1>1, HeaderAlone DEF Front
<1>3. /\ Request(c, PUT_REQUEST) /\ ServerTakes(c, RequestLength(c))
      /\ ServerSends(c, HeaderBytes(header)) /\ PUT_REQUEST \in Requests
  BY DEF HandlePut, header, Requests
<1>4. /\ cpc[c] \in DOMAIN Requested /\ PUT_REQUEST = Requested[cpc[c]]
      /\ toServer'[c] = <<>> /\ toClient'[c] = HeaderBytes(header) /\ spc[c] = "head"
      /\ cpc[c] \in {"cd", "get", "put", "sha"} => NameOf(c) = task[c].name
  BY <1>2, <1>3, ReplySent
<1>5. cpc[c] = "put"
  BY <1>4, RequestedKinds, RequestNames
<1>6. cpc'[c] = "put" /\ spc'[c] = "puthead"
  BY <1>5 DEF HandlePut, Goto, clientVars, IInv, TypeOK, ServerTypeOK
<1> QED
  BY <1>2, <1>4, <1>5, <1>6, ExpectedKinds DEF Answered

\* What a thread still wants of an upload gets less as it takes it.
LEMMA UploadTaken ==
  ASSUME IInv, TaskSizes, NEW c \in Clients, Quiet(c) \/ Asked(c), Uploading(c)',
         NEW n \in Nat, ServerTakes(c, n), n <= Wanted(c), n <= Len(toServer[c]),
         Wanted(c) \in Nat, Wanted(c)' = Wanted(c) - n, UNCHANGED <<toClient, clientVars>>
  PROVE  Quiet(c)' \/ Asked(c)'
<1>1. toServer[c] \in Seq(Byte) /\ toServer'[c] = Rest(toServer[c], n)
  BY DEF ServerTakes, IInv, TypeOK, ConnTypeOK
<1>2. CASE Quiet(c)
  <2>1. /\ cpc[c] \in {"prompt", "putdata"} /\ toClient[c] = <<>>
        /\ Len(toServer[c]) + Unsent(c) = Wanted(c)
    BY <1>2 DEF Quiet
  <2>2. Unsent(c) \in Nat /\ Unsent(c)' = Unsent(c)
    BY UnsentType DEF Unsent, clientVars
  <2>3. Len(toServer'[c]) = Len(toServer[c]) - n
    BY <1>1, RestFacts
  <2>4. Len(toServer'[c]) + Unsent(c)' = Wanted(c)'
    BY <1>1, <2>1, <2>2, <2>3
  <2> QED
    BY <2>1, <2>4 DEF Quiet, clientVars
<1>3. CASE Asked(c)
  <2>1. /\ cpc[c] \in DOMAIN Requested /\ toClient[c] = <<>>
        /\ Wanted(c) <= Len(toServer[c]) /\ Rest(toServer[c], Wanted(c)) = RequestBytes(c)
    BY <1>3 DEF Asked
  <2>2. Len(toServer'[c]) = Len(toServer[c]) - n
    BY <1>1, <2>1, RestFacts
  <2>3. Rest(toServer'[c], Wanted(c) - n) = Rest(toServer[c], Wanted(c))
    <3> DEFINE m == Wanted(c) - n
    <3>1. m \in Nat /\ n + m = Wanted(c)
      OBVIOUS
    <3> HIDE DEF m
    <3>2. Rest(Rest(toServer[c], n), m) = Rest(toServer[c], n + m)
      BY <1>1, <2>1, <3>1, RestRest
    <3> QED
      BY <1>1, <3>1, <3>2 DEF m
  <2>4. RequestBytes(c)' = RequestBytes(c)
    BY DEF RequestBytes, clientVars
  <2> QED
    BY <1>1, <2>1, <2>2, <2>3, <2>4 DEF Asked, clientVars
<1> QED
  BY <1>2, <1>3

LEMMA InMin ==
  ASSUME NEW x \in Int, NEW y \in Int, NEW z \in Int, NEW n \in 1..Min({x, y, z})
  PROVE  n \in Nat /\ 0 < n /\ n <= x /\ n <= y /\ n <= z
<1> DEFINE last == Min({x, y, z})
<1>1. last \in Int /\ last <= x /\ last <= y /\ last <= z
  BY MinOfThree
<1>2. n \in 1..last
  OBVIOUS
<1> HIDE DEF last
<1> QED
  BY <1>1, <1>2

LEMMA ServerTypes ==
  ASSUME IInv
  PROVE  /\ spc \in [Clients -> ServerPlaces] /\ job \in [Clients -> Transfers]
         /\ cwd \in [Clients -> Dirs] /\ files \in [Dirs \X Names -> Files]
         /\ toServer \in [Clients -> Seq(Byte)] /\ toClient \in [Clients -> Seq(Byte)]
         /\ sopen \in [Clients -> BOOLEAN] /\ copen \in [Clients -> BOOLEAN]
BY DEF IInv, TypeOK, ServerTypeOK, ConnTypeOK

\* Where Continue leads, and that it is only c's thread that goes there.
LEMMA ContinueTo ==
  ASSUME IInv, NEW c \in Clients, NEW place \in {"getdata", "putdata"}, NEW done \in Nat,
         NEW size \in Lengths, Continue(c, place, done, size)
  PROVE  /\ done < size => /\ spc'[c] = place /\ job'[c].done = done
                           /\ job'[c].size = size /\ job'[c].name = job[c].name
         /\ ~(done < size) => spc'[c] = "head" /\ job'[c] = NoTransfer
         /\ \A d \in Clients : d # c => spc'[d] = spc[d] /\ job'[d] = job[d]
<1>1. CASE done < size
  <2>1. /\ spc' = [spc EXCEPT ![c] = place]
        /\ job' = [job EXCEPT ![c].done = done, ![c].size = size]
    BY <1>1 DEF Continue, Goto
  <2> QED
    BY <1>1, <2>1, ServerTypes DEF Transfers
<1>2. CASE ~(done < size)
  <2>1. spc' = [spc EXCEPT ![c] = "head"] /\ job' = [job EXCEPT ![c] = NoTransfer]
    BY <1>2 DEF Continue, Goto
  <2> QED
    BY <1>2, <2>1, ServerTypes
<1> QED
  BY <1>1, <1>2

LEMMA InStepAccept ==
  ASSUME IInv, TaskSizes, NEW c \in Clients, InStepAt(c), Whole(c),
         Accept(c), UNCHANGED clientVars
  PROVE  Asked(c)'
<1>1. spc[c] = "backlog" /\ spc'[c] = "head" /\ UNCHANGED <<toServer, toClient>>
  BY ServerTypes DEF Accept, Goto, connVars
<1>2. Asked(c)
  BY <1>1 DEF InStepAt, Quiet, Uploading, Answered, FileComes, ShaComes
<1>3. Wanted(c) = 0 /\ Wanted(c)' = 0 /\ RequestBytes(c)' = RequestBytes(c)
  BY <1>1 DEF Wanted, RequestBytes, clientVars
<1> QED
  BY <1>1, <1>2, <1>3 DEF Asked, Uploading, clientVars

\* The thread is at the header of an upload.
LEMMA DataMet ==
  ASSUME IInv, NEW c \in Clients, DataHead(c)
  PROVE  LET header == ReadHead(toServer[c])
         IN  /\ header \in HeaderType /\ header.length \in Nat /\ header.length < WORD
             /\ PayloadLength(header) = header.length - HEADER_LENGTH
             /\ HEADER_LENGTH <= header.length /\ PayloadLength(header) \in Lengths
             /\ Wanted(c) = header.length /\ HEADER_LENGTH <= Len(toServer[c])
             /\ toServer[c] # <<>>
<1> DEFINE header == ReadHead(toServer[c])
<1>1. spc[c] = "puthead" /\ HeadReady(toServer[c]) /\ Is(File_DATA, header)
      /\ toServer[c] \in Seq(Byte)
  BY ServerTypes DEF DataHead
<1>2. header \in HeaderType /\ PayloadLength(header) \in Lengths
  BY <1>1, ReadHeadType, LengthType
<1>3. HEADER_LENGTH <= header.length
  <2>1. header.length \in Nat
    BY <1>2, LengthType
  <2> HIDE DEF header
  <2> QED
    BY <1>1, <2>1, WordFacts DEF Is, File_DATA, WithPayload
<1>4. Wanted(c) = header.length
  BY <1>1 DEF Wanted
<1> HIDE DEF header
<1>5. header.length \in Nat /\ header.length < WORD
      /\ PayloadLength(header) = header.length - HEADER_LENGTH
  BY <1>2, <1>3, LengthRead
<1>6. HEADER_LENGTH <= Len(toServer[c]) /\ toServer[c] # <<>>
  BY <1>1, WordFacts, EmptySeq DEF HeadReady
<1> QED
  BY <1>2, <1>3, <1>4, <1>5, <1>6 DEF header

LEMMA InStepPutOpen ==
  ASSUME IInv, TaskSizes, NEW c \in Clients, InStepAt(c), Whole(c),
         PutOpen(c), UNCHANGED clientVars
  PROVE  Quiet(c)' \/ Asked(c)'
<1> DEFINE header == ReadHead(toServer[c])
           size == PayloadLength(header)
<1>1. /\ header.length \in Nat /\ size = header.length - HEADER_LENGTH
      /\ HEADER_LENGTH <= header.length /\ size \in Lengths
      /\ Wanted(c) = header.length /\ HEADER_LENGTH <= Len(toServer[c])
      /\ toServer[c] # <<>>
  BY DataMet DEF PutOpen
<1>2. /\ Continue(c, "putdata", 0, size) /\ ServerTakes(c, HEADER_LENGTH)
      /\ UNCHANGED toClient
  BY DEF PutOpen
<1> HIDE DEF header, size
<1>3. Quiet(c) \/ Asked(c)
  BY <1>1 DEF InStepAt, Answered
<1>4. /\ 0 < size => spc'[c] = "putdata" /\ job'[c].done = 0 /\ job'[c].size = size
      /\ ~(0 < size) => spc'[c] = "head"
  BY <1>2, <1>1, ContinueTo
<1>5. Uploading(c)'
  BY <1>4 DEF Uploading
<1>6. Wanted(c)' = Wanted(c) - HEADER_LENGTH
  <2>1. size \in Nat
    BY <1>1, WordFacts
  <2>2. Wanted(c)' = size
    <3>1. CASE 0 < size
      BY <1>4, <2>1, <3>1 DEF Wanted
    <3>2. CASE ~(0 < size)
      BY <1>4, <2>1, <3>2 DEF Wanted
    <3> QED
      BY <3>1, <3>2
  <2> QED
    BY <1>1, <2>2
<1> QED
  BY <1>1, <1>2, <1>3, <1>5, <1>6, WordFacts, UploadTaken

LEMMA InStepPutBlock ==
  ASSUME IInv, TaskSizes, NEW c \in Clients, InStepAt(c), Whole(c),
         PutBlock(c), UNCHANGED clientVars
  PROVE  Quiet(c)' \/ Asked(c)'
<1>1. /\ spc[c] = "putdata" /\ job[c].done \in Nat /\ job[c].size \in Lengths
      /\ job[c].size \in Nat /\ Len(toServer[c]) \in Nat
  BY OpenedFile, ServerTypes DEF PutBlock
<1>2. PICK n \in 1..Min({Block, job[c].size - job[c].done, Len(toServer[c])}) :
        ServerTakes(c, n) /\ Continue(c, "putdata", job[c].done + n, job[c].size)
  BY DEF PutBlock
<1>3. n \in Nat /\ n <= job[c].size - job[c].done /\ n <= Len(toServer[c])
  <2>1. Block \in Int /\ job[c].size - job[c].done \in Int /\ Len(toServer[c]) \in Int
    BY <1>1, BlockAssumption
  <2> QED
    BY <2>1, InMin
<1>4. Quiet(c) \/ Asked(c)
  BY <1>1 DEF InStepAt, Answered, FileComes, ShaComes
<1>5. job[c].done + n \in Nat
  BY <1>1, <1>3
<1>6. /\ job[c].done + n < job[c].size =>
           spc'[c] = "putdata" /\ job'[c].done = job[c].done + n /\ job'[c].size = job[c].size
      /\ ~(job[c].done + n < job[c].size) => spc'[c] = "head"
  BY <1>1, <1>2, <1>5, ContinueTo
<1>7. Uploading(c)'
  BY <1>6 DEF Uploading
<1>8. Wanted(c) = job[c].size - job[c].done /\ Wanted(c)' = Wanted(c) - n
  BY <1>1, <1>3, <1>6 DEF Wanted
<1>9. Wanted(c) \in Nat /\ n <= Wanted(c)
  BY <1>1, <1>3, <1>8
<1> QED
  BY <1>2, <1>3, <1>4, <1>7, <1>8, <1>9, UploadTaken DEF PutBlock

LEMMA NextBlockFits ==
  ASSUME NEW file \in Seq(Byte), NEW done \in Nat, NEW size \in Nat, done <= size
  PROVE  LET block == NextBlock(file, done, size)
         IN  block \in Seq(Byte) /\ done + Len(block) <= size
<1> DEFINE last == Min({size, done + Block, Len(file)})
<1>1. size \in Int /\ done + Block \in Int /\ Len(file) \in Int
  BY BlockAssumption
<1>2. last \in Int /\ last <= size /\ last <= Len(file)
  BY <1>1, MinOfThree
<1>3. NextBlock(file, done, size) = SubSeq(file, done + 1, last)
  BY DEF NextBlock
<1> HIDE DEF last
<1> QED
  BY <1>2, <1>3, SubSeqProperties

\* The bytes a thread sends of a file are its header first.
LEMMA FileOpened ==
  ASSUME IInv, FilesShort, NEW c \in Clients, GetOpen(c)
  PROVE  \E bytes \in Seq(Byte) :
           /\ ServerSends(c, bytes) /\ Front(bytes, File_DATA)
           /\ spc'[c] \in {"getdata", "head"}
           /\ Len(bytes) + Owed(c)' = ReadHead(bytes).length
<1> DEFINE size == Len(files[Path(c)]) % WORD
           header == Create(File_DATA, 0, size)
           bytes == HeaderBytes(header)
<1>1. Path(c) \in Dirs \X Names /\ files[Path(c)] \in Seq(Byte)
  BY OpenedFile DEF GetOpen
<1>2. size \in Nat /\ size \in Lengths /\ HEADER_LENGTH + size < WORD
  <2> DEFINE n == Len(files[Path(c)])
  <2>1. n \in Nat
    BY <1>1
  <2>2. HEADER_LENGTH + n < WORD
    BY <1>1 DEF FilesShort, Short
  <2> HIDE DEF n
  <2>3. n < WORD
    BY <2>1, <2>2, WordFacts
  <2>4. n % WORD = n
    BY <2>1, <2>3, ModSmall
  <2>5. n \in Int
    BY <2>1
  <2>6. n % WORD \in Lengths
    BY <2>5, WordFacts
  <2> QED
    BY <2>1, <2>2, <2>4, <2>6 DEF n
<1> HIDE DEF size
<1>3. /\ header \in HeaderType /\ Is(File_DATA, header)
      /\ header.length = HEADER_LENGTH + size
  BY <1>2, DataSent
<1> HIDE DEF header
<1>4. /\ bytes \in Seq(Byte) /\ Len(bytes) = HEADER_LENGTH
      /\ Front(bytes, File_DATA) /\ ReadHead(bytes) = header
  BY <1>3, HeaderAlone DEF Front
<1>5. ServerSends(c, bytes) /\ Continue(c, "getdata", 0, size)
  BY DEF GetOpen, size, header
<1> HIDE DEF bytes
<1>6. /\ 0 < size => spc'[c] = "getdata" /\ job'[c].done = 0 /\ job'[c].size = size
      /\ ~(0 < size) => spc'[c] = "head"
  BY <1>2, <1>5, ContinueTo
<1>7. Owed(c)' = size
  <2>1. CASE 0 < size
    BY <1>2, <1>6, <2>1 DEF Owed
  <2>2. CASE ~(0 < size)
    BY <1>2, <1>6, <2>2 DEF Owed
  <2> QED
    BY <2>1, <2>2
<1> QED
  BY <1>3, <1>4, <1>5, <1>6, <1>7

\* The bytes of a block are no longer owed.
LEMMA BlockSent ==
  ASSUME IInv, JobSizes, NEW c \in Clients, GetBlock(c)
  PROVE  \E bytes \in Seq(Byte) :
           /\ ServerSends(c, bytes) /\ spc'[c] \in {"getdata", "head"}
           /\ Owed(c) \in Nat /\ Owed(c)' = Owed(c) - Len(bytes)
<1> DEFINE block == NextBlock(files[Path(c)], job[c].done, job[c].size)
           done == job[c].done
           size == job[c].size
<1>1. /\ spc[c] = "getdata" /\ files[Path(c)] \in Seq(Byte)
      /\ done \in Nat /\ size \in Lengths /\ size \in Nat
  BY OpenedFile DEF GetBlock
<1>2. done < size
  BY <1>1 DEF JobSizes
<1>3. block \in Seq(Byte) /\ done + Len(block) <= size
  <2>1. done <= size
    BY <1>1, <1>2
  <2> QED
    BY <1>1, <2>1, NextBlockFits
<1>4. ServerSends(c, block) /\ Continue(c, "getdata", done + Len(block), size)
  BY DEF GetBlock
<1>5. Owed(c) = size - done
  BY <1>1 DEF Owed
<1> HIDE DEF block, size, done
<1>6. done + Len(block) \in Nat
  BY <1>1, <1>3
<1>7. /\ done + Len(block) < size => spc'[c] = "getdata" /\ job'[c].done = done + Len(block)
                                     /\ job'[c].size = size
      /\ ~(done + Len(block) < size) => spc'[c] = "head"
  BY <1>1, <1>4, <1>6, ContinueTo
<1>8. Owed(c)' = size - (done + Len(block))
  <2>1. CASE done + Len(block) < size
    BY <1>7, <2>1 DEF Owed
  <2>2. CASE ~(done + Len(block) < size)
    <3>1. Owed(c)' = 0
      BY <1>7, <2>2 DEF Owed
    <3> QED
      BY <1>1, <1>3, <1>6, <2>2, <3>1
  <2> QED
    BY <2>1, <2>2
<1>9. Owed(c) \in Nat /\ Owed(c)' = Owed(c) - Len(block)
  BY <1>1, <1>2, <1>3, <1>5, <1>8
<1> QED
  BY <1>3, <1>4, <1>7, <1>9

LEMMA SentTo ==
  ASSUME IInv, NEW c \in Clients, copen[c], NEW bytes \in Seq(Byte), ServerSends(c, bytes)
  PROVE  toClient'[c] = toClient[c] \o bytes
BY ServerTypes DEF ServerSends

LEMMA InStepGetOpen ==
  ASSUME IInv, FilesShort, NEW c \in Clients, InStepAt(c), Whole(c),
         GetOpen(c), UNCHANGED clientVars
  PROVE  Answered(c)'
<1>1. PICK bytes \in Seq(Byte) :
        /\ ServerSends(c, bytes) /\ Front(bytes, File_DATA)
        /\ spc'[c] \in {"getdata", "head"}
        /\ Len(bytes) + Owed(c)' = ReadHead(bytes).length
  BY FileOpened
<1>2. spc[c] = "getopen" /\ toServer' = toServer
  BY DEF GetOpen
<1>3. PICK s \in Seq(Byte) : s = toClient[c]
  BY ServerTypes
<1>4. toClient'[c] = s \o bytes
  BY <1>1, <1>3, SentTo DEF Whole
<1>5. Answered(c)
  BY <1>2 DEF InStepAt, Quiet, Asked, Uploading
<1>6. FileComes(c, bytes)'
  BY <1>1 DEF FileComes
<1>7. CASE cpc[c] = "get"
  <2>1. /\ toServer[c] = <<>> /\ Front(s, GET_REPLY) /\ ReadHead(s).status = 1
        /\ Rest(s, HEADER_LENGTH) = <<>>
    BY <1>2, <1>3, <1>5, <1>7, ExpectedKinds DEF Answered, FileComes
  <2>2. Front(s \o bytes, GET_REPLY) /\ ReadHead(s \o bytes) = ReadHead(s)
    BY <2>1, FrontAppend
  <2>3. Rest(s \o bytes, HEADER_LENGTH) = bytes
    <3>1. HEADER_LENGTH <= Len(s) /\ HEADER_LENGTH \in Nat
      BY <2>1, WordFacts DEF Front, HeadReady
    <3>2. Rest(s \o bytes, HEADER_LENGTH) = Rest(s, HEADER_LENGTH) \o bytes
      BY <3>1, RestAppend
    <3> QED
      BY <2>1, <3>2, ConcatEmptySeq
  <2>4. cpc'[c] = "get" /\ toServer'[c] = <<>>
    BY <1>2, <1>7, <2>1 DEF clientVars
  <2> QED
    BY <1>4, <1>6, <2>1, <2>2, <2>3, <2>4, ExpectedKinds DEF Answered
<1>8. CASE cpc[c] = "gethead"
  <2>1. toServer[c] = <<>> /\ s = <<>>
    BY <1>2, <1>3, <1>5, <1>8 DEF Answered, FileComes
  <2>2. s \o bytes = bytes
    BY <2>1, ConcatEmptySeq
  <2>3. cpc'[c] = "gethead" /\ toServer'[c] = <<>>
    BY <1>2, <1>8, <2>1 DEF clientVars
  <2> QED
    BY <1>4, <1>6, <2>2, <2>3 DEF Answered
<1> QED
  BY <1>2, <1>5, <1>7, <1>8 DEF Answered, FileComes, ShaComes

\* A file that comes goes on coming.
LEMMA MoreComes ==
  ASSUME NEW c \in Clients, NEW s \in Seq(Byte), NEW bytes \in Seq(Byte),
         spc[c] = "getdata", FileComes(c, s), spc'[c] \in {"getdata", "head"},
         Owed(c) \in Nat, Owed(c)' = Owed(c) - Len(bytes)
  PROVE  FileComes(c, s \o bytes)'
<1>1. Front(s, File_DATA) /\ Len(s) + Owed(c) = ReadHead(s).length
  BY DEF FileComes
<1>2. Front(s \o bytes, File_DATA) /\ ReadHead(s \o bytes) = ReadHead(s)
  BY <1>1, FrontAppend
<1>3. Len(s \o bytes) = Len(s) + Len(bytes)
  BY ConcatProperties
<1>4. Len(s \o bytes) + Owed(c)' = ReadHead(s).length
  BY <1>1, <1>3
<1> QED
  BY <1>2, <1>4 DEF FileComes

LEMMA InStepGetBlock ==
  ASSUME IInv, JobSizes, NEW c \in Clients, InStepAt(c), Whole(c),
         GetBlock(c), UNCHANGED clientVars
  PROVE  Answered(c)'
<1>1. PICK bytes \in Seq(Byte) :
        /\ ServerSends(c, bytes) /\ spc'[c] \in {"getdata", "head"}
        /\ Owed(c) \in Nat /\ Owed(c)' = Owed(c) - Len(bytes)
  BY BlockSent
<1>2. spc[c] = "getdata" /\ toServer' = toServer
  BY DEF GetBlock
<1>3. PICK s \in Seq(Byte) : s = toClient[c]
  BY ServerTypes
<1>4. toClient'[c] = s \o bytes /\ Len(s \o bytes) = Len(s) + Len(bytes)
  BY <1>1, <1>3, SentTo, ConcatProperties DEF Whole
<1>5. Answered(c)
  BY <1>2 DEF InStepAt, Quiet, Asked, Uploading
<1>6. toServer'[c] = <<>> /\ cpc' = cpc /\ task' = task
  BY <1>2, <1>5 DEF Answered, clientVars
<1>7. CASE cpc[c] = "get"
  <2>1. /\ Front(s, GET_REPLY) /\ ReadHead(s).status = 1
        /\ FileComes(c, Rest(s, HEADER_LENGTH))
    BY <1>2, <1>3, <1>5, <1>7, ExpectedKinds DEF Answered
  <2>2. Front(s \o bytes, GET_REPLY) /\ ReadHead(s \o bytes) = ReadHead(s)
    BY <2>1, FrontAppend
  <2>3. HEADER_LENGTH <= Len(s) /\ HEADER_LENGTH \in Nat
    BY <2>1, WordFacts DEF Front, HeadReady
  <2> DEFINE t == Rest(s, HEADER_LENGTH)
  <2>4. t \in Seq(Byte) /\ Rest(s \o bytes, HEADER_LENGTH) = t \o bytes
    BY <2>3, RestAppend, RestFacts
  <2>5. FileComes(c, t)
    BY <2>1
  <2> HIDE DEF t
  <2>6. FileComes(c, t \o bytes)'
    BY <1>1, <1>2, <2>4, <2>5, MoreComes
  <2> QED
    BY <1>4, <1>6, <1>7, <2>1, <2>2, <2>4, <2>6, ExpectedKinds DEF Answered
<1>8. CASE cpc[c] = "gethead"
  <2>1. FileComes(c, s)
    BY <1>3, <1>5, <1>8 DEF Answered
  <2>2. FileComes(c, s \o bytes)'
    BY <1>1, <1>2, <2>1, MoreComes
  <2> QED
    BY <1>4, <1>6, <1>8, <2>2 DEF Answered
<1>9. CASE cpc[c] = "getdata"
  <2>1. Len(s) + Owed(c) = task[c].size - task[c].done
    BY <1>3, <1>5, <1>9 DEF Answered
  <2>2. Len(s \o bytes) + Owed(c)' = task[c].size - task[c].done
    BY <1>1, <1>4, <2>1
  <2> QED
    BY <1>1, <1>4, <1>6, <1>9, <2>2 DEF Answered
<1> QED
  BY <1>2, <1>5, <1>7, <1>8, <1>9 DEF Answered, FileComes, ShaComes

LEMMA InStepShaSend ==
  ASSUME LengthsFit, IInv, NEW c \in Clients, InStepAt(c), Whole(c),
         ShaSend(c), UNCHANGED clientVars
  PROVE  Answered(c)'
<1>1. PICK out \in Outputs :
        ServerSends(c, HeaderBytes(Create(File_DATA, 0, Len(out) + 1)) \o Payload(Append(out, NUL)))
  BY DEF ShaSend
<1> DEFINE header == Create(File_DATA, 0, Len(out) + 1)
           text == Payload(Append(out, NUL))
           bytes == HeaderBytes(header) \o text
<1>2. /\ header \in HeaderType /\ Is(File_DATA, header)
      /\ header.length = HEADER_LENGTH + (Len(out) + 1) /\ Len(out) \in Nat
  <2>1. Len(out) + 1 \in Nat /\ Len(out) \in Nat
    BY ValuesAssumption
  <2>2. HEADER_LENGTH + (Len(out) + 1) < WORD
    BY <2>1, LengthsFacts, WordFacts
  <2> QED
    BY <2>1, <2>2, DataSent
<1>3. text \in Seq(Byte) /\ Len(text) = Len(out) + 1
  <2>1. Append(out, NUL) \in Seq(Values) /\ Len(Append(out, NUL)) = Len(out) + 1
    BY ValuesAssumption, AppendProperties
  <2> QED
    BY <2>1, PayloadType
<1>4. ServerSends(c, bytes)
  BY <1>1
<1> HIDE DEF header, text
<1>5. /\ bytes \in Seq(Byte) /\ Len(bytes) = HEADER_LENGTH + Len(text)
      /\ HeadReady(bytes) /\ ReadHead(bytes) = header
  BY <1>2, <1>3, HeadOfHeader
<1> HIDE DEF bytes
<1>6. Len(bytes) = ReadHead(bytes).length /\ HEADER_LENGTH < Len(bytes)
  BY <1>2, <1>3, <1>5, WordFacts
<1>7. spc[c] = "sha" /\ spc'[c] = "head" /\ toServer' = toServer
  BY ServerTypes DEF ShaSend, Goto
<1>8. ShaComes(c, bytes)'
  BY <1>2, <1>5, <1>6, <1>7 DEF ShaComes, Front
<1>9. PICK s \in Seq(Byte) : s = toClient[c]
  BY ServerTypes
<1>10. toClient'[c] = s \o bytes
  BY <1>4, <1>5, <1>9, SentTo DEF Whole
<1>11. Answered(c)
  BY <1>7 DEF InStepAt, Quiet, Asked, Uploading
<1>12. CASE cpc[c] = "sha"
  <2>1. /\ toServer[c] = <<>> /\ Front(s, SHA_REPLY) /\ ReadHead(s).status = 1
        /\ Rest(s, HEADER_LENGTH) = <<>>
    BY <1>7, <1>9, <1>11, <1>12, ExpectedKinds DEF Answered, ShaComes
  <2>2. Front(s \o bytes, SHA_REPLY) /\ ReadHead(s \o bytes) = ReadHead(s)
    BY <1>5, <2>1, FrontAppend
  <2>3. Rest(s \o bytes, HEADER_LENGTH) = bytes
    <3>1. HEADER_LENGTH <= Len(s) /\ HEADER_LENGTH \in Nat
      BY <2>1, WordFacts DEF Front, HeadReady
    <3>2. Rest(s \o bytes, HEADER_LENGTH) = Rest(s, HEADER_LENGTH) \o bytes
      BY <1>5, <3>1, RestAppend
    <3> QED
      BY <1>5, <2>1, <3>2, ConcatEmptySeq
  <2>4. cpc'[c] = "sha" /\ toServer'[c] = <<>>
    BY <1>7, <1>12, <2>1 DEF clientVars
  <2> QED
    BY <1>8, <1>10, <2>1, <2>2, <2>3, <2>4, ExpectedKinds DEF Answered
<1>13. CASE cpc[c] = "shahead"
  <2>1. toServer[c] = <<>> /\ s = <<>>
    BY <1>7, <1>9, <1>11, <1>13 DEF Answered, ShaComes
  <2>2. s \o bytes = bytes
    BY <1>5, <2>1, ConcatEmptySeq
  <2>3. cpc'[c] = "shahead" /\ toServer'[c] = <<>>
    BY <1>7, <1>13, <2>1 DEF clientVars
  <2> QED
    BY <1>8, <1>10, <2>2, <2>3 DEF Answered
<1> QED
  BY <1>7, <1>11, <1>12, <1>13 DEF Answered, FileComes

-----------------------------------------------------------------------------
(* The steps of a thread, for every client.                                *)

\* What a step of c or of its thread leaves alone of the others.
Apart(c) ==
  \A d \in Clients : d # c =>
    /\ spc'[d] = spc[d] /\ job'[d] = job[d] /\ cwd'[d] = cwd[d]
    /\ cpc'[d] = cpc[d] /\ task'[d] = task[d] /\ slip'[d] = slip[d]
    /\ where'[d] = where[d] /\ local'[d] = local[d]
    /\ toServer'[d] = toServer[d] /\ toClient'[d] = toClient[d]
    /\ copen'[d] = copen[d] /\ sopen'[d] = sopen[d]

LEMMA ApartInStep ==
  ASSUME NEW c \in Clients, Apart(c), NEW d \in Clients, d # c, InStepAt(d)
  PROVE  InStepAt(d)'
<1>1. /\ spc'[d] = spc[d] /\ job'[d] = job[d] /\ cpc'[d] = cpc[d] /\ task'[d] = task[d]
      /\ slip'[d] = slip[d] /\ toServer'[d] = toServer[d] /\ toClient'[d] = toClient[d]
      /\ copen'[d] = copen[d] /\ sopen'[d] = sopen[d]
  BY DEF Apart
<1>2. Wanted(d)' = Wanted(d) /\ Owed(d)' = Owed(d) /\ Unsent(d)' = Unsent(d)
      /\ Whole(d)' = Whole(d) /\ Uploading(d)' = Uploading(d)
      /\ RequestBytes(d)' = RequestBytes(d)
  BY <1>1 DEF Wanted, Owed, Unsent, Whole, Uploading, RequestBytes
<1>3. Quiet(d)' = Quiet(d) /\ Asked(d)' = Asked(d)
  BY <1>1, <1>2 DEF Quiet, Asked
<1>4. Answered(d) => Answered(d)'
  BY <1>1, <1>2 DEF Answered, FileComes, ShaComes
<1> QED
  BY <1>2, <1>3, <1>4 DEF InStepAt

LEMMA ThreadApart ==
  ASSUME IInv, NEW c \in Clients, Acts(c), ~Dies(c),
         UNCHANGED clientVars
  PROVE  Apart(c) /\ UNCHANGED copen
<1>1. /\ UNCHANGED copen
      /\ \A d \in Clients : d # c =>
           /\ toServer'[d] = toServer[d] /\ toClient'[d] = toClient[d] /\ sopen'[d] = sopen[d]
  <2>1. UNCHANGED copen
    BY DEF Acts, Dies, Thread, CallFails, Accept, HandleOpen, HandleList, HandleCd,
       HandleGet, HandleSha, HandleFile, GetOpen, GetBlock, GetShort, HandlePut, PutOpen,
       PutRefused, PutBlock, ShaSend, HandleQuit, Refuse, ReadFails, SendFails, connVars
  <2>2. \A d \in Clients : d # c => toServer'[d] = toServer[d] /\ sopen'[d] = sopen[d]
    <3>1. CASE Hangup({c})
      BY <3>1, ServerTypes DEF Hangup, ServerCloses
    <3>2. CASE ~Hangup({c})
      <4>1. UNCHANGED sopen
        BY <3>2 DEF Acts, Dies, Thread, CallFails, Accept, HandleOpen, HandleList,
           HandleCd, HandleGet, HandleSha, HandleFile, GetOpen, GetBlock, GetShort,
           HandlePut, PutOpen, PutRefused, PutBlock, ShaSend, HandleQuit, Refuse,
           ReadFails, SendFails, connVars
      <4>2. \A d \in Clients : d # c => toServer'[d] = toServer[d]
        BY <3>2, ServerTypes DEF Acts, Dies, Thread, CallFails, Accept, HandleOpen,
           HandleList, HandleCd, HandleGet, HandleSha, HandleFile, GetOpen, GetBlock,
           GetShort, HandlePut, PutOpen, PutRefused, PutBlock, ShaSend, HandleQuit,
           Refuse, ReadFails, SendFails, connVars, ServerTakes
      <4> QED
        BY <4>1, <4>2
    <3> QED
      BY <3>1, <3>2
  <2>3. \A d \in Clients : d # c => toClient'[d] = toClient[d]
    BY ServerTypes DEF Acts, Dies, Thread, CallFails, Accept, HandleOpen, HandleList,
       HandleCd, HandleGet, HandleSha, HandleFile, GetOpen, GetBlock, GetShort,
       HandlePut, PutOpen, PutRefused, PutBlock, ShaSend, HandleQuit, Refuse, ReadFails,
       SendFails, connVars, ServerSends
  <2> QED
    BY <2>1, <2>2, <2>3
<1>2. \A d \in Clients : d # c =>
           spc'[d] = spc[d] /\ job'[d] = job[d] /\ cwd'[d] = cwd[d]
  BY ServerTypes DEF Acts, Dies, Thread, CallFails, Accept, HandleOpen, HandleList,
     HandleCd, HandleGet, HandleSha, HandleFile, GetOpen, GetBlock, GetShort, HandlePut,
     PutOpen, PutRefused, PutBlock, ShaSend, HandleQuit, Refuse, ReadFails, SendFails,
     serverVars, Hangup, Goto, Continue
<1> QED
  BY <1>1, <1>2 DEF Apart, clientVars

LEMMA HangupEnds ==
  ASSUME IInv, NEW closed \in SUBSET Clients, Hangup(closed), NEW c \in closed
  PROVE  ~sopen'[c] /\ spc'[c] = "none" /\ ~Whole(c)'
BY DEF Hangup, ServerCloses, Whole

LEMMA InStepThread ==
  ASSUME LengthsFit, IInv, Sizes, InStep, NEW c \in Clients, Acts(c),
         UNCHANGED clientVars
  PROVE  InStep'
<1>1. CASE Dies(c)
  <2>1. Hangup(Clients)
    BY <1>1 DEF Dies, BrokenPipe, PathThrows, CallThrows, Terminate
  <2> QED
    BY <2>1, HangupEnds DEF InStep, InStepAt
<1>2. CASE ~Dies(c)
  <2>1. Apart(c) /\ UNCHANGED copen
    BY <1>2, ThreadApart
  <2>2. ASSUME NEW d \in Clients, d # c PROVE InStepAt(d)'
    BY <2>1, <2>2, ApartInStep DEF InStep
  <2>3. InStepAt(c)'
    <3>1. CASE Hangup({c})
      <4> DEFINE closed == {c}
      <4>1. Hangup(closed) /\ closed \in SUBSET Clients /\ c \in closed
        BY <3>1
      <4> HIDE DEF closed
      <4> QED
        BY <4>1, HangupEnds DEF InStepAt
    <3>2. CASE ~Hangup({c})
      <4>1. \/ Accept(c)     \/ HandleOpen(c) \/ HandleList(c) \/ HandleCd(c)
            \/ HandleGet(c)  \/ GetOpen(c)    \/ GetBlock(c)   \/ HandlePut(c)
            \/ PutOpen(c)    \/ PutBlock(c)   \/ HandleSha(c)  \/ ShaSend(c)
        BY <1>2, <3>2 DEF Acts, Dies, Thread, CallFails, GetShort, PutRefused,
           HandleQuit, Refuse, ReadFails, SendFails
      <4>2. UNCHANGED sopen
        BY <4>1 DEF Accept, HandleOpen, HandleList, HandleCd, HandleGet, GetOpen, GetBlock,
           HandlePut, PutOpen, PutBlock, HandleSha, HandleFile, ShaSend, connVars
      <4>3. Whole(c)' => Whole(c)
        BY <2>1, <4>2 DEF Whole, clientVars
      <4>4. ASSUME Whole(c) PROVE Quiet(c)' \/ Asked(c)' \/ Answered(c)'
        <5>1. InStepAt(c) /\ FilesShort /\ JobSizes /\ TaskSizes
          BY DEF InStep, Sizes
        <5> QED
          BY <4>1, <4>4, <5>1, InStepAccept, InStepOpen, InStepList, InStepCd, InStepFile,
             InStepGetOpen, InStepGetBlock, InStepPut, InStepPutOpen, InStepPutBlock,
             InStepShaSend
      <4> QED
        BY <4>3, <4>4 DEF InStepAt
    <3> QED
      BY <3>1, <3>2
  <2> QED
    BY <2>2, <2>3 DEF InStep
<1> QED
  BY <1>1, <1>2

-----------------------------------------------------------------------------
(* Sizes, in the steps of a thread.                                        *)

LEMMA WriteAtSize ==
  ASSUME NEW file \in Seq(Byte), NEW done \in Nat, NEW bytes \in Seq(Byte)
  PROVE  LET g == WriteAt(file, done, bytes)
         IN  /\ g \in Seq(Byte) /\ Len(g) \in {Len(file), done + Len(bytes)}
             /\ Len(g) >= Len(file) /\ Len(g) >= done + Len(bytes)
<1> DEFINE last == Max({Len(file), done + Len(bytes)})
<1>1. Len(file) \in Int /\ done + Len(bytes) \in Int /\ Len(file) \in Nat
  OBVIOUS
<1>2. /\ last \in {Len(file), done + Len(bytes)}
      /\ last >= Len(file) /\ last >= done + Len(bytes)
  <2>1. \A x, y \in Int : Max({x, y}) \in {x, y} /\ Max({x, y}) >= x /\ Max({x, y}) >= y
    BY MaxOfTwo
  <2> QED
    BY <1>1, <2>1
<1> HIDE DEF last
<1>3. last \in Nat
  BY <1>1, <1>2
<1>4. WriteAt(file, done, bytes) \in Seq(Byte) /\ DOMAIN WriteAt(file, done, bytes) = 1..last
  <2>1. WriteAt(file, done, bytes) \in Seq(Byte)
    BY WriteAtType
  <2>2. DOMAIN WriteAt(file, done, bytes) = 1..last
    BY DEF WriteAt, last
  <2> QED
    BY <2>1, <2>2
<1>5. Len(WriteAt(file, done, bytes)) = last
  BY <1>3, <1>4
<1> QED
  BY <1>2, <1>4, <1>5

LEMMA PutOpenSizes ==
  ASSUME IInv, NEW c \in Clients, PutOpen(c)
  PROVE  LET size == PayloadLength(ReadHead(toServer[c]))
         IN  /\ Continue(c, "putdata", 0, size) /\ size \in Lengths
             /\ HEADER_LENGTH + size < WORD
             /\ files' = [files EXCEPT ![Path(c)] = <<>>]
<1> DEFINE header == ReadHead(toServer[c])
           size == PayloadLength(header)
<1>1. /\ header.length \in Nat /\ header.length < WORD
      /\ size = header.length - HEADER_LENGTH /\ size \in Lengths
  BY DataMet DEF PutOpen
<1>2. Continue(c, "putdata", 0, size) /\ files' = [files EXCEPT ![Path(c)] = <<>>]
  BY DEF PutOpen
<1> HIDE DEF size, header
<1>3. HEADER_LENGTH + size < WORD
  BY <1>1, WordFacts
<1> QED
  BY <1>1, <1>2, <1>3 DEF size, header

LEMMA PutBlockSizes ==
  ASSUME IInv, NEW c \in Clients, PutBlock(c)
  PROVE  \E n \in Nat, bytes \in Seq(Byte) :
           /\ 0 < n /\ n <= job[c].size - job[c].done
           /\ n <= Len(toServer[c]) /\ bytes = SubSeq(toServer[c], 1, n) /\ Len(bytes) = n
           /\ Continue(c, "putdata", job[c].done + n, job[c].size)
           /\ ServerTakes(c, n)
           /\ files' = [files EXCEPT ![Path(c)] = WriteAt(files[Path(c)], job[c].done, bytes)]
<1>1. /\ spc[c] = "putdata" /\ job[c].done \in Nat /\ job[c].size \in Nat
      /\ toServer[c] \in Seq(Byte)
  BY OpenedFile, ServerTypes DEF PutBlock
<1>2. PICK n \in 1..Min({Block, job[c].size - job[c].done, Len(toServer[c])}) :
        /\ files' = [files EXCEPT ![Path(c)] =
                       WriteAt(files[Path(c)], job[c].done, SubSeq(toServer[c], 1, n))]
        /\ ServerTakes(c, n)
        /\ Continue(c, "putdata", job[c].done + n, job[c].size)
  BY DEF PutBlock
<1>3. n \in Nat /\ 0 < n /\ n <= job[c].size - job[c].done /\ n <= Len(toServer[c])
  <2>1. Block \in Int /\ job[c].size - job[c].done \in Int /\ Len(toServer[c]) \in Int
    BY <1>1, BlockAssumption
  <2> QED
    BY <2>1, InMin
<1> DEFINE bytes == SubSeq(toServer[c], 1, n)
<1>4. bytes \in Seq(Byte) /\ Len(bytes) = n
  BY <1>1, <1>3, SubSeqProperties
<1> QED
  BY <1>2, <1>3, <1>4

LEMMA ThreadSizes ==
  ASSUME IInv, Sizes, NEW c \in Clients, Acts(c), UNCHANGED clientVars
  PROVE  Sizes'
<1>1. TaskSizes'
  BY DEF Sizes, TaskSizes, clientVars
<1>2. FilesShort'
  <2>1. CASE PutOpen(c)
    <3>1. files' = [files EXCEPT ![Path(c)] = <<>>] /\ UNCHANGED local
      BY <2>1 DEF PutOpen, clientVars
    <3>2. Short(<<>>)
      BY HeaderAssumption, WordAssumption DEF Short
    <3> QED
      BY <3>1, <3>2, ServerTypes DEF FilesShort, Sizes
  <2>2. CASE PutBlock(c)
    <3>1. /\ spc[c] = "putdata" /\ Path(c) \in Dirs \X Names /\ files[Path(c)] \in Seq(Byte)
          /\ job[c].done \in Nat /\ job[c].size \in Nat
      BY <2>2, OpenedFile DEF PutBlock
    <3>2. PICK n \in Nat, bytes \in Seq(Byte) :
            /\ n <= job[c].size - job[c].done /\ Len(bytes) = n
            /\ files' = [files EXCEPT ![Path(c)] = WriteAt(files[Path(c)], job[c].done, bytes)]
      BY <2>2, PutBlockSizes
    <3> DEFINE g == WriteAt(files[Path(c)], job[c].done, bytes)
    <3>3. g \in Seq(Byte) /\ Len(g) \in {Len(files[Path(c)]), job[c].done + Len(bytes)}
      BY <3>1, WriteAtSize
    <3>4. HEADER_LENGTH + job[c].size < WORD
      BY <3>1 DEF Sizes, JobSizes
    <3>5. HEADER_LENGTH + Len(files[Path(c)]) < WORD
      BY <3>1 DEF Sizes, FilesShort, Short
    <3> HIDE DEF g
    <3>6. Short(g)
      <4> DEFINE done == job[c].done
                 size == job[c].size
      <4>1. /\ done \in Nat /\ size \in Nat /\ n <= size - done /\ HEADER_LENGTH + size < WORD
            /\ Len(g) \in {Len(files[Path(c)]), done + n}
        BY <3>1, <3>2, <3>3, <3>4
      <4> HIDE DEF done, size
      <4>2. HEADER_LENGTH + (done + n) < WORD
        BY <4>1, HeaderAssumption, WordAssumption
      <4> QED
        BY <3>5, <4>1, <4>2 DEF Short
    <3>7. files' = [files EXCEPT ![Path(c)] = g] /\ UNCHANGED local
      BY <3>2 DEF g, clientVars
    <3> QED
      BY <3>6, <3>7, ServerTypes DEF FilesShort, Sizes
  <2>3. CASE ~PutOpen(c) /\ ~PutBlock(c)
    <3>1. UNCHANGED <<files, local>>
      BY <2>3 DEF Acts, Dies, Thread, CallFails, Accept, HandleOpen, HandleList,
         HandleCd, HandleGet, HandleSha, HandleFile, GetOpen, GetBlock, GetShort,
         HandlePut, PutRefused, ShaSend, HandleQuit, Refuse, ReadFails, SendFails,
         BrokenPipe, PathThrows, CallThrows, Terminate, serverVars, clientVars
    <3> QED
      BY <3>1 DEF Sizes, FilesShort
  <2> QED
    BY <2>1, <2>2, <2>3
<1>3. JobSizes'
  <2>1. ASSUME NEW d \in Clients, d # c, spc'[d] \in {"getdata", "putdata"}
        PROVE  job'[d].done < job'[d].size /\ HEADER_LENGTH + job'[d].size < WORD
    <3>1. CASE Dies(c)
      BY <2>1, <3>1, HangupEnds DEF Dies, BrokenPipe, PathThrows, CallThrows, Terminate
    <3>2. CASE ~Dies(c)
      <4>1. spc'[d] = spc[d] /\ job'[d] = job[d]
        BY <2>1, <3>2, ThreadApart DEF Apart
      <4> QED
        BY <2>1, <4>1 DEF Sizes, JobSizes
    <3> QED
      BY <3>1, <3>2
  <2>2. ASSUME spc'[c] \in {"getdata", "putdata"}
        PROVE  job'[c].done < job'[c].size /\ HEADER_LENGTH + job'[c].size < WORD
    <3>1. CASE GetOpen(c)
      <4>1. Path(c) \in Dirs \X Names /\ files[Path(c)] \in Seq(Byte)
        BY <3>1, OpenedFile DEF GetOpen
      <4> DEFINE n == Len(files[Path(c)])
                 size == n % WORD
      <4>2. n \in Nat /\ n \in Int /\ HEADER_LENGTH + n < WORD
        BY <4>1 DEF Sizes, FilesShort, Short
      <4>3. Continue(c, "getdata", 0, size)
        BY <3>1 DEF GetOpen
      <4> HIDE DEF n
      <4>4. n < WORD
        BY <4>2, WordFacts
      <4>5. size = n /\ size \in Lengths
        BY <4>2, <4>4, ModSmall, WordFacts
      <4> HIDE DEF size
      <4>6. 0 < size /\ job'[c].done = 0 /\ job'[c].size = size
        BY <2>2, <4>3, <4>5, ContinueTo
      <4> QED
        BY <4>2, <4>5, <4>6
    <3>2. CASE PutOpen(c)
      <4> DEFINE size == PayloadLength(ReadHead(toServer[c]))
      <4>1. Continue(c, "putdata", 0, size) /\ size \in Lengths /\ HEADER_LENGTH + size < WORD
        BY <3>2, PutOpenSizes
      <4> HIDE DEF size
      <4>2. 0 < size /\ job'[c].done = 0 /\ job'[c].size = size
        BY <2>2, <4>1, ContinueTo
      <4> QED
        BY <4>1, <4>2
    <3>3. CASE GetBlock(c) \/ PutBlock(c)
      <4>1. /\ spc[c] \in {"getdata", "putdata"} /\ job[c].size \in Lengths
            /\ job[c].done \in Nat /\ job[c].size \in Nat
        BY <3>3, OpenedFile DEF GetBlock, PutBlock
      <4>2. PICK n \in Nat : \E place \in {"getdata", "putdata"} :
              Continue(c, place, job[c].done + n, job[c].size)
        <5>1. CASE GetBlock(c)
          <6> DEFINE block == NextBlock(files[Path(c)], job[c].done, job[c].size)
          <6>1. block \in Seq(Byte)
            BY <4>1, <5>1, OpenedFile, NextBlockType DEF GetBlock
          <6>2. Continue(c, "getdata", job[c].done + Len(block), job[c].size)
            BY <5>1 DEF GetBlock
          <6> HIDE DEF block
          <6> QED
            BY <6>1, <6>2
        <5>2. CASE PutBlock(c)
          BY <5>2, PutBlockSizes
        <5> QED
          BY <3>3, <5>1, <5>2
      <4>3. job[c].done + n \in Nat
        BY <4>1
      <4>4. job[c].done + n < job[c].size /\ job'[c].done = job[c].done + n
            /\ job'[c].size = job[c].size
        BY <2>2, <4>1, <4>2, <4>3, ContinueTo
      <4>5. HEADER_LENGTH + job[c].size < WORD
        BY <4>1 DEF Sizes, JobSizes
      <4> QED
        BY <4>4, <4>5
    <3>4. CASE ~GetOpen(c) /\ ~PutOpen(c) /\ ~GetBlock(c) /\ ~PutBlock(c)
      <4>1. CASE Hangup({c}) \/ Hangup(Clients)
        BY <2>2, <4>1 DEF Hangup
      <4>2. CASE ~Hangup({c}) /\ ~Hangup(Clients)
        BY <2>2, <3>4, <4>2, ServerTypes DEF Acts, Dies, Thread, CallFails, Accept,
           HandleOpen, HandleList, HandleCd, HandleGet, HandleSha, HandleFile, GetShort,
           HandlePut, PutRefused, ShaSend, HandleQuit, Refuse, ReadFails, SendFails,
           BrokenPipe, PathThrows, CallThrows, Terminate, serverVars, Goto, Request
      <4> QED
        BY <4>1, <4>2
    <3> QED
      BY <3>1, <3>2, <3>3, <3>4
  <2> QED
    BY <2>1, <2>2 DEF JobSizes
<1> QED
  BY <1>1, <1>2, <1>3 DEF Sizes

-----------------------------------------------------------------------------
(* The steps of a client, for itself.                                      *)

LEMMA InMinOfTwo ==
  ASSUME NEW x \in Int, NEW y \in Int, NEW n \in 1..Min({x, y})
  PROVE  n \in Nat /\ 0 < n /\ n <= x /\ n <= y
<1>1. n \in 1..Min({x, y, y})
  <2>1. {x, y, y} = {x, y}
    OBVIOUS
  <2> QED
    BY <2>1
<1> QED
  BY <1>1, InMin

LEMMA ReturnTo ==
  ASSUME IInv, NEW c \in Clients, NEW message, Return(c, message)
  PROVE  cpc'[c] = "prompt" /\ task'[c].done = 0 /\ task'[c].size = 0
<1>1. /\ cpc' = [cpc EXCEPT ![c] = "prompt"]
      /\ task' = [task EXCEPT ![c] = IF message = "none" THEN NoTransfer
                                     ELSE Transfer(task[c].name, 0, 0)]
  BY DEF Return, Move
<1> QED
  BY <1>1, ClientTypes DEF NoTransfer, Transfer

\* Where Carry leads.
LEMMA CarryTo ==
  ASSUME IInv, NEW c \in Clients, NEW place, NEW done \in Nat, NEW size \in Lengths,
         NEW message, Carry(c, place, done, size, message)
  PROVE  /\ done < size => /\ cpc'[c] = place /\ task'[c].done = done
                           /\ task'[c].size = size /\ task'[c].name = task[c].name
         /\ ~(done < size) => cpc'[c] = "prompt"
<1>1. CASE done < size
  <2>1. /\ cpc' = [cpc EXCEPT ![c] = place]
        /\ task' = [task EXCEPT ![c].done = done, ![c].size = size]
    BY <1>1 DEF Carry, Move
  <2> QED
    BY <1>1, <2>1, ClientTypes DEF Transfers
<1>2. CASE ~(done < size)
  BY <1>2, ReturnTo DEF Carry
<1> QED
  BY <1>1, <1>2

\* A client in step that meets a header has its reply before it.
LEMMA ReplyMet ==
  ASSUME IInv, NEW c \in Clients, InStepAt(c), Whole(c), cpc[c] \in Waiting,
         HeadReady(toClient[c])
  PROVE  LET header == ReadHead(toClient[c])
         IN  /\ Answered(c) /\ toServer[c] = <<>> /\ Is(Expected[cpc[c]], header)
             /\ toClient[c] \in Seq(Byte) /\ HEADER_LENGTH <= Len(toClient[c])
             /\ header \in HeaderType /\ cpc[c] # "quit"
<1>1. toClient[c] \in Seq(Byte) /\ HEADER_LENGTH <= Len(toClient[c]) /\ toClient[c] # <<>>
  BY ServerTypes, WordFacts, EmptySeq DEF HeadReady
<1>2. Answered(c) /\ toServer[c] = <<>>
  BY <1>1 DEF InStepAt, Quiet, Asked, Answered
<1>3. Is(Expected[cpc[c]], ReadHead(toClient[c]))
  <2>1. CASE cpc[c] \in {"open", "ls", "cd", "get", "put", "sha"}
    BY <1>2, <2>1 DEF Answered, Front
  <2>2. CASE cpc[c] = "gethead"
    BY <1>1, <1>2, <2>2, ExpectedKinds DEF Answered, FileComes, Front
  <2>3. CASE cpc[c] = "shahead"
    BY <1>1, <1>2, <2>3, ExpectedKinds DEF Answered, ShaComes, Front
  <2>4. cpc[c] # "quit"
    BY <1>2 DEF Answered
  <2> QED
    BY <2>1, <2>2, <2>3, <2>4 DEF Waiting
<1>4. cpc[c] # "quit"
  BY <1>2 DEF Answered
<1> QED
  BY <1>1, <1>2, <1>3, <1>4, ReadHeadType

LEMMA ReplyTaken ==
  ASSUME IInv, NEW c \in Clients, InStepAt(c), Whole(c), NEW place \in Waiting,
         Replied(c, place)
  PROVE  /\ Answered(c) /\ cpc[c] = place /\ toServer[c] = <<>>
         /\ Is(Expected[place], ReadHead(toClient[c]))
         /\ toClient[c] \in Seq(Byte) /\ HEADER_LENGTH <= Len(toClient[c])
         /\ ReadHead(toClient[c]) \in HeaderType
         /\ toClient'[c] = Rest(toClient[c], HEADER_LENGTH)
         /\ toClient'[c] \in Seq(Byte)
         /\ Len(toClient'[c]) = Len(toClient[c]) - HEADER_LENGTH
         /\ Len(toClient[c]) = HEADER_LENGTH => toClient'[c] = <<>>
<1>1. /\ cpc[c] = place /\ HeadReady(toClient[c])
      /\ toClient'[c] = Rest(toClient[c], HEADER_LENGTH)
  BY ServerTypes DEF Replied, ClientTakes
<1>2. /\ Answered(c) /\ toServer[c] = <<>> /\ Is(Expected[place], ReadHead(toClient[c]))
      /\ toClient[c] \in Seq(Byte) /\ HEADER_LENGTH <= Len(toClient[c])
      /\ ReadHead(toClient[c]) \in HeaderType
  BY <1>1, ReplyMet
<1>3. Rest(toClient[c], HEADER_LENGTH) \in Seq(Byte)
      /\ Len(Rest(toClient[c], HEADER_LENGTH)) = Len(toClient[c]) - HEADER_LENGTH
  BY <1>2, RestFacts, WordFacts
<1> QED
  BY <1>1, <1>2, <1>3, RestAll

\* Back at the prompt with nothing left.
LEMMA Settles ==
  ASSUME NEW c \in Clients, cpc'[c] = "prompt", toClient'[c] = <<>>, toServer'[c] = <<>>,
         spc'[c] = "head"
  PROVE  Quiet(c)'
<1>1. Uploading(c)' /\ Wanted(c)' = 0 /\ Unsent(c)' = 0
  BY DEF Uploading, Wanted, Unsent
<1> QED
  BY <1>1, EmptySeq DEF Quiet

LEMMA InStepGotBare ==
  ASSUME IInv, NEW c \in Clients, InStepAt(c), Whole(c),
         GotOpen(c) \/ GotCd(c), UNCHANGED serverVars
  PROVE  Quiet(c)'
<1>1. PICK place \in {"open", "cd"} : Replied(c, place) /\ Return(c, "none")
  BY DEF GotOpen, GotCd
<1>2. /\ Answered(c) /\ cpc[c] = place /\ toServer[c] = <<>>
      /\ Len(toClient[c]) = HEADER_LENGTH => toClient'[c] = <<>>
  BY <1>1, ReplyTaken DEF Waiting
<1>3. spc[c] = "head" /\ Len(toClient[c]) = HEADER_LENGTH
  BY <1>2 DEF Answered
<1>4. cpc'[c] = "prompt" /\ spc' = spc /\ toServer' = toServer
  BY <1>1, ReturnTo DEF GotOpen, GotCd, serverVars
<1> QED
  BY <1>2, <1>3, <1>4, Settles

LEMMA InStepGotFile ==
  ASSUME IInv, NEW c \in Clients, InStepAt(c), Whole(c),
         GotGet(c) \/ GotSha(c), UNCHANGED serverVars
  PROVE  Quiet(c)' \/ Answered(c)'
<1>1. PICK place \in {"get", "sha"}, next \in {"gethead", "shahead"} :
        /\ GotFile(c, place, next) /\ Replied(c, place)
        /\ next = IF place = "get" THEN "gethead" ELSE "shahead"
  BY DEF GotGet, GotSha, GotFile
<1>2. /\ Answered(c) /\ cpc[c] = place /\ toServer[c] = <<>>
      /\ toClient'[c] = Rest(toClient[c], HEADER_LENGTH)
      /\ Len(toClient[c]) = HEADER_LENGTH => toClient'[c] = <<>>
  BY <1>1, ReplyTaken DEF Waiting
<1>3. spc' = spc /\ job' = job /\ toServer' = toServer
  BY <1>1 DEF GotFile, serverVars
<1>4. CASE GotStatus(c) = 1
  <2>1. cpc'[c] = next
    BY <1>1, <1>4, ClientTypes DEF GotFile, Move
  <2>2. PICK t \in Seq(Byte) : t = toClient'[c]
    BY <1>1, ReplyTaken DEF Waiting
  <2>3. CASE place = "get"
    <3>1. FileComes(c, t)
      BY <1>2, <1>4, <2>2, <2>3 DEF Answered, GotStatus
    <3>2. FileComes(c, t)'
      BY <1>3, <3>1 DEF FileComes, Owed
    <3> QED
      BY <1>1, <1>2, <1>3, <2>1, <2>2, <2>3, <3>2 DEF Answered
  <2>4. CASE place = "sha"
    <3>1. ShaComes(c, t)
      BY <1>2, <1>4, <2>2, <2>4 DEF Answered, GotStatus
    <3>2. ShaComes(c, t)'
      BY <1>3, <3>1 DEF ShaComes
    <3> QED
      BY <1>1, <1>2, <1>3, <2>1, <2>2, <2>4, <3>2 DEF Answered
  <2> QED
    BY <2>3, <2>4
<1>5. CASE GotStatus(c) # 1
  <2>1. cpc'[c] = "prompt"
    BY <1>1, <1>5, ReturnTo DEF GotFile
  <2>2. spc[c] = "head" /\ Len(toClient[c]) = HEADER_LENGTH
    BY <1>2, <1>5 DEF Answered, GotStatus
  <2> QED
    BY <1>2, <1>3, <2>1, <2>2, Settles
<1> QED
  BY <1>4, <1>5

\* The payload that a header of a listing, or of data, announces.
LEMMA PayloadRead ==
  ASSUME NEW kind \in {LIST_REPLY, File_DATA}, NEW header \in HeaderType, Is(kind, header)
  PROVE  /\ PayloadLength(header) \in Nat /\ PayloadLength(header) \in Lengths
         /\ header.length = HEADER_LENGTH + PayloadLength(header)
         /\ HEADER_LENGTH + PayloadLength(header) < WORD
         /\ kind = LIST_REPLY => 0 < PayloadLength(header)
<1>1. header.length \in Nat /\ PayloadLength(header) \in Lengths
  BY LengthType
<1>2. /\ HEADER_LENGTH <= header.length
      /\ kind = LIST_REPLY => HEADER_LENGTH + 1 <= header.length
  BY <1>1, WordFacts DEF Is, LIST_REPLY, File_DATA, WithPayload
<1>3. header.length < WORD /\ PayloadLength(header) = header.length - HEADER_LENGTH
  BY <1>2, LengthRead
<1> DEFINE n == PayloadLength(header)
           length == header.length
<1> HIDE DEF n, length
<1>4. /\ n \in Nat /\ length = HEADER_LENGTH + n /\ HEADER_LENGTH + n < WORD
      /\ kind = LIST_REPLY => 0 < n
  BY <1>1, <1>2, <1>3, HeaderAssumption, WordAssumption DEF n, length
<1> QED
  BY <1>1, <1>4 DEF n, length

LEMMA InStepGotList ==
  ASSUME IInv, TaskSizes, NEW c \in Clients, InStepAt(c), Whole(c),
         GotList(c), UNCHANGED serverVars
  PROVE  Answered(c)'
<1> DEFINE header == ReadHead(toClient[c])
<1>1. /\ Answered(c) /\ cpc[c] = "ls" /\ toServer[c] = <<>>
      /\ header \in HeaderType /\ Is(LIST_REPLY, header)
      /\ Len(toClient'[c]) = Len(toClient[c]) - HEADER_LENGTH
  BY ReplyTaken, ExpectedKinds DEF GotList, Waiting
<1>2. spc[c] = "head" /\ Len(toClient[c]) = header.length
  BY <1>1 DEF Answered
<1>3. /\ task'[c].size = PayloadLength(header) /\ task'[c].done = task[c].done
      /\ cpc'[c] = "lsdata" /\ spc' = spc /\ toServer' = toServer
  BY ClientTypes DEF GotList, Move, GotLength, serverVars, Transfers
<1>4. task[c].done = 0
  BY <1>1 DEF TaskSizes, Waiting
<1> HIDE DEF header
<1>5. PayloadLength(header) \in Nat /\ header.length = HEADER_LENGTH + PayloadLength(header)
  BY <1>1, PayloadRead
<1>6. Len(toClient'[c]) = task'[c].size - task'[c].done
  BY <1>1, <1>2, <1>3, <1>4, <1>5, WordFacts
<1> QED
  BY <1>1, <1>2, <1>3, <1>6 DEF Answered

\* A client takes bytes of what comes.
LEMMA Taken ==
  ASSUME IInv, NEW c \in Clients, NEW n \in Nat, n <= Len(toClient[c]), ClientTakes(c, n)
  PROVE  /\ toClient'[c] \in Seq(Byte) /\ Len(toClient'[c]) = Len(toClient[c]) - n
         /\ n = Len(toClient[c]) => toClient'[c] = <<>>
<1>1. toClient'[c] = Rest(toClient[c], n) /\ toClient[c] \in Seq(Byte)
  BY ServerTypes DEF ClientTakes
<1> QED
  BY <1>1, RestFacts, RestAll

LEMMA InStepListPart ==
  ASSUME IInv, TaskSizes, NEW c \in Clients, InStepAt(c), Whole(c),
         ListPart(c), UNCHANGED serverVars
  PROVE  Quiet(c)' \/ Answered(c)'
<1>1. cpc[c] = "lsdata" /\ Len(toClient[c]) \in Nat
  BY ServerTypes DEF ListPart
<1>2. PICK n \in 1..Min({task[c].size, Len(toClient[c])}) :
        /\ ClientTakes(c, n)
        /\ IF task[c].done + n < task[c].size
           THEN task' = [task EXCEPT ![c].done = task[c].done + n] /\ UNCHANGED <<cpc, told>>
           ELSE Return(c, "none")
  BY DEF ListPart
<1>3. task[c].size \in Nat /\ task[c].done \in Nat
  BY TransferTypes
<1>4. n \in Nat /\ n <= Len(toClient[c])
  <2>1. task[c].size \in Int /\ Len(toClient[c]) \in Int
    BY <1>1, <1>3
  <2> QED
    BY <2>1, InMinOfTwo
<1>5. /\ Len(toClient'[c]) = Len(toClient[c]) - n
      /\ n = Len(toClient[c]) => toClient'[c] = <<>>
  BY <1>2, <1>4, Taken
<1>6. Answered(c) /\ spc[c] = "head" /\ toServer[c] = <<>>
      /\ Len(toClient[c]) = task[c].size - task[c].done
  BY <1>1 DEF InStepAt, Quiet, Asked, Requested, Answered
<1>7. spc' = spc /\ toServer' = toServer
  BY DEF ListPart, serverVars
<1>8. CASE task[c].done + n < task[c].size
  <2>1. /\ cpc' = cpc /\ task'[c].done = task[c].done + n
        /\ task'[c].size = task[c].size
    BY <1>2, <1>8, ClientTypes DEF Transfers
  <2>2. Len(toClient'[c]) = task'[c].size - task'[c].done
    BY <1>1, <1>3, <1>4, <1>5, <1>6, <2>1
  <2> QED
    BY <1>1, <1>6, <1>7, <2>1, <2>2 DEF Answered
<1>9. CASE ~(task[c].done + n < task[c].size)
  <2>1. n = Len(toClient[c])
    BY <1>1, <1>3, <1>4, <1>6, <1>9
  <2>2. cpc'[c] = "prompt"
    BY <1>2, <1>9, ReturnTo
  <2> QED
    BY <1>5, <1>6, <1>7, <2>1, <2>2, Settles
<1> QED
  BY <1>8, <1>9

\* The thread owes nothing more: it is back for the next request.
LEMMA NothingOwed ==
  ASSUME IInv, JobSizes, NEW c \in Clients, spc[c] \in {"getdata", "head"}
  PROVE  Owed(c) \in Nat /\ (Owed(c) = 0 => spc[c] = "head")
<1>1. spc[c] = "getdata" => job[c].done \in Nat /\ job[c].size \in Nat
  BY OpenedFile
<1>2. spc[c] = "getdata" => job[c].done < job[c].size
  BY DEF JobSizes
<1> QED
  BY <1>1, <1>2 DEF Owed

LEMMA InStepGetStart ==
  ASSUME IInv, TaskSizes, JobSizes, NEW c \in Clients, InStepAt(c), Whole(c),
         GetStart(c) \/ (GetUnopened(c) /\ GotLength(c) = 0), UNCHANGED serverVars
  PROVE  Quiet(c)' \/ Answered(c)'
<1> DEFINE header == ReadHead(toClient[c])
           size == PayloadLength(header)
<1>1. /\ Answered(c) /\ cpc[c] = "gethead" /\ toServer[c] = <<>>
      /\ header \in HeaderType /\ Is(File_DATA, header) /\ toClient[c] \in Seq(Byte)
      /\ toClient'[c] \in Seq(Byte) /\ HEADER_LENGTH <= Len(toClient[c])
      /\ Len(toClient'[c]) = Len(toClient[c]) - HEADER_LENGTH
  BY ReplyTaken, ExpectedKinds DEF GetStart, GetUnopened, Waiting
<1>2. spc[c] \in {"getdata", "head"} /\ Len(toClient[c]) + Owed(c) = header.length
  <2>1. toClient[c] # <<>>
    BY <1>1, WordFacts, EmptySeq
  <2> QED
    BY <1>1, <2>1 DEF Answered, FileComes
<1>3. spc' = spc /\ toServer' = toServer /\ Owed(c)' = Owed(c)
  BY DEF GetStart, GetUnopened, serverVars, Owed
<1>4. /\ size \in Nat /\ size \in Lengths /\ header.length = HEADER_LENGTH + size
  BY <1>1, PayloadRead
<1>5. \/ Carry(c, "getdata", 0, size, "get")
      \/ Return(c, "none") /\ size = 0
  BY DEF GetStart, GetUnopened, GotLength
<1> HIDE DEF header, size
<1>6. Owed(c) \in Nat /\ (Owed(c) = 0 => spc[c] = "head")
  BY <1>2, NothingOwed
<1>7. Len(toClient'[c]) + Owed(c) = size
  <2>1. Owed(c) \in Nat /\ Len(toClient[c]) \in Nat /\ Len(toClient'[c]) \in Nat
    BY <1>1, <1>6
  <2>2. Len(toClient[c]) + Owed(c) = HEADER_LENGTH + size
    BY <1>2, <1>4
  <2>3. Len(toClient'[c]) = Len(toClient[c]) - HEADER_LENGTH
    BY <1>1
  <2> QED
    BY <1>4, <2>1, <2>2, <2>3, HeaderAssumption
<1>8. CASE 0 < size
  <2>1. cpc'[c] = "getdata" /\ task'[c].done = 0 /\ task'[c].size = size
    BY <1>4, <1>5, <1>8, CarryTo
  <2>2. Len(toClient'[c]) + Owed(c)' = task'[c].size - task'[c].done
    BY <1>3, <1>4, <1>7, <2>1
  <2> QED
    BY <1>1, <1>2, <1>3, <2>1, <2>2 DEF Answered
<1>9. CASE ~(0 < size)
  <2>1. cpc'[c] = "prompt"
    BY <1>4, <1>5, <1>9, CarryTo, ReturnTo
  <2>2. Len(toClient'[c]) = 0 /\ Owed(c) = 0
    BY <1>1, <1>4, <1>6, <1>7, <1>9
  <2>3. toClient'[c] = <<>>
    BY <1>1, <2>2, EmptySeq
  <2> QED
    BY <1>1, <1>3, <1>6, <2>1, <2>2, <2>3, Settles
<1> QED
  BY <1>8, <1>9

\* The part that fills a transfer is all that was left of it.
LEMMA LastPart ==
  ASSUME NEW came \in Int, NEW owed \in Nat, NEW size \in Int, NEW done \in Int, NEW n \in Int,
         came + owed = size - done, n <= came, ~(done + n < size)
  PROVE  n = came /\ owed = 0
OBVIOUS

LEMMA InStepGetPart ==
  ASSUME IInv, TaskSizes, JobSizes, NEW c \in Clients, InStepAt(c), Whole(c),
         GetPart(c), UNCHANGED serverVars
  PROVE  Quiet(c)' \/ Answered(c)'
<1>1. cpc[c] = "getdata" /\ Len(toClient[c]) \in Nat
  BY ServerTypes DEF GetPart
<1>2. PICK n \in 1..Min({Block, task[c].size - task[c].done, Len(toClient[c])}) :
        /\ ClientTakes(c, n)
        /\ Carry(c, "getdata", task[c].done + n, task[c].size, "get")
  BY DEF GetPart
<1>3. task[c].size \in Nat /\ task[c].done \in Nat /\ task[c].size \in Lengths
  BY TransferTypes
<1>4. n \in Nat /\ n <= Len(toClient[c]) /\ n <= task[c].size - task[c].done
  <2>1. Block \in Int /\ task[c].size - task[c].done \in Int /\ Len(toClient[c]) \in Int
    BY <1>1, <1>3, BlockAssumption
  <2> QED
    BY <2>1, InMin
<1>5. /\ toClient'[c] \in Seq(Byte) /\ Len(toClient'[c]) = Len(toClient[c]) - n
      /\ n = Len(toClient[c]) => toClient'[c] = <<>>
  BY <1>2, <1>4, Taken
<1>6. Answered(c) /\ spc[c] \in {"getdata", "head"} /\ toServer[c] = <<>>
      /\ Len(toClient[c]) + Owed(c) = task[c].size - task[c].done
  BY <1>1 DEF InStepAt, Quiet, Asked, Requested, Answered
<1>7. spc' = spc /\ toServer' = toServer /\ Owed(c)' = Owed(c)
  BY DEF GetPart, serverVars, Owed
<1>8. Owed(c) \in Nat /\ (Owed(c) = 0 => spc[c] = "head")
  BY <1>6, NothingOwed
<1>9. task[c].done + n \in Nat
  BY <1>3, <1>4
<1>10. CASE task[c].done + n < task[c].size
  <2>1. /\ cpc'[c] = "getdata" /\ task'[c].done = task[c].done + n
        /\ task'[c].size = task[c].size
    BY <1>2, <1>3, <1>9, <1>10, CarryTo
  <2>2. Len(toClient'[c]) + Owed(c)' = task'[c].size - task'[c].done
    <3>1. Owed(c) \in Nat /\ Len(toClient'[c]) = Len(toClient[c]) - n
      BY <1>5, <1>8
    <3>2. Len(toClient[c]) + Owed(c) = task[c].size - task[c].done
      BY <1>6
    <3>3. Len(toClient[c]) - n + Owed(c) = task[c].size - (task[c].done + n)
      <4> DEFINE came == Len(toClient[c])
                 owed == Owed(c)
                 size == task[c].size
                 done == task[c].done
      <4>1. /\ came \in Int /\ owed \in Int /\ size \in Int /\ done \in Int /\ n \in Int
            /\ came + owed = size - done
        BY <1>1, <1>3, <1>4, <3>1, <3>2
      <4> HIDE DEF came, owed, size, done
      <4>2. came - n + owed = size - (done + n)
        BY <4>1
      <4> QED
        BY <4>2 DEF came, owed, size, done
    <3> QED
      BY <1>7, <2>1, <3>1, <3>3
  <2> QED
    BY <1>6, <1>7, <2>1, <2>2 DEF Answered
<1>11. CASE ~(task[c].done + n < task[c].size)
  <2>1. cpc'[c] = "prompt"
    BY <1>2, <1>3, <1>9, <1>11, CarryTo
  <2>2. n = Len(toClient[c]) /\ Owed(c) = 0
    <3>1. /\ Len(toClient[c]) \in Int /\ Owed(c) \in Nat /\ task[c].size \in Int
          /\ task[c].done \in Int /\ n \in Int
      BY <1>1, <1>3, <1>4, <1>8
    <3> QED
      BY SMTT(30), <1>4, <1>6, <1>11, <3>1, LastPart
  <2> QED
    BY <1>5, <1>6, <1>7, <1>8, <2>1, <2>2, Settles
<1> QED
  BY <1>10, <1>11

LEMMA SentFrom ==
  ASSUME IInv, NEW c \in Clients, sopen[c], NEW bytes \in Seq(Byte), ClientSends(c, bytes)
  PROVE  toServer'[c] = toServer[c] \o bytes
BY ServerTypes DEF ClientSends

LEMMA InStepGotPut ==
  ASSUME IInv, TaskSizes, NEW c \in Clients, InStepAt(c), Whole(c),
         GotPut(c), UNCHANGED serverVars
  PROVE  Quiet(c)'
<1> DEFINE size == task[c].size
           header == Create(File_DATA, 0, size)
           bytes == HeaderBytes(header)
<1>1. /\ Answered(c) /\ cpc[c] = "put" /\ toServer[c] = <<>>
      /\ Len(toClient[c]) = HEADER_LENGTH => toClient'[c] = <<>>
  BY ReplyTaken DEF GotPut, Waiting
<1>2. spc[c] = "puthead" /\ toClient'[c] = <<>> /\ spc'[c] = "puthead"
  BY <1>1 DEF Answered, GotPut, serverVars
<1>3. size \in Nat /\ size \in Lengths /\ HEADER_LENGTH + size < WORD
  BY <1>1, TransferTypes DEF TaskSizes
<1>4. ClientSends(c, bytes) /\ Carry(c, "putdata", 0, size, "put")
  BY DEF GotPut
<1> HIDE DEF size
<1>5. /\ header \in HeaderType /\ Is(File_DATA, header)
      /\ header.length = HEADER_LENGTH + size
  BY <1>3, DataSent
<1> HIDE DEF header
<1>6. /\ bytes \in Seq(Byte) /\ Len(bytes) = HEADER_LENGTH
      /\ Front(bytes, File_DATA) /\ HeadReady(bytes) /\ ReadHead(bytes) = header
  BY <1>5, HeaderAlone DEF Front
<1> HIDE DEF bytes
<1>7. toServer'[c] = bytes
  <2>1. toServer'[c] = <<>> \o bytes
    BY <1>1, <1>4, <1>6, SentFrom DEF Whole
  <2> QED
    BY <1>6, <2>1, ConcatEmptySeq
<1>8. Uploading(c)' /\ Wanted(c)' = HEADER_LENGTH + size
  BY <1>2, <1>5, <1>6, <1>7 DEF Uploading, Wanted
<1>9. cpc'[c] \in {"prompt", "putdata"} /\ Unsent(c)' = size
  <2>1. CASE 0 < size
    <3>1. cpc'[c] = "putdata" /\ task'[c].done = 0 /\ task'[c].size = size
      BY <1>3, <1>4, <2>1, CarryTo
    <3> QED
      BY <1>3, <3>1 DEF Unsent
  <2>2. CASE ~(0 < size)
    <3>1. cpc'[c] = "prompt" /\ size = 0
      BY <1>3, <1>4, <2>2, CarryTo
    <3> QED
      BY <3>1 DEF Unsent
  <2> QED
    BY <2>1, <2>2
<1> QED
  BY <1>2, <1>6, <1>7, <1>8, <1>9 DEF Quiet

\* What a client sends goes behind an upload.
LEMMA UploadGrows ==
  ASSUME IInv, NEW c \in Clients, Uploading(c), NEW bytes \in Seq(Byte),
         toServer'[c] = toServer[c] \o bytes, UNCHANGED serverVars
  PROVE  Uploading(c)' /\ Wanted(c)' = Wanted(c)
<1>1. toServer[c] \in Seq(Byte)
  BY ServerTypes
<1>2. CASE spc[c] = "puthead"
  <2>1. Front(toServer[c], File_DATA)
    BY <1>2 DEF Uploading
  <2>2. /\ Front(toServer'[c], File_DATA) /\ ReadHead(toServer'[c]) = ReadHead(toServer[c])
    BY <1>1, <2>1, FrontAppend
  <2> QED
    BY <1>2, <2>1, <2>2 DEF Uploading, Wanted, Front, serverVars
<1>3. CASE spc[c] # "puthead"
  BY <1>3 DEF Uploading, Wanted, serverVars
<1> QED
  BY <1>2, <1>3

LEMMA InStepPutPart ==
  ASSUME IInv, TaskSizes, NEW c \in Clients, InStepAt(c), Whole(c),
         PutPart(c), UNCHANGED serverVars
  PROVE  Quiet(c)'
<1> DEFINE done == task[c].done
           size == task[c].size
           block == LocalBlock(c)
<1>1. /\ cpc[c] = "putdata" /\ UNCHANGED toClient
      /\ ClientSends(c, block) /\ Carry(c, "putdata", done + Len(block), size, "put")
  BY DEF PutPart
<1>2. done \in Nat /\ size \in Nat /\ size \in Lengths /\ done < size /\ done <= size
  BY <1>1, TransferTypes DEF TaskSizes
<1>3. block \in Seq(Byte) /\ done + Len(block) <= size
  <2>1. local[c][task[c].name] \in Seq(Byte)
    BY <1>1 DEF IInv, TaskNamed
  <2> QED
    BY <1>2, <2>1, NextBlockFits DEF LocalBlock
<1>4. /\ toClient[c] = <<>> /\ Uploading(c)
      /\ Len(toServer[c]) + (size - done) = Wanted(c)
  BY <1>1 DEF InStepAt, Quiet, Asked, Requested, Answered, Unsent
<1> HIDE DEF done, size, block
<1>5. toServer'[c] = toServer[c] \o block
  BY <1>1, <1>3, SentFrom DEF Whole
<1>6. Uploading(c)' /\ Wanted(c)' = Wanted(c)
  BY <1>3, <1>4, <1>5, UploadGrows
<1>7. Len(toServer'[c]) = Len(toServer[c]) + Len(block) /\ Len(toServer[c]) \in Nat
      /\ Len(block) \in Nat /\ done + Len(block) \in Nat
  BY <1>2, <1>3, <1>5, ServerTypes, ConcatProperties
<1>8. cpc'[c] \in {"prompt", "putdata"} /\ Unsent(c)' = size - (done + Len(block))
  <2>1. CASE done + Len(block) < size
    <3>1. cpc'[c] = "putdata" /\ task'[c].done = done + Len(block) /\ task'[c].size = size
      BY <1>1, <1>2, <1>7, <2>1, CarryTo
    <3> QED
      BY <3>1 DEF Unsent
  <2>2. CASE ~(done + Len(block) < size)
    <3>1. cpc'[c] = "prompt"
      BY <1>1, <1>2, <1>7, <2>2, CarryTo
    <3>2. size - (done + Len(block)) = 0
      BY <1>2, <1>3, <1>7, <2>2
    <3> QED
      BY <3>1, <3>2 DEF Unsent
  <2> QED
    BY <2>1, <2>2
<1>9. Len(toServer'[c]) + Unsent(c)' = Wanted(c)'
  <2>1. Len(toServer[c]) + Len(block) + (size - (done + Len(block)))
          = Len(toServer[c]) + (size - done)
    BY <1>2, <1>7
  <2> QED
    BY <1>4, <1>6, <1>7, <1>8, <2>1
<1> QED
  BY <1>1, <1>4, <1>6, <1>8, <1>9 DEF Quiet

LEMMA InStepSha ==
  ASSUME IInv, TaskSizes, NEW c \in Clients, InStepAt(c), Whole(c), slip'[c] = {},
         ShaStart(c) \/ ShaPart(c), UNCHANGED serverVars
  PROVE  Answered(c)'
<1>1. spc' = spc /\ toServer' = toServer
  BY DEF ShaStart, ShaPart, serverVars
<1>2. ASSUME NEW done, NEW size, ShaStep(c, done, size) PROVE done < size
  BY <1>2, ClientTypes DEF ShaStep
<1>3. CASE ShaStart(c)
  <2> DEFINE header == ReadHead(toClient[c])
             size == (PayloadLength(header) - 1) % WORD
  <2>1. /\ Answered(c) /\ cpc[c] = "shahead" /\ toServer[c] = <<>>
        /\ header \in HeaderType /\ Is(File_DATA, header)
        /\ toClient[c] \in Seq(Byte) /\ HEADER_LENGTH <= Len(toClient[c])
        /\ Len(toClient'[c]) = Len(toClient[c]) - HEADER_LENGTH
    BY <1>3, ReplyTaken, ExpectedKinds DEF ShaStart, Waiting
  <2>2. /\ spc[c] = "head" /\ Len(toClient[c]) = header.length
        /\ HEADER_LENGTH < Len(toClient[c])
    <3>1. toClient[c] # <<>>
      BY <2>1, WordFacts, EmptySeq
    <3> QED
      BY <2>1, <3>1 DEF Answered, ShaComes
  <2>3. ShaStep(c, 0, size)
    BY <1>3 DEF ShaStart, GotLength
  <2>4. /\ PayloadLength(header) \in Nat
        /\ header.length = HEADER_LENGTH + PayloadLength(header)
        /\ HEADER_LENGTH + PayloadLength(header) < WORD
    BY <2>1, PayloadRead
  <2>5. size = PayloadLength(header) - 1 /\ size \in Nat /\ size \in Lengths
    <3> DEFINE n == PayloadLength(header)
    <3>1. n \in Nat /\ Len(toClient[c]) = HEADER_LENGTH + n
          /\ HEADER_LENGTH < Len(toClient[c]) /\ HEADER_LENGTH + n < WORD
      BY <2>2, <2>4
    <3> HIDE DEF n
    <3>2. n - 1 \in Nat /\ n - 1 < WORD /\ n - 1 \in Int
      BY <3>1, HeaderAssumption, WordAssumption
    <3> QED
      BY <3>2, ModSmall, WordFacts DEF n
  <2> HIDE DEF size, header
  <2>6. cpc'[c] = "shadata" /\ task'[c].done = 0 /\ task'[c].size = size
    BY <1>2, <2>3, <2>5, CarryTo DEF ShaStep
  <2>7. Len(toClient'[c]) = task'[c].size - task'[c].done + 1
    BY <2>1, <2>2, <2>4, <2>5, <2>6, WordFacts
  <2> QED
    BY <1>1, <2>1, <2>2, <2>6, <2>7 DEF Answered
<1>4. CASE ShaPart(c)
  <2>1. cpc[c] = "shadata" /\ Len(toClient[c]) \in Nat
    BY <1>4, ServerTypes DEF ShaPart
  <2>2. PICK n \in 1..Min({task[c].size - task[c].done, Len(toClient[c])}) :
          ClientTakes(c, n) /\ ShaStep(c, task[c].done + n, task[c].size)
    BY <1>4 DEF ShaPart
  <2>3. task[c].size \in Nat /\ task[c].done \in Nat /\ task[c].size \in Lengths
    BY TransferTypes
  <2>4. n \in Nat /\ n <= Len(toClient[c])
    <3>1. task[c].size - task[c].done \in Int /\ Len(toClient[c]) \in Int
      BY <2>1, <2>3
    <3> QED
      BY <3>1, InMinOfTwo
  <2>5. Len(toClient'[c]) = Len(toClient[c]) - n
    BY <2>2, <2>4, Taken
  <2>6. Answered(c) /\ spc[c] = "head" /\ toServer[c] = <<>>
        /\ Len(toClient[c]) = task[c].size - task[c].done + 1
    BY <2>1 DEF InStepAt, Quiet, Asked, Requested, Answered
  <2>7. task[c].done + n \in Nat /\ task[c].done + n < task[c].size
    BY <1>2, <2>2, <2>3, <2>4
  <2>8. /\ cpc'[c] = "shadata" /\ task'[c].done = task[c].done + n
        /\ task'[c].size = task[c].size
    BY <2>2, <2>3, <2>7, CarryTo DEF ShaStep
  <2>9. Len(toClient'[c]) = task'[c].size - task'[c].done + 1
    BY <2>1, <2>3, <2>4, <2>5, <2>6, <2>8
  <2> QED
    BY <1>1, <2>6, <2>8, <2>9 DEF Answered
<1> QED
  BY <1>3, <1>4

\* A request goes behind the rest of an upload.
LEMMA RequestSent ==
  ASSUME IInv, TaskSizes, NEW c \in Clients, InStepAt(c), Whole(c), cpc[c] = "prompt",
         NEW bytes \in Seq(Byte), ClientSends(c, bytes),
         cpc'[c] \in DOMAIN Requested, RequestBytes(c)' = bytes,
         UNCHANGED <<toClient, serverVars>>
  PROVE  Asked(c)'
<1>1. /\ toClient[c] = <<>> /\ Uploading(c) /\ Len(toServer[c]) = Wanted(c)
      /\ toServer[c] \in Seq(Byte) /\ Len(toServer[c]) \in Nat
  BY ServerTypes DEF InStepAt, Quiet, Asked, Requested, Answered, Unsent
<1>2. toServer'[c] = toServer[c] \o bytes
  BY SentFrom DEF Whole
<1>3. Uploading(c)' /\ Wanted(c)' = Len(toServer[c])
  BY <1>1, <1>2, UploadGrows
<1>4. Len(toServer[c]) <= Len(toServer'[c])
  BY <1>1, <1>2, ConcatProperties
<1>5. Rest(toServer'[c], Len(toServer[c])) = bytes
  <2>1. PICK s \in Seq(Byte) : s = toServer[c]
    BY <1>1
  <2>2. Len(s) \in Nat /\ Len(s) <= Len(s) /\ Rest(s, Len(s)) = <<>>
    BY RestAll
  <2>3. Rest(s \o bytes, Len(s)) = Rest(s, Len(s)) \o bytes
    BY <2>2, RestAppend
  <2> QED
    BY <1>2, <2>1, <2>2, <2>3, ConcatEmptySeq
<1> QED
  BY <1>1, <1>3, <1>4, <1>5 DEF Asked

LEMMA InStepCommand ==
  ASSUME IInv, TaskSizes, NEW c \in Clients, InStepAt(c), Whole(c),
         Command(c), UNCHANGED serverVars
  PROVE  Asked(c)'
<1>1. ASSUME NEW command \in {"ls", "quit"}, Issue(c, command, Requested[command])
      PROVE  Asked(c)'
  <2> DEFINE bytes == HeaderBytes(Create(Requested[command], 0, 0))
  <2>1. Requested[command] \in Kinds
    BY RequestedKinds, RequestKinds
  <2>2. bytes \in Seq(Byte)
    BY <2>1, HeaderSent
  <2>3. cpc[c] = "prompt" /\ ClientSends(c, bytes) /\ cpc'[c] = command /\ UNCHANGED toClient
    BY <1>1, ClientTypes DEF Issue, Move
  <2>4. RequestBytes(c)' = bytes /\ command \in DOMAIN Requested
    BY <2>3, RequestedKinds DEF RequestBytes
  <2> HIDE DEF bytes
  <2> QED
    BY <2>2, <2>3, <2>4, RequestSent
<1>2. ASSUME NEW command \in {"cd", "get", "put", "sha"}, NEW name \in Names, NEW size,
             IssueName(c, command, Requested[command], name, size)
      PROVE  Asked(c)'
  <2> DEFINE bytes == HeaderBytes(Create(Requested[command], 0, 1)) \o Payload(<<name, NUL>>)
  <2>1. Requested[command] \in Kinds
    BY RequestedKinds, RequestKinds
  <2>2. bytes \in Seq(Byte)
    <3>1. <<name, NUL>> \in Seq(Values)
      BY ValuesAssumption
    <3> QED
      BY <2>1, <3>1, HeaderSent, PayloadType, ConcatProperties
  <2>3. /\ cpc[c] = "prompt" /\ ClientSends(c, bytes) /\ cpc'[c] = command
        /\ task'[c].name = name /\ UNCHANGED toClient
    BY <1>2, ClientTypes DEF IssueName, Move, Transfer
  <2>4. RequestBytes(c)' = bytes /\ command \in DOMAIN Requested
    BY <2>3, RequestedKinds DEF RequestBytes
  <2> HIDE DEF bytes
  <2> QED
    BY <2>2, <2>3, <2>4, RequestSent
<1> QED
  BY <1>1, <1>2, RequestedKinds, ClientTypes DEF Command, Ls, Cd, Get, Sha, Quit, Put

-----------------------------------------------------------------------------
(* A step of one client leaves the others alone.                           *)

LEMMA ClientApart ==
  ASSUME IInv, NEW c \in Clients, Program(c) \/ User(c) \/ Kill(c) \/ Shorten(c),
         UNCHANGED serverVars
  PROVE  Apart(c) /\ UNCHANGED sopen
<1>1. UNCHANGED sopen
  BY DEF Program, User, Kill, Shorten, Command, Ls, Cd, Get, Sha, Quit, Put, Issue, IssueName,
    GotOpen, GotList, ListPart, GotCd, GotGet, GotSha, GotFile, GetStart, GetUnopened,
    GetPart, GotPut, PutPart, PutShort, ShaStart, ShaPart, GotQuit, BadReply, ReadFailed,
    SendFailed, BrokenPipeKills, Exit, End, connVars
<1>2. \A d \in Clients : d # c => toServer'[d] = toServer[d]
  BY ServerTypes DEF Program, User, Kill, Shorten, Command, Ls, Cd, Get, Sha, Quit, Put, Issue,
    IssueName, GotOpen, GotList, ListPart, GotCd, GotGet, GotSha, GotFile, GetStart,
    GetUnopened, GetPart, GotPut, PutPart, PutShort, ShaStart, ShaPart, GotQuit, BadReply,
    ReadFailed, SendFailed, BrokenPipeKills, Exit, End, connVars, ClientSends
<1>3. \A d \in Clients : d # c => toClient'[d] = toClient[d]
  BY ServerTypes DEF Program, User, Kill, Shorten, Command, Ls, Cd, Get, Sha, Quit, Put, Issue,
    IssueName, Replied, GotOpen, GotList, ListPart, GotCd, GotGet, GotSha, GotFile, GetStart,
    GetUnopened, GetPart, GotPut, PutPart, PutShort, ShaStart, ShaPart, GotQuit, BadReply,
    ReadFailed, Fail, SendFailed, BrokenPipeKills, Exit, End, connVars, ClientTakes,
    ClientCloses
<1>4. \A d \in Clients : d # c => copen'[d] = copen[d]
  BY ServerTypes DEF Program, User, Kill, Shorten, Command, Ls, Cd, Get, Sha, Quit, Put, Issue,
    IssueName, GotOpen, GotList, ListPart, GotCd, GotGet, GotSha, GotFile, GetStart,
    GetUnopened, GetPart, GotPut, PutPart, PutShort, ShaStart, ShaPart, GotQuit, BadReply,
    ReadFailed, Fail, SendFailed, BrokenPipeKills, Exit, End, connVars, ClientCloses
<1>5. \A d \in Clients : d # c => cpc'[d] = cpc[d] /\ task'[d] = task[d]
  BY ZenonT(30), ClientTypes DEF Program, User, Kill, Shorten, Command, Ls, Cd, Get, Sha, Quit, Put, Issue,
    IssueName, GotOpen, GotList, ListPart, GotCd, GotGet, GotSha, GotFile, GetStart,
    GetUnopened, GetPart, GotPut, PutPart, PutShort, ShaStart, ShaPart, ShaStep, GotQuit,
    BadReply, ReadFailed, Fail, SendFailed, BrokenPipeKills, Exit, End, Move, Return, Carry
<1>6. \A d \in Clients : d # c => where'[d] = where[d] /\ slip'[d] = slip[d]
  BY ClientTypes DEF Program, User, Kill, Shorten, Command, Ls, Cd, Get, Sha, Quit, Put, Issue,
    IssueName, GotOpen, GotList, ListPart, GotCd, GotGet, GotSha, GotFile, GetStart,
    GetUnopened, GetPart, GotPut, PutPart, PutShort, ShaStart, ShaPart, ShaStep, GotQuit,
    BadReply, ReadFailed, Fail, SendFailed, BrokenPipeKills, Exit, End, Forget
<1>7. \A d \in Clients : d # c => local'[d] = local[d]
  BY ClientTypes DEF Program, User, Kill, Shorten, Command, Ls, Cd, Get, Sha, Quit, Put, Issue,
    IssueName, GotOpen, GotList, ListPart, GotCd, GotGet, GotSha, GotFile, GetStart,
    GetUnopened, GetPart, GotPut, PutPart, PutShort, ShaStart, ShaPart, GotQuit,
    BadReply, ReadFailed, SendFailed, BrokenPipeKills, Exit, End
<1> QED
  BY <1>1, <1>2, <1>3, <1>4, <1>5, <1>6, <1>7 DEF Apart, serverVars

\* A step that leaves a client whole found it whole, and closed nothing.
LEMMA WasWhole ==
  ASSUME IInv, NEW c \in Clients, Program(c) \/ User(c) \/ Kill(c) \/ Shorten(c),
         UNCHANGED serverVars, Whole(c)'
  PROVE  /\ Whole(c) /\ ~ClientCloses(c) /\ UNCHANGED copen
         /\ ~GotQuit(c) /\ ~BrokenPipeKills(c) /\ ~Exit(c) /\ ~Kill(c)
         /\ ~PutShort(c) /\ ~ReadFailed(c) /\ ~SendFailed(c)
<1>1. UNCHANGED sopen
  BY ClientApart
<1>2. copen'[c] /\ sopen[c] /\ slip'[c] = {}
  BY <1>1 DEF Whole
<1>3. ~GotQuit(c) /\ ~BrokenPipeKills(c) /\ ~Exit(c) /\ ~Kill(c)
  BY <1>2, ServerTypes DEF GotQuit, BrokenPipeKills, Exit, Kill, End, ClientCloses
<1>4. ~PutShort(c) /\ ~ReadFailed(c) /\ ~SendFailed(c)
  BY <1>2, ClientTypes DEF PutShort, ReadFailed, SendFailed
<1>5. ~ClientCloses(c)
  BY <1>2, ServerTypes DEF ClientCloses
<1>6. UNCHANGED copen
  BY <1>3, <1>5 DEF Program, User, Shorten, Command, Ls, Cd, Get, Sha, Quit, Put, Issue,
    IssueName, GotOpen, GotList, ListPart, GotCd, GotGet, GotSha, GotFile, GetStart,
    GetUnopened, GetPart, GotPut, PutPart, PutShort, ShaStart, ShaPart, BadReply, ReadFailed,
    Fail, SendFailed, connVars
<1>7. slip[c] \subseteq slip'[c]
  BY ZenonT(30), <1>3, <1>5, ClientTypes DEF Program, User, Shorten, Command, Ls, Cd, Get, Sha, Quit,
    Put, Issue, IssueName, GotOpen, GotList, ListPart, GotCd, GotGet, GotSha, GotFile,
    GetStart, GetUnopened, GetPart, GotPut, PutPart, PutShort, ShaStart, ShaPart, ShaStep,
    BadReply, ReadFailed, Fail, SendFailed
<1> QED
  BY <1>2, <1>3, <1>4, <1>5, <1>6, <1>7 DEF Whole

LEMMA InStepClient ==
  ASSUME IInv, Sizes, InStep, NEW c \in Clients,
         Program(c) \/ User(c) \/ Kill(c) \/ Shorten(c), UNCHANGED serverVars
  PROVE  InStep'
<1>1. Apart(c) /\ UNCHANGED sopen
  BY ClientApart
<1>2. ASSUME NEW d \in Clients, d # c PROVE InStepAt(d)'
  BY <1>1, <1>2, ApartInStep DEF InStep
<1>3. ASSUME Whole(c)' PROVE Quiet(c)' \/ Asked(c)' \/ Answered(c)'
  <2>1. InStepAt(c) /\ FilesShort /\ JobSizes /\ TaskSizes
    BY DEF InStep, Sizes
  <2>2. slip'[c] = {}
    BY <1>3 DEF Whole
  <2>3. /\ Whole(c) /\ ~GotQuit(c) /\ ~BrokenPipeKills(c) /\ ~Exit(c) /\ ~Kill(c)
        /\ ~PutShort(c) /\ ~ReadFailed(c) /\ ~SendFailed(c)
    BY <1>3, WasWhole
  <2>4. ~BadReply(c)
    BY <2>1, <2>3, ReplyMet DEF BadReply
  <2>5. CASE GetUnopened(c)
    <3>1. GotLength(c) = 0
      BY <2>2, <2>5, ClientTypes DEF GetUnopened
    <3> QED
      BY <2>1, <2>3, <2>5, <3>1, InStepGetStart
  <2>6. CASE Shorten(c)
    <3>1. UNCHANGED <<connVars, serverVars, cpc, task, slip>>
      BY <2>6 DEF Shorten
    <3>2. Wanted(c)' = Wanted(c) /\ Unsent(c)' = Unsent(c) /\ Uploading(c)' = Uploading(c)
          /\ RequestBytes(c)' = RequestBytes(c) /\ Owed(c)' = Owed(c)
      BY <3>1 DEF Wanted, Unsent, Uploading, RequestBytes, Owed, connVars, serverVars
    <3>3. Quiet(c)' = Quiet(c)
      BY <3>1, <3>2 DEF Quiet, connVars, serverVars
    <3>4. ~Asked(c) /\ ~Answered(c)
      BY <2>6, RequestedKinds DEF Shorten, Asked, Answered
    <3> QED
      BY <2>1, <2>3, <3>3, <3>4 DEF InStepAt
  <2>7. CASE ~GetUnopened(c) /\ ~Shorten(c)
    BY <2>1, <2>2, <2>3, <2>4, <2>7, InStepCommand, InStepGotBare, InStepGotList,
       InStepListPart, InStepGotFile, InStepGetStart, InStepGetPart, InStepGotPut,
       InStepPutPart, InStepSha
    DEF Program, User
  <2> QED
    BY <2>5, <2>6, <2>7
<1> QED
  BY <1>2, <1>3 DEF InStep, InStepAt

-----------------------------------------------------------------------------
(* Sizes, in the steps of a client.                                        *)

TaskSizeAt(c) ==
  /\ cpc[c] \in Waiting => task[c].done = 0
  /\ cpc[c] \in Receiving \cup {"putdata"} => task[c].done < task[c].size
  /\ cpc[c] \in {"put", "putdata", "getdata"} => HEADER_LENGTH + task[c].size < WORD
  /\ cpc[c] = "put" => task[c].size = Len(local[c][task[c].name])
  /\ cpc[c] = "getdata" => task[c].done = Len(local[c][task[c].name])

\* One of the client's own files is written.
Rewrites(c) ==
  \E bytes \in Seq(Byte) :
    /\ Short(bytes) /\ task[c].name \in Names
    /\ local' = [local EXCEPT ![c][task[c].name] = bytes]

LEMMA SizedCommand ==
  ASSUME IInv, FilesShort, NEW c \in Clients, Command(c)
  PROVE  TaskSizeAt(c)' /\ UNCHANGED local
<1>1. CASE Ls(c) \/ Quit(c)
  <2>1. PICK command \in {"ls", "quit"} : Issue(c, command, Requested[command])
    BY <1>1, RequestedKinds DEF Ls, Quit
  <2>2. cpc'[c] = command /\ task'[c].done = 0 /\ UNCHANGED local
    BY <2>1, ClientTypes DEF Issue, Move, NoTransfer, Transfer
  <2> QED
    BY <2>2 DEF TaskSizeAt, Receiving
<1>2. CASE Cd(c) \/ Get(c) \/ Sha(c)
  <2>1. PICK command \in {"cd", "get", "sha"}, name \in Names :
          IssueName(c, command, Requested[command], name, 0)
    BY <1>2, RequestedKinds DEF Cd, Get, Sha
  <2>2. cpc'[c] = command /\ task'[c].done = 0 /\ UNCHANGED local
    BY <2>1, ClientTypes DEF IssueName, Move, Transfer
  <2> QED
    BY <2>2 DEF TaskSizeAt, Receiving
<1>3. CASE Put(c)
  <2>1. PICK name \in Names :
          /\ local[c][name] # Absent
          /\ IssueName(c, "put", PUT_REQUEST, name, Len(local[c][name]) % WORD)
    BY <1>3, ClientTypes DEF Put
  <2> DEFINE n == Len(local[c][name])
  <2>2. n \in Nat /\ n \in Int /\ HEADER_LENGTH + n < WORD
    BY <2>1, ClientTypes DEF FilesShort, Short, Files
  <2>3. /\ cpc'[c] = "put" /\ UNCHANGED local
        /\ task'[c].name = name /\ task'[c].done = 0 /\ task'[c].size = n % WORD
    BY <2>1, ClientTypes DEF IssueName, Move, Transfer
  <2>4. Len(local'[c][name]) = n
    BY <2>3
  <2> HIDE DEF n
  <2>5. n % WORD = n
    <3>1. n < WORD
      BY <2>2, HeaderAssumption, WordAssumption
    <3> QED
      BY <2>2, <3>1, ModSmall
  <2> QED
    BY <2>2, <2>3, <2>4, <2>5 DEF TaskSizeAt, Receiving
<1> QED
  BY <1>1, <1>2, <1>3 DEF Command

LEMMA SizedGot ==
  ASSUME IInv, TaskSizes, NEW c \in Clients,
         GotOpen(c) \/ GotList(c) \/ GotCd(c) \/ GotGet(c) \/ GotSha(c) \/ GotPut(c)
  PROVE  TaskSizeAt(c)' /\ UNCHANGED local
<1>1. UNCHANGED local
  BY DEF GotOpen, GotList, GotCd, GotGet, GotSha, GotFile, GotPut
<1>2. CASE cpc'[c] = "prompt"
  BY <1>1, <1>2 DEF TaskSizeAt, Waiting, Receiving
<1>3. CASE GotOpen(c) \/ GotCd(c)
  BY <1>2, <1>3, ReturnTo DEF GotOpen, GotCd
<1>4. CASE GotGet(c) \/ GotSha(c)
  <2>1. ASSUME cpc'[c] # "prompt"
        PROVE  cpc'[c] \in {"gethead", "shahead"} /\ UNCHANGED task /\ cpc[c] \in Waiting
    BY <1>4, <2>1, ReturnTo, ClientTypes DEF GotGet, GotSha, GotFile, Replied, Move, Waiting
  <2>2. ASSUME cpc'[c] # "prompt" PROVE task'[c].done = 0
    BY <2>1, <2>2 DEF TaskSizes
  <2> QED
    BY <1>1, <1>2, <2>1, <2>2 DEF TaskSizeAt, Receiving
<1>5. CASE GotList(c)
  <2> DEFINE header == ReadHead(toClient[c])
             size == PayloadLength(header)
  <2>1. /\ cpc[c] = "ls" /\ HeadReady(toClient[c]) /\ Is(LIST_REPLY, header)
        /\ cpc'[c] = "lsdata" /\ task' = [task EXCEPT ![c].size = size]
    BY <1>5, ExpectedKinds, ClientTypes DEF GotList, Replied, Move, GotLength
  <2>2. 0 < size
    BY <2>1, ReadHeadType, ClientTypes, PayloadRead
  <2> HIDE DEF size
  <2>3. task'[c].done = 0 /\ task'[c].size = size
    BY <2>1, ClientTypes DEF Transfers, TaskSizes, Waiting
  <2> QED
    BY <1>1, <2>1, <2>2, <2>3 DEF TaskSizeAt, Waiting
<1>6. CASE GotPut(c)
  <2>1. /\ cpc[c] = "put" /\ task[c].done = 0 /\ HEADER_LENGTH + task[c].size < WORD
        /\ Carry(c, "putdata", 0, task[c].size, "put")
    BY <1>6 DEF GotPut, Replied, TaskSizes, Waiting
  <2>2. task[c].size \in Lengths
    BY TransferTypes
  <2>3. ASSUME cpc'[c] # "prompt"
        PROVE  /\ cpc'[c] = "putdata" /\ 0 < task[c].size
               /\ task'[c].done = 0 /\ task'[c].size = task[c].size
    BY <2>1, <2>2, <2>3, CarryTo
  <2> QED
    BY <1>1, <1>2, <2>1, <2>3 DEF TaskSizeAt, Waiting, Receiving
<1> QED
  BY <1>3, <1>4, <1>5, <1>6

LEMMA SizedGetStart ==
  ASSUME IInv, NEW c \in Clients, GetStart(c)
  PROVE  TaskSizeAt(c)' /\ Rewrites(c)
<1> DEFINE header == ReadHead(toClient[c])
           size == PayloadLength(header)
<1>1. /\ cpc[c] = "gethead" /\ HeadReady(toClient[c]) /\ Is(File_DATA, header)
      /\ Carry(c, "getdata", 0, size, "get")
      /\ local' = [local EXCEPT ![c][task[c].name] = <<>>]
  BY ExpectedKinds DEF GetStart, Replied, GotLength
<1>2. size \in Lengths /\ HEADER_LENGTH + size < WORD
  BY <1>1, ReadHeadType, ClientTypes, PayloadRead
<1> HIDE DEF size
<1>3. task[c].name \in Names
  BY <1>1 DEF IInv, TaskNamed
<1>4. Rewrites(c)
  <2>1. Short(<<>>) /\ <<>> \in Seq(Byte)
    BY HeaderAssumption, WordAssumption, EmptySeq DEF Short
  <2> QED
    BY <1>1, <1>3, <2>1 DEF Rewrites
<1>5. local'[c][task[c].name] = <<>>
  BY <1>1, <1>3, ClientTypes
<1>6. \/ /\ cpc'[c] = "getdata" /\ 0 < size /\ task'[c].done = 0
         /\ task'[c].size = size /\ task'[c].name = task[c].name
      \/ cpc'[c] = "prompt"
  BY <1>1, <1>2, CarryTo
<1> QED
  BY <1>2, <1>4, <1>5, <1>6, EmptySeq DEF TaskSizeAt, Waiting, Receiving

LEMMA SizedGetPart ==
  ASSUME IInv, TaskSizes, NEW c \in Clients, GetPart(c)
  PROVE  TaskSizeAt(c)' /\ Rewrites(c)
<1> DEFINE name == task[c].name
           old  == local[c][name]
<1>1. /\ cpc[c] = "getdata" /\ name \in Names /\ old \in Seq(Byte)
      /\ toClient[c] \in Seq(Byte) /\ Len(toClient[c]) \in Nat
  BY ClientTypes DEF GetPart, IInv, TaskNamed
<1>2. PICK n \in 1..Min({Block, task[c].size - task[c].done, Len(toClient[c])}) :
        /\ local' = [local EXCEPT ![c][name] = @ \o SubSeq(toClient[c], 1, n)]
        /\ Carry(c, "getdata", task[c].done + n, task[c].size, "get")
  BY DEF GetPart
<1>3. task[c].size \in Nat /\ task[c].done \in Nat /\ task[c].size \in Lengths
  BY TransferTypes
<1>4. n \in Nat /\ n <= Len(toClient[c]) /\ n <= task[c].size - task[c].done
  <2>1. Block \in Int /\ task[c].size - task[c].done \in Int /\ Len(toClient[c]) \in Int
    BY <1>1, <1>3, BlockAssumption
  <2> QED
    BY <2>1, InMin
<1> DEFINE bytes == old \o SubSeq(toClient[c], 1, n)
<1>5. task[c].done = Len(old) /\ HEADER_LENGTH + task[c].size < WORD
  BY <1>1 DEF TaskSizes
<1>6. bytes \in Seq(Byte) /\ Len(bytes) = Len(old) + n
  <2>1. SubSeq(toClient[c], 1, n) \in Seq(Byte) /\ Len(SubSeq(toClient[c], 1, n)) = n
    BY <1>1, <1>4, SubSeqProperties
  <2> QED
    BY <1>1, <2>1, ConcatProperties
<1>7. local' = [local EXCEPT ![c][name] = bytes] /\ local'[c][name] = bytes
  BY <1>1, <1>2, ClientTypes
<1> HIDE DEF bytes, old
<1>8. Len(bytes) = task[c].done + n /\ HEADER_LENGTH + Len(bytes) < WORD
  <2>1. HEADER_LENGTH \in Int /\ WORD \in Int
    BY HeaderAssumption, WordAssumption
  <2> QED
    BY <1>3, <1>4, <1>5, <1>6, <2>1, SMTT(30)
<1>9. Rewrites(c)
  BY <1>1, <1>6, <1>7, <1>8 DEF Rewrites, Short
<1>10. \/ /\ cpc'[c] = "getdata" /\ task[c].done + n < task[c].size
          /\ task'[c].done = task[c].done + n
          /\ task'[c].size = task[c].size /\ task'[c].name = name
       \/ cpc'[c] = "prompt"
  <2>1. task[c].done + n \in Nat
    BY <1>3, <1>4
  <2> QED
    BY <1>2, <1>3, <2>1, CarryTo
<1> QED
  BY <1>5, <1>7, <1>8, <1>9, <1>10 DEF TaskSizeAt, Waiting, Receiving

LEMMA SizedPart ==
  ASSUME IInv, TaskSizes, NEW c \in Clients,
         ListPart(c) \/ PutPart(c) \/ ShaStart(c) \/ ShaPart(c)
  PROVE  TaskSizeAt(c)' /\ UNCHANGED local
<1>1. UNCHANGED local
  BY DEF ListPart, PutPart, ShaStart, ShaPart
<1>2. CASE cpc'[c] = "prompt"
  BY <1>1, <1>2 DEF TaskSizeAt, Waiting, Receiving
<1>3. task[c].size \in Nat /\ task[c].done \in Nat /\ task[c].size \in Lengths
  BY TransferTypes
<1>4. CASE ListPart(c)
  <2>1. Len(toClient[c]) \in Int /\ task[c].size \in Int /\ cpc[c] = "lsdata"
    BY <1>3, <1>4, ServerTypes DEF ListPart
  <2>2. ASSUME cpc'[c] # "prompt"
        PROVE  \E n \in Nat :
                 /\ cpc'[c] = "lsdata" /\ task[c].done + n < task[c].size
                 /\ task' = [task EXCEPT ![c].done = @ + n]
    <3>1. PICK n \in 1..Min({task[c].size, Len(toClient[c])}) :
            IF task[c].done + n < task[c].size
            THEN task' = [task EXCEPT ![c].done = @ + n] /\ UNCHANGED <<cpc, told>>
            ELSE Return(c, "none")
      BY <1>4 DEF ListPart
    <3>2. n \in Nat
      BY <2>1, InMinOfTwo
    <3> QED
      BY <2>1, <2>2, <3>1, <3>2, ReturnTo
  <2>3. ASSUME cpc'[c] # "prompt"
        PROVE  cpc'[c] = "lsdata" /\ task'[c].done < task'[c].size
    <3>1. PICK n \in Nat :
            /\ cpc'[c] = "lsdata" /\ task[c].done + n < task[c].size
            /\ task' = [task EXCEPT ![c].done = @ + n]
      BY <2>2, <2>3
    <3>2. task'[c].done = task[c].done + n /\ task'[c].size = task[c].size
      <4> DEFINE done == task[c].done + n
      <4>1. task' = [task EXCEPT ![c].done = done] /\ task \in [Clients -> Transfers]
        BY <3>1, ClientTypes
      <4> HIDE DEF done
      <4>2. task'[c].done = done /\ task'[c].size = task[c].size
        BY <4>1 DEF Transfers
      <4> QED
        BY <4>2 DEF done
    <3> QED
      BY <3>1, <3>2
  <2> QED
    BY <1>1, <1>2, <2>3 DEF TaskSizeAt, Waiting
<1>5. CASE PutPart(c)
  <2>1. /\ LocalBlock(c) \in Seq(Byte) /\ cpc[c] = "putdata"
        /\ Carry(c, "putdata", task[c].done + Len(LocalBlock(c)), task[c].size, "put")
    <3>1. cpc[c] = "putdata" /\ local[c][task[c].name] \in Seq(Byte)
      BY <1>5 DEF PutPart, IInv, TaskNamed
    <3> QED
      BY <1>3, <1>5, <3>1, NextBlockType DEF PutPart, LocalBlock
  <2> DEFINE done == task[c].done + Len(LocalBlock(c))
  <2>2. done \in Nat
    BY <1>3, <2>1
  <2> HIDE DEF done
  <2>3. \/ cpc'[c] = "putdata" /\ done < task[c].size
           /\ task'[c].done = done /\ task'[c].size = task[c].size
        \/ cpc'[c] = "prompt"
    <3>1. Carry(c, "putdata", done, task[c].size, "put")
      BY <2>1 DEF done
    <3> QED
      BY <1>3, <2>2, <3>1, CarryTo
  <2>4. HEADER_LENGTH + task[c].size < WORD
    BY <2>1 DEF TaskSizes
  <2> QED
    BY <1>1, <1>2, <2>3, <2>4 DEF TaskSizeAt, Waiting, Receiving
<1>6. CASE ShaStart(c) \/ ShaPart(c)
  <2>1. \E done \in Nat, size \in Lengths : Carry(c, "shadata", done, size, "none")
    <3>1. CASE ShaStart(c)
      <4>1. (GotLength(c) - 1) % WORD \in Lengths
        BY <3>1, RepliedFacts DEF ShaStart, Waiting
      <4> QED
        BY <3>1, <4>1 DEF ShaStart, ShaStep
    <3>2. CASE ShaPart(c)
      <4>1. PICK n \in 1..Min({task[c].size - task[c].done, Len(toClient[c])}) :
              ShaStep(c, task[c].done + n, task[c].size)
        BY <3>2 DEF ShaPart
      <4>2. task[c].size - task[c].done \in Int /\ Len(toClient[c]) \in Int
        BY <1>3, ServerTypes
      <4>3. task[c].done + n \in Nat
        BY <1>3, <4>2, InMinOfTwo
      <4> QED
        BY <1>3, <4>1, <4>3 DEF ShaStep
    <3> QED
      BY <1>6, <3>1, <3>2
  <2>2. cpc'[c] = "prompt" \/ (cpc'[c] = "shadata" /\ task'[c].done < task'[c].size)
    BY <2>1, CarryTo
  <2> QED
    BY <1>1, <1>2, <2>2 DEF TaskSizeAt, Waiting
<1> QED
  BY <1>4, <1>5, <1>6

LEMMA SizedShorten ==
  ASSUME IInv, TaskSizes, NEW c \in Clients, Shorten(c)
  PROVE  TaskSizeAt(c)' /\ Rewrites(c)
<1> DEFINE name == task[c].name
           bytes == SubSeq(local[c][name], 1, task[c].done)
<1>1. /\ cpc[c] = "putdata" /\ name \in Names /\ local[c][name] \in Seq(Byte)
      /\ task[c].done <= Len(local[c][name])
  BY DEF Shorten, IInv, TaskNamed
<1>2. task[c].done \in Nat /\ task[c].size \in Nat
  BY TransferTypes
<1>3. bytes \in Seq(Byte) /\ Len(bytes) = task[c].done
  BY <1>1, <1>2, SubSeqProperties
<1>4. local' = [local EXCEPT ![c][name] = bytes] /\ UNCHANGED <<cpc, task>>
  BY ClientTypes DEF Shorten
<1> HIDE DEF bytes
<1>5. task[c].done < task[c].size /\ HEADER_LENGTH + task[c].size < WORD
  BY <1>1 DEF TaskSizes
<1>6. Short(bytes)
  BY <1>2, <1>3, <1>5, HeaderAssumption, WordAssumption DEF Short
<1> QED
  BY <1>1, <1>3, <1>4, <1>5, <1>6 DEF TaskSizeAt, Waiting, Receiving, Rewrites

LEMMA ClientSizes ==
  ASSUME IInv, Sizes, NEW c \in Clients,
         Program(c) \/ User(c) \/ Kill(c) \/ Shorten(c), UNCHANGED serverVars
  PROVE  Sizes'
<1>0. FilesShort /\ TaskSizes /\ JobSizes
  BY DEF Sizes
<1>1. Apart(c)
  BY ClientApart
<1>2. TaskSizeAt(c)' /\ (UNCHANGED local \/ Rewrites(c))
  <2>1. ASSUME cpc'[c] \in {"prompt", "exited", "killed"} PROVE TaskSizeAt(c)'
    BY <2>1 DEF TaskSizeAt, Waiting, Receiving
  <2>2. CASE \/ GetUnopened(c) \/ PutShort(c) \/ GotQuit(c) \/ BadReply(c) \/ ReadFailed(c)
             \/ SendFailed(c) \/ BrokenPipeKills(c) \/ Exit(c) \/ Kill(c)
    <3>1. UNCHANGED local
      BY <2>2 DEF GetUnopened, PutShort, GotQuit, BadReply, ReadFailed, SendFailed,
         BrokenPipeKills, Exit, Kill, End
    <3>2. cpc'[c] \in {"prompt", "exited", "killed"}
      BY <2>2, ClientTypes DEF GetUnopened, PutShort, GotQuit, BadReply, ReadFailed, Fail,
         SendFailed, BrokenPipeKills, Exit, Kill, End, Return, Move
    <3> QED
      BY <2>1, <3>1, <3>2
  <2>3. CASE ~(\/ GetUnopened(c) \/ PutShort(c) \/ GotQuit(c) \/ BadReply(c) \/ ReadFailed(c)
               \/ SendFailed(c) \/ BrokenPipeKills(c) \/ Exit(c) \/ Kill(c))
    BY <1>0, <2>3, SizedCommand, SizedGot, SizedGetStart, SizedGetPart, SizedPart, SizedShorten
    DEF Program, User
  <2> QED
    BY <2>2, <2>3
<1>3. TaskSizes'
  <2>1. ASSUME NEW d \in Clients, d # c PROVE TaskSizeAt(d)'
    <3>1. cpc'[d] = cpc[d] /\ task'[d] = task[d] /\ local'[d] = local[d]
      BY <1>1, <2>1 DEF Apart
    <3>2. TaskSizeAt(d)
      BY <1>0 DEF TaskSizes, TaskSizeAt
    <3> QED
      BY <3>1, <3>2 DEF TaskSizeAt
  <2>2. \A d \in Clients : TaskSizeAt(d)'
    BY <1>2, <2>1
  <2> QED
    BY <2>2 DEF TaskSizes, TaskSizeAt
<1>4. FilesShort'
  <2>1. ASSUME NEW d \in Clients, NEW name \in Names, local'[d][name] \in Seq(Byte)
        PROVE  Short(local'[d][name])
    <3>1. CASE UNCHANGED local
      BY <1>0, <2>1, <3>1 DEF FilesShort
    <3>2. CASE Rewrites(c)
      BY <1>0, <2>1, <3>2, ClientTypes DEF Rewrites, FilesShort
    <3> QED
      BY <1>2, <3>1, <3>2
  <2>2. UNCHANGED files
    BY DEF serverVars
  <2> QED
    BY <1>0, <2>1, <2>2 DEF FilesShort
<1>5. JobSizes'
  BY <1>0 DEF JobSizes, serverVars
<1> QED
  BY <1>3, <1>4, <1>5 DEF Sizes

-----------------------------------------------------------------------------
(* The invariant.                                                          *)

LEMMA DialInStep ==
  ASSUME IInv, Sizes, InStep, NEW c \in Clients, Dial(c)
  PROVE  Sizes' /\ InStep'
<1> DEFINE request == HeaderBytes(Create(OPEN_CONN_REQUEST, 0, 0))
<1>1. request \in Seq(Byte)
  <2>1. OPEN_CONN_REQUEST \in Kinds
    BY DEF Kinds, Requests
  <2> QED
    BY <2>1, CreateType, HeaderBytesType
<1>2. /\ copen' = [copen EXCEPT ![c] = TRUE] /\ sopen' = [sopen EXCEPT ![c] = TRUE]
      /\ toServer' = [toServer EXCEPT ![c] = request]
      /\ toClient' = [toClient EXCEPT ![c] = <<>>]
  BY DEF Dial, Open, Connect
<1> HIDE DEF request
<1>3. /\ cpc' = [cpc EXCEPT ![c] = "open"] /\ task' = [task EXCEPT ![c] = NoTransfer]
      /\ UNCHANGED <<local, where, slip>>
  BY DEF Dial, Open, Move
<1>4. spc' = [spc EXCEPT ![c] = "backlog"] /\ UNCHANGED <<files, cwd, job>>
  BY DEF Dial, Backlog, Goto
<1>5. Apart(c)
  BY <1>2, <1>3, <1>4, ServerTypes, ClientTypes DEF Apart
<1>6. InStepAt(c)'
  <2>1. /\ cpc'[c] = "open" /\ spc'[c] = "backlog" /\ toClient'[c] = <<>>
        /\ toServer'[c] = request
    BY <1>2, <1>3, <1>4, ServerTypes, ClientTypes
  <2>2. Wanted(c)' = 0
    BY <2>1 DEF Wanted
  <2>3. RequestBytes(c)' = request
    BY <2>1 DEF RequestBytes, Requested, request
  <2>4. Rest(request, 0) = request /\ 0 <= Len(request)
    BY <1>1, RestAll
  <2>5. Asked(c)'
    BY <2>1, <2>2, <2>3, <2>4, RequestedKinds DEF Asked
  <2> QED
    BY <2>5 DEF InStepAt
<1>7. InStep'
  <2>1. ASSUME NEW d \in Clients, d # c PROVE InStepAt(d)'
    BY <1>5, <2>1, ApartInStep DEF InStep
  <2> QED
    BY <1>6, <2>1 DEF InStep
<1>8. Sizes'
  <2>1. FilesShort'
    BY <1>3, <1>4 DEF Sizes, FilesShort
  <2>2. JobSizes'
    BY <1>4, ServerTypes DEF Sizes, JobSizes
  <2>3. TaskSizes'
    BY <1>3, ClientTypes DEF Sizes, TaskSizes, Receiving, NoTransfer, Transfer
  <2> QED
    BY <2>1, <2>2, <2>3 DEF Sizes
<1> QED
  BY <1>7, <1>8

LEMMA InitInStep == LengthsFit /\ Init => StepInv
<1> SUFFICES ASSUME LengthsFit, Init PROVE StepInv
  OBVIOUS
<1>1. IInv
  BY InitIInv
<1>2. Sizes
  BY DEF Init, ServerInit, ClientInit, LengthsFit, Sizes, FilesShort, JobSizes, TaskSizes,
     Waiting, Receiving
<1>3. InStep
  BY DEF Init, ConnInit, InStep, InStepAt, Whole
<1> QED
  BY <1>1, <1>2, <1>3 DEF StepInv

LEMMA StepInStep == LengthsFit /\ StepInv /\ [Next]_vars => StepInv'
<1> SUFFICES ASSUME LengthsFit, StepInv, [Next]_vars PROVE StepInv'
  OBVIOUS
<1>1. IInv'
  BY StepIInv DEF StepInv
<1>2. IInv /\ Sizes /\ InStep
  BY DEF StepInv
<1>3. CASE UNCHANGED vars
  <2>1. UNCHANGED <<connVars, serverVars, clientVars>>
    BY <1>3 DEF vars
  <2>2. Sizes'
    BY <1>2, <2>1 DEF serverVars, clientVars, Sizes, FilesShort, JobSizes, TaskSizes
  <2>3. ASSUME NEW d \in Clients PROVE InStepAt(d)'
    <3>1. /\ Wanted(d)' = Wanted(d) /\ Owed(d)' = Owed(d) /\ Unsent(d)' = Unsent(d)
          /\ Whole(d)' = Whole(d) /\ Uploading(d)' = Uploading(d)
          /\ RequestBytes(d)' = RequestBytes(d)
      BY <2>1 DEF connVars, serverVars, clientVars, Wanted, Owed, Unsent, Whole, Uploading,
         RequestBytes
    <3>2. Quiet(d)' = Quiet(d) /\ Asked(d)' = Asked(d)
      BY <2>1, <3>1 DEF connVars, serverVars, clientVars, Quiet, Asked
    <3>3. Answered(d) => Answered(d)'
      BY <2>1, <3>1 DEF connVars, serverVars, clientVars, Answered, FileComes, ShaComes
    <3> QED
      BY <1>2, <3>1, <3>2, <3>3 DEF InStep, InStepAt
  <2> QED
    BY <1>1, <2>2, <2>3 DEF StepInv, InStep
<1>4. ASSUME NEW c \in Clients, Dial(c) \/ ServerStep(c) \/ ClientStep(c)
                                \/ UserStep(c) \/ FaultStep(c)
      PROVE  StepInv'
  <2>1. CASE Dial(c)
    BY <1>1, <1>2, <2>1, DialInStep DEF StepInv
  <2>2. CASE Acts(c) /\ UNCHANGED clientVars
    BY <1>1, <1>2, <2>2, InStepThread, ThreadSizes DEF StepInv
  <2>3. CASE (Program(c) \/ User(c) \/ Kill(c) \/ Shorten(c)) /\ UNCHANGED serverVars
    BY <1>1, <1>2, <2>3, InStepClient, ClientSizes DEF StepInv
  <2> QED
    BY <1>4, <2>1, <2>2, <2>3 DEF ServerStep, ClientStep, UserStep, FaultStep, Acts
<1> QED
  BY <1>3, <1>4 DEF Next

LEMMA StepInvariant == LengthsFit => (Spec => []StepInv)
<1> SUFFICES ASSUME LengthsFit PROVE Spec => []StepInv
  OBVIOUS
<1>1. Init => StepInv
  BY InitInStep
<1>2. StepInv /\ [Next]_vars => StepInv'
  BY StepInStep
<1> QED
  BY <1>1, <1>2, PTL DEF Spec

LEMMA KeptInStep == LengthsFit /\ StepInv => StepKept
<1> SUFFICES ASSUME LengthsFit, StepInv, NEW c \in Clients, Whole(c)
             PROVE  /\ cpc[c] = "prompt" =>
                         /\ toClient[c] = <<>> /\ spc[c] \in {"head", "puthead", "putdata"}
                         /\ Len(toServer[c]) = Wanted(c)
                    /\ cpc[c] \in Waiting =>
                         /\ HeadReady(toClient[c]) => Is(Expected[cpc[c]], ReadHead(toClient[c]))
                         /\ toClient[c] # <<>> => toServer[c] = <<>>
                         /\ toClient[c] = <<>> =>
                              toServer[c] # <<>> \/ spc[c] \in {"getopen", "sha"}
                    /\ cpc[c] = "getdata" =>
                         Len(toClient[c]) + Owed(c) = task[c].size - task[c].done
                    /\ cpc[c] = "putdata" =>
                         Len(toServer[c]) + task[c].size - task[c].done = Wanted(c)
  BY DEF StepKept
<1>0. IInv /\ InStepAt(c) /\ TaskSizes /\ JobSizes
  BY DEF StepInv, InStep, Sizes
<1>1. toServer[c] \in Seq(Byte) /\ Len(toServer[c]) \in Nat
  BY <1>0, ServerTypes
<1>2. task[c].size \in Nat /\ task[c].done \in Nat
  BY <1>0, TransferTypes
<1>3. ASSUME cpc[c] = "prompt"
      PROVE  /\ toClient[c] = <<>> /\ spc[c] \in {"head", "puthead", "putdata"}
             /\ Len(toServer[c]) = Wanted(c)
  <2>1. Quiet(c) /\ Unsent(c) = 0
    BY <1>0, <1>3, RequestedKinds DEF InStepAt, Asked, Answered, Unsent
  <2> QED
    BY <1>1, <2>1 DEF Quiet, Uploading
<1>4. ASSUME cpc[c] \in Waiting, HeadReady(toClient[c])
      PROVE  Is(Expected[cpc[c]], ReadHead(toClient[c]))
  BY <1>0, <1>4, ReplyMet
<1>5. ASSUME cpc[c] \in Waiting
      PROVE  Asked(c) \/ Answered(c)
  BY <1>0, <1>5 DEF InStepAt, Quiet, Waiting
<1>6. ASSUME cpc[c] \in Waiting, toClient[c] # <<>>
      PROVE  toServer[c] = <<>>
  BY <1>5, <1>6 DEF Asked, Answered
<1>7. ASSUME cpc[c] \in Waiting, toClient[c] = <<>>, toServer[c] = <<>>
      PROVE  spc[c] \in {"getopen", "sha"}
  <2>1. ~HeadReady(toClient[c]) /\ ~HeadReady(toServer[c])
    BY <1>7, WordFacts, EmptySeq DEF HeadReady
  <2>2. ~Asked(c)
    <3> SUFFICES ASSUME Asked(c) PROVE FALSE
      OBVIOUS
    <3>1. Wanted(c) = 0
      <4>1. spc[c] \in {"head", "putdata", "backlog"} /\ Wanted(c) <= 0
        BY <1>7, <2>1, EmptySeq DEF Asked, Uploading, Front
      <4>2. ASSUME spc[c] = "putdata" PROVE FALSE
        <5>1. job[c].done < job[c].size /\ Wanted(c) = job[c].size - job[c].done
          BY <1>0, <4>2 DEF JobSizes, Wanted
        <5>2. job[c].done \in Nat /\ job[c].size \in Nat
          BY <1>0, <4>2, OpenedFile
        <5> QED
          BY <4>1, <5>1, <5>2
      <4> QED
        BY <4>1, <4>2 DEF Wanted
    <3>2. Rest(toServer[c], 0) = toServer[c]
      BY <1>1, RestAll
    <3>3. RequestBytes(c) = <<>> /\ cpc[c] \in DOMAIN Requested
      BY <1>7, <3>1, <3>2 DEF Asked
    <3>4. RequestBytes(c) # <<>>
      BY <1>0, <3>3, RequestFormed
    <3> QED
      BY <3>3, <3>4
  <2>3. Answered(c)
    BY <1>5, <1>7, <2>2
  <2> QED
    BY <1>7, <2>1, <2>3 DEF Answered, Front, FileComes, ShaComes, Waiting
<1>8. ASSUME cpc[c] = "getdata"
      PROVE  Len(toClient[c]) + Owed(c) = task[c].size - task[c].done
  BY <1>0, <1>8, RequestedKinds DEF InStepAt, Quiet, Asked, Answered
<1>9. ASSUME cpc[c] = "putdata"
      PROVE  Len(toServer[c]) + task[c].size - task[c].done = Wanted(c)
  <2>1. Quiet(c) /\ Unsent(c) = task[c].size - task[c].done
    BY <1>0, <1>9, RequestedKinds DEF InStepAt, Asked, Answered, Unsent
  <2> QED
    BY <1>1, <1>2, <2>1 DEF Quiet
<1> QED
  BY <1>3, <1>4, <1>6, <1>7, <1>8, <1>9

(***************************************************************************)
(* As long as lengths fit their fields, the client and its thread stay in  *)
(* step until one of the three slips: whichever way users, threads, faults *)
(* and other clients interleave, at the prompt nothing is on its way to    *)
(* the client and the thread wants exactly the bytes on their way to it; a *)
(* client that waits has its request or its reply under way and never      *)
(* both; no transfer is short or long by a byte.                           *)
(***************************************************************************)
THEOREM InStepAlways == LengthsFit => (Spec => []StepKept)
<1> SUFFICES ASSUME LengthsFit PROVE Spec => []StepKept
  OBVIOUS
<1>1. Spec => []StepInv
  BY StepInvariant
<1>2. StepInv => StepKept
  BY KeptInStep
<1> QED
  BY <1>1, <1>2, PTL

-----------------------------------------------------------------------------
(* A connection is held: the file of a download keeps its length unless    *)
(* another thread changes it.                                              *)

Untorn ==
  \A c \in Clients :
    spc[c] = "getdata" /\ ~torn[c] => Len(files[Path(c)]) = job[c].size

\* A step of client c, of its thread, or of a fault to one of them.
Turn(c) == Dial(c) \/ ServerStep(c) \/ ClientStep(c) \/ UserStep(c) \/ FaultStep(c)

ThreadTurn(c) == Acts(c) /\ UNCHANGED clientVars /\ Note(c)

ClientTurn(c) ==
  (Program(c) \/ User(c) \/ Kill(c) \/ Shorten(c)) /\ UNCHANGED serverVars /\ Note(c)

LEMMA TurnIs ==
  ASSUME NEW c \in Clients, Turn(c)
  PROVE  Dial(c) \/ ThreadTurn(c) \/ ClientTurn(c)
BY DEF Turn, ServerStep, ClientStep, UserStep, FaultStep, ThreadTurn, ClientTurn, Acts

LEMMA TurnApart ==
  ASSUME IInv, NEW c \in Clients, Turn(c), ~Dies(c)
  PROVE  Apart(c)
<1>1. CASE Dial(c)
  BY <1>1, ServerTypes, ClientTypes DEF Apart, Dial, Open, Connect, Move, Backlog, Goto
<1>2. CASE ThreadTurn(c)
  BY <1>2, ThreadApart DEF ThreadTurn
<1>3. CASE ClientTurn(c)
  BY <1>3, ClientApart DEF ClientTurn
<1> QED
  BY <1>1, <1>2, <1>3, TurnIs

LEMMA TornNoted ==
  ASSUME IInv, NEW c \in Clients, Note(c), NEW d \in Clients, ~torn'[d]
  PROVE  /\ d # c => /\ ~torn[d]
                     /\ \A path \in Watched(d) : files'[path] = files[path]
                     /\ spc[d] \in {"getdata", "putdata"} => files'[Path(d)] = files[Path(d)]
         /\ d = c /\ spc[c] \notin {"getopen", "puthead"} => ~torn[d]
<1>1. /\ d # c => ~torn[d] /\ \A path \in Watched(d) : files'[path] = files[path]
      /\ d = c /\ spc[c] \notin {"getopen", "puthead"} => ~torn[d]
  BY DEF Note
<1>2. spc[d] \in {"getdata", "putdata"} => Path(d) \in Watched(d)
  BY OpenedFile DEF Watched
<1> QED
  BY <1>1, <1>2

LEMMA Downloading ==
  ASSUME IInv, NEW c \in Clients, Acts(c), spc'[c] = "getdata"
  PROVE  GetOpen(c) \/ GetBlock(c)
<1>1. CASE Hangup({c}) \/ Hangup(Clients)
  BY <1>1 DEF Hangup
<1>2. CASE ~Hangup({c}) /\ ~Hangup(Clients)
  BY <1>2, ServerTypes DEF Acts, Dies, Thread, CallFails, Accept, HandleOpen, HandleList,
     HandleCd, HandleGet, HandleFile, GetShort, HandlePut, PutOpen, PutRefused, PutBlock,
     HandleSha, ShaSend, HandleQuit, Refuse, ReadFails, SendFails, BrokenPipe,
     PathThrows, CallThrows, Terminate, serverVars, Goto, Request, Continue
<1> QED
  BY <1>1, <1>2

\* What the thread announces and goes on with is the file's length.
LEMMA OpensWhole ==
  ASSUME IInv, FilesShort, NEW c \in Clients, GetOpen(c), spc'[c] = "getdata"
  PROVE  /\ Path(c) \in Dirs \X Names /\ files[Path(c)] \in Seq(Byte)
         /\ job'[c].size = Len(files[Path(c)]) /\ job'[c].done = 0
         /\ Path(c)' = Path(c) /\ UNCHANGED files
<1> DEFINE n == Len(files[Path(c)])
           size == n % WORD
<1>1. Path(c) \in Dirs \X Names /\ files[Path(c)] \in Seq(Byte)
  BY OpenedFile DEF GetOpen
<1>2. n \in Nat /\ n \in Int /\ HEADER_LENGTH + n < WORD
  BY <1>1 DEF FilesShort, Short
<1>3. Continue(c, "getdata", 0, size) /\ UNCHANGED <<files, cwd>>
  BY DEF GetOpen
<1> HIDE DEF n
<1>4. n < WORD
  BY <1>2, HeaderAssumption, WordAssumption
<1>5. size = n /\ size \in Lengths
  BY <1>2, <1>4, ModSmall, WordFacts
<1> HIDE DEF size
<1>6. job'[c].size = size /\ job'[c].done = 0 /\ job'[c].name = job[c].name
  BY <1>3, <1>5, ContinueTo
<1> QED
  BY <1>1, <1>3, <1>5, <1>6 DEF n, Path

LEMMA SendsOn ==
  ASSUME IInv, NEW c \in Clients, GetBlock(c), spc'[c] = "getdata"
  PROVE  /\ spc[c] = "getdata" /\ job'[c].size = job[c].size
         /\ Path(c)' = Path(c) /\ UNCHANGED files
<1> DEFINE block == NextBlock(files[Path(c)], job[c].done, job[c].size)
<1>1. /\ spc[c] = "getdata" /\ job[c].size \in Lengths /\ job[c].done \in Nat
      /\ job[c].size \in Nat /\ files[Path(c)] \in Seq(Byte)
  BY OpenedFile DEF GetBlock
<1>2. block \in Seq(Byte)
  BY <1>1, NextBlockType
<1>3. Continue(c, "getdata", job[c].done + Len(block), job[c].size) /\ UNCHANGED <<files, cwd>>
  BY DEF GetBlock
<1> HIDE DEF block
<1>4. job[c].done + Len(block) \in Nat
  BY <1>1, <1>2
<1>5. job'[c].size = job[c].size /\ job'[c].name = job[c].name
  BY <1>1, <1>3, <1>4, ContinueTo
<1> QED
  BY <1>1, <1>3, <1>5 DEF Path

LEMMA UntornStep ==
  ASSUME IInv, FilesShort, Untorn, NEW c \in Clients, Turn(c)
  PROVE  Untorn'
<1> SUFFICES ASSUME NEW d \in Clients, spc'[d] = "getdata", ~torn'[d]
             PROVE  Len(files[Path(d)])' = job'[d].size
  BY DEF Untorn
<1>0. Note(c)
  BY TurnIs DEF Dial, ThreadTurn, ClientTurn
<1>1. ~Dies(c)
  BY HangupEnds DEF Dies, BrokenPipe, PathThrows, CallThrows, Terminate
<1>2. Apart(c)
  BY <1>1, TurnApart
<1>3. CASE d # c
  <2>1. spc[d] = "getdata" /\ job'[d] = job[d] /\ cwd'[d] = cwd[d]
    BY <1>2, <1>3 DEF Apart
  <2>2. ~torn[d] /\ files'[Path(d)] = files[Path(d)]
    BY <1>0, <1>3, <2>1, TornNoted
  <2>3. files'[Path(d)'] = files[Path(d)]
    BY <2>1, <2>2 DEF Path
  <2> QED
    BY <2>1, <2>2, <2>3 DEF Untorn
<1>4. CASE d = c
  <2>1. CASE Dial(c)
    BY <1>4, <2>1, ServerTypes DEF Dial, Backlog, Goto
  <2>2. CASE ClientTurn(c)
    <3>1. UNCHANGED serverVars /\ spc[c] = "getdata"
      BY <1>4, <2>2 DEF ClientTurn, serverVars
    <3>2. ~torn[c]
      BY <1>0, <1>4, <3>1, TornNoted
    <3> QED
      BY <1>4, <3>1, <3>2 DEF Untorn, Path, serverVars
  <2>3. CASE ThreadTurn(c)
    <3>1. GetOpen(c) \/ GetBlock(c)
      BY <1>4, <2>3, Downloading DEF ThreadTurn
    <3>2. CASE GetOpen(c)
      BY <1>4, <3>2, OpensWhole
    <3>3. CASE GetBlock(c)
      <4>1. ~torn[c]
        BY <1>0, <1>4, <3>3, TornNoted DEF GetBlock
      <4> QED
        BY <1>4, <3>3, <4>1, SendsOn DEF Untorn
    <3> QED
      BY <3>1, <3>2, <3>3
  <2> QED
    BY <2>1, <2>2, <2>3, TurnIs
<1> QED
  BY <1>3, <1>4

LEMMA BlockLeft ==
  ASSUME NEW file \in Seq(Byte), NEW done \in Nat, done < Len(file)
  PROVE  NextBlock(file, done, Len(file)) # <<>>
<1> DEFINE last == Min({Len(file), done + Block, Len(file)})
<1>1. /\ Len(file) \in Int /\ done + Block \in Int
      /\ last \in {Len(file), done + Block, Len(file)} /\ last <= Len(file)
  <2>1. Len(file) \in Int /\ done + Block \in Int
    BY BlockAssumption
  <2> QED
    BY <2>1, MinOfThree
<1>2. done + 1 <= last /\ last \in Nat
  BY <1>1, BlockAssumption
<1> HIDE DEF last
<1>3. Len(SubSeq(file, done + 1, last)) = last - done
  BY <1>1, <1>2, SubSeqProperties
<1>4. Len(SubSeq(file, done + 1, last)) # 0
  BY <1>2, <1>3
<1> QED
  BY <1>4, EmptySeq DEF NextBlock, last

LEMMA NotShort ==
  ASSUME IInv, JobSizes, Untorn, NEW c \in Clients, ~torn[c]
  PROVE  ~GetShort(c)
<1> SUFFICES ASSUME GetShort(c) PROVE FALSE
  OBVIOUS
<1>1. spc[c] = "getdata" /\ NextBlock(files[Path(c)], job[c].done, job[c].size) = <<>>
  BY DEF GetShort
<1>2. files[Path(c)] \in Seq(Byte) /\ job[c].done \in Nat
  BY <1>1, OpenedFile
<1>3. job[c].size = Len(files[Path(c)]) /\ job[c].done < job[c].size
  BY <1>1 DEF Untorn, JobSizes
<1> QED
  BY <1>1, <1>2, <1>3, BlockLeft

\* What a thread meets in a stream of a client in step is never refused.
LEMMA NotRefused ==
  ASSUME LengthsFit, IInv, TaskSizes, NEW c \in Clients, InStepAt(c), Whole(c)
  PROVE  ~Refuse(c)
<1> SUFFICES ASSUME Refuse(c) PROVE FALSE
  OBVIOUS
<1>1. HeadReady(toServer[c]) /\ toServer[c] # <<>>
  BY WordFacts, EmptySeq DEF Refuse, HeadReady
<1>2. (Quiet(c) \/ Asked(c)) /\ toServer[c] \in Seq(Byte)
  BY <1>1, ServerTypes DEF InStepAt, Answered
<1>3. CASE spc[c] = "puthead"
  <2>1. Is(File_DATA, ReadHead(toServer[c]))
    BY <1>2, <1>3 DEF Quiet, Asked, Uploading, Front
  <2> QED
    BY <1>3, <2>1 DEF Refuse
<1>4. CASE spc[c] = "head"
  <2>1. Wanted(c) = 0
    BY <1>4 DEF Wanted
  <2>2. ~Quiet(c)
    <3>1. Unsent(c) \in Nat /\ Len(toServer[c]) \in Nat /\ Len(toServer[c]) # 0
      BY <1>1, <1>2, UnsentType, EmptySeq
    <3> QED
      BY <2>1, <3>1 DEF Quiet
  <2>3. cpc[c] \in DOMAIN Requested /\ toServer[c] = RequestBytes(c)
    <3>1. Rest(toServer[c], 0) = toServer[c]
      BY <1>2, RestAll
    <3> QED
      BY <1>2, <2>1, <2>2, <3>1 DEF Asked
  <2>4. Is(Requested[cpc[c]], ReadHead(toServer[c])) /\ Requested[cpc[c]] \in Requests
    BY <2>3, RequestFormed, RequestedKinds DEF Requests
  <2> QED
    BY <1>4, <2>4 DEF Refuse
<1> QED
  BY <1>3, <1>4 DEF Refuse

LEMMA StepHolds ==
  ASSUME LengthsFit, StepInv, Untorn, "server" \notin Faults,
         NEW c \in Clients, Turn(c), NEW d \in Clients, Whole(d), ~sopen'[d]
  PROVE  \/ cpc[d] = "quit" \/ ~up'
         \/ spc[d] = "getdata" /\ torn[d]
         \/ spc[d] = "puthead" /\ ~Writable(d)
<1>0. IInv /\ Sizes /\ InStep /\ InStepAt(d) /\ TaskSizes /\ JobSizes
  BY DEF StepInv, Sizes, InStep
<1>1. CASE Dies(c)
  BY <1>1 DEF Dies, BrokenPipe, PathThrows, CallThrows, Terminate
<1>2. CASE ~Dies(c)
  <2>1. d = c
    BY <1>0, <1>2, TurnApart DEF Apart, Whole
  <2>2. ~Dial(c)
    BY <2>1, ServerTypes, <1>0 DEF Dial, Open, Connect
  <2>3. ~ClientTurn(c)
    BY <1>0, <2>1, ClientApart DEF ClientTurn, Whole
  <2>4. Thread(c)
    BY <1>2, <2>2, <2>3, TurnIs DEF ThreadTurn, Acts, Dies, CallFails
  <2>5. copen[c] /\ sopen[c]
    BY <2>1 DEF Whole
  <2>6. ~SendFails(c) /\ ~ReadFails(c)
    BY <2>5 DEF SendFails, ReadFails
  <2>7. ~Refuse(c)
    BY <1>0, <2>1, NotRefused
  <2>8. CASE GetShort(c)
    BY <1>0, <2>1, <2>8, NotShort DEF GetShort
  <2>9. CASE PutRefused(c)
    BY <2>1, <2>9 DEF PutRefused, DataHead
  <2>10. CASE HandleQuit(c)
    BY <1>0, <2>1, <2>10, QuitMet
  <2>11. CASE UNCHANGED sopen
    BY <2>1, <2>5, <2>11
  <2> QED
    BY <1>2, <2>4, <2>6, <2>7, <2>8, <2>9, <2>10, <2>11
    DEF Dies, Thread, Accept, HandleOpen, HandleList, HandleCd, HandleGet, HandleSha,
        HandleFile, GetOpen, GetBlock, HandlePut, PutOpen, PutBlock, ShaSend, connVars
<1> QED
  BY <1>1, <1>2

LEMMA UntornInvariant == LengthsFit => (Spec => []Untorn)
<1> SUFFICES ASSUME LengthsFit PROVE Spec => []Untorn
  OBVIOUS
<1>1. Init => Untorn
  BY DEF Init, ServerInit, Untorn
<1>2. StepInv /\ Untorn /\ [Next]_vars => Untorn'
  <2> SUFFICES ASSUME StepInv, Untorn, [Next]_vars PROVE Untorn'
    OBVIOUS
  <2>1. CASE UNCHANGED vars
    BY <2>1 DEF vars, serverVars, Untorn, Path
  <2>2. ASSUME NEW c \in Clients, Turn(c) PROVE Untorn'
    BY <2>2, UntornStep DEF StepInv, Sizes
  <2> QED
    BY <2>1, <2>2 DEF Next, Turn
<1>3. Spec => []StepInv
  BY StepInvariant
<1> QED
  BY <1>1, <1>2, <1>3, PTL DEF Spec

(***************************************************************************)
(* As long as lengths fit their fields and no call of the server's own     *)
(* fails, a client in step keeps its connection until it quits, except     *)
(* when its file was changed under its download, when the server dies, or  *)
(* when it puts a file where a directory is.                               *)
(***************************************************************************)
THEOREM HeldOpenAlways ==
  LengthsFit /\ "server" \notin Faults => (Spec => HeldOpen)
<1> SUFFICES ASSUME LengthsFit, "server" \notin Faults PROVE Spec => HeldOpen
  OBVIOUS
<1>1. StepInv /\ Untorn /\ [Next]_vars =>
        [\A c \in Clients :
           Whole(c) /\ ~sopen'[c] =>
             \/ cpc[c] = "quit" \/ ~up'
             \/ spc[c] = "getdata" /\ torn[c]
             \/ spc[c] = "puthead" /\ ~Writable(c)]_vars
  <2> SUFFICES ASSUME StepInv, Untorn, Next, NEW d \in Clients, Whole(d), ~sopen'[d]
               PROVE  \/ cpc[d] = "quit" \/ ~up'
                      \/ spc[d] = "getdata" /\ torn[d]
                      \/ spc[d] = "puthead" /\ ~Writable(d)
    OBVIOUS
  <2>1. PICK c \in Clients : Turn(c)
    BY DEF Next, Turn
  <2> QED
    BY <2>1, StepHolds
<1>2. Spec => []StepInv
  BY StepInvariant
<1>3. Spec => []Untorn
  BY UntornInvariant
<1> QED
  BY <1>1, <1>2, <1>3, PTL DEF Spec, HeldOpen

-----------------------------------------------------------------------------
(* The two programs name the same directory, but for a CD whose reply is   *)
(* under way.                                                              *)

DirAgreesAt(c) ==
  /\ Whole(c) =>
       IF cpc[c] = "cd" /\ toClient[c] # <<>>
       THEN /\ cwd[c] = ChangeDir(where[c], task[c].name)
            /\ ReadHead(toClient[c]).status = Status(IsDir(where[c], task[c].name))
       ELSE cwd[c] = where[c]
  /\ ~copen[c] /\ cpc[c] = "prompt" => where[c] = Root

DirAgrees == \A c \in Clients : DirAgreesAt(c)

LEMMA DirApart ==
  ASSUME NEW c \in Clients, Apart(c), NEW d \in Clients, d # c, DirAgreesAt(d)
  PROVE  DirAgreesAt(d)'
BY DEF Apart, DirAgreesAt, Whole

LEMMA DirDial ==
  ASSUME IInv, NEW c \in Clients, Dial(c), DirAgreesAt(c)
  PROVE  DirAgreesAt(c)'
<1>1. spc[c] = "none" /\ UNCHANGED <<cwd, where>> /\ ~copen[c] /\ cpc[c] = "prompt"
  BY DEF Dial, Open, Backlog
<1>2. cpc'[c] = "open"
  BY ClientTypes DEF Dial, Open, Move
<1>3. cwd[c] = Root /\ where[c] = Root
  BY <1>1 DEF IInv, EveryEndOwned, DirAgreesAt
<1> QED
  BY <1>1, <1>2, <1>3 DEF DirAgreesAt

\* A thread that has not met the client's CD sends it nothing.
LEMMA CdUnmet ==
  ASSUME LengthsFit, IInv, TaskSizes, NEW c \in Clients, InStepAt(c), Whole(c), cpc[c] = "cd",
         Acts(c), ~HandleCd(c), ~Hangup({c}), ~Hangup(Clients)
  PROVE  UNCHANGED toClient
<1>1. ~HandleOpen(c) /\ ~HandleList(c) /\ ~HandleGet(c) /\ ~HandleSha(c) /\ ~HandlePut(c)
  <2>1. ASSUME NEW place \in {"open", "ls", "get", "sha", "put"}, Request(c, Requested[place])
        PROVE  FALSE
    <3>1. Requested[place] \in Requests /\ place \in DOMAIN Requested
      BY RequestedKinds DEF Requests
    <3>2. Requested[place] = Requested["cd"] /\ "cd" \in DOMAIN Requested
      BY <2>1, <3>1, RequestMet
    <3>3. place = "cd"
      BY <3>1, <3>2, RequestNames
    <3> QED
      BY <3>3
  <2> QED
    BY <2>1, RequestedKinds DEF HandleOpen, HandleList, HandleGet, HandleSha, HandlePut,
       HandleFile
<1>2. ~GetOpen(c) /\ ~GetBlock(c) /\ ~ShaSend(c)
  <2>1. spc[c] \in {"head", "puthead", "putdata"}
    BY DEF InStepAt, Quiet, Asked, Answered, Uploading
  <2> QED
    BY <2>1 DEF GetOpen, GetBlock, ShaSend
<1> QED
  BY <1>1, <1>2 DEF Acts, Dies, Thread, CallFails, Accept, GetShort, PutOpen, PutRefused,
     PutBlock, HandleQuit, Refuse, ReadFails, SendFails, BrokenPipe, PathThrows,
     CallThrows, Terminate, connVars

LEMMA DirThread ==
  ASSUME LengthsFit, IInv, TaskSizes, NEW c \in Clients, InStepAt(c), DirAgreesAt(c),
         Acts(c), UNCHANGED clientVars
  PROVE  DirAgreesAt(c)'
<1>1. UNCHANGED <<copen, cpc, task, where, slip>>
  <2>1. CASE Dies(c)
    BY <2>1 DEF Dies, BrokenPipe, PathThrows, CallThrows, Terminate, clientVars
  <2>2. CASE ~Dies(c)
    BY <2>2, ThreadApart DEF clientVars
  <2> QED
    BY <2>1, <2>2
<1>2. CASE ~Whole(c)'
  BY <1>1, <1>2 DEF DirAgreesAt
<1>3. CASE Whole(c)'
  <2>1. ~Hangup({c}) /\ ~Hangup(Clients)
    BY <1>3 DEF Hangup, ServerCloses, Whole
  <2>2. UNCHANGED sopen
    BY <2>1 DEF Acts, Dies, Thread, CallFails, Accept, HandleOpen, HandleList, HandleCd,
       HandleGet, HandleSha, HandleFile, GetOpen, GetBlock, GetShort, HandlePut, PutOpen,
       PutRefused, PutBlock, ShaSend, HandleQuit, Refuse, ReadFails, SendFails,
       BrokenPipe, PathThrows, CallThrows, Terminate, connVars
  <2>3. Whole(c)
    BY <1>1, <1>3, <2>2 DEF Whole
  <2>4. CASE HandleCd(c)
    <3>1. /\ Answered(c)' /\ cpc[c] = "cd" /\ NameOf(c) = task[c].name
          /\ ReadHead(toClient'[c]).status = Status(IsDir(cwd[c], task[c].name))
      BY <2>3, <2>4, InStepCd
    <3>2. toClient[c] = <<>>
      <4>1. Request(c, CHANGE_DIR_REQUEST) /\ CHANGE_DIR_REQUEST \in Requests
        BY <2>4 DEF HandleCd, Requests
      <4> QED
        BY <2>3, <4>1, RequestMet
    <3>3. cwd[c] = where[c]
      BY <2>3, <3>2 DEF DirAgreesAt
    <3>4. cwd'[c] = ChangeDir(cwd[c], task[c].name)
      BY <2>4, <3>1, ServerTypes DEF HandleCd
    <3>5. toClient'[c] # <<>>
      <4>1. HeadReady(toClient'[c])
        BY <1>1, <3>1 DEF Answered, Front
      <4> QED
        BY <4>1, EmptySeq, WordFacts DEF HeadReady
    <3> QED
      BY <1>1, <3>1, <3>3, <3>4, <3>5 DEF DirAgreesAt
  <2>5. CASE ~HandleCd(c)
    <3>1. UNCHANGED cwd
      BY <2>1, <2>5 DEF Acts, Dies, Thread, CallFails, Accept, HandleOpen, HandleList,
         HandleGet, HandleSha, HandleFile, GetOpen, GetBlock, GetShort, HandlePut,
         PutOpen, PutRefused, PutBlock, ShaSend, HandleQuit, Refuse, ReadFails,
         SendFails, BrokenPipe, PathThrows, CallThrows, Terminate, serverVars
    <3>2. cpc[c] = "cd" => UNCHANGED toClient
      BY <2>1, <2>3, <2>5, CdUnmet
    <3> QED
      BY <1>1, <2>3, <3>1, <3>2 DEF DirAgreesAt
  <2> QED
    BY <2>4, <2>5
<1> QED
  BY <1>2, <1>3

LEMMA DirForgotten ==
  ASSUME IInv, NEW c \in Clients, Program(c) \/ User(c) \/ Kill(c) \/ Shorten(c),
         ~copen'[c], cpc'[c] = "prompt"
  PROVE  where'[c] = Root
<1>1. ~BrokenPipeKills(c) /\ ~Exit(c) /\ ~Kill(c)
  BY ClientTypes DEF BrokenPipeKills, Exit, Kill, End, Move
<1>2. CASE Forget(c)
  BY <1>2, ClientTypes DEF Forget
<1>3. CASE ~Forget(c)
  <2>1. UNCHANGED copen
    BY <1>1, <1>3 DEF Program, User, Shorten, Command, Ls, Cd, Get, Sha, Quit, Put, Issue,
      IssueName, GotOpen, GotList, ListPart, GotCd, GotGet, GotSha, GotFile, GetStart,
      GetUnopened, GetPart, GotPut, PutPart, PutShort, ShaStart, ShaPart, GotQuit, BadReply,
      ReadFailed, Fail, SendFailed, connVars
  <2>2. cpc[c] \in {"prompt", "exited", "killed"}
    BY <2>1 DEF IInv, EveryEndOwned
  <2>3. ~copen[c]
    BY <2>1
  <2> QED
    BY <1>1, <1>3, <2>2, <2>3 DEF Program, User, Shorten, Command, Ls, Cd, Get, Sha, Quit, Put,
      Issue, IssueName, Replied, GotOpen, GotList, ListPart, GotCd, GotGet, GotSha, GotFile,
      GetStart, GetUnopened, GetPart, GotPut, PutPart, PutShort, ShaStart, ShaPart, GotQuit,
      BadReply, ReadFailed, SendFailed, Writing, Waiting, Receiving
<1> QED
  BY <1>2, <1>3

LEMMA DirClient ==
  ASSUME IInv, TaskSizes, NEW c \in Clients, InStepAt(c), DirAgreesAt(c),
         Program(c) \/ User(c) \/ Kill(c) \/ Shorten(c), UNCHANGED serverVars
  PROVE  DirAgreesAt(c)'
<1>1. ~copen'[c] /\ cpc'[c] = "prompt" => where'[c] = Root
  BY DirForgotten
<1>2. ASSUME Whole(c)'
      PROVE  IF cpc'[c] = "cd" /\ toClient'[c] # <<>>
             THEN /\ cwd'[c] = ChangeDir(where'[c], task'[c].name)
                  /\ ReadHead(toClient'[c]).status = Status(IsDir(where'[c], task'[c].name))
             ELSE cwd'[c] = where'[c]
  <2>1. /\ Whole(c) /\ ~ClientCloses(c) /\ ~GotQuit(c) /\ ~BrokenPipeKills(c) /\ ~Exit(c)
        /\ ~Kill(c) /\ ~PutShort(c) /\ ~ReadFailed(c) /\ ~SendFailed(c)
    BY <1>2, WasWhole
  <2>2. ~BadReply(c)
    BY <2>1, ReplyMet DEF BadReply
  <2>3. cwd' = cwd
    BY DEF serverVars
  <2>4. CASE GotCd(c)
    <3>1. /\ Answered(c) /\ cpc[c] = "cd" /\ toClient[c] \in Seq(Byte)
          /\ HEADER_LENGTH <= Len(toClient[c])
      BY <2>1, <2>4, ReplyTaken DEF GotCd, Waiting
    <3>2. toClient[c] # <<>>
      BY <3>1, WordFacts, EmptySeq
    <3>3. cpc'[c] = "prompt"
      BY <2>4, ReturnTo DEF GotCd
    <3>4. /\ cwd[c] = ChangeDir(where[c], task[c].name)
          /\ GotStatus(c) = Status(IsDir(where[c], task[c].name))
      BY <2>1, <3>1, <3>2 DEF DirAgreesAt, GotStatus
    <3>5. <<where[c], task[c].name>> \in DOMAIN Enter
      BY <3>1, EnterAssumption, ClientTypes DEF IInv, TaskNamed
    <3> DEFINE there == Enter[<<where[c], task[c].name>>]
    <3>6. where' = IF GotStatus(c) = 1 /\ there # Absent
                   THEN [where EXCEPT ![c] = there] ELSE where
      BY <2>4 DEF GotCd
    <3>7. IsDir(where[c], task[c].name) <=> there # Absent
      BY <3>5 DEF IsDir
    <3>8. CASE there # Absent
      <4>1. cwd[c] = there /\ GotStatus(c) = 1
        BY <3>4, <3>7, <3>8 DEF ChangeDir, Status
      <4>2. where'[c] = there
        BY <3>6, <3>8, <4>1, ClientTypes
      <4> QED
        BY <2>3, <3>3, <4>1, <4>2
    <3>9. CASE ~(there # Absent)
      <4>1. cwd[c] = where[c] /\ where' = where
        BY <3>4, <3>6, <3>7, <3>9 DEF ChangeDir
      <4> QED
        BY <2>3, <3>3, <4>1
    <3> QED
      BY <3>8, <3>9
  <2>5. CASE ~GotCd(c)
    <3>1. UNCHANGED where
      BY <2>1, <2>2, <2>5 DEF Program, User, Shorten, Command, Ls, Cd, Get, Sha, Quit, Put, Issue,
      IssueName, GotOpen, GotList, ListPart, GotGet, GotSha, GotFile, GetStart,
      GetUnopened, GetPart, GotPut, PutPart, ShaStart, ShaPart
    <3>2. cpc[c] # "cd"
      BY <2>1, <2>2, <2>5 DEF Program, User, Shorten, Command, Ls, Cd, Get, Sha, Quit, Put, Issue,
      IssueName, Replied, GotOpen, GotList, ListPart, GotGet, GotSha, GotFile, GetStart,
      GetUnopened, GetPart, GotPut, PutPart, ShaStart, ShaPart
    <3>3. ASSUME cpc'[c] = "cd" PROVE toClient'[c] = <<>>
      <4>1. Cd(c)
        BY <2>1, <2>2, <2>5, <3>2, <3>3, ClientTypes DEF Program, User, Shorten, Command, Ls, Get,
        Sha, Quit, Put, Issue, IssueName, GotOpen, GotList, ListPart, GotGet, GotSha,
        GotFile, GetStart, GetUnopened, GetPart, GotPut, PutPart, ShaStart, ShaPart, ShaStep,
        Move, Return, Carry
      <4>2. cpc[c] = "prompt" /\ UNCHANGED toClient
        BY <4>1 DEF Cd, IssueName
      <4>3. toClient[c] = <<>>
        BY <2>1, <4>2, RequestedKinds DEF InStepAt, Quiet, Asked, Answered
      <4> QED
        BY <4>2, <4>3
    <3>4. cwd[c] = where[c]
      BY <2>1, <3>2 DEF DirAgreesAt
    <3> QED
      BY <2>3, <3>1, <3>3, <3>4
  <2> QED
    BY <2>4, <2>5
<1> QED
  BY <1>1, <1>2 DEF DirAgreesAt

LEMMA StepDirAgrees == LengthsFit /\ StepInv /\ DirAgrees /\ [Next]_vars => DirAgrees'
<1> SUFFICES ASSUME LengthsFit, StepInv, DirAgrees, [Next]_vars, NEW d \in Clients
             PROVE  DirAgreesAt(d)'
  BY DEF DirAgrees
<1>1. IInv /\ TaskSizes /\ InStep /\ InStepAt(d) /\ DirAgreesAt(d)
  BY DEF StepInv, Sizes, InStep, DirAgrees
<1>2. CASE UNCHANGED vars
  BY <1>1, <1>2 DEF vars, connVars, serverVars, clientVars, DirAgreesAt, Whole
<1>3. ASSUME NEW c \in Clients, Turn(c) PROVE DirAgreesAt(d)'
  <2>1. CASE Dies(c) /\ ThreadTurn(c)
    <3>1. UNCHANGED <<copen, clientVars>> /\ ~Whole(d)'
      BY <1>1, <2>1, HangupEnds DEF Dies, BrokenPipe, PathThrows, CallThrows, Terminate,
         ThreadTurn
    <3> QED
      BY <1>1, <3>1 DEF DirAgreesAt, clientVars
  <2>2. CASE ~Dies(c) /\ d # c
    BY <1>1, <1>3, <2>2, TurnApart, DirApart
  <2>3. CASE d = c /\ Dial(c)
    BY <1>1, <2>3, DirDial
  <2>4. CASE d = c /\ ThreadTurn(c)
    BY <1>1, <2>4, DirThread DEF ThreadTurn
  <2>5. CASE d = c /\ ClientTurn(c)
    BY <1>1, <2>5, DirClient DEF ClientTurn
  <2>6. CASE Dies(c) /\ ~ThreadTurn(c)
    <3>1. UNCHANGED serverVars \/ Dial(c)
      BY <1>3, <2>6, TurnIs DEF ClientTurn
    <3>2. up /\ ~up'
      BY <1>1, <2>6 DEF Dies, BrokenPipe, PathThrows, CallThrows, Terminate, Sending,
         Blocks, Request, IInv, EveryEndOwned
    <3> QED
      BY <3>1, <3>2 DEF serverVars, Dial, Backlog
  <2> QED
    BY <1>3, <2>1, <2>2, <2>3, <2>4, <2>5, <2>6, TurnIs
<1> QED
  BY <1>2, <1>3 DEF Next, Turn

LEMMA DirInvariant == LengthsFit => (Spec => []DirAgrees)
<1> SUFFICES ASSUME LengthsFit PROVE Spec => []DirAgrees
  OBVIOUS
<1>1. Init => DirAgrees
  BY DEF Init, ConnInit, ServerInit, ClientInit, DirAgrees, DirAgreesAt, Whole
<1>2. StepInv /\ DirAgrees /\ [Next]_vars => DirAgrees'
  BY StepDirAgrees
<1>3. Spec => []StepInv
  BY StepInvariant
<1> QED
  BY <1>1, <1>2, <1>3, PTL DEF Spec

(***************************************************************************)
(* As long as lengths fit their fields, the directory that CD's messages   *)
(* told the user is the one its thread works in, whenever the client is in *)
(* step and at the prompt.                                                 *)
(***************************************************************************)
THEOREM DirectoryAlwaysAgreed == LengthsFit => (Spec => []DirectoryAgreed)
<1> SUFFICES ASSUME LengthsFit PROVE Spec => []DirectoryAgreed
  OBVIOUS
<1>1. Spec => []DirAgrees
  BY DirInvariant
<1>2. DirAgrees => DirectoryAgreed
  BY DEF DirAgrees, DirAgreesAt, DirectoryAgreed
<1> QED
  BY <1>1, <1>2, PTL

-----------------------------------------------------------------------------
(* What ends the server.                                                   *)

\* No way out of step: no SHA is asked for, and the client's own files
\* neither fail to open nor become shorter under a PUT.
NoSlips ==
  "sha" \notin Commands /\ "localopen" \notin Faults /\ "localread" \notin Faults

\* A program that ended by itself left its thread nothing to answer: only
\* the rest of an upload.
SoundAt(c) ==
  /\ slip[c] = {}
  /\ cpc[c] \notin {"sha", "shahead", "shadata"}
  /\ cpc[c] = "putdata" => task[c].size = Len(local[c][task[c].name])
  /\ ~copen[c] /\ sopen[c] =>
       \/ cpc[c] = "killed"
       \/ cpc[c] = "exited" /\ Uploading(c) /\ Len(toServer[c]) = Wanted(c)

Sound == \A c \in Clients : SoundAt(c)

LEMMA SoundApart ==
  ASSUME NEW c \in Clients, Apart(c), NEW d \in Clients, d # c, SoundAt(d)
  PROVE  SoundAt(d)'
<1>1. Uploading(d)' = Uploading(d) /\ Wanted(d)' = Wanted(d)
  BY DEF Apart, Uploading, Wanted
<1> QED
  BY <1>1 DEF Apart, SoundAt

\* An upload that nobody answers is taken to its end.
LEMMA UploadGoesOn ==
  ASSUME IInv, NEW c \in Clients, Uploading(c), Len(toServer[c]) = Wanted(c),
         PutOpen(c) \/ PutBlock(c)
  PROVE  Uploading(c)' /\ Len(toServer'[c]) = Wanted(c)'
<1>0. toServer[c] \in Seq(Byte) /\ Len(toServer[c]) \in Nat
  BY ServerTypes
<1>1. CASE PutOpen(c)
  <2> DEFINE header == ReadHead(toServer[c])
             size == PayloadLength(header)
  <2>1. /\ header.length \in Nat /\ size = header.length - HEADER_LENGTH
        /\ size \in Lengths /\ Wanted(c) = header.length
        /\ HEADER_LENGTH <= Len(toServer[c])
    BY <1>1, DataMet DEF PutOpen
  <2>2. Continue(c, "putdata", 0, size) /\ toServer'[c] = Rest(toServer[c], HEADER_LENGTH)
    BY <1>1, ServerTypes DEF PutOpen, ServerTakes
  <2> HIDE DEF header, size
  <2>3. /\ 0 < size => spc'[c] = "putdata" /\ job'[c].done = 0 /\ job'[c].size = size
        /\ ~(0 < size) => spc'[c] = "head"
    <3>1. size \in Lengths /\ Continue(c, "putdata", 0, size)
      BY <2>1, <2>2
    <3> QED
      BY <3>1, ContinueTo
  <2>4. Len(toServer'[c]) = Len(toServer[c]) - HEADER_LENGTH
    BY <1>0, <2>1, <2>2, RestFacts, WordFacts
  <2>5. size \in Nat /\ Len(toServer'[c]) = size
    BY <1>0, <2>1, <2>4, WordFacts
  <2>6. CASE 0 < size
    BY <2>3, <2>5, <2>6 DEF Uploading, Wanted
  <2>7. CASE ~(0 < size)
    BY <2>3, <2>5, <2>7 DEF Uploading, Wanted
  <2> QED
    BY <2>6, <2>7
<1>2. CASE PutBlock(c)
  <2>1. /\ spc[c] = "putdata" /\ job[c].done \in Nat /\ job[c].size \in Lengths
        /\ job[c].size \in Nat
    BY <1>2, OpenedFile, ServerTypes DEF PutBlock
  <2>2. PICK n \in 1..Min({Block, job[c].size - job[c].done, Len(toServer[c])}) :
          ServerTakes(c, n) /\ Continue(c, "putdata", job[c].done + n, job[c].size)
    BY <1>2 DEF PutBlock
  <2>3. n \in Nat /\ n <= job[c].size - job[c].done /\ n <= Len(toServer[c])
    <3>1. Block \in Int /\ job[c].size - job[c].done \in Int /\ Len(toServer[c]) \in Int
      BY <1>0, <2>1, BlockAssumption
    <3> QED
      BY <3>1, InMin
  <2>4. job[c].done + n \in Nat
    BY <2>1, <2>3
  <2>5. /\ job[c].done + n < job[c].size =>
             spc'[c] = "putdata" /\ job'[c].done = job[c].done + n /\ job'[c].size = job[c].size
        /\ ~(job[c].done + n < job[c].size) => spc'[c] = "head"
    BY <2>1, <2>2, <2>4, ContinueTo
  <2>6. Len(toServer'[c]) = Len(toServer[c]) - n
    <3>1. toServer'[c] = Rest(toServer[c], n)
      BY <2>2, ServerTypes DEF ServerTakes
    <3> QED
      BY <1>0, <2>3, <3>1, RestFacts
  <2>7. Len(toServer[c]) = job[c].size - job[c].done
    BY <2>1 DEF Wanted
  <2>8. CASE job[c].done + n < job[c].size
    BY <2>1, <2>3, <2>5, <2>6, <2>7, <2>8 DEF Uploading, Wanted
  <2>9. CASE ~(job[c].done + n < job[c].size)
    BY <2>1, <2>3, <2>5, <2>6, <2>7, <2>9 DEF Uploading, Wanted
  <2> QED
    BY <2>8, <2>9
<1> QED
  BY <1>1, <1>2

\* A thread whose client left it only the rest of an upload sends nothing.
LEMMA NothingToAnswer ==
  ASSUME IInv, NEW c \in Clients, Uploading(c), Len(toServer[c]) = Wanted(c)
  PROVE  ~Sending(c)
<1> SUFFICES ASSUME Sending(c) PROVE FALSE
  OBVIOUS
<1>1. PICK kind \in Requests : Request(c, kind)
  BY DEF Sending, Uploading
<1>2. spc[c] = "head" /\ HeadReady(toServer[c])
  BY <1>1 DEF Request
<1>3. Len(toServer[c]) = 0
  BY <1>2 DEF Wanted
<1> QED
  BY <1>2, <1>3, WordFacts DEF HeadReady

\* Every step of a thread is a send, takes of an upload, ends the
\* connection, or accepts it.
LEMMA ThreadKinds ==
  ASSUME IInv, NEW c \in Clients, Acts(c)
  PROVE  \/ Hangup({c}) \/ Hangup(Clients)
         \/ UNCHANGED sopen /\ (Sending(c) \/ spc[c] = "backlog" \/ PutOpen(c) \/ PutBlock(c))
<1>1. CASE Hangup({c}) \/ Hangup(Clients)
  BY <1>1
<1>2. CASE ~Hangup({c}) /\ ~Hangup(Clients)
  <2>1. UNCHANGED sopen
    BY <1>2 DEF Acts, Dies, Thread, CallFails, Accept, HandleOpen, HandleList, HandleCd,
       HandleGet, HandleSha, HandleFile, GetOpen, GetBlock, GetShort, HandlePut, PutOpen,
       PutRefused, PutBlock, ShaSend, HandleQuit, Refuse, ReadFails, SendFails,
       BrokenPipe, PathThrows, CallThrows, Terminate, connVars
  <2>2. CASE \E kind \in Requests : Request(c, kind)
    BY <2>1, <2>2 DEF Sending
  <2>3. CASE ~\E kind \in Requests : Request(c, kind)
    BY <1>2, <2>1, <2>3 DEF Acts, Dies, Thread, CallFails, Accept, HandleOpen,
       HandleList, HandleCd, HandleGet, HandleSha, HandleFile, GetOpen, GetBlock,
       GetShort, HandlePut, PutRefused, ShaSend, HandleQuit, Refuse, ReadFails,
       SendFails, BrokenPipe, PathThrows, CallThrows, Terminate, Sending, Requests
  <2> QED
    BY <2>2, <2>3
<1> QED
  BY <1>1, <1>2

LEMMA SoundThread ==
  ASSUME IInv, NEW c \in Clients, SoundAt(c), Acts(c),
         UNCHANGED clientVars
  PROVE  SoundAt(c)'
<1>1. UNCHANGED copen
  BY ThreadApart DEF Dies, BrokenPipe, PathThrows, CallThrows, Terminate
<1>2. CASE ~sopen'[c]
  BY <1>2 DEF SoundAt, clientVars
<1>3. CASE sopen'[c]
  <2>1. ~Hangup({c}) /\ ~Hangup(Clients)
    BY <1>3 DEF Hangup, ServerCloses
  <2>2. sopen[c] /\ (Sending(c) \/ spc[c] = "backlog" \/ PutOpen(c) \/ PutBlock(c))
    BY <1>3, <2>1, ThreadKinds
  <2>3. CASE ~copen[c] /\ cpc[c] = "exited"
    <3>1. Uploading(c) /\ Len(toServer[c]) = Wanted(c)
      BY <2>2, <2>3 DEF SoundAt
    <3>2. ~Sending(c) /\ spc[c] # "backlog"
      BY <3>1, NothingToAnswer DEF Uploading
    <3>3. Uploading(c)' /\ Len(toServer'[c]) = Wanted(c)'
      BY <2>2, <3>1, <3>2, UploadGoesOn
    <3> QED
      BY <2>3, <3>3 DEF SoundAt, clientVars
  <2>4. CASE copen[c] \/ cpc[c] # "exited"
    BY <1>1, <2>2, <2>4 DEF SoundAt, clientVars
  <2> QED
    BY <2>3, <2>4
<1> QED
  BY <1>2, <1>3

\* The three slips do not happen.
LEMMA NoneSlips ==
  ASSUME NoSlips, IInv, TaskSizes, NEW c \in Clients, SoundAt(c),
         Program(c) \/ User(c) \/ Kill(c) \/ Shorten(c)
  PROVE  /\ ~PutShort(c) /\ ~GetUnopened(c) /\ ~Shorten(c) /\ ~Sha(c) /\ ~GotSha(c)
         /\ ~ShaStart(c) /\ ~ShaPart(c)
<1>1. ~GetUnopened(c) /\ ~Shorten(c) /\ ~Sha(c)
  BY DEF NoSlips, GetUnopened, Shorten, Sha, IssueName
<1>2. ~GotSha(c) /\ ~ShaStart(c) /\ ~ShaPart(c)
  BY DEF SoundAt, GotSha, GotFile, ShaStart, ShaPart, Replied
<1>3. ~PutShort(c)
  <2> SUFFICES ASSUME PutShort(c) PROVE FALSE
    OBVIOUS
  <2>1. cpc[c] = "putdata" /\ LocalBlock(c) = <<>>
    BY DEF PutShort
  <2>2. /\ task[c].size = Len(local[c][task[c].name]) /\ task[c].done < task[c].size
        /\ task[c].done \in Nat /\ local[c][task[c].name] \in Seq(Byte)
    BY <2>1, TransferTypes, ClientTypes DEF SoundAt, TaskSizes, IInv, TaskNamed
  <2> QED
    BY <2>1, <2>2, BlockLeft DEF LocalBlock
<1> QED
  BY <1>1, <1>2, <1>3

LEMMA SoundSlip ==
  ASSUME NoSlips, IInv, TaskSizes, NEW c \in Clients, SoundAt(c),
         Program(c) \/ User(c) \/ Kill(c) \/ Shorten(c)
  PROVE  slip'[c] = {} /\ cpc'[c] \notin {"sha", "shahead", "shadata"}
<1>1. /\ ~PutShort(c) /\ ~GetUnopened(c) /\ ~Shorten(c) /\ ~Sha(c) /\ ~GotSha(c)
      /\ ~ShaStart(c) /\ ~ShaPart(c)
  BY NoneSlips
<1>2. slip[c] = {} /\ cpc[c] \notin {"sha", "shahead", "shadata"}
  BY DEF SoundAt
<1>3. slip'[c] = {}
  BY <1>1, <1>2, ClientTypes DEF Program, User, Kill, Command, Ls, Cd, Get, Quit, Put, Issue,
    IssueName, GotOpen, GotList, ListPart, GotCd, GotGet, GotFile, GetStart, GetPart, GotPut,
    PutPart, GotQuit, BadReply, ReadFailed, Fail, SendFailed, BrokenPipeKills, Exit, End, Forget
<1>4. cpc'[c] \notin {"sha", "shahead", "shadata"}
  BY <1>1, <1>2, ClientTypes DEF Program, User, Kill, Command, Ls, Cd, Get, Quit, Put, Issue,
    IssueName, GotOpen, GotList, ListPart, GotCd, GotGet, GotFile, GetStart, GetPart, GotPut,
    PutPart, GotQuit, BadReply, ReadFailed, Fail, SendFailed, BrokenPipeKills, Exit, End,
    Return, Move, Carry
<1> QED
  BY <1>3, <1>4

\* PUT announces what its file still holds.
LEMMA PutSound ==
  ASSUME NoSlips, IInv, TaskSizes, NEW c \in Clients, SoundAt(c),
         Program(c) \/ User(c) \/ Kill(c) \/ Shorten(c), cpc'[c] = "putdata"
  PROVE  task'[c].size = Len(local'[c][task'[c].name])
<1>1. /\ ~PutShort(c) /\ ~GetUnopened(c) /\ ~Shorten(c) /\ ~Sha(c) /\ ~GotSha(c)
      /\ ~ShaStart(c) /\ ~ShaPart(c)
  BY NoneSlips
<1>2. GotPut(c) \/ PutPart(c)
  BY <1>1, ClientTypes DEF Program, User, Kill, Command, Ls, Cd, Get, Quit, Put, Issue,
    IssueName, Replied, GotOpen, GotList, ListPart, GotCd, GotGet, GotFile, GetStart, GetPart,
    GotQuit, BadReply, ReadFailed, Fail, SendFailed, BrokenPipeKills, Exit, End, Waiting,
    Receiving, Return, Move, Carry
<1>3. /\ task[c].size = Len(local[c][task[c].name]) /\ UNCHANGED local
      /\ task[c].size \in Lengths
  BY <1>2, TransferTypes DEF GotPut, PutPart, Replied, TaskSizes, SoundAt
<1>4. task'[c].size = task[c].size /\ task'[c].name = task[c].name
  <2>1. CASE GotPut(c)
    <3>1. Carry(c, "putdata", 0, task[c].size, "put")
      BY <2>1 DEF GotPut
    <3> QED
      BY <1>3, <3>1, CarryTo
  <2>2. CASE PutPart(c)
    <3>1. Carry(c, "putdata", task[c].done + Len(LocalBlock(c)), task[c].size, "put")
      BY <2>2 DEF PutPart
    <3>2. task[c].done + Len(LocalBlock(c)) \in Nat
      <4>1. /\ local[c][task[c].name] \in Seq(Byte) /\ task[c].done \in Nat
            /\ task[c].size \in Nat
        BY <2>2, TransferTypes DEF PutPart, IInv, TaskNamed
      <4>2. LocalBlock(c) \in Seq(Byte)
        BY <4>1, NextBlockType DEF LocalBlock
      <4> QED
        BY <4>1, <4>2
    <3> QED
      BY <1>3, <3>1, <3>2, CarryTo
  <2> QED
    BY <1>2, <2>1, <2>2
<1> QED
  BY <1>3, <1>4

\* A client that closes its end is killed, or has the prompt and leaves its
\* thread the rest of an upload.
LEMMA ClosedSound ==
  ASSUME NoSlips, IInv, NEW c \in Clients, InStepAt(c), SoundAt(c),
         Program(c) \/ User(c) \/ Kill(c) \/ Shorten(c), UNCHANGED serverVars,
         ~copen'[c], sopen'[c]
  PROVE  \/ cpc'[c] = "killed"
         \/ cpc'[c] = "exited" /\ Uploading(c)' /\ Len(toServer'[c]) = Wanted(c)'
<1>1. sopen[c]
  BY ClientApart
<1>2. CASE Kill(c) \/ BrokenPipeKills(c)
  BY <1>2, ClientTypes DEF Kill, BrokenPipeKills, End, Move
<1>3. CASE ~copen[c] /\ ~Kill(c) /\ ~BrokenPipeKills(c)
  <2>1. cpc[c] \in {"exited", "killed"}
    BY <1>1, <1>3 DEF SoundAt
  <2> QED
    BY <1>3, <2>1 DEF Program, User, Shorten, Command, Ls, Cd, Get, Sha, Quit, Put, Issue,
      IssueName, Replied, GotOpen, GotList, ListPart, GotCd, GotGet, GotSha, GotFile, GetStart,
      GetUnopened, GetPart, GotPut, PutPart, PutShort, ShaStart, ShaPart, GotQuit, BadReply,
      ReadFailed, SendFailed, Writing, Exit, Waiting, Receiving
<1>4. CASE copen[c] /\ ~Kill(c) /\ ~BrokenPipeKills(c)
  <2>1. Whole(c)
    BY <1>1, <1>4 DEF Whole, SoundAt
  <2>2. ~GotQuit(c) /\ ~BadReply(c)
    BY <2>1, ReplyMet DEF GotQuit, BadReply, Waiting
  <2>3. ~ReadFailed(c)
    BY <1>1 DEF ReadFailed
  <2>4. Exit(c)
    BY <1>4, <2>2, <2>3 DEF Program, User, Shorten, Command, Ls, Cd, Get, Sha, Quit, Put, Issue,
      IssueName, GotOpen, GotList, ListPart, GotCd, GotGet, GotSha, GotFile, GetStart,
      GetUnopened, GetPart, GotPut, PutPart, PutShort, ShaStart, ShaPart, SendFailed, connVars
  <2>5. cpc[c] = "prompt" /\ cpc'[c] = "exited" /\ UNCHANGED toServer
    BY <2>4, ClientTypes DEF Exit, End, Move
  <2>6. Quiet(c)
    BY <2>1, <2>5, RequestedKinds DEF InStepAt, Asked, Answered
  <2>7. Uploading(c) /\ Len(toServer[c]) = Wanted(c)
    <3>1. toServer[c] \in Seq(Byte) /\ Unsent(c) = 0
      BY <2>5, ServerTypes DEF Unsent
    <3> QED
      BY <2>6, <3>1 DEF Quiet
  <2>8. Uploading(c)' = Uploading(c) /\ Wanted(c)' = Wanted(c)
    BY <2>5 DEF Uploading, Wanted, serverVars
  <2> QED
    BY <2>5, <2>7, <2>8
<1> QED
  BY <1>2, <1>3, <1>4

\* The thread of a client that is alive and in step ends the server only
\* when its user named a path that is blocked.
LEMMA DownByName ==
  ASSUME LengthsFit, "server" \notin Faults, IInv, TaskSizes, NEW c \in Clients,
         InStepAt(c), DirAgreesAt(c), SoundAt(c), Turn(c), up, ~up', cpc[c] # "killed"
  PROVE  cpc[c] \in {"cd", "get", "sha"} /\ <<where[c], task[c].name>> \in Blocked
<1>1. ThreadTurn(c)
  BY TurnIs DEF Dial, Backlog, ClientTurn, serverVars
<1>2. Dies(c)
  BY <1>1 DEF ThreadTurn, Acts, Dies, Thread, CallFails, Accept, HandleOpen, HandleList,
     HandleCd, HandleGet, HandleSha, HandleFile, GetOpen, GetBlock, GetShort, HandlePut,
     PutOpen, PutRefused, PutBlock, ShaSend, HandleQuit, Refuse, ReadFails, SendFails,
     serverVars
<1>3. Sending(c) /\ (~copen[c] \/ Blocks(c))
  BY <1>2 DEF Dies, BrokenPipe, PathThrows, CallThrows, Blocks, Sending, Requests
<1>4. sopen[c]
  BY <1>3 DEF Sending, Request, IInv, EveryEndOwned
<1>5. ~(Uploading(c) /\ Len(toServer[c]) = Wanted(c))
  BY <1>3, NothingToAnswer
<1>6. Whole(c) /\ Blocks(c)
  BY <1>3, <1>4, <1>5 DEF SoundAt, Whole
<1>7. PICK kind \in {CHANGE_DIR_REQUEST, GET_REQUEST, SHA_REQUEST} : Request(c, kind)
  BY <1>6 DEF Blocks
<1>8. /\ cpc[c] \in DOMAIN Requested /\ kind = Requested[cpc[c]] /\ toClient[c] = <<>>
      /\ cpc[c] \in {"cd", "get", "put", "sha"} => NameOf(c) = task[c].name
  BY <1>6, <1>7, RequestMet DEF Requests
<1>9. cpc[c] \in {"cd", "get", "sha"}
  <2>1. PICK place \in {"cd", "get", "sha"} : kind = Requested[place]
    BY <1>7, RequestedKinds
  <2>2. place \in DOMAIN Requested
    BY RequestedKinds
  <2> QED
    BY <1>8, <2>1, <2>2, RequestNames
<1>10. cwd[c] = where[c]
  BY <1>6, <1>8 DEF DirAgreesAt
<1> QED
  BY <1>6, <1>8, <1>9, <1>10 DEF Blocks, Target

LEMMA StepSound == NoSlips /\ StepInv /\ Sound /\ [Next]_vars => Sound'
<1> SUFFICES ASSUME NoSlips, StepInv, Sound, [Next]_vars PROVE Sound'
  OBVIOUS
<1>0. IInv /\ TaskSizes
  BY DEF StepInv, Sizes, Sound
<1>1. CASE UNCHANGED vars
  BY <1>1 DEF vars, connVars, serverVars, clientVars, Sound, SoundAt, Uploading, Wanted
<1>2. ASSUME NEW c \in Clients, Turn(c) PROVE Sound'
  <2>0. SoundAt(c) /\ InStepAt(c)
    BY DEF Sound, StepInv, InStep
  <2>2. ASSUME NEW d \in Clients PROVE SoundAt(d)'
    <3>0. SoundAt(d)
      BY DEF Sound
    <3>1. CASE Dial(c)
      <4>1. CASE d = c
        BY <1>0, <2>0, <3>1, <4>1, ServerTypes, ClientTypes DEF Dial, Open, Connect, Move, SoundAt
      <4>2. CASE d # c
        BY <1>0, <1>2, <3>0, <3>1, <4>2, TurnApart, SoundApart DEF Dial, Open, Backlog,
           Dies, BrokenPipe, PathThrows, CallThrows, Terminate, Sending, Request
      <4> QED
        BY <4>1, <4>2
    <3>2. CASE ThreadTurn(c)
      <4>1. CASE Dies(c)
        <5>1. ~sopen'[d] /\ UNCHANGED clientVars
          BY <1>0, <3>2, <4>1, HangupEnds DEF Dies, BrokenPipe, PathThrows, CallThrows,
             Terminate, ThreadTurn
        <5> QED
          BY <3>0, <5>1 DEF SoundAt, clientVars
      <4>2. CASE ~Dies(c) /\ d # c
        BY <1>0, <1>2, <3>0, <4>2, TurnApart, SoundApart
      <4>3. CASE d = c
        BY <1>0, <3>0, <3>2, <4>3, SoundThread DEF ThreadTurn
      <4> QED
        BY <4>1, <4>2, <4>3
    <3>3. CASE ClientTurn(c)
      <4>1. CASE d # c
        BY <1>0, <3>0, <3>3, <4>1, ClientApart, SoundApart DEF ClientTurn
      <4>2. CASE d = c
        <5>1. slip'[c] = {} /\ cpc'[c] \notin {"sha", "shahead", "shadata"}
          BY <1>0, <2>0, <3>3, SoundSlip DEF ClientTurn
        <5>2. cpc'[c] = "putdata" => task'[c].size = Len(local'[c][task'[c].name])
          BY <1>0, <2>0, <3>3, PutSound DEF ClientTurn
        <5>3. ~copen'[c] /\ sopen'[c] =>
                \/ cpc'[c] = "killed"
                \/ cpc'[c] = "exited" /\ Uploading(c)' /\ Len(toServer'[c]) = Wanted(c)'
          BY <1>0, <2>0, <3>3, ClosedSound DEF ClientTurn
        <5> QED
          BY <4>2, <5>1, <5>2, <5>3 DEF SoundAt
      <4> QED
        BY <4>1, <4>2
    <3> QED
      BY <1>2, <3>1, <3>2, <3>3, TurnIs
  <2> QED
    BY <2>2 DEF Sound
<1> QED
  BY <1>1, <1>2 DEF Next, Turn

LEMMA SoundInvariant == LengthsFit /\ NoSlips => (Spec => []Sound)
<1> SUFFICES ASSUME LengthsFit, NoSlips PROVE Spec => []Sound
  OBVIOUS
<1>1. Init => Sound
  BY DEF Init, ConnInit, ServerInit, ClientInit, Sound, SoundAt
<1>2. StepInv /\ Sound /\ [Next]_vars => Sound'
  BY StepSound
<1>3. Spec => []StepInv
  BY StepInvariant
<1> QED
  BY <1>1, <1>2, <1>3, PTL DEF Spec

(***************************************************************************)
(* As long as lengths fit their fields, no client has a way out of step    *)
(* and the server's own calls work, the server dies only of a client that  *)
(* was killed, or in the handler of a request that names a path it may not *)
(* look at, in the directory the user was told.                            *)
(***************************************************************************)
THEOREM ServerSurvivesAlways ==
  LengthsFit /\ NoSlips /\ "server" \notin Faults => (Spec => ServerSurvives)
<1> SUFFICES ASSUME LengthsFit, NoSlips, "server" \notin Faults PROVE Spec => ServerSurvives
  OBVIOUS
<1> DEFINE Step ==
      up /\ ~up' =>
        \E c \in Clients :
          \/ cpc[c] = "killed" \/ slip[c] # {}
          \/ cpc[c] \in {"cd", "get", "sha"} /\ <<where[c], task[c].name>> \in Blocked
<1>1. StepInv /\ Sound /\ DirAgrees /\ [Next]_vars => [Step]_vars
  <2> SUFFICES ASSUME StepInv, Sound, DirAgrees, [Next]_vars, up, ~up'
               PROVE  \E c \in Clients :
                        \/ cpc[c] = "killed" \/ slip[c] # {}
                        \/ /\ cpc[c] \in {"cd", "get", "sha"}
                           /\ <<where[c], task[c].name>> \in Blocked
    OBVIOUS
  <2>1. Next
    BY DEF vars, serverVars
  <2>2. PICK c \in Clients : Turn(c)
    BY <2>1 DEF Next, Turn
  <2>3. IInv /\ TaskSizes /\ InStepAt(c) /\ SoundAt(c) /\ DirAgreesAt(c)
    BY DEF StepInv, Sizes, InStep, Sound, DirAgrees
  <2>4. CASE cpc[c] = "killed"
    BY <2>4
  <2>5. CASE cpc[c] # "killed"
    <3>1. cpc[c] \in {"cd", "get", "sha"} /\ <<where[c], task[c].name>> \in Blocked
      BY <2>2, <2>3, <2>5, DownByName
    <3> QED
      BY <3>1
  <2> QED
    BY <2>4, <2>5
<1>2. Spec => [](StepInv /\ Sound /\ DirAgrees)
  BY StepInvariant, SoundInvariant, DirInvariant, PTL
<1>3. Spec => [][Step]_vars
  BY <1>1, <1>2, PTL DEF Spec
<1> QED
  BY <1>3 DEF ServerSurvives

-----------------------------------------------------------------------------
(* What a client in step can still find in its stream, its connection cut  *)
(* or not: at most the rest of its reply.                                  *)

FileLeft(stream) ==
  stream # <<>> => Front(stream, File_DATA) /\ Len(stream) <= ReadHead(stream).length

LeftAt(c) ==
  LET stream == toClient[c]
      length == ReadHead(stream).length
      found  == ReadHead(stream).status = 1
  IN
  /\ cpc[c] \in {"prompt", "putdata"} => stream = <<>>
  /\ cpc[c] \in DOMAIN Requested /\ stream # <<>> =>
       /\ Front(stream, Expected[cpc[c]])
       /\ CASE cpc[c] = "ls"                     -> Len(stream) <= length
            [] cpc[c] \in {"get", "sha"} /\ found -> FileLeft(Rest(stream, HEADER_LENGTH))
            [] OTHER                             -> Len(stream) = HEADER_LENGTH
  /\ cpc[c] \in {"gethead", "shahead"} => FileLeft(stream)
  /\ cpc[c] \in {"lsdata", "getdata"} => Len(stream) <= task[c].size - task[c].done

\* Of a connection that the server has closed; of one that is whole, see StepLeft.
CutLeft == \A c \in Clients : copen[c] /\ ~sopen[c] /\ slip[c] = {} => LeftAt(c)

LEMMA FileIsLeft ==
  ASSUME IInv, JobSizes, NEW c \in Clients, NEW stream \in Seq(Byte), FileComes(c, stream)
  PROVE  FileLeft(stream)
<1> SUFFICES ASSUME stream # <<>> PROVE Front(stream, File_DATA) /\ Len(stream) <= ReadHead(stream).length
  BY DEF FileLeft
<1>1. /\ spc[c] \in {"getdata", "head"} /\ Front(stream, File_DATA)
      /\ Len(stream) + Owed(c) = ReadHead(stream).length
  BY DEF FileComes
<1>2. Owed(c) \in Nat /\ Len(stream) \in Nat
  BY <1>1, NothingOwed
<1> QED
  BY <1>1, <1>2

\* In step, there is no more.
LEMMA StepLeft ==
  ASSUME IInv, JobSizes, NEW c \in Clients, InStepAt(c), Whole(c)
  PROVE  LeftAt(c)
<1> DEFINE stream == toClient[c]
<1>1. stream \in Seq(Byte) /\ Len(stream) \in Nat
  BY ServerTypes
<1>2. CASE Quiet(c)
  BY <1>2, RequestedKinds DEF Quiet, LeftAt
<1>3. CASE Asked(c)
  BY <1>3, RequestedKinds DEF Asked, LeftAt, FileLeft
<1>4. CASE Answered(c)
  <2>1. cpc[c] \in {"open", "ls", "cd", "get", "put", "sha"} => Front(stream, Expected[cpc[c]])
    BY <1>4 DEF Answered
  <2>2. CASE cpc[c] \in {"open", "cd", "put", "ls"}
    BY <1>1, <1>4, <2>1, <2>2 DEF Answered, LeftAt
  <2>3. CASE cpc[c] \in {"get", "sha"}
    <3> DEFINE rest == Rest(stream, HEADER_LENGTH)
    <3>1. Front(stream, Expected[cpc[c]])
      BY <2>1, <2>3
    <3>2. rest \in Seq(Byte)
      BY <1>1, <3>1, RestFacts, WordFacts DEF Front, HeadReady
    <3>3. IF ReadHead(stream).status = 1
          THEN IF cpc[c] = "get" THEN FileComes(c, rest) ELSE ShaComes(c, rest)
          ELSE Len(stream) = HEADER_LENGTH
      BY <1>4, <2>3 DEF Answered
    <3> HIDE DEF rest
    <3>4. CASE ReadHead(stream).status = 1
      <4>1. FileLeft(rest)
        <5>1. CASE cpc[c] = "get"
          BY <3>2, <3>3, <3>4, <5>1, FileIsLeft
        <5>2. CASE cpc[c] = "sha"
          BY <3>2, <3>3, <3>4, <5>2 DEF ShaComes, FileLeft
        <5> QED
          BY <2>3, <5>1, <5>2
      <4> QED
        BY <2>3, <3>1, <3>4, <4>1 DEF LeftAt, rest
    <3>5. CASE ReadHead(stream).status # 1
      BY <2>3, <3>1, <3>3, <3>5 DEF LeftAt
    <3> QED
      BY <3>4, <3>5
  <2>4. CASE cpc[c] = "gethead"
    <3>1. FileLeft(stream)
      BY <1>1, <1>4, <2>4, FileIsLeft DEF Answered
    <3> QED
      BY <2>4, <3>1, RequestedKinds DEF LeftAt
  <2>5. CASE cpc[c] = "shahead"
    <3>1. FileLeft(stream)
      BY <1>1, <1>4, <2>5 DEF Answered, ShaComes, FileLeft
    <3> QED
      BY <2>5, <3>1, RequestedKinds DEF LeftAt
  <2>6. CASE cpc[c] \in {"lsdata", "getdata", "shadata"}
    <3>1. task[c].size \in Nat /\ task[c].done \in Nat
      BY TransferTypes
    <3>2. cpc[c] = "getdata" => Len(stream) + Owed(c) = task[c].size - task[c].done /\ Owed(c) \in Nat
      BY <1>4, NothingOwed DEF Answered
    <3>3. cpc[c] \in {"lsdata", "getdata"} => Len(stream) <= task[c].size - task[c].done
      BY <1>1, <1>4, <3>1, <3>2 DEF Answered
    <3> QED
      BY <2>6, <3>3, RequestedKinds DEF LeftAt
  <2>7. cpc[c] \in {"open", "ls", "cd", "get", "put", "sha", "gethead", "shahead", "lsdata",
                     "getdata", "shadata"}
    BY <1>4 DEF Answered
  <2> QED
    BY <2>2, <2>3, <2>4, <2>5, <2>6, <2>7
<1> QED
  BY <1>2, <1>3, <1>4 DEF InStepAt

\* A reply that is all header leaves nothing.
LEMMA BareLeft ==
  ASSUME IInv, NEW c \in Clients, LeftAt(c), NEW place \in {"open", "cd", "put"},
         Replied(c, place)
  PROVE  toClient'[c] = <<>>
<1>1. cpc[c] = place /\ HeadReady(toClient[c]) /\ ClientTakes(c, HEADER_LENGTH)
  BY DEF Replied
<1>2. toClient[c] # <<>> /\ place \in DOMAIN Requested
  BY <1>1, WordFacts, EmptySeq, RequestedKinds DEF HeadReady
<1>3. Len(toClient[c]) = HEADER_LENGTH
  BY <1>1, <1>2 DEF LeftAt
<1> QED
  BY <1>1, <1>3, Taken, WordFacts

\* After a header, what it announces is all there can be.
LEMMA PayloadLeft ==
  ASSUME IInv, NEW c \in Clients, LeftAt(c), NEW place \in {"ls", "gethead"}, Replied(c, place)
  PROVE  /\ GotLength(c) \in Nat /\ GotLength(c) \in Lengths
         /\ toClient'[c] \in Seq(Byte) /\ Len(toClient'[c]) <= GotLength(c)
<1> DEFINE header == ReadHead(toClient[c])
           n == PayloadLength(header)
<1>1. /\ cpc[c] = place /\ HeadReady(toClient[c]) /\ ClientTakes(c, HEADER_LENGTH)
      /\ Is(Expected[place], header) /\ toClient[c] \in Seq(Byte)
  BY ServerTypes DEF Replied
<1>2. toClient[c] # <<>> /\ HEADER_LENGTH <= Len(toClient[c]) /\ "ls" \in DOMAIN Requested
  BY <1>1, WordFacts, EmptySeq, RequestedKinds DEF HeadReady
<1>3. Len(toClient[c]) <= header.length
  BY <1>1, <1>2 DEF LeftAt, FileLeft
<1>4. header \in HeaderType
  BY <1>1, ReadHeadType
<1>5. n \in Nat /\ n \in Lengths /\ header.length = HEADER_LENGTH + n
  <2>1. Expected[place] \in {LIST_REPLY, File_DATA}
    BY ExpectedKinds
  <2> QED
    BY <1>1, <1>4, <2>1, PayloadRead
<1>6. toClient'[c] \in Seq(Byte) /\ Len(toClient'[c]) = Len(toClient[c]) - HEADER_LENGTH
  BY <1>1, <1>2, Taken, WordFacts
<1> HIDE DEF header, n
<1>7. Len(toClient'[c]) <= n
  BY <1>3, <1>5, <1>6, <1>1, HeaderAssumption
<1> QED
  BY <1>5, <1>6, <1>7 DEF GotLength, header, n

LEMMA LeftGotFile ==
  ASSUME IInv, NEW c \in Clients, LeftAt(c), GotGet(c) \/ GotSha(c)
  PROVE  LeftAt(c)'
<1> DEFINE stream == toClient[c]
<1>1. /\ cpc[c] \in {"get", "sha"} /\ HeadReady(stream) /\ ClientTakes(c, HEADER_LENGTH)
      /\ IF ReadHead(stream).status = 1
         THEN Move(c, IF cpc[c] = "get" THEN "gethead" ELSE "shahead") ELSE Return(c, "none")
  BY DEF GotGet, GotSha, GotFile, GotStatus, Replied
<1>2. stream # <<>> /\ cpc[c] \in DOMAIN Requested
  BY <1>1, WordFacts, EmptySeq, RequestedKinds DEF HeadReady
<1>3. IF ReadHead(stream).status = 1 THEN FileLeft(Rest(stream, HEADER_LENGTH))
                                     ELSE Len(stream) = HEADER_LENGTH
  BY <1>1, <1>2 DEF LeftAt
<1>4. toClient'[c] = Rest(stream, HEADER_LENGTH)
  BY <1>1, ServerTypes DEF ClientTakes
<1>5. CASE ReadHead(stream).status = 1
  <2>1. FileLeft(toClient'[c]) /\ cpc'[c] \in {"gethead", "shahead"}
    BY <1>1, <1>3, <1>4, <1>5, ClientTypes DEF Move
  <2> QED
    BY <2>1, RequestedKinds DEF LeftAt
<1>6. CASE ReadHead(stream).status # 1
  <2>1. toClient'[c] = <<>>
    BY <1>1, <1>3, <1>6, Taken, WordFacts
  <2>2. cpc'[c] = "prompt"
    BY <1>1, <1>6, ReturnTo
  <2> QED
    BY <2>1, <2>2, RequestedKinds DEF LeftAt
<1> QED
  BY <1>5, <1>6

LEMMA LeftGetStart ==
  ASSUME IInv, NEW c \in Clients, LeftAt(c), slip'[c] = {},
         GetStart(c) \/ GetUnopened(c)
  PROVE  LeftAt(c)'
<1>1. Replied(c, "gethead")
  BY DEF GetStart, GetUnopened
<1> DEFINE size == GotLength(c)
<1>2. /\ size \in Nat /\ size \in Lengths /\ toClient'[c] \in Seq(Byte)
      /\ Len(toClient'[c]) <= size
  BY <1>1, PayloadLeft
<1>3. Carry(c, "getdata", 0, size, "get") \/ (Return(c, "none") /\ size = 0)
  BY ClientTypes DEF GetStart, GetUnopened
<1> HIDE DEF size
<1>4. CASE 0 < size
  <2>1. cpc'[c] = "getdata" /\ task'[c].done = 0 /\ task'[c].size = size
    BY <1>2, <1>3, <1>4, CarryTo
  <2>2. Len(toClient'[c]) <= task'[c].size - task'[c].done
    BY <1>2, <2>1
  <2> QED
    BY <2>1, <2>2, RequestedKinds DEF LeftAt
<1>5. CASE ~(0 < size)
  <2>1. cpc'[c] = "prompt"
    BY <1>2, <1>3, <1>5, CarryTo, ReturnTo
  <2>2. toClient'[c] = <<>>
    BY <1>2, <1>5, EmptySeq
  <2> QED
    BY <2>1, <2>2, RequestedKinds DEF LeftAt
<1> QED
  BY <1>4, <1>5

LEMMA LeftGotList ==
  ASSUME IInv, TaskSizes, NEW c \in Clients, LeftAt(c), GotList(c)
  PROVE  LeftAt(c)'
<1>1. Replied(c, "ls") /\ cpc[c] = "ls"
  BY DEF GotList, Replied
<1>2. /\ GotLength(c) \in Nat /\ toClient'[c] \in Seq(Byte)
      /\ Len(toClient'[c]) <= GotLength(c)
  BY <1>1, PayloadLeft
<1>3. cpc'[c] = "lsdata" /\ task'[c].size = GotLength(c) /\ task'[c].done = 0
  BY <1>1, ClientTypes DEF GotList, Move, Transfers, TaskSizes, Waiting
<1>4. Len(toClient'[c]) <= task'[c].size - task'[c].done
  BY <1>2, <1>3
<1> QED
  BY <1>3, <1>4, RequestedKinds DEF LeftAt

LEMMA LeftPart ==
  ASSUME IInv, NEW c \in Clients, LeftAt(c), ListPart(c) \/ GetPart(c)
  PROVE  LeftAt(c)'
<1> DEFINE size == task[c].size
           done == task[c].done
<1>1. /\ size \in Nat /\ done \in Nat /\ size \in Lengths /\ Len(toClient[c]) \in Nat
      /\ Len(toClient[c]) <= size - done
  <2>1. size \in Nat /\ done \in Nat /\ size \in Lengths
    BY TransferTypes
  <2>2. toClient[c] \in Seq(Byte)
    BY ServerTypes
  <2>3. cpc[c] \in {"lsdata", "getdata"}
    BY DEF ListPart, GetPart
  <2>4. Len(toClient[c]) <= size - done
    BY <2>3 DEF LeftAt
  <2> QED
    BY <2>1, <2>2, <2>4
<1>2. \E n \in Nat :
        /\ n <= Len(toClient[c]) /\ ClientTakes(c, n)
        /\ done + n < size =>
             /\ cpc'[c] \in {"lsdata", "getdata"} /\ task'[c].done = done + n
             /\ task'[c].size = size
        /\ ~(done + n < size) => cpc'[c] = "prompt"
  <2>1. CASE ListPart(c)
    <3>1. PICK n \in 1..Min({task[c].size, Len(toClient[c])}) :
            /\ ClientTakes(c, n)
            /\ IF task[c].done + n < task[c].size
               THEN task' = [task EXCEPT ![c].done = task[c].done + n] /\ UNCHANGED <<cpc, told>>
               ELSE Return(c, "none")
      BY <2>1 DEF ListPart
    <3>2. n \in Nat /\ n <= Len(toClient[c])
      <4>1. task[c].size \in Int /\ Len(toClient[c]) \in Int
        BY <1>1
      <4> QED
        BY <4>1, InMinOfTwo
    <3>3. done + n < size => /\ cpc'[c] = "lsdata" /\ task'[c].done = done + n
                             /\ task'[c].size = size
      BY <2>1, <3>1, ClientTypes DEF Transfers, ListPart
    <3>4. ~(done + n < size) => cpc'[c] = "prompt"
      BY <3>1, ReturnTo
    <3> QED
      BY <3>1, <3>2, <3>3, <3>4
  <2>2. CASE GetPart(c)
    <3>1. PICK n \in 1..Min({Block, task[c].size - task[c].done, Len(toClient[c])}) :
            /\ ClientTakes(c, n)
            /\ Carry(c, "getdata", task[c].done + n, task[c].size, "get")
      BY <2>2 DEF GetPart
    <3>2. n \in Nat /\ n <= Len(toClient[c])
      <4>1. Block \in Int /\ task[c].size - task[c].done \in Int /\ Len(toClient[c]) \in Int
        BY <1>1, BlockAssumption
      <4> QED
        BY <4>1, InMin
    <3>3. task[c].done + n \in Nat
      BY <1>1, <3>2
    <3> QED
      BY <1>1, <3>1, <3>2, <3>3, CarryTo
  <2> QED
    BY <2>1, <2>2
<1>3. PICK n \in Nat :
        /\ n <= Len(toClient[c]) /\ ClientTakes(c, n)
        /\ done + n < size =>
             /\ cpc'[c] \in {"lsdata", "getdata"} /\ task'[c].done = done + n
             /\ task'[c].size = size
        /\ ~(done + n < size) => cpc'[c] = "prompt"
  BY <1>2
<1>4. toClient'[c] \in Seq(Byte) /\ Len(toClient'[c]) = Len(toClient[c]) - n
  BY <1>3, Taken
<1>5. CASE done + n < size
  <2>1. Len(toClient'[c]) <= task'[c].size - task'[c].done
    BY SMTT(30), <1>1, <1>3, <1>4, <1>5
  <2> QED
    BY <1>3, <1>5, <2>1, RequestedKinds DEF LeftAt
<1>6. CASE ~(done + n < size)
  <2>1. toClient'[c] = <<>>
    <3>1. Len(toClient'[c]) = 0
      BY <1>1, <1>3, <1>4, <1>6
    <3> QED
      BY <1>4, <3>1, EmptySeq
  <2> QED
    BY <1>3, <1>6, <2>1, RequestedKinds DEF LeftAt
<1> QED
  BY <1>5, <1>6


\* A client step that leaves the end open and no slip found it so.
LEMMA StaysOpen ==
  ASSUME IInv, NEW c \in Clients, Program(c) \/ User(c) \/ Kill(c) \/ Shorten(c),
         UNCHANGED serverVars, copen'[c], slip'[c] = {}
  PROVE  copen[c] /\ slip[c] = {} /\ ~ClientCloses(c)
<1>1. ~ClientCloses(c) /\ ~GotQuit(c) /\ ~BrokenPipeKills(c) /\ ~Exit(c) /\ ~Kill(c)
  BY ServerTypes DEF GotQuit, BrokenPipeKills, Exit, Kill, End, ClientCloses
<1>2. UNCHANGED copen
  BY <1>1 DEF Program, User, Shorten, Command, Ls, Cd, Get, Sha, Quit, Put, Issue,
    IssueName, GotOpen, GotList, ListPart, GotCd, GotGet, GotSha, GotFile, GetStart,
    GetUnopened, GetPart, GotPut, PutPart, PutShort, ShaStart, ShaPart, BadReply, ReadFailed,
    Fail, SendFailed, connVars
<1>3. slip[c] \subseteq slip'[c]
  <2>1. CASE PutShort(c) \/ GetUnopened(c) \/ ShaStart(c) \/ ShaPart(c)
    BY <2>1, ClientTypes DEF PutShort, GetUnopened, ShaStart, ShaPart, ShaStep
  <2>2. CASE ~(PutShort(c) \/ GetUnopened(c) \/ ShaStart(c) \/ ShaPart(c))
    <3>1. UNCHANGED slip
      BY <1>1, <2>2 DEF Program, User, Shorten, Command, Ls, Cd, Get, Sha, Quit,
        Put, Issue, IssueName, GotOpen, GotList, ListPart, GotCd, GotGet, GotSha, GotFile,
        GetStart, GetPart, GotPut, PutPart, BadReply, ReadFailed, Fail, SendFailed
    <3> QED
      BY <3>1
  <2> QED
    BY <2>1, <2>2
<1> QED
  BY <1>1, <1>2, <1>3

\* A client that does not slip, and does not close, leaves no more than it found.
LEMMA LeftClient ==
  ASSUME IInv, TaskSizes, NEW c \in Clients, LeftAt(c), slip'[c] = {}, copen'[c],
         ~sopen[c], Program(c) \/ User(c) \/ Kill(c) \/ Shorten(c)
  PROVE  LeftAt(c)'
<1>0. ~GotQuit(c) /\ ~BrokenPipeKills(c) /\ ~Exit(c) /\ ~Kill(c) /\ ~ClientCloses(c)
  BY ServerTypes DEF GotQuit, BrokenPipeKills, Exit, Kill, End, ClientCloses
<1>1. ASSUME cpc'[c] \in {"prompt", "putdata"}, toClient'[c] = <<>> PROVE LeftAt(c)'
  BY <1>1, RequestedKinds DEF LeftAt
<1>2. CASE Command(c)
  <2>1. cpc[c] = "prompt" /\ UNCHANGED toClient /\ cpc'[c] \in DOMAIN Requested
    BY <1>2, ClientTypes, RequestedKinds DEF Command, Ls, Cd, Get, Sha, Quit, Put, Issue,
       IssueName, Move
  <2>2. toClient'[c] = <<>>
    BY <2>1 DEF LeftAt
  <2> QED
    BY <2>1, <2>2, RequestedKinds DEF LeftAt
<1>3. CASE GotOpen(c) \/ GotCd(c) \/ GotPut(c)
  <2>1. toClient'[c] = <<>>
    BY <1>3, BareLeft DEF GotOpen, GotCd, GotPut
  <2>2. cpc'[c] \in {"prompt", "putdata"}
    BY <1>3, ClientTypes DEF GotOpen, GotCd, GotPut, Return, Carry, Move
  <2> QED
    BY <1>1, <2>1, <2>2
<1>4. CASE PutPart(c)
  <2>1. cpc[c] = "putdata" /\ UNCHANGED toClient /\ cpc'[c] \in {"prompt", "putdata"}
    BY <1>4, ClientTypes DEF PutPart, Return, Carry, Move
  <2> QED
    BY <1>1, <2>1 DEF LeftAt
<1>5. CASE PutShort(c)
  BY <1>5, ClientTypes DEF PutShort
<1>6. CASE Shorten(c)
  BY <1>6 DEF Shorten, connVars, LeftAt
<1>7. CASE ShaStart(c) \/ ShaPart(c)
  <2>1. cpc'[c] = "shadata"
    BY <1>7, ClientTypes DEF ShaStart, ShaPart, ShaStep, Carry, Move
  <2> QED
    BY <2>1, RequestedKinds DEF LeftAt
<1>8. ~BadReply(c)
  <2> SUFFICES ASSUME BadReply(c) PROVE FALSE
    OBVIOUS
  <2>1. /\ cpc[c] \in Waiting /\ HeadReady(toClient[c])
        /\ ~Is(Expected[cpc[c]], ReadHead(toClient[c]))
    BY DEF BadReply
  <2>2. toClient[c] # <<>>
    BY <2>1, WordFacts, EmptySeq DEF HeadReady
  <2> QED
    BY <2>1, <2>2, RequestedKinds, ExpectedKinds DEF LeftAt, FileLeft, Front, Waiting
<1>9. CASE ReadFailed(c)
  <2>1. cpc[c] # "open" /\ Return(c, "none")
    BY <1>0, <1>9 DEF ReadFailed, Fail
  <2>2. toClient'[c] = <<>> /\ cpc'[c] = "prompt"
    BY <1>9, <2>1, ServerTypes, ReturnTo DEF ReadFailed
  <2> QED
    BY <1>1, <2>2
<1>10. CASE SendFailed(c)
  <2>1. cpc'[c] = "prompt" /\ cpc[c] \in {"prompt", "putdata", "put"}
    BY <1>10, ReturnTo DEF SendFailed, Writing
  <2>2. toClient'[c] = <<>>
    <3>1. CASE cpc[c] = "put"
      <4>1. HeadReady(toClient[c]) /\ toClient'[c] = Rest(toClient[c], HEADER_LENGTH)
            /\ toClient[c] \in Seq(Byte)
        BY <1>10, <3>1, ServerTypes DEF SendFailed, Writing
      <4>2. toClient[c] # <<>>
        BY <4>1, WordFacts, EmptySeq DEF HeadReady
      <4>3. Len(toClient[c]) = HEADER_LENGTH
        BY <3>1, <4>2, RequestedKinds DEF LeftAt
      <4> QED
        BY <4>1, <4>3, RestAll
    <3>2. CASE cpc[c] # "put"
      BY <1>10, <2>1, <3>2 DEF SendFailed, LeftAt
    <3> QED
      BY <3>1, <3>2
  <2> QED
    BY <1>1, <2>1, <2>2
<1> QED
  BY <1>0, <1>2, <1>3, <1>4, <1>5, <1>6, <1>7, <1>8, <1>9, <1>10, LeftGotFile, LeftGetStart,
     LeftGotList, LeftPart DEF Program, User

\* A thread that hangs up leaves its client the reply, or the answer to QUIT.
LEMMA LeftHangup ==
  ASSUME LengthsFit, IInv, TaskSizes, NEW c \in Clients, InStepAt(c), Whole(c), LeftAt(c),
         Acts(c), Hangup({c}), UNCHANGED clientVars
  PROVE  LeftAt(c)'
<1>1. CASE HandleQuit(c)
  <2> DEFINE header == Create(QUIT_REPLY, 0, 0)
             bytes == HeaderBytes(header)
  <2>1. /\ Request(c, QUIT_REQUEST) /\ QUIT_REQUEST \in Requests /\ ServerSends(c, bytes)
    BY <1>1 DEF HandleQuit, Requests
  <2>2. cpc[c] \in DOMAIN Requested /\ QUIT_REQUEST = Requested[cpc[c]] /\ toClient[c] = <<>>
    BY <2>1, RequestMet
  <2>3. cpc[c] = "quit"
    BY <1>1, QuitMet
  <2>4. header \in HeaderType /\ Is(QUIT_REPLY, header) /\ header.length = HEADER_LENGTH
    BY BareSent, BareKinds
  <2> HIDE DEF header
  <2>5. /\ bytes \in Seq(Byte) /\ Len(bytes) = HEADER_LENGTH /\ Front(bytes, QUIT_REPLY)
    BY <2>4, HeaderAlone DEF Front
  <2> HIDE DEF bytes
  <2>6. toClient'[c] = bytes
    <3>1. toClient'[c] = <<>> \o bytes
      BY <2>1, <2>2, <2>5, SentTo DEF Whole
    <3> QED
      BY <2>5, <3>1, ConcatEmptySeq
  <2>7. cpc'[c] = "quit"
    BY <2>3 DEF clientVars
  <2> QED
    BY <2>5, <2>6, <2>7, RequestedKinds, ExpectedKinds DEF LeftAt
<1>2. CASE ~HandleQuit(c)
  <2>1. ~UNCHANGED sopen
    BY ServerTypes DEF Hangup, ServerCloses, Whole
  <2>2. UNCHANGED toClient
    BY <1>2, <2>1 DEF Acts, Dies, Thread, CallFails, Accept, HandleOpen, HandleList,
       HandleCd, HandleGet, HandleSha, HandleFile, GetOpen, GetBlock, GetShort,
       HandlePut, PutOpen, PutRefused, PutBlock, ShaSend, Refuse, ReadFails, SendFails,
       BrokenPipe, PathThrows, CallThrows, Terminate, connVars
  <2> QED
    BY <2>2 DEF LeftAt, clientVars
<1> QED
  BY <1>1, <1>2

LEMMA HasLeft ==
  ASSUME StepInv, CutLeft, NEW c \in Clients, copen[c], slip[c] = {}
  PROVE  LeftAt(c)
BY StepLeft DEF StepInv, Sizes, InStep, CutLeft, Whole

LEMMA ThreadServes ==
  ASSUME IInv, NEW c \in Clients, Acts(c)
  PROVE  sopen[c]
BY DEF IInv, EveryEndOwned, Acts, Dies, Thread, CallFails, Accept, HandleOpen,
   HandleList, HandleCd, HandleGet, HandleSha, HandleFile, GetOpen, GetBlock, GetShort,
   HandlePut, PutOpen, PutRefused, PutBlock, ShaSend, HandleQuit, Refuse, ReadFails,
   SendFails, BrokenPipe, PathThrows, CallThrows, Terminate, Blocks, Sending, DataHead,
   Request

\* A thread ends its own connection, unless the process dies.
LEMMA OneHangup ==
  ASSUME IInv, NEW c \in Clients, Acts(c), ~Dies(c), ~sopen'[c], sopen[c]
  PROVE  Hangup({c})
BY DEF Acts, Dies, Thread, CallFails, Accept, HandleOpen, HandleList, HandleCd,
   HandleGet, HandleSha, HandleFile, GetOpen, GetBlock, GetShort, HandlePut, PutOpen,
   PutRefused, PutBlock, ShaSend, HandleQuit, Refuse, ReadFails, SendFails, connVars

LEMMA StepCutLeft == LengthsFit /\ StepInv /\ CutLeft /\ [Next]_vars => CutLeft'
<1> SUFFICES ASSUME LengthsFit, StepInv, CutLeft, [Next]_vars, NEW c \in Clients,
                    copen'[c], ~sopen'[c], slip'[c] = {}
             PROVE  LeftAt(c)'
  BY DEF CutLeft
<1>0. IInv /\ TaskSizes /\ InStepAt(c)
  BY DEF StepInv, Sizes, InStep
<1>1. CASE UNCHANGED vars
  BY <1>1 DEF vars, connVars, clientVars, CutLeft, LeftAt
<1>2. ASSUME NEW a \in Clients, Turn(a) PROVE LeftAt(c)'
  <2>1. CASE Dies(a)
    <3>1. ThreadTurn(a)
      <4>1. up /\ ~up'
        BY <1>0, <2>1 DEF Dies, BrokenPipe, PathThrows, CallThrows, Terminate, Sending,
           Blocks, Request, IInv, EveryEndOwned
      <4> QED
        BY <1>2, <4>1, TurnIs DEF Dial, Backlog, ClientTurn, serverVars
    <3>2. UNCHANGED <<toClient, copen, clientVars>>
      BY <2>1, <3>1 DEF Dies, BrokenPipe, PathThrows, CallThrows, Terminate, ThreadTurn
    <3>3. LeftAt(c)
      BY <3>2, HasLeft DEF clientVars
    <3> QED
      BY <3>2, <3>3 DEF LeftAt, clientVars
  <2>2. CASE ~Dies(a) /\ c # a
    <3>1. /\ toClient'[c] = toClient[c] /\ copen'[c] = copen[c] /\ slip'[c] = slip[c]
          /\ cpc'[c] = cpc[c] /\ task'[c] = task[c]
      BY <1>0, <1>2, <2>2, TurnApart DEF Apart
    <3>2. LeftAt(c)
      BY <3>1, HasLeft
    <3> QED
      BY <3>1, <3>2 DEF LeftAt
  <2>3. CASE ~Dies(a) /\ c = a /\ Dial(a)
    BY <1>0, <1>2, <2>3, ServerTypes DEF Dial, Open, Connect
  <2>4. CASE ~Dies(a) /\ c = a /\ ThreadTurn(a)
    <3>1. /\ UNCHANGED <<copen, clientVars>> /\ copen[c] /\ slip[c] = {}
          /\ Acts(c)
      BY <1>0, <2>4, ThreadApart DEF ThreadTurn, clientVars
    <3>2. LeftAt(c)
      BY <3>1, HasLeft
    <3>3. sopen[c]
      BY <1>0, <3>1, ThreadServes
    <3>4. Hangup({c})
      BY <1>0, <2>4, <3>1, <3>3, OneHangup
    <3> QED
      BY <1>0, <3>1, <3>2, <3>3, <3>4, LeftHangup DEF Whole
  <2>5. CASE ~Dies(a) /\ c = a /\ ClientTurn(a)
    <3>1. /\ UNCHANGED sopen /\ (Program(c) \/ User(c) \/ Kill(c) \/ Shorten(c))
      BY <1>0, <2>5, ClientApart DEF ClientTurn
    <3>2. copen[c] /\ slip[c] = {}
      BY <1>0, <2>5, StaysOpen DEF ClientTurn
    <3>3. LeftAt(c)
      BY <3>2, HasLeft
    <3> QED
      BY <1>0, <1>2, <3>1, <3>3, LeftClient
  <2> QED
    BY <1>2, <2>1, <2>2, <2>3, <2>4, <2>5, TurnIs
<1> QED
  BY <1>1, <1>2 DEF Next, Turn

LEMMA CutInvariant == LengthsFit => (Spec => []CutLeft)
<1> SUFFICES ASSUME LengthsFit PROVE Spec => []CutLeft
  OBVIOUS
<1>1. Init => CutLeft
  BY DEF Init, ConnInit, CutLeft
<1>2. StepInv /\ CutLeft /\ [Next]_vars => CutLeft'
  BY StepCutLeft
<1>3. Spec => []StepInv
  BY StepInvariant
<1> QED
  BY <1>1, <1>2, <1>3, PTL DEF Spec

-----------------------------------------------------------------------------
(* What has been sent and received of a file is what GET opened.           *)

Begins(part, file) ==
  Len(part) <= Len(file) /\ \A i \in 1..Len(part) : part[i] = file[i]

\* A file from its header on, as far as it has come.
FileOk(stream, file) ==
  stream # <<>> =>
    /\ Front(stream, File_DATA) /\ ReadHead(stream).length = HEADER_LENGTH + Len(file)
    /\ Begins(Rest(stream, HEADER_LENGTH), file)

\* The client has of the file what it has written, and finds the rest of it.
FileHere(c) ==
  /\ cpc[c] = "get" /\ HeadReady(toClient[c]) /\ ReadHead(toClient[c]).status = 1 =>
       FileOk(Rest(toClient[c], HEADER_LENGTH), view[c])
  /\ cpc[c] = "gethead" => FileOk(toClient[c], view[c])
  /\ cpc[c] = "getdata" =>
       /\ task[c].size = Len(view[c])
       /\ Begins(local[c][task[c].name] \o toClient[c], view[c])
  /\ told[c] = "get" => local[c][task[c].name] = view[c]

DownAt(c) ==
  /\ told[c] # "none" => cpc[c] = "prompt" /\ copen[c]
  /\ Whole(c) /\ told[c] = "get" => spc[c] = "head"
  /\ Whole(c) /\ spc[c] = "getdata" /\ ~torn[c] =>
       files[Path(c)] = view[c] /\ job[c].size = Len(view[c])
  /\ copen[c] /\ slip[c] = {} /\ ~torn[c] => FileHere(c)

Down == view \in [Clients -> Seq(Byte)] /\ \A c \in Clients : DownAt(c)

LEMMA BeginsBlock ==
  ASSUME NEW part \in Seq(Byte), NEW file \in Seq(Byte), Begins(part, file),
         Len(part) < Len(file)
  PROVE  LET block == NextBlock(file, Len(part), Len(file))
         IN  block \in Seq(Byte) /\ part \o block \in Seq(Byte) /\ Begins(part \o block, file)
<1> DEFINE done == Len(part)
           last == Min({Len(file), done + Block, Len(file)})
           block == SubSeq(file, done + 1, last)
<1>1. done \in Nat /\ Len(file) \in Nat /\ done < Len(file) /\ Block \in Nat /\ 0 < Block
  BY BlockAssumption
<1>2. last \in {Len(file), done + Block, Len(file)} /\ last <= Len(file)
  <2>1. Len(file) \in Int /\ done + Block \in Int
    BY <1>1
  <2> QED
    BY <2>1, MinOfThree
<1>3. last \in Nat /\ done <= last
  BY <1>1, <1>2
<1>4. NextBlock(file, done, Len(file)) = block
  BY DEF NextBlock
<1> HIDE DEF last, done
<1>5. /\ block \in Seq(Byte) /\ Len(block) = last - done
      /\ \A i \in 1..(last - done) : block[i] = file[done + i]
  BY <1>1, <1>2, <1>3, SubSeqProperties
<1> HIDE DEF block
<1>6. /\ part \o block \in Seq(Byte) /\ Len(part \o block) = done + Len(block)
      /\ \A i \in 1..(done + Len(block)) :
           (part \o block)[i] = IF i <= done THEN part[i] ELSE block[i - done]
  BY <1>5, ConcatProperties DEF done
<1>7. Len(part \o block) = last
  BY <1>1, <1>3, <1>5, <1>6
<1>8. ASSUME NEW i \in 1..last PROVE (part \o block)[i] = file[i]
  <2>1. CASE i <= done
    <3>1. (part \o block)[i] = part[i]
      BY <1>1, <1>3, <1>5, <1>6, <2>1
    <3>2. part[i] = file[i]
      BY <1>1, <2>1 DEF Begins, done
    <3> QED
      BY <3>1, <3>2
  <2>2. CASE ~(i <= done)
    <3>1. (part \o block)[i] = block[i - done]
      BY <1>1, <1>3, <1>5, <1>6, <2>2
    <3>2. i - done \in 1..(last - done) /\ done + (i - done) = i
      BY <1>1, <1>3, <2>2
    <3>3. block[i - done] = file[done + (i - done)]
      BY <1>5, <3>2
    <3> QED
      BY <3>1, <3>2, <3>3
  <2> QED
    BY <2>1, <2>2
<1> QED
  BY <1>2, <1>4, <1>5, <1>6, <1>7, <1>8 DEF Begins, done

LEMMA BeginsFront ==
  ASSUME NEW part \in Seq(Byte), NEW more \in Seq(Byte), NEW file \in Seq(Byte),
         Begins(part \o more, file)
  PROVE  Begins(part, file)
<1>1. /\ Len(part \o more) = Len(part) + Len(more)
      /\ \A i \in 1..(Len(part) + Len(more)) :
           (part \o more)[i] = IF i <= Len(part) THEN part[i] ELSE more[i - Len(part)]
  BY ConcatProperties
<1>2. \A i \in 1..Len(part) : (part \o more)[i] = part[i]
  BY <1>1
<1> QED
  BY <1>1, <1>2 DEF Begins

LEMMA BeginsAll ==
  ASSUME NEW part \in Seq(Byte), NEW file \in Seq(Byte), Begins(part, file),
         Len(part) = Len(file)
  PROVE  part = file
BY SeqEqual DEF Begins

\* Bytes taken from the stream to the file change nothing of the two together.
LEMMA TakenOver ==
  ASSUME NEW x \in Seq(Byte), NEW s \in Seq(Byte), NEW n \in Nat, n <= Len(s)
  PROVE  /\ x \o SubSeq(s, 1, n) \in Seq(Byte)
         /\ (x \o SubSeq(s, 1, n)) \o Rest(s, n) = x \o s
         /\ Len(x \o SubSeq(s, 1, n)) = Len(x) + n
<1> DEFINE p == SubSeq(s, 1, n)
           r == Rest(s, n)
<1>1. p \in Seq(Byte) /\ Len(p) = n /\ \A i \in 1..n : p[i] = s[i]
  BY SubSeqProperties
<1>2. /\ r \in Seq(Byte) /\ Len(r) = Len(s) - n
      /\ \A i \in 1..(Len(s) - n) : r[i] = s[n + i]
  BY RestFacts
<1> HIDE DEF p, r
<1>3. /\ x \o p \in Seq(Byte) /\ Len(x \o p) = Len(x) + n
  BY <1>1, ConcatProperties
<1>4. p \o r = s
  <2>1. /\ p \o r \in Seq(Byte) /\ Len(p \o r) = Len(s)
        /\ \A i \in 1..Len(s) : (p \o r)[i] = IF i <= n THEN p[i] ELSE r[i - n]
    BY <1>1, <1>2, ConcatProperties
  <2>2. ASSUME NEW i \in 1..Len(s) PROVE (p \o r)[i] = s[i]
    <3>1. CASE i <= n
      BY <1>1, <2>1, <3>1
    <3>2. CASE ~(i <= n)
      <4>1. (p \o r)[i] = r[i - n] /\ i - n \in 1..(Len(s) - n) /\ n + (i - n) = i
        BY <2>1, <3>2
      <4> QED
        BY <1>2, <4>1
    <3> QED
      BY <3>1, <3>2
  <2> QED
    BY <2>1, <2>2, SeqEqual
<1>5. (x \o p) \o r = x \o (p \o r)
  BY SMTT(30), <1>1, <1>2, ConcatAssociative
<1> QED
  BY <1>3, <1>4, <1>5 DEF p, r

\* The next block goes behind what is on its way.
LEMMA FileOkBlock ==
  ASSUME NEW s \in Seq(Byte), NEW file \in Seq(Byte), FileOk(s, file), Front(s, File_DATA),
         Len(s) < HEADER_LENGTH + Len(file)
  PROVE  LET block == NextBlock(file, Len(s) - HEADER_LENGTH, Len(file))
         IN  block \in Seq(Byte) /\ FileOk(s \o block, file)
<1> DEFINE part == Rest(s, HEADER_LENGTH)
           block == NextBlock(file, Len(part), Len(file))
<1>1. HEADER_LENGTH \in Nat /\ HEADER_LENGTH <= Len(s) /\ s # <<>>
  BY WordFacts, EmptySeq DEF Front, HeadReady
<1>2. part \in Seq(Byte) /\ Len(part) = Len(s) - HEADER_LENGTH
  BY <1>1, RestFacts
<1>3. ReadHead(s).length = HEADER_LENGTH + Len(file) /\ Begins(part, file)
  BY <1>1 DEF FileOk
<1> HIDE DEF part
<1>4. block \in Seq(Byte) /\ Begins(part \o block, file)
  <2>1. Len(part) < Len(file)
    BY <1>1, <1>2
  <2> QED
    BY <1>2, <1>3, <2>1, BeginsBlock
<1> HIDE DEF block
<1>5. Front(s \o block, File_DATA) /\ ReadHead(s \o block) = ReadHead(s)
  BY <1>4, FrontAppend
<1>6. Rest(s \o block, HEADER_LENGTH) = part \o block
  BY <1>1, <1>4, RestAppend DEF part
<1> QED
  BY <1>2, <1>3, <1>4, <1>5, <1>6 DEF FileOk, block

\* What a step of client c, or of its thread, notes of the file that GET opened.
LEMMA Viewed ==
  ASSUME IInv, view \in [Clients -> Seq(Byte)], NEW c \in Clients, Note(c)
  PROVE  /\ view' \in [Clients -> Seq(Byte)]
         /\ \A d \in Clients : d # c => view'[d] = view[d]
         /\ spc[c] = "getopen" /\ sopen'[c] => view'[c] = files[Path(c)]
         /\ ~(spc[c] = "getopen" /\ sopen'[c])
              /\ (cpc'[c] \in {"get", "gethead", "getdata"} \/ told'[c] = "get")
              => view'[c] = view[c]
<1>1. spc[c] = "getopen" => files[Path(c)] \in Seq(Byte)
  BY OpenedFile
<1>2. <<>> \in Seq(Byte)
  BY EmptySeq
<1> QED
  BY <1>1, <1>2 DEF Note

\* Messages are the client's own.
LEMMA ToldApart ==
  ASSUME IInv, NEW c \in Clients, Turn(c), NEW d \in Clients, d # c
  PROVE  told'[d] = told[d]
<1>1. CASE Dial(c)
  BY <1>1, ClientTypes DEF Dial, Open
<1>2. CASE ThreadTurn(c)
  BY <1>2 DEF ThreadTurn, clientVars
<1>3. CASE ClientTurn(c)
  BY <1>3, ClientTypes DEF ClientTurn, Program, User, Kill, Shorten, Command, Ls, Cd, Get, Sha,
     Quit, Put, Issue, IssueName, GotOpen, GotList, ListPart, GotCd, GotGet, GotSha, GotFile,
     GetStart, GetUnopened, GetPart, GotPut, PutPart, PutShort, ShaStart, ShaPart, ShaStep,
     GotQuit, BadReply, ReadFailed, Fail, SendFailed, BrokenPipeKills, Exit, End, Carry, Return
<1> QED
  BY <1>1, <1>2, <1>3, TurnIs

\* A thread in GET has its client there too.
LEMMA AtGet ==
  ASSUME NEW c \in Clients, InStepAt(c), Whole(c), spc[c] \in {"getopen", "getdata"}
  PROVE  /\ Answered(c) \/ cpc[c] = "sha"
         /\ Answered(c) => cpc[c] \in {"get", "gethead", "getdata"}
BY DEF InStepAt, Quiet, Asked, Uploading, Answered, ShaComes, FileComes

\* A client behind "downloaded successfully" has its thread idle.
LEMMA IdleThread ==
  ASSUME IInv, NEW c \in Clients, InStepAt(c), DownAt(c), Whole(c), told[c] = "get",
         Acts(c)
  PROVE  ~sopen'[c]
<1>1. spc[c] = "head" /\ cpc[c] = "prompt"
  BY DEF DownAt
<1>2. Quiet(c)
  BY <1>1, RequestedKinds DEF InStepAt, Asked, Answered
<1>3. Uploading(c) /\ Len(toServer[c]) = Wanted(c)
  <2>1. toServer[c] \in Seq(Byte) /\ Unsent(c) = 0
    BY <1>1, ServerTypes DEF Unsent
  <2> QED
    BY <1>2, <2>1 DEF Quiet
<1>4. ~Sending(c)
  BY <1>3, NothingToAnswer
<1>5. Hangup({c}) \/ Hangup(Clients)
  BY <1>1, <1>4, ThreadKinds DEF PutOpen, PutBlock, DataHead
<1> QED
  BY <1>5 DEF Hangup, ServerCloses

\* Before the file is opened nothing of it can have come.
Fresh(c) ==
  /\ cpc[c] # "getdata" /\ told[c] # "get"
  /\ cpc[c] = "gethead" => toClient[c] = <<>>
  /\ cpc[c] = "get" /\ HeadReady(toClient[c]) /\ ReadHead(toClient[c]).status = 1 =>
       Rest(toClient[c], HEADER_LENGTH) = <<>>

LEMMA FreshHere ==
  ASSUME NEW c \in Clients, Fresh(c)
  PROVE  FileHere(c)
BY DEF Fresh, FileHere, FileOk

LEMMA FreshAt ==
  ASSUME IInv, NEW c \in Clients, InStepAt(c), Whole(c), DownAt(c),
         spc[c] \in {"getopen", "puthead"}
  PROVE  Fresh(c)
<1>1. told[c] # "get"
  BY DEF DownAt
<1>2. ~HeadReady(<<>>)
  BY WordFacts, EmptySeq DEF HeadReady
<1>3. CASE Quiet(c) \/ Asked(c)
  BY <1>1, <1>2, <1>3, RequestedKinds DEF Quiet, Asked, Fresh
<1>4. CASE Answered(c)
  <2>1. CASE cpc[c] \in {"get", "gethead"}
    BY <1>1, <1>4, <2>1 DEF Answered, FileComes, Fresh
  <2>2. CASE cpc[c] \notin {"get", "gethead"}
    BY <1>1, <1>4, <2>2 DEF Answered, Fresh
  <2> QED
    BY <2>1, <2>2
<1> QED
  BY <1>3, <1>4 DEF InStepAt

\* The file's header, and with it nothing yet of the file.
LEMMA FileOpens ==
  ASSUME IInv, FilesShort, NEW c \in Clients, GetOpen(c)
  PROVE  \E bytes \in Seq(Byte) :
           ServerSends(c, bytes) /\ bytes # <<>> /\ FileOk(bytes, files[Path(c)])
<1> DEFINE file == files[Path(c)]
           n == Len(file)
           header == Create(File_DATA, 0, n)
           bytes == HeaderBytes(header)
<1>1. Path(c) \in Dirs \X Names /\ file \in Seq(Byte)
  BY OpenedFile DEF GetOpen
<1>2. n \in Nat /\ n \in Int /\ HEADER_LENGTH + n < WORD
  BY <1>1 DEF FilesShort, Short
<1>3. ServerSends(c, HeaderBytes(Create(File_DATA, 0, n % WORD)))
  BY DEF GetOpen
<1> HIDE DEF n
<1>4. n < WORD
  BY <1>2, HeaderAssumption, WordAssumption
<1>5. n % WORD = n
  BY <1>2, <1>4, ModSmall
<1>6. header \in HeaderType /\ Is(File_DATA, header) /\ header.length = HEADER_LENGTH + n
  BY <1>2, DataSent
<1>7. ServerSends(c, bytes)
  BY <1>3, <1>5
<1> HIDE DEF header
<1>8. /\ bytes \in Seq(Byte) /\ Len(bytes) = HEADER_LENGTH
      /\ HeadReady(bytes) /\ ReadHead(bytes) = header /\ Rest(bytes, HEADER_LENGTH) = <<>>
  BY <1>6, HeaderAlone
<1> HIDE DEF bytes
<1>9. bytes # <<>>
  BY <1>8, WordFacts, EmptySeq
<1>10. Begins(<<>>, file)
  BY <1>1, EmptySeq DEF Begins
<1>11. FileOk(bytes, file)
  BY <1>6, <1>8, <1>10 DEF FileOk, Front, n
<1> QED
  BY <1>7, <1>8, <1>9, <1>11

LEMMA HereOpened ==
  ASSUME IInv, FilesShort, view \in [Clients -> Seq(Byte)], NEW c \in Clients, InStepAt(c),
         Whole(c), DownAt(c), GetOpen(c), UNCHANGED clientVars, Note(c)
  PROVE  FileHere(c)'
<1>1. spc[c] = "getopen" /\ UNCHANGED sopen
  BY DEF GetOpen
<1>2. Fresh(c)
  BY <1>1, FreshAt
<1>3. view'[c] = files[Path(c)]
  BY <1>1, Viewed DEF Whole
<1>4. PICK bytes \in Seq(Byte) :
        ServerSends(c, bytes) /\ bytes # <<>> /\ FileOk(bytes, files[Path(c)])
  BY FileOpens
<1>5. toClient'[c] = toClient[c] \o bytes /\ toClient[c] \in Seq(Byte)
  BY <1>4, SentTo, ServerTypes DEF Whole
<1>6. cpc'[c] = cpc[c] /\ told'[c] = told[c]
  BY DEF clientVars
<1>7. CASE cpc[c] = "gethead"
  <2>1. toClient'[c] = bytes
    BY <1>2, <1>4, <1>5, <1>7, ConcatEmptySeq DEF Fresh
  <2> QED
    BY <1>2, <1>3, <1>4, <1>6, <1>7, <2>1 DEF Fresh, FileHere
<1>8. CASE cpc[c] = "get"
  <2>1. Answered(c) /\ Front(toClient[c], GET_REPLY) /\ ReadHead(toClient[c]).status = 1
    <3>1. Answered(c)
      BY <1>1, <1>8, AtGet
    <3> QED
      BY <1>1, <1>8, <3>1, ExpectedKinds DEF Answered
  <2>2. Rest(toClient[c], HEADER_LENGTH) = <<>>
    BY <1>2, <1>8, <2>1 DEF Fresh, Front
  <2>3. Rest(toClient'[c], HEADER_LENGTH) = bytes
    <3>1. HEADER_LENGTH \in Nat /\ HEADER_LENGTH <= Len(toClient[c])
      BY <2>1, WordFacts DEF Front, HeadReady
    <3>2. Rest(toClient[c] \o bytes, HEADER_LENGTH) = <<>> \o bytes
      BY <1>4, <1>5, <2>2, <3>1, RestAppend
    <3> QED
      BY <1>4, <1>5, <3>2, ConcatEmptySeq
  <2> QED
    BY <1>2, <1>3, <1>4, <1>6, <1>8, <2>3 DEF Fresh, FileHere
<1>9. CASE cpc[c] \notin {"get", "gethead"}
  BY <1>2, <1>6, <1>9 DEF Fresh, FileHere
<1> QED
  BY <1>7, <1>8, <1>9

\* The next block of the file as it was.
LEMMA HereSent ==
  ASSUME IInv, JobSizes, TaskSizes, view \in [Clients -> Seq(Byte)], NEW c \in Clients,
         InStepAt(c), Whole(c), DownAt(c), ~torn[c], GetBlock(c), UNCHANGED clientVars, Note(c)
  PROVE  FileHere(c)'
<1> DEFINE file == view[c]
           stream == toClient[c]
           done == job[c].done
           block == NextBlock(file, done, Len(file))
<1>1. spc[c] = "getdata" /\ file \in Seq(Byte) /\ stream \in Seq(Byte)
  BY ServerTypes DEF GetBlock
<1>2. files[Path(c)] = file /\ job[c].size = Len(file)
  BY <1>1 DEF DownAt
<1>3. done \in Nat /\ done < Len(file) /\ Len(file) \in Nat
  BY <1>1, <1>2, OpenedFile DEF JobSizes
<1>4. block \in Seq(Byte) /\ toClient'[c] = stream \o block
  <2>1. block \in Seq(Byte)
    BY <1>1, <1>3, NextBlockType
  <2>2. ServerSends(c, block)
    BY <1>2 DEF GetBlock
  <2> QED
    BY <2>1, <2>2, SentTo DEF Whole
<1>5. /\ cpc[c] # "sha" => Answered(c) /\ cpc[c] \in {"get", "gethead", "getdata"}
      /\ told[c] # "get" /\ copen[c] /\ slip[c] = {} /\ FileHere(c)
  BY <1>1, AtGet DEF DownAt, Whole
<1>6. /\ cpc'[c] = cpc[c] /\ told'[c] = told[c] /\ task'[c] = task[c] /\ local'[c] = local[c]
      /\ cpc[c] \in {"get", "gethead", "getdata"} => view'[c] = file
  BY <1>1, Viewed DEF clientVars
<1>7. Owed(c) = Len(file) - done
  BY <1>1, <1>2 DEF Owed
<1> HIDE DEF file, block, done
\* What is on its way from the header on grows by the block.
<1>8. ASSUME NEW s \in Seq(Byte), FileComes(c, s), FileOk(s, file)
      PROVE  FileOk(s \o block, file)
  <2>1. Front(s, File_DATA) /\ Len(s) + Owed(c) = ReadHead(s).length
    BY <1>1, <1>8 DEF FileComes
  <2>2. s # <<>>
    BY <2>1, WordFacts, EmptySeq DEF Front, HeadReady
  <2>3. ReadHead(s).length = HEADER_LENGTH + Len(file)
    BY <1>8, <2>2 DEF FileOk
  <2>4. Len(s) - HEADER_LENGTH = done /\ Len(s) < HEADER_LENGTH + Len(file)
    <3>1. Len(s) \in Nat /\ HEADER_LENGTH \in Nat
      BY WordFacts
    <3> QED
      BY <1>3, <1>7, <2>1, <2>3, <3>1
  <2> QED
    BY <1>1, <1>8, <2>1, <2>4, FileOkBlock DEF block, file
<1>9. CASE cpc[c] = "sha"
  BY <1>5, <1>6, <1>9 DEF FileHere
<1>10. CASE cpc[c] = "gethead"
  <2>1. FileComes(c, stream) /\ FileOk(stream, file)
    BY <1>5, <1>10 DEF Answered, FileHere, file
  <2>2. FileOk(stream \o block, file)
    BY <1>1, <1>8, <2>1
  <2> QED
    BY <1>4, <1>5, <1>6, <1>10, <2>2 DEF FileHere
<1>11. CASE cpc[c] = "get"
  <2>1. Front(stream, GET_REPLY)
    BY <1>5, <1>11, ExpectedKinds DEF Answered
  <2>2. ReadHead(stream).status = 1 /\ FileComes(c, Rest(stream, HEADER_LENGTH))
    BY <1>1, <1>5, <1>11 DEF Answered
  <2>3. FileOk(Rest(stream, HEADER_LENGTH), file)
    BY <1>5, <1>11, <2>1, <2>2 DEF FileHere, Front, file
  <2>4. /\ Rest(stream, HEADER_LENGTH) \in Seq(Byte)
        /\ Rest(stream \o block, HEADER_LENGTH) = Rest(stream, HEADER_LENGTH) \o block
    <3>1. HEADER_LENGTH \in Nat /\ HEADER_LENGTH <= Len(stream)
      BY <2>1, WordFacts DEF Front, HeadReady
    <3> QED
      BY <1>1, <1>4, <3>1, RestFacts, RestAppend
  <2>5. FileOk(Rest(toClient'[c], HEADER_LENGTH), file)
    BY <1>4, <1>8, <2>2, <2>3, <2>4
  <2> QED
    BY <1>5, <1>6, <1>11, <2>5 DEF FileHere
<1>12. CASE cpc[c] = "getdata"
  <2> DEFINE has == local[c][task[c].name]
             part == has \o stream
  <2>1. has \in Seq(Byte) /\ Len(has) = task[c].done /\ task[c].size = Len(file)
        /\ Begins(part, file)
    BY <1>5, <1>12 DEF IInv, TaskNamed, TaskSizes, FileHere, file
  <2>2. Len(stream) + Owed(c) = task[c].size - task[c].done
    BY <1>5, <1>12 DEF Answered
  <2>3. task[c].done \in Nat /\ Len(stream) \in Nat
    BY <1>1, TransferTypes
  <2> HIDE DEF has
  <2>4. part \in Seq(Byte) /\ Len(part) = Len(has) + Len(stream)
    BY <1>1, <2>1, ConcatProperties
  <2>5. Len(part) = done
    <3> DEFINE had == task[c].done
               came == Len(stream)
               size == Len(file)
    <3>1. /\ had \in Int /\ came \in Int /\ size \in Int /\ done \in Int
          /\ came + (size - done) = size - had /\ Len(part) = had + came
      BY <1>3, <1>7, <2>1, <2>2, <2>3, <2>4
    <3> HIDE DEF had, came, size
    <3> QED
      BY <3>1
  <2> HIDE DEF part
  <2>6. Begins(part \o block, file)
    <3>1. Len(part) < Len(file) /\ file \in Seq(Byte)
      BY <1>1, <1>3, <2>5 DEF file
    <3>2. Begins(part \o NextBlock(file, Len(part), Len(file)), file)
      BY <2>1, <2>4, <3>1, BeginsBlock
    <3> QED
      BY <2>5, <3>2 DEF block
  <2>7. part \o block = has \o (stream \o block)
    <3>1. has \in Seq(Byte) /\ stream \in Seq(Byte) /\ block \in Seq(Byte)
      BY <1>1, <1>4, <2>1
    <3> HIDE DEF stream
    <3>2. (has \o stream) \o block = has \o (stream \o block)
      BY <3>1, ConcatAssociative
    <3> QED
      BY <3>2 DEF part
  <2>8. Begins(has \o toClient'[c], file)
    BY <1>4, <2>6, <2>7
  <2> QED
    BY <1>5, <1>6, <1>12, <2>1, <2>8 DEF FileHere, has
<1> QED
  BY <1>5, <1>9, <1>10, <1>11, <1>12

\* A thread that hangs up sends no more of the file.
LEMMA HereCut ==
  ASSUME LengthsFit, IInv, TaskSizes, view \in [Clients -> Seq(Byte)], NEW c \in Clients,
         InStepAt(c), Whole(c), DownAt(c), Acts(c), Hangup({c}), ~torn'[c],
         UNCHANGED clientVars, Note(c)
  PROVE  FileHere(c)'
<1>1. /\ UNCHANGED <<cpc, told, task, local>> /\ ~sopen'[c]
      /\ told[c] = "get" => cpc[c] = "prompt"
  BY DEF clientVars, Hangup, ServerCloses, DownAt
<1>2. CASE HandleQuit(c)
  <2>1. cpc[c] = "quit"
    BY <1>2, QuitMet
  <2> QED
    BY <1>1, <2>1 DEF FileHere
<1>3. CASE ~HandleQuit(c)
  <2>1. UNCHANGED toClient
    <3>1. ~UNCHANGED sopen
      BY <1>1, ServerTypes DEF Whole
    <3> QED
      BY <1>3, <3>1 DEF Acts, Dies, Thread, CallFails, Accept, HandleOpen, HandleList,
         HandleCd, HandleGet, HandleSha, HandleFile, GetOpen, GetBlock, GetShort,
         HandlePut, PutOpen, PutRefused, PutBlock, ShaSend, Refuse, ReadFails, SendFails,
         BrokenPipe, PathThrows, CallThrows, Terminate, connVars
  <2>2. CASE spc[c] \in {"getopen", "puthead"}
    <3>1. Fresh(c)
      BY <2>2, FreshAt
    <3>2. Fresh(c)'
      BY <1>1, <2>1, <3>1 DEF Fresh
    <3> QED
      BY <3>2 DEF Fresh, FileHere, FileOk
  <2>3. CASE spc[c] \notin {"getopen", "puthead"}
    <3>1. ~torn[c]
      BY <2>3, TornNoted
    <3>2. FileHere(c)
      BY <3>1 DEF DownAt, Whole
    <3>3. cpc[c] \in {"get", "gethead", "getdata"} \/ told[c] = "get" => view'[c] = view[c]
      BY <1>1, <2>3, Viewed
    <3> QED
      BY <1>1, <2>1, <3>2, <3>3 DEF FileHere
  <2> QED
    BY <2>2, <2>3
<1> QED
  BY <1>2, <1>3

\* What else a thread does for a client in GET is to answer its request.
LEMMA HereAnswered ==
  ASSUME LengthsFit, IInv, TaskSizes, NEW c \in Clients, InStepAt(c), Whole(c), DownAt(c),
         Acts(c), sopen'[c], ~GetOpen(c), ~GetBlock(c), UNCHANGED clientVars
  PROVE  FileHere(c)'
<1>1. /\ UNCHANGED <<cpc, told, task, local>> /\ told[c] # "get"
  BY IdleThread DEF clientVars
<1>2. ~Hangup({c}) /\ ~Hangup(Clients)
  BY DEF Hangup, ServerCloses
<1>3. CASE \E kind \in Requests : Request(c, kind)
  <2>1. PICK kind \in Requests : Request(c, kind)
    BY <1>3
  <2>2. cpc[c] \in DOMAIN Requested /\ kind = Requested[cpc[c]]
    BY <2>1, RequestMet
  <2>3. CASE cpc[c] = "get"
    <3>1. kind = GET_REQUEST /\ spc[c] = "head"
      BY <2>1, <2>2, <2>3, RequestedKinds DEF Request
    <3>2. HandleGet(c)
      <4>1. \A other \in Requests : Request(c, other) => other = GET_REQUEST
        BY <2>3, RequestMet, RequestedKinds
      <4>2. /\ OPEN_CONN_REQUEST \in Requests /\ LIST_REQUEST \in Requests
            /\ CHANGE_DIR_REQUEST \in Requests /\ PUT_REQUEST \in Requests
            /\ SHA_REQUEST \in Requests /\ QUIT_REQUEST \in Requests
        BY DEF Requests
      <4>3. /\ GET_REQUEST # OPEN_CONN_REQUEST /\ GET_REQUEST # LIST_REQUEST
            /\ GET_REQUEST # CHANGE_DIR_REQUEST /\ GET_REQUEST # PUT_REQUEST
            /\ GET_REQUEST # SHA_REQUEST /\ GET_REQUEST # QUIT_REQUEST
        BY Types
      <4> QED
        BY <1>2, <3>1, <4>1, <4>2, <4>3 DEF Acts, Dies, Thread, CallFails, Accept,
           HandleOpen, HandleList, HandleCd, HandleSha, HandleFile, GetOpen, GetBlock,
           GetShort, HandlePut, PutOpen, PutRefused, PutBlock, ShaSend, HandleQuit,
           Refuse, ReadFails, SendFails, BrokenPipe, PathThrows, CallThrows, Terminate,
           DataHead
    <3> DEFINE header == Create(GET_REPLY, Status(Exists(c, NameOf(c))), 0)
               bytes == HeaderBytes(header)
    <3>3. /\ GET_REQUEST \in Requests /\ Request(c, GET_REQUEST)
          /\ ServerTakes(c, RequestLength(c)) /\ ServerSends(c, bytes)
      BY <2>1, <3>1, <3>2 DEF HandleGet, HandleFile
    <3>4. header \in HeaderType
      BY BareSent, BareKinds DEF Status
    <3> HIDE DEF header
    <3>5. bytes \in Seq(Byte) /\ Rest(bytes, HEADER_LENGTH) = <<>>
      BY <3>4, HeaderAlone
    <3> HIDE DEF bytes
    <3>6. toClient'[c] = bytes
      BY <3>3, <3>5, ReplySent
    <3> QED
      BY <1>1, <2>3, <3>5, <3>6 DEF FileHere, FileOk
  <2>4. CASE cpc[c] # "get"
    BY <1>1, <2>2, <2>4, RequestedKinds DEF FileHere
  <2> QED
    BY <2>3, <2>4
<1>4. CASE ~\E kind \in Requests : Request(c, kind)
  <2>1. \/ spc[c] \in {"sha", "backlog", "puthead", "putdata"}
    BY <1>2, <1>4 DEF Acts, Dies, Thread, CallFails, Accept, HandleOpen, HandleList,
       HandleCd, HandleGet, HandleSha, HandleFile, GetShort, HandlePut, PutOpen,
       PutRefused, DataHead, PutBlock, ShaSend, HandleQuit, Refuse, ReadFails, SendFails,
       BrokenPipe, PathThrows, CallThrows, Terminate, Requests
  <2>2. cpc[c] \notin {"gethead", "getdata"} /\ (cpc[c] = "get" => toClient[c] = <<>>)
    BY <2>1, RequestedKinds DEF InStepAt, Quiet, Asked, Answered, FileComes
  <2>3. CASE cpc[c] = "get"
    <3>1. spc[c] \in {"puthead", "putdata"}
      BY <2>1, <2>3 DEF InStepAt, Quiet, Asked, Uploading, Answered, FileComes
    <3>2. UNCHANGED toClient
      BY <1>2, <1>4, <3>1 DEF Acts, Dies, Thread, CallFails, Accept, HandleOpen,
         HandleList, HandleCd, HandleGet, HandleSha, HandleFile, GetShort, HandlePut,
         PutOpen, PutRefused, DataHead, PutBlock, ShaSend, HandleQuit, Refuse, ReadFails,
         SendFails, BrokenPipe, PathThrows, CallThrows, Terminate, Requests
    <3>3. ~HeadReady(toClient'[c])
      BY <2>2, <2>3, <3>2, WordFacts, EmptySeq DEF HeadReady
    <3> QED
      BY <1>1, <2>3, <3>3 DEF FileHere
  <2>4. CASE cpc[c] # "get"
    BY <1>1, <2>2, <2>4 DEF FileHere
  <2> QED
    BY <2>3, <2>4
<1> QED
  BY <1>3, <1>4

LEMMA DownThread ==
  ASSUME LengthsFit, IInv, Sizes, view \in [Clients -> Seq(Byte)], NEW c \in Clients,
         InStepAt(c), DownAt(c), ThreadTurn(c), ~Dies(c)
  PROVE  DownAt(c)'
<1>0. /\ Acts(c)
      /\ UNCHANGED clientVars /\ Note(c) /\ UNCHANGED copen /\ sopen[c]
      /\ FilesShort /\ JobSizes /\ TaskSizes
  BY ThreadApart, ThreadServes DEF ThreadTurn, Sizes
<1>1. UNCHANGED <<cpc, told, task, local, slip>>
  BY <1>0 DEF clientVars
<1>2. told'[c] # "none" => cpc'[c] = "prompt" /\ copen'[c]
  BY <1>0, <1>1 DEF DownAt
<1>3. Whole(c)' => Whole(c)
  BY <1>0, <1>1 DEF Whole
<1>4. Whole(c)' /\ told'[c] = "get" => spc'[c] = "head"
  BY <1>0, <1>1, <1>3, IdleThread DEF Whole
<1>5. ASSUME Whole(c)', spc'[c] = "getdata", ~torn'[c]
      PROVE  files'[Path(c)'] = view'[c] /\ job'[c].size = Len(view'[c])
  <2>1. GetOpen(c) \/ GetBlock(c)
    BY <1>0, <1>5, Downloading
  <2>2. CASE GetOpen(c)
    <3>1. view'[c] = files[Path(c)]
      BY <1>0, <1>5, <2>2, Viewed DEF GetOpen, Whole
    <3> QED
      BY <1>0, <1>5, <2>2, <3>1, OpensWhole
  <2>3. CASE GetBlock(c)
    <3>1. /\ spc[c] = "getdata" /\ job'[c].size = job[c].size
          /\ Path(c)' = Path(c) /\ UNCHANGED files
      BY <1>5, <2>3, SendsOn
    <3>2. ~torn[c] /\ Whole(c)
      BY <1>0, <1>3, <1>5, <3>1, TornNoted
    <3>3. cpc[c] \in {"get", "gethead", "getdata"}
      BY <3>1, <3>2 DEF InStepAt, Quiet, Asked, Uploading, Answered, ShaComes
    <3>4. view'[c] = view[c]
      BY <1>0, <1>1, <3>1, <3>3, Viewed
    <3> QED
      BY <3>1, <3>2, <3>4 DEF DownAt
  <2> QED
    BY <2>1, <2>2, <2>3
<1>6. ASSUME copen'[c], slip'[c] = {}, ~torn'[c] PROVE FileHere(c)'
  <2>1. Whole(c)
    BY <1>0, <1>1, <1>6 DEF Whole
  <2>2. CASE GetOpen(c)
    BY <1>0, <2>1, <2>2, HereOpened
  <2>3. CASE GetBlock(c)
    <3>1. ~torn[c]
      BY <1>0, <1>6, <2>3, TornNoted DEF GetBlock
    <3> QED
      BY <1>0, <2>1, <2>3, <3>1, HereSent
  <2>4. CASE ~sopen'[c]
    <3>1. Hangup({c})
      BY <1>0, <2>4, OneHangup
    <3> QED
      BY <1>0, <1>6, <2>1, <3>1, HereCut
  <2>5. CASE sopen'[c] /\ ~GetOpen(c) /\ ~GetBlock(c)
    BY <1>0, <2>1, <2>5, HereAnswered
  <2> QED
    BY <2>2, <2>3, <2>4, <2>5
<1> QED
  BY <1>2, <1>4, <1>5, <1>6 DEF DownAt

\* The client opens its file: it has nothing of it yet, or it is empty.
LEMMA HereStarts ==
  ASSUME IInv, TaskSizes, view \in [Clients -> Seq(Byte)], NEW c \in Clients, DownAt(c),
         FileHere(c), GetStart(c), cpc'[c] = "getdata" \/ told'[c] = "get" => view'[c] = view[c]
  PROVE  FileHere(c)'
<1> DEFINE file == view[c]
           name == task[c].name
           stream == toClient[c]
           size == GotLength(c)
           rest == Rest(stream, HEADER_LENGTH)
<1>1. /\ cpc[c] = "gethead" /\ HeadReady(stream) /\ ClientTakes(c, HEADER_LENGTH)
      /\ Is(File_DATA, ReadHead(stream)) /\ stream \in Seq(Byte)
      /\ Carry(c, "getdata", 0, size, "get")
  BY ServerTypes, ExpectedKinds DEF GetStart, Replied
<1>2. stream # <<>> /\ HEADER_LENGTH \in Nat /\ HEADER_LENGTH <= Len(stream)
  BY <1>1, WordFacts, EmptySeq DEF HeadReady
<1>3. ReadHead(stream).length = HEADER_LENGTH + Len(file) /\ Begins(rest, file)
  BY <1>1, <1>2 DEF FileHere, FileOk
<1>4. size \in Nat /\ size \in Lengths /\ ReadHead(stream).length = HEADER_LENGTH + size
  BY <1>1, ReadHeadType, PayloadRead DEF GotLength
<1>5. rest \in Seq(Byte) /\ toClient'[c] = rest
  BY <1>1, <1>2, ServerTypes, RestFacts DEF ClientTakes
<1>6. file \in Seq(Byte) /\ Len(file) \in Nat
  OBVIOUS
<1>7. name \in Names /\ local'[c][name] = <<>>
  BY <1>1, ClientTypes DEF IInv, TaskNamed, GetStart
<1> HIDE DEF file, size, rest
<1>8. size = Len(file)
  BY <1>2, <1>3, <1>4, <1>6
<1>9. CASE 0 < size
  <2>1. cpc'[c] = "getdata" /\ task'[c].size = size /\ task'[c].name = name /\ told' = told
    <3>1. 0 \in Nat /\ size \in Lengths /\ Carry(c, "getdata", 0, size, "get")
      BY <1>1, <1>4
    <3>2. told' = told
      BY <1>9, <3>1 DEF Carry
    <3> QED
      BY <1>9, <3>1, <3>2, CarryTo
  <2>2. <<>> \o toClient'[c] = rest
    BY <1>5, ConcatEmptySeq
  <2>3. told'[c] # "get"
    BY <1>1, <2>1 DEF DownAt
  <2> QED
    BY <1>3, <1>7, <1>8, <2>1, <2>2, <2>3 DEF FileHere, file
<1>10. CASE ~(0 < size)
  <2>1. Return(c, "get")
    BY <1>1, <1>10 DEF Carry
  <2>2. cpc'[c] = "prompt" /\ told'[c] = "get" /\ task'[c].name = name
    BY <2>1, ClientTypes DEF Return, Move, Transfer
  <2>3. file = <<>>
    BY <1>4, <1>6, <1>8, <1>10, EmptySeq
  <2> QED
    BY <1>7, <2>2, <2>3 DEF FileHere, file
<1> QED
  BY <1>9, <1>10

\* The client takes a part of the file from its stream to its own file.
LEMMA HereTaken ==
  ASSUME IInv, TaskSizes, view \in [Clients -> Seq(Byte)], NEW c \in Clients, DownAt(c),
         FileHere(c), GetPart(c), cpc'[c] = "getdata" \/ told'[c] = "get" => view'[c] = view[c]
  PROVE  FileHere(c)'
<1> DEFINE file == view[c]
           name == task[c].name
           stream == toClient[c]
           size == task[c].size
           done == task[c].done
           has == local[c][name]
<1>1. /\ cpc[c] = "getdata" /\ stream \in Seq(Byte) /\ has \in Seq(Byte)
      /\ name \in Names /\ done = Len(has) /\ size = Len(file)
      /\ size \in Nat /\ size \in Lengths /\ done \in Nat /\ file \in Seq(Byte)
      /\ Begins(has \o stream, file)
  BY ServerTypes, TransferTypes DEF GetPart, FileHere, IInv, TaskNamed, TaskSizes
<1>2. PICK n \in 1..Min({Block, size - done, Len(stream)}) :
        /\ ClientTakes(c, n)
        /\ local' = [local EXCEPT ![c][name] = has \o SubSeq(stream, 1, n)]
        /\ Carry(c, "getdata", done + n, size, "get")
  BY DEF GetPart
<1>3. n \in Nat /\ n <= Len(stream)
  <2>1. Block \in Int /\ size - done \in Int /\ Len(stream) \in Int
    BY <1>1, BlockAssumption
  <2> QED
    BY <2>1, InMin
<1> DEFINE more == has \o SubSeq(stream, 1, n)
<1>4. toClient'[c] = Rest(stream, n) /\ local'[c][name] = more /\ Rest(stream, n) \in Seq(Byte)
  BY <1>1, <1>2, <1>3, ClientTypes, RestFacts DEF ClientTakes
<1>5. told[c] # "get"
  BY <1>1 DEF DownAt
<1>6. /\ done + n \in Nat
      /\ done + n < size => /\ cpc'[c] = "getdata" /\ task'[c].size = size
                            /\ task'[c].name = name /\ UNCHANGED told
      /\ ~(done + n < size) => Return(c, "get")
  <2>1. done + n \in Nat /\ size \in Lengths /\ Carry(c, "getdata", done + n, size, "get")
    <3>1. done \in Nat /\ n \in Nat /\ size \in Lengths
      BY <1>1, <1>3
    <3>2. done + n \in Nat
      BY <3>1
    <3> QED
      BY <1>2, <3>1, <3>2
  <2>2. /\ done + n < size => UNCHANGED told
        /\ ~(done + n < size) => Return(c, "get")
    BY <2>1 DEF Carry
  <2> QED
    BY <2>1, <2>2, CarryTo
<1> HIDE DEF stream, has, size, done
<1>7. /\ more \in Seq(Byte) /\ more \o Rest(stream, n) = has \o stream
      /\ Len(more) = Len(has) + n
  BY <1>1, <1>3, TakenOver
<1> HIDE DEF more, file
<1>8. Begins(more \o Rest(stream, n), file)
  BY <1>1, <1>7
<1>9. CASE done + n < size
  BY <1>1, <1>4, <1>5, <1>6, <1>8, <1>9 DEF FileHere, file
<1>10. CASE ~(done + n < size)
  <2>1. cpc'[c] = "prompt" /\ told'[c] = "get" /\ task'[c].name = name
    BY <1>6, <1>10, ClientTypes DEF Return, Move, Transfer
  <2>2. Begins(more, file)
    BY <1>1, <1>4, <1>7, <1>8, BeginsFront
  <2>3. Len(more) = Len(file)
    <3>1. Len(more) <= Len(file) /\ Len(more) \in Nat /\ Len(file) \in Nat
      BY <1>1, <1>7, <2>2 DEF Begins
    <3>2. Len(more) = done + n /\ size = Len(file) /\ done + n \in Nat /\ size \in Nat
      BY <1>1, <1>6, <1>7
    <3>3. ~(Len(more) < Len(file))
      BY <1>10, <3>2
    <3> QED
      BY <3>1, <3>3
  <2>4. more = file
    BY <1>1, <1>7, <2>2, <2>3, BeginsAll
  <2> QED
    BY <1>4, <2>1, <2>4 DEF FileHere, file
<1> QED
  BY <1>9, <1>10

\* Every other step of a client, by where it leads.
LEMMA ElseAway ==
  ASSUME IInv, NEW c \in Clients, told[c] # "none" => cpc[c] = "prompt",
         Program(c) \/ User(c) \/ Kill(c) \/ Shorten(c), ~GetStart(c), ~GetPart(c)
  PROVE  /\ told'[c] # "get"
         /\ cpc'[c] = "get" => Get(c)
         /\ cpc'[c] = "gethead" => GotGet(c)
         /\ cpc'[c] # "getdata"
<1>1. CASE Command(c)
  BY <1>1, ClientTypes DEF Command, Ls, Cd, Get, Sha, Quit, Put, Issue, IssueName, Move
<1>2. CASE GotOpen(c) \/ GotCd(c) \/ GetUnopened(c) \/ PutShort(c) \/ GotQuit(c)
           \/ BadReply(c) \/ ReadFailed(c) \/ SendFailed(c)
  BY <1>2, ClientTypes DEF GotOpen, GotCd, GetUnopened, PutShort, GotQuit, BadReply, ReadFailed,
     SendFailed, Fail, Return, Move
<1>3. CASE BrokenPipeKills(c) \/ Exit(c) \/ Kill(c)
  BY <1>3, ClientTypes DEF BrokenPipeKills, Exit, Kill, End, Move
<1>4. CASE GotList(c) \/ ListPart(c) \/ Shorten(c)
  BY <1>4, ClientTypes DEF GotList, ListPart, Shorten, Replied, Return, Move
<1>5. CASE GotGet(c) \/ GotSha(c)
  BY <1>5, ClientTypes DEF GotGet, GotSha, GotFile, Replied, Return, Move
<1>6. CASE GotPut(c) \/ PutPart(c) \/ ShaStart(c) \/ ShaPart(c)
  BY <1>6, ClientTypes DEF GotPut, PutPart, ShaStart, ShaPart, ShaStep, Replied, Carry, Return,
     Move
<1> QED
  BY <1>1, <1>2, <1>3, <1>4, <1>5, <1>6 DEF Program, User

LEMMA DownClient ==
  ASSUME IInv, Sizes, CutLeft, StepInv, view \in [Clients -> Seq(Byte)], NEW c \in Clients,
         InStepAt(c), InStepAt(c)', DownAt(c), ClientTurn(c)
  PROVE  DownAt(c)'
<1>0. /\ Program(c) \/ User(c) \/ Kill(c) \/ Shorten(c)
      /\ UNCHANGED serverVars /\ Note(c) /\ UNCHANGED sopen /\ TaskSizes
  BY ClientApart DEF ClientTurn, Sizes
<1>1. UNCHANGED <<spc, job, files, cwd>>
  BY <1>0 DEF serverVars
<1>2. told'[c] = "get" => GetStart(c) \/ GetPart(c)
  BY <1>0, ElseAway DEF DownAt
<1>3. told'[c] # "none" => cpc'[c] = "prompt" /\ copen'[c]
  <2> SUFFICES ASSUME told'[c] # "none" PROVE cpc'[c] = "prompt" /\ copen'[c]
    OBVIOUS
  <2>1. \/ GetStart(c) \/ GetPart(c) \/ GotPut(c) \/ PutPart(c)
    BY <1>0, ClientTypes DEF DownAt, Program, User, Kill, Shorten, Command, Ls, Cd, Get, Sha,
       Quit, Put, Issue, IssueName, GotOpen, GotList, ListPart, GotCd, GotGet, GotSha, GotFile,
       GetUnopened, PutShort, ShaStart, ShaPart, ShaStep, Replied, GotQuit, BadReply,
       ReadFailed, Fail, SendFailed, BrokenPipeKills, Exit, End, Carry, Return
  <2>2. copen[c] /\ UNCHANGED copen /\ told[c] = "none"
    BY <2>1 DEF GetStart, GetPart, GotPut, PutPart, Replied, IInv, EveryEndOwned, DownAt
  <2>3. cpc'[c] = "prompt"
    BY <2>1, <2>2, ClientTypes DEF GetStart, GetPart, GotPut, PutPart, Carry, Return, Move
  <2> QED
    BY <2>2, <2>3
<1>4. Whole(c)' /\ told'[c] = "get" => spc'[c] = "head"
  <2> SUFFICES ASSUME Whole(c)', told'[c] = "get" PROVE spc'[c] = "head"
    OBVIOUS
  <2>1. cpc[c] \in {"gethead", "getdata"}
    BY <1>2 DEF GetStart, GetPart, Replied
  <2>2. Whole(c)
    BY <1>0, WasWhole
  <2>3. spc[c] \in {"getopen", "getdata", "head"}
    BY <2>1, <2>2, RequestedKinds DEF InStepAt, Quiet, Asked, Answered, FileComes
  <2>4. cpc'[c] = "prompt"
    BY <1>3
  <2>5. spc'[c] \in {"head", "puthead", "putdata"}
    BY <2>4, RequestedKinds DEF InStepAt, Quiet, Uploading, Asked, Answered
  <2> QED
    BY <1>1, <2>3, <2>5
<1>5. ASSUME Whole(c)', spc'[c] = "getdata", ~torn'[c]
      PROVE  files'[Path(c)'] = view'[c] /\ job'[c].size = Len(view'[c])
  <2>1. Whole(c)
    BY <1>0, <1>5, WasWhole
  <2>2. spc[c] = "getdata" /\ ~torn[c]
    BY <1>0, <1>1, <1>5, TornNoted
  <2>3. cpc'[c] \in {"get", "gethead", "getdata"}
    BY <1>5 DEF InStepAt, Quiet, Asked, Uploading, Answered, ShaComes
  <2>4. view'[c] = view[c]
    BY <1>0, <2>2, <2>3, Viewed
  <2> QED
    BY <1>1, <2>1, <2>2, <2>4 DEF DownAt, Path
<1>6. ASSUME copen'[c], slip'[c] = {}, ~torn'[c] PROVE FileHere(c)'
  <2>1. copen[c] /\ slip[c] = {}
    BY <1>0, <1>6, StaysOpen
  <2>2. CASE spc[c] \in {"getopen", "puthead"}
    <3>1. Whole(c)'
      BY <1>0, <1>6, <2>2 DEF Whole, IInv, EveryEndOwned
    <3>2. told'[c] # "get"
      BY <1>1, <1>4, <2>2, <3>1
    <3>3. ~HeadReady(<<>>)
      BY WordFacts, EmptySeq DEF HeadReady
    <3>4. Fresh(c)'
      <4>1. CASE Quiet(c)' \/ Asked(c)'
        BY <3>2, <3>3, <4>1, RequestedKinds DEF Quiet, Asked, Fresh
      <4>2. CASE Answered(c)'
        BY <1>1, <2>2, <3>2, <4>2 DEF Answered, FileComes, Fresh
      <4> QED
        BY <3>1, <4>1, <4>2 DEF InStepAt
    <3> QED
      BY <3>4 DEF Fresh, FileHere, FileOk
  <2>3. CASE spc[c] \notin {"getopen", "puthead"}
    <3>1. ~torn[c]
      BY <1>0, <1>6, <2>3, TornNoted
    <3>2. FileHere(c)
      BY <2>1, <3>1 DEF DownAt
    <3>3. cpc'[c] \in {"get", "gethead", "getdata"} \/ told'[c] = "get" => view'[c] = view[c]
      BY <1>0, <2>3, Viewed
    <3>4. CASE GetStart(c)
      BY <1>0, <3>2, <3>3, <3>4, HereStarts
    <3>5. CASE GetPart(c)
      BY <1>0, <3>2, <3>3, <3>5, HereTaken
    <3>6. CASE ~GetStart(c) /\ ~GetPart(c)
      <4>1. /\ told'[c] # "get"
            /\ cpc'[c] = "get" => Get(c)
            /\ cpc'[c] = "gethead" => GotGet(c)
            /\ cpc'[c] # "getdata"
        BY <1>0, <3>6, ElseAway DEF DownAt
      <4>2. CASE cpc'[c] = "get"
        <5>1. cpc[c] = "prompt" /\ UNCHANGED toClient
          BY <4>1, <4>2 DEF Get, IssueName
        <5>2. toClient'[c] = <<>>
          BY <2>1, <5>1, HasLeft DEF LeftAt
        <5>3. ~HeadReady(toClient'[c])
          BY <5>2, WordFacts, EmptySeq DEF HeadReady
        <5> QED
          BY <4>1, <4>2, <5>3 DEF FileHere
      <4>3. CASE cpc'[c] = "gethead"
        <5>1. /\ cpc[c] = "get" /\ HeadReady(toClient[c]) /\ ReadHead(toClient[c]).status = 1
              /\ toClient'[c] = Rest(toClient[c], HEADER_LENGTH)
          BY <4>1, <4>3, ServerTypes, ClientTypes DEF GotGet, GotFile, GotStatus, Replied,
             ClientTakes, Return, Move
        <5> QED
          BY <3>2, <3>3, <4>1, <4>3, <5>1 DEF FileHere
      <4>4. CASE cpc'[c] \notin {"get", "gethead"}
        BY <4>1, <4>4 DEF FileHere
      <4> QED
        BY <4>2, <4>3, <4>4
    <3> QED
      BY <3>4, <3>5, <3>6
  <2> QED
    BY <2>2, <2>3
<1> QED
  BY <1>3, <1>4, <1>5, <1>6 DEF DownAt

LEMMA DownDial ==
  ASSUME IInv, NEW c \in Clients, Dial(c)
  PROVE  DownAt(c)'
<1>1. cpc'[c] = "open" /\ told'[c] = "none" /\ spc'[c] = "backlog"
  BY ServerTypes, ClientTypes DEF Dial, Open, Backlog, Move, Goto
<1> QED
  BY <1>1 DEF DownAt, FileHere

\* What a step of another client changes: files only when it tears.
LEMMA DownApart ==
  ASSUME IInv, NEW c \in Clients, Apart(c), NEW d \in Clients, d # c, Note(c),
         told'[d] = told[d], DownAt(d)
  PROVE  DownAt(d)'
<1>1. /\ spc'[d] = spc[d] /\ job'[d] = job[d] /\ cwd'[d] = cwd[d]
      /\ cpc'[d] = cpc[d] /\ task'[d] = task[d] /\ slip'[d] = slip[d]
      /\ local'[d] = local[d] /\ toClient'[d] = toClient[d]
      /\ copen'[d] = copen[d] /\ sopen'[d] = sopen[d]
  BY DEF Apart
<1>2. view'[d] = view[d]
  BY DEF Note
<1>3. ~torn'[d] => ~torn[d] /\ (spc[d] = "getdata" => files'[Path(d)] = files[Path(d)])
  BY TornNoted
<1>4. Path(d)' = Path(d) /\ Whole(d)' = Whole(d) /\ FileHere(d)' = FileHere(d)
  BY <1>1, <1>2 DEF Path, Whole, FileHere
<1> QED
  BY <1>1, <1>2, <1>3, <1>4 DEF DownAt

LEMMA StepDown == LengthsFit /\ StepInv /\ StepInv' /\ CutLeft /\ Down /\ [Next]_vars => Down'
<1> SUFFICES ASSUME LengthsFit, StepInv, StepInv', CutLeft, Down, [Next]_vars PROVE Down'
  OBVIOUS
<1>0. IInv /\ Sizes /\ view \in [Clients -> Seq(Byte)]
  BY DEF StepInv, Down
<1>1. CASE UNCHANGED vars
  BY <1>1 DEF vars, connVars, serverVars, clientVars, Down, DownAt, Whole, FileHere, Path
<1>2. ASSUME NEW a \in Clients, Turn(a) PROVE Down'
  <2>0. Note(a)
    BY <1>2, TurnIs DEF Dial, ThreadTurn, ClientTurn
  <2>1. view' \in [Clients -> Seq(Byte)]
    BY <1>0, <2>0, Viewed
  <2>2. ASSUME NEW c \in Clients PROVE DownAt(c)'
    <3>0. DownAt(c) /\ InStepAt(c) /\ InStepAt(c)'
      BY DEF Down, StepInv, InStep
    <3>1. CASE Dies(a)
      <4>1. ThreadTurn(a)
        <5>1. up /\ ~up'
          BY <1>0, <3>1 DEF Dies, BrokenPipe, PathThrows, CallThrows, Terminate, Sending,
             Blocks, Request, IInv, EveryEndOwned
        <5> QED
          BY <1>2, <5>1, TurnIs DEF Dial, Backlog, ClientTurn, serverVars
      <4>2. UNCHANGED <<toClient, copen, cpc, task, told, local, slip>>
        BY <3>1, <4>1 DEF Dies, BrokenPipe, PathThrows, CallThrows, Terminate,
           ThreadTurn, clientVars
      <4>3. ~sopen'[c]
        BY <1>0, <3>1, HangupEnds DEF Dies, BrokenPipe, PathThrows, CallThrows, Terminate
      <4>4. ~copen[a] \/ spc[a] \notin {"getopen", "puthead"}
        BY <3>1 DEF Dies, BrokenPipe, PathThrows, CallThrows, Terminate, Blocks, Request
      <4>5. ASSUME copen'[c], slip'[c] = {}, ~torn'[c] PROVE FileHere(c)'
        <5>1. c = a => spc[a] \notin {"getopen", "puthead"}
          BY <4>2, <4>4, <4>5
        <5>2. /\ ~torn[c]
              /\ cpc[c] \in {"get", "gethead", "getdata"} \/ told[c] = "get" =>
                   view'[c] = view[c]
          BY <1>0, <2>0, <4>2, <4>5, <5>1, TornNoted, Viewed DEF Down
        <5>3. FileHere(c)
          BY <3>0, <4>2, <4>5, <5>2 DEF DownAt
        <5> QED
          BY <4>2, <5>2, <5>3 DEF FileHere
      <4> QED
        BY <3>0, <4>2, <4>3, <4>5 DEF DownAt, Whole
    <3>2. CASE ~Dies(a) /\ c # a
      BY <1>0, <1>2, <2>0, <3>0, <3>2, TurnApart, ToldApart, DownApart
    <3>3. CASE c = a /\ Dial(a)
      BY <1>0, <3>3, DownDial
    <3>4. CASE ~Dies(a) /\ c = a /\ ThreadTurn(a)
      BY <1>0, <3>0, <3>4, DownThread
    <3>5. CASE c = a /\ ClientTurn(a)
      BY <1>0, <3>0, <3>5, DownClient
    <3> QED
      BY <1>2, <3>1, <3>2, <3>3, <3>4, <3>5, TurnIs
  <2> QED
    BY <2>1, <2>2 DEF Down
<1> QED
  BY <1>1, <1>2 DEF Next, Turn

LEMMA DownInvariant == LengthsFit => (Spec => []Down)
<1> SUFFICES ASSUME LengthsFit PROVE Spec => []Down
  OBVIOUS
<1>1. Init => Down
  <2>1. <<>> \in Seq(Byte)
    BY EmptySeq
  <2> QED
    BY <2>1 DEF Init, ConnInit, ServerInit, ClientInit, Down, DownAt, Whole, FileHere
<1>2. StepInv /\ StepInv' /\ CutLeft /\ Down /\ [Next]_vars => Down'
  BY StepDown
<1>3. Spec => []StepInv
  BY StepInvariant
<1>4. Spec => []CutLeft
  BY CutInvariant
<1> QED
  BY <1>1, <1>2, <1>3, <1>4, PTL DEF Spec

(***************************************************************************)
(* As long as lengths fit their fields, what GET calls downloaded is the   *)
(* file as the server opened it.                                           *)
(***************************************************************************)
THEOREM DownloadAlwaysWhole == LengthsFit => (Spec => []DownloadWhole)
<1> SUFFICES ASSUME LengthsFit PROVE Spec => []DownloadWhole
  OBVIOUS
<1>1. Spec => []Down
  BY DownInvariant
<1>2. Down => DownloadWhole
  BY DEF Down, DownAt, FileHere, DownloadWhole
<1> QED
  BY <1>1, <1>2, PTL

-----------------------------------------------------------------------------
(* What has been sent and stored of an upload is the client's file.        *)

\* The next bytes of a stream, up to the size announced, are the file's.
Coming(stream, done, size, file) ==
  \A i \in 1..Len(stream) : done + i <= size =>
    done + i <= Len(file) /\ stream[i] = file[done + i]

\* The thread awaits the data of a PUT, or their header has come.
Uploads(c) == spc[c] = "putdata" \/ (spc[c] = "puthead" /\ toServer[c] # <<>>)

Announced(c) ==
  IF spc[c] = "putdata" THEN job[c].size ELSE ReadHead(toServer[c]).length - HEADER_LENGTH

\* The header announces no less than the file, its bytes are on their way and
\* the ones that have arrived are stored.
Sent(c) ==
  LET file == local[c][job[c].name]
  IN  /\ file \in Seq(Byte) /\ Len(file) <= Announced(c)
      /\ spc[c] = "puthead" =>
           /\ Front(toServer[c], File_DATA)
           /\ Coming(Rest(toServer[c], HEADER_LENGTH), 0, Announced(c), file)
      /\ spc[c] = "putdata" =>
           /\ Coming(toServer[c], job[c].done, Announced(c), file)
           /\ ~torn[c] => Len(files[Path(c)]) = job[c].done /\ Begins(files[Path(c)], file)

\* At most one request is behind the upload.
OneRequest(c) ==
  LET next == Rest(toServer[c], Wanted(c))
  IN  \/ Len(toServer[c]) <= Wanted(c)
      \/ HeadReady(next) /\ Len(next) = ReadHead(next).length

\* The thread serves a client in step, or one that went away in step.
Serving(c) == sopen[c] /\ slip[c] = {} /\ (copen[c] \/ NoSlips)

UpAt(c) ==
  /\ told[c] = "put" => task[c].name \in Names
  /\ Whole(c) =>
       /\ cpc[c] = "put" /\ Answered(c) => task[c].name = job[c].name
       /\ cpc[c] = "putdata" => task[c].name = job[c].name /\ task[c].size = Announced(c)
       /\ told[c] = "put" /\ spc[c] # "head" => task[c].name = job[c].name
       /\ told[c] = "put" /\ spc[c] = "head" /\ ~torn[c] =>
            files[<<cwd[c], task[c].name>>] = local[c][task[c].name]
  /\ Serving(c) /\ Uploads(c) => Sent(c)
  /\ Serving(c) /\ ~copen[c] => OneRequest(c)

Up == \A c \in Clients : UpAt(c)

LEMMA ComingTaken ==
  ASSUME NEW s \in Seq(Byte), NEW done \in Nat, NEW size \in Int, NEW file \in Seq(Byte),
         Coming(s, done, size, file), NEW n \in Nat, n <= Len(s)
  PROVE  Coming(Rest(s, n), done + n, size, file)
<1>1. /\ Rest(s, n) \in Seq(Byte) /\ Len(Rest(s, n)) = Len(s) - n
      /\ \A i \in 1..(Len(s) - n) : Rest(s, n)[i] = s[n + i]
  BY RestFacts
<1>2. ASSUME NEW i \in 1..(Len(s) - n), done + n + i <= size
      PROVE  done + n + i <= Len(file) /\ Rest(s, n)[i] = file[done + n + i]
  <2>1. n + i \in 1..Len(s) /\ done + (n + i) <= size /\ done + (n + i) = done + n + i
    BY <1>2
  <2>2. done + (n + i) <= Len(file) /\ s[n + i] = file[done + (n + i)]
    BY <2>1 DEF Coming
  <2> QED
    BY <1>1, <2>1, <2>2
<1> QED
  BY <1>1, <1>2 DEF Coming

LEMMA ComingMore ==
  ASSUME NEW s \in Seq(Byte), NEW done \in Nat, NEW size \in Int, NEW file \in Seq(Byte),
         Coming(s, done, size, file), NEW t \in Seq(Byte), Coming(t, done + Len(s), size, file)
  PROVE  Coming(s \o t, done, size, file)
<1>1. /\ s \o t \in Seq(Byte) /\ Len(s \o t) = Len(s) + Len(t)
      /\ \A i \in 1..(Len(s) + Len(t)) :
           (s \o t)[i] = IF i <= Len(s) THEN s[i] ELSE t[i - Len(s)]
  BY ConcatProperties
<1>2. ASSUME NEW i \in 1..(Len(s) + Len(t)), done + i <= size
      PROVE  done + i <= Len(file) /\ (s \o t)[i] = file[done + i]
  <2>1. CASE i <= Len(s)
    BY <1>1, <1>2, <2>1 DEF Coming
  <2>2. CASE ~(i <= Len(s))
    <3>1. i - Len(s) \in 1..Len(t) /\ (done + Len(s)) + (i - Len(s)) = done + i
      BY <1>2, <2>2
    <3>2. (done + Len(s)) + (i - Len(s)) <= size
      BY <1>2, <3>1
    <3>3. /\ (done + Len(s)) + (i - Len(s)) <= Len(file)
          /\ t[i - Len(s)] = file[(done + Len(s)) + (i - Len(s))]
      BY <3>1, <3>2 DEF Coming
    <3> QED
      BY <1>1, <2>2, <3>1, <3>3
  <2> QED
    BY <2>1, <2>2
<1> QED
  BY <1>1, <1>2 DEF Coming

LEMMA ComingBlock ==
  ASSUME NEW file \in Seq(Byte), NEW done \in Nat, NEW size \in Nat, done <= size
  PROVE  LET block == NextBlock(file, done, size)
         IN  block \in Seq(Byte) /\ Coming(block, done, size, file)
<1> DEFINE last == Min({size, done + Block, Len(file)})
<1>1. size \in Int /\ done + Block \in Int /\ Len(file) \in Int
  BY BlockAssumption
<1>2. last \in Int /\ last <= Len(file)
  BY <1>1, MinOfThree
<1>3. NextBlock(file, done, size) = SubSeq(file, done + 1, last)
  BY DEF NextBlock
<1> HIDE DEF last
<1> DEFINE block == SubSeq(file, done + 1, last)
<1>4. CASE done + 1 <= last
  <2>1. last \in Nat /\ done + 1 \in 1..Len(file)
    BY <1>2, <1>4
  <2>2. /\ block \in Seq(Byte) /\ Len(block) = last - done
        /\ \A i \in 1..(last - done) : block[i] = file[done + i]
    BY <1>2, <1>4, <2>1, SubSeqProperties
  <2> QED
    BY <1>2, <1>3, <2>2 DEF Coming
<1>5. CASE ~(done + 1 <= last)
  <2>1. block = <<>>
    BY <1>2, <1>5, SubSeqProperties, EmptySeq
  <2>2. <<>> \in Seq(Byte) /\ Coming(<<>>, done, size, file)
    BY EmptySeq DEF Coming
  <2> QED
    BY <1>3, <2>1, <2>2
<1> QED
  BY <1>4, <1>5

\* Nothing past the size belongs to the file.
LEMMA ComingPast ==
  ASSUME NEW s \in Seq(Byte), NEW done \in Nat, NEW size \in Int, NEW file, size <= done
  PROVE  Coming(s, done, size, file)
BY DEF Coming

\* A file that becomes shorter, but keeps what has been sent.
LEMMA ComingCut ==
  ASSUME NEW s \in Seq(Byte), NEW done \in Nat, NEW size \in Int, NEW file \in Seq(Byte),
         Coming(s, done, size, file), NEW k \in Nat, done + Len(s) <= k, k <= Len(file)
  PROVE  Coming(s, done, size, SubSeq(file, 1, k))
<1>1. /\ SubSeq(file, 1, k) \in Seq(Byte) /\ Len(SubSeq(file, 1, k)) = k
      /\ \A i \in 1..k : SubSeq(file, 1, k)[i] = file[i]
  BY SubSeqProperties
<1>2. ASSUME NEW i \in 1..Len(s), done + i <= size
      PROVE  done + i <= k /\ s[i] = SubSeq(file, 1, k)[done + i]
  <2>1. s[i] = file[done + i]
    BY <1>2 DEF Coming
  <2>2. done + i \in 1..k
    BY <1>2
  <2> QED
    BY <1>1, <2>1, <2>2
<1> QED
  BY <1>1, <1>2 DEF Coming

LEMMA BeginsCut ==
  ASSUME NEW part \in Seq(Byte), NEW file \in Seq(Byte), Begins(part, file),
         NEW k \in Nat, Len(part) <= k, k <= Len(file)
  PROVE  Begins(part, SubSeq(file, 1, k))
<1>1. /\ Len(SubSeq(file, 1, k)) = k
      /\ \A i \in 1..k : SubSeq(file, 1, k)[i] = file[i]
  BY SubSeqProperties
<1> QED
  BY <1>1 DEF Begins

\* What is written at the end of a file goes behind it.
LEMMA StoredNext ==
  ASSUME NEW old \in Seq(Byte), NEW bytes \in Seq(Byte), NEW file \in Seq(Byte),
         Begins(old, file),
         \A i \in 1..Len(bytes) :
           Len(old) + i <= Len(file) /\ bytes[i] = file[Len(old) + i]
  PROVE  LET g == WriteAt(old, Len(old), bytes)
         IN  g \in Seq(Byte) /\ Len(g) = Len(old) + Len(bytes) /\ Begins(g, file)
<1> DEFINE g == WriteAt(old, Len(old), bytes)
           last == Max({Len(old), Len(old) + Len(bytes)})
<1>1. last = Len(old) + Len(bytes)
  <2>1. Len(old) \in Int /\ Len(old) + Len(bytes) \in Int /\ Len(bytes) \in Nat
    OBVIOUS
  <2>2. last \in {Len(old), Len(old) + Len(bytes)} /\ last >= Len(old) + Len(bytes)
    BY <2>1, MaxOfTwo
  <2> QED
    BY <2>1, <2>2
<1>2. g \in Seq(Byte) /\ Len(g) = Len(old) + Len(bytes)
  <2>1. g \in Seq(Byte) /\ DOMAIN g = 1..last
    <3>1. Len(old) \in Nat
      OBVIOUS
    <3> QED
      BY <3>1, WriteAtType DEF WriteAt
  <2> QED
    BY <1>1, <2>1
<1>3. \A i \in 1..(Len(old) + Len(bytes)) :
        g[i] = IF i \in (Len(old) + 1)..(Len(old) + Len(bytes)) THEN bytes[i - Len(old)]
               ELSE IF i <= Len(old) THEN old[i] ELSE [at |-> 0, of |-> NUL]
  BY <1>1 DEF WriteAt
<1> HIDE DEF g
<1>4. ASSUME NEW i \in 1..(Len(old) + Len(bytes)) PROVE i <= Len(file) /\ g[i] = file[i]
  <2>1. CASE i <= Len(old)
    BY SMTT(30), <1>3, <2>1 DEF Begins
  <2>2. CASE ~(i <= Len(old))
    <3>1. i - Len(old) \in 1..Len(bytes) /\ Len(old) + (i - Len(old)) = i
      BY <2>2
    <3>2. g[i] = bytes[i - Len(old)]
      BY <1>3, <2>2, <3>1
    <3> QED
      BY <3>1, <3>2
  <2> QED
    BY <2>1, <2>2
<1>5. Len(old) + Len(bytes) <= Len(file)
  <2>1. CASE Len(bytes) = 0
    BY <2>1 DEF Begins
  <2>2. CASE Len(bytes) # 0
    <3>1. Len(old) + Len(bytes) \in 1..(Len(old) + Len(bytes))
      BY <2>2
    <3> QED
      BY <1>4, <3>1
  <2> QED
    BY <2>1, <2>2
<1> QED
  BY <1>2, <1>4, <1>5 DEF Begins, g

\* A step that changes nothing of a client's upload.
LEMMA SentStays ==
  ASSUME IInv, NEW c \in Clients, Uploads(c) => Sent(c), Uploads(c)',
         spc'[c] = spc[c], job'[c] = job[c], cwd'[c] = cwd[c],
         toServer'[c] = toServer[c], local'[c] = local[c],
         spc[c] = "putdata" /\ ~torn'[c] => ~torn[c] /\ files'[Path(c)] = files[Path(c)]
  PROVE  Sent(c)'
<1>1. Uploads(c) /\ Announced(c)' = Announced(c) /\ Path(c)' = Path(c)
  BY DEF Uploads, Announced, Path
<1> QED
  BY <1>1 DEF Sent

LEMMA OneStays ==
  ASSUME NEW c \in Clients, OneRequest(c),
         spc'[c] = spc[c], job'[c] = job[c], toServer'[c] = toServer[c]
  PROVE  OneRequest(c)'
<1>1. Wanted(c)' = Wanted(c)
  BY DEF Wanted
<1> QED
  BY <1>1 DEF OneRequest

\* What a thread takes of an upload is not the request behind it.
LEMMA OneTaken ==
  ASSUME IInv, NEW c \in Clients, OneRequest(c), NEW n \in Nat, ServerTakes(c, n),
         n <= Wanted(c), n <= Len(toServer[c]), Wanted(c) \in Nat, Wanted(c)' = Wanted(c) - n
  PROVE  OneRequest(c)'
<1>1. toServer[c] \in Seq(Byte) /\ toServer'[c] = Rest(toServer[c], n)
  BY ServerTypes DEF ServerTakes
<1>2. Len(toServer'[c]) = Len(toServer[c]) - n /\ Len(toServer[c]) \in Nat
  BY <1>1, RestFacts
<1>3. CASE Len(toServer[c]) <= Wanted(c)
  BY <1>2, <1>3 DEF OneRequest
<1>4. CASE ~(Len(toServer[c]) <= Wanted(c))
  <2> DEFINE m == Wanted(c) - n
  <2>1. m \in Nat /\ n + m = Wanted(c) /\ n + m <= Len(toServer[c])
    BY <1>2, <1>4
  <2>2. Wanted(c)' = m
    OBVIOUS
  <2> HIDE DEF m
  <2>3. Rest(Rest(toServer[c], n), m) = Rest(toServer[c], n + m)
    BY <1>1, <2>1, RestRest
  <2>4. Rest(toServer'[c], Wanted(c)') = Rest(toServer[c], Wanted(c))
    BY <1>1, <2>1, <2>2, <2>3
  <2> QED
    BY <1>4, <2>4 DEF OneRequest
<1> QED
  BY <1>3, <1>4

\* The step of another client, or of its thread.
LEMMA UpApart ==
  ASSUME IInv, NEW c \in Clients, Apart(c), Note(c), NEW d \in Clients, d # c,
         told'[d] = told[d], told[d] # "none" => cpc[d] = "prompt",
         DirAgreesAt(d), UpAt(d)
  PROVE  UpAt(d)'
<1>1. /\ spc'[d] = spc[d] /\ job'[d] = job[d] /\ cwd'[d] = cwd[d]
      /\ cpc'[d] = cpc[d] /\ task'[d] = task[d] /\ slip'[d] = slip[d]
      /\ where'[d] = where[d] /\ local'[d] = local[d]
      /\ toServer'[d] = toServer[d] /\ toClient'[d] = toClient[d]
      /\ copen'[d] = copen[d] /\ sopen'[d] = sopen[d]
  BY DEF Apart
<1>2. /\ Whole(d)' = Whole(d) /\ Announced(d)' = Announced(d) /\ Owed(d)' = Owed(d)
      /\ Serving(d)' = Serving(d) /\ Uploads(d)' = Uploads(d)
  BY <1>1 DEF Whole, Announced, Owed, Serving, Uploads
<1>3. Answered(d)' => Answered(d)
  BY <1>1, <1>2 DEF Answered, FileComes, ShaComes
<1>4. ASSUME Whole(d), told[d] = "put", spc[d] = "head", ~torn'[d]
      PROVE  files'[<<cwd'[d], task'[d].name>>] = local'[d][task'[d].name]
  <2>1. task[d].name \in Names /\ where[d] = cwd[d] /\ where[d] \in Dirs
    BY <1>4, ServerTypes DEF UpAt, DirAgreesAt
  <2>2. <<where[d], task[d].name>> \in Watched(d)
    BY <1>4, <2>1 DEF Watched
  <2>3. ~torn[d] /\ files'[<<where[d], task[d].name>>] = files[<<where[d], task[d].name>>]
    BY <1>4, <2>2, TornNoted
  <2> QED
    BY <1>1, <1>4, <2>1, <2>3 DEF UpAt
<1>5. Serving(d)' /\ Uploads(d)' => Sent(d)'
  <2>1. spc[d] = "putdata" /\ ~torn'[d] => ~torn[d] /\ files'[Path(d)] = files[Path(d)]
    BY TornNoted
  <2> QED
    BY <1>1, <1>2, <2>1, SentStays DEF UpAt
<1>6. Serving(d)' /\ ~copen'[d] => OneRequest(d)'
  BY <1>1, <1>2, OneStays DEF UpAt
<1> QED
  BY <1>1, <1>2, <1>3, <1>4, <1>5, <1>6 DEF UpAt

LEMMA UpDial ==
  ASSUME IInv, NEW c \in Clients, Dial(c)
  PROVE  UpAt(c)'
<1>1. /\ cpc'[c] = "open" /\ told'[c] = "none" /\ spc'[c] = "backlog" /\ copen'[c]
  BY ServerTypes, ClientTypes DEF Dial, Open, Connect, Backlog, Move, Goto
<1> QED
  BY <1>1 DEF UpAt, Uploads

-----------------------------------------------------------------------------
(* The steps of a thread.                                                  *)

\* The thread opens the file of a PUT: what it will get is the client's.
LEMMA UpPutOpen ==
  ASSUME IInv, TaskSizes, NEW c \in Clients, InStepAt(c), UpAt(c), Serving(c),
         PutOpen(c), UNCHANGED clientVars, UNCHANGED copen
  PROVE  /\ UpAt(c)'
         /\ spc'[c] = "head" => files'[Path(c)] = local[c][job[c].name]
<1> DEFINE header == ReadHead(toServer[c])
           size == PayloadLength(header)
           file == local[c][job[c].name]
<1>1. /\ spc[c] = "puthead" /\ toServer[c] # <<>> /\ toServer[c] \in Seq(Byte)
      /\ header.length \in Nat /\ size = header.length - HEADER_LENGTH /\ size \in Lengths
      /\ size \in Nat /\ Wanted(c) = header.length /\ HEADER_LENGTH <= header.length
      /\ HEADER_LENGTH <= Len(toServer[c])
  BY DataMet, ServerTypes, WordFacts DEF PutOpen, DataHead
<1>2. Announced(c) = size
  BY <1>1 DEF Announced
<1>3. /\ Continue(c, "putdata", 0, size) /\ ServerTakes(c, HEADER_LENGTH)
      /\ files' = [files EXCEPT ![Path(c)] = <<>>] /\ Path(c) \in DOMAIN files
      /\ UNCHANGED <<cwd, copen, sopen, toClient>>
  BY DEF PutOpen, Writable
<1> HIDE DEF header, size
<1>4. /\ 0 < size => /\ spc'[c] = "putdata" /\ job'[c].done = 0
                     /\ job'[c].size = size /\ job'[c].name = job[c].name
      /\ ~(0 < size) => spc'[c] = "head"
  BY <1>1, <1>3, ContinueTo
<1>5. /\ files'[Path(c)] = <<>> /\ toServer'[c] = Rest(toServer[c], HEADER_LENGTH)
      /\ toServer'[c] \in Seq(Byte)
  BY <1>1, <1>3, RestFacts, WordFacts, ServerTypes DEF ServerTakes
<1>6. /\ file \in Seq(Byte) /\ Len(file) <= size
      /\ Coming(toServer'[c], 0, size, file)
  BY <1>1, <1>2, <1>5 DEF UpAt, Uploads, Sent
<1>7. UNCHANGED <<cpc, task, local, told, where, slip>>
  BY DEF clientVars
<1>8. Whole(c)' = Whole(c) /\ Serving(c)' = Serving(c)
  BY <1>3, <1>7 DEF Whole, Serving
<1>9. ~(0 < size) => files'[Path(c)] = file
  <2> SUFFICES ASSUME ~(0 < size) PROVE file = <<>>
    BY <1>5
  <2>1. Len(file) = 0
    BY <1>1, <1>6
  <2> QED
    BY <1>6, <2>1, EmptySeq
<1>10. ASSUME Uploads(c)' PROVE Sent(c)'
  <2>1. 0 < size /\ spc'[c] = "putdata"
    BY <1>4, <1>10 DEF Uploads
  <2>2. Path(c)' = Path(c) /\ Announced(c)' = size /\ local'[c][job'[c].name] = file
    BY <1>3, <1>4, <1>7, <2>1 DEF Path, Announced
  <2>3. Len(<<>>) = 0 /\ Begins(<<>>, file)
    BY <1>6, EmptySeq DEF Begins
  <2> QED
    BY <1>4, <1>5, <1>6, <2>1, <2>2, <2>3 DEF Sent
<1>11. ASSUME ~copen'[c] PROVE OneRequest(c)'
  <2>1. OneRequest(c)
    BY <1>3, <1>11 DEF UpAt
  <2>2. Wanted(c)' = Wanted(c) - HEADER_LENGTH
    <3>1. CASE 0 < size
      BY <1>1, <1>4, <3>1 DEF Wanted
    <3>2. CASE ~(0 < size)
      <4>1. spc'[c] = "head" /\ size = 0
        BY <1>1, <1>4, <3>2
      <4> QED
        BY <1>1, <4>1, WordFacts DEF Wanted
    <3> QED
      BY <3>1, <3>2
  <2> QED
    BY <1>1, <1>3, <2>1, <2>2, WordFacts, OneTaken
<1>12. ASSUME Whole(c), cpc[c] = "putdata"
       PROVE  task[c].name = job'[c].name /\ task[c].size = Announced(c)'
  <2>1. task[c].name = job[c].name /\ task[c].size = size
    BY <1>2, <1>12 DEF UpAt
  <2>2. 0 < size
    BY <1>1, <1>12, <2>1, TransferTypes DEF TaskSizes
  <2> QED
    BY <1>4, <2>1, <2>2 DEF Announced
<1>13. ASSUME Whole(c), told[c] = "put"
       PROVE  /\ spc'[c] # "head" => task[c].name = job'[c].name
              /\ spc'[c] = "head" =>
                   files'[<<cwd[c], task[c].name>>] = local[c][task[c].name]
  <2>1. task[c].name = job[c].name
    BY <1>1, <1>13 DEF UpAt
  <2> QED
    BY <1>4, <1>9, <2>1 DEF Path, file
<1>14. ~Answered(c)' \/ cpc'[c] # "put"
  BY <1>4 DEF Answered
<1>15. spc'[c] = "head" => files'[Path(c)] = local[c][job[c].name]
  BY <1>4, <1>9 DEF file
<1>16. told'[c] = "put" => task'[c].name \in Names
  BY <1>7 DEF UpAt
<1> QED
  BY <1>3, <1>7, <1>8, <1>10, <1>11, <1>12, <1>13, <1>14, <1>15, <1>16 DEF UpAt

\* It stores what comes next.
LEMMA UpPutBlock ==
  ASSUME IInv, TaskSizes, NEW c \in Clients, InStepAt(c), UpAt(c), Serving(c),
         PutBlock(c), UNCHANGED clientVars, UNCHANGED copen, ~torn'[c] => ~torn[c]
  PROVE  /\ UpAt(c)'
         /\ spc'[c] = "head" /\ ~torn'[c] => files'[Path(c)] = local[c][job[c].name]
<1> DEFINE done == job[c].done
           size == job[c].size
           file == local[c][job[c].name]
<1>1. /\ spc[c] = "putdata" /\ done \in Nat /\ size \in Nat /\ size \in Lengths
      /\ toServer[c] \in Seq(Byte) /\ Path(c) \in Dirs \X Names
      /\ files[Path(c)] \in Seq(Byte) /\ Path(c) \in DOMAIN files
      /\ UNCHANGED <<cwd, copen, sopen, toClient>>
  BY OpenedFile, ServerTypes DEF PutBlock
<1>2. PICK n \in Nat, bytes \in Seq(Byte) :
           /\ 0 < n /\ n <= size - done
           /\ n <= Len(toServer[c]) /\ bytes = SubSeq(toServer[c], 1, n) /\ Len(bytes) = n
           /\ Continue(c, "putdata", done + n, size)
           /\ ServerTakes(c, n)
           /\ files' = [files EXCEPT ![Path(c)] = WriteAt(files[Path(c)], done, bytes)]
  BY PutBlockSizes
<1>3. /\ file \in Seq(Byte) /\ Len(file) <= size /\ Coming(toServer[c], done, size, file)
      /\ ~torn[c] => Len(files[Path(c)]) = done /\ Begins(files[Path(c)], file)
  BY <1>1 DEF UpAt, Uploads, Sent, Announced
<1> DEFINE stored == files'[Path(c)]
<1>4. stored = WriteAt(files[Path(c)], done, bytes)
  BY <1>1, <1>2
<1> HIDE DEF done, size, file
<1>5. /\ done + n < size => /\ spc'[c] = "putdata" /\ job'[c].done = done + n
                            /\ job'[c].size = size /\ job'[c].name = job[c].name
      /\ ~(done + n < size) => spc'[c] = "head"
  <2>1. done + n \in Nat /\ size \in Lengths /\ Continue(c, "putdata", done + n, size)
    BY <1>1, <1>2
  <2> QED
    BY <2>1, ContinueTo
<1>6. toServer'[c] = Rest(toServer[c], n) /\ Coming(toServer'[c], done + n, size, file)
  <2>1. toServer'[c] = Rest(toServer[c], n)
    BY <1>2, ServerTypes DEF ServerTakes
  <2> QED
    BY <1>1, <1>2, <1>3, <2>1, ComingTaken
<1>7. ASSUME ~torn'[c] PROVE Len(stored) = done + n /\ stored \in Seq(Byte) /\ Begins(stored, file)
  <2>1. Len(files[Path(c)]) = done /\ Begins(files[Path(c)], file)
    BY <1>3, <1>7
  <2>2. ASSUME NEW i \in 1..n PROVE done + i <= Len(file) /\ bytes[i] = file[done + i]
    <3>1. bytes[i] = toServer[c][i]
      BY <1>1, <1>2, SubSeqProperties
    <3>2. i \in 1..Len(toServer[c]) /\ done + i <= size
      BY <1>1, <1>2
    <3> QED
      BY <1>3, <3>1, <3>2 DEF Coming
  <2> QED
    BY ZenonT(30), <1>1, <1>2, <1>3, <1>4, <2>1, <2>2, StoredNext
<1> HIDE DEF stored
<1>8. ~(done + n < size) /\ ~torn'[c] => stored = file
  <2> SUFFICES ASSUME ~(done + n < size), ~torn'[c] PROVE stored = file
    OBVIOUS
  <2>1. Len(stored) = size /\ stored \in Seq(Byte) /\ Begins(stored, file)
    BY <1>1, <1>2, <1>7
  <2>2. Len(stored) <= Len(file)
    BY <2>1 DEF Begins
  <2>3. Len(stored) = Len(file)
    BY <1>1, <1>3, <2>1, <2>2
  <2> QED
    BY <1>3, <2>1, <2>3, BeginsAll
<1>9. UNCHANGED <<cpc, task, local, told, where, slip>>
  BY DEF clientVars
<1>10. Whole(c)' = Whole(c) /\ Serving(c)' = Serving(c) /\ Announced(c) = size
  BY <1>1, <1>9 DEF Whole, Serving, Announced, size
<1>11. ASSUME Uploads(c)' PROVE Sent(c)'
  <2>1. done + n < size /\ spc'[c] = "putdata"
    BY <1>5, <1>11 DEF Uploads
  <2>2. /\ Path(c)' = Path(c) /\ Announced(c)' = size /\ local'[c][job'[c].name] = file
        /\ job'[c].done = done + n /\ files'[Path(c)'] = stored
    BY <1>1, <1>5, <1>9, <2>1 DEF Path, Announced, file, stored
  <2> QED
    BY <1>3, <1>6, <1>7, <2>1, <2>2 DEF Sent
<1>12. ASSUME ~copen'[c] PROVE OneRequest(c)'
  <2>1. OneRequest(c)
    BY <1>1, <1>12 DEF UpAt
  <2>2. Wanted(c) = size - done /\ Wanted(c)' = size - done - n
    BY SMTT(30), <1>1, <1>2, <1>5 DEF Wanted, size, done
  <2>3. Wanted(c) \in Nat /\ n <= Wanted(c) /\ Wanted(c)' = Wanted(c) - n
    BY <1>1, <1>2, <2>2
  <2> QED
    BY <1>2, <2>1, <2>3, OneTaken
<1>13. ASSUME Whole(c), cpc[c] = "putdata"
       PROVE  task[c].name = job'[c].name /\ task[c].size = Announced(c)'
  <2>1. task[c].name = job[c].name /\ task[c].size = size
    BY <1>10, <1>13 DEF UpAt
  <2>2. done + n < size
    <3>1. Quiet(c)
      BY <1>1, <1>13, RequestedKinds DEF InStepAt, Asked, Answered
    <3>2. Len(toServer[c]) + (size - task[c].done) = size - done
      BY <1>1, <1>13, <2>1, <3>1 DEF Quiet, Unsent, Wanted, size, done
    <3>3. task[c].done < size /\ task[c].done \in Nat
      BY <1>13, <2>1, TransferTypes DEF TaskSizes
    <3>4. Len(toServer[c]) \in Nat
      BY <1>1
    <3> QED
      BY <1>1, <1>2, <3>2, <3>3, <3>4
  <2> QED
    BY <1>5, <2>1, <2>2 DEF Announced
<1>14. ASSUME Whole(c), told[c] = "put"
       PROVE  /\ spc'[c] # "head" => task[c].name = job'[c].name
              /\ spc'[c] = "head" /\ ~torn'[c] =>
                   files'[<<cwd[c], task[c].name>>] = local[c][task[c].name]
  <2>1. task[c].name = job[c].name
    BY <1>1, <1>14 DEF UpAt
  <2> QED
    BY <1>5, <1>8, <2>1 DEF Path, file, stored
<1>15. ~Answered(c)' \/ cpc'[c] # "put"
  BY <1>5 DEF Answered
<1>16. spc'[c] = "head" /\ ~torn'[c] => files'[Path(c)] = local[c][job[c].name]
  BY <1>5, <1>8 DEF file, stored
<1>17. told'[c] = "put" => task'[c].name \in Names
  BY <1>9 DEF UpAt
<1> QED
  BY <1>1, <1>9, <1>10, <1>11, <1>12, <1>13, <1>14, <1>15, <1>16, <1>17 DEF UpAt

\* What is served is one request, and nothing is behind it.
LEMMA RequestAlone ==
  ASSUME LengthsFit, IInv, TaskSizes, NEW c \in Clients, InStepAt(c), UpAt(c), Serving(c),
         NEW kind \in Requests, Request(c, kind), ServerTakes(c, RequestLength(c))
  PROVE  toServer'[c] = <<>>
<1>1. toServer'[c] = Rest(toServer[c], RequestLength(c)) /\ toServer[c] \in Seq(Byte)
  BY ServerTypes DEF ServerTakes
<1>2. CASE copen[c]
  <2>1. Whole(c)
    BY <1>2 DEF Serving, Whole
  <2> QED
    BY <1>1, <2>1, RequestMet
<1>3. CASE ~copen[c]
  <2>1. OneRequest(c) /\ spc[c] = "head" /\ HeadReady(toServer[c]) /\ Wanted(c) = 0
    BY <1>3 DEF UpAt, Request, Wanted
  <2>2. Rest(toServer[c], 0) = toServer[c] /\ 0 < Len(toServer[c])
    BY <1>1, <2>1, RestAll, WordFacts DEF HeadReady
  <2>3. Len(toServer[c]) = RequestLength(c)
    BY <2>1, <2>2 DEF OneRequest, RequestLength
  <2> QED
    BY <1>1, <2>3, RestAll
<1> QED
  BY <1>2, <1>3

\* The thread answers a request.
LEMMA UpAnswered ==
  ASSUME LengthsFit, IInv, TaskSizes, NEW c \in Clients, InStepAt(c), UpAt(c), Serving(c),
         told[c] # "none" => cpc[c] = "prompt",
         HandleOpen(c) \/ HandleList(c) \/ HandleCd(c) \/ HandleGet(c) \/ HandleSha(c)
           \/ HandlePut(c),
         UNCHANGED clientVars, UNCHANGED copen
  PROVE  UpAt(c)'
<1>1. PICK kind \in Requests : Request(c, kind) /\ ServerTakes(c, RequestLength(c))
  BY DEF HandleOpen, HandleList, HandleCd, HandleGet, HandleSha, HandleFile, HandlePut, Requests
<1>2. toServer'[c] = <<>>
  BY <1>1, RequestAlone
<1>3. /\ spc'[c] \in {"head", "getopen", "sha", "puthead"} /\ UNCHANGED sopen
      /\ spc'[c] = "puthead" => HandlePut(c)
  BY ServerTypes DEF HandleOpen, HandleList, HandleCd, HandleGet, HandleSha, HandleFile,
     HandlePut, Request, Goto, serverVars
<1>4. UNCHANGED <<cpc, task, local, told, where, slip>>
  BY DEF clientVars
<1>5. Whole(c)' = Whole(c)
  BY <1>3, <1>4 DEF Whole
<1>6. ~Uploads(c)' /\ OneRequest(c)'
  <2>1. ~HeadReady(<<>>) /\ Len(<<>>) = 0
    BY WordFacts, EmptySeq DEF HeadReady
  <2>2. Wanted(c)' = 0
    BY <1>2, <1>3, <2>1 DEF Wanted
  <2> QED
    BY <1>2, <1>3, <2>1, <2>2 DEF Uploads, OneRequest
<1>7. Whole(c) => cpc[c] # "putdata" /\ told[c] # "put"
  BY <1>1, RequestMet, RequestedKinds
<1>8. ASSUME Whole(c), cpc[c] = "put", Answered(c)' PROVE task[c].name = job'[c].name
  <2>1. HandlePut(c)
    BY <1>3, <1>4, <1>8 DEF Answered
  <2>2. NameOf(c) = task[c].name
    BY <1>8, <2>1, InStepPut
  <2>3. job'[c].name = NameOf(c)
    BY <2>1, ServerTypes DEF HandlePut, Transfers
  <2> QED
    BY <2>2, <2>3
<1> QED
  BY <1>4, <1>5, <1>6, <1>7, <1>8 DEF UpAt

\* The thread is at something else.
LEMMA UpElse ==
  ASSUME IInv, TaskSizes, NEW c \in Clients, InStepAt(c), UpAt(c), Serving(c),
         told[c] # "none" => cpc[c] = "prompt",
         Accept(c) \/ GetOpen(c) \/ GetBlock(c) \/ ShaSend(c),
         UNCHANGED clientVars, UNCHANGED copen
  PROVE  UpAt(c)'
<1>1. /\ spc[c] \in {"backlog", "getopen", "getdata", "sha"} /\ spc'[c] \in {"head", "getdata"}
      /\ UNCHANGED <<toServer, sopen>>
  BY ServerTypes DEF Accept, GetOpen, GetBlock, ShaSend, Goto, Continue, connVars
<1>2. UNCHANGED <<cpc, task, local, told, where, slip>>
  BY DEF clientVars
<1>3. Whole(c)' = Whole(c)
  BY <1>1, <1>2 DEF Whole
<1>4. Whole(c) => cpc[c] \notin {"putdata", "put", "prompt"}
  BY <1>1, RequestedKinds DEF InStepAt, Quiet, Asked, Uploading, Answered
<1>5. ~Uploads(c)'
  BY <1>1 DEF Uploads
<1>6. ~copen'[c] => OneRequest(c)'
  <2>1. Wanted(c) = 0 /\ Wanted(c)' = 0
    BY <1>1 DEF Wanted
  <2> QED
    BY <1>1, <2>1 DEF UpAt, OneRequest
<1> QED
  BY <1>1, <1>2, <1>3, <1>4, <1>5, <1>6 DEF UpAt

LEMMA UpThread ==
  ASSUME LengthsFit, IInv, TaskSizes, NEW c \in Clients, InStepAt(c), UpAt(c),
         told[c] # "none" => cpc[c] = "prompt", ThreadTurn(c), ~Dies(c)
  PROVE  UpAt(c)'
<1>0. /\ Acts(c)
      /\ UNCHANGED clientVars /\ Note(c) /\ UNCHANGED copen /\ sopen[c]
  BY ThreadApart, ThreadServes DEF ThreadTurn
<1>1. UNCHANGED <<cpc, task, local, told, where, slip>>
  BY <1>0 DEF clientVars
<1>2. CASE ~sopen'[c]
  BY <1>1, <1>2 DEF UpAt, Whole, Serving
<1>3. CASE ~Serving(c)
  <2>1. ~Serving(c)' /\ ~Whole(c)'
    BY <1>0, <1>1, <1>3 DEF Serving, Whole
  <2> QED
    BY <1>1, <2>1 DEF UpAt
<1>4. CASE sopen'[c] /\ Serving(c)
  <2>1. ~Hangup({c})
    BY <1>4 DEF Hangup, ServerCloses
  <2>2. \/ Accept(c)     \/ HandleOpen(c) \/ HandleList(c) \/ HandleCd(c)
        \/ HandleGet(c)  \/ GetOpen(c)    \/ GetBlock(c)   \/ HandlePut(c)
        \/ PutOpen(c)    \/ PutBlock(c)   \/ HandleSha(c)  \/ ShaSend(c)
    BY <1>0, <2>1 DEF Acts, Dies, Thread, CallFails, GetShort, PutRefused, HandleQuit,
       Refuse, ReadFails, SendFails
  <2>3. spc[c] = "putdata" => (~torn'[c] => ~torn[c])
    BY <1>0, TornNoted
  <2>4. PutBlock(c) => spc[c] = "putdata"
    BY DEF PutBlock
  <2> QED
    BY <1>0, <1>4, <2>2, <2>3, <2>4, UpAnswered, UpElse, UpPutOpen, UpPutBlock
<1> QED
  BY <1>2, <1>3, <1>4

-----------------------------------------------------------------------------
(* The steps of a client.                                                  *)

\* What is sent behind an upload is either of the file or past its end.
LEMMA SentGrows ==
  ASSUME IInv, NEW c \in Clients, Uploading(c), Uploads(c), Sent(c),
         NEW bytes \in Seq(Byte), toServer'[c] = toServer[c] \o bytes, UNCHANGED serverVars,
         local'[c] = local[c], spc[c] = "putdata" /\ ~torn'[c] => ~torn[c],
         NEW k \in Nat, k + Wanted(c) = Announced(c) + Len(toServer[c]),
         Coming(bytes, k, Announced(c), local[c][job[c].name])
  PROVE  Sent(c)' /\ Announced(c)' = Announced(c)
<1> DEFINE file == local[c][job[c].name]
           size == Announced(c)
<1>1. UNCHANGED <<spc, job, cwd, files>> /\ Path(c)' = Path(c)
  BY DEF serverVars, Path
<1>2. toServer[c] \in Seq(Byte) /\ Len(toServer[c]) \in Nat
  BY ServerTypes
<1>3. file \in Seq(Byte) /\ Len(file) <= size
  BY DEF Sent
<1>4. CASE spc[c] = "putdata"
  <2>1. /\ size = job[c].size /\ Wanted(c) = job[c].size - job[c].done
        /\ job[c].size \in Nat /\ job[c].done \in Nat
    BY <1>4, ServerTypes, WordFacts DEF Announced, Wanted, Transfers
  <2>2. k = job[c].done + Len(toServer[c])
    <3>1. k + (job[c].size - job[c].done) = job[c].size + Len(toServer[c])
      BY <2>1
    <3> QED
      BY <1>2, <2>1, <3>1, AheadOfStored
  <2>3. /\ Coming(toServer[c], job[c].done, size, file)
        /\ ~torn[c] => Len(files[Path(c)]) = job[c].done /\ Begins(files[Path(c)], file)
    BY <1>4 DEF Sent
  <2>4. Coming(bytes, job[c].done + Len(toServer[c]), size, file)
    BY <2>2
  <2>5. size' = size /\ file' = file
    BY <1>1, <1>4 DEF Announced
  <2>6. size \in Int
    BY <2>1
  <2> HIDE DEF file, size
  <2>7. Coming(toServer[c] \o bytes, job[c].done, size, file)
    BY <1>2, <1>3, <2>1, <2>3, <2>4, <2>6, ComingMore
  <2> QED
    BY <1>1, <1>3, <1>4, <2>3, <2>5, <2>7 DEF Sent, file, size
<1>5. CASE spc[c] = "puthead"
  <2> DEFINE data == Rest(toServer[c], HEADER_LENGTH)
  <2>1. Front(toServer[c], File_DATA) /\ HeadReady(toServer[c])
    BY <1>5 DEF Uploading, Front
  <2>2. ReadHead(toServer[c]) \in HeaderType /\ ReadHead(toServer[c]).length \in Nat
        /\ HEADER_LENGTH <= Len(toServer[c])
    BY <1>2, <2>1, ReadHeadType, WordFacts DEF HeadReady, HeaderType
  <2>3. size = ReadHead(toServer[c]).length - HEADER_LENGTH
        /\ Wanted(c) = ReadHead(toServer[c]).length /\ size \in Int
    BY SMTT(30), <1>5, <2>1, <2>2, WordFacts DEF Announced, Wanted
  <2>4. data \in Seq(Byte) /\ Len(data) = Len(toServer[c]) - HEADER_LENGTH /\ k = Len(data)
    <3>1. HEADER_LENGTH \in Nat
      BY WordFacts
    <3>2. data \in Seq(Byte) /\ Len(data) = Len(toServer[c]) - HEADER_LENGTH
      BY <1>2, <2>2, <3>1, RestFacts
    <3>3. k + ReadHead(toServer[c]).length
            = (ReadHead(toServer[c]).length - HEADER_LENGTH) + Len(toServer[c])
      BY <2>3
    <3>4. k = Len(toServer[c]) - HEADER_LENGTH
      BY <1>2, <2>2, <3>1, <3>3, AheadOfHead
    <3> QED
      BY <3>2, <3>4
  <2>5. Coming(data, 0, size, file)
    BY <1>5 DEF Sent
  <2>6. /\ Front(toServer'[c], File_DATA) /\ ReadHead(toServer'[c]) = ReadHead(toServer[c])
        /\ Rest(toServer'[c], HEADER_LENGTH) = data \o bytes
    <3>1. Front(toServer[c] \o bytes, File_DATA)
          /\ ReadHead(toServer[c] \o bytes) = ReadHead(toServer[c])
      BY <1>2, <2>1, FrontAppend
    <3>2. HEADER_LENGTH \in Nat
      BY WordFacts
    <3>3. Rest(toServer[c] \o bytes, HEADER_LENGTH) = data \o bytes
      BY <1>2, <2>2, <3>2, RestAppend
    <3> QED
      BY <3>1, <3>3
  <2>7. size' = size /\ file' = file
    BY <1>1, <1>5, <2>6 DEF Announced
  <2> HIDE DEF file, size, data
  <2>8. Coming(bytes, 0 + Len(data), size, file)
    BY <2>4 DEF size, file
  <2>9. Coming(data \o bytes, 0, size, file)
    BY <1>3, <2>3, <2>4, <2>5, <2>8, ComingMore
  <2> QED
    BY <1>1, <1>3, <1>5, <2>6, <2>7, <2>9 DEF Sent, file, size
<1> QED
  BY <1>4, <1>5 DEF Uploads

\* Which steps of a client have to do with its uploads.
LEMMA UploadSteps ==
  ASSUME IInv, NEW c \in Clients, told[c] # "none" => cpc[c] = "prompt",
         Program(c) \/ User(c) \/ Kill(c) \/ Shorten(c)
  PROVE  /\ told'[c] = "put" => GotPut(c) \/ PutPart(c)
         /\ cpc'[c] = "putdata" => GotPut(c) \/ PutPart(c) \/ Shorten(c)
         /\ cpc'[c] = "put" => Put(c)
         /\ toServer'[c] = toServer[c] \/ Command(c) \/ GotPut(c) \/ PutPart(c)
         /\ local'[c] = local[c] \/ GetStart(c) \/ GetPart(c) \/ Shorten(c)
<1>1. CASE Command(c)
  BY <1>1, ClientTypes DEF Command, Ls, Cd, Get, Sha, Quit, Put, Issue, IssueName, Move
<1>2. CASE GotOpen(c) \/ GotCd(c) \/ GetUnopened(c) \/ PutShort(c) \/ GotQuit(c)
           \/ BadReply(c) \/ ReadFailed(c) \/ SendFailed(c)
  BY <1>2, ClientTypes DEF GotOpen, GotCd, GetUnopened, PutShort, GotQuit, BadReply, ReadFailed,
     SendFailed, Fail, Return, Move, connVars
<1>3. CASE BrokenPipeKills(c) \/ Exit(c) \/ Kill(c)
  BY <1>3, ClientTypes DEF BrokenPipeKills, Exit, Kill, End, Move
<1>4. CASE GotList(c) \/ ListPart(c)
  BY <1>4, ClientTypes DEF GotList, ListPart, Replied, Return, Move
<1>5. CASE GotGet(c) \/ GotSha(c)
  BY <1>5, ClientTypes DEF GotGet, GotSha, GotFile, Replied, Return, Move
<1>6. CASE GetStart(c) \/ GetPart(c)
  BY <1>6, ClientTypes DEF GetStart, GetPart, Replied, Carry, Return, Move
<1>7. CASE ShaStart(c) \/ ShaPart(c)
  BY <1>7, ClientTypes DEF ShaStart, ShaPart, ShaStep, Replied, Carry, Return, Move
<1>8. CASE GotPut(c) \/ PutPart(c)
  BY <1>8, ClientTypes DEF GotPut, PutPart, Replied, Carry, Return, Move
<1>9. CASE Shorten(c)
  BY <1>9, ClientTypes DEF Shorten, connVars
<1> QED
  BY <1>1, <1>2, <1>3, <1>4, <1>5, <1>6, <1>7, <1>8, <1>9 DEF Program, User

\* A client that goes away leaves its upload and its files as they are.
LEMMA ClosesQuietly ==
  ASSUME IInv, NEW c \in Clients, told[c] # "none" => cpc[c] = "prompt",
         Program(c) \/ User(c) \/ Kill(c) \/ Shorten(c), ~copen'[c]
  PROVE  toServer'[c] = toServer[c] /\ local'[c] = local[c] /\ told'[c] # "put"
<1>1. Command(c) => copen[c] /\ UNCHANGED copen
  BY DEF Command, Ls, Cd, Get, Sha, Quit, Put, Issue, IssueName
<1>2. GotPut(c) \/ PutPart(c) \/ GetStart(c) \/ GetPart(c) \/ Shorten(c) =>
        UNCHANGED copen /\ cpc[c] \in {"put", "putdata", "gethead", "getdata"}
  BY DEF GotPut, PutPart, GetStart, GetPart, Shorten, Replied, connVars
<1>3. cpc[c] \in {"put", "putdata", "gethead", "getdata"} => copen[c]
  BY DEF IInv, EveryEndOwned
<1> QED
  BY <1>1, <1>2, <1>3, UploadSteps

\* Its thread has at most its last request behind an upload.
LEMMA OneLeft ==
  ASSUME LengthsFit, IInv, TaskSizes, NEW c \in Clients, InStepAt(c), Whole(c)
  PROVE  OneRequest(c)
<1>1. Len(toServer[c]) \in Nat /\ toServer[c] \in Seq(Byte)
  BY ServerTypes
<1>2. CASE Quiet(c)
  <2>1. Unsent(c) \in Nat
    BY UnsentType
  <2>2. Len(toServer[c]) + Unsent(c) = Wanted(c)
    BY <1>2 DEF Quiet
  <2> QED
    BY <1>1, <2>1, <2>2 DEF OneRequest
<1>3. CASE Asked(c)
  <2>1. Rest(toServer[c], Wanted(c)) = RequestBytes(c) /\ cpc[c] \in DOMAIN Requested
    BY <1>3 DEF Asked
  <2>2. /\ HeadReady(RequestBytes(c))
        /\ ReadHead(RequestBytes(c)).length = Len(RequestBytes(c))
    BY <2>1, RequestFormed
  <2> QED
    BY <2>1, <2>2 DEF OneRequest
<1>4. CASE Answered(c)
  <2>1. toServer[c] = <<>> /\ spc[c] # "putdata"
    BY <1>4 DEF Answered, FileComes, ShaComes
  <2>2. ~HeadReady(<<>>) /\ Len(<<>>) = 0
    BY WordFacts, EmptySeq DEF HeadReady
  <2>3. Wanted(c) = 0
    BY <2>1, <2>2 DEF Wanted
  <2> QED
    BY <2>1, <2>2, <2>3 DEF OneRequest
<1> QED
  BY <1>2, <1>3, <1>4 DEF InStepAt

\* What a client in step sends at the prompt is behind the upload.
LEMMA UpCommand ==
  ASSUME LengthsFit, IInv, TaskSizes, NEW c \in Clients, InStepAt(c), UpAt(c), Whole(c),
         Command(c), UNCHANGED serverVars, spc[c] = "putdata" /\ ~torn'[c] => ~torn[c],
         Uploads(c)'
  PROVE  Sent(c)'
<1>1. cpc[c] = "prompt"
  BY DEF Command, Ls, Cd, Get, Sha, Quit, Put, Issue, IssueName
<1>2. Uploading(c) /\ Len(toServer[c]) = Wanted(c)
  BY <1>1, RequestedKinds, ServerTypes DEF InStepAt, Quiet, Asked, Answered, Unsent
<1>3. Uploads(c)
  <2>1. spc[c] \in {"puthead", "putdata"}
    BY DEF Uploads, serverVars
  <2>2. ~HeadReady(<<>>)
    BY WordFacts, EmptySeq DEF HeadReady
  <2> QED
    BY <1>2, <2>1, <2>2 DEF Uploads, Uploading, Front
<1>4. Sent(c)
  BY <1>3 DEF UpAt, Serving, Whole
<1>5. PICK bytes \in Seq(Byte) : toServer'[c] = toServer[c] \o bytes
  <2>1. PICK kind \in Kinds, values \in Seq(Values) :
          \/ ClientSends(c, HeaderBytes(Create(kind, 0, 0)))
          \/ ClientSends(c, HeaderBytes(Create(kind, 0, 1)) \o Payload(values))
    <3>1. \A name \in Names : <<name, NUL>> \in Seq(Values)
      BY ValuesAssumption
    <3>2. <<>> \in Seq(Values)
      OBVIOUS
    <3>3. CASE Ls(c) \/ Quit(c)
      <4>1. ClientSends(c, HeaderBytes(Create(LIST_REQUEST, 0, 0)))
            \/ ClientSends(c, HeaderBytes(Create(QUIT_REQUEST, 0, 0)))
        BY <3>3 DEF Ls, Quit, Issue
      <4> QED
        BY <3>2, <4>1, RequestKinds
    <3>4. CASE Cd(c) \/ Get(c) \/ Sha(c) \/ Put(c)
      <4>1. DOMAIN local[c] = Names
        BY ClientTypes
      <4>2. PICK name \in Names, kind \in {CHANGE_DIR_REQUEST, GET_REQUEST, SHA_REQUEST,
                                          PUT_REQUEST} :
              ClientSends(c, HeaderBytes(Create(kind, 0, 1)) \o Payload(<<name, NUL>>))
        BY <3>4, <4>1 DEF Cd, Get, Sha, Put, IssueName
      <4>3. kind \in Kinds
        BY RequestKinds
      <4> QED
        BY <3>1, <4>2, <4>3
    <3> QED
      BY <3>3, <3>4 DEF Command
  <2>2. /\ HeaderBytes(Create(kind, 0, 0)) \in Seq(Byte)
        /\ HeaderBytes(Create(kind, 0, 1)) \in Seq(Byte) /\ Payload(values) \in Seq(Byte)
    BY HeaderSent, PayloadType
  <2>3. HeaderBytes(Create(kind, 0, 1)) \o Payload(values) \in Seq(Byte)
    BY <2>2, ConcatProperties
  <2> QED
    BY <2>1, <2>2, <2>3, SentFrom DEF Whole
<1>6. local'[c] = local[c]
  BY DEF Command, Ls, Cd, Get, Sha, Quit, Put, Issue, IssueName
<1>7. Len(toServer[c]) \in Nat /\ Announced(c) \in Nat
  <2>1. Len(toServer[c]) \in Nat
    BY ServerTypes
  <2>2. CASE spc[c] = "putdata"
    BY <2>1, <2>2, ServerTypes, WordFacts DEF Announced, Transfers
  <2>3. CASE spc[c] = "puthead"
    <3>1. Len(local[c][job[c].name]) \in Nat /\ Len(local[c][job[c].name]) <= Announced(c)
      BY <1>4 DEF Sent
    <3>2. ReadHead(toServer[c]).length \in Int
      <4>1. Front(toServer[c], File_DATA) /\ HeadReady(toServer[c])
        BY <1>4, <2>3 DEF Sent, Front
      <4>2. ReadHead(toServer[c]) \in HeaderType
        BY <4>1, ServerTypes, ReadHeadType
      <4> QED
        BY <4>2, WordFacts DEF HeaderType
    <3>3. HEADER_LENGTH \in Int /\ spc[c] # "putdata"
      BY <2>3, WordFacts
    <3>4. Announced(c) \in Int
      BY <3>2, <3>3 DEF Announced
    <3> QED
      BY <2>1, <3>1, <3>4
  <2> QED
    BY <1>3, <2>2, <2>3 DEF Uploads
<1>8. Coming(bytes, Announced(c), Announced(c), local[c][job[c].name])
  BY <1>4, <1>7, ComingPast
<1> QED
  BY <1>2, <1>3, <1>4, <1>5, <1>6, <1>7, <1>8, SentGrows

\* The name of the file stays, in its transfer and in the message after it.
LEMMA CarryNames ==
  ASSUME IInv, NEW c \in Clients, NEW place, NEW done, NEW size,
         Carry(c, place, done, size, "put")
  PROVE  task'[c].name = task[c].name
<1>1. \/ task' = [task EXCEPT ![c].done = done, ![c].size = size]
      \/ task' = [task EXCEPT ![c] = Transfer(task[c].name, 0, 0)]
  BY DEF Carry, Return
<1> QED
  BY <1>1, ClientTypes DEF Transfers, Transfer

\* The data's header announces the length that the file has.
LEMMA UpGotPut ==
  ASSUME IInv, TaskSizes, NEW c \in Clients, InStepAt(c), UpAt(c), Whole(c),
         GotPut(c), UNCHANGED serverVars
  PROVE  /\ Sent(c)' /\ spc'[c] = "puthead"
         /\ task'[c].name \in Names /\ task'[c].name = job'[c].name
         /\ cpc'[c] = "putdata" => task'[c].size = Announced(c)'
<1> DEFINE size == task[c].size
           header == Create(File_DATA, 0, size)
           bytes == HeaderBytes(header)
           file == local[c][task[c].name]
<1>1. Answered(c) /\ cpc[c] = "put" /\ toServer[c] = <<>>
  BY ReplyTaken DEF GotPut, Waiting
<1>2. /\ spc'[c] = "puthead" /\ UNCHANGED <<job, local>>
      /\ task[c].name = job[c].name /\ task[c].name \in Names
  BY <1>1 DEF Answered, GotPut, serverVars, UpAt, IInv, TaskNamed
<1>3. /\ size \in Nat /\ size \in Lengths /\ HEADER_LENGTH + size < WORD
      /\ file \in Seq(Byte) /\ size = Len(file)
  BY <1>1, TransferTypes DEF TaskSizes, IInv, TaskNamed
<1>4. ClientSends(c, bytes) /\ Carry(c, "putdata", 0, size, "put")
  BY DEF GotPut
<1>5. task'[c].name = task[c].name
  BY <1>4, CarryNames
<1> HIDE DEF size
<1>6. /\ header \in HeaderType /\ Is(File_DATA, header)
      /\ header.length = HEADER_LENGTH + size
  BY <1>3, DataSent
<1> HIDE DEF header
<1>7. /\ bytes \in Seq(Byte) /\ Front(bytes, File_DATA) /\ ReadHead(bytes) = header
      /\ Rest(bytes, HEADER_LENGTH) = <<>>
  BY <1>6, HeaderAlone DEF Front
<1> HIDE DEF bytes
<1>8. toServer'[c] = bytes
  <2>1. toServer'[c] = <<>> \o bytes
    BY <1>1, <1>4, <1>7, SentFrom DEF Whole
  <2> QED
    BY <1>7, <2>1, ConcatEmptySeq
<1>9. Announced(c)' = size
  <2>1. Announced(c)' = header.length - HEADER_LENGTH
    BY <1>2, <1>7, <1>8 DEF Announced
  <2>2. HEADER_LENGTH \in Int /\ size \in Int
    BY <1>3, HeaderAssumption
  <2>3. header.length = HEADER_LENGTH + size
    BY <1>6
  <2>4. header.length \in Int
    BY <2>2, <2>3, SMTT(30)
  <2> QED
    BY <2>1, <2>2, <2>3, <2>4, SMTT(30)
<1>10. local'[c][job'[c].name] = file
  BY <1>2
<1>11. Coming(<<>>, 0, size, file)
  BY EmptySeq DEF Coming
<1> HIDE DEF file
<1>12. Sent(c)'
  BY <1>2, <1>3, <1>7, <1>8, <1>9, <1>10, <1>11 DEF Sent
<1>13. cpc'[c] = "putdata" => task'[c].size = size
  <2>1. CASE 0 < size
    BY <1>3, <1>4, <2>1, CarryTo
  <2>2. CASE ~(0 < size)
    BY <1>3, <1>4, <2>2, CarryTo
  <2> QED
    BY <2>1, <2>2
<1> QED
  BY <1>2, <1>5, <1>9, <1>12, <1>13

\* A block goes behind what has been sent, and is what the file holds there.
LEMMA UpPutPart ==
  ASSUME IInv, TaskSizes, NEW c \in Clients, InStepAt(c), UpAt(c), Whole(c),
         PutPart(c), UNCHANGED serverVars, spc[c] = "putdata" /\ ~torn'[c] => ~torn[c]
  PROVE  /\ Sent(c)' /\ spc'[c] \in {"puthead", "putdata"}
         /\ task'[c].name \in Names /\ task'[c].name = job'[c].name
         /\ cpc'[c] = "putdata" => task'[c].size = Announced(c)'
<1> DEFINE done == task[c].done
           size == task[c].size
           file == local[c][task[c].name]
           block == LocalBlock(c)
<1>1. /\ cpc[c] = "putdata" /\ UNCHANGED <<local, spc, job>>
      /\ ClientSends(c, block) /\ Carry(c, "putdata", done + Len(block), size, "put")
  BY DEF PutPart, serverVars
<1>2. /\ done \in Nat /\ size \in Nat /\ size \in Lengths /\ done < size /\ done <= size
      /\ file \in Seq(Byte) /\ task[c].name \in Names
  BY <1>1, TransferTypes DEF TaskSizes, IInv, TaskNamed
<1>3. block \in Seq(Byte) /\ Coming(block, done, size, file) /\ done + Len(block) \in Nat
  <2>1. /\ NextBlock(file, done, size) \in Seq(Byte)
        /\ Coming(NextBlock(file, done, size), done, size, file)
    BY <1>2, ComingBlock
  <2>2. block = NextBlock(file, done, size)
    BY DEF LocalBlock
  <2>3. done + Len(block) \in Nat
    BY <1>2, <2>1, <2>2
  <2> QED
    BY <2>1, <2>2, <2>3
<1>4. /\ Uploading(c) /\ Len(toServer[c]) + (size - done) = Wanted(c)
      /\ Len(toServer[c]) \in Nat
  BY <1>1, RequestedKinds, ServerTypes DEF InStepAt, Quiet, Asked, Answered, Unsent
<1>5. Uploads(c)
  <2>1. spc[c] # "head"
    <3>1. spc[c] = "head" => Wanted(c) = 0
      BY DEF Wanted
    <3> QED
      BY <1>2, <1>4, <3>1
  <2>2. ~HeadReady(<<>>)
    BY WordFacts, EmptySeq DEF HeadReady
  <2> QED
    BY <1>4, <2>1, <2>2 DEF Uploads, Uploading, Front
<1>6. /\ Sent(c) /\ task[c].name = job[c].name /\ size = Announced(c)
  BY <1>1, <1>5 DEF UpAt, Serving, Whole
<1>7. file = local[c][job[c].name]
  BY <1>6
<1>8. task'[c].name = task[c].name
  BY <1>1, CarryNames
<1> HIDE DEF done, size, file, block
<1>9. toServer'[c] = toServer[c] \o block
  BY <1>1, <1>3, SentFrom DEF Whole
<1>10. done + Wanted(c) = Announced(c) + Len(toServer[c])
  BY <1>2, <1>4, <1>6
<1>11. Sent(c)' /\ Announced(c)' = Announced(c)
  <2>1. Coming(block, done, Announced(c), local[c][job[c].name])
    BY <1>3, <1>6, <1>7
  <2> QED
    BY <1>1, <1>2, <1>3, <1>4, <1>5, <1>6, <1>9, <1>10, <2>1, SentGrows
<1>12. cpc'[c] = "putdata" => task'[c].size = size
  <2>1. CASE done + Len(block) < size
    BY <1>1, <1>2, <1>3, <2>1, CarryTo
  <2>2. CASE ~(done + Len(block) < size)
    BY <1>1, <1>2, <1>3, <2>2, CarryTo
  <2> QED
    BY <2>1, <2>2
<1> QED
  BY <1>1, <1>2, <1>5, <1>6, <1>8, <1>11, <1>12 DEF Uploads

\* The file becomes shorter, but keeps what has been sent of it.
LEMMA UpShorten ==
  ASSUME IInv, TaskSizes, NEW c \in Clients, InStepAt(c), UpAt(c), Whole(c),
         Shorten(c), UNCHANGED serverVars, spc[c] = "putdata" /\ ~torn'[c] => ~torn[c]
  PROVE  /\ Uploads(c)' => Sent(c)'
         /\ task'[c].name = job'[c].name /\ task'[c].size = Announced(c)'
<1> DEFINE done == task[c].done
           size == task[c].size
           file == local[c][job[c].name]
           left == SubSeq(file, 1, done)
<1>1. /\ cpc[c] = "putdata" /\ UNCHANGED <<connVars, serverVars, task, cpc>>
      /\ local' = [local EXCEPT ![c][task[c].name] = SubSeq(@, 1, done)]
  BY DEF Shorten
<1>2. task[c].name = job[c].name /\ size = Announced(c) /\ task[c].name \in Names
  BY <1>1 DEF UpAt, IInv, TaskNamed
<1>3. Announced(c)' = Announced(c) /\ Path(c)' = Path(c) /\ Uploads(c)' = Uploads(c)
  BY <1>1 DEF Announced, Path, Uploads, connVars, serverVars
<1>4. /\ done \in Nat /\ size \in Nat /\ done < size /\ file \in Seq(Byte) /\ done <= Len(file)
  BY <1>1, <1>2, TransferTypes DEF TaskSizes, IInv, TaskNamed
<1>5. local'[c][job'[c].name] = left
  BY <1>1, <1>2, ClientTypes DEF serverVars
<1>6. left \in Seq(Byte) /\ Len(left) = done
  BY <1>4, SubSeqProperties
<1>7. ASSUME Uploads(c) PROVE Sent(c)'
  <2>1. Sent(c)
    BY <1>7 DEF UpAt, Serving, Whole
  <2>2. /\ Uploading(c) /\ Len(toServer[c]) + (size - done) = Wanted(c)
        /\ toServer[c] \in Seq(Byte) /\ Len(toServer[c]) \in Nat
    BY <1>1, RequestedKinds, ServerTypes DEF InStepAt, Quiet, Asked, Answered, Unsent
  <2>3. Len(left) <= Announced(c)
    BY <1>2, <1>4, <1>6
  <2>4. CASE spc[c] = "putdata"
    <3>1. /\ size = job[c].size /\ Wanted(c) = job[c].size - job[c].done
          /\ job[c].size \in Nat /\ job[c].done \in Nat
      BY <1>2, <2>4, ServerTypes, WordFacts DEF Announced, Wanted, Transfers
    <3>2. job[c].done + Len(toServer[c]) = done /\ job[c].done <= done
      <4>1. Len(toServer[c]) + (job[c].size - done) = job[c].size - job[c].done
        BY <2>2, <3>1
      <4>2. done = job[c].done + Len(toServer[c])
        BY <1>4, <2>2, <3>1, <4>1, AheadOfStored
      <4>3. job[c].done <= job[c].done + Len(toServer[c])
        BY <2>2, <3>1
      <4> QED
        BY <4>2, <4>3
    <3>3. /\ Coming(toServer[c], job[c].done, size, file)
          /\ ~torn[c] => Len(files[Path(c)]) = job[c].done /\ Begins(files[Path(c)], file)
      BY <1>2, <2>1, <2>4 DEF Sent
    <3>4. files[Path(c)] \in Seq(Byte)
      BY <2>4, OpenedFile
    <3> HIDE DEF done, size, file
    <3>5. Coming(toServer[c], job[c].done, size, left)
      <4>1. job[c].done + Len(toServer[c]) <= done /\ size \in Int
        BY <1>4, <3>2
      <4> QED
        BY <1>4, <2>2, <3>1, <3>3, <4>1, ComingCut
    <3>6. ~torn[c] => Begins(files[Path(c)], left)
      BY <1>4, <3>2, <3>3, <3>4, BeginsCut
    <3> HIDE DEF left
    <3> QED
      BY <1>1, <1>2, <1>3, <1>5, <1>6, <2>3, <2>4, <3>3, <3>5, <3>6
      DEF Sent, connVars, serverVars, size
  <2>5. CASE spc[c] = "puthead"
    <3> DEFINE data == Rest(toServer[c], HEADER_LENGTH)
    <3>1. Front(toServer[c], File_DATA) /\ HeadReady(toServer[c])
      BY <2>2, <2>5 DEF Uploading, Front
    <3>2. ReadHead(toServer[c]).length \in Nat /\ HEADER_LENGTH <= Len(toServer[c])
      BY <2>2, <3>1, ReadHeadType, WordFacts DEF HeadReady, HeaderType
    <3>3. size = ReadHead(toServer[c]).length - HEADER_LENGTH
          /\ Wanted(c) = ReadHead(toServer[c]).length
      BY <1>2, <2>5, <3>1 DEF Announced, Wanted
    <3>4. data \in Seq(Byte) /\ Len(data) = Len(toServer[c]) - HEADER_LENGTH
      BY <2>2, <3>2, RestFacts, WordFacts
    <3>5. 0 + Len(data) <= done
      <4>1. HEADER_LENGTH \in Nat
        BY WordFacts
      <4>2. Len(toServer[c]) + ((ReadHead(toServer[c]).length - HEADER_LENGTH) - done)
              = ReadHead(toServer[c]).length
        BY <2>2, <3>3
      <4>3. done = Len(toServer[c]) - HEADER_LENGTH
        BY <1>4, <2>2, <3>2, <4>1, <4>2, AheadOfHead
      <4>4. 0 + Len(data) = Len(data) /\ Len(data) <= Len(data)
        BY <3>4
      <4> QED
        BY <3>4, <4>3, <4>4
    <3>6. Coming(data, 0, size, file)
      BY <1>2, <2>1, <2>5 DEF Sent
    <3> HIDE DEF done, size, file, data
    <3>7. Coming(data, 0, size, left)
      <4>1. size \in Int
        BY <1>4
      <4> QED
        BY <1>4, <3>4, <3>5, <3>6, <4>1, ComingCut
    <3> HIDE DEF left
    <3> QED
      BY <1>1, <1>2, <1>3, <1>5, <1>6, <2>3, <2>5, <3>1, <3>7
      DEF Sent, connVars, serverVars, size, data
  <2> QED
    BY <1>7, <2>4, <2>5 DEF Uploads
<1> QED
  BY <1>1, <1>2, <1>3, <1>7 DEF serverVars

\* The client stays in step.
LEMMA UpInStep ==
  ASSUME LengthsFit, IInv, TaskSizes, NEW c \in Clients, InStepAt(c), InStepAt(c)', UpAt(c),
         told[c] # "none" => cpc[c] = "prompt", ClientTurn(c), Whole(c)'
  PROVE  UpAt(c)'
<1>0. /\ Program(c) \/ User(c) \/ Kill(c) \/ Shorten(c)
      /\ UNCHANGED serverVars /\ Note(c)
  BY DEF ClientTurn
<1>1. /\ UNCHANGED <<spc, job, cwd, files>> /\ Whole(c) /\ copen'[c]
      /\ ~BadReply(c) /\ ~ReadFailed(c)
  <2>1. Whole(c) /\ ~ReadFailed(c)
    BY <1>0, WasWhole
  <2>2. ~BadReply(c)
    BY <2>1, ReplyMet DEF BadReply
  <2> QED
    BY <1>0, <2>1, <2>2 DEF serverVars, Whole
<1>2. spc[c] = "putdata" /\ ~torn'[c] => ~torn[c]
  BY <1>0, TornNoted
<1>3. /\ told'[c] = "put" => GotPut(c) \/ PutPart(c)
      /\ cpc'[c] = "putdata" => GotPut(c) \/ PutPart(c) \/ Shorten(c)
      /\ cpc'[c] = "put" => Put(c)
      /\ toServer'[c] = toServer[c] \/ Command(c) \/ GotPut(c) \/ PutPart(c)
      /\ local'[c] = local[c] \/ GetStart(c) \/ GetPart(c) \/ Shorten(c)
  BY <1>0, UploadSteps
<1>4. ~(cpc'[c] = "put" /\ Answered(c)')
  <2> SUFFICES ASSUME cpc'[c] = "put", Answered(c)' PROVE FALSE
    OBVIOUS
  <2>1. Put(c) /\ UNCHANGED toClient /\ cpc[c] = "prompt"
    BY <1>3 DEF Put, IssueName
  <2>2. toClient[c] = <<>>
    BY <1>1, <2>1, RequestedKinds DEF InStepAt, Quiet, Asked, Answered
  <2>3. HeadReady(toClient'[c])
    BY DEF Answered, Front
  <2> QED
    BY <2>1, <2>2, <2>3, WordFacts, EmptySeq DEF HeadReady
<1>5. ASSUME GotPut(c) PROVE UpAt(c)'
  BY <1>0, <1>1, <1>4, <1>5, UpGotPut DEF UpAt, Uploads
<1>6. ASSUME PutPart(c) PROVE UpAt(c)'
  BY <1>0, <1>1, <1>2, <1>4, <1>6, UpPutPart DEF UpAt
<1>7. ASSUME ~GotPut(c), ~PutPart(c) PROVE UpAt(c)'
  <2>1. told'[c] # "put"
    BY <1>3, <1>7
  <2>2. cpc'[c] = "putdata" => task'[c].name = job'[c].name /\ task'[c].size = Announced(c)'
    BY <1>0, <1>1, <1>2, <1>3, <1>7, UpShorten
  <2>3. ASSUME Uploads(c)' PROVE Sent(c)'
    <3>1. CASE Command(c)
      BY <1>0, <1>1, <1>2, <2>3, <3>1, UpCommand
    <3>2. CASE Shorten(c)
      BY <1>0, <1>1, <1>2, <2>3, <3>2, UpShorten
    <3>3. CASE ~Command(c) /\ ~Shorten(c)
      <4>1. toServer'[c] = toServer[c]
        BY <1>3, <1>7, <3>3
      <4>2. Uploads(c) /\ Sent(c)
        BY <1>1, <2>3, <4>1 DEF Uploads, UpAt, Serving, Whole
      <4>3. ~GetStart(c) /\ ~GetPart(c)
        <5>1. ~Answered(c)
          BY <4>2 DEF Uploads, Answered, FileComes, ShaComes
        <5>2. cpc[c] \notin {"gethead", "getdata"}
          BY <1>1, <5>1, RequestedKinds DEF InStepAt, Quiet, Asked
        <5> QED
          BY <5>2 DEF GetStart, GetPart, Replied
      <4>4. local'[c] = local[c]
        BY <1>3, <3>3, <4>3
      <4> QED
        BY <1>1, <1>2, <2>3, <4>1, <4>2, <4>4, SentStays
    <3> QED
      BY <3>1, <3>2, <3>3
  <2> QED
    BY <1>1, <1>4, <2>1, <2>2, <2>3 DEF UpAt
<1> QED
  BY <1>5, <1>6, <1>7

LEMMA UpClient ==
  ASSUME LengthsFit, IInv, TaskSizes, NEW c \in Clients, InStepAt(c), InStepAt(c)', UpAt(c),
         NoSlips => slip[c] = {},
         told[c] # "none" => cpc[c] = "prompt", ClientTurn(c)
  PROVE  UpAt(c)'
<1>0. /\ Program(c) \/ User(c) \/ Kill(c) \/ Shorten(c)
      /\ UNCHANGED serverVars /\ Note(c) /\ UNCHANGED sopen
  BY ClientApart DEF ClientTurn
<1>1. told'[c] = "put" => task'[c].name \in Names
  <2> SUFFICES ASSUME told'[c] = "put" PROVE task'[c].name \in Names
    OBVIOUS
  <2>1. GotPut(c) \/ PutPart(c)
    BY <1>0, UploadSteps
  <2>2. task[c].name \in Names
    BY <2>1 DEF GotPut, PutPart, Replied, IInv, TaskNamed
  <2>3. task'[c].name = task[c].name
    BY <2>1, CarryNames DEF GotPut, PutPart
  <2> QED
    BY <2>2, <2>3
<1>2. CASE Whole(c)'
  BY <1>2, UpInStep
<1>3. CASE ~Whole(c)' /\ ~Serving(c)'
  BY <1>1, <1>3 DEF UpAt
<1>4. CASE ~Whole(c)' /\ Serving(c)'
  <2>1. ~copen'[c] /\ NoSlips /\ sopen[c]
    BY <1>0, <1>4 DEF Serving, Whole
  <2>2. toServer'[c] = toServer[c] /\ local'[c] = local[c]
    BY <1>0, <2>1, ClosesQuietly
  <2>3. Serving(c)
    BY <2>1 DEF Serving
  <2>4. UNCHANGED <<spc, job, cwd, files>>
    BY <1>0 DEF serverVars
  <2>5. ASSUME Uploads(c)' PROVE Sent(c)'
    <3>1. Uploads(c) => Sent(c)
      BY <2>3 DEF UpAt
    <3>2. spc[c] = "putdata" /\ ~torn'[c] => ~torn[c] /\ files'[Path(c)] = files[Path(c)]
      BY <1>0, <2>4, TornNoted
    <3> QED
      BY <2>2, <2>4, <2>5, <3>1, <3>2, SentStays
  <2>6. OneRequest(c)
    <3>1. CASE copen[c]
      <4>1. Whole(c)
        BY <2>1, <3>1 DEF Whole
      <4> QED
        BY <4>1, OneLeft
    <3>2. CASE ~copen[c]
      BY <2>3, <3>2 DEF UpAt
    <3> QED
      BY <3>1, <3>2
  <2>7. OneRequest(c)'
    BY <2>2, <2>4, <2>6, OneStays
  <2> QED
    BY <1>1, <1>4, <2>5, <2>7 DEF UpAt
<1> QED
  BY <1>2, <1>3, <1>4

LEMMA StepUp ==
  /\ LengthsFit /\ StepInv /\ StepInv' /\ Down /\ DirAgrees /\ (NoSlips => Sound) /\ Up
  /\ [Next]_vars
  => Up'
<1> SUFFICES ASSUME LengthsFit, StepInv, StepInv', Down, DirAgrees, NoSlips => Sound, Up,
                    [Next]_vars, NEW d \in Clients
             PROVE  UpAt(d)'
  BY DEF Up
<1>0. /\ IInv /\ TaskSizes /\ InStepAt(d) /\ InStepAt(d)' /\ DirAgreesAt(d) /\ UpAt(d)
      /\ told[d] # "none" => cpc[d] = "prompt"
      /\ NoSlips => slip[d] = {}
  BY DEF StepInv, Sizes, InStep, DirAgrees, Up, Down, DownAt, Sound, SoundAt
<1>1. CASE UNCHANGED vars
  BY <1>0, <1>1 DEF vars, connVars, serverVars, clientVars, UpAt, Whole, Answered, FileComes,
     ShaComes, Owed, Announced, Serving, Uploads, Sent, Path, OneRequest, Wanted
<1>2. ASSUME NEW c \in Clients, Turn(c) PROVE UpAt(d)'
  <2>0. Note(c)
    BY <1>2, TurnIs DEF Dial, ThreadTurn, ClientTurn
  <2>1. CASE Dies(c)
    <3>1. ThreadTurn(c)
      <4>1. up /\ ~up'
        BY <1>0, <2>1 DEF Dies, BrokenPipe, PathThrows, CallThrows, Terminate, Sending,
           Blocks, Request, IInv, EveryEndOwned
      <4> QED
        BY <1>2, <4>1, TurnIs DEF Dial, Backlog, ClientTurn, serverVars
    <3>2. ~sopen'[d] /\ UNCHANGED <<task, told>>
      BY <1>0, <2>1, <3>1, HangupEnds DEF Dies, BrokenPipe, PathThrows, CallThrows,
         Terminate, ThreadTurn, clientVars
    <3> QED
      BY <1>0, <3>2 DEF UpAt, Whole, Serving
  <2>2. CASE ~Dies(c) /\ d # c
    <3>1. Apart(c) /\ told'[d] = told[d]
      BY <1>0, <1>2, <2>2, TurnApart, ToldApart
    <3> QED
      BY <1>0, <2>0, <2>2, <3>1, UpApart
  <2>3. CASE d = c /\ Dial(c)
    BY <1>0, <2>3, UpDial
  <2>4. CASE ~Dies(c) /\ d = c /\ ThreadTurn(c)
    BY <1>0, <2>4, UpThread
  <2>5. CASE d = c /\ ClientTurn(c)
    BY <1>0, <2>5, UpClient
  <2> QED
    BY <1>2, <2>1, <2>2, <2>3, <2>4, <2>5, TurnIs
<1> QED
  BY <1>1, <1>2 DEF Next, Turn

LEMMA UpInvariant == LengthsFit => (Spec => []Up)
<1> SUFFICES ASSUME LengthsFit PROVE Spec => []Up
  OBVIOUS
<1>1. Init => Up
  BY DEF Init, ConnInit, ServerInit, ClientInit, Up, UpAt, Whole, Serving
<1>2. Spec => []StepInv
  BY StepInvariant
<1>3. Spec => []Down
  BY DownInvariant
<1>4. Spec => []DirAgrees
  BY DirInvariant
<1>5. CASE NoSlips
  <2>1. Sound /\ StepInv /\ StepInv' /\ Down /\ DirAgrees /\ Up /\ [Next]_vars => Up'
    BY StepUp
  <2>2. Spec => []Sound
    BY <1>5, SoundInvariant
  <2> QED
    BY <1>1, <1>2, <1>3, <1>4, <2>1, <2>2, PTL DEF Spec
<1>6. CASE ~NoSlips
  <2>1. StepInv /\ StepInv' /\ Down /\ DirAgrees /\ Up /\ [Next]_vars => Up'
    BY <1>6, StepUp
  <2> QED
    BY <1>1, <1>2, <1>3, <1>4, <2>1, PTL DEF Spec
<1> QED
  BY <1>5, <1>6

(***************************************************************************)
(* As long as lengths fit their fields, "uploaded successfully" has come   *)
(* true when the thread waits for the next request of a client in step,    *)
(* unless another thread has written the file since.                       *)
(***************************************************************************)
THEOREM PromiseAlwaysKept == LengthsFit => (Spec => []PromiseKept)
<1> SUFFICES ASSUME LengthsFit PROVE Spec => []PromiseKept
  OBVIOUS
<1>1. Down /\ DirAgrees /\ Up => PromiseKept
  <2> SUFFICES ASSUME Down, DirAgrees, Up, NEW c \in Clients,
                      told[c] = "put", Whole(c), spc[c] = "head", ~torn[c]
               PROVE  files[<<where[c], task[c].name>>] = local[c][task[c].name]
    BY DEF PromiseKept
  <2>1. cpc[c] = "prompt" /\ where[c] = cwd[c]
    BY DEF Down, DownAt, DirAgrees, DirAgreesAt
  <2> QED
    BY <2>1 DEF Up, UpAt
<1>2. Spec => []Down
  BY DownInvariant
<1>3. Spec => []DirAgrees
  BY DirInvariant
<1>4. Spec => []Up
  BY UpInvariant
<1> QED
  BY <1>1, <1>2, <1>3, <1>4, PTL

\* The step that ends an upload.
LEMMA StepStores ==
  ASSUME IInv, TaskSizes, NEW a \in Clients, Turn(a), NEW c \in Clients,
         InStepAt(c), UpAt(c), NoSlips,
         spc[c] \in {"puthead", "putdata"}, spc'[c] = "head", slip[c] = {}, ~torn'[c]
  PROVE  files'[Path(c)] = local[c][job[c].name]
<1>1. a = c /\ ThreadTurn(c)
  <2>1. ~Dies(a)
    BY HangupEnds DEF Dies, BrokenPipe, PathThrows, CallThrows, Terminate, Hangup
  <2>2. a = c
    BY <2>1, TurnApart DEF Apart
  <2> QED
    BY <2>2, TurnIs DEF Dial, Backlog, ClientTurn, serverVars
<1>2. ~Hangup({c}) /\ ~Hangup(Clients)
  BY DEF Hangup
<1>3. PutOpen(c) \/ PutBlock(c)
  <2>1. ~Sending(c)
    BY DEF Sending, Request
  <2> QED
    BY <1>1, <1>2, <2>1, ThreadKinds DEF ThreadTurn
<1>4. Serving(c) /\ UNCHANGED <<clientVars, copen>> /\ Note(c)
  <2>1. sopen[c]
    BY DEF IInv, EveryEndOwned
  <2> QED
    BY <1>1, <1>3, <2>1 DEF Serving, ThreadTurn, PutOpen, PutBlock
<1>5. CASE PutOpen(c)
  BY <1>4, <1>5, UpPutOpen
<1>6. CASE PutBlock(c)
  <2>1. ~torn[c]
    BY <1>4, <1>6, TornNoted DEF PutBlock
  <2> QED
    BY <1>4, <1>6, <2>1, UpPutBlock
<1> QED
  BY <1>3, <1>5, <1>6

(***************************************************************************)
(* As long as lengths fit their fields and no client has a way out of      *)
(* step, an upload that its thread takes to the end leaves the client's    *)
(* file on the server, also when the client has gone away meanwhile.       *)
(***************************************************************************)
THEOREM UploadAlwaysStored == LengthsFit /\ NoSlips => (Spec => UploadStored)
<1> SUFFICES ASSUME LengthsFit, NoSlips PROVE Spec => UploadStored
  OBVIOUS
<1>1. StepInv /\ Up /\ [Next]_vars =>
        [\A c \in Clients :
           /\ spc[c] \in {"puthead", "putdata"} /\ spc'[c] = "head"
           /\ slip[c] = {} /\ ~torn'[c]
           => files'[Path(c)] = local[c][job[c].name]]_vars
  <2> SUFFICES ASSUME StepInv, Up, Next, NEW c \in Clients,
                      spc[c] \in {"puthead", "putdata"}, spc'[c] = "head",
                      slip[c] = {}, ~torn'[c]
               PROVE  files'[Path(c)] = local[c][job[c].name]
    OBVIOUS
  <2>1. PICK a \in Clients : Turn(a)
    BY DEF Next, Turn
  <2> QED
    BY <2>1, StepStores DEF StepInv, Sizes, InStep, Up
<1>2. Spec => []StepInv
  BY StepInvariant
<1>3. Spec => []Up
  BY UpInvariant
<1> QED
  BY <1>1, <1>2, <1>3, PTL DEF Spec, UploadStored
=============================================================================
