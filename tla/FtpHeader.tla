------------------------------ MODULE FtpHeader ------------------------------
(***************************************************************************)
(* The header codec of lab1: the Create_ and Is_ functions of define.cpp.  *)
(* A header is 12 bytes on the wire; a record stands for one whose magic   *)
(* number is right.  Each kind of message has a row that says what its     *)
(* Create_ function writes and what its Is_ function demands.  Lengths are *)
(* uint32_t: they wrap at WORD.                                            *)
(***************************************************************************)
EXTENDS Integers

CONSTANTS
  HEADER_LENGTH,   \* bytes of a header, 12 in the code
  WORD             \* the values of a length, 2^32 in the code

ASSUME HeaderAssumption == HEADER_LENGTH \in Nat \ {0}
ASSUME WordAssumption   == WORD \in Nat /\ HEADER_LENGTH + 1 < WORD

Lengths == 0..(WORD - 1)

\* What an Is_ function demands of the status: nothing, or one of a set.
AnyStatus == 0..255

\* A message that is only a header.
Bare(type, statuses) ==
  [type |-> type, statuses |-> statuses, bare |-> TRUE, nul |-> 0]

\* A message with a payload, and nul = 1 if a final NUL is counted with it.
WithPayload(type, nul) ==
  [type |-> type, statuses |-> AnyStatus, bare |-> FALSE, nul |-> nul]

OPEN_CONN_REQUEST  == Bare(161, AnyStatus)
OPEN_CONN_REPLY    == Bare(162, {1})
LIST_REQUEST       == Bare(163, AnyStatus)
LIST_REPLY         == WithPayload(164, 1)
CHANGE_DIR_REQUEST == WithPayload(165, 1)
CHANGE_DIR_REPLY   == Bare(166, {0, 1})
GET_REQUEST        == WithPayload(167, 1)
GET_REPLY          == Bare(168, {0, 1})
PUT_REQUEST        == WithPayload(169, 1)
PUT_REPLY          == Bare(170, AnyStatus)
SHA_REQUEST        == WithPayload(171, 1)
SHA_REPLY          == Bare(172, {0, 1})
QUIT_REQUEST       == Bare(173, AnyStatus)
QUIT_REPLY         == Bare(174, AnyStatus)
File_DATA          == WithPayload(255, 0)

\* The requests Handler of ftp_server.cpp switches on.
Requests ==
  {OPEN_CONN_REQUEST, LIST_REQUEST, CHANGE_DIR_REQUEST, GET_REQUEST,
   PUT_REQUEST, SHA_REQUEST, QUIT_REQUEST}

Replies ==
  {OPEN_CONN_REPLY, LIST_REPLY, CHANGE_DIR_REPLY, GET_REPLY, PUT_REPLY,
   SHA_REPLY, QUIT_REPLY}

Kinds == Requests \cup Replies \cup {File_DATA}

HeaderType == [type : 0..255, status : AnyStatus, length : Lengths]

\* Mutant: the NUL is not counted.
CreateNoNul(kind, status, payload_length) ==
  [type |-> kind.type, status |-> status,
   length |-> (HEADER_LENGTH + payload_length) % WORD]

\* The header that announces payload_length bytes, without the NUL.
Create(kind, status, payload_length) ==
  [type |-> kind.type, status |-> status,
   length |-> (HEADER_LENGTH + payload_length + kind.nul) % WORD]

Is(kind, header) ==
  /\ header.type = kind.type
  /\ header.status \in kind.statuses
  /\ IF kind.bare THEN header.length = HEADER_LENGTH
                  ELSE header.length >= HEADER_LENGTH + kind.nul

\* What a reader takes for the length of the payload, NUL included.
PayloadLength(header) == (header.length - HEADER_LENGTH) % WORD

\* What 12 bytes are that are not one header: no Is_ function accepts them.
NotAHeader == [type |-> 0, status |-> 0, length |-> 0]
=============================================================================
