# CSNet in TLA+

A verification project for the two network programs of this repository:

* `src/lab2`: **RTP**, a file transfer over UDP: `sender.c` and `receiver.c`
  open a connection with a three-way handshake, move a file with Go-Back-N
  (mode 0) or selective repeat (mode 1), and close with a FIN exchange.
* `src/lab1`: **FTP**, a file server over TCP with a thread per client and a
  command-line client.

## Inventory

| Part | State | Operations | What is hard | What makes it correct |
|---|---|---|---|---|
| Sequence numbers and slots (`next_seq`, `in_window`, `% MAX_WINDOW_SIZE`; both programs) | none | one step, window test, slot of a number | the wrap at `SEQ_MAX`; 20001 slots do not divide `SEQ_MAX + 1` | the window test is circular distance; packets of one window have different slots |
| Opening (`ConnectSocket`, both) | tries, `random_x`, the address of the SYN | send SYN / SYN+ACK / final ACK, check, time out, give up | every packet costs a try whatever it is; the sender learns of the last step only by 2 s of silence; the receiver may already be in its data loop | both ends count from one number; both handshakes end; who is connected has a peer that is |
| Sender's loop (`Send_with_GBN`, `Send_with_SR`) | `Sender_State_t` (base, nextseqnum, window, acked), `input_eof`, a one-shot timerfd | fill the window, `epoll_wait`, timer event, ACK event | both events in one batch, in either order; stale ACKs; stale marks | window, timer and buffer agree with what is outstanding |
| Receiver's loop (`Receive_with_GBN`, `Receive_with_SR`) | next expected number; in mode 1 a ring of early packets and their marks | take, keep, drop, acknowledge, write in order | duplicates and handshake packets among the data; slots used again | the file is written in order, each chunk once |
| Closing (`CloseConnection`, both) | tries | FIN, FIN+ACK, linger 2 s | late ACKs instead of FIN+ACKs; the last FIN+ACK may be lost | the sender reports success only of a complete file |
| UDP | packets under way | deliver, lose, double, damage, reorder | | |
| Checksum, logging (`util.c`, `util.h`) | none | CRC-32; `LOG_FATAL` exits | | |
| Tests (`test.cpp`) | | start both programs, compare the files | | its criterion is the abstract specification |
| FTP header codec (`define.h`, `define.cpp`) | none | build and recognise 15 kinds of header | lengths in 32 bits, with or without the final NUL | what one side builds the other recognises, with the same length |
| FTP server (`ftp_server.cpp`) | a thread per connection with its own directory; files shared | OPEN, LS, CD, GET, PUT, SHA, QUIT | threads on the same file, failing half-way, closed sockets | each reply is a whole message; files are not mixed up |
| FTP client (`ftp_client.cpp`) | socket, server name | the same commands | leaving unread bytes behind, failing half-way | the byte stream stays in step with the server |

The parts of RTP interact only by packets; the two programs share nothing. In
each program everything runs in one thread, so the interleavings are those of
the sender, the receiver, the timers and the network. In FTP each client is a
process of one thread and each connection has a thread of the server; the
threads share the file system and the life of the process, nothing else
(`cwd` is a local variable of `Handler`). A client and its thread interact only
by the two byte streams of their connection, which know nothing of messages.

The hazards are listed in `PROJECT.json`, each at the line where it bites,
with the properties aimed at it.

## Modules

```
RtpSeq  <-  RtpPacket  <-  RtpTransfer  <-  RtpGBN   (implements FileTransfer)
                       <-               <-  RtpSR    (implements FileTransfer)
                       <-  RtpConnect
                     RtpMain: the mode picks RtpGBN or RtpSR

FtpHeader  <-  FtpConn  <-  FtpServer  <-  Ftp  <-  MCFtp
                        <-  FtpClient  <-
                     FtpFiles: under both programs

Proofs:  RtpSeqProofs  <-  MCRtpSeqProofs  (and MCRtpSeq)
                       <-  RtpTransferProofs  <-  RtpGBNProofs  (and RtpGBN)
                                              <-  RtpSRProofs   (and RtpSR)
         RtpConnectProofs  (over RtpConnect)
         FtpProofs  (over Ftp)  <-  FtpStepProofs
```

RTP (`src/lab2`):

* **RtpSeq** has the arithmetic: `next_seq`, `in_window` as the code has them,
  `Slot`, and the definitions they are measured with (`Offset`, `SlotSafe`).
* **RtpPacket** has the packets. A packet is its flags, its number, its chunk
  and one bit `intact` for the checksum and the length check. Chunk *i* of the
  file is the number *i*; 0 is no payload.
* **RtpConnect** is the handshake: one action per send, receive, timeout and
  surrender of the two `ConnectSocket` functions. A receiver that is connected
  already answers what still comes in the way its data loop does
  (`AnswerInDataLoop`). `overdue` notes whose wait of 100 ms has seen a packet
  lost: on a timely network that wait runs out by its own clock, before or after
  the other end's next packet (see "Timely networks"). The network is a bag, because copies matter: each one
  costs a try. `EarlierISN` puts packets of a crashed sender on the way.
* **RtpTransfer** is what the modes share: `FillChunk`, `FillEnd`, the
  `epoll_wait` (`PollEvents`: any non-empty batch of what is ready, in either
  order; `PollTimeout`: 200 ms), the timerfd (`off`, `armed`, `expired`), the
  FIN exchange, and the ways the programs end. `spc` and `rpc` say where each
  program is; the comments there give the lines.
* **RtpGBN** and **RtpSR** add the handlers of timer, ACK and data. In RtpSR
  the two `while` loops over the `acked` arrays take a step a round (`sweep`,
  `write`), so that nothing is assumed of where they stop.
* **FileTransfer** is the promise to the user, taken from the two `main`s'
  exit codes and from `run_tests`: output grows in order, the receiver is
  complete only with the whole file, the sender succeeds only after that.
* **RtpMain** is the choice of the mode in the two `main`s: either transfer,
  with the fairness of both.
* **RtpSeqProofs**, **MCRtpSeqProofs**, **RtpConnectProofs**, **RtpGBNProofs**
  and **RtpSRProofs** hold the theorems, **RtpTransferProofs** the lemmas that
  the two modes share; **MCRtpSeq**, **MCRtpGBN**, **MCRtpSR** hold a driver and
  claims that runs refute.

FTP (`src/lab1`):

* **FtpHeader** is `define.cpp`: one row per pair of `Create_`/`Is_` functions
  with its type byte, the status it demands, whether it is only a header and
  whether it counts a final NUL; `Create`, `Is` and `PayloadLength` do what the
  rows say, lengths modulo `WORD`. A record stands for 12 bytes with the right
  magic number, `NotAHeader` for any other 12 bytes.
* **FtpConn** is the connection: a bounded stream of bytes each way and two
  ends. `HeaderBytes`/`ReadHead` are `Write_Head`/`Read_Head`: the reader takes
  whatever bytes come next, and they are a header only if they are all the
  bytes of one. `Connect`, `ServerCloses`, `ClientCloses` are the calls'
  effects; a `send` to a closed end is lost and noted in `broken`, or fails, or
  raises SIGPIPE, as actions of the two programs.
* **FtpFiles** is the file system as the calls use it: a file is its bytes;
  `NextBlock` is the loops' `fread` of what the file holds *now*, `WriteAt` the
  `fwrite` of a program at its own offset.
* **FtpServer**: `spc[c]` says where `c`'s thread is. A request whose handler
  answers and returns is one action (`HandleOpen`, `HandleList`, `HandleCd`,
  `HandleQuit`); GET, PUT and SHA stop where another process can act: after the
  reply (`HandleFile`, `HandlePut`), at the opening of the file (`GetOpen`,
  `PutOpen`), at each block (`GetBlock`, `PutBlock`). Every `return -1` leads to
  `Hangup`: `Refuse`, `ReadFails`, `SendFails`, `GetShort`, `PutRefused`,
  `CallFails`. Two things end the process, and every connection with it
  (`Terminate`): SIGPIPE at a `send` (`BrokenPipe`), and an exception of
  `std::filesystem`, which nothing catches in a thread. `exists`,
  `is_directory`, `is_regular_file`, `canonical` and `current_path` throw for a
  path they may not look at, a loop of links, a name too long. `Blocked` is the
  set of such paths: CD, GET and SHA of one of them are `PathThrows`, and
  `CallThrows` is an exception for a reason of the moment, whatever the path.
  PUT asks none of these functions: its `fopen` fails (`PutRefused`).
* **FtpClient**: `cpc[c]` is `prompt`, or the reply or data a handler waits for.
  An action sends a request (`Ls`, `Cd`, `Get`, `Put`, `Sha`, `Quit`, `Open`) or
  takes a reply, a part of the data, or a failure. `slip[c]` is a history of the
  three ways the client leaves bytes of a connection unread or unsent: `sha`,
  `localopen` (GET cannot open the local file), `localread` (PUT's file gets
  shorter while it is sent).
* **Ftp** joins them. `view` (what a GET opened), `torn` (another thread changed
  the file under a transfer, or the one whose upload the user was told of:
  `Watched`) and `after` are history and bound only; no action
  depends on the first two.
* **MCFtp** has the small file systems; **FtpProofs** the theorems about the
  header codec, the types and the ends of connections, **FtpStepProofs** those
  that need the two programs to be in step.

Definitions preceded by "Mutant:" are wrong versions of the
definition that follows; the project checks that each property notices one.

### Abstractions

* The network of the transfer is a *set* of packets: two copies of the same
  packet are one until it is delivered, and with `duplicate` a delivered
  packet may stay. Nothing in the data loops counts copies. The sender's
  `CloseConnection` does (a try each); see "Not modelled".
* A resend of a window is one action: the sends of the loop at
  `sender.c:370-377` interleave with nothing in the sender, and the receiver
  may take the packets in any order in any case.
* A damaged packet is `Garbled`, whatever it was: both programs test the
  checksum before they look at the rest.
* The transfer begins when both ends are connected. With `StaleHandshake`,
  any of the packets `HandsOverCleanly` (RtpConnect) allows may be under way,
  apart from damaged ones (the network can damage them afterwards) and a
  crashed sender's. Data sent while the receiver still waits for the final ACK
  is lost to it.
* `sendto` failing is a lost packet or, in the loops with tries, a lost try.
* `N + WS <= SEQ_MAX` (`NoReuseAssumption`): no number is used twice while an
  old copy may arrive. The real file would need 2^31 packets.
* `WS <= WR` in mode 1: the receiver acknowledges packets beyond its window
  and drops them, so a smaller receiver's window loses data; the programs are
  started with one window (`test.cpp`).
* FTP: a byte of a header is the header and its place in it, a byte of a
  payload a model value. A header has 2 bytes in the runs and a name one byte
  and its NUL; what matters is that a reader can stand between two bytes of a
  header, or of a header and a payload. The sends of a header and of what
  follows are one action: nobody acts between them but the reader, who waits
  for the rest in any case. (SIGPIPE between the two sends is kept:
  `BrokenPipe`, `BrokenPipeKills`.) Parts of a payload arrive in any sizes.
* FTP: `stdio` buffers are a `fwrite` that comes later, which `PutBlock` already
  may. A client's own files change only by its GET, and by another program under
  its PUT (`Shorten`). Clients work in directories of their own. A client that
  has ended does not come back; a new one would be like it.
* FTP: a client connects again when the thread of its last connection has
  ended, so that one connection per client is enough.
* FTP: after a slip a client gives `MaxAfter` more commands: each costs the
  connection a header's worth of bytes or ends it.
* FTP: a command without a connection fails at its first call and changes
  nothing; it is left out. A server named "none", and names and listings that
  do not fit the programs' buffers, are left out too.

## What the runs check

| Run | Shows | Instance |
|---|---|---|
| `rtp_seq` | the arithmetic agrees with circular distance; slot-safe windows have distinct slots; a step of base changes only the ends of the window | circle of 11, 4 slots, so the last lap (3) is not full, as in the code (16281 of 20001) |
| `connect_safety` | the proofs' invariant `IInv`; only an acknowledged receiver is connected; what is handed over; both handshakes end; on a network faster than the timeouts both connect, unless a packet is lost in the waits of both | 3 tries, 2 faults of any kind, packets of a crashed sender, both modes, timely networks and others |
| `gbn_safety` | mode 0: types, `WindowsAgree`, `OutstandingKept`, `TimerCoversWindow`, the proofs' invariant `IInv`, and `FileTransfer` | 3 chunks, window 2, 2 slots, numbers 4, 5, 0 in slots 0, 1, 0: the file crosses the wrap and uses a slot again; every fault but a read error |
| `sr_safety` | mode 1: the same (with the `IInv` of mode 1), and `AckedMeansStored`, `ReceiveBufferSound` | 3 chunks, windows 3, 4 slots, across the wrap; the chunks and the FIN have a slot each |
| `rtp_liveness` | either mode ends under fair loss | 2 chunks, windows 2, across the wrap, read and write errors |
| `ftp_one` | one client, every command: `StepKept` (byte for byte in step until a slip), `EveryEndOwned`, `DirectoryAgreed`, `PromiseKept`; every command returns; no thread outlives its client | directories `/` and `/d`, names `f`, `d`, `..` and `loop`, which the file system does not answer for, a file of 2 bytes and of 1, streams of 6 bytes, blocks of 1; the server's calls fail, the client's `fopen` and `fread` fail, the client is interrupted |
| `ftp_two` | two clients on one file: `DownloadWhole`, `UploadStored`, `PromiseKept`, `HeldOpen`, `ServerSurvives`, `StepKept` | get, put, quit, exit, kill; names `f` and `loop`; files of 1 and 2 bytes, so that each PUT makes the file longer or shorter under the other's transfer, streams of 4 bytes |
| `ftp_sha` | `NothingUnread` does not hold | as `ftp_one`, without faults |
| `gbn_read_error`, `sr_stale_mark`, `sr_stale_handshake`, `connect_ping_pong` | the code does not do what a comment, a message or a test says; see below | smallest instance that shows it |

**Bounds.** In `gbn_safety` the window is smaller than the file, so that it
slides while packets are outstanding, and as long as the ring, so that each new
packet takes the slot of the one just acknowledged. In `sr_safety` and
`rtp_liveness` the window is as long as the file: a window of 3 gives early
packets, holes and sweeps of several rounds, and it still moves, shrinking at
the end of the file, but never to a chunk that had to wait for room. The first
number is chosen so that the file runs over `SEQ_MAX`. `MAXTRY` is 1 in the
transfer (the closing loop starts afresh in each try) and 3 in the
handshake, with at most 2 faults: one fault per loop, or two in one. In mode 1
the file is no longer than the array (`N < MAX_WINDOW_SIZE`): with a longer one
the stale marks of `sr_stale_mark` break every property. The theorems about
mode 0 have no such bounds; those about mode 1 have the last one, except
`SROutstandingAlwaysKept`.

In `ftp_one` a stream of 6 bytes holds a request or a reply with its data and
part of the next, in `ftp_two` one of 4 bytes holds no part of the next, so that
senders do block; a transfer takes one or two blocks, the
second of which another thread may have made wrong or removed. Two clients show
every conflict the server's threads can have, which share only a file and the
process.

`StepKept` is the heart of `ftp_one`: while no slip has happened, at the prompt
nothing is on its way to the client and the thread wants exactly the bytes that
are on their way to it; a client that waits has its request or its reply under
way; a transfer lacks not a byte and has none too many. It fails if any length
on either side counts its NUL differently. `CommandReturns` then says what a
slip cannot do: even out of step, each command comes back (with a refusal, a
closed connection or SIGPIPE), except where the *server* has been left waiting
for data (`localread`): there both sides wait for good.

`EveryEndOwned` is the other side of it: on every way out of a handler, of the
client's as of the server's, in step or out of step, the right end is closed,
and a new connection finds no byte, directory or transfer of the last.

**Timely networks.** `BothConnect` is about a network on which a packet and its
answer take less than 100 ms (`timely`: no `delay`, nothing doubled or left
behind by a crashed sender), the waits of 2 s and 5 s are not eaten up by losses
nor by a sender started late (no `outage`), and which loses or damages fewer
packets than there are tries. There a wait of 100 ms does not run out while the
awaited packet is under way or the other end is about to send it. It does run
out when a packet is lost, and then at any moment: the two ends' waits begin a
packet's way apart, so that either may end first, or while the other end's next
packet is under way. When only one end is in such a wait (a lost SYN, a lost
final ACK) or a packet is damaged (which ends the wait of the end that reads
it), both connect. When both are (a lost SYN+ACK) their retries may cross, and
one loss can cost the connection; `BothConnect` excludes that, and
`connect_ping_pong` shows it.

**Fairness.** In FTP a thread and a client inside a handler go on when they can
(weak fairness of each: they are threads and processes of the system's
scheduler, blocked only in `send` and `recv`, and an action is enabled for good
once its bytes or its room are there, since only the other end adds or takes).
A user need not give a command and no fault need happen. In RTP each program keeps running (weak fairness of its steps: one
thread, no lock) and its timers run down. Losses need not stop, but what is
sent again for ever arrives in the end: strong fairness of receiving the chunk
that is expected, and "if an ACK that moves the window is under way again and
again, one moves it again and again" (`NewAck`). Without that no protocol over
a lossy network ends. The receiver's 5 s and 2 s timeouts fire only when the
sender has stopped and nothing is under way (`SenderSilent`), unless `silence`
is among the faults: 20 to 50 retransmissions fit into them. The liveness runs
leave out `duplicate`: in a set a copy that may stay behind never has to run
out. `TransferEnds` does not promise the sender's end when the receiver gave up
in its data loop: the sender's loop has no bound (`sender.c:294`, `439`). In the
handshake the tries bound everything and weak fairness is enough.

## Where the code departs from what it says

1. **Mode 1, stale marks** (`sr_stale_mark`, `sender.c:541`): with a file of
   more than 20001 packets, the ACK that completes a full window sends `base`
   past `nextseqnum`, and the loop never ends.
2. **Mode 1, stale handshake** (`sr_stale_handshake`, `receiver.c:343`,
   `sender.c:531`): an answer to a second final ACK, or a second SYN+ACK, has
   the number of the first chunk and acknowledges it although it is lost. The
   transfer then hangs on that chunk. Mode 0 is proved immune.
3. **Handshake, ping-pong** (`connect_ping_pong`, `sender.c:147`): one lost
   SYN+ACK is enough, on a network faster than every timeout. Both waits of
   100 ms run out, and a second SYN and a second SYN+ACK cross. The sender takes
   that SYN+ACK and sends the final ACK, which connects the receiver; the second
   SYN, taken after it, is answered by the receiver's data loop. To the sender,
   in its wait of 2 s, any packet means that the final ACK was lost: it sends it
   again, the data loop answers it again, up to the last try; then the sender
   exits although the receiver is connected.
4. **Read errors** (`gbn_read_error`, `sender.c:326`): taken for the end of the
   file; the branch for errors is dead.
5. **FTP, SHA** (`ftp_sha`, `ftp_client.cpp:420`): the client leaves the NUL of
   the value unread, and its next command is refused ("Invalid ...").

Others that no run repeats, as they are plain to see once known:

* `receiver.c:169`, `258`: the receiver's timeout leaves the partial file, since
  `LOG_FATAL` exits before the `unlink` in `main` ("delete the possibly damaged
  file", `receiver.c:397`).
* `sender.c:343` describes an unbounded `epoll_wait` that the code does not have
  and could not afford (the last ACK may come before the end of the file is
  read), and windows above 16281 packets are not slot-safe where they run over
  `SEQ_MAX` (`SlotSafe`).
* `ftp_client.cpp:131` receives every part of a listing at offset 0, so that a
  listing in parts is shown as its last part.
* `ftp_client.cpp:367` reports an upload before the server has stored it;
  `PromiseKept` and `UploadStored` say when it does come true.
* `ftp_server.cpp:38`, `113`, `115`, `159`, `311`, `397`: nothing catches the
  exceptions of `std::filesystem` in a thread, so that a `cd` or `get` of a path
  it may not look at, of a loop of links or of a name that is too long ends the
  server for every client (`PathThrows`; `ServerSurvives` names it among the
  steps that may).
* `ftp_client.cpp:531`: a client whose server has closed can neither quit nor
  open again.

## What is proved

Every safety invariant and every action property of the passing runs is also a
theorem, for every value of the constants under the named ASSUMEs: no bound on
the file, the window, the slots, the tries, the faults, or on the number of
clients, their files, streams and blocks. Where a theorem has a hypothesis, it
is a formula over the constants, named in the proof module and given below with
the reason for it.

| Module | Theorems | Hypotheses |
|---|---|---|
| `RtpSeqProofs` | `in_window` is circular distance (`InWindowOffset`); packets of a slot-safe window have different slots (`SafeSlotsDistinct`) | |
| `MCRtpSeqProofs` | the same wherever a window has slid (`AlwaysCircular`, `AlwaysDistinctSlots`); a slide drops only its base (`SlideAlwaysDropsBase`) | |
| `RtpConnectProofs` | `HandshakeInvariantHolds`, `HandshakeTypeCorrect`, `PeerAlwaysAcked`, `HandsOverAlwaysCleanly` | |
| `RtpGBNProofs` | `InvariantHolds`, `TypeCorrect`, `WindowsAlwaysAgree`, `TimerAlwaysCovers` | |
| | `OutstandingAlwaysKept` | every window of the file is slot-safe (`SlotsSuffice`) |
| | `GBNImplementsTransfer` | reading does not fail |
| `RtpSRProofs` | `SRInvariantHolds`, `SRTypeCorrect`, `SRWindowsAlwaysAgree`, `SRTimerAlwaysCovers`, `AckedIsStored`, `ReceiveBufferAlwaysSound` | `RingNeverReused` |
| | `SROutstandingAlwaysKept` | `SlotsSuffice`, and in every state of the behaviour `base` has not run past `nextseqnum` |
| | `SRImplementsTransfer` | `RingNeverReused`, and reading does not fail |
| `FtpProofs` | `TextAnnounced`, `DataAnnounced`, `OneKindAtMost`, `GarbageRefused`; `TypeCorrect`, `EndsOwned` | |
| `FtpStepProofs` | `InStepAlways`, `DirectoryAlwaysAgreed`, `DownloadAlwaysWhole`, `PromiseAlwaysKept` | `LengthsFit` |
| | `HeldOpenAlways` | `LengthsFit`, and no call of the server's own fails |
| | `UploadAlwaysStored` | `LengthsFit`, `NoSlips` |
| | `ServerSurvivesAlways` | `LengthsFit`, `NoSlips`, and no call of the server's own fails |

### The handshake

`ConnectedPeerAcked` is not inductive: it needs to be known why the final ACK
under way is there. `InOrder` says so: nothing is on its way to the sender
before the receiver has taken its SYN, the sender is past its SYN only if the
receiver has its number, an ACK with the sender's number is under way only when
the sender has seen the SYN+ACK. `UnderWay` lists everything that can be under
way at all; that `HandsOverCleanly` holds is then a matter of what of it is
left when both ends are connected. `TryUnderWay` says that a packet is only waited for while a try
is left; without it a timeout could take the count past `MAXTRY`. The counts of
copies play no part, so the bags are looked at as sets (`AddedBag`,
`RemovedBag`, `BagOfSet`).

### Mode 0

The argument is about positions: `Pos(s)` is how far number `s` is into the
file. Up to `SEQ_MAX` positions, `in_window` is an interval of positions and
`next_seq` adds one, so the wrap disappears from the rest of the proof
(`RtpTransferProofs`, for both modes). `WindowsAgree` (base <= expected <=
nextseqnum <= base + WS, as positions) is not inductive alone: an ACK may move
base only because no ACK under way is ahead of the receiver, and a chunk may be
written only because a packet under way has the chunk of its position.
`Genuine` says both, of the packets under way and of the buffer that is resent
from; the stale handshake packets satisfy it, since their numbers are at most
the first. `Counts` ties the output to the receiver's number, `EndOfFile` and
`Endings` tie the FIN exchange to the end of the file. The refinement follows
from `IInv` before and after each step.

### Mode 1

The same, and the two rings. `SenderRing`: every chunk that was sent is still
in its slot, and a mark stands for an answer of the receiver. `ReceiverRing`: a
marked slot holds a packet that is still to be written, and the slot of the
expected packet is taken only by the write loop. `Answered` leaves out the
packet that started the write loop, which is acknowledged only after the loop.
All of this is true only while no slot is used for two numbers:
`RingNeverReused` says that every number of the transfer, the FIN's included,
has a slot of its own, that no copy of a handshake packet is under way, and that
the receiver's window does not reach round the circle to the first number. These
are not conveniences of the proof: `sr_stale_mark` and `sr_stale_handshake` show
what the code does without the first two. The programs meet all three when a
handshake needed no second try and the file has at most 20000 packets (20000 times
`PAYLOAD_MAX` bytes, 29 MB), at most 16280 of them if its numbers run over `SEQ_MAX`.

`SROutstandingAlwaysKept` does without `RingNeverReused`: the file may be of any
length and use every slot again and again, copies of handshake packets may be
under way, the marks may be stale. It rests on `FillPlace` (the chunk read next
has the number `nextseqnum`) and on `FillKeepsSlots`, which serves both modes: a
slot-safe window has no outstanding packet in the slot of `nextseqnum`. What it
assumes of the behaviour is that the sweep stops at `nextseqnum` (`SweepStops`);
that is what `sr_stale_mark` refutes, and past it "outstanding" has no meaning.

### FTP: types and ends of connections

`IInv` adds to `TypeOK` and `EveryEndOwned` what the handlers take for granted
in the middle of a command. `TaskNamed`: a client that waits or transfers has a
name, its PUT a local file at least as long as what it has sent. `JobNamed`: the
file a thread has opened is there; it stays there because no thread of the
server ever removes a file. Without them neither is inductive: a block could be
read from no file. The streams are arbitrary, so none of it depends on the two
programs being in step; a name or a header is of its type whatever a client out
of step sends, because a handler reads it only behind a check of the length.
Every action is one of five shapes (`ThreadGoesOn`, `ThreadsHangUp`,
`ClientGoesOn`, `ClientHangsUp`, a new connection), each proved to keep `IInv`
once; the steps then show which shape an action has. The theorems about headers
are arithmetic modulo `WORD` and the table of kinds, with no bound on lengths.

### FTP: in step

`StepKept` speaks of moments at which a fault would show; the invariant behind
it, `InStep`, says what is on its way at every moment. A connection that no slip
has touched (`Whole`) is in one of three conditions. `Quiet`: the client waits for
nothing, no byte is on its way to it, and the thread wants exactly the bytes
that are on their way or still to be sent. `Asked`: the client's request, byte
for byte, is behind the rest of an upload. `Answered`: the thread has taken the
request, nothing more is on its way to it, and the reply and what follows it are
on their way or still owed, to the byte. Each action keeps a connection in its
condition or takes it to the next. `Sizes` says how far each transfer is, in
step or out of step, and that every length fits a header.

`LengthsFit` asks that the header, the files there are at the start, and the
outputs with their NUL stay below `WORD`, 4 GiB in the code. It is needed: a
file of that size is announced with its remainder (`ftp_server.cpp:187`;
`DataAnnounced` proves what is announced for every size), and the rest of it
would be taken for the next reply.

On top of `StepInv` (`IInv`, `Sizes`, `InStep`), each property has an invariant of
its own:

* `DirectoryAgreed`: `DirAgrees`, the directories agree except while a
  successful reply to CD is on its way, when the client is about to go where
  the thread is.
* `HeldOpen`: `Untorn`, the file under a download keeps its length unless
  another thread changes it. "No call of the server's own fails" is the one
  hypothesis that is not about sizes; the property excludes the other reasons
  one by one, the end of the server among them.
* `DownloadWhole`: `Down`, what the client has written and what is on its way
  begin the file that GET opened; and `CutLeft`, a connection that the server
  has closed holds at most the rest of a reply, so that a client cannot
  take another file's bytes for the end of its own.
* `PromiseKept` and `UploadStored`: `Up`, the stored bytes and those on their
  way are the client's file, byte for byte, as far as the announced length
  reaches, and behind an upload there is at most one request.
* `ServerSurvives`: `Sound`, a client that ends by itself leaves its thread no
  request to answer, only the rest of an upload; so no thread writes to
  a closed socket unless a client was killed. What is left of the steps that end
  the server is the exception for a `Blocked` path, which a client in step can
  cause with one command, and the property says that it is this client's command
  and path. A call that fails by itself (`CallThrows`) ends the server without
  anybody's doing, hence the hypothesis.

`NoSlips` (no SHA is asked for, the client's `fopen` and `fread` do not fail) is
a hypothesis of `ServerSurvivesAlways` and `UploadAlwaysStored` because `slip`
belongs to a connection: a client that is out of step can take bytes of a file for the
answer to its QUIT and begin a new connection with a clean record, while the
server still works on what the old one left. The run `ftp_two` is such an
instance; with slips (`ftp_one`, where there is one client) the two properties
are not claimed.

Two of the properties were not what they should have been before they were
proved. `PromiseKept` was false for two clients as long as `torn` noted only a
change under a running transfer, and not one to a file whose upload had ended;
it is now checked with two clients as well. `HeldOpen` excused any download; it
now excuses one whose file was changed.

### What is only model-checked

Liveness, since fairness and ENABLED are out of the prover's reach: `HandshakeEnds`,
`BothConnect`, `TransferEnds`, `CommandReturns`, `ThreadEnds`. Of mode 1, the
receiver's second handshake packets and the marks a reused ring keeps are
covered by the runs that refute a claim, not by a theorem; of a reused ring only
`OutstandingKept` is proved (`SROutstandingAlwaysKept`).

## Not modelled, and the plan

In RTP: how many late ACKs use up the sender's 50 tries to close (needs a
queue instead of a set); a failing `epoll_wait` or `timerfd` call; windows of 0
or beyond 20000; errors of `socket`, `bind` and `fopen` at the start; the CRC
itself.

In FTP: a `fwrite` that fails (its result is ignored); a listing cut at 2047
bytes; a reset by which the kernel discards what was sent before a close; names
longer than the buffers; a user who types a server's name as "none"; what is
printed, apart from the two success messages and CD's. The server's exceptions
of `std::filesystem` are modelled. The client's (`ftp_client.cpp:240`, `284`,
before a local file is opened) are not apart: they end the client in the middle
of a command, as `Kill` does, with the connection closed by the kernel.

Next, in this order:

1. `RtpClose`: the FIN exchange with a queue instead of a set, and how many late
   ACKs the 50 tries of `sender.c:191` survive.
2. Weaker hypotheses: `ServerSurvives` and `UploadStored` when some client may
   slip (what a connection does that was opened after a slip has to be told apart
   from what the slip itself did); mode 1 with array slots that are used again,
   up to the packet where the first stale mark bites.
3. The data loop's part in the handshake: that the transfer's `StaleHandshake`
   packets are exactly what `HandsOverCleanly` allows, as one theorem over both
   modules.
