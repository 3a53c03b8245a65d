# A verification project for CMU-TCP

This directory holds TLA+ specifications of the TCP implementation in
`project-2_15-441/`: a reliable byte stream over UDP, written in C for the
course 15-441/641. The specifications are checked with TLC on small instances
and their safety is proved with TLAPS for every value of the constants.
Paths below are relative to `project-2_15-441/`.

## The system

A process opens a socket with `cmu_socket` and uses it from its own thread, the
*application* (`cmu_write`, `cmu_read`, `cmu_close`). `cmu_socket` starts one
more thread, the *backend* (`begin_backend`), which does everything that has to
do with packets. The two share the `cmu_socket_t`.

| Component | State | Operations |
|---|---|---|
| Send buffer (`src/send_buffer.c`) | a ring of 1024 bytes; `last_byte_acked_seqnum`, and the indices of the last acknowledged, the last sent and the next written byte | write (application), dump and update_ack (backend), all under `send_lock` |
| Receive buffer (`src/recv_buffer.c`) | a ring of 1024 bytes; `last_byte_read_seqnum`, indices of the last read and the next expected byte; the list of segments that arrived ahead of a gap | receive (backend), read (application), under `recv_lock`; `recv_buffer_max_receive` is also called without it |
| `window_t` (`inc/cmu_tcp.h:33-37`) | the next sequence number expected, the last acknowledgement and the last window received | used by the backend only, after the handshake |
| Data transfer (`src/backend.c`) | the loop of the backend | handle one packet if there is one, acknowledge data, retransmit after a timeout or else send what the window allows |
| Handshake (`src/backend.c:128-360`) | `state`, `initialized` | three packets; the client repeats its SYN after a timeout |
| Socket API (`src/cmu_tcp.c`) | `dying`, the locks, `wait_cond` | open, close, read, write |
| Retransmission timer | `last_byte_acked_ts` | set by new acknowledgements, compared with `DEFAULT_TIMEOUT` |
| Packet header (`src/cmu_packet.c`) | none | getters and setters; lengths and the window have 16 bits |
| Network | packets under way (UDP) | loses, delays, reorders, duplicates |

What makes this hard: three indices per ring from which sequence numbers are
recomputed, where a full ring and an empty one differ by one comparison; bytes
that wrap at the end of an array; segments that overlap; acknowledgements and
windows that are late; two threads per process, and one read without its lock;
retransmissions that race late answers; a window that closes.

What makes each part correct:

* *Send buffer*: it never loses track of the stream, keeps every byte until it is
  acknowledged, and puts the right bytes into every packet.
* *Receive buffer*: it holds exactly what it accepted, acknowledges nothing else,
  gives the application the stream in order, and takes back no room it promised.
* *Connection*: the sender forgets only what the receiver has; what is read is
  what was written; everything written is read in the end.
* *Handshake*: both ends start with the same numbers; it ends although packets
  get lost; nothing that is late or repeated breaks it.
* *Socket API*: a reader that sleeps is woken; `cmu_close` returns, and only when
  the peer has everything.

## The modules

| Module | What it is |
|---|---|
| `Ring` | the constants and the memory copies that both buffers share |
| `SendBuffer` | `send_buffer.c`, one operator per function |
| `SendStream` | the send buffer as a state machine: any order of writes, first transmissions, retransmissions and acknowledgements |
| `StreamWindow` | abstract: a window over a stream, no ring |
| `RecvBuffer` | `recv_buffer.c`, one operator per function; the segments ahead of a gap are a set |
| `RecvStream` | the receive buffer as a state machine: any order of packets and reads |
| `Reassembly` | abstract: a set of received positions and a reader, no ring and no segments |
| `SeqWords` | the decision of `recv_buffer_can_receive` in words of limited width, next to the one in natural numbers |
| `SegmentList` | the receive buffer once more, with the doubly linked list of segments, cell by cell: allocation, links, frees, `recv_buffer_clean`; what it does is decided by walking the list |
| `Packet` | `cmu_packet.c`: composing packets and reading their headers, in 16 bits |
| `Connection` | two endpoints in state ESTABLISHED: buffers, `window_t`, application and backend threads, the network |
| `ReliableStream` | abstract: what a connection promises for one direction, four counters |
| `Session` | `Connection` with the handshake in front of it |
| `SocketLife` | `Connection` with blocking reads, `cmu_close` and the head and tail of the backend's loop |
| `MCConnection`, `MCSession`, `MCSocketLife` | values of the constants that are functions |
| `MCSegmentList` | the symmetry of the addresses of cells |
| `BufferProofs` | lemmas about the ring, about the operations of `RecvBuffer`, for any buffer, and about those of `SendBuffer`, for any buffer in step with its stream |
| `SendStreamProofs` | the theorems about `SendStream` |
| `RecvStreamProofs` | the theorems about `RecvStream`, and the one about `SeqWords` |
| `SegmentListProofs` | the theorems about `SegmentList` |
| `ConnectionProofs` | the theorems about `Connection` |
| `SessionProofs` | the theorems about `Session` |
| `SocketLifeProofs` | the theorems about `SocketLife` |

`SendStream` EXTENDS `SendBuffer`, `RecvStream` EXTENDS `RecvBuffer`,
`SeqWords` EXTENDS `RecvStream` and `SegmentList` EXTENDS `SeqWords`; `Connection`
EXTENDS both buffers and `Packet`; `Session` and `SocketLife` EXTEND `Connection`:
each operation is written once and used everywhere. No module has a recursive
operator: the walks along the links of the list are recursive functions (`Walk`).

### How state and actions correspond to the code

A buffer is a record with the fields of its C struct, in `SendStream` and
`RecvStream` one variable, in `Connection` a function of the endpoint. A *byte*
is its position in the stream it belongs to, so that a byte in the wrong place
is a visible error; `Junk` is a byte that is not part of the stream (a slot
never written, or memory beyond the end of the array). What one lock protects is
one action. A `memcpy` whose length underflows kills the process (`crashed`, or
`alive = FALSE`).

| Action | Code |
|---|---|
| `Write` | one round of the loop of `cmu_write` under `send_lock` |
| `Read` | `cmu_read` under `recv_lock`, when there is something to read |
| `NoData`, `HandleMessage` | `check_for_data`, and `handle_message` up to line 90 |
| `Reply` | `handle_message` from line 92 on: the acknowledgement number is the one `HandleMessage` stored, the window that of now |
| `Timeout` | the loop of `begin_backend` with the timer expired: `resend_unacknowledged` |
| `Send` | the same without: `multiple_send` |
| `SendSyn`, `ClientReceive` | `init_handshake_client`: (re)transmission of the SYN, the answer |
| `ServerListen`, `ServerRepeat`, `ServerEstablish` | `init_handshake_server`: LISTEN, SYN_RCVD with the SYN once more, SYN_RCVD with an acknowledgement |
| `LateSyn` | the assertions at the head of `handle_message` |
| `ListReceive`, `ListRead` | the same as `Receive` and `Read`, with `segment_merge` and `recv_buffer_receive` on the list |
| `Clean` | `recv_buffer_clean` |
| `Wait`, `CmuRead` | `cmu_read` with NO_FLAG: sleep on `wait_cond`, or read and return |
| `CmuClose` | `cmu_close`: set `dying`, join the backend |
| `ReadDying`, `LeaveOrStay` | the head of the loop: `dying` under `death_lock`, then the data left under `send_lock`; exit or go on |
| `Alert` | the end of the loop: signal `wait_cond` if there is something to read |

`HandleMessage` is one action though `send_lock` is released before `recv_lock`
is taken: the first part touches only the send buffer and `window_t`, the second
only the receive buffer and `window_t`, which no application thread uses, so a
call of the application in between could as well come before or after.
Several packets sent in one round are sent at once, each lost or not on its own.

In `SegmentList` the list decides: whether a packet is in order, what it is merged
with (`merged`), which cells are freed (`Between`) and what byte is expected next all
come from the two walks of `segment_merge` along the links. `rb.segs`, which in
`RecvBuffer` *is* the state, is there only a view of what the cells in use hold, and no
step reads it. That the result is that of the set is therefore something to be shown
(`ImplementsBuffer`).

`malloc` returns any cell that is not in use. Its numbers are always written before
they are read; its links are not always. With `Recycled = FALSE` they are anything:
NULL, or any cell, in use or not. With `Recycled = TRUE` they are what they were when
the cell was freed. glibc keeps its own data in the first 8 or 16 bytes of a freed cell, the
two numbers and in some versions and bins also `prev`, and never touches `next`, the
link that `recv_links` is about. Memory that is blank is assumed nowhere.
`EndsAreEnds` is the condition of which the code knows nothing, that a link it did not
set at an end of the list reads as NULL, and `TiedSpec` is `ListSpec` as long as that is
so. What the code does behind the first step that breaks it is not studied: with the list
astray its buffer may forget bytes it accepted (with recycled memory TLC finds
`SegmentsSound` and `HoldsWhatArrived` violated soon after `EndsAreEnds`).

`create_packet` is the set of the packet, empty for the NULL it returns when the
lengths do not fit together.

`multiple_send` and `resend_unacknowledged` read the receive buffer without
`recv_lock`. The Makefile compiles without optimisation, so the functions load
the shared fields one by one, in the order of the source. A `cmu_read` in
between stores `last_byte_read_seqnum`, then `last_byte_read_index`. The loads
are: the index (compared), the index again, the sequence number twice. With the
same value of the index in both places every outcome is the window before or
after a read. With different values the branch is that of the old index and
the distance that of the new one, which matters only if the read crossed the end
of the array. So the model remembers the branch (`wrapped`) when the backend
comes to its sending part, and `AdvertisedWindows` gives the window for the
remembered and for the current branch. This relies on loads and stores staying
in program order, as on x86.

## The runs

| Run | Question | Instance |
|---|---|---|
| `send_stream` | does the ring track the stream, keep its bytes, implement the window? are packets exact until the stream wraps? | 4 slots (3 usable), 9 bytes: the stream goes round the array more than twice, from an initial sequence number 5 |
| `send_wrap` | ... and after that? (violated) | 4 slots, 6 bytes |
| `recv_stream` | does the receive buffer reassemble the stream? do words decide as numbers do? | 6 slots (5 usable), 8 bytes, packets of every length: several separate segments ahead of a gap, and the end of the array is crossed; numbers modulo 13, of which the stream uses all but one |
| `recv_list` | does the buffer with the linked list do the same? is the list the set of segments, is every cell freed once? | 5 slots, 7 bytes, 5 cells; any links in the memory malloc returns, while the ends of the list read as ends (`TiedSpec`); three separate segments, and the end of the array is crossed |
| `recv_adjacent` | is the next expected byte one that is missing? (violated) | 5 slots, 5 bytes |
| `recv_links` | has the last segment no successor, the first no predecessor? (violated) | 6 slots, 6 bytes, 6 cells, memory recycled (`ListSpec`) |
| `connection_laps` | safety and refinement of two endpoints; is everything sent acknowledged in the end? | 3 slots (2 usable), 4 bytes one way: two laps, the window opens and closes; 2 packets under way per destination, duplication: an old packet can close the window again |
| `connection_torn` | are advertised windows backed by room? (violated) | 3 slots, 3 bytes one way, 1 the other |
| `connection_stall` | does a closed window open again? (violated) | 3 slots, 3 bytes |
| `session` | handshake and data together: do both ends start in step, does the handshake end, is what is read what was written? | 4 slots, 1 byte each way, 1 packet under way per destination besides those of the handshake, duplication |
| `session_late_syn` | can a SYN meet an established endpoint? (violated) | no loss, no duplication needed |
| `socket_life` | does a close return unless the peer is gone with data unacknowledged, and only when the peer has everything? is a wake-up lost? is everything written before a close read? | 4 slots, 2 bytes, both ends may close at any time, 1 packet under way per destination, duplication |

Why the bounds are enough. A ring has three positions that matter (the last
acknowledged or read byte, the last sent, the next written or expected) and one
place where arithmetic changes, the end of the array; with 3 to 7 slots and a
stream of about two laps each of the positions gets to each side of each other
and of the end. Two packets per destination are what it takes for one to
overtake another; the network is a set from which a packet may be taken without
leaving it, so any number of copies is covered. `MaxStream`, `MaxInFlight` and
the sets of packet lengths are the only bounds. Deadlock is not checked: a
connection on which everything written has been read and acknowledged does stop,
and so does a process that died.

Six runs are violated. Each checks what a comment, an assertion or a test of
the repository says:

* `send_wrap`: `safe_memcpy_from_sendbuf` (`src/send_buffer.c:83`) compares
  the end of the dump with the last acknowledged slot, not with the end of the
  array, and `resend_unacknowledged` (`src/backend.c:507`) copies straight out of
  the array. In `Connection` the bytes these two misread reach the application
  (`delivered` has "junk"), or the sender is dead.
* `recv_adjacent`: a segment that begins exactly at the next expected byte stays a
  segment; its bytes are neither read nor acknowledged until one of them comes
  again.
* `recv_links`: `segment_merge` does not set `next` of a segment it puts at the right
  end (`src/recv_buffer.c:112-120`), nor `prev` of one at the left end: in memory
  that was a segment before, the old link is still there.
* `connection_stall`: the zero window probe is sent only when something is
  unacknowledged; if the last acknowledgement closed the window nobody says
  anything any more, though the receiver has room again.
* `connection_torn`: a window of 65535 bytes, from the unlocked read.
* `session_late_syn`: the repeated SYN of a client whose SYN-ACK is late makes a
  second SYN-ACK, which fails an assertion at the established client.

In spite of these, everything the passing runs state holds *with* the faults in
the model: the control state (sequence numbers, acknowledgements, windows) is
right although payload bytes may be wrong. `recv_list` is the exception: it is about the
code up to the first link that leads astray.

Some runs say less than their properties might suggest:

* `session` sends 1 byte each way with 1 packet under way: handshake packets and data
  are repeated and lost, but nothing is reordered within a stream. That order is kept
  behind any handshake rests on the theorems `SessionTransferIntact` and
  `SessionStreams`, and on `connection_laps`.
* `socket_life` begins in ESTABLISHED: a socket that is closed during the handshake is in no
  run. `CloseFlushes` and `SleepsForReason` are proved for any stream, but from the same
  start.
* `socket_life` writes less than the ring holds, so that neither the wrap nor the closed
  window of the violated runs stands in the way of its liveness: that a close returns, and
  that a sleeping reader is served, is checked over lost and repeated packets and not
  over a closed window.
* `EventuallyEstablished` has the premise that the client writes. With an idle client and the
  last packet of the handshake lost the server stays in SYN_RCVD for ever.

### Fairness

`FairSpec`, `FairSessionSpec` and `LifeSpec` assume:

* weak fairness of each backend: it loops without ever sleeping or waiting for
  the application;
* strong fairness of the handling of a packet by an endpoint that can handle one:
  the socket is polled in every round, and what is in `net` and not lost has
  arrived or will;
* strong fairness of "a retransmission, or a reply, is sent *and gets through*":
  what is sent again and again is not lost for ever. This is the usual assumption
  about a lossy network; without it nothing is delivered;
* weak fairness of the application's reads (not in `FairSessionSpec`): it keeps
  calling `cmu_read`. In `LifeSpec` this holds only while it is awake: a reader that
  sleeps reads nothing until it is signalled, and none reads after `cmu_close`.

Nothing is assumed of writing and of closing. `Timeout` is strongly fair because the loop comes
by again and again and time passes.

## What is proved

### The send buffer

`SendStreamProofs` proves for `SendStream`, for every capacity of at least 2,
every initial sequence number and every length of the stream:

| Theorem | States |
|---|---|
| `TypeCorrect` | `Spec => []TypeOK`: no index leaves the array |
| `RingCorrect` | `Spec => []RingTracksStream`: the recomputed sequence numbers are the stream's |
| `BytesKept` | `Spec => []UnackedBytesKept` |
| `PayloadsInPlace` | `Spec => []PayloadInPlace` |
| `AckAssertions` | `Spec => []AckAssertionsHold` |
| `FirstLapSafe` | `Spec => []FirstLapExact`: until the stream comes back to slot 0 every payload is exact and no copy crashes |
| `RingImplementsWindow` | `Spec => ImplementsWindow`: refinement of `StreamWindow` |

Assumed are only `CapacityAssumption` (`Ring`) and `StreamAssumption`
(`SendStream`), both weaker than what the code fixes.

The argument. `TypeOK` is not inductive: that `next_byte_written_index` is in the
array says nothing about how far it may move. The inductive invariant `SInv` ties the
numbers recomputed from the indices to the history (how much was written, what was
transmitted) and says that the ring is in step with the stream (`SendGood`): every byte
not yet acknowledged is in its slot, and no more are kept than the capacity less
one. The latter is what makes the two comparisons (`>` for the written index, `>=` for
the sent one) tell a full ring from an empty one. What the operations do to a ring in
step is in `BufferProofs`, about any buffer (`WriteExact`, `DumpExact`, `AckExact`,
`LinearExact`, `FreshIsLinear`), and rests on arithmetic modulo the capacity (`WrapOnce`).

`PayloadsInPlace` is the strongest statement about payloads of all streams that is true:
a payload byte is the right one or comes from beyond the array. That it is always
the right one is false (`send_wrap`), but true of a stream on its first lap:
`SendGood` also says that there the slot of a byte is its position in the stream
(`SendLap`). Then what is sent ends before the array does, and the "wrap around" branch of
`safe_memcpy_from_sendbuf`, which compares with the last acknowledged slot, is never
taken (`FirstLapDumps`).

### The receive buffer

`RecvStreamProofs` proves for `RecvStream`, for every capacity of at least 2, every
initial sequence number and every length of the stream, however the packets are
cut, repeated and ordered:

| Theorem | States |
|---|---|
| `RecvTypeCorrect` | `Spec => []TypeOK` |
| `SegmentsStaySound` | `Spec => []SegmentsSound`: segments stay disjoint, ahead of the gap, within the ring |
| `AccountsForArrivals` | `Spec => []HoldsWhatArrived`: nothing accepted is forgotten, nothing else acknowledged |
| `BytesStayInPlace` | `Spec => []BytesInPlace` |
| `ReadsTheStream` | `Spec => []ReadsInOrder`: `cmu_read` returns the stream |
| `KeepsPromises` | `Spec => PromisesKept`: neither the acknowledgement number nor the right edge of the window goes back |
| `RingImplementsReassembly` | `Spec => ImplementsReassembly`: refinement of `Reassembly` |

Assumed are only `CapacityAssumption` and `StreamAssumption`.

The argument. No one of the five invariants is inductive, their conjunction `RInv`
is: that a packet leaves the bytes of others alone needs the segments to lie within
the ring; that a merge yields what it should needs them to be disjoint; that a read
returns the stream needs the bytes in place. The work is in `BufferProofs`, about
one operation on any sound buffer: the slot of a sequence number (`SlotOfSeqnum`),
the inverse (`NextExpectedAt`), a copy that wraps (`CopyInPlace`), a merge, which is
one interval that covers exactly the old segments it touches and the packet
(`MergeExact`), and from these what `recv_buffer_receive` (`ReceiveExact`) and
`recv_buffer_read` (`ReadExact`, `ReadCopies`) do. `RecvStreamProofs` has one lemma
per action on top of them.

### The list of segments

`SegmentListProofs` proves for `SegmentList`, under `CapacityAssumption`,
`StreamAssumption`, `HeapAssumption` (as many addresses as the ring has slots) and `ModulusAssumption` (which
comes with `SeqWords`), whatever memory `malloc` returns:

| Theorem | States |
|---|---|
| `OnlyUnsetLinks` | a step from a sound list (`ListInv`) leads to a sound list if and only if `EndsAreEnds` holds after it |
| `ListIsTheSet` | `ListSpec /\ []EndsAreEnds => []ListIsSet`: the doubly linked list is the set of segments, in ascending order, forward and backward |
| `CellsStayAccounted` | `ListSpec /\ []EndsAreEnds => []CellsAccounted`: every cell is freed once, and only when it has left the list |
| `ListImplementsBuffer` | `ListSpec /\ []EndsAreEnds => ImplementsBuffer`: refinement of `RecvStream`, and with it of `Reassembly` |
| `CellsSuffice` | `ListSpec /\ []EndsAreEnds => [](~cleaned => malloc # {})`: there is always a cell to be had |

`[]EndsAreEnds` is not an assumption about memory: cells are freed, allocated again and hold any
links. It is the condition that the code leaves unsaid, and the code alone does not
establish it (`recv_links`). `OnlyUnsetLinks`, which does not have this hypothesis, says that this is all that is missing:
whenever the list goes wrong it does so in a step that puts a segment at an end of it with
an unset link that does not read as NULL. Were all of these links set to NULL, nothing else
would have to be changed.

The argument. What a list is can be said without walking along it: `Linked` says that
the `next` of a cell is the leftmost cell further right, its `prev` the rightmost cell
further left, `start` the leftmost cell of all and `end` the rightmost. The inductive
invariant `ListInv` has `RInv`, `Linked`, that the cells allocated hold the segments of the
set (`SegsOf`), and that none was freed wrongly; of the other cells it says nothing. From `Linked` follows what the walks
return: forward all cells in order (`ForwardLists`), backward the reverse
(`BackwardReverses`). That is an induction over the list, done without an induction theorem: if a
walk went wrong there would be a least round at which it does, and the round before
leads to a contradiction; that it ends needs that no list is longer than the heap has cells.
So the two loops of `segment_merge` find the first cell that does not end before the
packet and the last that does not begin behind it (`EndsFound`), and each of the function's cases puts the new cell in
the place of exactly the cells in between (`MergeSplices`, from `SpliceLinked`), provided
that the link it leaves unset, if it does, reads as NULL (`Unset`); that `EndsAreEnds`
after the step says just this is `EndsUnset`. The
numbers in the new cell are those of the merged segment in the set (`MergeMatches`), so the
buffer decides the same. If the
new segment closes the gap, the first cell is taken out
again (`UnlinkLinked`). That `malloc` always finds a cell among as many as the ring has slots
is a pigeonhole argument: segments are disjoint and ahead of the gap
(`RoomForSegment`).

### Words and numbers

`WordsSuffice` (`RecvStreamProofs`): `Spec => []WordsAgree`. All modules count with
natural numbers; the code counts in `uint32_t` and compares with `<` and `<=`. For any
modulus above the last sequence number of the stream (`ModulusAssumption`) the two
decide the same about every packet. This follows from `RInv`, which bounds what the
buffer can expect by the end of the stream. Of streams that pass the modulus it says nothing.

`ConnectionNumbersFit` (`ConnectionProofs`): if both streams end more than one ring below `M`,
every sequence and acknowledgement number in the buffers, in `window_t` and in the packets
under way is below `M` (`NumbersBelow`), those of retransmissions and of window probes
included, and so are the sums the code compares numbers with: `last_byte_acked_seqnum +
capacity` in the assertion at `src/send_buffer.c:19`, and the end of a packet. With `M` = 2^32
none of these words wraps. The room of one ring is needed for the assertion, whose sum
wraps first: a stream that ends within one ring of 2^32 can fail it although no
number of the stream wraps. The hypothesis is about the streams only: nothing is assumed of the
network.

### The connection

`ConnectionProofs` proves for `Connection`, for every capacity of at least 2, every MSS
that fits a 16-bit length, all initial sequence numbers, streams of every length and
any number of packets in the network, which loses, reorders and (as `Duplication`
says) repeats:

| Theorem | States |
|---|---|
| `ConnectionTypeOK` | `Spec => []TypeOK` |
| `ConnectionWindowInStep` | `Spec => []WindowInStep`: `window_t` agrees with the buffers |
| `ConnectionNothingLost` | `Spec => []NothingLost` |
| `ConnectionAcksValid` | `Spec => []AcksInFlightValid`: no acknowledgement in flight trips an assertion |
| `ConnectionPureAcksBacked` | `Spec => []PureAcksBacked` |
| `ConnectionNeverMisplaced` | `Spec => []NeverMisplaced` |
| `ConnectionImplementsStreams` | `Spec => ImplementsStreams`: both directions refine `ReliableStream` |

Assumed are `CapacityAssumption` and `ConnectionAssumption`.

The argument. The inductive invariant `CInv` has, besides the type invariant,
`NeverMisplaced` and that `window_t` agrees with the buffers (`WindowGood`), one part
about each direction (`StreamsGood`) and one about each packet (`NetGood`), and that on
the first lap what was read is right (`ReadIntact`). Its parameters are there for
`Session`: the endpoints whose `window_t` knows of the acknowledgement of their SYN
(here both), and the packets whose window nobody computed (here none). A direction is in step (`InStep`) when the sender
keeps every byte it was not told to forget in its slot, every byte it forgot is below
what the receiver expects, everything the receiver knows was sent, and what it holds
in a slot is that byte or, only if the stream has come back to slot 0, Junk. A packet is good (`PacketGood`) when its bytes are in
their places and were sent, its acknowledgement is at most what its sender expects and
at least the number after the SYN, and, if it is a pure acknowledgement, its window
ends where its sender's ring ends. A packet is only compared with three numbers of its
sender, the last byte sent, the next one expected and the last one read. None of
them ever decreases (`Forward`), so a good packet stays good as long as it is under
way (`StillGood`) and a copy of it is as good: this is the whole treatment of
delay, reordering and duplication. There is one lemma per action. `SendStep` covers
the crash in the middle of `multiple_send`: `last_byte_sent` is the end of the last
piece dumped, so no packet of an earlier one is ahead of it (`PiecesInOrder`).
`HandleMessageStep` moves one direction by the acknowledgement and the other by the
bytes. Every lemma also shows that at most one of the four counters of a
direction moves (`OneMoves`); with the bounds of `CInv` that is the step of
`ReliableStream` the refinement needs (`EveryStepStreams`). And each shows that no process
dies whose stream is on its first lap (`StaysAlive`).

The lemmas rest on what one operation does to any buffer: for the receive buffer
those of `BufferProofs` stated for arbitrary bytes, because a payload may hold
Junk, and for the send buffer `WriteExact`, `DumpExact`, `AckExact`, `LinearExact` and
`FreshIsLinear` of the same module.

Not claimed is that what is read is right: a byte may be Junk from beyond the array
(`send_wrap`). `ConnectionNeverMisplaced` is the strongest statement about all
streams that is true; for short ones there is `SessionTransferIntact`.

### The session

`SessionProofs` proves for `Session`, under the same assumptions and as generally:

| Theorem | States |
|---|---|
| `SessionTypeCorrect` | `SessionSpec => []SessionTypeOK` |
| `SessionAssertsHold` | `SessionSpec => []HandshakeAssertsHold` |
| `SessionInitialized` | `SessionSpec => []InitializedInStep`: an application finds its receive buffer in step |
| `SessionEstablished` | `SessionSpec => []EstablishedInStep` |
| `SessionTransferIntact` | `SessionSpec => []TransferIntact`: what is read is what was written, while the streams are on their first lap |
| `SessionStreams` | `SessionSpec => SessionImplementsStreams`: both directions refine `ReliableStream` |

The argument. `CInv` does not hold from the start: before a SYN arrives a receive buffer
knows nothing of the other stream. The inductive invariant `SessInv` is a
disjunction of three phases. In `Opening` the client has seen no SYN-ACK: nothing was
sent but packets with the SYN flag, whose numbers are known, and the server either
waits (`ServerWaits`) or stands at the start of the client's stream (`ServerReady`); its
application may already write. The SYN-ACK that the client accepts makes both
receive buffers stand at the start of a stream of which nothing was sent
(`FreshReceiver`), and that is `CInv`, with two exceptions: the `window_t` of the server
has not seen the acknowledgement of its SYN, and the last packet of the handshake
(`HandshakeAck`) advertises `CP1_WINDOW_SIZE` whatever room there is. This is
`HalfOpen`, in which the client sends, and the server handles nothing. All its
acknowledgements are of the server's SYN (`AckOfSynAck`), so none fails the
assertion of the server, and each of them, with or without data, ends the handshake with
the server's `window_t` in step: `BothOpen`. From then on the lemmas of
`ConnectionProofs` are all there is to a step. A late SYN kills a process and
changes nothing else (`OnlyDies`).

### The life of a socket

`SocketLifeProofs` proves for `SocketLife`, under the same assumptions:

| Theorem | States |
|---|---|
| `LifeTypeCorrect` | `LifeSpec => []LifeTypeOK`: where the two threads of a socket can be together |
| `LifeCloseFlushes` | `LifeSpec => []CloseFlushes`: `cmu_close` returns only when the peer has everything |
| `LifeSleepsForReason` | `LifeSpec => []SleepsForReason`: no signal is lost |
| `LifeIsConnection` | `LifeSpec => Spec`: with all this around it, it is still `Connection` |

The argument. Each step is one of `Connection` or leaves its variables alone, so `CInv` is
part of the inductive invariant `LInv`. The rest is about one socket (`SocketGood`): the
backend knows of the close only if the application is in it, is in the middle of a packet
only within its round, a sleeping reader has nothing to read, and a backend that has left
had every byte acknowledged. The last needs that a socket in `cmu_close` is not
written to and that acknowledgements never go back (`OneMoves`), and `CloseFlushes`
follows from it because the receiver has what the sender forgot.

## What is only model-checked

* Liveness (`EventuallyAcked`, `EventuallyEstablished`, `CloseReturns`, `EventuallyRead`):
  TLAPS proves neither liveness under fairness nor anything about ENABLED.

Every other property of a passing run is a theorem. The inductive invariants `SInv`, `RInv`,
`ListInv`, `CInv`, `LInv` and `SessInv` also hold for TLC on the instances of the runs, with `Nat`
cut off where they quantify over it.

## What is not modelled, and why

* *Streams that pass 2^32*: `rand()` yields an initial number below 2^31, so this
  takes a stream of more than 2 GB. `before`, `after` and `between` of
  `inc/cmu_packet.h`, which would be right there, are called by nobody.
* *The clock*: whether the timer has expired is a free choice, which covers every
  clock for safety and for liveness says only that it expires. The clock is started
  by acknowledgements, not by transmissions (`src/backend.c:561`), so data sent after
  an idle time is at once sent again; that this is superfluous is a matter of time.
* *Failing system calls*: `cmu_socket` returns an error when `bind` and the like
  fail; nothing of the socket is used then.
* *Closing during the handshake*: `SocketLife` begins in ESTABLISHED.
* *Several application threads on one socket*: `SocketLife` has one.
* *Byte layout of packets*, ports and addresses: `sock->conn` is overwritten by the
  sender of every packet; only one peer is modelled.
* *Example programs, tests, archived code, tools*: not part of the protocol.

## What is left

1. The decisions of the send buffer and of `Connection` written out in words, next to those
   in numbers, as `SeqWords` does for the receive buffer; `ConnectionNumbersFit` is what the
   comparison would rest on.
2. Streams that pass 2^32, or end within one ring of it, where the two differ.
3. A life of a socket that begins with the handshake: `SocketLife` on `Session` instead of
   `Connection`.
