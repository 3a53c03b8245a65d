----------------------------- MODULE RecvStream -----------------------------
(***************************************************************************)
(* The receive buffer at work: the backend thread stores what packets      *)
(* bring (handle_message), the application thread reads (cmu_read).  Each  *)
(* runs under recv_lock and is one action.  The peer is honest, each byte  *)
(* it sends is the one its sequence number says, but its packets are cut   *)
(* anywhere, overlap, and arrive late, repeatedly and in any order.        *)
(***************************************************************************)
EXTENDS RecvBuffer

CONSTANTS
  ISN,        \* the initial sequence number of the peer
  MaxStream   \* how many bytes the peer sends, at most

ASSUME StreamAssumption == ISN \in Nat /\ MaxStream \in Nat

VARIABLES
  rb,        \* sock->recv_buf
  accepted,  \* history: the stream positions of all packets not refused
  nread,     \* history: how many bytes cmu_read has returned
  chunk      \* history: what the last cmu_read returned

vars == <<rb, accepted, nread, chunk>>

Init ==
  /\ rb = recv_buffer_initialize(ISN)
  /\ accepted = {}
  /\ nread = 0
  /\ chunk = <<>>

(* handle_message, between locking and unlocking recv_lock: a packet of n  *)
(* bytes from stream position `first` on.                                  *)
Receive(first, n) ==
  /\ first + n - 1 <= MaxStream
  /\ recv_buffer_can_receive(rb, ISN + first, n) = 0
  /\ rb' = recv_buffer_receive(rb, ISN + first, StreamBytes(first, n))
  /\ accepted' = accepted \cup (first .. first + n - 1)
  /\ UNCHANGED <<nread, chunk>>

(* cmu_read with room for `length` bytes and something to return.          *)
Read(length) ==
  LET read_len == MIN(length, recv_buffer_max_read(rb)) IN
  /\ recv_buffer_max_read(rb) > 0
  /\ chunk' = safe_memcpy_from_recvbuf(rb, read_len)
  /\ rb' = recv_buffer_read(rb, read_len)
  /\ nread' = nread + read_len
  /\ UNCHANGED accepted

Next ==
  \/ \E first, n \in 1 .. MaxStream : Receive(first, n)
  \/ \E length \in 1 .. DEFAULT_BUFF_SIZE : Read(length)

Spec == Init /\ [][Next]_vars

-----------------------------------------------------------------------------
next_expected == get_next_byte_expected_seqnum(rb)

(* The positions a segment holds, and all positions the buffer knows of.   *)
Positions(g) == g.start_seqnum_inclusive - ISN .. g.end_seqnum_inclusive - ISN

Held == (1 .. next_expected - 1 - ISN) \cup UNION {Positions(g) : g \in rb.segs}

(* Type invariant: the indices stay inside the array, the segments are     *)
(* intervals of sequence numbers.                                          *)
TypeOK ==
  /\ rb \in RecvBufferType
  /\ accepted \subseteq 1 .. MaxStream
  /\ nread \in 0 .. MaxStream
  /\ chunk \in Seq(Byte)

(* The out-of-order segments stay disjoint, ahead of the in-order data and *)
(* within the ring, however the packets that build and merge them overlap: *)
(* recv_buffer_receive relies on each of these when it merges.             *)
SegmentsSound ==
  /\ \A g \in rb.segs :
       /\ g.start_seqnum_inclusive <= g.end_seqnum_inclusive
       /\ g.start_seqnum_inclusive >= next_expected
       /\ g.end_seqnum_inclusive < rb.last_byte_read_seqnum + DEFAULT_BUFF_SIZE
  /\ \A g, h \in rb.segs :
       g # h => Positions(g) \cap Positions(h) = {}

(* The buffer holds exactly what was accepted: it acknowledges no byte     *)
(* that did not arrive (next_expected is the number it sends), and a merge *)
(* forgets no byte it took in.                                             *)
HoldsWhatArrived ==
  /\ rb.last_byte_read_seqnum = ISN + nread
  /\ next_expected > rb.last_byte_read_seqnum
  /\ Held = accepted

(* Every byte held and not yet read is in the slot its sequence number     *)
(* maps to: a later packet never overwrites another byte.                  *)
BytesInPlace ==
  \A p \in accepted : p > nread =>
    rb.buffer[seqnum_to_index_recv(rb, ISN + p)] = p

(* cmu_read returns the stream in order, with no gap and no repetition.    *)
ReadsInOrder ==
  \A k \in 1 .. Len(chunk) : chunk[k] = nread - Len(chunk) + k

(* The acknowledgement number and the right edge of the advertised window  *)
(* (acknowledgement number plus window) never go back: the peer may rely   *)
(* on room it was promised.                                                *)
PromisesKept ==
  [][ /\ next_expected' >= next_expected
      /\ next_expected' + recv_buffer_max_receive(rb')
           >= next_expected + recv_buffer_max_receive(rb) ]_vars

(* Seen through its sequence numbers the buffer is a set of positions.     *)
Abstract == INSTANCE Reassembly WITH
  Limit    <- DEFAULT_BUFF_SIZE - 1,
  received <- Held,
  read     <- rb.last_byte_read_seqnum - ISN

(* Refinement: storing and reading, with ring, segments and merges, are    *)
(* steps of that set.                                                      *)
ImplementsReassembly == Abstract!Spec

-----------------------------------------------------------------------------
(* "the index of the buffer array to put the next in-order byte"           *)
(* (recv_buffer.h:21): the byte the buffer asks the peer for next is one   *)
(* it does not have.                                                       *)
NextByteMissing ==
  next_expected - ISN \notin Held
=============================================================================
