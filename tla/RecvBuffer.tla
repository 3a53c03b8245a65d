----------------------------- MODULE RecvBuffer -----------------------------
(***************************************************************************)
(* recv_buffer.c: the ring that holds the bytes received until the         *)
(* application reads them, and the list of the segments that arrived ahead *)
(* of a gap.  A recv_buffer_t is a record with the fields of the C struct, *)
(* except for                                                              *)
(*   - capacity, the constant DEFAULT_BUFF_SIZE;                           *)
(*   - start and end, the ends of the doubly linked list of segments: the  *)
(*     list is the set segs of its elements, which the code keeps sorted   *)
(*     and disjoint.  This is the list as long as a link that segment_merge *)
(*     and recv_buffer_receive leave unset in the memory malloc returns    *)
(*     reads as NULL.                                                      *)
(* Sequence numbers are natural numbers: a stream that reaches 2^32 is     *)
(* out of the scope of this module.                                        *)
(***************************************************************************)
EXTENDS Ring, FiniteSetsExt

SegmentType == [start_seqnum_inclusive : Nat, end_seqnum_inclusive : Nat]

RecvBufferType ==
  [last_byte_read_seqnum    : Nat,
   last_byte_read_index     : Index,
   next_byte_expected_index : Index,
   buffer                   : [Index -> Byte],
   segs                     : SUBSET SegmentType]

(* The SYN taken for the byte expected next.                               *)
MutRecvInit(other_isn) ==
  [last_byte_read_seqnum    |-> other_isn,
   last_byte_read_index     |-> 0,
   next_byte_expected_index |-> 0,
   buffer                   |-> [i \in Index |-> Junk],
   segs                     |-> {}]

recv_buffer_initialize(other_isn) ==
  [last_byte_read_seqnum    |-> other_isn,
   last_byte_read_index     |-> 0,
   next_byte_expected_index |-> 1,
   buffer                   |-> [i \in Index |-> Junk],
   segs                     |-> {}]

Segment(s, e) == [start_seqnum_inclusive |-> s, end_seqnum_inclusive |-> e]

-----------------------------------------------------------------------------
(* Sequence numbers and indices.                                           *)

seqnum_to_index_recv(rb, seqnum) ==
  (rb.last_byte_read_index + (seqnum - rb.last_byte_read_seqnum))
    % DEFAULT_BUFF_SIZE

(* A wrap test that takes a full ring for an empty one.                    *)
MutNextExpected(rb) ==
  rb.last_byte_read_seqnum +
    IF rb.next_byte_expected_index >= rb.last_byte_read_index
      THEN rb.next_byte_expected_index - rb.last_byte_read_index
      ELSE DEFAULT_BUFF_SIZE - rb.last_byte_read_index
             + rb.next_byte_expected_index

(* Equal indices mean a full ring.                                         *)
get_next_byte_expected_seqnum(rb) ==
  rb.last_byte_read_seqnum +
    IF rb.next_byte_expected_index > rb.last_byte_read_index
      THEN rb.next_byte_expected_index - rb.last_byte_read_index
      ELSE DEFAULT_BUFF_SIZE - rb.last_byte_read_index
             + rb.next_byte_expected_index

recv_buffer_max_read(rb) ==
  get_next_byte_expected_seqnum(rb) - rb.last_byte_read_seqnum - 1

(* A window that counts the slot of the last byte read.                    *)
MutMaxReceive(rb) ==
  DEFAULT_BUFF_SIZE + 1
    - (get_next_byte_expected_seqnum(rb) - rb.last_byte_read_seqnum)

(* The window to advertise: the room counted from the next expected byte,  *)
(* whatever is already held ahead of the gap.                              *)
recv_buffer_max_receive(rb) ==
  DEFAULT_BUFF_SIZE
    - (get_next_byte_expected_seqnum(rb) - rb.last_byte_read_seqnum)

-----------------------------------------------------------------------------
(* Reading.                                                                *)

safe_memcpy_from_recvbuf(rb, len) ==
  LET first    == rb.last_byte_read_index + 1
      tail_len == DEFAULT_BUFF_SIZE - first
  IN  IF seqnum_to_index_recv(rb, rb.last_byte_read_seqnum + len)
           > rb.last_byte_read_index
        THEN Linear(rb.buffer, first, len)
        ELSE Linear(rb.buffer, first, tail_len)
               \o Linear(rb.buffer, 0, len - tail_len)

(* The index left where it was: the next read returns the same slots.      *)
MutRead(rb, len) == [rb EXCEPT !.last_byte_read_seqnum = @ + len]

(* The index of the last byte read runs past the end of the array.         *)
MutReadNoWrap(rb, len) ==
  [rb EXCEPT !.last_byte_read_seqnum = @ + len, !.last_byte_read_index = @ + len]

(* What recv_buffer_read leaves behind; the bytes it returns are           *)
(* safe_memcpy_from_recvbuf's.                                             *)
recv_buffer_read(rb, len) ==
  [rb EXCEPT !.last_byte_read_seqnum = @ + len,
             !.last_byte_read_index = (@ + len) % DEFAULT_BUFF_SIZE]

-----------------------------------------------------------------------------
(* Receiving.                                                              *)

(* One byte too many is let in.                                            *)
MutCanReceive(rb, seqnum, len) ==
  LET last_seq == seqnum + len - 1 IN
  IF seqnum <= rb.last_byte_read_seqnum THEN 2
  ELSE IF last_seq < get_next_byte_expected_seqnum(rb) THEN 3
  ELSE IF last_seq - rb.last_byte_read_seqnum > DEFAULT_BUFF_SIZE THEN 1
  ELSE 0

(* A packet that brings nothing new is let in.                             *)
MutOldPacket(rb, seqnum, len) ==
  LET last_seq == seqnum + len - 1 IN
  IF seqnum <= rb.last_byte_read_seqnum THEN 2
  ELSE IF last_seq - rb.last_byte_read_seqnum >= DEFAULT_BUFF_SIZE THEN 1
  ELSE 0

(* A packet that starts with a byte already read (2), brings nothing new   *)
(* (3) or ends beyond the ring (1) is refused as a whole.                  *)
recv_buffer_can_receive(rb, seqnum, len) ==
  LET last_seq == seqnum + len - 1 IN
  IF seqnum <= rb.last_byte_read_seqnum THEN 2
  ELSE IF last_seq < get_next_byte_expected_seqnum(rb) THEN 3
  ELSE IF last_seq - rb.last_byte_read_seqnum >= DEFAULT_BUFF_SIZE THEN 1
  ELSE 0

(* The segments that share a byte with first .. last: from left_end to     *)
(* right_end in the list.  Segments that merely touch are not merged.      *)
Overlapping(segs, first, last) ==
  {g \in segs : g.end_seqnum_inclusive >= first /\ g.start_seqnum_inclusive <= last}

(* A merge that forgets the part of the last old segment that sticks out.  *)
MutMerge(segs, first, last) ==
  LET hit == Overlapping(segs, first, last) IN
  Segment(Min({first} \cup {g.start_seqnum_inclusive : g \in hit}), last)

(* The segment made of first .. last and all segments it overlaps.         *)
segment_merge(segs, first, last) ==
  LET hit == Overlapping(segs, first, last) IN
  Segment(Min({first} \cup {g.start_seqnum_inclusive : g \in hit}),
          Max({last} \cup {g.end_seqnum_inclusive : g \in hit}))

(* An in-order merge that does not look at the segment it reaches into.    *)
MutReceive(rb, seqnum, data) ==
  LET last  == seqnum + Len(data) - 1
      fresh == seqnum <= get_next_byte_expected_seqnum(rb)
  IN  [rb EXCEPT
         !.buffer = CopyIn(@, seqnum_to_index_recv(rb, seqnum), data),
         !.next_byte_expected_index =
            IF fresh THEN seqnum_to_index_recv(rb, last + 1) ELSE @,
         !.segs = IF fresh THEN @ ELSE @ \cup {Segment(seqnum, last)}]

(* The three branches of recv_buffer_receive at once (with no segments     *)
(* segment_merge returns the packet itself): what the packet is merged to  *)
(* either extends the in-order data or joins the segments.                 *)
recv_buffer_receive(rb, seqnum, data) ==
  LET last == seqnum + Len(data) - 1
      seg  == segment_merge(rb.segs, seqnum, last)
      rest == rb.segs \ Overlapping(rb.segs, seqnum, last)
      in_order ==
        seg.start_seqnum_inclusive <= get_next_byte_expected_seqnum(rb)
  IN  [rb EXCEPT
         !.buffer = CopyIn(@, seqnum_to_index_recv(rb, seqnum), data),
         !.next_byte_expected_index =
            IF in_order
              THEN seqnum_to_index_recv(rb, seg.end_seqnum_inclusive + 1)
              ELSE @,
         !.segs = IF in_order THEN rest ELSE rest \cup {seg}]
=============================================================================
