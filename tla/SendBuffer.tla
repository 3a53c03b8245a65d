----------------------------- MODULE SendBuffer -----------------------------
(***************************************************************************)
(* send_buffer.c: the ring that holds the bytes the application wrote      *)
(* until the peer acknowledges them.  A send_buffer_t is a record with the *)
(* fields of the C struct, except for                                      *)
(*   - capacity, the constant DEFAULT_BUFF_SIZE;                           *)
(*   - last_byte_acked_ts, the time of the last acknowledgement: whether   *)
(*     the retransmission timer has expired is a free choice of the        *)
(*     modules that use the buffer.                                        *)
(* Sequence numbers are natural numbers: a stream that reaches 2^32 is     *)
(* out of the scope of this module.                                        *)
(***************************************************************************)
EXTENDS Ring

SendBufferType ==
  [last_byte_acked_seqnum  : Nat,
   last_byte_acked_index   : Index,
   last_byte_sent_index    : Index,
   next_byte_written_index : Index,
   buffer                  : [Index -> Byte]]

send_buffer_initialize(isn) ==
  [last_byte_acked_seqnum  |-> isn,
   last_byte_acked_index   |-> 0,
   last_byte_sent_index    |-> 0,
   next_byte_written_index |-> 1,
   buffer                  |-> [i \in Index |-> Junk]]

-----------------------------------------------------------------------------
(* Sequence numbers and indices.                                           *)

(* The two assertions of seqnum_to_index_send.                             *)
InSendRing(sb, seqnum) ==
  /\ seqnum >= sb.last_byte_acked_seqnum
  /\ seqnum < sb.last_byte_acked_seqnum + DEFAULT_BUFF_SIZE

seqnum_to_index_send(sb, seqnum) ==
  (sb.last_byte_acked_index + (seqnum - sb.last_byte_acked_seqnum))
    % DEFAULT_BUFF_SIZE

(* A wrap test that forgets the full ring.                                 *)
MutWrittenSeqnum(sb) ==
  sb.last_byte_acked_seqnum +
    IF sb.next_byte_written_index >= sb.last_byte_acked_index
      THEN sb.next_byte_written_index - sb.last_byte_acked_index
      ELSE DEFAULT_BUFF_SIZE - sb.last_byte_acked_index
             + sb.next_byte_written_index

(* The next free slot is never the last acknowledged one in an empty ring, *)
(* so equal indices mean a full ring.                                      *)
get_next_byte_written_seqnum(sb) ==
  sb.last_byte_acked_seqnum +
    IF sb.next_byte_written_index > sb.last_byte_acked_index
      THEN sb.next_byte_written_index - sb.last_byte_acked_index
      ELSE DEFAULT_BUFF_SIZE - sb.last_byte_acked_index
             + sb.next_byte_written_index

(* Equal indices mean here that everything sent was acknowledged.          *)
get_last_byte_sent_seqnum(sb) ==
  sb.last_byte_acked_seqnum +
    IF sb.last_byte_sent_index >= sb.last_byte_acked_index
      THEN sb.last_byte_sent_index - sb.last_byte_acked_index
      ELSE DEFAULT_BUFF_SIZE - sb.last_byte_acked_index
             + sb.last_byte_sent_index

-----------------------------------------------------------------------------
(* How much can be written, sent for the first time, or retransmitted.     *)

(* One byte too generous: the slot of the last acknowledged byte is used.  *)
MutMaxWrite(sb) ==
  DEFAULT_BUFF_SIZE + 1
    - (get_next_byte_written_seqnum(sb) - sb.last_byte_acked_seqnum)

send_buffer_max_write(sb) ==
  DEFAULT_BUFF_SIZE
    - (get_next_byte_written_seqnum(sb) - sb.last_byte_acked_seqnum)

send_buffer_max_new_dump(sb) ==
  get_next_byte_written_seqnum(sb) - get_last_byte_sent_seqnum(sb) - 1

get_unacknowledged_count(sb) ==
  get_last_byte_sent_seqnum(sb) - sb.last_byte_acked_seqnum

-----------------------------------------------------------------------------
(* The operations.                                                         *)

(* A copy that puts the part after the wrap one slot too far.              *)
MutMemcpyTo(sb, data) ==
  CopyIn(sb.buffer, (sb.next_byte_written_index + 1) % DEFAULT_BUFF_SIZE, data)

safe_memcpy_to_sendbuf(sb, data) ==
  CopyIn(sb.buffer, sb.next_byte_written_index, data)

(* The index of the next byte runs past the end of the array.              *)
MutWrite(sb, data) ==
  [sb EXCEPT
     !.buffer = safe_memcpy_to_sendbuf(sb, data),
     !.next_byte_written_index = @ + Len(data)]

send_buffer_write(sb, data) ==
  [sb EXCEPT
     !.buffer = safe_memcpy_to_sendbuf(sb, data),
     !.next_byte_written_index = (@ + Len(data)) % DEFAULT_BUFF_SIZE]

(* safe_memcpy_from_sendbuf takes its "wrap around" branch when end_index  *)
(* is at or before the last acknowledged slot.  Unless the bytes really    *)
(* continue at slot 0, len - tail_len is then negative, the second memcpy  *)
(* gets it as a huge unsigned size and the process dies.                   *)
DumpCrashes(sb, start_index, len) ==
  /\ start_index + len - 1 <= sb.last_byte_acked_index
  /\ len < DEFAULT_BUFF_SIZE - start_index

(* A dump that starts at the byte sent last.                               *)
MutMemcpyFrom(sb, start_index, len) == Linear(sb.buffer, start_index - 1, len)

(* Otherwise: one memcpy, or the tail of the array and then its head.      *)
safe_memcpy_from_sendbuf(sb, start_index, len) ==
  IF start_index + len - 1 > sb.last_byte_acked_index
    THEN Linear(sb.buffer, start_index, len)
    ELSE LET tail_len == DEFAULT_BUFF_SIZE - start_index IN
         Linear(sb.buffer, start_index, tail_len)
           \o Linear(sb.buffer, 0, len - tail_len)

(* send_buffer_dump moves last_byte_sent_index to the last byte dumped,    *)
(* unless that byte was sent before (it never is: multiple_send dumps      *)
(* from last_byte_sent_index + 1 on).                                      *)
MutDump(sb, start_index, len) ==
  [sb EXCEPT !.last_byte_sent_index = (start_index + len) % DEFAULT_BUFF_SIZE]

index_to_seqnum_send(sb, index) ==
  sb.last_byte_acked_seqnum +
    IF index >= sb.last_byte_acked_index
      THEN index - sb.last_byte_acked_index
      ELSE DEFAULT_BUFF_SIZE - sb.last_byte_acked_index + index

send_buffer_dump(sb, start_index, len) ==
  LET end_index == (start_index + len - 1) % DEFAULT_BUFF_SIZE IN
  IF index_to_seqnum_send(sb, end_index) >= get_last_byte_sent_seqnum(sb)
    THEN [sb EXCEPT !.last_byte_sent_index = end_index]
    ELSE sb

(* The acknowledgement number taken for the last byte received.            *)
MutUpdateAck(sb, hdr_ack) ==
  IF hdr_ack > sb.last_byte_acked_seqnum
    THEN [sb EXCEPT !.last_byte_acked_seqnum = hdr_ack,
                    !.last_byte_acked_index = seqnum_to_index_send(sb, hdr_ack)]
    ELSE sb

(* Any acknowledgement other than the last is taken, an old one too.       *)
MutStaleAck(sb, hdr_ack) ==
  LET acked == hdr_ack - 1 IN
  [sb EXCEPT !.last_byte_acked_seqnum = acked,
             !.last_byte_acked_index = seqnum_to_index_send(sb, acked)]

(* hdr_ack is the next byte the peer expects; an old one changes nothing.  *)
send_buffer_update_ack(sb, hdr_ack) ==
  LET acked == hdr_ack - 1 IN
  IF acked > sb.last_byte_acked_seqnum
    THEN [sb EXCEPT !.last_byte_acked_seqnum = acked,
                    !.last_byte_acked_index = seqnum_to_index_send(sb, acked)]
    ELSE sb
=============================================================================
