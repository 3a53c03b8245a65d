----------------------------- MODULE SendStream -----------------------------
(***************************************************************************)
(* The send buffer at work: the application thread writes into it          *)
(* (cmu_write), the backend thread packs bytes out of it (the loop bodies  *)
(* of multiple_send and resend_unacknowledged) and removes what the peer   *)
(* acknowledges (handle_message).  Every operation runs under send_lock    *)
(* and is one action.  The peer is honest: it acknowledges bytes it got,   *)
(* but its acknowledgements may arrive late, twice or in any order.        *)
(***************************************************************************)
EXTENDS SendBuffer

CONSTANTS
  ISN,        \* the initial sequence number of the stream (rand() in the code)
  MaxStream   \* how many bytes the application writes, at most

ASSUME StreamAssumption == ISN \in Nat /\ MaxStream \in Nat

VARIABLES
  sb,        \* sock->send_buf
  wrote,     \* history: how many bytes the application has written
  transmitted, \* history: the highest sequence number ever put in a packet
  pkt,       \* history: the last packet given to sendto
  crashed    \* the process died in a memcpy

vars == <<sb, wrote, transmitted, pkt, crashed>>

NoPacket == [kind |-> "none", seq |-> ISN, payload |-> <<>>]

Init ==
  /\ sb = send_buffer_initialize(ISN)
  /\ wrote = 0
  /\ transmitted = ISN
  /\ pkt = NoPacket
  /\ crashed = FALSE

(* cmu_write, one round of its loop: as much of the data as there is room. *)
Write(n) ==
  /\ n <= send_buffer_max_write(sb)
  /\ wrote + n <= MaxStream
  /\ sb' = send_buffer_write(sb, StreamBytes(wrote + 1, n))
  /\ wrote' = wrote + n
  /\ UNCHANGED <<transmitted, pkt, crashed>>

(* multiple_send, one round of its loop: n never-sent bytes in a packet.   *)
SendFresh(n) ==
  LET start_index == (sb.last_byte_sent_index + 1) % DEFAULT_BUFF_SIZE IN
  /\ n <= send_buffer_max_new_dump(sb)
  /\ UNCHANGED wrote
  /\ IF DumpCrashes(sb, start_index, n)
     THEN /\ crashed' = TRUE
          /\ UNCHANGED <<sb, transmitted, pkt>>
     ELSE /\ pkt' = [kind |-> "fresh",
                     seq |-> get_last_byte_sent_seqnum(sb) + 1,
                     payload |-> safe_memcpy_from_sendbuf(sb, start_index, n)]
          /\ transmitted' = MAX(transmitted, get_last_byte_sent_seqnum(sb) + n)
          /\ sb' = send_buffer_dump(sb, start_index, n)
          /\ UNCHANGED crashed

(* resend_unacknowledged, one round of its loop: n bytes that were sent    *)
(* before, copied straight out of the array from num_sent bytes past the   *)
(* last acknowledged one on.                                               *)
Resend(num_sent, n) ==
  LET curr_index == (sb.last_byte_acked_index + 1 + num_sent)
                      % DEFAULT_BUFF_SIZE
  IN
  /\ num_sent + n <= get_unacknowledged_count(sb)
  /\ pkt' = [kind |-> "resend",
             seq |-> sb.last_byte_acked_seqnum + 1 + num_sent,
             payload |-> Linear(sb.buffer, curr_index, n)]
  /\ UNCHANGED <<sb, wrote, transmitted, crashed>>

(* handle_message: an acknowledgement of any prefix of what was ever       *)
(* transmitted, which covers the late and the repeated ones.               *)
Acknowledge(acknum) ==
  /\ acknum \in ISN + 1 .. transmitted + 1
  /\ sb' = send_buffer_update_ack(sb, acknum)
  /\ UNCHANGED <<wrote, transmitted, pkt, crashed>>

Next ==
  /\ ~crashed
  /\ \/ \E n \in 1 .. DEFAULT_BUFF_SIZE : Write(n)
     \/ \E n \in 1 .. DEFAULT_BUFF_SIZE : SendFresh(n)
     \/ \E num_sent \in 0 .. DEFAULT_BUFF_SIZE, n \in 1 .. DEFAULT_BUFF_SIZE :
          Resend(num_sent, n)
     \/ \E acknum \in ISN + 1 .. ISN + MaxStream + 1 : Acknowledge(acknum)

Spec == Init /\ [][Next]_vars

-----------------------------------------------------------------------------
(* Type invariant: all three indices stay inside the array, and the        *)
(* history variables are counts and packets of stream bytes.               *)
TypeOK ==
  /\ sb \in SendBufferType
  /\ wrote \in 0 .. MaxStream
  /\ transmitted \in Nat
  /\ pkt \in [kind : {"none", "fresh", "resend"}, seq : Nat, payload : Seq(Byte)]
  /\ crashed \in BOOLEAN

(* The sequence numbers the code recomputes from the three indices and     *)
(* last_byte_acked_seqnum (get_next_byte_written_seqnum,                   *)
(* get_last_byte_sent_seqnum) are those of the stream: no write, dump or   *)
(* acknowledgement, in any order and across any number of wraps, makes the *)
(* ring forget or invent a byte.                                           *)
RingTracksStream ==
  /\ get_next_byte_written_seqnum(sb) = ISN + wrote + 1
  /\ get_last_byte_sent_seqnum(sb) = transmitted
  /\ ISN <= sb.last_byte_acked_seqnum
  /\ sb.last_byte_acked_seqnum <= transmitted
  /\ transmitted <= ISN + wrote
  /\ ISN + wrote - sb.last_byte_acked_seqnum <= DEFAULT_BUFF_SIZE - 1

(* The assertions of seqnum_to_index_send (send_buffer.c:18-19) hold for   *)
(* every acknowledgement an honest peer can have in flight and that        *)
(* send_buffer_update_ack acts on, however old it is.                      *)
AckAssertionsHold ==
  \A acknum \in ISN + 1 .. transmitted + 1 :
    acknum - 1 > sb.last_byte_acked_seqnum => InSendRing(sb, acknum - 1)

(* A byte the application wrote stays in its slot until it is              *)
(* acknowledged: what a retransmission will look for is still there.       *)
UnackedBytesKept ==
  \A p \in (sb.last_byte_acked_seqnum - ISN + 1) .. wrote :
    sb.buffer[seqnum_to_index_send(sb, ISN + p)] = p

(* A packet never carries a byte at the wrong place of the stream: each    *)
(* payload byte is the one its sequence number says, or Junk that was read *)
(* past the end of the array.                                              *)
PayloadInPlace ==
  \A k \in DOMAIN pkt.payload : pkt.payload[k] \in {pkt.seq + k - 1 - ISN, Junk}

PayloadExact ==
  \A k \in DOMAIN pkt.payload : pkt.payload[k] = pkt.seq + k - 1 - ISN

(* Until the stream comes back to slot 0 every packet, sent first or       *)
(* again, carries exactly the bytes its sequence number says, and no copy  *)
(* out of the array fails.                                                 *)
FirstLapExact == wrote < DEFAULT_BUFF_SIZE => ~crashed /\ PayloadExact

(* Seen through its sequence numbers the ring is a window over the stream. *)
Window == INSTANCE StreamWindow WITH
  Limit   <- DEFAULT_BUFF_SIZE - 1,
  acked   <- sb.last_byte_acked_seqnum - ISN,
  sent    <- get_last_byte_sent_seqnum(sb) - ISN,
  written <- get_next_byte_written_seqnum(sb) - ISN - 1

(* Refinement: every operation of send_buffer.c is a step of that window   *)
(* or leaves it alone.                                                     *)
ImplementsWindow == Window!Spec

-----------------------------------------------------------------------------
(* What the code was meant to do, and does until the stream comes back to  *)
(* slot 0.                                                                 *)

(* "dump 'len' bytes starting from 'last_byte_acked_index' into 'data' for *)
(* sendto()" (send_buffer.h:33): a dump returns, and every packet carries  *)
(* the stream bytes its sequence number says, also one that is sent again. *)
PacketsDeliverStream == ~crashed /\ PayloadExact
=============================================================================
