----------------------------- MODULE Connection -----------------------------
(***************************************************************************)
(* Two sockets in state ESTABLISHED (backend.c): each has a send buffer, a *)
(* receive buffer and a window_t, an application thread that calls         *)
(* cmu_write and cmu_read, and a backend thread that goes round the loop   *)
(* of begin_backend:                                                       *)
(*                                                                         *)
(*    "check"  check_for_data: handle one packet if there is one           *)
(*    "reply"  second half of handle_message: acknowledge data; between    *)
(*             the two the application may read (recv_lock is released)    *)
(*    "send"   resend_unacknowledged after a timeout, else multiple_send   *)
(*                                                                         *)
(* The "send" part computes the window to advertise without recv_lock (see *)
(* AdvertisedWindows).                                                     *)
(*                                                                         *)
(* The network is UDP: it loses, delays, reorders and duplicates.  Whether *)
(* DEFAULT_TIMEOUT has passed since the last acknowledgement is a free     *)
(* choice.  Closing a socket, and with it the test of sock->dying at the   *)
(* head of the loop, is not part of this module.                           *)
(***************************************************************************)
EXTENDS SendBuffer, RecvBuffer, Packet

CONSTANTS
  MSS,              \* the largest payload of a packet (cmu_packet.h:42)
  CP1_WINDOW_SIZE,  \* the window assumed until the peer advertises one
  ISN,              \* the initial sequence number of each endpoint
  MaxStream,        \* bound: how many bytes each application writes
  MaxInFlight,      \* bound: packets in the network, per destination
  Duplication       \* whether the network duplicates: BOOLEAN or {FALSE}

Endpoint == {"client", "server"}

ASSUME ConnectionAssumption ==
  /\ MSS \in 1 .. 2^16 - 1 - HeaderSize
  /\ CP1_WINDOW_SIZE \in Nat
  /\ ISN \in [Endpoint -> Nat]
  /\ MaxStream \in [Endpoint -> Nat]
  /\ MaxInFlight \in Nat \ {0}
  /\ Duplication \subseteq BOOLEAN /\ FALSE \in Duplication

peer(e) == IF e = "client" THEN "server" ELSE "client"

VARIABLES
  sb,         \* sock->send_buf of each endpoint
  rb,         \* sock->recv_buf
  window,     \* sock->window
  pc,         \* where the backend thread is
  wrapped,    \* what the backend may have seen of rb before a cmu_read
  net,        \* the packets in the network
  alive,      \* FALSE: the process died in a memcpy
  wrote,      \* history: how many bytes the application has written
  delivered   \* history: what kinds of bytes cmu_read has returned

vars == <<sb, rb, window, pc, wrapped, net, alive, wrote, delivered>>

(* The packet that e sends, as the set of it, the way every function that  *)
(* sends one composes it.  The sequence number of a packet without bytes   *)
(* is never looked at: 0.                                                  *)
Compose(e, seqnum, acknum, flags, adv_window, payload) ==
  create_packet(peer(e), seqnum, acknum, HeaderSize,
                uint16(HeaderSize + Len(payload)), flags, uint16(adv_window), payload)

DataPacket(e, seqnum, adv_window, payload) ==
  Compose(e, seqnum, window[e].next_seq_expected, {"ACK"}, adv_window, payload)

Init ==
  /\ sb = [e \in Endpoint |-> send_buffer_initialize(ISN[e])]
  /\ rb = [e \in Endpoint |-> recv_buffer_initialize(ISN[peer(e)])]
  /\ window = [e \in Endpoint |->
                 [next_seq_expected      |-> ISN[peer(e)] + 1,
                  last_ack_received      |-> ISN[e] + 1,
                  rcvd_advertised_window |-> CP1_WINDOW_SIZE]]
  /\ pc = [e \in Endpoint |-> "check"]
  /\ wrapped = [e \in Endpoint |-> FALSE]
  /\ net = {}
  /\ alive = [e \in Endpoint |-> TRUE]
  /\ wrote = [e \in Endpoint |-> 0]
  /\ delivered = [e \in Endpoint |-> {}]

-----------------------------------------------------------------------------
(* The network.                                                            *)

(* sendto: any part of what is sent is lost, and what is not lost stays in *)
(* the network or in the socket of the receiver until it is handled; each  *)
(* destination has room for MaxInFlight packets.                           *)
Transmit(packets) ==
  \E arriving \in SUBSET packets :
    /\ net' = net \cup arriving
    /\ \A e \in Endpoint : Cardinality({p \in net' : p.dst = e}) <= MaxInFlight

-----------------------------------------------------------------------------
(* The application threads.                                                *)

(* cmu_write, one round of its loop under send_lock.                       *)
Write(e, n) ==
  /\ alive[e]
  /\ n <= send_buffer_max_write(sb[e])
  /\ wrote[e] + n <= MaxStream[e]
  /\ sb' = [sb EXCEPT ![e] = send_buffer_write(@, StreamBytes(wrote[e] + 1, n))]
  /\ wrote' = [wrote EXCEPT ![e] = @ + n]
  /\ UNCHANGED <<rb, window, pc, wrapped, net, alive, delivered>>

(* The byte at stream position p came out as b.                            *)
Kind(b, p) == IF b = p THEN "right" ELSE IF b = Junk THEN "junk" ELSE "wrong"

(* cmu_read with room for `length` bytes, under recv_lock.                 *)
Read(e, length) ==
  LET read_len == MIN(length, recv_buffer_max_read(rb[e]))
      bytes    == safe_memcpy_from_recvbuf(rb[e], read_len)
      nread    == rb[e].last_byte_read_seqnum - ISN[peer(e)]
  IN
  /\ alive[e]
  /\ recv_buffer_max_read(rb[e]) > 0
  /\ rb' = [rb EXCEPT ![e] = recv_buffer_read(@, read_len)]
  /\ delivered' = [delivered EXCEPT ![e] =
                     @ \cup {Kind(bytes[k], nread + k) : k \in 1 .. read_len}]
  /\ UNCHANGED <<sb, window, pc, wrapped, net, alive, wrote>>

-----------------------------------------------------------------------------
(* The backend threads: receiving.                                         *)

(* The maximum forgotten: an old acknowledgement moves the window back.    *)
MutLastAck(w, acknum) == acknum

(* "update ACK" of handle_message, as far as window_t goes.                *)
LastAck(w, acknum) == MAX(w.last_ack_received, acknum)

(* The comparison of get_next_byte_expected_seqnum (recv_buffer.c:43).     *)
WrapsAround(buf) == buf.next_byte_expected_index <= buf.last_byte_read_index

(* The backend goes on to its sending part, where it looks at rb without a *)
(* lock.                                                                   *)
GoSend(e) ==
  /\ pc' = [pc EXCEPT ![e] = "send"]
  /\ wrapped' = [wrapped EXCEPT ![e] = WrapsAround(rb'[e])]

(* check_for_data finds nothing.                                           *)
NoData(e) ==
  /\ alive[e] /\ pc[e] = "check"
  /\ UNCHANGED rb
  /\ GoSend(e)
  /\ UNCHANGED <<sb, window, net, alive, wrote, delivered>>

(* check_for_data and handle_message up to the second lock of recv_lock;   *)
(* the packet may have been duplicated on its way.                         *)
HandleMessage(e, p, again) ==
  LET size   == get_payload_len(p)
      stored == IF size > 0 /\ recv_buffer_can_receive(rb[e], p.seq, size) = 0
                  THEN recv_buffer_receive(rb[e], p.seq, get_payload(p))
                  ELSE rb[e]
  IN
  /\ alive[e] /\ pc[e] = "check"
  /\ p.dst = e
  /\ net' = IF again THEN net ELSE net \ {p}
  /\ sb' = IF p.ack = window[e].last_ack_received THEN sb
           ELSE [sb EXCEPT ![e] = send_buffer_update_ack(@, p.ack)]
  /\ rb' = [rb EXCEPT ![e] = stored]
  /\ window' = [window EXCEPT ![e] =
                  [last_ack_received      |-> LastAck(@, p.ack),
                   rcvd_advertised_window |-> p.adv_window,
                   next_seq_expected      |->
                     IF size > 0 THEN get_next_byte_expected_seqnum(stored)
                     ELSE @.next_seq_expected]]
  /\ IF size = 0 THEN GoSend(e)
     ELSE pc' = [pc EXCEPT ![e] = "reply"] /\ UNCHANGED wrapped
  /\ UNCHANGED <<alive, wrote, delivered>>

(* The end of handle_message: a pure ACK, with the window as it is now.    *)
PureAck(e) == DataPacket(e, 0, recv_buffer_max_receive(rb[e]), <<>>)

Reply(e) ==
  /\ alive[e] /\ pc[e] = "reply"
  /\ Transmit(PureAck(e))
  /\ UNCHANGED rb
  /\ GoSend(e)
  /\ UNCHANGED <<sb, window, alive, wrote, delivered>>

-----------------------------------------------------------------------------
(* The backend threads: sending.                                           *)

(* recv_buffer_max_receive as multiple_send and resend_unacknowledged call *)
(* it, without recv_lock, in the unoptimised build of the Makefile: the    *)
(* indices are compared, then loaded again, and a cmu_read may come        *)
(* between.  Seen are the branch taken before and the indices after it,    *)
(* in the 16 bits of the packet header.  (last_byte_read_seqnum is loaded  *)
(* twice as well, but stored before the index: whatever pair of its values *)
(* is seen, the window is the one before or after some cmu_read.)          *)
MaxReceiveAfter(buf, wraps) ==
  LET distance == buf.next_byte_expected_index - buf.last_byte_read_index
  IN  (DEFAULT_BUFF_SIZE
         - (IF wraps THEN DEFAULT_BUFF_SIZE + distance ELSE distance)) % 2^16

AdvertisedWindows(e) ==
  {MaxReceiveAfter(rb[e], w) : w \in {wrapped[e], WrapsAround(rb[e])}}

(* The sending part is over.                                               *)
GoCheck(e) ==
  /\ pc' = [pc EXCEPT ![e] = "check"]
  /\ wrapped' = [wrapped EXCEPT ![e] = FALSE]

(* The pieces into which the loops of multiple_send and                    *)
(* resend_unacknowledged cut target_send_len bytes.                        *)
Pieces(target_send_len) ==
  {[offset |-> o, len |-> MIN(target_send_len - o, MSS)] :
     o \in {k * MSS : k \in 0 .. target_send_len - 1} \cap 0 .. target_send_len - 1}

(* How much never-sent data multiple_send sends.                           *)
FreshLength(e) ==
  LET num_unacknowledged == get_unacknowledged_count(sb[e])
      rcvd_window        == window[e].rcvd_advertised_window
  IN  IF num_unacknowledged < rcvd_window
        THEN MIN(send_buffer_max_new_dump(sb[e]), rcvd_window - num_unacknowledged)
        ELSE 0

(* The probe forgotten: a closed window sends nothing.                     *)
MutResendLength(e) ==
  MIN(get_unacknowledged_count(sb[e]), window[e].rcvd_advertised_window)

(* How much resend_unacknowledged sends: what the window allows, but at    *)
(* least one byte, the zero window probe.                                  *)
ResendLength(e) ==
  MAX(1, MIN(get_unacknowledged_count(sb[e]), window[e].rcvd_advertised_window))

(* A retransmission that goes on from the last byte sent.                  *)
MutResend(e, adv_window) ==
  DataPacket(e, get_last_byte_sent_seqnum(sb[e]), adv_window,
             Linear(sb[e].buffer, sb[e].last_byte_sent_index, 1))

(* resend_unacknowledged: straight out of the array, from the first        *)
(* unacknowledged byte on.                                                 *)
resend_unacknowledged(e, adv_window) ==
  UNION {LET curr_index == (sb[e].last_byte_acked_index + 1 + c.offset)
                             % DEFAULT_BUFF_SIZE
         IN  DataPacket(e, sb[e].last_byte_acked_seqnum + 1 + c.offset, adv_window,
                        Linear(sb[e].buffer, curr_index, c.len)) :
           c \in Pieces(ResendLength(e))}

Timeout(e, adv_window) ==
  /\ alive[e] /\ pc[e] = "send"
  /\ get_unacknowledged_count(sb[e]) > 0
  /\ Transmit(resend_unacknowledged(e, adv_window))
  /\ GoCheck(e)
  /\ UNCHANGED <<sb, rb, window, alive, wrote, delivered>>

(* multiple_send: every piece is dumped from where the one before ended,   *)
(* and sent before the next is dumped.                                     *)
multiple_send(e, adv_window) ==
  LET pieces == Pieces(FreshLength(e))
      start_index(c) ==
        (sb[e].last_byte_sent_index + 1 + c.offset) % DEFAULT_BUFF_SIZE
      packet(c) ==
        DataPacket(e, get_last_byte_sent_seqnum(sb[e]) + 1 + c.offset, adv_window,
                   safe_memcpy_from_sendbuf(sb[e], start_index(c), c.len))
      crashing == {c \in pieces : DumpCrashes(sb[e], start_index(c), c.len)}
      dumped == {c \in pieces : \A d \in crashing : c.offset < d.offset}
      final == CHOOSE c \in dumped : \A d \in dumped : d.offset <= c.offset
  IN
  /\ Transmit(UNION {packet(c) : c \in dumped})
  /\ sb' = IF dumped = {} THEN sb
           ELSE [sb EXCEPT ![e] =
                   send_buffer_dump(@, start_index(final), final.len)]
  /\ alive' = [alive EXCEPT ![e] = (crashing = {})]

Send(e, adv_window) ==
  /\ alive[e] /\ pc[e] = "send"
  /\ multiple_send(e, adv_window)
  /\ GoCheck(e)
  /\ UNCHANGED <<rb, window, wrote, delivered>>

-----------------------------------------------------------------------------
Next ==
  \E e \in Endpoint :
    \/ \E n \in 1 .. DEFAULT_BUFF_SIZE : Write(e, n)
    \/ \E length \in 1 .. DEFAULT_BUFF_SIZE : Read(e, length)
    \/ NoData(e)
    \/ \E p \in net, again \in Duplication : HandleMessage(e, p, again)
    \/ Reply(e)
    \/ \E w \in AdvertisedWindows(e) : Timeout(e, w)
    \/ \E w \in AdvertisedWindows(e) : Send(e, w)

Spec == Init /\ [][Next]_vars

-----------------------------------------------------------------------------
next_expected(e) == get_next_byte_expected_seqnum(rb[e])

(* Type invariant.                                                         *)
TypeOK ==
  /\ sb \in [Endpoint -> SendBufferType]
  /\ rb \in [Endpoint -> RecvBufferType]
  /\ window \in [Endpoint -> [next_seq_expected : Nat, last_ack_received : Nat,
                              rcvd_advertised_window : Nat]]
  /\ pc \in [Endpoint -> {"check", "reply", "send"}]
  /\ wrapped \in [Endpoint -> BOOLEAN]
  /\ net \subseteq PacketType(Endpoint, Seq(Byte))
  /\ alive \in [Endpoint -> BOOLEAN]
  /\ wrote \in [Endpoint -> Nat] /\ \A e \in Endpoint : wrote[e] <= MaxStream[e]
  /\ delivered \in [Endpoint -> SUBSET {"right", "junk", "wrong"}]

(* window_t repeats what the two buffers know; handle_message updates them *)
(* apart, with different comparisons, and they still always agree.         *)
WindowInStep ==
  \A e \in Endpoint :
    /\ window[e].last_ack_received = sb[e].last_byte_acked_seqnum + 1
    /\ window[e].next_seq_expected = next_expected(e)

(* The sender forgets a byte only when the receiver has it in order, and   *)
(* the receiver has only what was sent, whatever was lost, repeated or     *)
(* overtaken on the way.                                                   *)
NothingLost ==
  \A e \in Endpoint :
    /\ sb[e].last_byte_acked_seqnum < next_expected(peer(e))
    /\ next_expected(peer(e)) <= get_last_byte_sent_seqnum(sb[e]) + 1

(* No acknowledgement in the network can trip the assertions of            *)
(* seqnum_to_index_send (send_buffer.c:18-19) or acknowledge a byte that   *)
(* was not sent.                                                           *)
AcksInFlightValid ==
  \A p \in net :
    /\ p.ack <= get_last_byte_sent_seqnum(sb[p.dst]) + 1
    /\ p.ack - 1 > sb[p.dst].last_byte_acked_seqnum =>
         InSendRing(sb[p.dst], p.ack - 1)

(* The window of packet p promises no more room than its sender has, and   *)
(* as it never takes back room, than it had.                               *)
Backed(p) ==
  p.ack + p.adv_window
    <= rb[peer(p.dst)].last_byte_read_seqnum + DEFAULT_BUFF_SIZE

(* The window of a pure acknowledgement is backed, however old it is: the  *)
(* code composes it from a number and a window read under two different    *)
(* locks of recv_lock.                                                     *)
PureAcksBacked == \A p \in net : p.payload = <<>> => Backed(p)

(* "not holding recv_lock here; hopefully this will not cause problem"     *)
(* (backend.c:474): so are the windows of the packets that carry data.     *)
WindowsBacked == \A p \in net : Backed(p)

(* The application never reads a byte of the stream at the wrong place.    *)
NeverMisplaced == \A e \in Endpoint : "wrong" \notin delivered[e]

(* "the advertised window is 0, do zero window probe" (backend.c:482): a   *)
(* connection never comes to rest with data to send and room to receive    *)
(* it.  At rest, nothing is in the network or due to be sent again, and    *)
(* the receiver has nothing to say.                                        *)
AtRest == net = {} /\ \A e \in Endpoint :
            alive[e] /\ pc[e] # "reply" /\ get_unacknowledged_count(sb[e]) = 0
                     /\ FreshLength(e) = 0

NoWindowDeadlock ==
  AtRest => \A e \in Endpoint :
              send_buffer_max_new_dump(sb[e]) > 0 =>
                recv_buffer_max_receive(rb[peer(e)]) = 0

-----------------------------------------------------------------------------
(* Of the bytes that flow from e to its peer: how many e has forgotten,    *)
(* how many the peer has in order, and how many were read.                 *)
AckedBytes(e)    == sb[e].last_byte_acked_seqnum - ISN[e]
ReceivedBytes(e) == next_expected(peer(e)) - 1 - ISN[e]
ReadBytes(e)     == rb[peer(e)].last_byte_read_seqnum - ISN[e]

ToServer == INSTANCE ReliableStream WITH
  Limit    <- DEFAULT_BUFF_SIZE - 1,
  written  <- wrote["client"],         acked <- AckedBytes("client"),
  received <- ReceivedBytes("client"), read  <- ReadBytes("client")

ToClient == INSTANCE ReliableStream WITH
  Limit    <- DEFAULT_BUFF_SIZE - 1,
  written  <- wrote["server"],         acked <- AckedBytes("server"),
  received <- ReceivedBytes("server"), read  <- ReadBytes("server")

(* Refinement: both directions are reliable streams.                       *)
ImplementsStreams == ToServer!Spec /\ ToClient!Spec

-----------------------------------------------------------------------------
(* Fairness.  The backend thread never rests.  A packet sent again and     *)
(* again gets through in the end, and is handled: a peer polls its socket  *)
(* in every round.  The timer fires when no acknowledgement comes.  The    *)
(* receiving application keeps reading.                                    *)
Backend(e) ==
  \/ NoData(e)
  \/ \E p \in net, again \in Duplication : HandleMessage(e, p, again)
  \/ Reply(e)
  \/ \E w \in AdvertisedWindows(e) : Timeout(e, w) \/ Send(e, w)

Fairness ==
  \A e \in Endpoint :
    /\ WF_vars(Backend(e))
    /\ SF_vars(\E p \in net : HandleMessage(e, p, FALSE))
    /\ SF_vars(\E w \in AdvertisedWindows(e) :
                 Timeout(e, w) /\ resend_unacknowledged(e, w) \subseteq net')
    /\ SF_vars(Reply(e) /\ PureAck(e) \subseteq net')
    /\ WF_vars(\E length \in 1 .. DEFAULT_BUFF_SIZE : Read(e, length))

FairSpec == Spec /\ Fairness

(* What was sent is eventually acknowledged, whatever the windows, unless  *)
(* the sending process died: the probe of resend_unacknowledged gets past  *)
(* a window that an old packet closed.  (The streams are finite, so this   *)
(* leaves no byte out.)                                                    *)
EventuallyAcked ==
  []<>(get_unacknowledged_count(sb["client"]) = 0 \/ ~alive["client"])
=============================================================================
