-------------------------- MODULE ConnectionProofs --------------------------
(***************************************************************************)
(* Proofs about Connection, for every capacity, every MSS, all initial     *)
(* sequence numbers, streams of every length and any number of packets in  *)
(* the network.                                                            *)
(*                                                                         *)
(* The inductive invariant says of each direction that the receiver has    *)
(* only bytes that were sent and has every byte that the sender forgot,    *)
(* and of each packet that its bytes are in their places and were sent,    *)
(* that its acknowledgement is of bytes its sender has, and that a pure    *)
(* acknowledgement promises only room there is.  What it says of a packet  *)
(* only compares it with numbers of its sender that never decrease, so it  *)
(* stays true however long the packet is under way and however often it    *)
(* arrives.                                                                *)
(***************************************************************************)
EXTENDS Connection, BufferProofs

lastRead(r) == r.last_byte_read_seqnum
expected(r) == get_next_byte_expected_seqnum(r)

-----------------------------------------------------------------------------
(* One direction: s sends to r.                                            *)

(* What r holds and the application has not read is the byte it stands     *)
(* for, or Junk, if the stream has come back to slot 0.                    *)
HeldInPlace(r, s, isn) ==
  \A q \in Nat : lastRead(r) < q /\ Known(r, q) =>
    Fits(r.buffer[seqnum_to_index_recv(r, q)], q - isn, s, isn)

RecvGood(r, s, isn) ==
  /\ r \in RecvBufferType /\ Sound(r)
  /\ isn <= lastRead(r)
  /\ HeldInPlace(r, s, isn)

InStep(s, r, isn) ==
  /\ SendGood(s, isn)
  /\ RecvGood(r, s, isn)
  /\ acked(s) < expected(r)
  /\ \A q \in Nat : Known(r, q) => q <= sent(s)

(* The bytes of a packet, as far as s has sent.                            *)
PayloadGood(p, s, isn) ==
  /\ p.payload \in Seq(Byte) /\ p.seq \in Nat
  /\ Len(p.payload) <= MSS
  /\ p.hlen = HeaderSize /\ p.plen = HeaderSize + Len(p.payload)
  /\ InPlace(p.payload, p.seq, s, isn)
  /\ Len(p.payload) > 0 => isn < p.seq /\ p.seq + Len(p.payload) - 1 <= sent(s)

(* What a packet says of the receive buffer r of its sender.  The packets  *)
(* in U (the last one of the handshake) advertise a window that nobody has *)
(* computed.                                                               *)
AckGood(p, r, other, U) ==
  /\ other < p.ack /\ p.ack <= expected(r)
  /\ p.payload = <<>> /\ p \notin U =>
       p.ack + p.adv_window <= lastRead(r) + DEFAULT_BUFF_SIZE

(* The receiver has no more than was sent.                                 *)
LEMMA ReceivedWasSent ==
  ASSUME NEW s, NEW r, NEW isn, InStep(s, r, isn)
  PROVE  /\ expected(r) \in Nat /\ lastRead(r) \in Nat /\ isn \in Nat
         /\ isn <= lastRead(r) /\ lastRead(r) < expected(r)
         /\ expected(r) <= lastRead(r) + DEFAULT_BUFF_SIZE
         /\ expected(r) <= sent(s) + 1
         /\ acked(s) < expected(r)
<1>1. r \in RecvBufferType /\ isn \in Nat /\ s \in SendBufferType /\ isn <= lastRead(r)
      /\ acked(s) < expected(r)
  BY DEF InStep, RecvGood, SendGood
<1>2. /\ expected(r) \in Nat /\ lastRead(r) \in Nat
      /\ lastRead(r) < expected(r) /\ expected(r) <= lastRead(r) + DEFAULT_BUFF_SIZE
  BY <1>1, NextExpectedBounds DEF expected, lastRead, RecvBufferType
<1>3. sent(s) \in Nat
  BY <1>1, SendBounds
<1> DEFINE q == expected(r) - 1
<1>4. q \in Nat /\ q < expected(r)
  <2>1. expected(r) > 0 /\ expected(r) \in Nat
    BY <1>2
  <2>. QED  BY <2>1
<1>5. Known(r, q)
  <2> HIDE DEF q
  <2>. QED  BY <1>4 DEF Known, expected
<1>6. q <= sent(s)
  <2> HIDE DEF q
  <2>. QED  BY <1>4, <1>5 DEF InStep
<1>7. expected(r) <= sent(s) + 1
  BY <1>2, <1>3, <1>6
<1>. QED  BY <1>1, <1>2, <1>7

(* The sender goes on: it writes, sends, or takes an acknowledgement of    *)
(* bytes the receiver has.                                                 *)
LEMMA SenderGoesOn ==
  ASSUME NEW s, NEW sn, NEW r, NEW isn, InStep(s, r, isn), SendGood(sn, isn),
         sent(s) <= sent(sn), written(s) <= written(sn), acked(sn) < expected(r)
  PROVE  InStep(sn, r, isn)
<1>1. sent(s) \in Nat /\ sent(sn) \in Nat
  BY SendBounds DEF InStep, SendGood
<1>2. ASSUME NEW q \in Nat, Known(r, q) PROVE q <= sent(sn)
  <2>1. q <= sent(s)
    BY <1>2 DEF InStep
  <2>. QED  BY <1>1, <2>1
<1>3. RecvGood(r, sn, isn)
  <2>1. s \in SendBufferType /\ sn \in SendBufferType /\ isn \in Nat
    BY DEF InStep, SendGood
  <2>2. \A b, pos : Fits(b, pos, s, isn) => Fits(b, pos, sn, isn)
    BY <2>1, StillFits
  <2>. QED  BY <2>2 DEF InStep, RecvGood, HeldInPlace
<1>. QED  BY <1>2, <1>3 DEF InStep

(* The receiver stores the bytes of a packet.                              *)
LEMMA ReceiverStores ==
  ASSUME NEW s, NEW r, NEW isn, InStep(s, r, isn),
         NEW p, PayloadGood(p, s, isn), Len(p.payload) > 0,
         recv_buffer_can_receive(r, p.seq, Len(p.payload)) = 0,
         NEW rn, rn = recv_buffer_receive(r, p.seq, p.payload)
  PROVE  /\ InStep(s, rn, isn)
         /\ lastRead(rn) = lastRead(r) /\ expected(r) <= expected(rn)
<1> DEFINE f == p.seq
           data == p.payload
           n == Len(data)
<1>1. /\ r \in RecvBufferType /\ Sound(r) /\ HeldInPlace(r, s, isn)
      /\ isn \in Nat /\ sent(s) \in Nat
  BY SendBounds DEF InStep, RecvGood, SendGood
<1>2. /\ f \in Nat /\ data \in Seq(Byte) /\ n > 0 /\ n \in Nat
      /\ InPlace(data, f, s, isn) /\ f + n - 1 <= sent(s)
  BY DEF PayloadGood
<1>3. Stored(r, rn, f, data)
  BY <1>1, <1>2, ReceiveExact DEF Accepts
<1>4. /\ rn \in RecvBufferType /\ Sound(rn) /\ Placed(r, rn.buffer, f, data)
      /\ lastRead(rn) = lastRead(r) /\ expected(rn) >= expected(r)
      /\ rn.last_byte_read_index = r.last_byte_read_index
  BY <1>3 DEF Stored, lastRead, expected
<1>5. \A q \in Nat : Known(rn, q) <=> Known(r, q) \/ (f <= q /\ q <= f + n - 1)
  BY <1>3 DEF Stored
<1>6. expected(rn) \in Nat /\ expected(r) \in Nat /\ lastRead(r) \in Nat
  BY <1>1, <1>4, NextExpectedBounds DEF expected, lastRead, RecvBufferType
<1>7. \A q : seqnum_to_index_recv(rn, q) = seqnum_to_index_recv(r, q)
  BY <1>4 DEF seqnum_to_index_recv, lastRead
<1>8. HeldInPlace(rn, s, isn)
  <2> SUFFICES ASSUME NEW q \in Nat, lastRead(r) < q, Known(rn, q)
               PROVE  Fits(rn.buffer[seqnum_to_index_recv(r, q)], q - isn, s, isn)
    BY <1>4, <1>7 DEF HeldInPlace
  <2>1. q < lastRead(r) + DEFAULT_BUFF_SIZE
    BY <1>4, KnownWithin DEF lastRead
  <2>2. CASE f <= q /\ q <= f + n - 1
    <3> DEFINE k == q - f + 1
    <3>1. k \in 1 .. n /\ f + k - 1 = q
      BY <2>2, <1>2
    <3> HIDE DEF k
    <3>2. rn.buffer[seqnum_to_index_recv(r, q)] = data[k]
      BY <3>1, <1>4 DEF Placed
    <3>3. Fits(data[k], f + k - 1 - isn, s, isn)
      BY <3>1, <1>2 DEF InPlace
    <3>4. f + k - 1 - isn = q - isn
      <4> HIDE DEF f, data, n
      <4>. QED  BY <3>1, <1>1, <1>2
    <3>5. Fits(data[k], q - isn, s, isn)
      BY <3>3, <3>4
    <3>. QED  BY <3>2, <3>5
  <2>3. CASE ~(f <= q /\ q <= f + n - 1)
    <3>1. Known(r, q)
      BY <2>3, <1>5
    <3>2. q < f \/ q > f + n - 1
      BY <2>3, <1>2
    <3>3. rn.buffer[seqnum_to_index_recv(r, q)] = r.buffer[seqnum_to_index_recv(r, q)]
      BY <3>2, <2>1, <1>4 DEF Placed, lastRead
    <3>. QED  BY <3>1, <3>3, <1>1 DEF HeldInPlace
  <2>. QED  BY <2>2, <2>3
<1>9. ASSUME NEW q \in Nat, Known(rn, q) PROVE q <= sent(s)
  <2>1. CASE Known(r, q)
    BY <2>1 DEF InStep
  <2>2. CASE f <= q /\ q <= f + n - 1
    BY <2>2, <1>1, <1>2
  <2>. QED  BY <1>5, <1>9, <2>1, <2>2
<1>10. acked(s) < expected(rn)
  <2>1. acked(s) \in Nat /\ acked(s) < expected(r)
    BY SendBounds DEF InStep, SendGood
  <2>. QED  BY <2>1, <1>4, <1>6
<1>11. isn <= lastRead(rn)
  BY <1>4 DEF InStep, RecvGood
<1>. QED  BY <1>4, <1>6, <1>8, <1>9, <1>10, <1>11 DEF InStep, RecvGood

(* The application reads.                                                  *)
LEMMA ReceiverReads ==
  ASSUME NEW s, NEW r, NEW isn, InStep(s, r, isn),
         NEW len \in Nat \ {0}, len <= recv_buffer_max_read(r)
  PROVE  /\ InStep(s, recv_buffer_read(r, len), isn)
         /\ lastRead(recv_buffer_read(r, len)) = lastRead(r) + len
         /\ expected(recv_buffer_read(r, len)) = expected(r)
         /\ InPlace(safe_memcpy_from_recvbuf(r, len), lastRead(r) + 1, s, isn)
         /\ Len(safe_memcpy_from_recvbuf(r, len)) = len
<1> DEFINE rn == recv_buffer_read(r, len)
           c == safe_memcpy_from_recvbuf(r, len)
<1>1. /\ r \in RecvBufferType /\ Sound(r) /\ HeldInPlace(r, s, isn)
      /\ isn \in Nat /\ isn <= lastRead(r) /\ lastRead(r) \in Nat
  BY DEF InStep, RecvGood, SendGood, lastRead, RecvBufferType
<1>2. /\ rn \in RecvBufferType /\ lastRead(rn) = lastRead(r) + len
      /\ rn.buffer = r.buffer /\ rn.segs = r.segs /\ expected(rn) = expected(r)
      /\ \A q \in Nat :
           /\ lastRead(r) + len <= q /\ q <= lastRead(r) + DEFAULT_BUFF_SIZE
           => seqnum_to_index_recv(rn, q) = seqnum_to_index_recv(r, q)
  BY <1>1, ReadExact DEF lastRead, expected
<1>3. /\ Len(c) = len
      /\ \A k \in 1 .. len : c[k] = r.buffer[seqnum_to_index_recv(r, lastRead(r) + k)]
  BY <1>1, ReadCopies DEF lastRead
<1> HIDE DEF rn, c
<1>4. \A q : Known(rn, q) <=> Known(r, q)
  BY <1>2 DEF Known, expected
<1>5. Sound(rn)
  <2>1. ASSUME NEW g \in rn.segs
        PROVE  /\ g.start_seqnum_inclusive <= g.end_seqnum_inclusive
               /\ get_next_byte_expected_seqnum(rn) <= g.start_seqnum_inclusive
               /\ g.end_seqnum_inclusive < rn.last_byte_read_seqnum + DEFAULT_BUFF_SIZE
    <3>1. /\ g.start_seqnum_inclusive <= g.end_seqnum_inclusive
          /\ get_next_byte_expected_seqnum(rn) <= g.start_seqnum_inclusive
          /\ g.end_seqnum_inclusive < lastRead(r) + DEFAULT_BUFF_SIZE
          /\ g.end_seqnum_inclusive \in Nat
      BY <1>1, <1>2 DEF Sound, expected, lastRead, RecvBufferType, SegmentType
    <3>2. g.end_seqnum_inclusive < lastRead(rn) + DEFAULT_BUFF_SIZE
      BY <3>1, <1>1, <1>2, CapacityAssumption
    <3>. QED  BY <3>1, <3>2 DEF lastRead
  <2>2. \A g, h \in rn.segs : g # h => Apart(g, h)
    BY <1>1, <1>2 DEF Sound
  <2>. QED  BY <2>1, <2>2 DEF Sound
<1>6. HeldInPlace(rn, s, isn)
  <2> SUFFICES ASSUME NEW q \in Nat, lastRead(rn) < q, Known(rn, q)
               PROVE  Fits(rn.buffer[seqnum_to_index_recv(rn, q)], q - isn, s, isn)
    BY DEF HeldInPlace
  <2>1. q < lastRead(r) + DEFAULT_BUFF_SIZE
    BY <1>1, <1>4, KnownWithin DEF lastRead
  <2>2. seqnum_to_index_recv(rn, q) = seqnum_to_index_recv(r, q)
    BY <2>1, <1>1, <1>2, CapacityAssumption
  <2>3. lastRead(r) < q
    BY <1>1, <1>2
  <2>. QED  BY <2>2, <2>3, <1>1, <1>2, <1>4 DEF HeldInPlace
<1>7. InPlace(c, lastRead(r) + 1, s, isn)
  <2> SUFFICES ASSUME NEW k \in 1 .. len
               PROVE  Fits(c[k], (lastRead(r) + 1) + k - 1 - isn, s, isn)
    BY <1>3 DEF InPlace
  <2> DEFINE q == lastRead(r) + k
  <2>1. q \in Nat /\ lastRead(r) < q /\ q - isn = (lastRead(r) + 1) + k - 1 - isn
    BY <1>1
  <2>2. q < expected(r)
    <3>1. len <= expected(r) - lastRead(r) - 1 /\ expected(r) \in Nat
      BY <1>1, NextExpectedBounds DEF recv_buffer_max_read, expected, lastRead
    <3>. QED  BY <3>1, <1>1
  <2>3. c[k] = r.buffer[seqnum_to_index_recv(r, q)]
    BY <1>3
  <2> HIDE DEF q
  <2>4. Fits(r.buffer[seqnum_to_index_recv(r, q)], q - isn, s, isn)
    BY <2>1, <2>2, <1>1 DEF HeldInPlace, Known, expected
  <2>. QED  BY <2>1, <2>3, <2>4
<1>8. isn <= lastRead(rn)
  BY <1>1, <1>2
<1>9. InStep(s, rn, isn)
  BY <1>2, <1>4, <1>5, <1>6, <1>8 DEF InStep, RecvGood
<1>. QED  BY <1>2, <1>3, <1>7, <1>9 DEF rn, c

(* A receive buffer that has just learned where the stream begins, of      *)
(* which nothing was sent yet.                                             *)
LEMMA FreshReceiver ==
  ASSUME NEW s, NEW isn, SendGood(s, isn), acked(s) = isn
  PROVE  /\ InStep(s, recv_buffer_initialize(isn), isn)
         /\ recv_buffer_initialize(isn) \in RecvBufferType
         /\ expected(recv_buffer_initialize(isn)) = isn + 1
         /\ lastRead(recv_buffer_initialize(isn)) = isn
<1> DEFINE r == recv_buffer_initialize(isn)
<1>1. s \in SendBufferType /\ isn \in Nat /\ sent(s) \in Nat /\ isn <= sent(s)
  BY SendBounds DEF SendGood
<1>2. r \in RecvBufferType /\ r.segs = {}
  BY <1>1, CapacityAssumption DEF RecvBufferType, recv_buffer_initialize, Index, Byte
<1>3. expected(r) = isn + 1 /\ lastRead(r) = isn
  BY <1>1, CapacityAssumption DEF recv_buffer_initialize, expected, lastRead,
       get_next_byte_expected_seqnum
<1> HIDE DEF r
<1>4. \A q \in Nat : Known(r, q) => q <= isn
  BY <1>1, <1>2, <1>3 DEF Known, expected
<1>5. RecvGood(r, s, isn)
  BY <1>1, <1>2, <1>3, <1>4 DEF RecvGood, Sound, HeldInPlace
<1>6. acked(s) < expected(r) /\ \A q \in Nat : Known(r, q) => q <= sent(s)
  BY <1>1, <1>3, <1>4
<1>7. InStep(s, r, isn)
  BY <1>5, <1>6 DEF InStep
<1>. QED  BY <1>2, <1>3, <1>7 DEF r

-----------------------------------------------------------------------------
(* Packets.                                                                *)
LEMMA Peers ==
  ASSUME NEW e \in Endpoint
  PROVE  /\ peer(e) \in Endpoint /\ peer(e) # e /\ peer(peer(e)) = e
         /\ \A g \in Endpoint : g = e \/ g = peer(e)
BY DEF Endpoint, peer

PacketGood(p, S, R, U) ==
  /\ p \in PacketType(Endpoint, Seq(Byte)) /\ p.flags = {"ACK"}
  /\ PayloadGood(p, S[peer(p.dst)], ISN[peer(p.dst)])
  /\ AckGood(p, R[peer(p.dst)], ISN[p.dst], U)

(* What the numbers that a packet is compared with do in a step.           *)
Forward(s, r, sn, rn) ==
  /\ sent(s) <= sent(sn) /\ written(s) <= written(sn)
  /\ expected(r) <= expected(rn) /\ lastRead(r) <= lastRead(rn)

LEMMA StillGood ==
  ASSUME NEW S \in [Endpoint -> SendBufferType], NEW R \in [Endpoint -> RecvBufferType],
         NEW Sn \in [Endpoint -> SendBufferType], NEW Rn \in [Endpoint -> RecvBufferType],
         \A e \in Endpoint : Forward(S[e], R[e], Sn[e], Rn[e]),
         NEW U, NEW p, PacketGood(p, S, R, U)
  PROVE  PacketGood(p, Sn, Rn, U)
<1> DEFINE src == peer(p.dst)
           n == Len(p.payload)
<1>1. /\ p.dst \in Endpoint /\ src \in Endpoint /\ p.payload \in Seq(Byte)
      /\ p.seq \in Nat /\ p.ack \in Nat /\ p.adv_window \in Nat
  <2>1. 0 .. 2^16 - 1 \subseteq Nat
    OBVIOUS
  <2>2. /\ p.dst \in Endpoint /\ p.payload \in Seq(Byte)
        /\ p.seq \in Nat /\ p.ack \in Nat /\ p.adv_window \in 0 .. 2^16 - 1
    BY DEF PacketGood, PacketType
  <2>. QED  BY <2>1, <2>2, Peers
<1> HIDE DEF src
<1>2. /\ sent(S[src]) \in Nat /\ sent(Sn[src]) \in Nat /\ sent(S[src]) <= sent(Sn[src])
  BY <1>1, SendBounds DEF Forward
<1>3. /\ expected(R[src]) \in Nat /\ expected(Rn[src]) \in Nat
      /\ lastRead(R[src]) \in Nat /\ lastRead(Rn[src]) \in Nat
  BY <1>1, NextExpectedBounds DEF expected, lastRead, RecvBufferType
<1>4. expected(R[src]) <= expected(Rn[src]) /\ lastRead(R[src]) <= lastRead(Rn[src])
  BY <1>1 DEF Forward
<1>5. PayloadGood(p, Sn[src], ISN[src])
  <2>1. PayloadGood(p, S[src], ISN[src]) /\ n \in Nat
    BY <1>1 DEF PacketGood, src
  <2>2. InPlace(p.payload, p.seq, Sn[src], ISN[src])
    <3>1. ISN[src] \in Nat /\ written(S[src]) <= written(Sn[src])
      BY <1>1, ConnectionAssumption DEF Forward
    <3>. QED  BY <2>1, <3>1, <1>1, StillFits DEF PayloadGood
  <2>. QED  BY <2>1, <2>2, <1>1, <1>2 DEF PayloadGood
<1>6. AckGood(p, Rn[src], ISN[p.dst], U)
  <2>1. AckGood(p, R[src], ISN[p.dst], U)
    BY DEF PacketGood, src
  <2>2. ISN[p.dst] < p.ack /\ p.ack <= expected(R[src])
    BY <2>1 DEF AckGood
  <2>3. p.ack <= expected(Rn[src])
    BY <2>2, <1>1, <1>3, <1>4
  <2>4. ASSUME p.payload = <<>>, p \notin U
        PROVE  p.ack + p.adv_window <= lastRead(Rn[src]) + DEFAULT_BUFF_SIZE
    <3>1. p.ack + p.adv_window <= lastRead(R[src]) + DEFAULT_BUFF_SIZE
      BY <2>1, <2>4 DEF AckGood
    <3>. QED  BY <3>1, <1>1, <1>3, <1>4, CapacityAssumption
  <2>. QED  BY <2>2, <2>3, <2>4 DEF AckGood
<1>. QED  BY <1>5, <1>6 DEF PacketGood, src

(* The lengths of what is composed fit together, and in 16 bits.           *)
LEMMA Composed ==
  ASSUME NEW e \in Endpoint, NEW seqnum \in Nat, NEW acknum \in Nat,
         NEW flags \in SUBSET {"SYN", "ACK", "FIN"}, NEW adv_window \in Nat,
         NEW payload \in Seq(Byte), Len(payload) <= MSS,
         NEW p \in Compose(e, seqnum, acknum, flags, adv_window, payload)
  PROVE  /\ p \in PacketType(Endpoint, Seq(Byte))
         /\ p.dst = peer(e) /\ p.seq = seqnum /\ p.ack = acknum /\ p.flags = flags
         /\ p.hlen = HeaderSize /\ p.plen = HeaderSize + Len(payload)
         /\ p.adv_window <= adv_window /\ p.payload = payload
<1> DEFINE plen == uint16(HeaderSize + Len(payload))
           adv == uint16(adv_window)
<1>1. /\ Len(payload) \in Nat /\ HeaderSize = 25
      /\ MSS \in Nat /\ MSS <= 65510
  BY ConnectionAssumption DEF HeaderSize
<1>2. plen = HeaderSize + Len(payload) /\ plen \in 0 .. 2^16 - 1
  BY <1>1 DEF uint16
<1>3. adv \in 0 .. 2^16 - 1 /\ adv <= adv_window
  BY DEF uint16
<1>4. p \in create_packet(peer(e), seqnum, acknum, HeaderSize, plen, flags, adv, payload)
  BY DEF Compose
<1> HIDE DEF plen, adv
<1>5. p = set_header(peer(e), seqnum, acknum, HeaderSize, plen, flags, adv, payload)
  BY <1>4 DEF create_packet
<1>6. HeaderSize \in 0 .. 2^16 - 1
  BY DEF HeaderSize
<1>7. peer(e) \in Endpoint
  BY Peers
<1>. QED  BY <1>2, <1>3, <1>5, <1>6, <1>7 DEF set_header, PacketType

(* What check_for_data reads out of a packet.                              *)
LEMMA PayloadRead ==
  ASSUME NEW p, NEW s, NEW isn, PayloadGood(p, s, isn)
  PROVE  get_payload_len(p) = Len(p.payload) /\ get_payload(p) = p.payload
<1>1. /\ p.payload \in Seq(Byte) /\ Len(p.payload) \in Nat
      /\ Len(p.payload) <= MSS /\ MSS \in Nat /\ MSS <= 65510
      /\ p.hlen = 25 /\ p.plen = 25 + Len(p.payload)
  BY ConnectionAssumption DEF PayloadGood, HeaderSize
<1>2. get_payload_len(p) = Len(p.payload)
  <2>1. ASSUME NEW n \in Nat, n <= 65510
        PROVE  uint16((25 + n) + 2^16 - 25) = n
    BY <2>1 DEF uint16
  <2>2. Len(p.payload) <= 65510
    BY <1>1
  <2>3. get_payload_len(p) = uint16((25 + Len(p.payload)) + 2^16 - 25)
    BY <1>1 DEF get_payload_len
  <2>. QED  BY <2>1, <2>2, <2>3, <1>1
<1>3. SubSeq(p.payload, 1, Len(p.payload)) = p.payload
  BY <1>1, SubSeqFull
<1>. QED  BY <1>2, <1>3 DEF get_payload

-----------------------------------------------------------------------------
(* The inductive invariant.                                                *)
StreamsGood ==
  \A e \in Endpoint : /\ InStep(sb[e], rb[peer(e)], ISN[e])
                      /\ written(sb[e]) = ISN[e] + wrote[e] + 1

(* Every window_t has the number its receive buffer expects; those of the  *)
(* endpoints in E, also the number their send buffer has acknowledged.     *)
WindowGood(E) ==
  \A e \in Endpoint :
    /\ e \in E => window[e].last_ack_received = acked(sb[e]) + 1
    /\ window[e].next_seq_expected = expected(rb[e])

NetGood(U) == \A p \in net : PacketGood(p, sb, rb, U)

(* While a stream has not come back to slot 0, what is read of it is what  *)
(* was written.                                                            *)
ReadIntact ==
  \A e \in Endpoint :
    wrote[e] < DEFAULT_BUFF_SIZE => delivered[peer(e)] \subseteq {"right"}

(* For the connection E is both endpoints and U is empty; the handshake,   *)
(* which leads up to it, needs the other cases.                            *)
CInv(E, U) ==
  /\ TypeOK /\ StreamsGood /\ WindowGood(E) /\ NetGood(U)
  /\ NeverMisplaced /\ ReadIntact

(* In a step at most one of the four numbers of a direction changes, and   *)
(* it grows.                                                               *)
OneMoves(e) ==
  /\ wrote[e] <= wrote'[e]
  /\ acked(sb[e]) <= acked(sb'[e])
  /\ expected(rb[peer(e)]) <= expected(rb'[peer(e)])
  /\ lastRead(rb[peer(e)]) <= lastRead(rb'[peer(e)])
  /\ \/ /\ acked(sb'[e]) = acked(sb[e])
        /\ expected(rb'[peer(e)]) = expected(rb[peer(e)])
        /\ lastRead(rb'[peer(e)]) = lastRead(rb[peer(e)])
     \/ /\ wrote'[e] = wrote[e]
        /\ expected(rb'[peer(e)]) = expected(rb[peer(e)])
        /\ lastRead(rb'[peer(e)]) = lastRead(rb[peer(e)])
     \/ /\ wrote'[e] = wrote[e] /\ acked(sb'[e]) = acked(sb[e])
        /\ lastRead(rb'[peer(e)]) = lastRead(rb[peer(e)])
     \/ /\ wrote'[e] = wrote[e] /\ acked(sb'[e]) = acked(sb[e])
        /\ expected(rb'[peer(e)]) = expected(rb[peer(e)])

(* No process dies of a copy while its stream has not come back to slot 0. *)
StaysAlive(e) == alive[e] /\ wrote[e] < DEFAULT_BUFF_SIZE => alive'[e]

StepGood == \A e \in Endpoint : OneMoves(e) /\ StaysAlive(e)

(* What every step of the proof starts from.                               *)
LEMMA EndpointFacts ==
  ASSUME NEW E, NEW U, CInv(E, U), NEW e \in Endpoint
  PROVE  /\ sb[e] \in SendBufferType /\ rb[e] \in RecvBufferType
         /\ ISN[e] \in Nat /\ wrote[e] \in Nat
         /\ InStep(sb[e], rb[peer(e)], ISN[e])
         /\ SendGood(sb[e], ISN[e])
         /\ InStep(sb[peer(e)], rb[e], ISN[peer(e)])
         /\ written(sb[e]) = ISN[e] + wrote[e] + 1
         /\ acked(sb[e]) \in Nat /\ sent(sb[e]) \in Nat /\ written(sb[e]) \in Nat
         /\ acked(sb[e]) <= sent(sb[e]) /\ sent(sb[e]) < written(sb[e])
         /\ written(sb[e]) <= acked(sb[e]) + DEFAULT_BUFF_SIZE
         /\ expected(rb[e]) \in Nat /\ lastRead(rb[e]) \in Nat
         /\ expected(rb[peer(e)]) \in Nat /\ lastRead(rb[peer(e)]) \in Nat
         /\ e \in E => window[e].last_ack_received = acked(sb[e]) + 1
         /\ window[e].next_seq_expected = expected(rb[e])
<1>1. peer(e) \in Endpoint /\ peer(peer(e)) = e
  BY Peers
<1>2. /\ sb[e] \in SendBufferType /\ rb[e] \in RecvBufferType
      /\ ISN[e] \in Nat /\ wrote[e] \in Nat
  BY ConnectionAssumption DEF CInv, TypeOK
<1>3. /\ InStep(sb[e], rb[peer(e)], ISN[e])
      /\ InStep(sb[peer(e)], rb[e], ISN[peer(e)])
      /\ written(sb[e]) = ISN[e] + wrote[e] + 1
  BY <1>1 DEF CInv, StreamsGood
<1>4. SendGood(sb[e], ISN[e]) /\ sent(sb[e]) < written(sb[e])
  BY <1>3 DEF InStep, SendGood
<1>5. /\ e \in E => window[e].last_ack_received = acked(sb[e]) + 1
      /\ window[e].next_seq_expected = expected(rb[e])
  BY DEF CInv, WindowGood
<1>6. /\ expected(rb[e]) \in Nat /\ lastRead(rb[e]) \in Nat
      /\ expected(rb[peer(e)]) \in Nat /\ lastRead(rb[peer(e)]) \in Nat
  BY <1>3, ReceivedWasSent
<1>. QED  BY <1>2, <1>3, <1>4, <1>5, <1>6, SendBounds

(* Packets stay good, and new ones are.                                    *)
LEMMA NetStaysGood ==
  ASSUME NEW E, NEW U, CInv(E, U),
         sb' \in [Endpoint -> SendBufferType], rb' \in [Endpoint -> RecvBufferType],
         \A e \in Endpoint : Forward(sb[e], rb[e], sb'[e], rb'[e]),
         NEW X, net' \subseteq net \cup X, \A p \in X : PacketGood(p, sb', rb', U)
  PROVE  NetGood(U)' /\ net' \subseteq PacketType(Endpoint, Seq(Byte))
<1>1. /\ sb \in [Endpoint -> SendBufferType] /\ rb \in [Endpoint -> RecvBufferType]
      /\ \A p \in net : PacketGood(p, sb, rb, U)
  BY DEF CInv, TypeOK, NetGood
<1>2. \A p \in net : PacketGood(p, sb', rb', U)
  BY <1>1, StillGood
<1>3. \A p \in net' : PacketGood(p, sb', rb', U)
  BY <1>2
<1>4. net' \subseteq PacketType(Endpoint, Seq(Byte))
  BY <1>3 DEF PacketGood
<1>. QED  BY <1>3, <1>4 DEF NetGood

LEMMA NothingNew ==
  ASSUME NEW E, NEW U, CInv(E, U),
         sb' \in [Endpoint -> SendBufferType], rb' \in [Endpoint -> RecvBufferType],
         \A e \in Endpoint : Forward(sb[e], rb[e], sb'[e], rb'[e]),
         net' \subseteq net
  PROVE  NetGood(U)' /\ net' \subseteq PacketType(Endpoint, Seq(Byte))
<1> DEFINE X == {}
<1>1. net' \subseteq net \cup X /\ \A p \in X : PacketGood(p, sb', rb', U)
  OBVIOUS
<1> HIDE DEF X
<1>. QED  BY <1>1, NetStaysGood

-----------------------------------------------------------------------------
Inv == CInv(Endpoint, {})

LEMMA InitInvariant == Init => Inv
<1> SUFFICES ASSUME Init PROVE Inv
  OBVIOUS
<1> USE ConnectionAssumption
<1>1. ASSUME NEW e \in Endpoint
      PROVE  /\ sb[e] \in SendBufferType /\ rb[e] \in RecvBufferType
             /\ ISN[e] \in Nat /\ ISN[peer(e)] \in Nat
             /\ InStep(sb[e], rb[peer(e)], ISN[e])
             /\ acked(sb[e]) = ISN[e] /\ written(sb[e]) = ISN[e] + 1
             /\ expected(rb[e]) = ISN[peer(e)] + 1
  <2>1. /\ sb[e] = send_buffer_initialize(ISN[e]) /\ ISN[e] \in Nat
        /\ sb[peer(e)] = send_buffer_initialize(ISN[peer(e)]) /\ ISN[peer(e)] \in Nat
        /\ rb[e] = recv_buffer_initialize(ISN[peer(e)])
        /\ rb[peer(e)] = recv_buffer_initialize(ISN[e])
    BY Peers DEF Init
  <2>2. /\ SendGood(sb[e], ISN[e]) /\ acked(sb[e]) = ISN[e]
        /\ written(sb[e]) = ISN[e] + 1
        /\ SendGood(sb[peer(e)], ISN[peer(e)]) /\ acked(sb[peer(e)]) = ISN[peer(e)]
    BY <2>1, InitializeExact
  <2>3. InStep(sb[e], rb[peer(e)], ISN[e])
    BY <2>1, <2>2, FreshReceiver
  <2>4. rb[e] \in RecvBufferType /\ expected(rb[e]) = ISN[peer(e)] + 1
    BY <2>1, <2>2, FreshReceiver
  <2>. QED  BY <2>1, <2>2, <2>3, <2>4 DEF SendGood
<1>2. TypeOK
  <2>1. sb \in [Endpoint -> SendBufferType] /\ rb \in [Endpoint -> RecvBufferType]
    BY <1>1 DEF Init
  <2>2. \A e \in Endpoint : ISN[peer(e)] + 1 \in Nat /\ ISN[e] + 1 \in Nat
    BY Peers
  <2>3. window \in [Endpoint -> [next_seq_expected : Nat, last_ack_received : Nat,
                                 rcvd_advertised_window : Nat]]
    BY <2>2 DEF Init
  <2>. QED  BY <2>1, <2>3 DEF Init, TypeOK
<1>3. StreamsGood
  <2>1. \A e \in Endpoint : wrote[e] = 0 /\ ISN[e] \in Nat
    BY DEF Init
  <2>2. \A e \in Endpoint : ISN[e] + wrote[e] + 1 = ISN[e] + 1
    BY <2>1
  <2>3. \A e \in Endpoint : written(sb[e]) = ISN[e] + wrote[e] + 1
    BY <1>1, <2>2
  <2>. QED  BY <2>3, <1>1 DEF StreamsGood
<1>4. WindowGood(Endpoint)
  BY <1>1 DEF Init, WindowGood
<1>5. NetGood({}) /\ NeverMisplaced /\ ReadIntact
  BY Peers DEF Init, NetGood, NeverMisplaced, ReadIntact
<1>. QED  BY <1>2, <1>3, <1>4, <1>5 DEF CInv, Inv

-----------------------------------------------------------------------------
(* The application threads.                                                *)
LEMMA WriteStep ==
  ASSUME NEW E, NEW U, CInv(E, U), NEW e \in Endpoint,
         NEW n \in 1 .. DEFAULT_BUFF_SIZE, Write(e, n)
  PROVE  CInv(E, U)' /\ StepGood /\ \A g \in Endpoint : sent(sb'[g]) = sent(sb[g])
<1> DEFINE sn == send_buffer_write(sb[e], StreamBytes(wrote[e] + 1, n))
<1>1. TypeOK /\ StreamsGood /\ WindowGood(E) /\ NetGood(U)
      /\ NeverMisplaced /\ ReadIntact
  BY DEF CInv
<1>2. /\ sb' = [sb EXCEPT ![e] = sn] /\ wrote' = [wrote EXCEPT ![e] = @ + n]
      /\ n <= send_buffer_max_write(sb[e]) /\ wrote[e] + n <= MaxStream[e]
      /\ UNCHANGED <<rb, window, pc, wrapped, net, alive, delivered>>
  BY DEF Write
<1>3. Written(sb[e], sn, ISN[e], n)
  <2>1. wrote[e] + 1 = written(sb[e]) - ISN[e] /\ SendGood(sb[e], ISN[e])
    BY EndpointFacts
  <2>2. n \in Nat \ {0}
    OBVIOUS
  <2>. QED  BY <1>2, <2>1, <2>2, WriteExact
<1> HIDE DEF sn
<1>4. /\ SendGood(sn, ISN[e]) /\ acked(sn) = acked(sb[e]) /\ sent(sn) = sent(sb[e])
      /\ written(sn) = written(sb[e]) + n /\ sn \in SendBufferType
  BY <1>3 DEF Written, SendGood
<1>5. /\ sb' \in [Endpoint -> SendBufferType] /\ rb' \in [Endpoint -> RecvBufferType]
      /\ sb'[e] = sn /\ \A g \in Endpoint : g # e => sb'[g] = sb[g]
      /\ wrote' \in [Endpoint -> Nat]
      /\ wrote'[e] = wrote[e] + n /\ \A g \in Endpoint : g # e => wrote'[g] = wrote[g]
  BY <1>1, <1>2, <1>4 DEF TypeOK
<1>6. \A g \in Endpoint : acked(sb'[g]) = acked(sb[g]) /\ sent(sb'[g]) = sent(sb[g])
  BY <1>4, <1>5
<1>7. StreamsGood'
  <2> SUFFICES ASSUME NEW g \in Endpoint
               PROVE  /\ InStep(sb'[g], rb[peer(g)], ISN[g])
                      /\ written(sb'[g]) = ISN[g] + wrote'[g] + 1
    BY <1>2 DEF StreamsGood
  <2>1. CASE g = e
    <3>1. /\ InStep(sb[e], rb[peer(e)], ISN[e]) /\ sent(sb[e]) <= sent(sn)
          /\ written(sb[e]) <= written(sn)
          /\ acked(sn) < expected(rb[peer(e)])
          /\ written(sn) = ISN[e] + (wrote[e] + n) + 1
      BY <1>4, EndpointFacts, ReceivedWasSent
    <3>2. InStep(sn, rb[peer(e)], ISN[e])
      BY <3>1, <1>4, SenderGoesOn
    <3>. QED  BY <2>1, <3>1, <3>2, <1>5
  <2>2. CASE g # e
    BY <2>2, <1>1, <1>5 DEF StreamsGood
  <2>. QED  BY <2>1, <2>2
<1>8. ASSUME NEW g \in Endpoint PROVE Forward(sb[g], rb[g], sb'[g], rb'[g])
  <2>1. /\ sent(sb[g]) \in Nat /\ expected(rb[g]) \in Nat /\ lastRead(rb[g]) \in Nat
        /\ sent(sb'[g]) = sent(sb[g]) /\ rb'[g] = rb[g]
        /\ written(sb[g]) <= written(sb'[g])
    BY <1>2, <1>4, <1>5, <1>6, EndpointFacts
  <2>. QED  BY <2>1 DEF Forward
<1>9. NetGood(U)' /\ net' \subseteq PacketType(Endpoint, Seq(Byte))
  BY <1>2, <1>5, <1>8, NothingNew
<1>10. WindowGood(E)'
  BY <1>1, <1>2, <1>6 DEF WindowGood, acked
<1>11. TypeOK'
  <2>1. \A g \in Endpoint : wrote'[g] <= MaxStream[g]
    BY <1>1, <1>2, <1>5 DEF TypeOK
  <2>. QED  BY <2>1, <1>1, <1>2, <1>5, <1>9 DEF TypeOK
<1>12. \A g \in Endpoint : wrote[g] <= wrote'[g] /\ wrote[g] \in Nat /\ wrote'[g] \in Nat
  BY <1>5, EndpointFacts
<1>13. NeverMisplaced' /\ ReadIntact'
  <2>1. \A g \in Endpoint : wrote'[g] < DEFAULT_BUFF_SIZE => wrote[g] < DEFAULT_BUFF_SIZE
    BY <1>12, CapacityAssumption
  <2>. QED  BY <2>1, <1>1, <1>2 DEF NeverMisplaced, ReadIntact
<1>14. \A g \in Endpoint : OneMoves(g)
  BY <1>12, <1>2, <1>6, EndpointFacts DEF OneMoves
<1>15. \A g \in Endpoint : StaysAlive(g)
  BY <1>2 DEF StaysAlive
<1>. QED  BY <1>6, <1>7, <1>9, <1>10, <1>11, <1>13, <1>14, <1>15 DEF CInv, StepGood

LEMMA ReadStep ==
  ASSUME NEW E, NEW U, CInv(E, U), NEW e \in Endpoint,
         NEW length \in 1 .. DEFAULT_BUFF_SIZE,
         Read(e, length)
  PROVE  CInv(E, U)' /\ StepGood
<1> DEFINE r == rb[e]
           f == peer(e)
           len == MIN(length, recv_buffer_max_read(r))
           rn == recv_buffer_read(r, len)
           bytes == safe_memcpy_from_recvbuf(r, len)
           nread == lastRead(r) - ISN[f]
<1>1. TypeOK /\ StreamsGood /\ WindowGood(E) /\ NetGood(U)
      /\ NeverMisplaced /\ ReadIntact
  BY DEF CInv
<1>2. /\ rb' = [rb EXCEPT ![e] = rn]
      /\ delivered' = [delivered EXCEPT ![e] =
                         @ \cup {Kind(bytes[k], nread + k) : k \in 1 .. len}]
      /\ recv_buffer_max_read(r) > 0
      /\ UNCHANGED <<sb, window, pc, wrapped, net, alive, wrote>>
  BY DEF Read, lastRead
<1>3. /\ f \in Endpoint /\ peer(f) = e /\ f # e
      /\ \A g \in Endpoint : g = e \/ g = f
  BY Peers
<1>4. /\ InStep(sb[f], r, ISN[f]) /\ lastRead(r) \in Nat /\ expected(r) \in Nat
      /\ ISN[f] \in Nat
  BY <1>3, EndpointFacts
<1>5. len \in Nat \ {0} /\ len <= recv_buffer_max_read(r)
  <2>1. recv_buffer_max_read(r) \in Int
    BY <1>4 DEF recv_buffer_max_read, expected, lastRead
  <2>. QED  BY <2>1, <1>2 DEF MIN
<1> HIDE DEF len, f, r
<1>6. /\ InStep(sb[f], rn, ISN[f]) /\ lastRead(rn) = lastRead(r) + len
      /\ expected(rn) = expected(r)
      /\ InPlace(bytes, lastRead(r) + 1, sb[f], ISN[f]) /\ Len(bytes) = len
  BY <1>4, <1>5, ReceiverReads
<1> HIDE DEF rn, bytes
<1>7. /\ rb' \in [Endpoint -> RecvBufferType] /\ sb' \in [Endpoint -> SendBufferType]
      /\ rb'[e] = rn /\ rb'[f] = rb[f] /\ rb[e] = r
  <2>1. rn \in RecvBufferType
    BY <1>6 DEF InStep, RecvGood
  <2>. QED  BY <2>1, <1>1, <1>2, <1>3 DEF TypeOK, r
<1>8. StreamsGood'
  <2> SUFFICES ASSUME NEW g \in Endpoint
               PROVE  /\ InStep(sb[g], rb'[peer(g)], ISN[g])
                      /\ written(sb[g]) = ISN[g] + wrote[g] + 1
    BY <1>2 DEF StreamsGood
  <2>1. CASE g = f
    BY <2>1, <1>1, <1>3, <1>6, <1>7 DEF StreamsGood
  <2>2. CASE g = e
    <3>1. peer(g) = f
      BY <2>2 DEF f
    <3>. QED  BY <3>1, <1>1, <1>7 DEF StreamsGood
  <2>. QED  BY <2>1, <2>2, <1>3
<1>9. \A g \in Endpoint : /\ expected(rb'[g]) = expected(rb[g])
                          /\ lastRead(rb[g]) <= lastRead(rb'[g])
  <2>1. expected(rb'[e]) = expected(rb[e]) /\ lastRead(rb[e]) <= lastRead(rb'[e])
    BY <1>4, <1>5, <1>6, <1>7
  <2>2. expected(rb'[f]) = expected(rb[f]) /\ lastRead(rb[f]) <= lastRead(rb'[f])
    BY <1>3, <1>7, EndpointFacts
  <2>. QED  BY <2>1, <2>2, <1>3
<1>10. ASSUME NEW g \in Endpoint PROVE Forward(sb[g], rb[g], sb'[g], rb'[g])
  <2>1. /\ sent(sb[g]) \in Nat /\ written(sb[g]) \in Nat /\ expected(rb[g]) \in Nat
        /\ sb'[g] = sb[g] /\ expected(rb'[g]) = expected(rb[g])
        /\ lastRead(rb[g]) <= lastRead(rb'[g])
    BY <1>2, <1>9, EndpointFacts
  <2>. QED  BY <2>1 DEF Forward
<1>11. NetGood(U)' /\ net' \subseteq PacketType(Endpoint, Seq(Byte))
  BY <1>2, <1>7, <1>10, NothingNew
<1>12. WindowGood(E)'
  BY <1>1, <1>2, <1>9 DEF WindowGood, expected
<1>13. ASSUME NEW k \in 1 .. len
       PROVE  /\ Kind(bytes[k], nread + k) \in {"right", "junk"}
              /\ wrote[f] < DEFAULT_BUFF_SIZE => Kind(bytes[k], nread + k) = "right"
  <2>1. Fits(bytes[k], (lastRead(r) + 1) + k - 1 - ISN[f], sb[f], ISN[f])
    BY <1>6 DEF InPlace
  <2>2. (lastRead(r) + 1) + k - 1 - ISN[f] = nread + k
    BY <1>4, <1>5
  <2>3. Fits(bytes[k], nread + k, sb[f], ISN[f])
    BY <2>1, <2>2
  <2>4. wrote[f] < DEFAULT_BUFF_SIZE => FirstLap(sb[f], ISN[f])
    <3>1. wrote[f] \in Nat /\ written(sb[f]) = ISN[f] + wrote[f] + 1 /\ ISN[f] \in Nat
      BY <1>3, EndpointFacts
    <3>. QED  BY <3>1, CapacityAssumption DEF FirstLap
  <2> HIDE DEF nread
  <2>. QED  BY <2>3, <2>4 DEF Fits, Kind
<1>14. /\ delivered' \in [Endpoint -> SUBSET {"right", "junk", "wrong"}]
       /\ NeverMisplaced' /\ ReadIntact'
  <2> DEFINE kinds == {Kind(bytes[k], nread + k) : k \in 1 .. len}
  <2>1. /\ kinds \subseteq {"right", "junk"}
        /\ wrote[f] < DEFAULT_BUFF_SIZE => kinds \subseteq {"right"}
    BY <1>13
  <2>2. delivered' = [delivered EXCEPT ![e] = @ \cup kinds]
    BY <1>2
  <2> HIDE DEF kinds
  <2>3. ASSUME NEW g \in Endpoint, wrote[g] < DEFAULT_BUFF_SIZE
        PROVE  delivered'[peer(g)] \subseteq {"right"}
    <3>1. delivered[peer(g)] \subseteq {"right"}
      BY <2>3, <1>1 DEF ReadIntact
    <3>2. CASE g = f
      <4>1. delivered'[peer(g)] = delivered[peer(g)] \cup kinds
        BY <3>2, <2>2, <1>1, <1>3 DEF TypeOK
      <4>. QED  BY <4>1, <3>1, <3>2, <2>1, <2>3
    <3>3. CASE g = e
      <4>1. delivered'[peer(g)] = delivered[peer(g)]
        BY <3>3, <2>2, <1>1, <1>3 DEF TypeOK, f
      <4>. QED  BY <4>1, <3>1
    <3>. QED  BY <3>2, <3>3, <1>3
  <2>4. ReadIntact'
    BY <2>3, <1>2 DEF ReadIntact
  <2>. QED  BY <2>1, <2>2, <2>4, <1>1 DEF NeverMisplaced, TypeOK
<1>15. TypeOK'
  BY <1>1, <1>2, <1>7, <1>11, <1>14 DEF TypeOK
<1>16. \A g \in Endpoint : OneMoves(g)
  BY <1>2, <1>9, EndpointFacts, Peers DEF OneMoves
<1>17. \A g \in Endpoint : StaysAlive(g)
  BY <1>2 DEF StaysAlive
<1>. QED  BY <1>8, <1>11, <1>12, <1>14, <1>15, <1>16, <1>17 DEF CInv, StepGood

-----------------------------------------------------------------------------
(* The backend threads: steps that leave both buffers as they are.         *)
LEMMA OnlyPackets ==
  ASSUME NEW E, NEW U, CInv(E, U), UNCHANGED <<sb, rb, window, wrote, delivered>>,
         pc' \in [Endpoint -> {"check", "reply", "send"}],
         wrapped' \in [Endpoint -> BOOLEAN], UNCHANGED alive,
         NEW X, net' \subseteq net \cup X, \A p \in X : PacketGood(p, sb, rb, U)
  PROVE  CInv(E, U)' /\ StepGood
<1>1. TypeOK /\ StreamsGood /\ WindowGood(E) /\ NetGood(U)
      /\ NeverMisplaced /\ ReadIntact
  BY DEF CInv
<1>2. NetGood(U)' /\ net' \subseteq PacketType(Endpoint, Seq(Byte))
  <2>1. \A p \in net' : PacketGood(p, sb, rb, U)
    BY <1>1 DEF NetGood
  <2>. QED  BY <2>1 DEF NetGood, PacketGood
<1>3. TypeOK'
  BY <1>1, <1>2 DEF TypeOK
<1>4. StreamsGood'
  BY <1>1 DEF StreamsGood
<1>5. WindowGood(E)' /\ NeverMisplaced' /\ ReadIntact'
  BY <1>1 DEF WindowGood, NeverMisplaced, ReadIntact
<1>6. ASSUME NEW g \in Endpoint PROVE OneMoves(g)
  <2>1. /\ wrote[g] \in Nat /\ acked(sb[g]) \in Nat
        /\ expected(rb[peer(g)]) \in Nat /\ lastRead(rb[peer(g)]) \in Nat
    BY EndpointFacts
  <2>. QED  BY <2>1 DEF OneMoves
<1>7. \A g \in Endpoint : StaysAlive(g)
  BY DEF StaysAlive
<1>. QED  BY <1>2, <1>3, <1>4, <1>5, <1>6, <1>7 DEF CInv, StepGood

(* A packet that e composes, S being the send buffers after the step.      *)
LEMMA FreshPacket ==
  ASSUME NEW E, NEW U, CInv(E, U), NEW e \in Endpoint,
         NEW seqnum \in Nat, NEW adv_window \in Nat,
         NEW payload \in Seq(Byte), Len(payload) <= MSS,
         NEW S, InPlace(payload, seqnum, S[e], ISN[e]),
         Len(payload) > 0 =>
           ISN[e] < seqnum /\ seqnum + Len(payload) - 1 <= sent(S[e]),
         payload = <<>> =>
           expected(rb[e]) + adv_window <= lastRead(rb[e]) + DEFAULT_BUFF_SIZE,
         NEW p \in DataPacket(e, seqnum, adv_window, payload)
  PROVE  PacketGood(p, S, rb, U)
<1>1. /\ window[e].next_seq_expected = expected(rb[e]) /\ expected(rb[e]) \in Nat
      /\ InStep(sb[peer(e)], rb[e], ISN[peer(e)]) /\ lastRead(rb[e]) \in Nat
  BY EndpointFacts
<1>2. ISN[peer(e)] < expected(rb[e])
  BY <1>1, ReceivedWasSent
<1>3. /\ p \in PacketType(Endpoint, Seq(Byte))
      /\ p.dst = peer(e) /\ p.seq = seqnum /\ p.ack = expected(rb[e])
      /\ p.flags = {"ACK"}
      /\ p.hlen = HeaderSize /\ p.plen = HeaderSize + Len(payload)
      /\ p.adv_window <= adv_window /\ p.payload = payload
  <2>1. p \in Compose(e, seqnum, expected(rb[e]), {"ACK"}, adv_window, payload)
    BY <1>1 DEF DataPacket
  <2>2. {"ACK"} \in SUBSET {"SYN", "ACK", "FIN"}
    OBVIOUS
  <2>. QED  BY <2>1, <2>2, <1>1, Composed
<1>4. p.adv_window \in Nat
  <2>1. 0 .. 2^16 - 1 \subseteq Nat
    OBVIOUS
  <2>2. p.adv_window \in 0 .. 2^16 - 1
    BY <1>3 DEF PacketType
  <2>. QED  BY <2>1, <2>2
<1>5. peer(p.dst) = e
  BY <1>3, Peers
<1>6. PayloadGood(p, S[e], ISN[e])
  BY <1>3 DEF PayloadGood
<1>7. AckGood(p, rb[e], ISN[peer(e)], U)
  <2>1. ASSUME payload = <<>>
        PROVE  p.ack + p.adv_window <= lastRead(rb[e]) + DEFAULT_BUFF_SIZE
    BY <2>1, <1>1, <1>3, <1>4, CapacityAssumption
  <2>. QED  BY <2>1, <1>1, <1>2, <1>3 DEF AckGood
<1>. QED  BY <1>3, <1>5, <1>6, <1>7 DEF PacketGood

LEMMA GoTypes ==
  ASSUME TypeOK, NEW e \in Endpoint, GoSend(e) \/ GoCheck(e)
  PROVE  /\ pc' \in [Endpoint -> {"check", "reply", "send"}]
         /\ wrapped' \in [Endpoint -> BOOLEAN]
<1>1. CASE GoSend(e)
  <2> DEFINE b == WrapsAround(rb'[e])
  <2>1. b \in BOOLEAN
    BY DEF WrapsAround
  <2>2. wrapped' = [wrapped EXCEPT ![e] = b] /\ pc' = [pc EXCEPT ![e] = "send"]
    BY <1>1 DEF GoSend
  <2> HIDE DEF b
  <2>. QED  BY <2>1, <2>2 DEF TypeOK
<1>2. CASE GoCheck(e)
  BY <1>2 DEF GoCheck, TypeOK
<1>. QED  BY <1>1, <1>2

LEMMA NoDataStep ==
  ASSUME NEW E, NEW U, CInv(E, U), NEW e \in Endpoint, NoData(e)
  PROVE  CInv(E, U)' /\ StepGood
<1>1. TypeOK /\ UNCHANGED <<sb, rb, window, wrote, delivered, net, alive>> /\ GoSend(e)
  BY DEF CInv, NoData
<1> DEFINE X == {}
<1>2. net' \subseteq net \cup X /\ \A p \in X : PacketGood(p, sb, rb, U)
  BY <1>1
<1> HIDE DEF X
<1>. QED  BY <1>1, <1>2, GoTypes, OnlyPackets

LEMMA ReplyStep ==
  ASSUME NEW E, NEW U, CInv(E, U), NEW e \in Endpoint, Reply(e)
  PROVE  CInv(E, U)' /\ StepGood
<1> DEFINE adv == recv_buffer_max_receive(rb[e])
           none == <<>>
<1>1. /\ TypeOK /\ UNCHANGED <<sb, rb, window, wrote, delivered, alive>> /\ GoSend(e)
      /\ net' \subseteq net \cup PureAck(e)
  BY DEF CInv, Reply, Transmit
<1>2. adv \in Nat /\ expected(rb[e]) + adv <= lastRead(rb[e]) + DEFAULT_BUFF_SIZE
  <2>1. /\ expected(rb[e]) \in Nat /\ lastRead(rb[e]) \in Nat
        /\ lastRead(rb[e]) < expected(rb[e])
        /\ expected(rb[e]) <= lastRead(rb[e]) + DEFAULT_BUFF_SIZE
    BY EndpointFacts, ReceivedWasSent
  <2>2. adv = DEFAULT_BUFF_SIZE - (expected(rb[e]) - lastRead(rb[e]))
    BY DEF recv_buffer_max_receive, expected, lastRead
  <2> HIDE DEF adv
  <2>. QED  BY <2>1, <2>2, CapacityAssumption
<1>3. /\ none \in Seq(Byte) /\ Len(none) = 0 /\ Len(none) <= MSS
      /\ InPlace(none, 0, sb[e], ISN[e])
  <2>1. MSS \in Nat
    BY ConnectionAssumption
  <2>2. none \in Seq(Byte) /\ Len(none) = 0
    OBVIOUS
  <2>. QED  BY <2>1, <2>2 DEF InPlace
<1>4. ASSUME NEW p \in PureAck(e) PROVE PacketGood(p, sb, rb, U)
  <2>1. p \in DataPacket(e, 0, adv, none)
    BY DEF PureAck
  <2> HIDE DEF adv, none
  <2>2. 0 \in Nat /\ ~(Len(none) > 0)
    BY <1>3
  <2>. QED  BY <2>1, <2>2, <1>2, <1>3, FreshPacket
<1>. QED  BY <1>1, <1>4, GoTypes, OnlyPackets

-----------------------------------------------------------------------------
(* The backend threads: sending.                                           *)
LEMMA PieceFacts ==
  ASSUME NEW total \in Nat, NEW c \in Pieces(total)
  PROVE  /\ c.offset \in Nat /\ c.offset < total
         /\ c.len = MIN(total - c.offset, MSS)
         /\ c.len \in Nat \ {0} /\ c.len <= MSS /\ c.offset + c.len <= total
<1>1. PICK o \in 0 .. total - 1 : c = [offset |-> o, len |-> MIN(total - o, MSS)]
  BY DEF Pieces
<1>2. MSS \in Nat \ {0}
  BY ConnectionAssumption
<1>3. /\ MIN(total - o, MSS) \in Nat \ {0} /\ MIN(total - o, MSS) <= MSS
      /\ o + MIN(total - o, MSS) <= total
  BY <1>2 DEF MIN
<1>. QED  BY <1>1, <1>3

LEMMA PiecesInOrder ==
  ASSUME NEW total \in Nat, NEW c \in Pieces(total), NEW d \in Pieces(total),
         d.offset <= c.offset
  PROVE  d.offset + d.len <= c.offset + c.len
<1>1. /\ c.offset \in Nat /\ c.offset < total /\ c.len = MIN(total - c.offset, MSS)
      /\ d.offset \in Nat /\ d.offset < total /\ d.len = MIN(total - d.offset, MSS)
  BY PieceFacts
<1>2. MSS \in Nat
  BY ConnectionAssumption
<1>. QED  BY <1>1, <1>2 DEF MIN

LEMMA AdvertisedIsNat ==
  ASSUME NEW E, NEW U, CInv(E, U), NEW e \in Endpoint, NEW w \in AdvertisedWindows(e)
  PROVE  w \in Nat
<1>1. /\ rb[e].next_byte_expected_index \in Int /\ rb[e].last_byte_read_index \in Int
      /\ DEFAULT_BUFF_SIZE \in Int
  BY EndpointFacts, CapacityAssumption DEF RecvBufferType, Index
<1>2. \A x \in Int : x % 2^16 \in Nat
  OBVIOUS
<1>3. ASSUME NEW wraps PROVE MaxReceiveAfter(rb[e], wraps) \in Nat
  <2> DEFINE distance == rb[e].next_byte_expected_index - rb[e].last_byte_read_index
             x == DEFAULT_BUFF_SIZE - (IF wraps THEN DEFAULT_BUFF_SIZE + distance
                                                ELSE distance)
  <2>1. x \in Int
    BY <1>1
  <2>2. MaxReceiveAfter(rb[e], wraps) = x % 2^16
    BY DEF MaxReceiveAfter
  <2> HIDE DEF x
  <2>. QED  BY <2>1, <2>2, <1>2
<1>. QED  BY <1>3 DEF AdvertisedWindows

LEMMA TimeoutStep ==
  ASSUME NEW E, NEW U, CInv(E, U), NEW e \in Endpoint,
         NEW w \in AdvertisedWindows(e), Timeout(e, w)
  PROVE  CInv(E, U)' /\ StepGood
<1> DEFINE s == sb[e]
           total == ResendLength(e)
           X == resend_unacknowledged(e, w)
<1>1. /\ TypeOK /\ UNCHANGED <<sb, rb, window, wrote, delivered, alive>> /\ GoCheck(e)
      /\ net' \subseteq net \cup X
      /\ get_unacknowledged_count(s) > 0
  BY DEF CInv, Timeout, Transmit
<1>2. w \in Nat
  BY AdvertisedIsNat
<1>3. /\ SendGood(s, ISN[e]) /\ s \in SendBufferType /\ ISN[e] \in Nat
      /\ acked(s) \in Nat /\ sent(s) \in Nat /\ written(s) \in Nat
      /\ sent(s) < written(s) /\ written(s) <= acked(s) + DEFAULT_BUFF_SIZE
      /\ ISN[e] <= acked(s)
  BY EndpointFacts DEF SendGood
<1>4. total \in Nat /\ acked(s) + total <= sent(s)
  <2> DEFINE count == get_unacknowledged_count(s)
             rcvd == window[e].rcvd_advertised_window
  <2>1. count = sent(s) - acked(s) /\ count > 0
    BY <1>1 DEF get_unacknowledged_count, sent, acked
  <2>2. rcvd \in Nat
    BY <1>1 DEF TypeOK
  <2>3. total = MAX(1, MIN(count, rcvd))
    BY DEF ResendLength
  <2> HIDE DEF count, rcvd, s, total
  <2>. QED  BY <2>1, <2>2, <2>3, <1>3 DEF MAX, MIN
<1>5. ASSUME NEW p \in X PROVE PacketGood(p, sb, rb, U)
  <2>1. PICK c \in Pieces(total) :
          p \in DataPacket(e, acked(s) + 1 + c.offset, w,
                  Linear(s.buffer, (s.last_byte_acked_index + 1 + c.offset)
                                     % DEFAULT_BUFF_SIZE, c.len))
    BY DEF resend_unacknowledged, acked
  <2> DEFINE first == acked(s) + 1 + c.offset
             start == (s.last_byte_acked_index + 1 + c.offset) % DEFAULT_BUFF_SIZE
             payload == Linear(s.buffer, start, c.len)
  <2>2. /\ c.offset \in Nat /\ c.len \in Nat \ {0} /\ c.len <= MSS
        /\ c.offset + c.len <= total
    BY <1>4, PieceFacts
  <2> HIDE DEF total
  <2>3. /\ first \in Nat /\ acked(s) < first /\ acked(s) <= first
        /\ first + c.len <= written(s) /\ first < acked(s) + DEFAULT_BUFF_SIZE
        /\ first + c.len - 1 <= sent(s) /\ ISN[e] < first
    <3> HIDE DEF s
    <3>. QED  BY <2>2, <1>3, <1>4, CapacityAssumption
  <2>4. start = seqnum_to_index_send(s, first)
    <3>1. s.last_byte_acked_index \in Int
      BY <1>3 DEF SendBufferType, Index
    <3>2. s.last_byte_acked_index + (first - acked(s))
            = s.last_byte_acked_index + 1 + c.offset
      <4> HIDE DEF s
      <4>. QED  BY <3>1, <2>2, <1>3
    <3>. QED  BY <3>2 DEF seqnum_to_index_send, acked
  <2> HIDE DEF first, s
  <2>5. start \in Nat
    <3>1. start \in Index
      <4> HIDE DEF start
      <4>. QED  BY <2>3, <2>4, <1>3, SendSlot
    <3> HIDE DEF start
    <3>. QED  BY <3>1 DEF Index
  <2> HIDE DEF start
  <2>6. /\ payload \in Seq(Byte) /\ Len(payload) = c.len
        /\ InPlace(payload, first, s, ISN[e])
    BY <2>2, <2>3, <2>4, <2>5, <1>3, LinearExact
  <2> HIDE DEF payload
  <2>7. payload # <<>>
    BY <2>2, <2>6
  <2>8. p \in DataPacket(e, first, w, payload)
    BY <2>1 DEF first, start, payload
  <2>9. first + Len(payload) - 1 <= sent(sb[e]) /\ InPlace(payload, first, sb[e], ISN[e])
    BY <2>3, <2>6 DEF s
  <2>. QED  BY <2>2, <2>3, <2>6, <2>7, <2>8, <2>9, <1>2, FreshPacket
<1> HIDE DEF X
<1>. QED  BY <1>1, <1>5, GoTypes, OnlyPackets

(* Whatever part of the pieces was dumped before a crash, last_byte_sent   *)
(* is the last byte of them, so none of their packets is ahead of it.      *)
LEMMA SendStep ==
  ASSUME NEW E, NEW U, CInv(E, U), NEW e \in Endpoint,
         NEW w \in AdvertisedWindows(e), Send(e, w)
  PROVE  CInv(E, U)' /\ StepGood
<1> DEFINE s == sb[e]
           total == FreshLength(e)
           start(c) == (s.last_byte_sent_index + 1 + c.offset) % DEFAULT_BUFF_SIZE
           packet(c) == DataPacket(e, sent(s) + 1 + c.offset, w,
                                   safe_memcpy_from_sendbuf(s, start(c), c.len))
           crashing == {c \in Pieces(total) : DumpCrashes(s, start(c), c.len)}
           dumped == {c \in Pieces(total) : \A d \in crashing : c.offset < d.offset}
           final == CHOOSE c \in dumped : \A d \in dumped : d.offset <= c.offset
           X == UNION {packet(c) : c \in dumped}
<1>1. TypeOK /\ StreamsGood /\ WindowGood(E) /\ NetGood(U)
      /\ NeverMisplaced /\ ReadIntact
  BY DEF CInv
<1>2. /\ UNCHANGED <<rb, window, wrote, delivered>> /\ GoCheck(e)
      /\ net' \subseteq net \cup X
      /\ sb' = IF dumped = {} THEN sb
               ELSE [sb EXCEPT ![e] = send_buffer_dump(@, start(final), final.len)]
      /\ alive' = [alive EXCEPT ![e] = (crashing = {})]
  BY DEF Send, multiple_send, Transmit, sent
<1>3. /\ alive' \in [Endpoint -> BOOLEAN] /\ w \in Nat
      /\ rb' \in [Endpoint -> RecvBufferType]
  <2> HIDE DEF crashing
  <2>. QED  BY <1>1, <1>2, AdvertisedIsNat DEF TypeOK
<1>4. /\ SendGood(s, ISN[e]) /\ s \in SendBufferType /\ ISN[e] \in Nat
      /\ acked(s) \in Nat /\ sent(s) \in Nat /\ written(s) \in Nat
      /\ acked(s) <= sent(s)
      /\ sent(s) < written(s) /\ written(s) <= acked(s) + DEFAULT_BUFF_SIZE
      /\ ISN[e] <= acked(s)
  BY EndpointFacts DEF SendGood
<1>5. /\ total \in Nat /\ total <= send_buffer_max_new_dump(s)
      /\ sent(s) + total < written(s)
  <2> DEFINE count == get_unacknowledged_count(s)
             rcvd == window[e].rcvd_advertised_window
             most == send_buffer_max_new_dump(s)
  <2>1. count = sent(s) - acked(s) /\ most = written(s) - sent(s) - 1
    BY DEF get_unacknowledged_count, send_buffer_max_new_dump, sent, acked, written
  <2>2. rcvd \in Nat
    BY <1>1 DEF TypeOK
  <2>3. total = IF count < rcvd THEN MIN(most, rcvd - count) ELSE 0
    BY DEF FreshLength
  <2>4. total \in Nat /\ total <= most /\ sent(s) + total < written(s)
    <3> HIDE DEF count, rcvd, most, s, total
    <3>. QED  BY <2>1, <2>2, <2>3, <1>4 DEF MIN
  <2>. QED  BY <2>4
<1> HIDE DEF total
<1>6. ASSUME NEW c \in Pieces(total)
      PROVE  /\ c.offset \in Nat /\ c.len \in Nat \ {0} /\ c.len <= MSS
             /\ c.offset + c.len <= total /\ c.offset < total
  BY <1>5, PieceFacts
<1>7. ASSUME dumped # {}
      PROVE  /\ final \in dumped
             /\ \A d \in dumped : d.offset + d.len <= final.offset + final.len
  <2> DEFINE offsets == {d.offset : d \in dumped}
  <2>1. offsets \subseteq Nat /\ offsets # {} /\ \A y \in offsets : y <= total
    <3>1. \A d \in dumped : d.offset \in Nat /\ d.offset < total
      BY <1>6
    <3> HIDE DEF dumped
    <3>. QED  BY <3>1, <1>5, <1>7
  <2>2. PICK c \in dumped : \A d \in dumped : d.offset <= c.offset
    <3> HIDE DEF dumped
    <3>1. Max(offsets) \in offsets /\ \A y \in offsets : y <= Max(offsets)
      <4> HIDE DEF offsets
      <4>. QED  BY <2>1, <1>5, MaxIsGreatest
    <3>. QED  BY <3>1
  <2>3. final \in dumped /\ \A d \in dumped : d.offset <= final.offset
    <3> HIDE DEF dumped
    <3>. QED  BY <2>2
  <2> HIDE DEF final
  <2>. QED  BY <2>3, <1>5, PiecesInOrder
<1>8. PICK sn : /\ sn \in SendBufferType /\ SendGood(sn, ISN[e])
                /\ acked(sn) = acked(s) /\ written(sn) = written(s)
                /\ sent(s) <= sent(sn)
                /\ \A c \in dumped : sent(s) + c.offset + c.len <= sent(sn)
                /\ sb' = [sb EXCEPT ![e] = sn]
  <2>1. CASE dumped = {}
    <3>1. sb' = [sb EXCEPT ![e] = s]
      <4> HIDE DEF dumped, final
      <4>. QED  BY <2>1, <1>1, <1>2 DEF TypeOK
    <3>2. sent(s) <= sent(s) /\ \A c \in dumped : sent(s) + c.offset + c.len <= sent(s)
      BY <2>1, <1>4
    <3> HIDE DEF dumped
    <3>. QED  BY <3>1, <3>2, <1>4
  <2>2. CASE dumped # {}
    <3> DEFINE sn == send_buffer_dump(s, start(final), final.len)
    <3>1. /\ final \in Pieces(total)
          /\ \A d \in dumped : d.offset + d.len <= final.offset + final.len
      BY <2>2, <1>7
    <3>2. sb' = [sb EXCEPT ![e] = sn]
      <4> HIDE DEF dumped, final
      <4>. QED  BY <2>2, <1>2
    <3> HIDE DEF final
    <3>3. /\ final.offset \in Nat /\ final.len \in Nat \ {0}
          /\ final.offset + final.len <= send_buffer_max_new_dump(s)
      <4>1. send_buffer_max_new_dump(s) = written(s) - sent(s) - 1
        BY DEF send_buffer_max_new_dump, sent, written
      <4> HIDE DEF s
      <4>. QED  BY <4>1, <3>1, <1>4, <1>5, <1>6
    <3>4. Dumped(s, sn, ISN[e], final.offset + final.len)
      BY <3>3, <1>4, DumpExact
    <3> HIDE DEF sn
    <3>5. /\ SendGood(sn, ISN[e]) /\ sn \in SendBufferType
          /\ acked(sn) = acked(s) /\ written(sn) = written(s)
          /\ sent(sn) = sent(s) + (final.offset + final.len)
      BY <3>4 DEF Dumped, SendGood
    <3>6. sent(s) <= sent(sn)
      <4> HIDE DEF s
      <4>. QED  BY <3>3, <3>5, <1>4
    <3>7. ASSUME NEW c \in dumped PROVE sent(s) + c.offset + c.len <= sent(sn)
      <4>1. /\ c.offset + c.len <= final.offset + final.len
            /\ c.offset \in Nat /\ c.len \in Nat
        BY <3>1, <1>6
      <4> HIDE DEF s, dumped
      <4>. QED  BY <4>1, <3>3, <3>5, <1>4
    <3> HIDE DEF s, dumped
    <3>. QED  BY <3>2, <3>5, <3>6, <3>7
  <2>. QED  BY <2>1, <2>2
<1>9. /\ sb' \in [Endpoint -> SendBufferType]
      /\ sb'[e] = sn /\ \A g \in Endpoint : g # e => sb'[g] = sb[g]
  BY <1>1, <1>8 DEF TypeOK
<1>10. ASSUME NEW p \in X PROVE PacketGood(p, sb', rb', U)
  <2>1. PICK c \in dumped : p \in packet(c)
    <3> HIDE DEF dumped
    <3>. QED  OBVIOUS
  <2>2. c \in Pieces(total) /\ c \notin crashing
    <3>1. c \in Pieces(total) /\ \A d \in crashing : c.offset < d.offset
      OBVIOUS
    <3>2. ~(c.offset < c.offset)
      BY <3>1, <1>6
    <3> HIDE DEF crashing
    <3>. QED  BY <3>1, <3>2
  <2>3. /\ c.offset \in Nat /\ c.len \in Nat \ {0} /\ c.len <= MSS
        /\ c.offset + c.len <= total
    BY <2>2, <1>6
  <2>4. ~DumpCrashes(s, start(c), c.len)
    BY <2>2
  <2>5. sent(s) + c.offset + c.len <= sent(sn)
    BY <1>8
  <2> DEFINE first == sent(s) + 1 + c.offset
             i == start(c)
             payload == Linear(s.buffer, i, c.len)
  <2> HIDE DEF crashing, dumped
  <2>6. /\ first \in Nat /\ acked(s) < first /\ first + c.len <= written(s)
        /\ first < written(s) /\ c.len < DEFAULT_BUFF_SIZE /\ ISN[e] < first
    <3> HIDE DEF s
    <3>. QED  BY <2>3, <1>4, <1>5, CapacityAssumption
  <2>7. i = seqnum_to_index_send(s, first) /\ i \in Index
    BY <2>3, <2>6, <1>4, FreshSlot
  <2>8. p \in DataPacket(e, first, w, safe_memcpy_from_sendbuf(s, i, c.len))
    BY <2>1
  <2> HIDE DEF i, first, s
  <2>9. safe_memcpy_from_sendbuf(s, i, c.len) = payload
    BY <2>3, <2>4, <2>6, <2>7, <1>4, FreshIsLinear DEF i
  <2>10. /\ payload \in Seq(Byte) /\ Len(payload) = c.len
         /\ InPlace(payload, first, sb'[e], ISN[e])
    <3>1. i \in Nat
      BY <2>7 DEF Index
    <3>2. /\ payload \in Seq(Byte) /\ Len(payload) = c.len
          /\ InPlace(payload, first, s, ISN[e])
      BY <3>1, <2>3, <2>6, <2>7, <1>4, LinearExact
    <3>3. written(s) <= written(sn) /\ sn = sb'[e]
      BY <1>4, <1>8, <1>9
    <3>. QED  BY <3>2, <3>3, <1>4, <1>8, StillFits
  <2> HIDE DEF payload
  <2>11. payload # <<>> /\ p \in DataPacket(e, first, w, payload)
    BY <2>3, <2>8, <2>9, <2>10
  <2>12. first + Len(payload) - 1 <= sent(sb'[e])
    <3>1. sent(sn) \in Nat
      BY <1>8, SendBounds
    <3>. QED  BY <3>1, <2>3, <2>5, <2>10, <1>4, <1>9 DEF first
  <2>13. PacketGood(p, sb', rb, U)
    BY <2>3, <2>6, <2>10, <2>11, <2>12, <1>3, FreshPacket
  <2>. QED  BY <2>13, <1>2
<1> HIDE DEF X, dumped, crashing, final
<1>11. /\ \A g \in Endpoint : acked(sb'[g]) = acked(sb[g]) /\ written(sb'[g]) = written(sb[g])
       /\ \A g \in Endpoint : sent(sb[g]) <= sent(sb'[g])
  BY <1>8, <1>9, EndpointFacts
<1>12. ASSUME NEW g \in Endpoint PROVE Forward(sb[g], rb[g], sb'[g], rb'[g])
  <2>1. /\ expected(rb[g]) \in Nat /\ lastRead(rb[g]) \in Nat /\ rb'[g] = rb[g]
        /\ sent(sb[g]) <= sent(sb'[g]) /\ written(sb[g]) <= written(sb'[g])
    BY <1>2, <1>11, EndpointFacts
  <2>. QED  BY <2>1 DEF Forward
<1>13. NetGood(U)' /\ net' \subseteq PacketType(Endpoint, Seq(Byte))
  BY <1>2, <1>3, <1>9, <1>10, <1>12, NetStaysGood
<1>14. StreamsGood'
  <2> SUFFICES ASSUME NEW g \in Endpoint
               PROVE  /\ InStep(sb'[g], rb[peer(g)], ISN[g])
                      /\ written(sb'[g]) = ISN[g] + wrote[g] + 1
    BY <1>2 DEF StreamsGood
  <2>1. /\ InStep(sb[g], rb[peer(g)], ISN[g])
        /\ written(sb'[g]) = ISN[g] + wrote[g] + 1
    BY <1>11, EndpointFacts
  <2>2. CASE g = e
    <3>1. acked(sn) < expected(rb[peer(e)])
      BY <2>1, <2>2, <1>8, ReceivedWasSent DEF s
    <3>2. InStep(sn, rb[peer(e)], ISN[e])
      <4>1. written(sb[e]) <= written(sn) /\ sent(sb[e]) <= sent(sn)
        BY <1>4, <1>8 DEF s
      <4>. QED  BY <4>1, <2>1, <2>2, <3>1, <1>8, SenderGoesOn
    <3>. QED  BY <2>1, <2>2, <3>2, <1>9
  <2>3. CASE g # e
    BY <2>1, <2>3, <1>9
  <2>. QED  BY <2>2, <2>3
<1>15. WindowGood(E)'
  BY <1>1, <1>2, <1>11 DEF WindowGood, acked
<1>16. TypeOK'
  BY <1>1, <1>2, <1>3, <1>9, <1>13, GoTypes DEF TypeOK
<1>17. NeverMisplaced' /\ ReadIntact'
  BY <1>1, <1>2 DEF NeverMisplaced, ReadIntact
<1>18. ASSUME NEW g \in Endpoint PROVE OneMoves(g)
  <2>1. /\ wrote[g] \in Nat /\ acked(sb[g]) \in Nat
        /\ expected(rb[peer(g)]) \in Nat /\ lastRead(rb[peer(g)]) \in Nat
        /\ acked(sb'[g]) = acked(sb[g])
    BY <1>11, EndpointFacts
  <2>. QED  BY <2>1, <1>2 DEF OneMoves
<1>19. ASSUME NEW g \in Endpoint, alive[g], wrote[g] < DEFAULT_BUFF_SIZE PROVE alive'[g]
  <2>1. CASE g = e
    <3>1. FirstLap(s, ISN[e])
      <4>1. wrote[e] \in Nat /\ written(s) = ISN[e] + wrote[e] + 1
        BY EndpointFacts DEF s
      <4>. QED  BY <4>1, <2>1, <1>4, <1>19, CapacityAssumption DEF FirstLap
    <3>2. ASSUME NEW c \in Pieces(total) PROVE ~DumpCrashes(s, start(c), c.len)
      <4>1. c.offset \in Nat /\ c.len \in Nat \ {0} /\ sent(s) + c.offset + c.len < written(s)
        <5> HIDE DEF s
        <5>. QED  BY <1>4, <1>5, <1>6
      <4>. QED  BY <4>1, <3>1, <1>4, FirstLapDumps
    <3>3. crashing = {}
      BY <3>2 DEF crashing
    <3>. QED  BY <3>3, <2>1, <1>1, <1>2 DEF TypeOK
  <2>2. CASE g # e
    BY <2>2, <1>1, <1>2, <1>19 DEF TypeOK
  <2>. QED  BY <2>1, <2>2
<1>20. \A g \in Endpoint : StaysAlive(g)
  BY <1>19 DEF StaysAlive
<1>. QED  BY <1>13, <1>14, <1>15, <1>16, <1>17, <1>18, <1>20 DEF CInv, StepGood

-----------------------------------------------------------------------------
(* The backend threads: receiving.  The acknowledgement of a packet moves  *)
(* one direction, its bytes the other.  The packet with which the server's *)
(* handshake ends puts its window_t in step.                               *)
LEMMA HandleMessageStep ==
  ASSUME NEW E, NEW U, CInv(E, U), NEW e \in Endpoint, NEW p \in net,
         NEW again \in Duplication, HandleMessage(e, p, again),
         \/ e \in E
         \/ window[e].last_ack_received = acked(sb[e]) /\ p.ack = acked(sb[e]) + 1
  PROVE  CInv(E \cup {e}, U)' /\ StepGood
<1> DEFINE f == peer(e)
           n == Len(p.payload)
           rn == IF n > 0 /\ recv_buffer_can_receive(rb[e], p.seq, n) = 0
                   THEN recv_buffer_receive(rb[e], p.seq, p.payload) ELSE rb[e]
           sn == IF p.ack = window[e].last_ack_received THEN sb[e]
                 ELSE send_buffer_update_ack(sb[e], p.ack)
           wn == [last_ack_received      |-> LastAck(window[e], p.ack),
                  rcvd_advertised_window |-> p.adv_window,
                  next_seq_expected      |->
                    IF n > 0 THEN expected(rn) ELSE window[e].next_seq_expected]
<1>1. TypeOK /\ StreamsGood /\ WindowGood(E) /\ NetGood(U)
      /\ NeverMisplaced /\ ReadIntact
  BY DEF CInv
<1>2. /\ f \in Endpoint /\ peer(f) = e /\ f # e
      /\ \A g \in Endpoint : g = e \/ g = f
  BY Peers
<1>3. p.dst = e /\ PacketGood(p, sb, rb, U)
  BY <1>1 DEF HandleMessage, NetGood
<1>4. /\ PayloadGood(p, sb[f], ISN[f]) /\ AckGood(p, rb[f], ISN[e], U)
      /\ p \in PacketType(Endpoint, Seq(Byte))
  BY <1>3 DEF PacketGood
<1>5. get_payload_len(p) = n /\ get_payload(p) = p.payload
  BY <1>4, PayloadRead
<1>6. /\ p.ack \in Nat /\ p.adv_window \in Nat /\ n \in Nat
  <2>1. 0 .. 2^16 - 1 \subseteq Nat
    OBVIOUS
  <2>2. p.ack \in Nat /\ p.adv_window \in 0 .. 2^16 - 1 /\ p.payload \in Seq(Byte)
    BY <1>4 DEF PacketType
  <2>. QED  BY <2>1, <2>2
<1>7. /\ net' \subseteq net
      /\ sb' = IF p.ack = window[e].last_ack_received THEN sb
               ELSE [sb EXCEPT ![e] = send_buffer_update_ack(@, p.ack)]
      /\ rb' = [rb EXCEPT ![e] = rn]
      /\ window' = [window EXCEPT ![e] = wn]
      /\ IF n = 0 THEN GoSend(e)
         ELSE pc' = [pc EXCEPT ![e] = "reply"] /\ UNCHANGED wrapped
      /\ UNCHANGED <<alive, wrote, delivered>>
  BY <1>5 DEF HandleMessage, expected
<1>8. /\ InStep(sb[e], rb[f], ISN[e]) /\ SendGood(sb[e], ISN[e])
      /\ InStep(sb[f], rb[e], ISN[f])
      /\ acked(sb[e]) \in Nat /\ sent(sb[e]) \in Nat /\ ISN[e] \in Nat
      /\ expected(rb[e]) \in Nat /\ lastRead(rb[e]) \in Nat
      /\ expected(rb[f]) \in Nat /\ written(sb[e]) \in Nat
      /\ \/ window[e].last_ack_received = acked(sb[e]) + 1
         \/ window[e].last_ack_received = acked(sb[e]) /\ p.ack = acked(sb[e]) + 1
      /\ window[e].next_seq_expected = expected(rb[e])
      /\ sb[e] \in SendBufferType
  BY <1>2, EndpointFacts
<1>9. /\ sn \in SendBufferType /\ SendGood(sn, ISN[e])
      /\ acked(sn) = MAX(acked(sb[e]), p.ack - 1)
      /\ sent(sn) = sent(sb[e]) /\ written(sn) = written(sb[e])
      /\ acked(sn) < expected(rb[f]) /\ acked(sb[e]) <= acked(sn)
      /\ LastAck(window[e], p.ack) = acked(sn) + 1
  <2>1. /\ ISN[e] < p.ack /\ p.ack <= expected(rb[f])
        /\ expected(rb[f]) <= sent(sb[e]) + 1 /\ acked(sb[e]) < expected(rb[f])
    BY <1>4, <1>8, ReceivedWasSent DEF AckGood
  <2>2. p.ack \in Nat \ {0} /\ p.ack <= sent(sb[e]) + 1
    BY <2>1, <1>6, <1>8
  <2>3. /\ SendGood(sn, ISN[e])
        /\ acked(sn) = MAX(acked(sb[e]), p.ack - 1)
        /\ sent(sn) = sent(sb[e]) /\ written(sn) = written(sb[e])
    <3>1. CASE p.ack = window[e].last_ack_received
      <4>1. MAX(acked(sb[e]), p.ack - 1) = acked(sb[e]) /\ sn = sb[e]
        BY <3>1, <1>6, <1>8 DEF MAX
      <4> HIDE DEF sn
      <4>. QED  BY <4>1, <1>8
    <3>2. CASE p.ack # window[e].last_ack_received
      <4>1. sn = send_buffer_update_ack(sb[e], p.ack)
        BY <3>2
      <4> HIDE DEF sn
      <4>2. AckedUpTo(sb[e], sn, ISN[e], p.ack)
        BY <4>1, <2>2, <1>8, AckExact
      <4>. QED  BY <4>2 DEF AckedUpTo
    <3>. QED  BY <3>1, <3>2
  <2> HIDE DEF sn
  <2>4. /\ acked(sn) < expected(rb[f]) /\ acked(sb[e]) <= acked(sn)
        /\ LastAck(window[e], p.ack) = acked(sn) + 1
    BY <2>1, <2>3, <1>6, <1>8 DEF MAX, LastAck
  <2>. QED  BY <2>3, <2>4 DEF SendGood
<1>10. /\ InStep(sb[f], rn, ISN[f]) /\ rn \in RecvBufferType
       /\ lastRead(rn) = lastRead(rb[e]) /\ expected(rb[e]) <= expected(rn)
       /\ n = 0 => rn = rb[e]
       /\ expected(rn) \in Nat
  <2>1. CASE n > 0 /\ recv_buffer_can_receive(rb[e], p.seq, n) = 0
    <3>1. rn = recv_buffer_receive(rb[e], p.seq, p.payload)
      BY <2>1
    <3> HIDE DEF rn
    <3>2. /\ InStep(sb[f], rn, ISN[f])
          /\ lastRead(rn) = lastRead(rb[e]) /\ expected(rb[e]) <= expected(rn)
      BY <3>1, <2>1, <1>4, <1>8, ReceiverStores
    <3>3. rn \in RecvBufferType /\ expected(rn) \in Nat
      BY <3>2, ReceivedWasSent DEF InStep, RecvGood
    <3>. QED  BY <3>2, <3>3, <2>1
  <2>2. CASE ~(n > 0 /\ recv_buffer_can_receive(rb[e], p.seq, n) = 0)
    <3>1. rn = rb[e]
      BY <2>2
    <3> HIDE DEF rn
    <3>. QED  BY <3>1, <1>8 DEF InStep, RecvGood
  <2>. QED  BY <2>1, <2>2
<1>11. /\ sb' = [sb EXCEPT ![e] = sn]
       /\ sb' \in [Endpoint -> SendBufferType] /\ rb' \in [Endpoint -> RecvBufferType]
       /\ sb'[e] = sn /\ sb'[f] = sb[f] /\ rb'[e] = rn /\ rb'[f] = rb[f]
  <2>1. sb' = [sb EXCEPT ![e] = sn]
    BY <1>1, <1>7 DEF TypeOK
  <2> HIDE DEF sn, rn
  <2>. QED  BY <2>1, <1>1, <1>2, <1>7, <1>9, <1>10 DEF TypeOK
<1> HIDE DEF sn, rn, f
<1>12. wn = [last_ack_received |-> acked(sn) + 1, rcvd_advertised_window |-> p.adv_window,
             next_seq_expected |-> expected(rn)]
  <2>1. (IF n > 0 THEN expected(rn) ELSE window[e].next_seq_expected) = expected(rn)
    BY <1>6, <1>8, <1>10
  <2>. QED  BY <2>1, <1>9
<1> HIDE DEF wn, n
<1>13. StreamsGood'
  <2> SUFFICES ASSUME NEW g \in Endpoint
               PROVE  /\ InStep(sb'[g], rb'[peer(g)], ISN[g])
                      /\ written(sb'[g]) = ISN[g] + wrote[g] + 1
    BY <1>7 DEF StreamsGood
  <2>1. written(sb[g]) = ISN[g] + wrote[g] + 1
    BY EndpointFacts
  <2>2. CASE g = e
    <3>1. sent(sb[e]) <= sent(sn) /\ written(sb[e]) <= written(sn)
      BY <1>8, <1>9
    <3>2. InStep(sn, rb[f], ISN[e])
      BY <3>1, <1>8, <1>9, SenderGoesOn
    <3>3. rb'[peer(g)] = rb[f]
      BY <2>2, <1>11 DEF f
    <3>. QED  BY <2>1, <2>2, <3>2, <3>3, <1>9, <1>11
  <2>3. CASE g = f
    BY <2>1, <2>3, <1>2, <1>10, <1>11
  <2>. QED  BY <2>2, <2>3, <1>2
<1>14. ASSUME NEW g \in Endpoint
       PROVE  /\ Forward(sb[g], rb[g], sb'[g], rb'[g])
              /\ acked(sb[g]) <= acked(sb'[g]) /\ lastRead(rb'[g]) = lastRead(rb[g])
  <2>1. /\ sent(sb[g]) \in Nat /\ written(sb[g]) \in Nat /\ acked(sb[g]) \in Nat
        /\ expected(rb[g]) \in Nat /\ lastRead(rb[g]) \in Nat
    BY EndpointFacts
  <2>2. CASE g = e
    BY <2>1, <2>2, <1>9, <1>10, <1>11 DEF Forward
  <2>3. CASE g = f
    BY <2>1, <2>3, <1>11 DEF Forward
  <2>. QED  BY <2>2, <2>3, <1>2
<1>15. NetGood(U)' /\ net' \subseteq PacketType(Endpoint, Seq(Byte))
  BY <1>7, <1>11, <1>14, NothingNew
<1>16. WindowGood(E \cup {e})'
  <2> SUFFICES ASSUME NEW g \in Endpoint
               PROVE  /\ g \in E \cup {e} =>
                           window'[g].last_ack_received = acked(sb'[g]) + 1
                      /\ window'[g].next_seq_expected = expected(rb'[g])
    BY DEF WindowGood
  <2>1. CASE g = e
    BY <2>1, <1>1, <1>7, <1>11, <1>12 DEF TypeOK
  <2>2. CASE g = f
    <3>1. window'[g] = window[g]
      BY <2>2, <1>1, <1>2, <1>7 DEF TypeOK
    <3>. QED  BY <3>1, <2>2, <1>2, <1>11, EndpointFacts
  <2>. QED  BY <2>1, <2>2, <1>2
<1>17. TypeOK'
  <2>1. /\ pc' \in [Endpoint -> {"check", "reply", "send"}]
        /\ wrapped' \in [Endpoint -> BOOLEAN]
    <3>1. CASE n = 0
      BY <3>1, <1>1, <1>7, GoTypes
    <3>2. CASE n # 0
      BY <3>2, <1>1, <1>7 DEF TypeOK
    <3>. QED  BY <3>1, <3>2
  <2>2. window' \in [Endpoint -> [next_seq_expected : Nat, last_ack_received : Nat,
                                  rcvd_advertised_window : Nat]]
    <3>1. acked(sn) \in Nat
      BY <1>9, SendBounds
    <3>2. wn \in [next_seq_expected : Nat, last_ack_received : Nat,
                  rcvd_advertised_window : Nat]
      BY <3>1, <1>6, <1>10, <1>12
    <3>. QED  BY <3>2, <1>1, <1>7 DEF TypeOK
  <2>. QED  BY <2>1, <2>2, <1>1, <1>7, <1>11, <1>15 DEF TypeOK
<1>18. NeverMisplaced' /\ ReadIntact'
  BY <1>1, <1>7 DEF NeverMisplaced, ReadIntact
<1>19. ASSUME NEW g \in Endpoint PROVE OneMoves(g)
  <2>1. /\ wrote[g] \in Nat /\ wrote'[g] = wrote[g] /\ peer(g) \in Endpoint
        /\ expected(rb[peer(g)]) \in Nat /\ lastRead(rb[peer(g)]) \in Nat
        /\ acked(sb[g]) \in Nat
    BY <1>7, EndpointFacts, Peers
  <2>2. /\ acked(sb[g]) <= acked(sb'[g])
        /\ expected(rb[peer(g)]) <= expected(rb'[peer(g)])
        /\ lastRead(rb'[peer(g)]) = lastRead(rb[peer(g)])
    BY <2>1, <1>14 DEF Forward
  <2>3. \/ expected(rb'[peer(g)]) = expected(rb[peer(g)])
        \/ acked(sb'[g]) = acked(sb[g])
    <3>1. CASE g = e
      BY <3>1, <1>11 DEF f
    <3>2. CASE g = f
      BY <3>2, <1>11
    <3>. QED  BY <3>1, <3>2, <1>2
  <2>. QED  BY <2>1, <2>2, <2>3 DEF OneMoves
<1>20. \A g \in Endpoint : StaysAlive(g)
  BY <1>7 DEF StaysAlive
<1>. QED  BY <1>13, <1>15, <1>16, <1>17, <1>18, <1>19, <1>20 DEF CInv, StepGood

-----------------------------------------------------------------------------
LEMMA Stutter ==
  ASSUME NEW E, NEW U, CInv(E, U), UNCHANGED vars
  PROVE  CInv(E, U)' /\ StepGood
<1>1. /\ UNCHANGED <<sb, rb, window, wrote, delivered>>
      /\ pc' = pc /\ wrapped' = wrapped /\ alive' = alive /\ net' = net
  BY DEF vars
<1>2. /\ pc' \in [Endpoint -> {"check", "reply", "send"}]
      /\ wrapped' \in [Endpoint -> BOOLEAN]
  BY <1>1 DEF CInv, TypeOK
<1> DEFINE X == {}
<1>3. net' \subseteq net \cup X /\ \A p \in X : PacketGood(p, sb, rb, U)
  BY <1>1
<1> HIDE DEF X
<1>. QED  BY <1>1, <1>2, <1>3, OnlyPackets

(* A step of the backend of an endpoint whose window_t is in step.         *)
LEMMA BackendStep ==
  ASSUME NEW E, NEW U, CInv(E, U), NEW e \in Endpoint, e \in E, Backend(e)
  PROVE  CInv(E, U)' /\ StepGood
<1>1. CASE NoData(e)
  BY <1>1, NoDataStep
<1>2. CASE \E p \in net, again \in Duplication : HandleMessage(e, p, again)
  <2>1. E \cup {e} = E
    OBVIOUS
  <2>2. CInv(E \cup {e}, U)' /\ StepGood
    BY <1>2, HandleMessageStep
  <2>. QED  BY <2>1, <2>2
<1>3. CASE Reply(e)
  BY <1>3, ReplyStep
<1>4. CASE \E w \in AdvertisedWindows(e) : Timeout(e, w) \/ Send(e, w)
  BY <1>4, TimeoutStep, SendStep
<1>. QED  BY <1>1, <1>2, <1>3, <1>4 DEF Backend

LEMMA NextStep ==
  ASSUME Inv, [Next]_vars
  PROVE  Inv' /\ StepGood
<1>1. CInv(Endpoint, {})
  BY DEF Inv
<1>2. CASE UNCHANGED vars
  BY <1>1, <1>2, Stutter DEF Inv
<1>3. CASE Next
  <2>1. PICK e \in Endpoint :
          \/ \E n \in 1 .. DEFAULT_BUFF_SIZE : Write(e, n)
          \/ \E length \in 1 .. DEFAULT_BUFF_SIZE : Read(e, length)
          \/ Backend(e)
    BY <1>3 DEF Next, Backend
  <2>2. CASE \E n \in 1 .. DEFAULT_BUFF_SIZE : Write(e, n)
    BY <1>1, <2>2, WriteStep DEF Inv
  <2>3. CASE \E length \in 1 .. DEFAULT_BUFF_SIZE : Read(e, length)
    BY <1>1, <2>3, ReadStep DEF Inv
  <2>4. CASE Backend(e)
    BY <1>1, <2>4, BackendStep DEF Inv
  <2>. QED  BY <2>1, <2>2, <2>3, <2>4
<1>. QED  BY <1>2, <1>3

LEMMA Invariance == Spec => []Inv
<1>1. Inv /\ [Next]_vars => Inv'
  BY NextStep
<1>. QED  BY <1>1, InitInvariant, PTL DEF Spec

-----------------------------------------------------------------------------
(* Type correctness of the two endpoints and of every packet.              *)
THEOREM ConnectionTypeOK == Spec => []TypeOK
<1>1. Inv => TypeOK
  BY DEF Inv, CInv
<1>. QED  BY <1>1, Invariance, PTL

(* window_t never disagrees with the buffers.                              *)
THEOREM ConnectionWindowInStep == Spec => []WindowInStep
<1>1. Inv => WindowInStep
  BY DEF Inv, CInv, WindowGood, WindowInStep, next_expected, acked, expected
<1>. QED  BY <1>1, Invariance, PTL

(* A byte the sender has forgotten is at the receiver, and the receiver    *)
(* has only bytes that were sent: over a network that loses, repeats and   *)
(* reorders.                                                               *)
THEOREM ConnectionNothingLost == Spec => []NothingLost
<1>1. Inv => NothingLost
  <2> SUFFICES ASSUME Inv, NEW e \in Endpoint
               PROVE  /\ acked(sb[e]) < expected(rb[peer(e)])
                      /\ expected(rb[peer(e)]) <= sent(sb[e]) + 1
    BY DEF NothingLost, next_expected, acked, sent, expected
  <2>. QED  BY EndpointFacts, ReceivedWasSent DEF Inv
<1>. QED  BY <1>1, Invariance, PTL

(* No acknowledgement under way, however old, trips the assertions of      *)
(* seqnum_to_index_send or is of a byte that was not sent.                 *)
THEOREM ConnectionAcksValid == Spec => []AcksInFlightValid
<1>1. Inv => AcksInFlightValid
  <2> SUFFICES ASSUME Inv, NEW p \in net
               PROVE  /\ p.ack <= sent(sb[p.dst]) + 1
                      /\ p.ack - 1 > acked(sb[p.dst]) => InSendRing(sb[p.dst], p.ack - 1)
    BY DEF AcksInFlightValid, acked, sent
  <2> DEFINE e == p.dst
  <2>1. PacketGood(p, sb, rb, {})
    BY DEF Inv, CInv, NetGood
  <2>2. e \in Endpoint /\ p.ack \in Nat /\ p.ack <= expected(rb[peer(e)])
    BY <2>1 DEF PacketGood, PacketType, AckGood
  <2> HIDE DEF e
  <2>3. /\ acked(sb[e]) \in Nat /\ sent(sb[e]) \in Nat /\ expected(rb[peer(e)]) \in Nat
        /\ expected(rb[peer(e)]) <= sent(sb[e]) + 1
        /\ sb[e] \in SendBufferType
    BY <2>2, EndpointFacts, ReceivedWasSent DEF Inv
  <2>4. sent(sb[e]) < acked(sb[e]) + DEFAULT_BUFF_SIZE
    BY <2>3, SendBounds
  <2>5. p.ack <= sent(sb[e]) + 1
    BY <2>2, <2>3
  <2>6. p.ack - 1 > acked(sb[e]) => InSendRing(sb[e], p.ack - 1)
    <3>1. p.ack - 1 > acked(sb[e]) =>
            p.ack - 1 >= acked(sb[e]) /\ p.ack - 1 < acked(sb[e]) + DEFAULT_BUFF_SIZE
      BY <2>2, <2>3, <2>4, <2>5, CapacityAssumption
    <3>. QED  BY <3>1 DEF InSendRing, acked
  <2>. QED  BY <2>5, <2>6 DEF e
<1>. QED  BY <1>1, Invariance, PTL

(* The window of a pure acknowledgement is room that there is, however old *)
(* the packet is.                                                          *)
THEOREM ConnectionPureAcksBacked == Spec => []PureAcksBacked
<1>1. Inv => PureAcksBacked
  BY DEF Inv, CInv, NetGood, PacketGood, AckGood, lastRead, PureAcksBacked, Backed
<1>. QED  BY <1>1, Invariance, PTL

(* No byte of the stream is read at another place than its own.            *)
THEOREM ConnectionNeverMisplaced == Spec => []NeverMisplaced
<1>1. Inv => NeverMisplaced
  BY DEF Inv, CInv
<1>. QED  BY <1>1, Invariance, PTL

-----------------------------------------------------------------------------
(* A step of ReliableStream: the bytes written, acknowledged, received and *)
(* read before and after it.                                               *)
StreamMove(w, a, r, d, wp, ap, rp, dp) ==
  \/ wp = w /\ ap = a /\ rp = r /\ dp = d
  \/ \E n \in 1 .. DEFAULT_BUFF_SIZE - 1 :
       \/ /\ w + n - a <= DEFAULT_BUFF_SIZE - 1
          /\ wp = w + n /\ ap = a /\ rp = r /\ dp = d
       \/ /\ r + n <= w /\ r + n - d <= DEFAULT_BUFF_SIZE - 1
          /\ rp = r + n /\ wp = w /\ ap = a /\ dp = d
       \/ /\ a + n <= r
          /\ ap = a + n /\ wp = w /\ rp = r /\ dp = d
       \/ /\ d + n <= r
          /\ dp = d + n /\ wp = w /\ ap = a /\ rp = r

(* The step that a step of the connection is.                              *)
StreamStep(e) ==
  StreamMove(wrote[e], AckedBytes(e), ReceivedBytes(e), ReadBytes(e),
             wrote[e]', AckedBytes(e)', ReceivedBytes(e)', ReadBytes(e)')

(* The four numbers of a direction and the bounds between them.            *)
Bounded(w, a, r, d) ==
  /\ w \in Nat /\ a \in Nat /\ r \in Nat /\ d \in Nat
  /\ a <= r /\ d <= r /\ r <= w
  /\ w - a <= DEFAULT_BUFF_SIZE - 1 /\ r - d <= DEFAULT_BUFF_SIZE - 1

LEMMA StreamNumbers ==
  ASSUME NEW s, NEW r, NEW isn, InStep(s, r, isn),
         NEW total \in Nat, written(s) = isn + total + 1
  PROVE  Bounded(total, acked(s) - isn, expected(r) - 1 - isn, lastRead(r) - isn)
<1> DEFINE a == acked(s)
           x == expected(r)
           l == lastRead(r)
           u == sent(s)
           w == written(s)
<1>1. /\ s \in SendBufferType /\ isn \in Nat /\ isn <= a /\ u < w
  BY DEF InStep, SendGood
<1>2. a \in Nat /\ u \in Nat /\ w \in Nat /\ w <= a + DEFAULT_BUFF_SIZE
  BY <1>1, SendBounds
<1>3. /\ x \in Nat /\ l \in Nat /\ isn <= l /\ l < x /\ x <= l + DEFAULT_BUFF_SIZE
      /\ x <= u + 1 /\ a < x
  BY ReceivedWasSent
<1>4. w = isn + total + 1
  OBVIOUS
<1> HIDE DEF a, x, l, u, w
<1>5. Bounded(total, a - isn, x - 1 - isn, l - isn)
  <2>1. /\ a - isn \in Nat /\ x - 1 - isn \in Nat /\ l - isn \in Nat
        /\ a - isn <= x - 1 - isn /\ l - isn <= x - 1 - isn /\ x - 1 - isn <= total
    BY <1>1, <1>2, <1>3, <1>4
  <2>2. total - (a - isn) <= DEFAULT_BUFF_SIZE - 1
    BY <1>1, <1>2, <1>4, CapacityAssumption
  <2>3. (x - 1 - isn) - (l - isn) <= DEFAULT_BUFF_SIZE - 1
    BY <1>1, <1>3, CapacityAssumption
  <2>. QED  BY <2>1, <2>2, <2>3 DEF Bounded
<1>. QED  BY <1>5 DEF a, x, l

LEMMA EveryStepStreams ==
  ASSUME NEW E, NEW U, CInv(E, U), NEW En, CInv(En, U)', NEW e \in Endpoint, OneMoves(e)
  PROVE  StreamStep(e)
<1> DEFINE w == wrote[e]
           a == AckedBytes(e)
           r == ReceivedBytes(e)
           d == ReadBytes(e)
           wp == wrote'[e]
           ap == acked(sb'[e]) - ISN[e]
           rp == expected(rb'[peer(e)]) - 1 - ISN[e]
           dp == lastRead(rb'[peer(e)]) - ISN[e]
<1>1. /\ a = acked(sb[e]) - ISN[e] /\ r = expected(rb[peer(e)]) - 1 - ISN[e]
      /\ d = lastRead(rb[peer(e)]) - ISN[e]
      /\ AckedBytes(e)' = ap /\ ReceivedBytes(e)' = rp /\ ReadBytes(e)' = dp
      /\ wrote[e]' = wp
  BY DEF AckedBytes, ReceivedBytes, ReadBytes, next_expected, acked, expected, lastRead
<1>2. Bounded(w, a, r, d)
  <2>1. /\ InStep(sb[e], rb[peer(e)], ISN[e]) /\ w \in Nat
        /\ written(sb[e]) = ISN[e] + w + 1
    BY EndpointFacts
  <2>. QED  BY <1>1, <2>1, StreamNumbers
<1>3. Bounded(wp, ap, rp, dp)
  <2>1. /\ InStep(sb'[e], rb'[peer(e)], ISN[e])
        /\ written(sb'[e]) = ISN[e] + wp + 1
    BY DEF CInv, StreamsGood
  <2>2. wp \in Nat
    BY DEF CInv, TypeOK
  <2> HIDE DEF wp
  <2>. QED  BY <2>1, <2>2, StreamNumbers
<1>4. /\ ISN[e] \in Nat
      /\ acked(sb[e]) \in Nat /\ expected(rb[peer(e)]) \in Nat
      /\ lastRead(rb[peer(e)]) \in Nat
  BY EndpointFacts
<1>5. /\ w <= wp /\ a <= ap /\ r <= rp /\ d <= dp
      /\ \/ ap = a /\ rp = r /\ dp = d
         \/ wp = w /\ rp = r /\ dp = d
         \/ wp = w /\ ap = a /\ dp = d
         \/ wp = w /\ ap = a /\ rp = r
  <2> DEFINE x == acked(sb'[e])
             y == expected(rb'[peer(e)])
             z == lastRead(rb'[peer(e)])
  <2>1. /\ InStep(sb'[e], rb'[peer(e)], ISN[e])
    BY DEF CInv, StreamsGood
  <2>2. x \in Nat /\ y \in Nat /\ z \in Nat
    BY <2>1, ReceivedWasSent, SendBounds DEF InStep, SendGood
  <2>3. w <= wp /\ acked(sb[e]) <= x /\ expected(rb[peer(e)]) <= y
        /\ lastRead(rb[peer(e)]) <= z
    BY DEF OneMoves
  <2>4. \/ x = acked(sb[e]) /\ y = expected(rb[peer(e)]) /\ z = lastRead(rb[peer(e)])
        \/ wp = w /\ y = expected(rb[peer(e)]) /\ z = lastRead(rb[peer(e)])
        \/ wp = w /\ x = acked(sb[e]) /\ z = lastRead(rb[peer(e)])
        \/ wp = w /\ x = acked(sb[e]) /\ y = expected(rb[peer(e)])
    BY DEF OneMoves
  <2>5. ap = x - ISN[e] /\ rp = y - 1 - ISN[e] /\ dp = z - ISN[e]
    OBVIOUS
  <2> HIDE DEF x, y, z, wp, ap, rp, dp, w, a, r, d
  <2>6. a <= ap /\ r <= rp /\ d <= dp
    BY <2>2, <2>3, <2>5, <1>1, <1>4
  <2>. QED  BY <2>3, <2>4, <2>5, <2>6, <1>1
<1>6. /\ w \in Nat /\ a \in Nat /\ r \in Nat /\ d \in Nat
      /\ a <= r /\ d <= r /\ r <= w
      /\ w - a <= DEFAULT_BUFF_SIZE - 1 /\ r - d <= DEFAULT_BUFF_SIZE - 1
      /\ wp \in Nat /\ ap \in Nat /\ rp \in Nat /\ dp \in Nat
      /\ ap <= rp /\ dp <= rp /\ rp <= wp
      /\ wp - ap <= DEFAULT_BUFF_SIZE - 1 /\ rp - dp <= DEFAULT_BUFF_SIZE - 1
  BY <1>2, <1>3 DEF Bounded
<1> HIDE DEF w, a, r, d, wp, ap, rp, dp
<1>7. StreamMove(w, a, r, d, wp, ap, rp, dp)
  <2>1. CASE ap = a /\ rp = r /\ dp = d /\ wp # w
    <3> DEFINE n == wp - w
    <3>1. /\ n \in 1 .. DEFAULT_BUFF_SIZE - 1 /\ w + n - a <= DEFAULT_BUFF_SIZE - 1
          /\ wp = w + n
      BY <2>1, <1>5, <1>6, CapacityAssumption
    <3> HIDE DEF n
    <3>. QED  BY <3>1, <2>1 DEF StreamMove
  <2>2. CASE wp = w /\ rp = r /\ dp = d /\ ap # a
    <3> DEFINE n == ap - a
    <3>1. n \in 1 .. DEFAULT_BUFF_SIZE - 1 /\ a + n <= r /\ ap = a + n
      BY <2>2, <1>5, <1>6, CapacityAssumption
    <3> HIDE DEF n
    <3>. QED  BY <3>1, <2>2 DEF StreamMove
  <2>3. CASE wp = w /\ ap = a /\ dp = d /\ rp # r
    <3> DEFINE n == rp - r
    <3>1. /\ n \in 1 .. DEFAULT_BUFF_SIZE - 1 /\ r + n <= w
          /\ r + n - d <= DEFAULT_BUFF_SIZE - 1 /\ rp = r + n
      BY <2>3, <1>5, <1>6, CapacityAssumption
    <3> HIDE DEF n
    <3>. QED  BY <3>1, <2>3 DEF StreamMove
  <2>4. CASE wp = w /\ ap = a /\ rp = r /\ dp # d
    <3> DEFINE n == dp - d
    <3>1. n \in 1 .. DEFAULT_BUFF_SIZE - 1 /\ d + n <= r /\ dp = d + n
      BY <2>4, <1>5, <1>6, CapacityAssumption
    <3> HIDE DEF n
    <3>. QED  BY <3>1, <2>4 DEF StreamMove
  <2>5. CASE wp = w /\ ap = a /\ rp = r /\ dp = d
    BY <2>5 DEF StreamMove
  <2>. QED  BY <2>1, <2>2, <2>3, <2>4, <2>5, <1>5
<1>8. StreamStep(e)
  <2>1. /\ wrote[e] = w /\ AckedBytes(e) = a /\ ReceivedBytes(e) = r /\ ReadBytes(e) = d
    BY DEF w, a, r, d
  <2>. QED  BY <2>1, <1>1, <1>7, Zenon DEF StreamStep
<1>. QED  BY <1>8

(* Both directions of the connection implement ReliableStream: every step, *)
(* whatever the network did, reads what was received, receives what was    *)
(* written or forgets what was received.                                   *)
THEOREM ConnectionImplementsStreams == Spec => ImplementsStreams
<1>1. Init => ToServer!Init /\ ToClient!Init
  <2> SUFFICES ASSUME Init PROVE ToServer!Init /\ ToClient!Init
    OBVIOUS
  <2>1. ASSUME NEW e \in Endpoint
        PROVE  /\ wrote[e] = 0 /\ AckedBytes(e) = 0 /\ ReceivedBytes(e) = 0
               /\ ReadBytes(e) = 0
    <3>1. /\ sb[e] = send_buffer_initialize(ISN[e])
          /\ rb[peer(e)] = recv_buffer_initialize(ISN[e]) /\ wrote[e] = 0
      BY Peers DEF Init
    <3>2. ISN[e] \in Nat
      BY ConnectionAssumption
    <3>3. sb[e].last_byte_acked_seqnum = ISN[e]
      BY <3>1 DEF send_buffer_initialize
    <3>4. /\ rb[peer(e)].last_byte_read_seqnum = ISN[e]
          /\ get_next_byte_expected_seqnum(rb[peer(e)]) = ISN[e] + 1
      BY <3>1, <3>2 DEF recv_buffer_initialize, get_next_byte_expected_seqnum
    <3>. QED  BY <3>1, <3>2, <3>3, <3>4
              DEF AckedBytes, ReceivedBytes, ReadBytes, next_expected
  <2>2. "client" \in Endpoint /\ "server" \in Endpoint
    BY DEF Endpoint
  <2>. QED  BY <2>1, <2>2 DEF ToServer!Init, ToClient!Init
<1>2. Inv /\ Inv' /\ [Next]_vars =>
        /\ [ToServer!Next]_ToServer!stream
        /\ [ToClient!Next]_ToClient!stream
  <2> SUFFICES ASSUME Inv, Inv', [Next]_vars
               PROVE  /\ [ToServer!Next]_ToServer!stream
                      /\ [ToClient!Next]_ToClient!stream
    OBVIOUS
  <2>1. \A e \in Endpoint : StreamStep(e)
    BY NextStep, EveryStepStreams DEF Inv, StepGood
  <2>2. StreamStep("client") /\ StreamStep("server")
    BY <2>1 DEF Endpoint
  <2>3. [ToServer!Next]_ToServer!stream
    BY <2>2, Zenon DEF StreamStep, StreamMove, ToServer!Next, ToServer!stream, ToServer!Write,
                ToServer!Receive, ToServer!Forget, ToServer!Read
  <2>4. [ToClient!Next]_ToClient!stream
    BY <2>2, Zenon DEF StreamStep, StreamMove, ToClient!Next, ToClient!stream, ToClient!Write,
                ToClient!Receive, ToClient!Forget, ToClient!Read
  <2>. QED  BY <2>3, <2>4
<1>. QED  BY <1>1, <1>2, Invariance, PTL
          DEF Spec, ImplementsStreams, ToServer!Spec, ToClient!Spec
-----------------------------------------------------------------------------
(* The numbers that the code keeps in a uint32_t, in both buffers, in      *)
(* window_t and in packets under way, are below M, and so are the two sums *)
(* it compares: the end of the ring in the assertion at send_buffer.c:19,  *)
(* and the end of a packet (recv_buffer.c:248).  (The number of a packet   *)
(* without bytes is never looked at.)                                      *)
NumbersBelow(M) ==
  /\ \A e \in Endpoint :
       /\ get_next_byte_written_seqnum(sb[e]) < M
       /\ get_last_byte_sent_seqnum(sb[e]) < M
       /\ sb[e].last_byte_acked_seqnum + DEFAULT_BUFF_SIZE < M
       /\ rb[e].last_byte_read_seqnum < M
       /\ next_expected(e) < M
       /\ \A g \in rb[e].segs : g.end_seqnum_inclusive < M
       /\ window[e].last_ack_received < M
       /\ window[e].next_seq_expected < M
  /\ \A p \in net :
       /\ p.ack < M
       /\ Len(p.payload) > 0 => p.seq + Len(p.payload) < M

(* As long as both streams end more than one ring below 2^32, none of      *)
(* these numbers and sums gets there: not by a retransmission, a probe of  *)
(* a closed window or an acknowledgement, however late.  Comparing the     *)
(* words of the code is then comparing the natural numbers of this model.  *)
(* The ring is in the hypothesis for the sum at send_buffer.c:19 alone,    *)
(* which wraps before any number of the stream does.                       *)
THEOREM ConnectionNumbersFit ==
  ASSUME NEW M \in Nat, \A e \in Endpoint : ISN[e] + MaxStream[e] + DEFAULT_BUFF_SIZE < M
  PROVE  Spec => []NumbersBelow(M)
<1>1. ASSUME Inv PROVE NumbersBelow(M)
  <2>1. ASSUME NEW e \in Endpoint
        PROVE  /\ written(sb[e]) < M /\ sent(sb[e]) + 1 < M /\ acked(sb[e]) + 1 < M
               /\ acked(sb[e]) + DEFAULT_BUFF_SIZE < M
               /\ expected(rb[peer(e)]) < M /\ lastRead(rb[peer(e)]) < M
               /\ sent(sb[e]) \in Nat /\ expected(rb[peer(e)]) \in Nat
    <3>1. /\ written(sb[e]) = ISN[e] + wrote[e] + 1 /\ ISN[e] \in Nat /\ wrote[e] \in Nat
          /\ acked(sb[e]) \in Nat /\ sent(sb[e]) \in Nat /\ written(sb[e]) \in Nat
          /\ acked(sb[e]) <= sent(sb[e]) /\ sent(sb[e]) < written(sb[e])
          /\ InStep(sb[e], rb[peer(e)], ISN[e])
      BY <1>1, EndpointFacts DEF Inv
    <3>2. /\ expected(rb[peer(e)]) \in Nat /\ lastRead(rb[peer(e)]) \in Nat
          /\ lastRead(rb[peer(e)]) < expected(rb[peer(e)])
          /\ expected(rb[peer(e)]) <= sent(sb[e]) + 1
      BY <3>1, ReceivedWasSent
    <3>3. wrote[e] <= MaxStream[e] /\ MaxStream[e] \in Nat
      BY <1>1, ConnectionAssumption DEF Inv, CInv, TypeOK
    <3>4. /\ ISN[e] + MaxStream[e] + DEFAULT_BUFF_SIZE < M
          /\ DEFAULT_BUFF_SIZE \in Nat /\ DEFAULT_BUFF_SIZE > 1
      BY CapacityAssumption
    <3>. QED  BY <3>1, <3>2, <3>3, <3>4
  <2>2. ASSUME NEW e \in Endpoint, NEW g \in rb[e].segs
        PROVE  g.end_seqnum_inclusive < M
    <3>1. /\ InStep(sb[peer(e)], rb[e], ISN[peer(e)]) /\ peer(e) \in Endpoint
          /\ rb[e] \in RecvBufferType
      BY <1>1, EndpointFacts, Peers DEF Inv
    <3>2. /\ g.end_seqnum_inclusive \in Nat
          /\ g.start_seqnum_inclusive <= g.end_seqnum_inclusive
      BY <3>1 DEF RecvBufferType, SegmentType, InStep, RecvGood, Sound
    <3>3. Known(rb[e], g.end_seqnum_inclusive)
      BY <3>2 DEF Known, Covers
    <3>4. g.end_seqnum_inclusive <= sent(sb[peer(e)])
      BY <3>1, <3>2, <3>3 DEF InStep
    <3>. QED  BY <3>1, <3>2, <3>4, <2>1
  <2>3. ASSUME NEW e \in Endpoint
        PROVE  /\ expected(rb[e]) < M /\ lastRead(rb[e]) < M
               /\ window[e].last_ack_received < M /\ window[e].next_seq_expected < M
    <3>1. /\ window[e].last_ack_received = acked(sb[e]) + 1
          /\ window[e].next_seq_expected = expected(rb[e])
      BY <1>1, EndpointFacts DEF Inv
    <3>2. peer(e) \in Endpoint /\ peer(peer(e)) = e
      BY Peers
    <3>3. expected(rb[e]) < M /\ lastRead(rb[e]) < M
      BY <3>2, <2>1
    <3>. QED  BY <3>1, <3>3, <2>1
  <2>4. ASSUME NEW p \in net
        PROVE  p.ack < M /\ (Len(p.payload) > 0 => p.seq + Len(p.payload) < M)
    <3>1. PacketGood(p, sb, rb, {})
      BY <1>1 DEF Inv, CInv, NetGood
    <3>2. p.dst \in Endpoint /\ p.ack \in Nat /\ p.seq \in Nat /\ p.payload \in Seq(Byte)
      BY <3>1 DEF PacketGood, PacketType
    <3> DEFINE src == peer(p.dst)
               n == Len(p.payload)
    <3>3. src \in Endpoint /\ peer(src) = p.dst /\ n \in Nat
      BY <3>2, Peers
    <3>4. p.ack <= expected(rb[src]) /\ (n > 0 => p.seq + n - 1 <= sent(sb[src]))
      BY <3>1 DEF PacketGood, AckGood, PayloadGood
    <3> HIDE DEF src, n
    <3>5. expected(rb[src]) < M /\ expected(rb[src]) \in Nat
      <4>1. peer(src) \in Endpoint /\ peer(peer(src)) = src
        BY <3>3, Peers
      <4>. QED  BY <4>1, <2>1
    <3>6. sent(sb[src]) + 1 < M /\ sent(sb[src]) \in Nat
      BY <3>3, <2>1
    <3>. QED  BY <3>2, <3>3, <3>4, <3>5, <3>6 DEF n
  <2>5. ASSUME NEW e \in Endpoint
        PROVE  /\ written(sb[e]) < M /\ sent(sb[e]) < M
               /\ acked(sb[e]) + DEFAULT_BUFF_SIZE < M
    BY <2>1
  <2>. QED  BY <2>2, <2>3, <2>4, <2>5
            DEF NumbersBelow, written, sent, acked, expected, lastRead, next_expected
<1>. QED  BY <1>1, Invariance, PTL
=============================================================================
