-------------------------- MODULE RecvStreamProofs --------------------------
(***************************************************************************)
(* Proofs about RecvStream, for every capacity of the ring, every initial  *)
(* sequence number and every length of the stream.                         *)
(*                                                                         *)
(* The inductive invariant is the conjunction of the five invariants the   *)
(* module states; none of them is inductive alone.  The acknowledgement    *)
(* number is that of the stream because merged segments were disjoint and  *)
(* ahead of it, and a byte is in its slot because everything held lies     *)
(* within one capacity of the last byte read.                              *)
(*                                                                         *)
(* The last part is about SeqWords.                                        *)
(***************************************************************************)
EXTENDS SeqWords, BufferProofs

RInv ==
  /\ TypeOK
  /\ SegmentsSound
  /\ HoldsWhatArrived
  /\ BytesInPlace
  /\ ReadsInOrder

-----------------------------------------------------------------------------
(* The invariant, in terms of sequence numbers.                            *)
HeldOf(r) ==
  (1 .. get_next_byte_expected_seqnum(r) - 1 - ISN)
    \cup UNION {Positions(g) : g \in r.segs}

SegmentsSoundIn(r) ==
  /\ \A g \in r.segs :
       /\ g.start_seqnum_inclusive <= g.end_seqnum_inclusive
       /\ g.start_seqnum_inclusive >= get_next_byte_expected_seqnum(r)
       /\ g.end_seqnum_inclusive < r.last_byte_read_seqnum + DEFAULT_BUFF_SIZE
  /\ \A g, h \in r.segs :
       g # h => Positions(g) \cap Positions(h) = {}

LEMMA SoundForm ==
  ASSUME NEW r \in RecvBufferType
  PROVE  Sound(r) <=> SegmentsSoundIn(r)
<1>1. /\ \A g \in r.segs : /\ g.start_seqnum_inclusive \in Nat
                           /\ g.end_seqnum_inclusive \in Nat
      /\ get_next_byte_expected_seqnum(r) \in Nat
  BY NextExpectedBounds DEF RecvBufferType, SegmentType
<1>2. ASSUME NEW g \in r.segs, NEW h \in r.segs,
             g.start_seqnum_inclusive <= g.end_seqnum_inclusive,
             h.start_seqnum_inclusive <= h.end_seqnum_inclusive
      PROVE  Apart(g, h) <=> Positions(g) \cap Positions(h) = {}
  <2> DEFINE a == g.start_seqnum_inclusive
             b == g.end_seqnum_inclusive
             c == h.start_seqnum_inclusive
             d == h.end_seqnum_inclusive
  <2>1. a \in Nat /\ b \in Nat /\ c \in Nat /\ d \in Nat /\ a <= b /\ c <= d
    BY <1>1, <1>2
  <2>2. /\ Positions(g) = a - ISN .. b - ISN
        /\ Positions(h) = c - ISN .. d - ISN
        /\ Apart(g, h) <=> b < c \/ d < a
    BY DEF Positions, Apart
  <2> HIDE DEF a, b, c, d
  <2>3. ASSUME b < c \/ d < a PROVE Positions(g) \cap Positions(h) = {}
    BY <2>1, <2>2, <2>3, StreamAssumption
  <2>4. ASSUME ~(b < c), ~(d < a) PROVE Positions(g) \cap Positions(h) # {}
    <3>1. CASE a <= c
      <4>1. c - ISN \in Positions(g) /\ c - ISN \in Positions(h)
        BY <3>1, <2>1, <2>2, <2>4, StreamAssumption
      <4>. QED  BY <4>1
    <3>2. CASE c < a
      <4>1. a - ISN \in Positions(g) /\ a - ISN \in Positions(h)
        BY <3>2, <2>1, <2>2, <2>4, StreamAssumption
      <4>. QED  BY <4>1
    <3>. QED  BY <3>1, <3>2, <2>1
  <2>. QED  BY <2>2, <2>3, <2>4
<1>3. ASSUME Sound(r) PROVE SegmentsSoundIn(r)
  <2>1. \A g \in r.segs : g.start_seqnum_inclusive <= g.end_seqnum_inclusive
    BY <1>3 DEF Sound
  <2>2. \A g, h \in r.segs : g # h => Positions(g) \cap Positions(h) = {}
    BY <2>1, <1>2, <1>3 DEF Sound
  <2>. QED  BY <2>2, <1>1, <1>3 DEF Sound, SegmentsSoundIn
<1>4. ASSUME SegmentsSoundIn(r) PROVE Sound(r)
  <2>1. \A g \in r.segs : g.start_seqnum_inclusive <= g.end_seqnum_inclusive
    BY <1>4 DEF SegmentsSoundIn
  <2>2. \A g, h \in r.segs : g # h => Apart(g, h)
    BY <2>1, <1>2, <1>4 DEF SegmentsSoundIn
  <2>. QED  BY <2>2, <1>1, <1>4 DEF Sound, SegmentsSoundIn
<1>. QED  BY <1>3, <1>4

LEMMA HeldIsKnown ==
  ASSUME NEW r \in RecvBufferType, Sound(r), ISN <= r.last_byte_read_seqnum
  PROVE  /\ HeldOf(r) \subseteq Nat \ {0}
         /\ \A p \in Nat \ {0} : p \in HeldOf(r) <=> Known(r, ISN + p)
<1> DEFINE ne == get_next_byte_expected_seqnum(r)
<1>1. ne \in Nat /\ ISN < ne
  BY NextExpectedBounds, StreamAssumption DEF RecvBufferType
<1>2. \A g \in r.segs : /\ g.start_seqnum_inclusive \in Nat
                        /\ g.end_seqnum_inclusive \in Nat
                        /\ ISN < g.start_seqnum_inclusive
  BY <1>1, StreamAssumption DEF RecvBufferType, SegmentType, Sound
<1>3. \A p : p \in HeldOf(r) <=>
        p \in 1 .. ne - 1 - ISN \/ \E g \in r.segs : p \in Positions(g)
  BY DEF HeldOf
<1>4. \A g \in r.segs : \A p \in Positions(g) : p \in Nat \ {0}
  BY <1>2, StreamAssumption DEF Positions
<1>5. \A g \in r.segs : \A p \in Nat \ {0} : p \in Positions(g) <=> Covers(g, ISN + p)
  BY <1>2, StreamAssumption DEF Positions, Covers
<1>6. \A p \in Nat \ {0} : p \in 1 .. ne - 1 - ISN <=> ISN + p < ne
  <2> HIDE DEF ne
  <2>. QED  BY <1>1, StreamAssumption
<1>7. \A p \in 1 .. ne - 1 - ISN : p \in Nat \ {0}
  <2> HIDE DEF ne
  <2>. QED  BY <1>1, StreamAssumption
<1>. QED  BY <1>3, <1>4, <1>5, <1>6, <1>7 DEF Known

-----------------------------------------------------------------------------
(* What the invariant says of a state.                                     *)
LEMMA InvariantFacts ==
  ASSUME RInv
  PROVE  /\ rb \in RecvBufferType
         /\ Sound(rb)
         /\ nread \in Nat /\ ISN \in Nat
         /\ rb.last_byte_read_seqnum = ISN + nread
         /\ accepted \subseteq Nat \ {0}
         /\ \A p \in Nat \ {0} : p \in accepted <=> Known(rb, ISN + p)
<1>1. /\ rb \in RecvBufferType /\ nread \in Nat /\ ISN \in Nat
      /\ rb.last_byte_read_seqnum = ISN + nread
      /\ HeldOf(rb) = accepted
      /\ SegmentsSoundIn(rb)
  BY StreamAssumption DEF RInv, TypeOK, SegmentsSound, SegmentsSoundIn,
       HoldsWhatArrived, Held, HeldOf, next_expected
<1>2. Sound(rb)
  BY <1>1, SoundForm
<1>3. ISN <= rb.last_byte_read_seqnum
  BY <1>1
<1>. QED  BY <1>1, <1>2, <1>3, HeldIsKnown

LEMMA InitInvariant == Init => RInv
<1> SUFFICES ASSUME Init PROVE RInv
  OBVIOUS
<1>1. /\ rb = [last_byte_read_seqnum    |-> ISN,
               last_byte_read_index     |-> 0,
               next_byte_expected_index |-> 1,
               buffer                   |-> [i \in Index |-> Junk],
               segs                     |-> {}]
      /\ accepted = {} /\ nread = 0 /\ chunk = <<>>
  BY DEF Init, recv_buffer_initialize
<1>2. TypeOK
  BY <1>1, StreamAssumption, CapacityAssumption DEF TypeOK, RecvBufferType, Index, Byte
<1>3. SegmentsSound
  BY <1>1 DEF SegmentsSound
<1>4. next_expected = ISN + 1
  BY <1>1, StreamAssumption DEF next_expected, get_next_byte_expected_seqnum
<1>5. Held = {}
  <2>1. 1 .. next_expected - 1 - ISN = {}
    BY <1>4, StreamAssumption
  <2>. QED  BY <2>1, <1>1 DEF Held
<1>6. HoldsWhatArrived
  BY <1>1, <1>4, <1>5, StreamAssumption DEF HoldsWhatArrived
<1>7. BytesInPlace /\ ReadsInOrder
  BY <1>1 DEF ReadsInOrder, BytesInPlace
<1>. QED  BY <1>2, <1>3, <1>6, <1>7 DEF RInv

-----------------------------------------------------------------------------
(* A packet is stored.                                                     *)
LEMMA ReceiveFacts ==
  ASSUME RInv, NEW first \in 1 .. MaxStream, NEW n \in 1 .. MaxStream,
         Receive(first, n)
  PROVE  /\ rb' \in RecvBufferType
         /\ Sound(rb')
         /\ rb'.last_byte_read_seqnum = ISN + nread'
         /\ get_next_byte_expected_seqnum(rb') >= get_next_byte_expected_seqnum(rb)
         /\ first > nread /\ first + n - 1 < nread + DEFAULT_BUFF_SIZE
         /\ \A p \in Nat \ {0} : p \in accepted' <=> Known(rb', ISN + p)
         /\ \A q : seqnum_to_index_recv(rb', q) = seqnum_to_index_recv(rb, q)
         /\ BytesInPlace'
<1>1. /\ rb \in RecvBufferType /\ Sound(rb) /\ nread \in Nat /\ ISN \in Nat
      /\ rb.last_byte_read_seqnum = ISN + nread
      /\ accepted \subseteq Nat \ {0}
      /\ \A p \in Nat \ {0} : p \in accepted <=> Known(rb, ISN + p)
  BY InvariantFacts
<1>2. /\ first \in Nat \ {0} /\ n \in Nat \ {0}
      /\ recv_buffer_can_receive(rb, ISN + first, n) = 0
      /\ rb' = recv_buffer_receive(rb, ISN + first, StreamBytes(first, n))
      /\ accepted' = accepted \cup (first .. first + n - 1)
      /\ nread' = nread
  BY StreamAssumption DEF Receive
<1> DEFINE data == StreamBytes(first, n)
<1>0. /\ data \in Seq(Byte) /\ Len(data) = n
      /\ \A k \in 1 .. n : data[k] = first + k - 1
  <2>1. \A k \in 1 .. n : first + k - 1 \in Byte
    BY <1>2 DEF Byte
  <2>. QED  BY <1>2, <2>1 DEF StreamBytes
<1> HIDE DEF data
<1>3. /\ rb.last_byte_read_seqnum < ISN + first
      /\ ISN + first + n <= rb.last_byte_read_seqnum + DEFAULT_BUFF_SIZE
      /\ rb' \in RecvBufferType
      /\ rb'.last_byte_read_seqnum = rb.last_byte_read_seqnum
      /\ rb'.last_byte_read_index = rb.last_byte_read_index
      /\ Placed(rb, rb'.buffer, ISN + first, data)
      /\ Sound(rb')
      /\ get_next_byte_expected_seqnum(rb') >= get_next_byte_expected_seqnum(rb)
      /\ \A q \in Nat : Known(rb', q) <=>
           Known(rb, q) \/ (ISN + first <= q /\ q <= ISN + first + n - 1)
  <2>1. Accepts(rb, ISN + first, data)
    BY <1>1, <1>2, <1>0 DEF Accepts
  <2>2. Stored(rb, rb', ISN + first, data)
    BY <2>1, <1>2, ReceiveExact DEF data
  <2>. QED  BY <2>2, <1>0 DEF Stored
<1>4. first > nread /\ first + n - 1 < nread + DEFAULT_BUFF_SIZE
  BY <1>1, <1>2, <1>3, CapacityAssumption
<1>5. \A p \in Nat \ {0} : p \in accepted' <=> Known(rb', ISN + p)
  <2> SUFFICES ASSUME NEW p \in Nat \ {0}
               PROVE  p \in accepted' <=> Known(rb', ISN + p)
    OBVIOUS
  <2>1. ISN + p \in Nat
    BY <1>1
  <2>2. p \in first .. first + n - 1 <=> ISN + first <= ISN + p /\ ISN + p <= ISN + first + n - 1
    BY <1>1, <1>2
  <2>. QED  BY <2>1, <2>2, <1>1, <1>2, <1>3
<1>6. \A q : seqnum_to_index_recv(rb', q) = seqnum_to_index_recv(rb, q)
  BY <1>3 DEF seqnum_to_index_recv
<1>7. /\ \A p \in first .. first + n - 1 :
           rb'.buffer[seqnum_to_index_recv(rb, ISN + p)] = p
      /\ \A p \in Nat :
           /\ rb.last_byte_read_seqnum < ISN + p
           /\ ISN + p < rb.last_byte_read_seqnum + DEFAULT_BUFF_SIZE
           /\ p \notin first .. first + n - 1
           => rb'.buffer[seqnum_to_index_recv(rb, ISN + p)]
                = rb.buffer[seqnum_to_index_recv(rb, ISN + p)]
  <2>1. ASSUME NEW p \in first .. first + n - 1
        PROVE  rb'.buffer[seqnum_to_index_recv(rb, ISN + p)] = p
    <3> DEFINE k == p - first + 1
    <3>1. k \in 1 .. n /\ ISN + first + k - 1 = ISN + p /\ first + k - 1 = p
      BY <1>1, <1>2
    <3>2. rb'.buffer[seqnum_to_index_recv(rb, ISN + first + k - 1)] = data[k]
      BY <3>1, <1>3, <1>0 DEF Placed
    <3>. QED  BY <3>1, <3>2, <1>0
  <2>2. ASSUME NEW p \in Nat, p \notin first .. first + n - 1
        PROVE  ISN + p \in Nat /\ (ISN + p < ISN + first \/ ISN + p > ISN + first + n - 1)
    BY <1>1, <1>2, <2>2
  <2>. QED  BY <2>1, <2>2, <1>3, <1>0 DEF Placed
<1>8. BytesInPlace'
  <2> SUFFICES ASSUME NEW p \in accepted', p > nread'
               PROVE  rb'.buffer[seqnum_to_index_recv(rb', ISN + p)] = p
    BY DEF BytesInPlace
  <2>1. CASE p \in first .. first + n - 1
    BY <2>1, <1>6, <1>7
  <2>2. CASE p \notin first .. first + n - 1
    <3>1. p \in accepted /\ p \in Nat \ {0} /\ ISN + p \in Nat
      BY <2>2, <1>1, <1>2
    <3>2. ISN + p < rb.last_byte_read_seqnum + DEFAULT_BUFF_SIZE
      BY <3>1, <1>1, KnownWithin
    <3>3. rb.last_byte_read_seqnum < ISN + p
      BY <3>1, <1>1, <1>2
    <3>4. rb.buffer[seqnum_to_index_recv(rb, ISN + p)] = p
      BY <3>1, <1>2 DEF RInv, BytesInPlace
    <3>. QED  BY <3>1, <3>2, <3>3, <3>4, <2>2, <1>6, <1>7
  <2>. QED  BY <2>1, <2>2
<1>. QED  BY <1>1, <1>2, <1>3, <1>4, <1>5, <1>6, <1>8

(* The application reads.                                                  *)
LEMMA ReadFacts ==
  ASSUME RInv, NEW length \in 1 .. DEFAULT_BUFF_SIZE, Read(length)
  PROVE  /\ rb' \in RecvBufferType
         /\ Sound(rb')
         /\ nread' \in 0 .. MaxStream
         /\ nread' - nread \in 1 .. DEFAULT_BUFF_SIZE - 1
         /\ nread + 1 .. nread' \subseteq accepted
         /\ rb'.last_byte_read_seqnum = ISN + nread'
         /\ rb'.segs = rb.segs
         /\ get_next_byte_expected_seqnum(rb') = get_next_byte_expected_seqnum(rb)
         /\ BytesInPlace'
         /\ chunk' \in Seq(Byte)
         /\ ReadsInOrder'
<1> DEFINE max == recv_buffer_max_read(rb)
           len == MIN(length, max)
           ls == rb.last_byte_read_seqnum
           ne == get_next_byte_expected_seqnum(rb)
<1>1. /\ rb \in RecvBufferType /\ Sound(rb) /\ nread \in Nat /\ ISN \in Nat
      /\ ls = ISN + nread
      /\ accepted \subseteq Nat \ {0}
      /\ \A p \in Nat \ {0} : p \in accepted <=> Known(rb, ISN + p)
  BY InvariantFacts
<1>2. /\ max > 0
      /\ chunk' = safe_memcpy_from_recvbuf(rb, len)
      /\ rb' = recv_buffer_read(rb, len)
      /\ nread' = nread + len
      /\ accepted' = accepted
  BY DEF Read
<1>3. ne \in Nat /\ ls < ne /\ ne <= ls + DEFAULT_BUFF_SIZE /\ max = ne - ls - 1
  BY <1>1, NextExpectedBounds DEF recv_buffer_max_read
<1>4. len \in Nat \ {0} /\ len <= max /\ len <= DEFAULT_BUFF_SIZE - 1
  <2>1. max \in Int /\ max <= DEFAULT_BUFF_SIZE - 1
    <3> HIDE DEF max, ne, ls
    <3>. QED  BY <1>1, <1>3, CapacityAssumption
  <2> HIDE DEF max
  <2>. QED  BY <2>1, <1>2, CapacityAssumption DEF MIN
<1> HIDE DEF len
<1>5. /\ rb' \in RecvBufferType
      /\ rb'.last_byte_read_seqnum = ls + len
      /\ rb'.buffer = rb.buffer
      /\ rb'.segs = rb.segs
      /\ get_next_byte_expected_seqnum(rb') = ne
      /\ \A q \in Nat : ls + len <= q /\ q <= ls + DEFAULT_BUFF_SIZE
           => seqnum_to_index_recv(rb', q) = seqnum_to_index_recv(rb, q)
  BY <1>1, <1>2, <1>4, ReadExact
<1>6. /\ chunk' \in Seq(Byte)
      /\ Len(chunk') = len
      /\ \A k \in 1 .. len : chunk'[k] = rb.buffer[seqnum_to_index_recv(rb, ls + k)]
  BY <1>1, <1>2, <1>4, ReadCopies
<1>7. Sound(rb')
  <2>1. /\ \A g \in rb.segs :
             /\ g.start_seqnum_inclusive \in Nat /\ g.end_seqnum_inclusive \in Nat
             /\ g.start_seqnum_inclusive <= g.end_seqnum_inclusive
             /\ ne <= g.start_seqnum_inclusive
             /\ g.end_seqnum_inclusive < ls + DEFAULT_BUFF_SIZE
        /\ \A g, h \in rb.segs : g # h => Apart(g, h)
    BY <1>1 DEF Sound, RecvBufferType, SegmentType
  <2>2. \A g \in rb.segs : g.end_seqnum_inclusive < ls + len + DEFAULT_BUFF_SIZE
    <3> HIDE DEF ls, ne
    <3>. QED  BY <2>1, <1>1, <1>4, CapacityAssumption
  <2>. QED  BY <2>1, <2>2, <1>5 DEF Sound
<1>8. ASSUME NEW k \in 1 .. len
      PROVE  nread + k \in accepted /\ chunk'[k] = nread + k
  <2>1. nread + k \in Nat \ {0} /\ ls + k = ISN + (nread + k) /\ nread + k > nread
    BY <1>1, <1>4
  <2>2. ISN + (nread + k) < ne
    <3> HIDE DEF ls, ne, max
    <3>. QED  BY <1>1, <1>3, <1>4, <2>1
  <2>3. nread + k \in accepted
    BY <2>1, <2>2, <1>1 DEF Known
  <2>4. rb.buffer[seqnum_to_index_recv(rb, ISN + (nread + k))] = nread + k
    BY <2>1, <2>3 DEF RInv, BytesInPlace
  <2>. QED  BY <2>1, <2>3, <2>4, <1>6
<1>9. nread' \in 0 .. MaxStream
  <2>1. nread + len \in accepted
    BY <1>4, <1>8
  <2>2. nread + len \in 1 .. MaxStream
    BY <2>1 DEF RInv, TypeOK
  <2>. QED  BY <2>2, <1>2, <1>4, StreamAssumption
<1>10. nread + 1 .. nread' \subseteq accepted
  <2> SUFFICES ASSUME NEW p \in nread + 1 .. nread' PROVE p \in accepted
    OBVIOUS
  <2>1. p - nread \in 1 .. len /\ nread + (p - nread) = p
    BY <1>1, <1>2, <1>4
  <2>. QED  BY <2>1, <1>8
<1>11. ReadsInOrder'
  <2>1. Len(chunk') = len /\ nread' - len = nread
    BY <1>1, <1>2, <1>4, <1>6
  <2>2. \A k \in 1 .. Len(chunk') : chunk'[k] = nread' - Len(chunk') + k
    BY <2>1, <1>8
  <2>. QED  BY <2>2 DEF ReadsInOrder
<1>12. BytesInPlace'
  <2> SUFFICES ASSUME NEW p \in accepted', p > nread'
               PROVE  rb'.buffer[seqnum_to_index_recv(rb', ISN + p)] = p
    BY DEF BytesInPlace
  <2>1. p \in accepted /\ p \in Nat \ {0} /\ ISN + p \in Nat /\ p > nread
        /\ ls + len <= ISN + p
    BY <1>1, <1>2, <1>4
  <2>2. ISN + p < ls + DEFAULT_BUFF_SIZE
    BY <2>1, <1>1, KnownWithin
  <2>3. rb.buffer[seqnum_to_index_recv(rb, ISN + p)] = p
    BY <2>1 DEF RInv, BytesInPlace
  <2>4. seqnum_to_index_recv(rb', ISN + p) = seqnum_to_index_recv(rb, ISN + p)
    <3>1. ISN + p <= ls + DEFAULT_BUFF_SIZE
      BY <2>1, <2>2, <1>1, CapacityAssumption
    <3>. QED  BY <3>1, <2>1, <1>5
  <2>. QED  BY <2>3, <2>4, <1>5
<1>13. /\ rb'.last_byte_read_seqnum = ISN + nread'
       /\ nread' - nread \in 1 .. DEFAULT_BUFF_SIZE - 1
  BY <1>1, <1>2, <1>4, <1>5, CapacityAssumption
<1>. QED  BY <1>5, <1>6, <1>7, <1>9, <1>10, <1>11, <1>12, <1>13

-----------------------------------------------------------------------------
(* Every step: the invariant is kept, and what is held grows by what was   *)
(* accepted.                                                               *)
LEMMA NextStep ==
  ASSUME RInv, Next
  PROVE  RInv'
<1>1. /\ rb' \in RecvBufferType /\ Sound(rb')
      /\ accepted' \subseteq 1 .. MaxStream /\ nread' \in 0 .. MaxStream
      /\ chunk' \in Seq(Byte) /\ ReadsInOrder' /\ BytesInPlace'
      /\ rb'.last_byte_read_seqnum = ISN + nread'
      /\ \A p \in Nat \ {0} : p \in accepted' <=> Known(rb', ISN + p)
  <2>1. CASE \E first, n \in 1 .. MaxStream : Receive(first, n)
    <3>0. PICK first \in 1 .. MaxStream, n \in 1 .. MaxStream : Receive(first, n)
      BY <2>1
    <3>1. /\ rb' \in RecvBufferType /\ Sound(rb') /\ BytesInPlace'
          /\ rb'.last_byte_read_seqnum = ISN + nread'
          /\ \A p \in Nat \ {0} : p \in accepted' <=> Known(rb', ISN + p)
      BY <3>0, ReceiveFacts
    <3>2. accepted' = accepted \cup (first .. first + n - 1)
          /\ first + n - 1 <= MaxStream /\ nread' = nread /\ chunk' = chunk
      BY <3>0 DEF Receive
    <3>3. accepted' \subseteq 1 .. MaxStream /\ nread' \in 0 .. MaxStream
          /\ chunk' \in Seq(Byte)
      BY <3>2, StreamAssumption DEF RInv, TypeOK
    <3>4. ReadsInOrder'
      BY <3>2 DEF RInv, ReadsInOrder
    <3>. QED  BY <3>1, <3>3, <3>4
  <2>2. CASE \E length \in 1 .. DEFAULT_BUFF_SIZE : Read(length)
    <3>0. PICK length \in 1 .. DEFAULT_BUFF_SIZE : Read(length)
      BY <2>2
    <3>1. /\ rb' \in RecvBufferType /\ Sound(rb') /\ BytesInPlace' /\ ReadsInOrder'
          /\ chunk' \in Seq(Byte) /\ nread' \in 0 .. MaxStream
          /\ rb'.last_byte_read_seqnum = ISN + nread'
          /\ rb'.segs = rb.segs
          /\ get_next_byte_expected_seqnum(rb') = get_next_byte_expected_seqnum(rb)
      BY <3>0, ReadFacts
    <3>2. accepted' = accepted
      BY <3>0 DEF Read
    <3>3. \A p \in Nat \ {0} : p \in accepted <=> Known(rb, ISN + p)
      BY InvariantFacts
    <3>4. \A p \in Nat \ {0} : p \in accepted' <=> Known(rb', ISN + p)
      BY <3>1, <3>2, <3>3 DEF Known
    <3>5. accepted' \subseteq 1 .. MaxStream
      BY <3>2 DEF RInv, TypeOK
    <3>. QED  BY <3>1, <3>4, <3>5
  <2>. QED  BY <2>1, <2>2 DEF Next
<1>2. HeldOf(rb') = accepted'
  <2>1. /\ HeldOf(rb') \subseteq Nat \ {0}
        /\ \A p \in Nat \ {0} : p \in HeldOf(rb') <=> Known(rb', ISN + p)
    <3>1. ISN <= rb'.last_byte_read_seqnum
      <4>1. nread' \in Nat /\ rb'.last_byte_read_seqnum = ISN + nread'
        BY <1>1, StreamAssumption
      <4> DEFINE total == nread'
      <4>2. total \in Nat => ISN <= ISN + total
        <5> HIDE DEF total
        <5>. QED  BY StreamAssumption
      <4>. QED  BY <4>1, <4>2
    <3>. QED  BY <3>1, <1>1, HeldIsKnown
  <2>2. accepted' \subseteq Nat \ {0}
    BY <1>1, StreamAssumption
  <2>. QED  BY <2>1, <2>2, <1>1
<1>3. SegmentsSoundIn(rb')
  BY <1>1, SoundForm
<1>4. get_next_byte_expected_seqnum(rb') > rb'.last_byte_read_seqnum
  BY <1>1, NextExpectedBounds DEF RecvBufferType
<1>5. TypeOK'
  BY <1>1 DEF TypeOK
<1>6. SegmentsSound'
  BY <1>3 DEF SegmentsSound, SegmentsSoundIn, next_expected
<1>7. HoldsWhatArrived'
  BY <1>1, <1>2, <1>4 DEF HoldsWhatArrived, Held, HeldOf, next_expected
<1>. QED  BY <1>1, <1>5, <1>6, <1>7 DEF RInv

LEMMA StutterStep ==
  ASSUME RInv, UNCHANGED vars
  PROVE  RInv'
BY DEF RInv, TypeOK, SegmentsSound, HoldsWhatArrived, BytesInPlace, ReadsInOrder,
       Held, next_expected, vars

LEMMA Invariance == Spec => []RInv
<1>1. RInv /\ [Next]_vars => RInv'
  BY NextStep, StutterStep
<1>. QED  BY InitInvariant, <1>1, PTL DEF Spec

-----------------------------------------------------------------------------
(* The theorems.                                                           *)

(* recv_buffer.c keeps its indices inside the array and its segments       *)
(* intervals, whatever packets arrive and whatever is read.                *)
THEOREM RecvTypeCorrect == Spec => []TypeOK
<1>1. RInv => TypeOK
  BY DEF RInv
<1>. QED  BY <1>1, Invariance, PTL

(* The out-of-order segments stay disjoint, ahead of the in-order data and *)
(* within the ring, however the packets overlap.                           *)
THEOREM SegmentsStaySound == Spec => []SegmentsSound
<1>1. RInv => SegmentsSound
  BY DEF RInv
<1>. QED  BY <1>1, Invariance, PTL

(* The receiver acknowledges no byte that did not arrive and forgets none  *)
(* that it took in: next_byte_expected_index and the segments account for  *)
(* exactly the bytes of the packets not refused.                           *)
THEOREM AccountsForArrivals == Spec => []HoldsWhatArrived
<1>1. RInv => HoldsWhatArrived
  BY DEF RInv
<1>. QED  BY <1>1, Invariance, PTL

(* safe_memcpy_to_recvbuf never overwrites a byte that is still to be read *)
(* with another one.                                                       *)
THEOREM BytesStayInPlace == Spec => []BytesInPlace
<1>1. RInv => BytesInPlace
  BY DEF RInv
<1>. QED  BY <1>1, Invariance, PTL

(* cmu_read returns the stream: in order, without a gap or a repetition.   *)
THEOREM ReadsTheStream == Spec => []ReadsInOrder
<1>1. RInv => ReadsInOrder
  BY DEF RInv
<1>. QED  BY <1>1, Invariance, PTL

(* The acknowledgement number and the right edge of the advertised window  *)
(* never go back.                                                          *)
THEOREM KeepsPromises == Spec => PromisesKept
<1> DEFINE Kept == /\ next_expected' >= next_expected
                   /\ next_expected' + recv_buffer_max_receive(rb')
                        >= next_expected + recv_buffer_max_receive(rb)
<1>1. RInv /\ [Next]_vars => [Kept]_vars
  <2> SUFFICES ASSUME RInv, Next PROVE Kept
    OBVIOUS
  <2> DEFINE ne == get_next_byte_expected_seqnum(rb)
             nn == get_next_byte_expected_seqnum(rb')
             ls == rb.last_byte_read_seqnum
             lt == rb'.last_byte_read_seqnum
  <2>1. /\ rb \in RecvBufferType /\ ls = ISN + nread /\ nread \in Nat /\ ISN \in Nat
    BY InvariantFacts
  <2>2. rb' \in RecvBufferType /\ nn >= ne /\ lt >= ls
    <3>1. ASSUME NEW first \in 1 .. MaxStream, NEW n \in 1 .. MaxStream, Receive(first, n)
          PROVE  rb' \in RecvBufferType /\ nn >= ne /\ lt >= ls
      <4>1. rb' \in RecvBufferType /\ nn >= ne /\ lt = ISN + nread'
        BY <3>1, ReceiveFacts
      <4>2. nread' = nread
        BY <3>1 DEF Receive
      <4>. QED  BY <4>1, <4>2, <2>1
    <3>2. ASSUME NEW length \in 1 .. DEFAULT_BUFF_SIZE, Read(length)
          PROVE  rb' \in RecvBufferType /\ nn >= ne /\ lt >= ls
      <4>1. /\ rb' \in RecvBufferType /\ nn = ne /\ lt = ISN + nread'
            /\ nread' \in 0 .. MaxStream /\ nread' - nread \in 1 .. DEFAULT_BUFF_SIZE - 1
        BY <3>2, ReadFacts
      <4>2. ne \in Nat
        BY <2>1, NextExpectedBounds
      <4> DEFINE total == nread'
      <4>3. /\ total \in 0 .. MaxStream /\ total - nread \in 1 .. DEFAULT_BUFF_SIZE - 1
            /\ lt = ISN + total
        BY <4>1
      <4> HIDE DEF total, lt, ls, ne, nn
      <4>4. lt >= ls
        BY <4>3, <2>1, StreamAssumption, CapacityAssumption
      <4>. QED  BY <4>1, <4>2, <4>4
    <3>. QED  BY <3>1, <3>2 DEF Next
  <2>3. /\ ne \in Nat /\ nn \in Nat /\ ls \in Nat /\ lt \in Nat
    BY <2>1, <2>2, NextExpectedBounds DEF RecvBufferType
  <2>4. /\ ne + (DEFAULT_BUFF_SIZE - (ne - ls)) = DEFAULT_BUFF_SIZE + ls
        /\ nn + (DEFAULT_BUFF_SIZE - (nn - lt)) = DEFAULT_BUFF_SIZE + lt
    <3> HIDE DEF ne, nn, ls, lt
    <3>. QED  BY <2>3, CapacityAssumption
  <2>5. DEFAULT_BUFF_SIZE + lt >= DEFAULT_BUFF_SIZE + ls
    <3> HIDE DEF ne, nn, ls, lt
    <3>. QED  BY <2>2, <2>3, CapacityAssumption
  <2>. QED  BY <2>2, <2>4, <2>5 DEF next_expected, recv_buffer_max_receive
<1>. QED  BY <1>1, Invariance, PTL DEF Spec, PromisesKept

(* The ring with its list of segments implements the set of received       *)
(* positions (Reassembly).                                                 *)
THEOREM RingImplementsReassembly == Spec => ImplementsReassembly
<1>1. Init => Abstract!Init
  <2> SUFFICES ASSUME Init PROVE Abstract!Init
    OBVIOUS
  <2>1. RInv /\ accepted = {} /\ nread = 0
    BY InitInvariant DEF Init
  <2>. QED  BY <2>1, StreamAssumption DEF RInv, HoldsWhatArrived, Abstract!Init
<1>2. RInv /\ RInv' /\ [Next]_vars => [Abstract!Next]_Abstract!reassembly
  <2> SUFFICES ASSUME RInv, RInv', [Next]_vars
               PROVE  [Abstract!Next]_Abstract!reassembly
    OBVIOUS
  <2>1. /\ Held = accepted /\ Held' = accepted'
        /\ rb.last_byte_read_seqnum - ISN = nread
        /\ rb'.last_byte_read_seqnum - ISN = nread'
        /\ nread \in Nat /\ nread' \in Nat
    <3>1. /\ Held = accepted /\ Held' = accepted'
          /\ rb.last_byte_read_seqnum = ISN + nread
          /\ rb'.last_byte_read_seqnum = ISN + nread'
      BY DEF RInv, HoldsWhatArrived
    <3>2. nread \in Nat /\ nread' \in Nat
      BY StreamAssumption DEF RInv, TypeOK
    <3> DEFINE total == nread'
    <3>3. total \in Nat => (ISN + total) - ISN = total
      <4> HIDE DEF total
      <4>. QED  BY StreamAssumption
    <3>4. rb'.last_byte_read_seqnum - ISN = nread'
      BY <3>1, <3>2, <3>3, Zenon
    <3>5. rb.last_byte_read_seqnum - ISN = nread
      BY <3>1, <3>2, StreamAssumption
    <3>. QED  BY <3>1, <3>2, <3>4, <3>5
  <2>2. ASSUME NEW first \in 1 .. MaxStream, NEW n \in 1 .. MaxStream, Receive(first, n)
        PROVE  Abstract!Next
    <3> DEFINE last == first + n - 1
    <3>1. /\ last \in 1 .. MaxStream /\ first <= last
          /\ accepted' = accepted \cup (first .. last) /\ nread' = nread
      BY <2>2, StreamAssumption DEF Receive
    <3>2. first > nread /\ last < nread + DEFAULT_BUFF_SIZE
      BY <2>2, ReceiveFacts
    <3> HIDE DEF last
    <3>3. first .. last \subseteq nread + 1 .. nread + (DEFAULT_BUFF_SIZE - 1)
      BY <3>1, <3>2, <2>1, CapacityAssumption, StreamAssumption
    <3>4. Abstract!Receive(first, last)
      BY <3>1, <3>3, <2>1 DEF Abstract!Receive
    <3>. QED  BY <3>1, <3>4 DEF Abstract!Next
  <2>3. ASSUME NEW length \in 1 .. DEFAULT_BUFF_SIZE, Read(length)
        PROVE  Abstract!Next
    <3> DEFINE n == nread' - nread
    <3>1. n \in 1 .. DEFAULT_BUFF_SIZE - 1 /\ nread + 1 .. nread' \subseteq accepted
      BY <2>3, ReadFacts
    <3>2. nread' = nread + n
      <4> DEFINE total == nread'
      <4>1. nread \in Nat /\ total \in Nat
        BY <2>1
      <4> HIDE DEF total
      <4>2. total = nread + (total - nread)
        BY <4>1
      <4>. QED  BY <4>2 DEF total
    <3>3. accepted' = accepted
      BY <2>3 DEF Read
    <3> HIDE DEF n
    <3>4. Abstract!Read(n)
      BY <3>1, <3>2, <3>3, <2>1 DEF Abstract!Read
    <3>. QED  BY <3>1, <3>4 DEF Abstract!Next
  <2>4. ASSUME UNCHANGED vars
        PROVE  UNCHANGED Abstract!reassembly
    BY <2>4, <2>1 DEF vars, Abstract!reassembly
  <2>. QED  BY <2>2, <2>3, <2>4 DEF Next
<1>. QED  BY <1>1, <1>2, Invariance, PTL DEF Spec, ImplementsReassembly, Abstract!Spec

-----------------------------------------------------------------------------
(* The natural numbers of RecvBuffer stand for the words of the code, for  *)
(* every modulus and every stream that ends before the numbers run out.    *)
(* ModulusAssumption is used from here on and nowhere above.               *)

(* Reducing modulo 2^32 changes nothing below it, and undoes the addition  *)
(* that stands for a subtraction in words.                                 *)
LEMMA WordSmall ==
  /\ \A x \in 0 .. Modulus - 1 : word(x) = x
  /\ \A x \in 0 .. Modulus - 1 : word(x + Modulus) = x
BY ModulusAssumption, CapacityAssumption DEF word

(* No sequence number the buffer compares reaches the modulus.             *)
LEMMA BelowModulus ==
  ASSUME RInv
  PROVE  /\ rb \in RecvBufferType
         /\ rb.last_byte_read_seqnum \in 0 .. Modulus - 1
         /\ get_next_byte_expected_seqnum(rb) \in 0 .. Modulus - 1
<1>1. /\ rb \in RecvBufferType /\ nread \in 0 .. MaxStream
      /\ accepted \subseteq 1 .. MaxStream
      /\ rb.last_byte_read_seqnum = ISN + nread
      /\ get_next_byte_expected_seqnum(rb) > rb.last_byte_read_seqnum
      /\ Held = accepted
  BY DEF RInv, TypeOK, HoldsWhatArrived, next_expected
<1> DEFINE next == get_next_byte_expected_seqnum(rb)
<1>2. next \in Nat
  BY <1>1, NextExpectedBounds
<1>3. 1 .. next - 1 - ISN \subseteq 1 .. MaxStream
  BY <1>1 DEF Held, next_expected
<1> HIDE DEF next
<1>4. next <= ISN + MaxStream + 1
  <2> SUFFICES ASSUME next > ISN + MaxStream + 1 PROVE FALSE
    BY <1>2, StreamAssumption
  <2>1. MaxStream + 1 \in 1 .. next - 1 - ISN
    BY <1>2, StreamAssumption
  <2>. QED  BY <2>1, <1>3, StreamAssumption
<1>. QED  BY <1>1, <1>2, <1>4, StreamAssumption, ModulusAssumption DEF next

(* Spec => []WordsAgree: recv_buffer_can_receive decides the same with     *)
(* uint32_t as with numbers, as long as the stream ends before 2^32.       *)
THEOREM WordsSuffice == Spec => []WordsAgree
<1>1. RInv => WordsAgree
  <2> SUFFICES ASSUME RInv, NEW first \in 1 .. MaxStream, NEW n \in 1 .. MaxStream,
                      first + n - 1 <= MaxStream
               PROVE  word_can_receive(InWords(rb), word(ISN + first), n)
                        = recv_buffer_can_receive(rb, ISN + first, n)
    BY DEF WordsAgree
  <2> DEFINE read == rb.last_byte_read_seqnum
             next == get_next_byte_expected_seqnum(rb)
             seq  == ISN + first
             last == seq + n - 1
  <2>1. read \in 0 .. Modulus - 1 /\ next \in 0 .. Modulus - 1
    BY BelowModulus
  <2>2. seq \in 0 .. Modulus - 1 /\ last \in 0 .. Modulus - 1 /\ seq <= last
    BY StreamAssumption, ModulusAssumption
  <2>3. InWords(rb) = rb
    <3>1. word(rb.last_byte_read_seqnum) = rb.last_byte_read_seqnum
      BY <2>1, WordSmall
    <3>. QED  BY <3>1, BelowModulus DEF InWords, RecvBufferType
  <2>4. word(seq) = seq /\ word(next) = next /\ word(last) = last
    BY <2>1, <2>2, WordSmall
  <2> HIDE DEF read, next, seq, last
  <2>5. read < seq => word(last + Modulus - read) = last - read
    <3> SUFFICES ASSUME read < seq PROVE word(last + Modulus - read) = last - read
      OBVIOUS
    <3>1. last - read \in 0 .. Modulus - 1
      BY <2>1, <2>2, ModulusAssumption
    <3>2. last + Modulus - read = (last - read) + Modulus
      BY <2>1, <2>2, ModulusAssumption
    <3>. QED  BY <3>1, <3>2, WordSmall
  <2>6. word_can_receive(rb, seq, n) =
          IF seq <= read THEN 2 ELSE IF last < next THEN 3
          ELSE IF word(last + Modulus - read) >= DEFAULT_BUFF_SIZE THEN 1 ELSE 0
    BY <2>4 DEF word_can_receive, read, next, last
  <2>7. recv_buffer_can_receive(rb, seq, n) =
          IF seq <= read THEN 2 ELSE IF last < next THEN 3
          ELSE IF last - read >= DEFAULT_BUFF_SIZE THEN 1 ELSE 0
    BY DEF recv_buffer_can_receive, read, next, last
  <2>8. seq <= read \/ read < seq
    BY <2>1, <2>2
  <2>9. word_can_receive(rb, seq, n) = recv_buffer_can_receive(rb, seq, n)
    BY <2>5, <2>6, <2>7, <2>8
  <2>. QED  BY <2>3, <2>4, <2>9 DEF seq
<1>. QED  BY <1>1, Invariance, PTL
=============================================================================
