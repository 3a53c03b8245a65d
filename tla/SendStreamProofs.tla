-------------------------- MODULE SendStreamProofs --------------------------
(***************************************************************************)
(* Proofs about SendStream, for every capacity of the ring, every initial  *)
(* sequence number and every length of the stream.                         *)
(*                                                                         *)
(* The inductive invariant says that the ring is in step with the stream   *)
(* (SendGood of BufferProofs: the indices in range, every byte that is     *)
(* not acknowledged in its slot, and on the first lap the slots counted    *)
(* from the start of the array), that the numbers recomputed from the      *)
(* indices are those of the stream, and that the last packet carries what  *)
(* its sequence number says.  What the operations do to a ring in step is  *)
(* the subject of BufferProofs.                                            *)
(***************************************************************************)
EXTENDS SendStream, BufferProofs

SInv ==
  /\ TypeOK
  /\ SendGood(sb, ISN)
  /\ written(sb) = ISN + wrote + 1
  /\ sent(sb) = transmitted
  /\ InPlace(pkt.payload, pkt.seq, sb, ISN)
  /\ crashed => ~FirstLap(sb, ISN)

PacketType ==
  [kind : {"none", "fresh", "resend"}, seq : Nat, payload : Seq(Byte)]

(* The numbers of the ring and of the stream.                              *)
LEMMA Numbers ==
  ASSUME SInv
  PROVE  /\ sb \in SendBufferType /\ ISN \in Nat /\ wrote \in Nat
         /\ transmitted \in Nat /\ acked(sb) \in Nat /\ written(sb) \in Nat
         /\ ISN <= acked(sb) /\ acked(sb) <= transmitted
         /\ transmitted < written(sb) /\ written(sb) <= acked(sb) + DEFAULT_BUFF_SIZE
         /\ sent(sb) = transmitted /\ written(sb) = ISN + wrote + 1
         /\ pkt \in PacketType /\ crashed \in BOOLEAN /\ wrote <= MaxStream
<1>1. /\ sb \in SendBufferType /\ ISN \in Nat /\ wrote \in 0 .. MaxStream
      /\ transmitted \in Nat /\ sent(sb) = transmitted
      /\ written(sb) = ISN + wrote + 1
      /\ ISN <= acked(sb) /\ transmitted < written(sb)
      /\ pkt \in PacketType /\ crashed \in BOOLEAN
  BY DEF SInv, TypeOK, SendGood, PacketType
<1>. QED  BY <1>1, SendBounds, StreamAssumption

LEMMA Further ==
  ASSUME NEW x \in Nat, NEW y \in Nat, NEW z \in Nat, x <= y
  PROVE  z + x + 1 <= z + y + 1
OBVIOUS

LEMMA UpTo ==
  ASSUME NEW n \in Nat
  PROVE  0 \in 0 .. n /\ 0 .. n \subseteq Nat
OBVIOUS

(* What a step has to show.                                                *)
LEMMA StepKeeps ==
  ASSUME SInv, SendGood(sb', ISN), written(sb') = ISN + wrote' + 1,
         sent(sb') = transmitted', wrote <= wrote', wrote' \in 0 .. MaxStream,
         pkt' \in PacketType, InPlace(pkt'.payload, pkt'.seq, sb, ISN),
         crashed' \in BOOLEAN, crashed' => crashed \/ ~FirstLap(sb, ISN)
  PROVE  SInv'
<1>1. /\ sb \in SendBufferType /\ sb' \in SendBufferType /\ ISN \in Nat
      /\ wrote \in Nat /\ written(sb) = ISN + wrote + 1
  BY Numbers DEF SendGood
<1>2. written(sb) <= written(sb')
  <2>1. wrote' \in Nat
    BY UpTo, StreamAssumption, Zenon
  <2>2. ISN + wrote + 1 <= ISN + wrote' + 1
    BY <1>1, <2>1, Further, Zenon
  <2>. QED  BY <1>1, <2>2
<1>3. /\ FirstLap(sb', ISN) => FirstLap(sb, ISN)
      /\ InPlace(pkt'.payload, pkt'.seq, sb', ISN)
  BY <1>1, <1>2, StillFits
<1>4. crashed' => ~FirstLap(sb', ISN)
  BY <1>3 DEF SInv
<1>5. transmitted' \in Nat
  BY <1>1, SendBounds
<1>6. TypeOK'
  BY <1>1, <1>5 DEF TypeOK, PacketType
<1>. QED  BY <1>3, <1>4, <1>6 DEF SInv

-----------------------------------------------------------------------------
(* The initial state, and a step of each action.                           *)
LEMMA InitInvariant == Init => SInv
<1> SUFFICES ASSUME Init PROVE SInv
  OBVIOUS
<1> USE StreamAssumption
<1>1. /\ SendGood(sb, ISN) /\ sent(sb) = ISN /\ written(sb) = ISN + 1
      /\ wrote = 0 /\ transmitted = ISN /\ pkt = NoPacket /\ crashed = FALSE
  BY InitializeExact DEF Init
<1>2. pkt \in PacketType /\ pkt.payload = <<>>
  BY <1>1 DEF NoPacket, PacketType
<1>3. TypeOK
  <2>1. sb \in SendBufferType
    BY <1>1 DEF SendGood
  <2>2. wrote \in 0 .. MaxStream /\ transmitted \in Nat /\ crashed \in BOOLEAN
    BY <1>1, UpTo, Zenon
  <2>. QED  BY <1>2, <2>1, <2>2 DEF TypeOK, PacketType
<1>4. InPlace(pkt.payload, pkt.seq, sb, ISN)
  BY <1>2 DEF InPlace
<1>. QED  BY <1>1, <1>3, <1>4 DEF SInv

(* cmu_write.                                                              *)
LEMMA WriteStep ==
  ASSUME SInv, NEW n \in 1 .. DEFAULT_BUFF_SIZE, Write(n)
  PROVE  /\ SInv'
         /\ acked(sb') = acked(sb) /\ transmitted' = transmitted /\ wrote' = wrote + n
<1>1. /\ n <= send_buffer_max_write(sb) /\ wrote + n <= MaxStream
      /\ sb' = send_buffer_write(sb, StreamBytes(wrote + 1, n))
      /\ wrote' = wrote + n /\ UNCHANGED <<transmitted, pkt, crashed>>
  BY DEF Write
<1>2. /\ SendGood(sb, ISN) /\ n \in Nat \ {0} /\ wrote + 1 = written(sb) - ISN
      /\ wrote \in Nat /\ InPlace(pkt.payload, pkt.seq, sb, ISN)
      /\ pkt \in PacketType /\ crashed \in BOOLEAN /\ sent(sb) = transmitted
      /\ written(sb) = ISN + wrote + 1 /\ ISN \in Nat
  BY Numbers DEF SInv
<1>3. Written(sb, sb', ISN, n)
  BY <1>1, <1>2, WriteExact
<1>4. /\ SendGood(sb', ISN) /\ acked(sb') = acked(sb) /\ sent(sb') = transmitted'
      /\ written(sb') = ISN + wrote' + 1
  BY <1>1, <1>2, <1>3 DEF Written
<1>5. wrote' \in 0 .. MaxStream /\ wrote <= wrote'
  BY <1>1, <1>2, StreamAssumption
<1>6. SInv'
  BY <1>1, <1>2, <1>4, <1>5, StepKeeps
<1>. QED  BY <1>1, <1>4, <1>6

(* multiple_send: a dump that crashes is not one of the first lap.         *)
LEMMA SendFreshStep ==
  ASSUME SInv, NEW n \in 1 .. DEFAULT_BUFF_SIZE, SendFresh(n)
  PROVE  /\ SInv'
         /\ acked(sb') = acked(sb) /\ wrote' = wrote
         /\ transmitted' = transmitted \/ transmitted' = transmitted + n
<1> USE CapacityAssumption
<1> DEFINE start_index == (sb.last_byte_sent_index + 1) % DEFAULT_BUFF_SIZE
           first == transmitted + 1
           offset == 0
           data == safe_memcpy_from_sendbuf(sb, start_index, n)
<1>1. /\ sb \in SendBufferType /\ SendGood(sb, ISN) /\ ISN \in Nat
      /\ acked(sb) \in Nat /\ written(sb) \in Nat /\ transmitted \in Nat
      /\ acked(sb) <= transmitted /\ transmitted < written(sb)
      /\ written(sb) <= acked(sb) + DEFAULT_BUFF_SIZE
      /\ sent(sb) = transmitted /\ written(sb) = ISN + wrote + 1
      /\ pkt \in PacketType /\ crashed \in BOOLEAN /\ wrote \in 0 .. MaxStream
      /\ InPlace(pkt.payload, pkt.seq, sb, ISN)
      /\ wrote' = wrote /\ n \in Nat \ {0} /\ wrote \in Nat
  BY Numbers DEF SInv, TypeOK, SendFresh
<1>2. n <= send_buffer_max_new_dump(sb) /\ transmitted + n < written(sb)
  <2>1. n <= send_buffer_max_new_dump(sb)
    BY DEF SendFresh
  <2>2. send_buffer_max_new_dump(sb) = written(sb) - transmitted - 1
    BY <1>1 DEF send_buffer_max_new_dump, written, sent
  <2>. QED  BY <2>1, <2>2, <1>1
<1>3. start_index = (sb.last_byte_sent_index + 1 + offset) % DEFAULT_BUFF_SIZE
  BY <1>1 DEF SendBufferType, Index
<1>4. /\ first \in Nat /\ acked(sb) < first /\ first + n <= written(sb)
      /\ first < written(sb) /\ n < DEFAULT_BUFF_SIZE
      /\ first = sent(sb) + 1 + offset /\ sent(sb) + offset + n < written(sb)
      /\ offset + n <= send_buffer_max_new_dump(sb) /\ offset \in Nat
  BY <1>1, <1>2
<1> HIDE DEF offset, start_index, first
<1>5. start_index = seqnum_to_index_send(sb, first) /\ start_index \in Index
  BY <1>1, <1>3, <1>4, FreshSlot
<1>6. CASE DumpCrashes(sb, start_index, n)
  <2>1. UNCHANGED <<sb, wrote, transmitted, pkt>> /\ crashed' = TRUE
    BY <1>1, <1>6 DEF SendFresh, start_index
  <2>2. ~FirstLap(sb, ISN)
    BY <1>1, <1>3, <1>4, <1>6, FirstLapDumps
  <2>3. wrote <= wrote' /\ crashed' \in BOOLEAN
    BY <2>1, <1>1
  <2>4. SInv'
    BY <2>1, <2>2, <2>3, <1>1, StepKeeps
  <2>. QED  BY <2>1, <2>4
<1>7. CASE ~DumpCrashes(sb, start_index, n)
  <2>1. /\ pkt' = [kind |-> "fresh", seq |-> first, payload |-> data]
        /\ transmitted' = MAX(transmitted, transmitted + n)
        /\ sb' = send_buffer_dump(sb, start_index, n)
        /\ crashed' = crashed
    BY <1>1, <1>7 DEF SendFresh, first, start_index, sent
  <2>2. transmitted' = transmitted + n
    BY <2>1, <1>1 DEF MAX
  <2>3. Dumped(sb, sb', ISN, offset + n)
    BY <2>1, <1>1, <1>3, <1>4, DumpExact
  <2>4. offset + n = n
    BY DEF offset
  <2>5. /\ SendGood(sb', ISN) /\ acked(sb') = acked(sb) /\ sent(sb') = transmitted'
        /\ written(sb') = ISN + wrote' + 1
    BY <2>2, <2>3, <2>4, <1>1 DEF Dumped
  <2>6. /\ data \in Seq(Byte) /\ InPlace(data, first, sb, ISN)
    <3>1. data = Linear(sb.buffer, start_index, n)
      BY <1>1, <1>4, <1>5, <1>7, FreshIsLinear
    <3>2. start_index \in Nat
      BY <1>5 DEF Index
    <3> HIDE DEF data
    <3>. QED  BY <3>1, <3>2, <1>1, <1>4, <1>5, LinearExact
  <2> HIDE DEF data
  <2>7. pkt' \in PacketType /\ InPlace(pkt'.payload, pkt'.seq, sb, ISN)
    BY <2>1, <2>6, <1>4 DEF PacketType
  <2>8. wrote <= wrote' /\ crashed' \in BOOLEAN
    BY <2>1, <1>1
  <2>9. SInv'
    BY <2>1, <2>5, <2>7, <2>8, <1>1, StepKeeps
  <2>. QED  BY <2>2, <2>5, <2>9, <1>1
<1>. QED  BY <1>6, <1>7

(* resend_unacknowledged.                                                  *)
LEMMA ResendStep ==
  ASSUME SInv, NEW num_sent \in 0 .. DEFAULT_BUFF_SIZE,
         NEW n \in 1 .. DEFAULT_BUFF_SIZE, Resend(num_sent, n)
  PROVE  SInv' /\ UNCHANGED <<sb, wrote, transmitted>>
<1> USE CapacityAssumption
<1> DEFINE ai == sb.last_byte_acked_index
           first == acked(sb) + 1 + num_sent
           curr_index == (ai + 1 + num_sent) % DEFAULT_BUFF_SIZE
           data == Linear(sb.buffer, curr_index, n)
<1>1. /\ sb \in SendBufferType /\ SendGood(sb, ISN) /\ ISN \in Nat
      /\ acked(sb) \in Nat /\ written(sb) \in Nat /\ transmitted \in Nat
      /\ transmitted < written(sb) /\ written(sb) <= acked(sb) + DEFAULT_BUFF_SIZE
      /\ sent(sb) = transmitted /\ written(sb) = ISN + wrote + 1
      /\ crashed \in BOOLEAN /\ wrote \in 0 .. MaxStream /\ wrote \in Nat
      /\ n \in Nat /\ num_sent \in Nat /\ ai \in Int
  BY Numbers DEF SInv, TypeOK, SendBufferType, Index
<1>2. num_sent + n <= transmitted - acked(sb)
  BY <1>1 DEF Resend, get_unacknowledged_count, sent, acked
<1>3. /\ pkt' = [kind |-> "resend", seq |-> first, payload |-> data]
      /\ UNCHANGED <<sb, wrote, transmitted, crashed>>
  BY DEF Resend, acked
<1>4. /\ first \in Nat /\ acked(sb) < first /\ acked(sb) <= first
      /\ first + n <= written(sb) /\ first < acked(sb) + DEFAULT_BUFF_SIZE
  BY <1>1, <1>2
<1>5. curr_index = seqnum_to_index_send(sb, first)
  <2>1. ai + (first - acked(sb)) = ai + 1 + num_sent
    <3> HIDE DEF ai
    <3>. QED  BY <1>1
  <2>. QED  BY <2>1 DEF seqnum_to_index_send, acked
<1> HIDE DEF first, curr_index
<1>6. curr_index \in Nat
  BY <1>1, <1>4, <1>5, SendSlot DEF Index
<1>7. data \in Seq(Byte) /\ InPlace(data, first, sb, ISN)
  BY <1>1, <1>4, <1>5, <1>6, LinearExact
<1> HIDE DEF data
<1>8. pkt' \in PacketType /\ InPlace(pkt'.payload, pkt'.seq, sb, ISN)
  BY <1>3, <1>4, <1>7 DEF PacketType
<1>9. wrote <= wrote' /\ crashed' \in BOOLEAN
  BY <1>1, <1>3
<1>10. SInv'
  BY <1>1, <1>3, <1>8, <1>9, StepKeeps
<1>. QED  BY <1>3, <1>10

(* handle_message.                                                         *)
LEMMA AcknowledgeStep ==
  ASSUME SInv, NEW acknum \in ISN + 1 .. ISN + MaxStream + 1, Acknowledge(acknum)
  PROVE  /\ SInv'
         /\ UNCHANGED <<wrote, transmitted>> /\ acked(sb) <= acked(sb')
<1>1. /\ SendGood(sb, ISN) /\ ISN \in Nat /\ wrote \in 0 .. MaxStream /\ wrote \in Nat
      /\ acked(sb) \in Nat /\ sent(sb) = transmitted /\ transmitted \in Nat
      /\ written(sb) = ISN + wrote + 1 /\ pkt \in PacketType /\ crashed \in BOOLEAN
      /\ InPlace(pkt.payload, pkt.seq, sb, ISN)
  BY Numbers DEF SInv, TypeOK
<1>2. /\ acknum \in ISN + 1 .. transmitted + 1
      /\ sb' = send_buffer_update_ack(sb, acknum)
      /\ UNCHANGED <<wrote, transmitted, pkt, crashed>>
  BY DEF Acknowledge
<1>3. acknum \in Nat \ {0} /\ acknum <= sent(sb) + 1
  BY <1>1, <1>2
<1>4. AckedUpTo(sb, sb', ISN, acknum)
  BY <1>1, <1>2, <1>3, AckExact
<1>5. /\ SendGood(sb', ISN) /\ sent(sb') = transmitted'
      /\ written(sb') = ISN + wrote' + 1
  BY <1>1, <1>2, <1>4 DEF AckedUpTo
<1>6. acked(sb) <= acked(sb')
  BY <1>1, <1>3, <1>4 DEF AckedUpTo, MAX
<1>7. wrote <= wrote' /\ crashed' \in BOOLEAN
  BY <1>1, <1>2
<1>8. SInv'
  BY <1>1, <1>2, <1>5, <1>7, StepKeeps
<1>. QED  BY <1>2, <1>6, <1>8

-----------------------------------------------------------------------------
(* The invariant holds for ever, and of the three numbers of the window at *)
(* most one moves in a step, and forward.                                  *)
NumbersMove ==
  /\ wrote <= wrote' /\ transmitted <= transmitted' /\ acked(sb) <= acked(sb')
  /\ \/ transmitted' = transmitted /\ acked(sb') = acked(sb)
     \/ wrote' = wrote /\ acked(sb') = acked(sb)
     \/ wrote' = wrote /\ transmitted' = transmitted

LEMMA NextStep ==
  ASSUME SInv, [Next]_vars
  PROVE  SInv' /\ NumbersMove
<1> USE DEF NumbersMove
<1>1. /\ acked(sb) \in Nat /\ wrote \in Nat /\ transmitted \in Nat
      /\ pkt \in PacketType /\ crashed \in BOOLEAN
  BY Numbers
<1>2. ASSUME NEW n \in 1 .. DEFAULT_BUFF_SIZE, Write(n) PROVE SInv' /\ NumbersMove
  BY <1>1, <1>2, WriteStep
<1>3. ASSUME NEW n \in 1 .. DEFAULT_BUFF_SIZE, SendFresh(n) PROVE SInv' /\ NumbersMove
  <2>1. /\ SInv' /\ acked(sb') = acked(sb) /\ wrote' = wrote
        /\ transmitted' = transmitted \/ transmitted' = transmitted + n
    BY <1>3, SendFreshStep
  <2>2. transmitted <= transmitted'
    BY <2>1, <1>1
  <2>. QED  BY <2>1, <2>2, <1>1
<1>4. ASSUME NEW num_sent \in 0 .. DEFAULT_BUFF_SIZE,
             NEW n \in 1 .. DEFAULT_BUFF_SIZE, Resend(num_sent, n)
      PROVE  SInv' /\ NumbersMove
  BY <1>1, <1>4, ResendStep
<1>5. ASSUME NEW acknum \in ISN + 1 .. ISN + MaxStream + 1, Acknowledge(acknum)
      PROVE  SInv' /\ NumbersMove
  BY <1>1, <1>5, AcknowledgeStep
<1>6. CASE UNCHANGED vars
  <2>1. UNCHANGED <<sb, wrote, transmitted, pkt, crashed>>
    BY <1>6 DEF vars
  <2>2. SInv'
    BY <2>1 DEF SInv, TypeOK
  <2>. QED  BY <2>1, <2>2, <1>1
<1>. QED  BY <1>2, <1>3, <1>4, <1>5, <1>6 DEF Next

LEMMA Invariance == Spec => []SInv
<1>1. SInv /\ [Next]_vars => SInv'
  BY NextStep
<1>. QED  BY <1>1, InitInvariant, PTL DEF Spec

-----------------------------------------------------------------------------
(* The indices of the ring never leave the array and the payloads are      *)
(* sequences of bytes, for every capacity: what the C code relies on when  *)
(* it adds an index to the address of the buffer.                          *)
THEOREM TypeCorrect == Spec => []TypeOK
<1>1. SInv => TypeOK
  BY DEF SInv
<1>. QED  BY <1>1, Invariance, PTL

(* send_buffer.c never loses count of the stream: the sequence numbers it  *)
(* recomputes from the indices are the true ones after any operations.     *)
THEOREM RingCorrect == Spec => []RingTracksStream
<1>1. SInv => RingTracksStream
  <2> SUFFICES ASSUME SInv PROVE RingTracksStream
    OBVIOUS
  <2> DEFINE a == acked(sb)
  <2>1. /\ a \in Nat /\ ISN \in Nat /\ wrote \in Nat /\ transmitted \in Nat
        /\ ISN <= a /\ a <= transmitted /\ transmitted < ISN + wrote + 1
        /\ ISN + wrote + 1 <= a + DEFAULT_BUFF_SIZE
        /\ get_next_byte_written_seqnum(sb) = ISN + wrote + 1
        /\ get_last_byte_sent_seqnum(sb) = transmitted
    BY Numbers DEF written, sent
  <2>2. sb.last_byte_acked_seqnum = a
    BY DEF acked
  <2> HIDE DEF a
  <2>3. transmitted <= ISN + wrote /\ ISN + wrote - a <= DEFAULT_BUFF_SIZE - 1
    BY <2>1, CapacityAssumption
  <2>. QED  BY <2>1, <2>2, <2>3 DEF RingTracksStream
<1>. QED  BY <1>1, Invariance, PTL

(* A written byte is in its slot until it is acknowledged: writes never    *)
(* overwrite a byte that may still have to be retransmitted.               *)
THEOREM BytesKept == Spec => []UnackedBytesKept
<1>1. SInv => UnackedBytesKept
  <2> SUFFICES ASSUME SInv, NEW p \in (sb.last_byte_acked_seqnum - ISN + 1) .. wrote
               PROVE  sb.buffer[seqnum_to_index_send(sb, ISN + p)] = p
    BY DEF UnackedBytesKept
  <2> DEFINE a == acked(sb)
             q == ISN + p
  <2>1. /\ SendKept(sb, ISN) /\ a \in Nat /\ ISN \in Nat /\ wrote \in Nat
        /\ written(sb) = ISN + wrote + 1 /\ ISN <= a
    BY Numbers DEF SInv, SendGood
  <2>2. p \in (a - ISN + 1) .. wrote
    BY DEF acked
  <2> HIDE DEF a
  <2>3. q \in Nat /\ a < q /\ q < written(sb) /\ q - ISN = p
    BY <2>1, <2>2
  <2> HIDE DEF q
  <2>4. sb.buffer[seqnum_to_index_send(sb, q)] = q - ISN
    BY <2>1, <2>3 DEF SendKept, a
  <2>. QED  BY <2>3, <2>4 DEF q
<1>. QED  BY <1>1, Invariance, PTL

(* The payload of the last packet, position by position.                   *)
LEMMA PayloadFits ==
  ASSUME SInv, NEW k \in DOMAIN pkt.payload
  PROVE  Fits(pkt.payload[k], pkt.seq + k - 1 - ISN, sb, ISN)
<1>1. pkt.payload \in Seq(Byte) /\ InPlace(pkt.payload, pkt.seq, sb, ISN)
  BY Numbers DEF SInv, PacketType
<1>2. k \in 1 .. Len(pkt.payload)
  BY <1>1
<1>. QED  BY <1>1, <1>2 DEF InPlace

(* A packet carries a byte of the stream at its own sequence number, or    *)
(* memory past the end of the array, and never another byte of the stream. *)
THEOREM PayloadsInPlace == Spec => []PayloadInPlace
<1>1. SInv => PayloadInPlace
  BY PayloadFits DEF PayloadInPlace, Fits
<1>. QED  BY <1>1, Invariance, PTL

(* Until the stream comes back to slot 0 no dump crashes and every packet, *)
(* sent first or again, carries exactly the bytes its number says.         *)
THEOREM FirstLapSafe == Spec => []FirstLapExact
<1>1. SInv => FirstLapExact
  <2> SUFFICES ASSUME SInv, wrote < DEFAULT_BUFF_SIZE
               PROVE  ~crashed /\ PayloadExact
    BY DEF FirstLapExact
  <2>1. FirstLap(sb, ISN)
    <3>1. wrote \in Nat /\ ISN \in Nat /\ written(sb) = ISN + wrote + 1
      BY Numbers
    <3>. QED  BY <3>1, CapacityAssumption DEF FirstLap
  <2>2. ~crashed
    BY <2>1 DEF SInv
  <2>3. PayloadExact
    BY <2>1, PayloadFits DEF PayloadExact, Fits
  <2>. QED  BY <2>2, <2>3
<1>. QED  BY <1>1, Invariance, PTL

(* The assertions of seqnum_to_index_send never fail on an acknowledgement *)
(* of bytes that were sent.                                                *)
THEOREM AckAssertions == Spec => []AckAssertionsHold
<1>1. SInv => AckAssertionsHold
  <2> SUFFICES ASSUME SInv, NEW acknum \in ISN + 1 .. transmitted + 1,
                      acknum - 1 > sb.last_byte_acked_seqnum
               PROVE  InSendRing(sb, acknum - 1)
    BY DEF AckAssertionsHold
  <2> DEFINE a == acked(sb)
  <2>1. /\ a \in Nat /\ ISN \in Nat /\ transmitted \in Nat /\ written(sb) \in Nat
        /\ transmitted < written(sb) /\ written(sb) <= a + DEFAULT_BUFF_SIZE
    BY Numbers
  <2>2. sb.last_byte_acked_seqnum = a
    BY DEF acked
  <2> HIDE DEF a
  <2>. QED  BY <2>1, <2>2, CapacityAssumption DEF InSendRing
<1>. QED  BY <1>1, Invariance, PTL

(* The ring implements the window over the stream (StreamWindow).          *)
THEOREM RingImplementsWindow == Spec => ImplementsWindow
<1> USE CapacityAssumption
<1>1. Init => Window!Init
  <2> SUFFICES ASSUME Init PROVE Window!Init
    OBVIOUS
  <2>1. sb.last_byte_acked_seqnum = ISN /\ sent(sb) = ISN /\ written(sb) = ISN + 1
    BY InitializeExact, StreamAssumption DEF Init, acked
  <2>. QED  BY <2>1, StreamAssumption DEF Window!Init, sent, written
<1>2. SInv /\ SInv' /\ [Next]_vars => [Window!Next]_Window!window
  <2> SUFFICES ASSUME SInv, SInv', [Next]_vars
               PROVE  [Window!Next]_Window!window
    OBVIOUS
  <2> DEFINE a == acked(sb)
             ap == acked(sb')
             t == transmitted
             tp == transmitted'
             w == wrote
             wp == wrote'
  <2>1. /\ a \in Nat /\ t \in Nat /\ w \in Nat /\ ISN \in Nat
        /\ a <= t /\ t < ISN + w + 1 /\ ISN + w + 1 <= a + DEFAULT_BUFF_SIZE
    BY Numbers
  <2>2. /\ ap \in Nat /\ tp \in Nat /\ wp \in Nat
        /\ ap <= tp /\ tp < ISN + wp + 1 /\ ISN + wp + 1 <= ap + DEFAULT_BUFF_SIZE
    <3>1. /\ sb' \in SendBufferType /\ sent(sb') = tp /\ written(sb') = ISN + wp + 1
          /\ tp < written(sb') /\ wp \in 0 .. MaxStream
      BY DEF SInv, SendGood, TypeOK
    <3>. QED  BY <3>1, SendBounds, StreamAssumption
  <2>3. /\ w <= wp /\ t <= tp /\ a <= ap
        /\ \/ tp = t /\ ap = a
           \/ wp = w /\ ap = a
           \/ wp = w /\ tp = t
    BY NextStep DEF NumbersMove
  <2>4. /\ sb.last_byte_acked_seqnum = a
        /\ get_last_byte_sent_seqnum(sb) = t
        /\ get_next_byte_written_seqnum(sb) = ISN + w + 1
        /\ (sb.last_byte_acked_seqnum)' = ap
        /\ (get_last_byte_sent_seqnum(sb))' = tp
        /\ (get_next_byte_written_seqnum(sb))' = ISN + wp + 1
    BY DEF SInv, acked, sent, written
  <2> HIDE DEF a, ap, t, tp, w, wp
  <2>5. CASE tp = t /\ ap = a /\ wp = w
    BY <2>4, <2>5 DEF Window!window
  <2>6. CASE tp = t /\ ap = a /\ wp # w
    <3> DEFINE n == wp - w
    <3>1. n \in 1 .. DEFAULT_BUFF_SIZE - 1
      BY <2>1, <2>2, <2>3, <2>6
    <3>2. Window!Write(n)
      BY <2>1, <2>2, <2>4, <2>6 DEF Window!Write
    <3> HIDE DEF n
    <3>. QED  BY <3>1, <3>2 DEF Window!Next
  <2>7. CASE wp = w /\ ap = a /\ tp # t
    <3> DEFINE n == tp - t
    <3>1. n \in 1 .. DEFAULT_BUFF_SIZE - 1
      BY <2>1, <2>2, <2>3, <2>7
    <3>2. Window!Send(n)
      BY <2>1, <2>2, <2>4, <2>7 DEF Window!Send
    <3> HIDE DEF n
    <3>. QED  BY <3>1, <3>2 DEF Window!Next
  <2>8. CASE wp = w /\ tp = t /\ ap # a
    <3> DEFINE n == ap - a
    <3>1. n \in 1 .. DEFAULT_BUFF_SIZE - 1
      BY <2>1, <2>2, <2>3, <2>8
    <3>2. Window!Acknowledge(n)
      BY <2>1, <2>2, <2>4, <2>8 DEF Window!Acknowledge
    <3> HIDE DEF n
    <3>. QED  BY <3>1, <3>2 DEF Window!Next
  <2>. QED  BY <2>3, <2>5, <2>6, <2>7, <2>8
<1>. QED  BY <1>1, <1>2, Invariance, PTL DEF Spec, Window!Spec, ImplementsWindow
=============================================================================
