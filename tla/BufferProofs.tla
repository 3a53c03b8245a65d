---------------------------- MODULE BufferProofs ----------------------------
(***************************************************************************)
(* Lemmas about the operations of the two buffers, for every capacity:     *)
(* what copying in and out of the circular array of Ring does; what        *)
(* merging, storing and reading do to a sound receive buffer; what         *)
(* writing, dumping and acknowledging do to a send buffer that is in step  *)
(* with its stream.                                                        *)
(***************************************************************************)
EXTENDS SendBuffer, RecvBuffer, SequenceTheorems, WellFoundedInduction, TLAPS

-----------------------------------------------------------------------------
(* The ring: lemmas that serve both buffers.                               *)

(* The indices the code computes are sums of less than two capacities:     *)
(* reducing them modulo the capacity subtracts it at most once.            *)
LEMMA WrapOnce ==
  \A x \in 0 .. 2 * DEFAULT_BUFF_SIZE - 1 :
    /\ x % DEFAULT_BUFF_SIZE = IF x < DEFAULT_BUFF_SIZE THEN x
                                                ELSE x - DEFAULT_BUFF_SIZE
    /\ x % DEFAULT_BUFF_SIZE \in Index
BY CapacityAssumption DEF Index

(* A straight copy out of the array yields a packet payload.               *)
LEMMA LinearType ==
  ASSUME NEW buffer \in [Index -> Byte], NEW start \in Nat, NEW n \in Nat
  PROVE  /\ Linear(buffer, start, n) \in Seq(Byte)
         /\ DOMAIN Linear(buffer, start, n) = 1 .. n
<1>1. \A k \in 1 .. n : (IF start + k - 1 \in Index THEN buffer[start + k - 1]
                                                    ELSE Junk) \in Byte
  BY DEF Byte
<1>. QED  BY <1>1 DEF Linear

(* What the array holds after any bytes were copied in at `start`.         *)
LEMMA CopyInData ==
  ASSUME NEW buffer \in [Index -> Byte], NEW start \in Index, NEW data \in Seq(Byte)
  PROVE  /\ CopyIn(buffer, start, data) \in [Index -> Byte]
         /\ \A i \in Index :
              CopyIn(buffer, start, data)[i] =
                IF start <= i /\ i < start + Len(data) THEN data[i - start + 1]
                ELSE IF i + DEFAULT_BUFF_SIZE < start + Len(data)
                     THEN data[i + DEFAULT_BUFF_SIZE - start + 1]
                     ELSE buffer[i]
<1> DEFINE copy == CopyIn(buffer, start, data)
           n == Len(data)
<1>1. n \in Nat /\ \A k \in 1 .. n : data[k] \in Byte
  OBVIOUS
<1>2. copy = [i \in Index |-> copy[i]]
  BY DEF CopyIn
<1>3. ASSUME NEW i \in Index
      PROVE  copy[i] = IF i \in start .. start + n - 1 THEN data[i - start + 1]
                       ELSE IF i + DEFAULT_BUFF_SIZE <= start + n - 1
                            THEN data[i + DEFAULT_BUFF_SIZE - start + 1]
                            ELSE buffer[i]
  BY DEF CopyIn
<1> HIDE DEF copy, n
<1>4. ASSUME NEW i \in Index
      PROVE  copy[i] = IF start <= i /\ i < start + n THEN data[i - start + 1]
                       ELSE IF i + DEFAULT_BUFF_SIZE < start + n
                            THEN data[i + DEFAULT_BUFF_SIZE - start + 1]
                            ELSE buffer[i]
  <2>1. /\ i \in start .. start + n - 1 <=> start <= i /\ i < start + n
        /\ i + DEFAULT_BUFF_SIZE <= start + n - 1 <=> i + DEFAULT_BUFF_SIZE < start + n
    BY <1>1, CapacityAssumption DEF Index
  <2>. QED  BY <1>3, <2>1
<1>5. ASSUME NEW i \in Index PROVE copy[i] \in Byte
  <2>1. CASE start <= i /\ i < start + n
    <3>1. i - start + 1 \in 1 .. n
      BY <2>1, <1>1, CapacityAssumption DEF Index
    <3>. QED  BY <3>1, <2>1, <1>1, <1>4
  <2>2. CASE ~(start <= i /\ i < start + n) /\ i + DEFAULT_BUFF_SIZE < start + n
    <3>1. i + DEFAULT_BUFF_SIZE - start + 1 \in 1 .. n
      BY <2>2, <1>1, CapacityAssumption DEF Index
    <3>. QED  BY <3>1, <2>2, <1>1, <1>4
  <2>3. CASE ~(start <= i /\ i < start + n) /\ ~(i + DEFAULT_BUFF_SIZE < start + n)
    BY <2>3, <1>4
  <2>. QED  BY <2>1, <2>2, <2>3
<1>6. copy \in [Index -> Byte]
  BY <1>2, <1>5
<1>. QED  BY <1>4, <1>6 DEF copy, n

(* What the array holds after stream bytes first, first + 1, ... were      *)
(* copied in at `start`.                                                   *)
LEMMA CopyInStream ==
  ASSUME NEW buffer \in [Index -> Byte], NEW start \in Index,
         NEW first \in Nat \ {0}, NEW n \in Nat
  PROVE  /\ Len(StreamBytes(first, n)) = n
         /\ CopyIn(buffer, start, StreamBytes(first, n)) \in [Index -> Byte]
         /\ \A i \in Index :
              CopyIn(buffer, start, StreamBytes(first, n))[i] =
                        IF start <= i /\ i < start + n THEN first + i - start
                        ELSE IF i + DEFAULT_BUFF_SIZE < start + n
                             THEN first + i + DEFAULT_BUFF_SIZE - start
                             ELSE buffer[i]
<1>1. /\ Len(StreamBytes(first, n)) = n
      /\ \A k \in 1 .. n : StreamBytes(first, n)[k] = first + k - 1
  BY DEF StreamBytes
<1> DEFINE copy == CopyIn(buffer, start, StreamBytes(first, n))
<1>2. ASSUME NEW i \in Index
      PROVE  copy[i] = IF start <= i /\ i < start + n THEN first + i - start
                       ELSE IF i + DEFAULT_BUFF_SIZE < start + n
                            THEN first + i + DEFAULT_BUFF_SIZE - start
                            ELSE buffer[i]
  <2>1. copy[i] = IF i \in start .. start + n - 1
                    THEN StreamBytes(first, n)[i - start + 1]
                  ELSE IF i + DEFAULT_BUFF_SIZE <= start + n - 1
                    THEN StreamBytes(first, n)[i + DEFAULT_BUFF_SIZE - start + 1]
                  ELSE buffer[i]
    BY <1>1 DEF CopyIn
  <2>2. CASE i \in start .. start + n - 1
    BY <2>1, <2>2, <1>1 DEF Index
  <2>3. CASE i \notin start .. start + n - 1 /\ i + DEFAULT_BUFF_SIZE <= start + n - 1
    BY <2>1, <2>3, <1>1, CapacityAssumption DEF Index
  <2>4. CASE i \notin start .. start + n - 1 /\ ~(i + DEFAULT_BUFF_SIZE <= start + n - 1)
    BY <2>1, <2>4, CapacityAssumption DEF Index
  <2>. QED  BY <2>2, <2>3, <2>4
<1>3. ASSUME NEW i \in Index PROVE copy[i] \in Byte
  BY <1>2, CapacityAssumption DEF Byte, Index
<1>4. copy = [i \in Index |-> copy[i]]
  BY DEF CopyIn
<1>. HIDE DEF copy
<1>5. copy \in [Index -> Byte]
  BY <1>3, <1>4
<1>. QED  BY <1>1, <1>2, <1>5 DEF copy

-----------------------------------------------------------------------------
(* The receive buffer.                                                     *)

(* Smallest and largest elements, which segment_merge looks for.           *)
LEMMA MinIsLeast ==
  ASSUME NEW S, S \subseteq Nat, S # {}
  PROVE  Min(S) \in S /\ \A y \in S : Min(S) <= y
<1> DEFINE R == OpToRel(<, Nat)
<1>1. PICK x \in S : \A y \in S : ~(<<y, x>> \in R)
  <2>1. IsWellFoundedOn(R, Nat)
    BY NatLessThanWellFounded
  <2> HIDE DEF R
  <2>. QED  BY <2>1, WFMin
<1>2. \A y \in S : x <= y
  <2> SUFFICES ASSUME NEW y \in S, y < x PROVE FALSE
    OBVIOUS
  <2>1. <<y, x>> \in R
    BY DEF OpToRel
  <2>. QED  BY <2>1, <1>1
<1>. QED  BY <1>1, <1>2 DEF Min

LEMMA MaxIsGreatest ==
  ASSUME NEW S, S \subseteq Nat, S # {},
         NEW b \in Nat, \A y \in S : y <= b
  PROVE  Max(S) \in S /\ \A y \in S : y <= Max(S)
<1> DEFINE T == {b - y : y \in S}
<1>1. T \subseteq Nat /\ T # {}
  <2>1. \A y \in S : b - y \in Nat
    OBVIOUS
  <2>. QED  BY <2>1
<1>2. Min(T) \in T /\ \A z \in T : Min(T) <= z
  <2> HIDE DEF T
  <2>. QED  BY <1>1, MinIsLeast
<1>3. PICK x \in S : Min(T) = b - x
  BY <1>2
<1>4. \A y \in S : x >= y
  <2> SUFFICES ASSUME NEW y \in S PROVE x >= y
    OBVIOUS
  <2>1. b - x <= b - y
    BY <1>2, <1>3
  <2>. QED  BY <2>1
<1>. QED  BY <1>4 DEF Max

-----------------------------------------------------------------------------
(* The ring.                                                               *)

(* The number computed from the indices lies within one capacity of the    *)
(* last byte read, whatever the indices are.                               *)
LEMMA NextExpectedBounds ==
  ASSUME NEW r \in RecvBufferType
  PROVE  /\ get_next_byte_expected_seqnum(r) \in Nat
         /\ r.last_byte_read_seqnum < get_next_byte_expected_seqnum(r)
         /\ get_next_byte_expected_seqnum(r)
              <= r.last_byte_read_seqnum + DEFAULT_BUFF_SIZE
BY CapacityAssumption DEF RecvBufferType, Index, get_next_byte_expected_seqnum

(* The slot of a byte within one capacity of the last byte read is found   *)
(* by at most one subtraction.                                             *)
LEMMA SlotOfSeqnum ==
  ASSUME NEW r \in RecvBufferType, NEW q \in Nat,
         r.last_byte_read_seqnum <= q,
         q <= r.last_byte_read_seqnum + DEFAULT_BUFF_SIZE
  PROVE  /\ seqnum_to_index_recv(r, q) =
              LET x == r.last_byte_read_index + (q - r.last_byte_read_seqnum)
              IN  IF x < DEFAULT_BUFF_SIZE THEN x ELSE x - DEFAULT_BUFF_SIZE
         /\ seqnum_to_index_recv(r, q) \in Index
<1> DEFINE x == r.last_byte_read_index + (q - r.last_byte_read_seqnum)
<1>1. x \in 0 .. 2 * DEFAULT_BUFF_SIZE - 1
  BY CapacityAssumption DEF RecvBufferType, Index
<1>2. seqnum_to_index_recv(r, q) = x % DEFAULT_BUFF_SIZE
  BY DEF seqnum_to_index_recv
<1> HIDE DEF x
<1>3. /\ seqnum_to_index_recv(r, q) =
           IF x < DEFAULT_BUFF_SIZE THEN x ELSE x - DEFAULT_BUFF_SIZE
      /\ seqnum_to_index_recv(r, q) \in Index
  BY <1>1, <1>2, WrapOnce
<1>. QED  BY <1>3 DEF x

(* Setting next_byte_expected_index to the slot of q makes q the byte      *)
(* expected next.                                                          *)
LEMMA NextExpectedAt ==
  ASSUME NEW r \in RecvBufferType, NEW rn \in RecvBufferType, NEW q \in Nat,
         r.last_byte_read_seqnum < q,
         q <= r.last_byte_read_seqnum + DEFAULT_BUFF_SIZE,
         rn.last_byte_read_seqnum = r.last_byte_read_seqnum,
         rn.last_byte_read_index = r.last_byte_read_index,
         rn.next_byte_expected_index = seqnum_to_index_recv(r, q)
  PROVE  get_next_byte_expected_seqnum(rn) = q
<1> DEFINE li == r.last_byte_read_index
           ls == r.last_byte_read_seqnum
           ni == rn.next_byte_expected_index
<1>1. li \in Index /\ ls \in Nat /\ ni \in Index
  BY DEF RecvBufferType
<1>2. ni = LET x == li + (q - ls)
           IN  IF x < DEFAULT_BUFF_SIZE THEN x ELSE x - DEFAULT_BUFF_SIZE
  BY SlotOfSeqnum, <1>1
<1>3. get_next_byte_expected_seqnum(rn)
        = ls + IF ni > li THEN ni - li ELSE (DEFAULT_BUFF_SIZE - li) + ni
  BY <1>1, CapacityAssumption DEF get_next_byte_expected_seqnum, Index
<1>4. ls < q /\ q <= ls + DEFAULT_BUFF_SIZE
  OBVIOUS
<1> HIDE DEF li, ls, ni
<1>. QED  BY <1>1, <1>2, <1>3, <1>4, CapacityAssumption DEF Index

(* What recv_buffer_receive copies into the ring: each byte of the packet  *)
(* in its own slot, and nothing anywhere else.                             *)
Placed(r, copy, f, data) ==
  /\ copy \in [Index -> Byte]
  /\ \A k \in 1 .. Len(data) :
       copy[seqnum_to_index_recv(r, f + k - 1)] = data[k]
  /\ \A q \in Nat :
       /\ r.last_byte_read_seqnum < q
       /\ q < r.last_byte_read_seqnum + DEFAULT_BUFF_SIZE
       /\ q < f \/ q > f + Len(data) - 1
       => copy[seqnum_to_index_recv(r, q)] = r.buffer[seqnum_to_index_recv(r, q)]

LEMMA CopyInPlace ==
  ASSUME NEW r \in RecvBufferType, NEW f \in Nat, NEW data \in Seq(Byte),
         Len(data) > 0,
         r.last_byte_read_seqnum < f,
         f + Len(data) <= r.last_byte_read_seqnum + DEFAULT_BUFF_SIZE
  PROVE  Placed(r, CopyIn(r.buffer, seqnum_to_index_recv(r, f), data), f, data)
<1> DEFINE copy == CopyIn(r.buffer, seqnum_to_index_recv(r, f), data)
           n == Len(data)
           li == r.last_byte_read_index
           ls == r.last_byte_read_seqnum
           start == seqnum_to_index_recv(r, f)
           Slot(q) == seqnum_to_index_recv(r, q)
<1>1. /\ li \in Index /\ ls \in Nat /\ r.buffer \in [Index -> Byte]
      /\ n \in Nat \ {0} /\ ls < f /\ f + n <= ls + DEFAULT_BUFF_SIZE
  BY DEF RecvBufferType
<1>2. \A q \in Nat : ls < q /\ q < ls + DEFAULT_BUFF_SIZE =>
        /\ Slot(q) \in Index
        /\ Slot(q) = LET x == li + (q - ls)
                     IN  IF x < DEFAULT_BUFF_SIZE THEN x ELSE x - DEFAULT_BUFF_SIZE
  BY SlotOfSeqnum, <1>1, CapacityAssumption
<1>3. f < ls + DEFAULT_BUFF_SIZE
  <2> HIDE DEF ls, n
  <2>. QED  BY <1>1, CapacityAssumption
<1>4. /\ start \in Index
      /\ start = LET x == li + (f - ls)
                 IN  IF x < DEFAULT_BUFF_SIZE THEN x ELSE x - DEFAULT_BUFF_SIZE
  BY <1>1, <1>2, <1>3
<1>5. /\ copy \in [Index -> Byte]
      /\ \A i \in Index :
           copy[i] = IF start <= i /\ i < start + n THEN data[i - start + 1]
                     ELSE IF i + DEFAULT_BUFF_SIZE < start + n
                          THEN data[i + DEFAULT_BUFF_SIZE - start + 1]
                          ELSE r.buffer[i]
  <2>1. copy = CopyIn(r.buffer, start, data)
    OBVIOUS
  <2> HIDE DEF start
  <2>. QED  BY <1>1, <1>4, <2>1, CopyInData
<1> HIDE DEF li, ls, start, Slot, copy, n
<1>6. ASSUME NEW k \in 1 .. n
      PROVE  copy[Slot(f + k - 1)] = data[k]
  <2> DEFINE q == f + k - 1
  <2>1. q \in Nat /\ ls < q /\ q < ls + DEFAULT_BUFF_SIZE /\ k = q - f + 1
    BY <1>1, CapacityAssumption
  <2> HIDE DEF q
  <2>2. /\ Slot(q) \in Index
        /\ Slot(q) = LET x == li + (q - ls)
                     IN  IF x < DEFAULT_BUFF_SIZE THEN x ELSE x - DEFAULT_BUFF_SIZE
    BY <2>1, <1>2
  <2>3. \/ start <= Slot(q) /\ Slot(q) < start + n /\ k = Slot(q) - start + 1
        \/ /\ ~(start <= Slot(q)) /\ Slot(q) + DEFAULT_BUFF_SIZE < start + n
           /\ k = Slot(q) + DEFAULT_BUFF_SIZE - start + 1
    BY <2>1, <2>2, <1>1, <1>4, CapacityAssumption DEF Index
  <2>4. copy[Slot(q)] = data[k]
    BY <2>2, <2>3, <1>5
  <2>. QED  BY <2>4 DEF q
<1>7. ASSUME NEW q \in Nat, ls < q, q < ls + DEFAULT_BUFF_SIZE,
             q < f \/ q > f + n - 1
      PROVE  copy[Slot(q)] = r.buffer[Slot(q)]
  <2>1. /\ Slot(q) \in Index
        /\ Slot(q) = LET x == li + (q - ls)
                     IN  IF x < DEFAULT_BUFF_SIZE THEN x ELSE x - DEFAULT_BUFF_SIZE
    BY <1>2, <1>7
  <2> DEFINE x == li + (f - ls)
             y == li + (q - ls)
  <2>2. /\ x \in Int /\ y \in Int
        /\ x + n <= y + DEFAULT_BUFF_SIZE /\ (y < x \/ y >= x + n)
        /\ y < x + DEFAULT_BUFF_SIZE
    <3>1. li \in Nat
      BY <1>1, CapacityAssumption DEF Index
    <3>. QED  BY <1>1, <1>7, <3>1, CapacityAssumption
  <2>3. /\ start = IF x < DEFAULT_BUFF_SIZE THEN x ELSE x - DEFAULT_BUFF_SIZE
        /\ Slot(q) = IF y < DEFAULT_BUFF_SIZE THEN y ELSE y - DEFAULT_BUFF_SIZE
    BY <2>1, <1>4
  <2> HIDE DEF x, y
  <2>4. /\ ~(start <= Slot(q) /\ Slot(q) < start + n)
        /\ ~(Slot(q) + DEFAULT_BUFF_SIZE < start + n)
    BY <2>1, <2>2, <2>3, <1>1, <1>4, CapacityAssumption DEF Index
  <2>. QED  BY <2>1, <2>4, <1>5
<1>8. Placed(r, copy, f, data)
  BY <1>5, <1>6, <1>7 DEF Slot, ls, Placed, n
<1>. QED  BY <1>8 DEF copy

-----------------------------------------------------------------------------
(* The segments, in terms of sequence numbers.                             *)
Apart(g, h) ==
  \/ g.end_seqnum_inclusive < h.start_seqnum_inclusive
  \/ h.end_seqnum_inclusive < g.start_seqnum_inclusive

Covers(g, q) == g.start_seqnum_inclusive <= q /\ q <= g.end_seqnum_inclusive

Sound(r) ==
  /\ \A g \in r.segs :
       /\ g.start_seqnum_inclusive <= g.end_seqnum_inclusive
       /\ get_next_byte_expected_seqnum(r) <= g.start_seqnum_inclusive
       /\ g.end_seqnum_inclusive < r.last_byte_read_seqnum + DEFAULT_BUFF_SIZE
  /\ \A g, h \in r.segs : g # h => Apart(g, h)

Known(r, q) ==
  \/ q < get_next_byte_expected_seqnum(r)
  \/ \E g \in r.segs : Covers(g, q)

(* Every byte known lies within one capacity of the last byte read.        *)
LEMMA KnownWithin ==
  ASSUME NEW r \in RecvBufferType, Sound(r), NEW q \in Nat, Known(r, q)
  PROVE  q < r.last_byte_read_seqnum + DEFAULT_BUFF_SIZE
<1> DEFINE ls == r.last_byte_read_seqnum
           ne == get_next_byte_expected_seqnum(r)
<1>1. ls \in Nat /\ ne \in Nat /\ ne <= ls + DEFAULT_BUFF_SIZE
  BY NextExpectedBounds DEF RecvBufferType
<1>2. CASE q < ne
  <2> HIDE DEF ls, ne
  <2>1. q < ls + DEFAULT_BUFF_SIZE
    BY <1>1, <1>2, CapacityAssumption
  <2>. QED  BY <2>1 DEF ls
<1>3. ASSUME NEW g \in r.segs, Covers(g, q) PROVE q < ls + DEFAULT_BUFF_SIZE
  <2>1. /\ g.start_seqnum_inclusive \in Nat /\ g.end_seqnum_inclusive \in Nat
        /\ g.end_seqnum_inclusive < ls + DEFAULT_BUFF_SIZE
        /\ q <= g.end_seqnum_inclusive
    BY <1>3 DEF RecvBufferType, SegmentType, Sound, Covers
  <2> HIDE DEF ls
  <2>. QED  BY <2>1, <1>1, CapacityAssumption
<1>. QED  BY <1>2, <1>3 DEF Known

(* A merge takes in exactly the packet and the segments that overlap it,   *)
(* and the segments left over lie apart from the result.                   *)
MergeInput(segs, f, l, b) ==
  /\ segs \in SUBSET SegmentType
  /\ f \in Nat /\ l \in Nat /\ b \in Nat /\ f <= l /\ l <= b
  /\ \A g \in segs : /\ g.start_seqnum_inclusive <= g.end_seqnum_inclusive
                     /\ g.end_seqnum_inclusive <= b
  /\ \A g, h \in segs : g # h => Apart(g, h)

MergeResult(segs, f, l, b) ==
  LET m == segment_merge(segs, f, l)
      hit == Overlapping(segs, f, l)
  IN /\ m \in SegmentType
     /\ hit \subseteq segs
     /\ m.start_seqnum_inclusive <= f /\ l <= m.end_seqnum_inclusive
     /\ m.end_seqnum_inclusive <= b
     /\ \A q \in Nat : Covers(m, q) <=>
          (f <= q /\ q <= l) \/ \E g \in hit : Covers(g, q)
     /\ \A g \in segs \ hit : Apart(g, m)

LEMMA MergeExact ==
  ASSUME NEW segs, NEW f, NEW l, NEW b, MergeInput(segs, f, l, b)
  PROVE  MergeResult(segs, f, l, b)
<1> DEFINE m == segment_merge(segs, f, l)
           hit == Overlapping(segs, f, l)
<1>0. /\ segs \in SUBSET SegmentType
      /\ f \in Nat /\ l \in Nat /\ b \in Nat /\ f <= l /\ l <= b
      /\ \A g \in segs : /\ g.start_seqnum_inclusive <= g.end_seqnum_inclusive
                         /\ g.end_seqnum_inclusive <= b
      /\ \A g, h \in segs : g # h => Apart(g, h)
  BY DEF MergeInput
<1> DEFINE s == m.start_seqnum_inclusive
           t == m.end_seqnum_inclusive
<1> USE <1>0
<1>1. /\ m \in SegmentType
      /\ hit \subseteq segs
      /\ s <= f /\ l <= t /\ t <= b
      /\ \A g \in hit : s <= g.start_seqnum_inclusive /\ g.end_seqnum_inclusive <= t
      /\ s = f \/ \E g \in hit : s = g.start_seqnum_inclusive
      /\ t = l \/ \E g \in hit : t = g.end_seqnum_inclusive
  <2> DEFINE starts == {f} \cup {g.start_seqnum_inclusive : g \in hit}
             ends   == {l} \cup {g.end_seqnum_inclusive : g \in hit}
  <2>1. hit \subseteq segs
    BY DEF Overlapping
  <2>2. starts \subseteq Nat /\ starts # {} /\ ends \subseteq Nat /\ ends # {}
    BY <2>1 DEF SegmentType
  <2>3. \A y \in ends : y <= b
    BY <2>1
  <2>4. m = [start_seqnum_inclusive |-> Min(starts), end_seqnum_inclusive |-> Max(ends)]
    BY DEF segment_merge, Segment
  <2>5. /\ Min(starts) \in starts /\ \A y \in starts : Min(starts) <= y
        /\ Max(ends) \in ends /\ \A y \in ends : y <= Max(ends)
    <3> HIDE DEF starts, ends
    <3>. QED  BY <2>2, <2>3, MinIsLeast, MaxIsGreatest
  <2>6. s = Min(starts) /\ t = Max(ends) /\ m \in SegmentType
    <3>1. Min(starts) \in Nat /\ Max(ends) \in Nat
      BY <2>2, <2>5
    <3> HIDE DEF starts, ends
    <3>. QED  BY <3>1, <2>4 DEF SegmentType
  <2>7. s \in starts /\ (\A y \in starts : s <= y) /\ t \in ends /\ (\A y \in ends : y <= t)
    BY <2>5, <2>6
  <2> HIDE DEF s, t
  <2>8. t <= b
    BY <2>7, <2>3
  <2>. QED  BY <2>1, <2>6, <2>7, <2>8
<1> HIDE DEF m
<1>2. \A g \in segs : g \in hit <=>
        g.end_seqnum_inclusive >= f /\ g.start_seqnum_inclusive <= l
  BY DEF Overlapping
<1> HIDE DEF hit
<1>3. s \in Nat /\ t \in Nat
  BY <1>1 DEF SegmentType
<1>4. \A g \in segs : /\ g.start_seqnum_inclusive \in Nat
                      /\ g.end_seqnum_inclusive \in Nat
                      /\ g.start_seqnum_inclusive <= g.end_seqnum_inclusive
  BY DEF SegmentType
<1> HIDE DEF s, t
<1>5. ASSUME NEW q \in Nat, s <= q, q <= t, ~(f <= q /\ q <= l)
      PROVE  \E g \in hit : Covers(g, q)
  <2>1. CASE q < f
    <3>1. PICK g \in hit : s = g.start_seqnum_inclusive
      BY <1>1, <1>3, <1>5, <2>1
    <3>2. g.end_seqnum_inclusive >= f
      BY <1>1, <1>2
    <3>. QED  BY <3>1, <3>2, <2>1, <1>5, <1>1, <1>4 DEF Covers
  <2>2. CASE q > l
    <3>1. PICK g \in hit : t = g.end_seqnum_inclusive
      BY <1>1, <1>3, <1>5, <2>2
    <3>2. g.start_seqnum_inclusive <= l
      BY <1>1, <1>2
    <3>. QED  BY <3>1, <3>2, <2>2, <1>5, <1>1, <1>4 DEF Covers
  <2>. QED  BY <2>1, <2>2, <1>5
<1>6. ASSUME NEW q \in Nat, (f <= q /\ q <= l) \/ \E g \in hit : Covers(g, q)
      PROVE  s <= q /\ q <= t
  <2>1. CASE f <= q /\ q <= l
    BY <2>1, <1>1, <1>3
  <2>2. ASSUME NEW g \in hit, Covers(g, q) PROVE s <= q /\ q <= t
    <3>1. /\ g.start_seqnum_inclusive \in Nat /\ g.end_seqnum_inclusive \in Nat
          /\ s <= g.start_seqnum_inclusive /\ g.end_seqnum_inclusive <= t
      BY <1>1, <1>4
    <3>. QED  BY <2>2, <3>1, <1>3 DEF Covers
  <2>. QED  BY <2>1, <2>2, <1>6
<1>7. ASSUME NEW g \in segs, g \notin hit
      PROVE  g.end_seqnum_inclusive < s \/ t < g.start_seqnum_inclusive
  <2>1. \A h \in hit : Apart(g, h)
    BY <1>1, <1>7
  <2>2. CASE g.end_seqnum_inclusive < f
    <3>1. CASE s = f
      BY <3>1, <2>2
    <3>2. ASSUME NEW h \in hit, s = h.start_seqnum_inclusive
          PROVE  g.end_seqnum_inclusive < s
      <4>1. h.end_seqnum_inclusive >= f /\ h.end_seqnum_inclusive \in Nat
        BY <1>1, <1>2, <1>4
      <4>2. ~(h.end_seqnum_inclusive < g.start_seqnum_inclusive)
        BY <4>1, <2>2, <1>4
      <4>. QED  BY <4>2, <2>1, <3>2 DEF Apart
    <3>. QED  BY <3>1, <3>2, <1>1
  <2>3. CASE g.start_seqnum_inclusive > l
    <3>1. CASE t = l
      BY <3>1, <2>3
    <3>2. ASSUME NEW h \in hit, t = h.end_seqnum_inclusive
          PROVE  t < g.start_seqnum_inclusive
      <4>1. h.start_seqnum_inclusive <= l /\ h.start_seqnum_inclusive \in Nat
        BY <1>1, <1>2, <1>4
      <4>2. ~(g.end_seqnum_inclusive < h.start_seqnum_inclusive)
        BY <4>1, <2>3, <1>4
      <4>. QED  BY <4>2, <2>1, <3>2 DEF Apart
    <3>. QED  BY <3>1, <3>2, <1>1
  <2>4. g.end_seqnum_inclusive < f \/ g.start_seqnum_inclusive > l
    BY <1>2, <1>4, <1>7
  <2>. QED  BY <2>2, <2>3, <2>4
<1>8. \A q \in Nat : s <= q /\ q <= t <=>
        (f <= q /\ q <= l) \/ \E g \in hit : Covers(g, q)
  BY <1>5, <1>6
<1>. QED  BY <1>1, <1>7, <1>8 DEF s, t, Covers, Apart, MergeResult, m, hit

-----------------------------------------------------------------------------
(* What recv_buffer_receive does with a packet that is let in: exactly its *)
(* bytes become known, the segments stay sound, and the acknowledgement    *)
(* number does not go back.                                                *)
Accepts(r, f, data) ==
  /\ r \in RecvBufferType /\ Sound(r)
  /\ f \in Nat /\ data \in Seq(Byte) /\ Len(data) > 0
  /\ recv_buffer_can_receive(r, f, Len(data)) = 0

Stored(r, rn, f, data) ==
  /\ r.last_byte_read_seqnum < f
  /\ f + Len(data) <= r.last_byte_read_seqnum + DEFAULT_BUFF_SIZE
  /\ rn \in RecvBufferType
  /\ rn.last_byte_read_seqnum = r.last_byte_read_seqnum
  /\ rn.last_byte_read_index = r.last_byte_read_index
  /\ Placed(r, rn.buffer, f, data)
  /\ Sound(rn)
  /\ get_next_byte_expected_seqnum(rn) >= get_next_byte_expected_seqnum(r)
  /\ \A q \in Nat : Known(rn, q) <=>
       Known(r, q) \/ (f <= q /\ q <= f + Len(data) - 1)

LEMMA ReceiveExact ==
  ASSUME NEW r, NEW f, NEW data, Accepts(r, f, data)
  PROVE  Stored(r, recv_buffer_receive(r, f, data), f, data)
<1>0. /\ r \in RecvBufferType /\ Sound(r)
      /\ f \in Nat /\ data \in Seq(Byte) /\ Len(data) > 0
      /\ recv_buffer_can_receive(r, f, Len(data)) = 0
  BY DEF Accepts
<1> USE <1>0
<1> DEFINE rn == recv_buffer_receive(r, f, data)
           n == Len(data)
           l == f + n - 1
           ls == r.last_byte_read_seqnum
           b == ls + DEFAULT_BUFF_SIZE - 1
           ne == get_next_byte_expected_seqnum(r)
           hit == Overlapping(r.segs, f, l)
           m == segment_merge(r.segs, f, l)
           rest == r.segs \ hit
           in_order == m.start_seqnum_inclusive <= ne
           copy == CopyIn(r.buffer, seqnum_to_index_recv(r, f), data)
<1>1. /\ ls \in Nat /\ b \in Nat /\ l \in Nat /\ f <= l /\ n \in Nat \ {0}
      /\ r.segs \in SUBSET SegmentType /\ r.buffer \in [Index -> Byte]
      /\ l = f + n - 1 /\ b = ls + DEFAULT_BUFF_SIZE - 1
  BY CapacityAssumption DEF RecvBufferType
<1>2. ne \in Nat /\ ls < ne
  BY NextExpectedBounds
<1>3. ls < f /\ ne <= l /\ l <= b
  <2>1. ~(f <= ls) /\ ~(l < ne) /\ ~(l - ls >= DEFAULT_BUFF_SIZE)
    BY DEF recv_buffer_can_receive
  <2> HIDE DEF l, ls, b, ne, n
  <2>. QED  BY <2>1, <1>1, <1>2, CapacityAssumption
<1>4. rn = [r EXCEPT
              !.buffer = copy,
              !.next_byte_expected_index =
                 IF in_order THEN seqnum_to_index_recv(r, m.end_seqnum_inclusive + 1)
                             ELSE r.next_byte_expected_index,
              !.segs = IF in_order THEN rest ELSE rest \cup {m}]
  BY DEF recv_buffer_receive
<1>5. /\ \A g \in r.segs :
           /\ g.start_seqnum_inclusive \in Nat /\ g.end_seqnum_inclusive \in Nat
           /\ g.start_seqnum_inclusive <= g.end_seqnum_inclusive
           /\ ne <= g.start_seqnum_inclusive
           /\ g.end_seqnum_inclusive <= b
      /\ \A g, h \in r.segs : g # h => Apart(g, h)
  BY CapacityAssumption DEF RecvBufferType, SegmentType, Sound
<1>6. /\ m \in SegmentType
      /\ hit \subseteq r.segs
      /\ m.start_seqnum_inclusive <= f /\ l <= m.end_seqnum_inclusive
      /\ m.end_seqnum_inclusive <= b
      /\ \A q \in Nat : Covers(m, q) <=>
           (f <= q /\ q <= l) \/ \E g \in hit : Covers(g, q)
      /\ \A g \in rest : Apart(g, m)
  <2>1. MergeInput(r.segs, f, l, b)
    BY <1>1, <1>3, <1>5 DEF MergeInput
  <2>2. MergeResult(r.segs, f, l, b)
    BY <2>1, MergeExact
  <2>. QED  BY <2>2 DEF MergeResult
<1>7. m.start_seqnum_inclusive \in Nat /\ m.end_seqnum_inclusive \in Nat
  BY <1>6 DEF SegmentType
<1>8. copy \in [Index -> Byte]
  <2>1. ls <= f /\ f <= ls + DEFAULT_BUFF_SIZE
    <3> HIDE DEF l, ls, b, n
    <3>. QED  BY <1>1, <1>3, CapacityAssumption
  <2>2. seqnum_to_index_recv(r, f) \in Index
    BY <2>1, SlotOfSeqnum
  <2>. QED  BY <2>2, <1>1, CopyInData
<1>9. /\ m.end_seqnum_inclusive + 1 \in Nat
      /\ ls < m.end_seqnum_inclusive + 1
      /\ m.end_seqnum_inclusive + 1 <= ls + DEFAULT_BUFF_SIZE
  <2> HIDE DEF l, b, ls, m, n
  <2>. QED  BY <1>1, <1>3, <1>6, <1>7, CapacityAssumption
<1>10. seqnum_to_index_recv(r, m.end_seqnum_inclusive + 1) \in Index
  <2> DEFINE q == m.end_seqnum_inclusive + 1
  <2>1. q \in Nat /\ ls <= q /\ q <= ls + DEFAULT_BUFF_SIZE
    BY <1>1, <1>9
  <2> HIDE DEF q, m
  <2>. QED  BY <2>1, SlotOfSeqnum DEF q
<1> HIDE DEF m, hit, copy, n, l, b, rn
<1>11. /\ rn \in RecvBufferType
       /\ rn.last_byte_read_seqnum = ls
       /\ rn.last_byte_read_index = r.last_byte_read_index
       /\ rn.buffer = copy
       /\ rn.segs = IF in_order THEN rest ELSE rest \cup {m}
       /\ rn.next_byte_expected_index =
            IF in_order THEN seqnum_to_index_recv(r, m.end_seqnum_inclusive + 1)
                        ELSE r.next_byte_expected_index
  <2>1. rest \cup {m} \in SUBSET SegmentType /\ rest \in SUBSET SegmentType
    BY <1>1, <1>6
  <2>. QED  BY <1>4, <1>8, <1>10, <2>1 DEF RecvBufferType
<1>12. get_next_byte_expected_seqnum(rn) =
         IF in_order THEN m.end_seqnum_inclusive + 1 ELSE ne
  <2>1. CASE in_order
    <3> DEFINE q == m.end_seqnum_inclusive + 1
    <3>1. q \in Nat /\ ls < q /\ q <= ls + DEFAULT_BUFF_SIZE
      BY <1>9
    <3>2. rn.next_byte_expected_index = seqnum_to_index_recv(r, q)
      BY <2>1, <1>11
    <3>3. get_next_byte_expected_seqnum(rn) = q
      <4> HIDE DEF q, in_order
      <4>. QED  BY <3>1, <3>2, <1>11, NextExpectedAt
    <3>. QED  BY <2>1, <3>3
  <2>2. CASE ~in_order
    BY <2>2, <1>11 DEF get_next_byte_expected_seqnum
  <2>. QED  BY <2>1, <2>2
<1> DEFINE nn == get_next_byte_expected_seqnum(rn)
<1>13. nn \in Nat /\ nn >= ne
  <2> HIDE DEF ne, ls
  <2>. QED  BY <1>1, <1>2, <1>3, <1>6, <1>7, <1>12
<1>14. ASSUME NEW g \in rn.segs
       PROVE  /\ g.start_seqnum_inclusive <= g.end_seqnum_inclusive
              /\ nn <= g.start_seqnum_inclusive
              /\ g.end_seqnum_inclusive < ls + DEFAULT_BUFF_SIZE
  <2> HIDE DEF ne, ls, nn
  <2>1. CASE g \in rest /\ in_order
    <3>1. g \in r.segs /\ Apart(g, m)
      BY <2>1, <1>6
    <3>2. ~(g.end_seqnum_inclusive < m.start_seqnum_inclusive)
      BY <2>1, <3>1, <1>2, <1>5, <1>7
    <3>3. nn <= g.start_seqnum_inclusive
      BY <3>1, <3>2, <2>1, <1>12, <1>5, <1>7 DEF Apart, nn
    <3>. QED  BY <3>1, <3>3, <1>1, <1>5, CapacityAssumption
  <2>2. CASE g \in rest /\ ~in_order
    <3>1. g \in r.segs /\ nn = ne
      BY <2>2, <1>12 DEF nn
    <3>. QED  BY <3>1, <1>1, <1>5, CapacityAssumption
  <2>3. CASE g = m /\ ~in_order
    <3>1. nn = ne /\ ne < m.start_seqnum_inclusive
      BY <2>3, <1>12, <1>2, <1>7 DEF nn
    <3>. QED  BY <3>1, <2>3, <1>1, <1>2, <1>3, <1>6, <1>7, CapacityAssumption
  <2>. QED  BY <1>11, <2>1, <2>2, <2>3
<1>15. ASSUME NEW g \in rn.segs, NEW h \in rn.segs, g # h
       PROVE  Apart(g, h)
  <2>1. CASE g \in rest /\ h \in rest
    BY <2>1, <1>5, <1>15
  <2>2. CASE g = m /\ h \in rest
    BY <2>2, <1>6 DEF Apart
  <2>3. CASE g \in rest /\ h = m
    BY <2>3, <1>6
  <2>. QED  BY <2>1, <2>2, <2>3, <1>11, <1>15
<1>16. Sound(rn)
  BY <1>11, <1>14, <1>15 DEF Sound
<1>17. ASSUME NEW q \in Nat
       PROVE  Known(rn, q) <=> Known(r, q) \/ (f <= q /\ q <= l)
  <2> HIDE DEF ne, ls, nn
  <2>1. Known(r, q) <=> q < ne \/ (\E g \in rest : Covers(g, q))
                               \/ (\E g \in hit : Covers(g, q))
    BY <1>6 DEF Known, ne
  <2>2. Covers(m, q) <=> (f <= q /\ q <= l) \/ \E g \in hit : Covers(g, q)
    BY <1>6
  <2>3. Known(rn, q) <=> q < nn \/ \E g \in rn.segs : Covers(g, q)
    BY DEF Known, nn
  <2>4. CASE in_order
    <3>1. nn = m.end_seqnum_inclusive + 1 /\ rn.segs = rest
      BY <2>4, <1>11, <1>12 DEF nn
    <3>2. q < nn <=> q < ne \/ Covers(m, q)
      BY <3>1, <2>4, <1>1, <1>2, <1>3, <1>6, <1>7 DEF Covers
    <3>. QED  BY <3>1, <3>2, <2>1, <2>2, <2>3
  <2>5. CASE ~in_order
    <3>1. nn = ne /\ rn.segs = rest \cup {m}
      BY <2>5, <1>11, <1>12 DEF nn
    <3>. QED  BY <3>1, <2>1, <2>2, <2>3
  <2>. QED  BY <2>4, <2>5
<1>18. f + n <= ls + DEFAULT_BUFF_SIZE
  <2> HIDE DEF ls
  <2>. QED  BY <1>1, <1>3, CapacityAssumption
<1>19. Placed(r, copy, f, data)
  BY <1>3, <1>18, CopyInPlace DEF copy, n
<1>20. Stored(r, rn, f, data)
  BY <1>3, <1>11, <1>13, <1>16, <1>17, <1>18, <1>19 DEF n, l, Stored
<1>. QED  BY <1>20 DEF rn

-----------------------------------------------------------------------------
(* Reading leaves the byte expected next, and the slot of every byte that  *)
(* is still to be read, where they were.                                   *)
LEMMA ReadExact ==
  ASSUME NEW r \in RecvBufferType, NEW len \in Nat \ {0},
         len <= recv_buffer_max_read(r),
         NEW rn, rn = recv_buffer_read(r, len)
  PROVE  /\ rn \in RecvBufferType
         /\ rn.last_byte_read_seqnum = r.last_byte_read_seqnum + len
         /\ rn.buffer = r.buffer
         /\ rn.segs = r.segs
         /\ get_next_byte_expected_seqnum(rn) = get_next_byte_expected_seqnum(r)
         /\ \A q \in Nat :
              /\ r.last_byte_read_seqnum + len <= q
              /\ q <= r.last_byte_read_seqnum + DEFAULT_BUFF_SIZE
              => seqnum_to_index_recv(rn, q) = seqnum_to_index_recv(r, q)
<1> DEFINE li == r.last_byte_read_index
           ls == r.last_byte_read_seqnum
           ni == r.next_byte_expected_index
           ne == get_next_byte_expected_seqnum(r)
           lj == rn.last_byte_read_index
<1>1. li \in Index /\ ls \in Nat /\ ni \in Index
  BY DEF RecvBufferType
<1>2. /\ ne \in Nat
      /\ ne = ls + IF ni > li THEN ni - li ELSE (DEFAULT_BUFF_SIZE - li) + ni
  BY <1>1, CapacityAssumption DEF get_next_byte_expected_seqnum, Index
<1>3. len <= ne - ls - 1
  BY DEF recv_buffer_max_read
<1> DEFINE x == li + len
           sum == ls + len
<1>4. /\ x % DEFAULT_BUFF_SIZE \in Index
      /\ x % DEFAULT_BUFF_SIZE = IF x < DEFAULT_BUFF_SIZE THEN x ELSE x - DEFAULT_BUFF_SIZE
  <2>1. x \in 0 .. 2 * DEFAULT_BUFF_SIZE - 1
    <3> HIDE DEF li, ls, ni, ne
    <3>. QED  BY <1>1, <1>2, <1>3, CapacityAssumption DEF Index
  <2> HIDE DEF x
  <2>. QED  BY <2>1, WrapOnce
<1>5. /\ rn \in RecvBufferType
      /\ rn.last_byte_read_seqnum = sum
      /\ rn.next_byte_expected_index = ni
      /\ rn.buffer = r.buffer /\ rn.segs = r.segs
      /\ lj = x % DEFAULT_BUFF_SIZE
  <2> DEFINE mod == x % DEFAULT_BUFF_SIZE
  <2>1. sum \in Nat /\ mod \in Index
    BY <1>1, <1>4
  <2>2. rn = [r EXCEPT !.last_byte_read_seqnum = sum, !.last_byte_read_index = mod]
    BY DEF recv_buffer_read
  <2> HIDE DEF sum, mod
  <2>3. /\ rn \in RecvBufferType
        /\ rn.last_byte_read_seqnum = sum
        /\ rn.next_byte_expected_index = ni
        /\ rn.buffer = r.buffer /\ rn.segs = r.segs
        /\ lj = mod
    BY <2>1, <2>2 DEF RecvBufferType
  <2>. QED  BY <2>3 DEF mod
<1>6. get_next_byte_expected_seqnum(rn)
        = (ls + len) + IF ni > lj THEN ni - lj ELSE (DEFAULT_BUFF_SIZE - lj) + ni
  BY <1>5, <1>1, CapacityAssumption DEF get_next_byte_expected_seqnum, Index, RecvBufferType
<1>7. /\ lj \in Index
      /\ lj = IF x < DEFAULT_BUFF_SIZE THEN x ELSE x - DEFAULT_BUFF_SIZE
  <2> HIDE DEF x, lj
  <2>. QED  BY <1>4, <1>5
<1>8. get_next_byte_expected_seqnum(rn) = ne
  <2> HIDE DEF li, ls, ni, ne, lj
  <2>. QED  BY <1>1, <1>2, <1>3, <1>6, <1>7, CapacityAssumption DEF Index
<1>9. ASSUME NEW q \in Nat, ls + len <= q, q <= ls + DEFAULT_BUFF_SIZE
      PROVE  seqnum_to_index_recv(rn, q) = seqnum_to_index_recv(r, q)
  <2>1. /\ ls <= q /\ q <= ls + DEFAULT_BUFF_SIZE
        /\ ls + len <= q /\ q <= ls + len + DEFAULT_BUFF_SIZE
    <3> HIDE DEF ls
    <3>. QED  BY <1>1, <1>9, CapacityAssumption
  <2> DEFINE old == seqnum_to_index_recv(r, q)
             new == seqnum_to_index_recv(rn, q)
  <2>2. /\ old = LET z == li + (q - ls)
                 IN  IF z < DEFAULT_BUFF_SIZE THEN z ELSE z - DEFAULT_BUFF_SIZE
        /\ old \in Index
    BY <2>1, SlotOfSeqnum
  <2>3. /\ new = LET z == lj + (q - (ls + len))
                 IN  IF z < DEFAULT_BUFF_SIZE THEN z ELSE z - DEFAULT_BUFF_SIZE
        /\ new \in Index
    BY <2>1, <1>5, SlotOfSeqnum
  <2> HIDE DEF li, ls, lj, old, new
  <2>4. old = new
    BY <2>1, <2>2, <2>3, <1>1, <1>7, CapacityAssumption DEF Index
  <2>. QED  BY <2>4 DEF old, new
<1>. QED  BY <1>5, <1>8, <1>9

(* What recv_buffer_read copies out: the slots of the next len bytes.      *)
LEMMA ReadCopies ==
  ASSUME NEW r \in RecvBufferType, NEW len \in Nat \ {0},
         len <= recv_buffer_max_read(r),
         NEW c, c = safe_memcpy_from_recvbuf(r, len)
  PROVE  /\ c \in Seq(Byte)
         /\ Len(c) = len
         /\ \A k \in 1 .. len :
              c[k] = r.buffer[seqnum_to_index_recv(r, r.last_byte_read_seqnum + k)]
<1> DEFINE li == r.last_byte_read_index
           ls == r.last_byte_read_seqnum
           Slot(k) == seqnum_to_index_recv(r, ls + k)
           tail_len == DEFAULT_BUFF_SIZE - (li + 1)
           buf == r.buffer
<1>1. li \in Index /\ ls \in Nat /\ buf \in [Index -> Byte]
  BY DEF RecvBufferType
<1>2. len < DEFAULT_BUFF_SIZE
  <2>1. recv_buffer_max_read(r) <= DEFAULT_BUFF_SIZE - 1 /\ recv_buffer_max_read(r) \in Int
    BY <1>1, NextExpectedBounds, CapacityAssumption DEF recv_buffer_max_read
  <2>. QED  BY <2>1, CapacityAssumption
<1>3. ASSUME NEW k \in 1 .. len
      PROVE  /\ Slot(k) = IF li + k < DEFAULT_BUFF_SIZE THEN li + k
                                                        ELSE li + k - DEFAULT_BUFF_SIZE
             /\ Slot(k) \in Index
  <2> DEFINE q == ls + k
  <2>1. q \in Nat /\ ls <= q /\ q <= ls + DEFAULT_BUFF_SIZE /\ q - ls = k
    BY <1>1, <1>2, CapacityAssumption
  <2> HIDE DEF q
  <2>2. /\ seqnum_to_index_recv(r, q) = LET x == li + (q - ls)
           IN  IF x < DEFAULT_BUFF_SIZE THEN x ELSE x - DEFAULT_BUFF_SIZE
        /\ seqnum_to_index_recv(r, q) \in Index
    BY <2>1, SlotOfSeqnum
  <2> HIDE DEF li, ls
  <2>3. /\ seqnum_to_index_recv(r, q) = IF li + k < DEFAULT_BUFF_SIZE THEN li + k
                                              ELSE li + k - DEFAULT_BUFF_SIZE
        /\ seqnum_to_index_recv(r, q) \in Index
    BY <2>1, <2>2, <1>1, CapacityAssumption DEF Index
  <2>. QED  BY <2>3, Zenon DEF q
<1>4. c = IF Slot(len) > li
            THEN Linear(buf, li + 1, len)
            ELSE Linear(buf, li + 1, tail_len) \o Linear(buf, 0, len - tail_len)
  BY DEF safe_memcpy_from_recvbuf
<1>5. Slot(len) > li <=> li + len < DEFAULT_BUFF_SIZE
  <2>1. len \in 1 .. len
    OBVIOUS
  <2> HIDE DEF li, ls, Slot, buf
  <2>. QED  BY <1>1, <1>2, <1>3, <2>1, CapacityAssumption DEF Index
<1> HIDE DEF li, ls, Slot, buf
<1>6. CASE li + len < DEFAULT_BUFF_SIZE
  <2>1. c = Linear(buf, li + 1, len)
    BY <1>4, <1>5, <1>6
  <2>2. c \in Seq(Byte) /\ DOMAIN c = 1 .. len
    <3>1. li + 1 \in Nat
      BY <1>1 DEF Index
    <3>. QED  BY <3>1, <2>1, <1>1, LinearType
  <2>3. ASSUME NEW k \in 1 .. len PROVE c[k] = buf[Slot(k)]
    <3>1. c[k] = IF li + 1 + k - 1 \in Index THEN buf[li + 1 + k - 1] ELSE Junk
      BY <2>1 DEF Linear
    <3>2. li + 1 + k - 1 = Slot(k) /\ Slot(k) \in Index
      BY <1>1, <1>3, <1>6, CapacityAssumption DEF Index
    <3>. QED  BY <3>1, <3>2
  <2>. QED  BY <2>2, <2>3 DEF Slot, ls, buf
<1>7. CASE ~(li + len < DEFAULT_BUFF_SIZE)
  <2> DEFINE a == Linear(buf, li + 1, tail_len)
             d == Linear(buf, 0, len - tail_len)
  <2>1. c = a \o d
    BY <1>4, <1>5, <1>7
  <2>2. tail_len \in Nat /\ len - tail_len \in Nat /\ tail_len <= len
    BY <1>1, <1>2, <1>7, CapacityAssumption DEF Index
  <2>3. /\ a \in Seq(Byte) /\ DOMAIN a = 1 .. tail_len
        /\ d \in Seq(Byte) /\ DOMAIN d = 1 .. len - tail_len
    <3> HIDE DEF tail_len
    <3>1. li + 1 \in Nat
      BY <1>1 DEF Index
    <3>. QED  BY <3>1, <2>2, <1>1, LinearType
  <2>4. Len(a) = tail_len /\ Len(d) = len - tail_len
    <3> HIDE DEF tail_len, a, d
    <3>. QED  BY <2>2, <2>3
  <2>5. ASSUME NEW k \in 1 .. tail_len PROVE a[k] = buf[Slot(k)]
    <3>1. a[k] = IF li + 1 + k - 1 \in Index THEN buf[li + 1 + k - 1] ELSE Junk
      BY DEF Linear
    <3>2. li + 1 + k - 1 = Slot(k) /\ Slot(k) \in Index
      BY <1>1, <1>3, <2>2, CapacityAssumption DEF Index
    <3>. QED  BY <3>1, <3>2
  <2>6. ASSUME NEW k \in 1 .. len, k > tail_len PROVE d[k - tail_len] = buf[Slot(k)]
    <3> DEFINE j == k - tail_len
    <3>1. j \in 1 .. len - tail_len
      BY <2>2, <2>6
    <3>2. d[j] = IF 0 + j - 1 \in Index THEN buf[0 + j - 1] ELSE Junk
      BY <3>1 DEF Linear
    <3>3. 0 + j - 1 = Slot(k) /\ Slot(k) \in Index
      BY <1>1, <1>3, <2>2, <2>6, CapacityAssumption DEF Index
    <3> HIDE DEF d
    <3>. QED  BY <3>2, <3>3
  <2> HIDE DEF a, d, tail_len
  <2>7. c \in Seq(Byte) /\ Len(c) = len
    BY <2>1, <2>2, <2>3, <2>4
  <2>8. ASSUME NEW k \in 1 .. len PROVE c[k] = buf[Slot(k)]
    <3>1. c[k] = IF k <= tail_len THEN a[k] ELSE d[k - tail_len]
      <4>1. \A i \in 1 .. Len(a) + Len(d) :
              (a \o d)[i] = IF i <= Len(a) THEN a[i] ELSE d[i - Len(a)]
        BY <2>3, ConcatProperties
      <4>2. k \in 1 .. Len(a) + Len(d)
        BY <2>2, <2>4
      <4>. QED  BY <4>1, <4>2, <2>1, <2>4
    <3>2. CASE k <= tail_len
      BY <3>1, <3>2, <2>2, <2>5
    <3>3. CASE ~(k <= tail_len)
      BY <3>1, <3>3, <2>2, <2>6
    <3>. QED  BY <3>2, <3>3
  <2>. QED  BY <2>7, <2>8 DEF Slot, ls, buf
<1>. QED  BY <1>6, <1>7

-----------------------------------------------------------------------------
(* The send buffer.  isn is the initial sequence number.                   *)

acked(s)   == s.last_byte_acked_seqnum
sent(s)    == get_last_byte_sent_seqnum(s)
written(s) == get_next_byte_written_seqnum(s)

(* The bytes written and not acknowledged are in their slots.              *)
SendKept(s, isn) ==
  \A q \in Nat : acked(s) < q /\ q < written(s) =>
    s.buffer[seqnum_to_index_send(s, q)] = q - isn

(* The stream has not come back to slot 0: then the slot of a byte is its  *)
(* position in the stream.                                                 *)
FirstLap(s, isn) == written(s) <= isn + DEFAULT_BUFF_SIZE

SendLap(s, isn) == FirstLap(s, isn) => s.last_byte_acked_index = acked(s) - isn

SendGood(s, isn) ==
  /\ s \in SendBufferType /\ isn \in Nat
  /\ isn <= acked(s) /\ sent(s) < written(s)
  /\ SendKept(s, isn)
  /\ SendLap(s, isn)

-----------------------------------------------------------------------------
(* The numbers computed from the indices, whatever the indices are.        *)
LEMMA SendBounds ==
  ASSUME NEW s \in SendBufferType
  PROVE  /\ acked(s) \in Nat /\ sent(s) \in Nat /\ written(s) \in Nat
         /\ acked(s) <= sent(s) /\ sent(s) < acked(s) + DEFAULT_BUFF_SIZE
         /\ acked(s) < written(s) /\ written(s) <= acked(s) + DEFAULT_BUFF_SIZE
<1> DEFINE ai == s.last_byte_acked_index
           si == s.last_byte_sent_index
           ni == s.next_byte_written_index
           a == s.last_byte_acked_seqnum
<1>1. ai \in Index /\ si \in Index /\ ni \in Index /\ a \in Nat
  BY DEF SendBufferType
<1>2. /\ acked(s) = a
      /\ sent(s) = a + (IF si >= ai THEN si - ai ELSE (DEFAULT_BUFF_SIZE - ai) + si)
      /\ written(s) = a + (IF ni > ai THEN ni - ai ELSE (DEFAULT_BUFF_SIZE - ai) + ni)
  BY <1>1, CapacityAssumption DEF Index, acked, sent, written,
       get_last_byte_sent_seqnum, get_next_byte_written_seqnum
<1> HIDE DEF ai, si, ni, a
<1>. QED  BY <1>1, <1>2, CapacityAssumption DEF Index

(* The slot of a byte within one capacity of the last one acknowledged is  *)
(* found by at most one subtraction.                                       *)
LEMMA SendSlot ==
  ASSUME NEW s \in SendBufferType, NEW q \in Nat,
         acked(s) <= q, q < acked(s) + DEFAULT_BUFF_SIZE
  PROVE  /\ seqnum_to_index_send(s, q) =
              LET z == s.last_byte_acked_index + (q - acked(s))
              IN  IF z < DEFAULT_BUFF_SIZE THEN z ELSE z - DEFAULT_BUFF_SIZE
         /\ seqnum_to_index_send(s, q) \in Index
<1> DEFINE z == s.last_byte_acked_index + (q - acked(s))
<1>1. z \in 0 .. 2 * DEFAULT_BUFF_SIZE - 1
  BY CapacityAssumption DEF SendBufferType, Index, acked
<1>2. seqnum_to_index_send(s, q) = z % DEFAULT_BUFF_SIZE
  BY DEF seqnum_to_index_send, acked
<1> HIDE DEF z
<1>3. /\ seqnum_to_index_send(s, q) =
           IF z < DEFAULT_BUFF_SIZE THEN z ELSE z - DEFAULT_BUFF_SIZE
      /\ seqnum_to_index_send(s, q) \in Index
  BY <1>1, <1>2, WrapOnce
<1>. QED  BY <1>3 DEF z

(* The indices are the slots of the numbers computed from them.            *)
LEMMA SendIndices ==
  ASSUME NEW s \in SendBufferType
  PROVE  /\ seqnum_to_index_send(s, sent(s)) = s.last_byte_sent_index
         /\ s.next_byte_written_index =
              LET z == s.last_byte_acked_index + (written(s) - acked(s))
              IN  IF z < DEFAULT_BUFF_SIZE THEN z ELSE z - DEFAULT_BUFF_SIZE
         /\ s.last_byte_sent_index =
              LET z == s.last_byte_acked_index + (sent(s) - acked(s))
              IN  IF z < DEFAULT_BUFF_SIZE THEN z ELSE z - DEFAULT_BUFF_SIZE
<1> DEFINE ai == s.last_byte_acked_index
           si == s.last_byte_sent_index
           ni == s.next_byte_written_index
           a == acked(s)
           u == sent(s)
           w == written(s)
<1>1. ai \in Index /\ si \in Index /\ ni \in Index /\ a \in Nat
  BY DEF SendBufferType, acked
<1>2. /\ u = a + (IF si >= ai THEN si - ai ELSE (DEFAULT_BUFF_SIZE - ai) + si)
      /\ w = a + (IF ni > ai THEN ni - ai ELSE (DEFAULT_BUFF_SIZE - ai) + ni)
  BY <1>1, CapacityAssumption DEF Index, acked, sent, written,
       get_last_byte_sent_seqnum, get_next_byte_written_seqnum
<1>3. /\ u \in Nat /\ a <= u /\ u < a + DEFAULT_BUFF_SIZE
  BY SendBounds
<1>4. seqnum_to_index_send(s, u) =
        LET z == ai + (u - a) IN IF z < DEFAULT_BUFF_SIZE THEN z ELSE z - DEFAULT_BUFF_SIZE
  BY <1>3, SendSlot
<1> HIDE DEF ai, si, ni, a, u, w
<1>5. /\ si = LET z == ai + (u - a) IN IF z < DEFAULT_BUFF_SIZE THEN z ELSE z - DEFAULT_BUFF_SIZE
      /\ ni = LET z == ai + (w - a) IN IF z < DEFAULT_BUFF_SIZE THEN z ELSE z - DEFAULT_BUFF_SIZE
  BY <1>1, <1>2, CapacityAssumption DEF Index
<1>. QED  BY <1>4, <1>5 DEF ai, si, ni, a, u, w

(* Conversely, an index that is the slot of a number yields that number.   *)
LEMMA SentAt ==
  ASSUME NEW s \in SendBufferType, NEW q \in Nat,
         acked(s) <= q, q < acked(s) + DEFAULT_BUFF_SIZE,
         s.last_byte_sent_index =
           LET z == s.last_byte_acked_index + (q - acked(s))
           IN  IF z < DEFAULT_BUFF_SIZE THEN z ELSE z - DEFAULT_BUFF_SIZE
  PROVE  sent(s) = q
<1> DEFINE ai == s.last_byte_acked_index
           si == s.last_byte_sent_index
           a == acked(s)
<1>1. ai \in Index /\ si \in Index /\ a \in Nat
  BY DEF SendBufferType, acked
<1>2. sent(s) = a + (IF si >= ai THEN si - ai ELSE (DEFAULT_BUFF_SIZE - ai) + si)
  BY <1>1, CapacityAssumption DEF Index, acked, sent, get_last_byte_sent_seqnum
<1>3. si = LET z == ai + (q - a) IN IF z < DEFAULT_BUFF_SIZE THEN z ELSE z - DEFAULT_BUFF_SIZE
  OBVIOUS
<1> HIDE DEF ai, si, a
<1>4. a <= q /\ q < a + DEFAULT_BUFF_SIZE
  BY DEF a
<1>. QED  BY <1>1, <1>2, <1>3, <1>4, CapacityAssumption DEF Index

LEMMA WrittenAt ==
  ASSUME NEW s \in SendBufferType, NEW q \in Nat,
         acked(s) < q, q <= acked(s) + DEFAULT_BUFF_SIZE,
         s.next_byte_written_index =
           LET z == s.last_byte_acked_index + (q - acked(s))
           IN  IF z < DEFAULT_BUFF_SIZE THEN z ELSE z - DEFAULT_BUFF_SIZE
  PROVE  written(s) = q
<1> DEFINE ai == s.last_byte_acked_index
           ni == s.next_byte_written_index
           a == acked(s)
<1>1. ai \in Index /\ ni \in Index /\ a \in Nat
  BY DEF SendBufferType, acked
<1>2. written(s) = a + (IF ni > ai THEN ni - ai ELSE (DEFAULT_BUFF_SIZE - ai) + ni)
  BY <1>1, CapacityAssumption DEF Index, acked, written, get_next_byte_written_seqnum
<1>3. ni = LET z == ai + (q - a) IN IF z < DEFAULT_BUFF_SIZE THEN z ELSE z - DEFAULT_BUFF_SIZE
  OBVIOUS
<1> HIDE DEF ai, ni, a
<1>4. a < q /\ q <= a + DEFAULT_BUFF_SIZE
  BY DEF a
<1>. QED  BY <1>1, <1>2, <1>3, <1>4, CapacityAssumption DEF Index

-----------------------------------------------------------------------------
(* cmu_socket: the buffer of a stream of which nothing was written.        *)
LEMMA InitializeExact ==
  ASSUME NEW isn \in Nat
  PROVE  /\ SendGood(send_buffer_initialize(isn), isn)
         /\ acked(send_buffer_initialize(isn)) = isn
         /\ sent(send_buffer_initialize(isn)) = isn
         /\ written(send_buffer_initialize(isn)) = isn + 1
<1> USE CapacityAssumption
<1> DEFINE s == send_buffer_initialize(isn)
<1>1. s \in SendBufferType
  BY DEF SendBufferType, send_buffer_initialize, Index, Byte
<1>2. /\ acked(s) = isn /\ sent(s) = isn /\ written(s) = isn + 1
      /\ s.last_byte_acked_index = 0
  BY DEF send_buffer_initialize, acked, sent, written,
         get_last_byte_sent_seqnum, get_next_byte_written_seqnum
<1> HIDE DEF s
<1>3. SendGood(s, isn)
  BY <1>1, <1>2 DEF SendGood, SendKept, SendLap
<1>. QED  BY <1>2, <1>3 DEF s

-----------------------------------------------------------------------------
(* cmu_write: the stream grows by what is written, nothing else changes.   *)
Written(s, sn, isn, n) ==
  /\ SendGood(sn, isn)
  /\ acked(sn) = acked(s) /\ sent(sn) = sent(s) /\ written(sn) = written(s) + n

LEMMA WriteExact ==
  ASSUME NEW s, NEW isn, SendGood(s, isn),
         NEW n \in Nat \ {0}, n <= send_buffer_max_write(s),
         NEW first, first = written(s) - isn
  PROVE  Written(s, send_buffer_write(s, StreamBytes(first, n)), isn, n)
<1> DEFINE sn == send_buffer_write(s, StreamBytes(first, n))
           ai == s.last_byte_acked_index
           ni == s.next_byte_written_index
           a == acked(s)
           w == written(s)
           z == ni + n
           mod == z % DEFAULT_BUFF_SIZE
           copy == CopyIn(s.buffer, ni, StreamBytes(first, n))
<1>1. /\ s \in SendBufferType /\ isn \in Nat /\ isn <= a /\ SendKept(s, isn)
      /\ sent(s) < w /\ sent(s) \in Nat
      /\ ai \in Index /\ ni \in Index /\ s.buffer \in [Index -> Byte]
  BY SendBounds DEF SendGood, SendBufferType
<1>2. a \in Nat /\ w \in Nat /\ a < w /\ w <= a + DEFAULT_BUFF_SIZE
  BY <1>1, SendBounds
<1>3. w + n <= a + DEFAULT_BUFF_SIZE
  <2>1. n <= DEFAULT_BUFF_SIZE - (w - a)
    BY DEF send_buffer_max_write, written, acked
  <2> HIDE DEF a, w
  <2>. QED  BY <2>1, <1>2, CapacityAssumption
<1>4. first \in Nat \ {0} /\ first = w - isn
  <2> HIDE DEF a
  <2>1. first = w - isn
    OBVIOUS
  <2> HIDE DEF w
  <2>. QED  BY <2>1, <1>1, <1>2
<1>5. /\ ni = LET y == ai + (w - a) IN IF y < DEFAULT_BUFF_SIZE THEN y ELSE y - DEFAULT_BUFF_SIZE
  BY <1>1, SendIndices
<1>6. /\ mod \in Index
      /\ mod = IF z < DEFAULT_BUFF_SIZE THEN z ELSE z - DEFAULT_BUFF_SIZE
  <2>1. z \in 0 .. 2 * DEFAULT_BUFF_SIZE - 1
    <3> HIDE DEF ni, a, w
    <3>. QED  BY <1>1, <1>2, <1>3, CapacityAssumption DEF Index
  <2> HIDE DEF z
  <2>. QED  BY <2>1, WrapOnce
<1>7. /\ Len(StreamBytes(first, n)) = n
      /\ copy \in [Index -> Byte]
      /\ \A i \in Index :
           copy[i] = IF ni <= i /\ i < ni + n THEN first + i - ni
                     ELSE IF i + DEFAULT_BUFF_SIZE < ni + n
                          THEN first + i + DEFAULT_BUFF_SIZE - ni
                          ELSE s.buffer[i]
  <2> HIDE DEF ni
  <2>. QED  BY <1>1, <1>4, CopyInStream
<1>8. sn = [s EXCEPT !.buffer = copy, !.next_byte_written_index = mod]
  BY <1>7 DEF send_buffer_write, safe_memcpy_to_sendbuf
<1> HIDE DEF mod, copy, sn
<1>9. /\ sn \in SendBufferType /\ sn.buffer = copy
      /\ sn.last_byte_acked_seqnum = s.last_byte_acked_seqnum
      /\ sn.last_byte_acked_index = ai
      /\ sn.last_byte_sent_index = s.last_byte_sent_index
      /\ sn.next_byte_written_index = mod
  BY <1>1, <1>6, <1>7, <1>8 DEF SendBufferType
<1>10. acked(sn) = a /\ sent(sn) = sent(s)
  BY <1>9 DEF acked, sent, get_last_byte_sent_seqnum
<1>11. written(sn) = w + n
  <2> DEFINE q == w + n
  <2>1. q \in Nat /\ a < q /\ q <= a + DEFAULT_BUFF_SIZE
    <3> HIDE DEF a, w
    <3>. QED  BY <1>2, <1>3
  <2>2. mod = LET y == ai + (q - a) IN IF y < DEFAULT_BUFF_SIZE THEN y ELSE y - DEFAULT_BUFF_SIZE
    <3> HIDE DEF ai, ni, a, w
    <3>. QED  BY <1>1, <1>2, <1>3, <1>5, <1>6, CapacityAssumption DEF Index
  <2> HIDE DEF q
  <2>3. written(sn) = q
    BY <2>1, <2>2, <1>9, <1>10, WrittenAt
  <2>. QED  BY <2>3 DEF q
<1>12. SendKept(sn, isn)
  <2> SUFFICES ASSUME NEW q \in Nat, a < q, q < w + n
               PROVE  sn.buffer[seqnum_to_index_send(sn, q)] = q - isn
    BY <1>10, <1>11 DEF SendKept
  <2> DEFINE slot == seqnum_to_index_send(s, q)
  <2>1. seqnum_to_index_send(sn, q) = slot
    BY <1>9 DEF seqnum_to_index_send
  <2>2. /\ slot = LET y == ai + (q - a)
                  IN  IF y < DEFAULT_BUFF_SIZE THEN y ELSE y - DEFAULT_BUFF_SIZE
        /\ slot \in Index
    <3>1. a <= q /\ q < a + DEFAULT_BUFF_SIZE
      <4> HIDE DEF a, w
      <4>. QED  BY <1>2, <1>3, CapacityAssumption
    <3>. QED  BY <3>1, <1>1, SendSlot
  <2>3. q < w => s.buffer[slot] = q - isn
    BY <1>1 DEF SendKept
  <2>4. copy[slot] = q - isn
    <3> HIDE DEF ai, ni, a, w, slot
    <3>1. CASE q < w
      <4>1. ~(ni <= slot /\ slot < ni + n) /\ ~(slot + DEFAULT_BUFF_SIZE < ni + n)
        BY <3>1, <2>2, <1>1, <1>2, <1>3, <1>5, CapacityAssumption DEF Index
      <4>. QED  BY <4>1, <3>1, <2>2, <2>3, <1>7
    <3>2. CASE q >= w
      <4>1. \/ ni <= slot /\ slot < ni + n /\ q - isn = first + slot - ni
            \/ /\ slot < ni /\ slot + DEFAULT_BUFF_SIZE < ni + n
               /\ q - isn = first + slot + DEFAULT_BUFF_SIZE - ni
        <5> DEFINE d == q - w
        <5>1. d \in 0 .. n - 1 /\ d < DEFAULT_BUFF_SIZE /\ q - isn = first + d
          BY <3>2, <1>1, <1>2, <1>3, <1>4, CapacityAssumption
        <5>2. slot = IF ni + d < DEFAULT_BUFF_SIZE THEN ni + d
                                                   ELSE ni + d - DEFAULT_BUFF_SIZE
          <6>1. ai + (q - a) = (ai + (w - a)) + d /\ ai \in Nat
            BY <1>1, <1>2, CapacityAssumption DEF Index
          <6> DEFINE x == ai + (w - a)
          <6>2. x \in Nat
            BY <6>1, <1>2
          <6>3. /\ ni = IF x < DEFAULT_BUFF_SIZE THEN x ELSE x - DEFAULT_BUFF_SIZE
                /\ slot = IF x + d < DEFAULT_BUFF_SIZE THEN x + d
                                                       ELSE x + d - DEFAULT_BUFF_SIZE
            <7> DEFINE y == ai + (q - a)
            <7>1. y = x + d
              BY <6>1
            <7>2. slot = IF y < DEFAULT_BUFF_SIZE THEN y ELSE y - DEFAULT_BUFF_SIZE
              BY <2>2
            <7>3. ni = IF x < DEFAULT_BUFF_SIZE THEN x ELSE x - DEFAULT_BUFF_SIZE
              BY <1>5
            <7> HIDE DEF x, y, d
            <7>. QED  BY <7>1, <7>2, <7>3, <6>2, <5>1, CapacityAssumption
          <6> HIDE DEF x, d
          <6>4. slot \in Nat /\ slot < DEFAULT_BUFF_SIZE /\ d \in Nat
            BY <5>1, <2>2, CapacityAssumption DEF Index
          <6>5. CASE x < DEFAULT_BUFF_SIZE
            BY <6>3, <6>5
          <6>6. CASE ~(x < DEFAULT_BUFF_SIZE)
            <7>1. ni = x - DEFAULT_BUFF_SIZE /\ ~(x + d < DEFAULT_BUFF_SIZE)
              BY <6>2, <6>3, <6>4, <6>6, CapacityAssumption
            <7>2. slot = ni + d
              BY <7>1, <6>2, <6>3, <6>4, CapacityAssumption
            <7>. QED  BY <7>2, <6>4
          <6>. QED  BY <6>5, <6>6
        <5> HIDE DEF d
        <5>. QED  BY <5>1, <5>2, <1>1, <1>4, CapacityAssumption DEF Index
      <4>2. CASE ni <= slot /\ slot < ni + n /\ q - isn = first + slot - ni
        BY <4>2, <2>2, <1>7
      <4>3. CASE /\ slot < ni /\ slot + DEFAULT_BUFF_SIZE < ni + n
                 /\ q - isn = first + slot + DEFAULT_BUFF_SIZE - ni
        <5>1. ~(ni <= slot /\ slot < ni + n)
          BY <4>3, <2>2, <1>1, CapacityAssumption DEF Index
        <5>. QED  BY <5>1, <4>3, <2>2, <1>7
      <4>. QED  BY <4>1, <4>2, <4>3
    <3>. QED  BY <3>1, <3>2, <1>2
  <2>. QED  BY <2>1, <2>4, <1>9
<1>13. isn <= acked(sn) /\ sent(sn) < written(sn)
  <2>1. sent(s) < w + n
    <3> HIDE DEF w
    <3>. QED  BY <1>1, <1>2
  <2>. QED  BY <2>1, <1>1, <1>10, <1>11
<1>14. SendLap(sn, isn)
  <2>1. ASSUME w + n <= isn + DEFAULT_BUFF_SIZE PROVE w <= isn + DEFAULT_BUFF_SIZE
    <3> HIDE DEF w
    <3>. QED  BY <2>1, <1>1, <1>2, CapacityAssumption
  <2>2. w <= isn + DEFAULT_BUFF_SIZE => ai = a - isn
    BY DEF SendGood, SendLap, FirstLap
  <2>. QED  BY <2>1, <2>2, <1>9, <1>10, <1>11 DEF SendLap, FirstLap
<1>. QED  BY <1>1, <1>9, <1>10, <1>11, <1>12, <1>13, <1>14 DEF SendGood, Written, sn

-----------------------------------------------------------------------------
(* send_buffer_dump of n bytes, `offset` bytes past the last one sent.     *)
Dumped(s, sn, isn, total) ==
  /\ SendGood(sn, isn)
  /\ acked(sn) = acked(s) /\ written(sn) = written(s) /\ sent(sn) = sent(s) + total

LEMMA FreshSlot ==
  ASSUME NEW s, NEW isn, SendGood(s, isn), NEW offset \in Nat,
         sent(s) + 1 + offset < written(s)
  PROVE  /\ (s.last_byte_sent_index + 1 + offset) % DEFAULT_BUFF_SIZE
              = seqnum_to_index_send(s, sent(s) + 1 + offset)
         /\ seqnum_to_index_send(s, sent(s) + 1 + offset) \in Index
<1> DEFINE ai == s.last_byte_acked_index
           si == s.last_byte_sent_index
           a == acked(s)
           u == sent(s)
           q == u + 1 + offset
           z == si + 1 + offset
<1>1. s \in SendBufferType /\ ai \in Index /\ si \in Index
  BY DEF SendGood, SendBufferType
<1>2. /\ a \in Nat /\ u \in Nat /\ a <= u
      /\ written(s) \in Nat /\ written(s) <= a + DEFAULT_BUFF_SIZE
  BY <1>1, SendBounds
<1>3. q \in Nat /\ a <= q /\ q < a + DEFAULT_BUFF_SIZE
  <2> HIDE DEF a
  <2>1. q < written(s)
    OBVIOUS
  <2> HIDE DEF u
  <2>. QED  BY <2>1, <1>2, CapacityAssumption
<1>4. /\ seqnum_to_index_send(s, q) =
           LET y == ai + (q - a) IN IF y < DEFAULT_BUFF_SIZE THEN y ELSE y - DEFAULT_BUFF_SIZE
      /\ seqnum_to_index_send(s, q) \in Index
  <2> HIDE DEF q
  <2>. QED  BY <1>1, <1>3, SendSlot
<1>5. si = LET y == ai + (u - a) IN IF y < DEFAULT_BUFF_SIZE THEN y ELSE y - DEFAULT_BUFF_SIZE
  BY <1>1, SendIndices
<1> DEFINE slot == seqnum_to_index_send(s, q)
<1>6. z \in 0 .. 2 * DEFAULT_BUFF_SIZE - 1
  <2> HIDE DEF a, u, si, ai
  <2>. QED  BY <1>1, <1>2, <1>3, CapacityAssumption DEF Index
<1>7. z % DEFAULT_BUFF_SIZE = IF z < DEFAULT_BUFF_SIZE THEN z ELSE z - DEFAULT_BUFF_SIZE
  <2> HIDE DEF z
  <2>. QED  BY <1>6, WrapOnce
<1>8. (IF z < DEFAULT_BUFF_SIZE THEN z ELSE z - DEFAULT_BUFF_SIZE) = slot
  <2> HIDE DEF a, u, si, ai, slot
  <2>1. CASE ai + (u - a) < DEFAULT_BUFF_SIZE
    BY <2>1, <1>1, <1>2, <1>3, <1>4, <1>5, CapacityAssumption DEF Index, slot
  <2>2. CASE ~(ai + (u - a) < DEFAULT_BUFF_SIZE)
    BY <2>2, <1>1, <1>2, <1>3, <1>4, <1>5, CapacityAssumption DEF Index, slot
  <2>. QED  BY <2>1, <2>2
<1>. QED  BY <1>4, <1>7, <1>8

LEMMA DumpExact ==
  ASSUME NEW s, NEW isn, SendGood(s, isn),
         NEW offset \in Nat, NEW n \in Nat \ {0},
         offset + n <= send_buffer_max_new_dump(s),
         NEW start_index,
         start_index = (s.last_byte_sent_index + 1 + offset) % DEFAULT_BUFF_SIZE
  PROVE  Dumped(s, send_buffer_dump(s, start_index, n), isn, offset + n)
<1> DEFINE ai == s.last_byte_acked_index
           a == acked(s)
           u == sent(s)
           w == written(s)
           first == u + 1 + offset
           q == u + (offset + n)
           z == start_index + (n - 1)
           end_index == z % DEFAULT_BUFF_SIZE
           sn == send_buffer_dump(s, start_index, n)
<1>1. /\ s \in SendBufferType /\ isn \in Nat /\ isn <= a /\ SendKept(s, isn)
      /\ ai \in Index
  BY DEF SendGood, SendBufferType
<1>2. /\ a \in Nat /\ u \in Nat /\ a <= u /\ w \in Nat /\ w <= a + DEFAULT_BUFF_SIZE
  BY <1>1, SendBounds
<1>3. q < w /\ first < w
  <2>1. offset + n <= w - u - 1
    BY DEF send_buffer_max_new_dump, written, sent
  <2> HIDE DEF u, w
  <2>. QED  BY <2>1, <1>2
<1>4. start_index \in Index
      /\ start_index = LET y == ai + (first - a)
                       IN IF y < DEFAULT_BUFF_SIZE THEN y ELSE y - DEFAULT_BUFF_SIZE
  <2>1. start_index = seqnum_to_index_send(s, first) /\ start_index \in Index
    BY <1>3, FreshSlot
  <2>2. first \in Nat /\ a <= first /\ first < a + DEFAULT_BUFF_SIZE
    <3> HIDE DEF u, a, w
    <3>. QED  BY <1>2, <1>3, CapacityAssumption
  <2> HIDE DEF first
  <2>. QED  BY <2>1, <2>2, <1>1, SendSlot
<1>5. end_index \in Index
      /\ end_index = IF z < DEFAULT_BUFF_SIZE THEN z ELSE z - DEFAULT_BUFF_SIZE
  <2>1. z \in 0 .. 2 * DEFAULT_BUFF_SIZE - 1
    <3> HIDE DEF u, a, w, ai
    <3>. QED  BY <1>1, <1>2, <1>3, <1>4, CapacityAssumption DEF Index
  <2> HIDE DEF z
  <2>. QED  BY <2>1, WrapOnce
<1>6. end_index = LET y == ai + (q - a)
                  IN IF y < DEFAULT_BUFF_SIZE THEN y ELSE y - DEFAULT_BUFF_SIZE
  <2> HIDE DEF u, a, w, ai, end_index
  <2>. QED  BY <1>1, <1>2, <1>3, <1>4, <1>5, CapacityAssumption DEF Index
<1>7. q \in Nat /\ a <= q /\ q < a + DEFAULT_BUFF_SIZE /\ u <= q
  <2> HIDE DEF u, a, w
  <2>. QED  BY <1>2, <1>3, CapacityAssumption
<1> DEFINE sx == [s EXCEPT !.last_byte_sent_index = end_index]
<1> HIDE DEF end_index
<1>8. /\ sx \in SendBufferType
      /\ sx.last_byte_acked_seqnum = s.last_byte_acked_seqnum
      /\ sx.last_byte_acked_index = ai
      /\ sx.last_byte_sent_index = end_index
      /\ sx.next_byte_written_index = s.next_byte_written_index
      /\ sx.buffer = s.buffer
  BY <1>1, <1>5 DEF SendBufferType
<1> HIDE DEF sx
<1>9. acked(sx) = a /\ written(sx) = w
  BY <1>8 DEF acked, written, get_next_byte_written_seqnum
<1>10. sent(sx) = q
  <2> HIDE DEF q
  <2>. QED  BY <1>6, <1>7, <1>8, <1>9, SentAt
<1>11. index_to_seqnum_send(s, end_index) = sent(sx)
  BY <1>8 DEF index_to_seqnum_send, sent, get_last_byte_sent_seqnum
<1>12. sn = sx
  <2>1. (start_index + n - 1) % DEFAULT_BUFF_SIZE = end_index
    <3>1. start_index + n - 1 = z
      BY <1>4, CapacityAssumption DEF Index
    <3>. QED  BY <3>1 DEF end_index
  <2>2. index_to_seqnum_send(s, end_index) >= get_last_byte_sent_seqnum(s)
    BY <1>7, <1>10, <1>11 DEF sent
  <2>. QED  BY <2>1, <2>2 DEF send_buffer_dump, sx
<1>13. SendKept(sx, isn)
  <2>1. \A k : seqnum_to_index_send(sx, k) = seqnum_to_index_send(s, k)
    BY <1>8 DEF seqnum_to_index_send
  <2>. QED  BY <2>1, <1>1, <1>8, <1>9 DEF SendKept
<1>14. SendLap(sx, isn)
  BY <1>8, <1>9 DEF SendGood, SendLap, FirstLap
<1>15. SendGood(sx, isn)
  BY <1>1, <1>3, <1>8, <1>9, <1>10, <1>13, <1>14 DEF SendGood
<1>. QED  BY <1>9, <1>10, <1>12, <1>15 DEF Dumped

-----------------------------------------------------------------------------
(* send_buffer_update_ack with an acknowledgement of something sent.       *)
AckedUpTo(s, sn, isn, ack) ==
  /\ SendGood(sn, isn)
  /\ acked(sn) = MAX(acked(s), ack - 1)
  /\ sent(sn) = sent(s) /\ written(sn) = written(s)

LEMMA AckExact ==
  ASSUME NEW s, NEW isn, SendGood(s, isn), NEW ack \in Nat \ {0},
         ack <= sent(s) + 1
  PROVE  AckedUpTo(s, send_buffer_update_ack(s, ack), isn, ack)
<1> DEFINE ai == s.last_byte_acked_index
           si == s.last_byte_sent_index
           ni == s.next_byte_written_index
           a == acked(s)
           u == sent(s)
           w == written(s)
           b == ack - 1
           slot == seqnum_to_index_send(s, b)
           sn == send_buffer_update_ack(s, ack)
<1>1. /\ s \in SendBufferType /\ isn \in Nat /\ isn <= a /\ u < w /\ SendKept(s, isn)
      /\ ai \in Index /\ si \in Index /\ ni \in Index /\ b \in Nat
  BY DEF SendGood, SendBufferType
<1>2. /\ a \in Nat /\ u \in Nat /\ w \in Nat /\ a <= u
      /\ u < a + DEFAULT_BUFF_SIZE /\ w <= a + DEFAULT_BUFF_SIZE
  BY <1>1, SendBounds
<1>3. b <= u
  <2> HIDE DEF a
  <2>1. ack <= u + 1
    OBVIOUS
  <2> HIDE DEF u
  <2>. QED  BY <2>1, <1>2
<1>4. CASE b <= a
  <2>1. sn = s
    BY <1>1, <1>2, <1>4 DEF send_buffer_update_ack, acked
  <2>2. MAX(a, b) = a
    <3> HIDE DEF a, b
    <3>. QED  BY <1>1, <1>2, <1>4 DEF MAX
  <2>. QED  BY <2>1, <2>2 DEF AckedUpTo
<1>5. CASE b > a
  <2>1. sn = [s EXCEPT !.last_byte_acked_seqnum = b, !.last_byte_acked_index = slot]
    BY <1>5 DEF send_buffer_update_ack, acked
  <2>2. /\ slot = LET y == ai + (b - a)
                  IN IF y < DEFAULT_BUFF_SIZE THEN y ELSE y - DEFAULT_BUFF_SIZE
        /\ slot \in Index
    <3>1. a <= b /\ b < a + DEFAULT_BUFF_SIZE
      <4> HIDE DEF a, b, u
      <4>. QED  BY <1>1, <1>2, <1>3, <1>5, CapacityAssumption
    <3> HIDE DEF b
    <3>. QED  BY <3>1, <1>1, SendSlot
  <2> HIDE DEF slot, sn, b
  <2>3. /\ sn \in SendBufferType
        /\ sn.last_byte_acked_seqnum = b /\ sn.last_byte_acked_index = slot
        /\ sn.last_byte_sent_index = si /\ sn.next_byte_written_index = ni
        /\ sn.buffer = s.buffer
    BY <2>1, <2>2, <1>1 DEF SendBufferType
  <2>4. acked(sn) = b
    BY <2>3 DEF acked
  <2>5. /\ si = LET y == ai + (u - a)
                IN IF y < DEFAULT_BUFF_SIZE THEN y ELSE y - DEFAULT_BUFF_SIZE
        /\ ni = LET y == ai + (w - a)
                IN IF y < DEFAULT_BUFF_SIZE THEN y ELSE y - DEFAULT_BUFF_SIZE
    BY <1>1, SendIndices
  <2>6. sent(sn) = u
    <3>1. b <= u /\ u < b + DEFAULT_BUFF_SIZE
      <4> HIDE DEF a, u, w
      <4>. QED  BY <1>1, <1>2, <1>3, <1>5, CapacityAssumption
    <3>2. si = LET y == slot + (u - b)
               IN IF y < DEFAULT_BUFF_SIZE THEN y ELSE y - DEFAULT_BUFF_SIZE
      <4> HIDE DEF a, u, w, ai, si, ni
      <4>. QED  BY <2>2, <2>5, <3>1, <1>1, <1>2, <1>5, CapacityAssumption DEF Index
    <3> HIDE DEF u
    <3>. QED  BY <3>1, <3>2, <2>3, <2>4, <1>2, SentAt
  <2>7. written(sn) = w
    <3>1. b < w /\ w <= b + DEFAULT_BUFF_SIZE
      <4> HIDE DEF a, u, w
      <4>. QED  BY <1>1, <1>2, <1>3, <1>5, CapacityAssumption
    <3>2. ni = LET y == slot + (w - b)
               IN IF y < DEFAULT_BUFF_SIZE THEN y ELSE y - DEFAULT_BUFF_SIZE
      <4> HIDE DEF a, u, w, ai, si, ni
      <4>. QED  BY <2>2, <2>5, <3>1, <1>1, <1>2, <1>5, CapacityAssumption DEF Index
    <3> HIDE DEF w
    <3>. QED  BY <3>1, <3>2, <2>3, <2>4, <1>2, WrittenAt
  <2>8. SendKept(sn, isn)
    <3> SUFFICES ASSUME NEW q \in Nat, b < q, q < w
                 PROVE  sn.buffer[seqnum_to_index_send(sn, q)] = q - isn
      BY <2>4, <2>7 DEF SendKept
    <3>1. /\ a < q /\ q < a + DEFAULT_BUFF_SIZE /\ q < b + DEFAULT_BUFF_SIZE
      <4> HIDE DEF a, u, w
      <4>. QED  BY <1>1, <1>2, <1>5, CapacityAssumption
    <3> DEFINE old == seqnum_to_index_send(s, q)
               new == seqnum_to_index_send(sn, q)
    <3>2. s.buffer[old] = q - isn
      BY <3>1, <1>1 DEF SendKept
    <3>3. old = LET y == ai + (q - a)
                IN IF y < DEFAULT_BUFF_SIZE THEN y ELSE y - DEFAULT_BUFF_SIZE
      BY <3>1, <1>1, <1>2, SendSlot
    <3>4. new = LET y == slot + (q - b)
                IN IF y < DEFAULT_BUFF_SIZE THEN y ELSE y - DEFAULT_BUFF_SIZE
      BY <3>1, <2>3, <2>4, <1>1, SendSlot
    <3>5. old = new
      <4> HIDE DEF a, ai, old, new
      <4>. QED  BY <3>1, <3>3, <3>4, <2>2, <1>1, <1>2, <1>5, CapacityAssumption DEF Index
    <3>. QED  BY <3>2, <3>5, <2>3
  <2>9. isn <= b /\ MAX(a, b) = b
    <3> HIDE DEF a
    <3>. QED  BY <1>1, <1>2, <1>5 DEF MAX
  <2>10. SendLap(sn, isn)
    <3>1. w <= isn + DEFAULT_BUFF_SIZE => ai = a - isn
      BY DEF SendGood, SendLap, FirstLap
    <3>2. ASSUME w <= isn + DEFAULT_BUFF_SIZE PROVE slot = b - isn
      <4> HIDE DEF a, u, w, ai
      <4>. QED  BY <3>1, <3>2, <2>2, <1>1, <1>2, <1>3, <1>5, CapacityAssumption DEF Index
    <3>. QED  BY <3>2, <2>3, <2>4, <2>7 DEF SendLap, FirstLap
  <2>11. SendGood(sn, isn)
    BY <2>3, <2>4, <2>6, <2>7, <2>8, <2>9, <2>10, <1>1 DEF SendGood
  <2>. QED  BY <2>4, <2>6, <2>7, <2>9, <2>11 DEF AckedUpTo, b, sn
<1>. QED  BY <1>1, <1>2, <1>4, <1>5

-----------------------------------------------------------------------------
(* Where position pos of the stream of s is expected, there is byte b: the *)
(* right one, or Junk from beyond the array, which the first lap does not  *)
(* reach.                                                                  *)
Fits(b, pos, s, isn) == b = pos \/ (b = Junk /\ ~FirstLap(s, isn))

(* The payload of a packet: each byte fits its sequence number.            *)
InPlace(payload, first, s, isn) ==
  \A k \in 1 .. Len(payload) : Fits(payload[k], first + k - 1 - isn, s, isn)

(* Bytes that fit do so for ever: the stream only grows.                   *)
LEMMA StillFits ==
  ASSUME NEW s \in SendBufferType, NEW sn \in SendBufferType, NEW isn \in Nat,
         written(s) <= written(sn)
  PROVE  /\ FirstLap(sn, isn) => FirstLap(s, isn)
         /\ \A b, pos : Fits(b, pos, s, isn) => Fits(b, pos, sn, isn)
         /\ \A payload, first :
              InPlace(payload, first, s, isn) => InPlace(payload, first, sn, isn)
<1>1. FirstLap(sn, isn) => FirstLap(s, isn)
  <2>1. written(s) \in Nat /\ written(sn) \in Nat
    BY SendBounds
  <2>. QED  BY <2>1, CapacityAssumption DEF FirstLap
<1>2. \A b, pos : Fits(b, pos, s, isn) => Fits(b, pos, sn, isn)
  BY <1>1 DEF Fits
<1>. QED  BY <1>1, <1>2 DEF InPlace

LEMMA LinearExact ==
  ASSUME NEW s, NEW isn, SendGood(s, isn), NEW first \in Nat, NEW n \in Nat,
         acked(s) < first, first + n <= written(s),
         NEW start, start = seqnum_to_index_send(s, first), start \in Nat
  PROVE  /\ Linear(s.buffer, start, n) \in Seq(Byte)
         /\ Len(Linear(s.buffer, start, n)) = n
         /\ InPlace(Linear(s.buffer, start, n), first, s, isn)
<1> DEFINE ai == s.last_byte_acked_index
           a == acked(s)
           w == written(s)
           copy == Linear(s.buffer, start, n)
<1>1. /\ s \in SendBufferType /\ isn \in Nat /\ isn <= a /\ SendKept(s, isn)
      /\ ai \in Index /\ s.buffer \in [Index -> Byte]
  BY DEF SendGood, SendBufferType
<1>2. /\ a \in Nat /\ w \in Nat /\ w <= a + DEFAULT_BUFF_SIZE
      /\ a < first /\ first + n <= w
  BY <1>1, SendBounds
<1>3. copy \in Seq(Byte) /\ DOMAIN copy = 1 .. n
  BY <1>1, LinearType
<1>4. Len(copy) = n
  <2> HIDE DEF copy
  <2>. QED  BY <1>3
<1>5. ASSUME NEW k \in 1 .. n PROVE Fits(copy[k], first + k - 1 - isn, s, isn)
  <2> DEFINE q == first + (k - 1)
             i == start + k - 1
  <2>1. copy[k] = IF i \in Index THEN s.buffer[i] ELSE Junk
    BY DEF Linear
  <2>2. /\ q \in Nat /\ a <= q /\ a < q /\ q < w /\ q < a + DEFAULT_BUFF_SIZE
        /\ a <= first /\ first < a + DEFAULT_BUFF_SIZE
    <3> HIDE DEF a, w
    <3>. QED  BY <1>2, CapacityAssumption
  <2>3. start = LET y == ai + (first - a)
                IN IF y < DEFAULT_BUFF_SIZE THEN y ELSE y - DEFAULT_BUFF_SIZE
    BY <2>2, <1>1, SendSlot
  <2> DEFINE slot == seqnum_to_index_send(s, q)
  <2>4. slot = LET y == ai + (q - a)
               IN IF y < DEFAULT_BUFF_SIZE THEN y ELSE y - DEFAULT_BUFF_SIZE
    <3> HIDE DEF q
    <3>. QED  BY <2>2, <1>1, SendSlot
  <2>5. s.buffer[slot] = q - isn
    <3> HIDE DEF q
    <3>. QED  BY <2>2, <1>1 DEF SendKept
  <2>6. ASSUME i \in Index PROVE slot = i
    <3> HIDE DEF a, w, ai, slot
    <3>. QED  BY <2>2, <2>3, <2>4, <2>6, <1>1, <1>2, CapacityAssumption DEF Index
  <2>7. q - isn = first + k - 1 - isn
    BY <1>1
  <2>8. ASSUME FirstLap(s, isn) PROVE i \in Index
    <3>1. w <= isn + DEFAULT_BUFF_SIZE /\ ai = a - isn
      BY <2>8 DEF SendGood, SendLap, FirstLap
    <3> HIDE DEF a, w, ai
    <3>2. isn \in Nat /\ isn <= a /\ first < w
      BY <1>1, <1>2
    <3>3. start = first - isn
      BY <3>1, <3>2, <2>3, <1>2, CapacityAssumption
    <3>4. i = q - isn
      BY <3>2, <3>3
    <3>5. q - isn \in 0 .. DEFAULT_BUFF_SIZE - 1
      <4> HIDE DEF q
      <4>. QED  BY <3>1, <3>2, <2>2, <1>2, CapacityAssumption
    <3>. QED  BY <3>4, <3>5 DEF Index
  <2> HIDE DEF q, i, slot, copy
  <2>. QED  BY <2>1, <2>5, <2>6, <2>7, <2>8 DEF Fits
<1> HIDE DEF copy
<1>6. InPlace(copy, first, s, isn)
  BY <1>4, <1>5 DEF InPlace
<1>. QED  BY <1>3, <1>4, <1>6 DEF copy

(* On the first lap safe_memcpy_from_sendbuf does not take its second      *)
(* branch, and does not crash.                                             *)
LEMMA FirstLapDumps ==
  ASSUME NEW s, NEW isn, SendGood(s, isn), FirstLap(s, isn),
         NEW offset \in Nat, NEW n \in Nat \ {0},
         sent(s) + offset + n < written(s),
         NEW start_index,
         start_index = (s.last_byte_sent_index + 1 + offset) % DEFAULT_BUFF_SIZE
  PROVE  ~DumpCrashes(s, start_index, n)
<1> DEFINE ai == s.last_byte_acked_index
           a == acked(s)
           u == sent(s)
           w == written(s)
           first == u + 1 + offset
<1>1. /\ s \in SendBufferType /\ isn \in Nat /\ isn <= a /\ ai \in Index
      /\ w <= isn + DEFAULT_BUFF_SIZE /\ ai = a - isn
  BY DEF SendGood, SendLap, FirstLap, SendBufferType
<1>2. /\ a \in Nat /\ u \in Nat /\ w \in Nat /\ a <= u /\ u + offset + n < w
      /\ w <= a + DEFAULT_BUFF_SIZE
  BY <1>1, SendBounds
<1>3. first \in Nat /\ first < w /\ a <= first /\ first < a + DEFAULT_BUFF_SIZE
  <2> HIDE DEF a, u, w
  <2>. QED  BY <1>2, CapacityAssumption
<1>4. start_index = seqnum_to_index_send(s, first)
  BY <1>3, FreshSlot
<1>5. start_index = LET y == ai + (first - a)
                    IN IF y < DEFAULT_BUFF_SIZE THEN y ELSE y - DEFAULT_BUFF_SIZE
  <2> HIDE DEF first
  <2>. QED  BY <1>1, <1>3, <1>4, SendSlot
<1>6. start_index + n - 1 > ai
  <2> HIDE DEF a, u, w, ai
  <2>. QED  BY <1>1, <1>2, <1>3, <1>5, CapacityAssumption DEF Index
<1>7. start_index + n - 1 \in Int /\ ai \in Int
  <2> HIDE DEF a, u, w, ai
  <2>. QED  BY <1>1, <1>2, <1>3, <1>5, CapacityAssumption DEF Index
<1>. QED  BY <1>6, <1>7 DEF DumpCrashes

(* Where safe_memcpy_from_sendbuf does not crash it is one straight copy,  *)
(* whichever branch it takes.                                              *)
LEMMA FreshIsLinear ==
  ASSUME NEW s \in SendBufferType, NEW n \in Nat \ {0}, NEW start_index \in Index,
         ~DumpCrashes(s, start_index, n), n < DEFAULT_BUFF_SIZE
  PROVE  safe_memcpy_from_sendbuf(s, start_index, n) = Linear(s.buffer, start_index, n)
<1> USE CapacityAssumption
<1>1. /\ s.buffer \in [Index -> Byte] /\ s.last_byte_acked_index \in Index
      /\ start_index \in Nat
  BY DEF SendBufferType, Index
<1>2. Linear(s.buffer, start_index, n) \in Seq(Byte)
  BY <1>1, LinearType
<1>3. CASE start_index + n - 1 > s.last_byte_acked_index
  BY <1>3 DEF safe_memcpy_from_sendbuf
<1>4. CASE start_index + n - 1 <= s.last_byte_acked_index
  <2>1. DEFAULT_BUFF_SIZE - start_index = n
    BY <1>1, <1>4 DEF DumpCrashes, Index
  <2>2. safe_memcpy_from_sendbuf(s, start_index, n)
          = Linear(s.buffer, start_index, n) \o Linear(s.buffer, 0, 0)
    BY <1>1, <1>4, <2>1 DEF safe_memcpy_from_sendbuf, Index
  <2>3. Linear(s.buffer, 0, 0) = <<>>
    BY DEF Linear
  <2>. QED  BY <1>2, <2>2, <2>3, ConcatEmptySeq
<1>. QED  BY <1>1, <1>3, <1>4 DEF Index
=============================================================================
