-------------------------- MODULE SegmentListProofs --------------------------
(***************************************************************************)
(* Proofs about SegmentList, for every capacity of the ring, every initial *)
(* sequence number, every length of the stream and whatever memory malloc  *)
(* returns: as long as the segments at the ends of the list read as ends,  *)
(* the doubly linked list of recv_buffer.c is the set of segments, loses   *)
(* no cell, and makes of the buffer what RecvStream does; and nothing else *)
(* can go wrong first.                                                     *)
(*                                                                         *)
(* The invariant determines every link of the list by the numbers in the   *)
(* cells: next leads to the leftmost cell further right, prev to the       *)
(* rightmost cell further left.  Then a walk along the links comes by all  *)
(* cells in order (ForwardLists, BackwardReverses), the two loops of       *)
(* segment_merge find the ends of what a packet overlaps (EndsFound), each *)
(* of its four cases puts the new cell in the place of exactly those cells *)
(* (MergeSplices), and the list stays linked when a cell is put in or      *)
(* taken out (SpliceLinked, UnlinkLinked).  MergeSplices needs that a link *)
(* which segment_merge leaves unset reads as NULL, in the two cases where  *)
(* it relies on one; EndsUnset shows that the ends of the list tell.  What *)
(* a walk computes is proved by the least round at which it would be wrong. *)
(***************************************************************************)
EXTENDS SegmentList, RecvStreamProofs, FiniteSetTheorems

(* The memory of the segments.                                             *)
CellType ==
  [start_seqnum_inclusive : Nat, end_seqnum_inclusive : Nat,
   prev : {NULL} \cup Cell, next : {NULL} \cup Cell]

Heap == [Cell -> CellType]

(* There are as many addresses as the ring has slots.                      *)
LEMMA CellFacts ==
  NULL \notin Cell /\ IsFiniteSet(Cell) /\ Cardinality(Cell) = DEFAULT_BUFF_SIZE
BY HeapAssumption

-----------------------------------------------------------------------------
(* Walks.                                                                  *)

(* f is what the loop of Walk computes in its first n rounds.              *)
Chain(f, c, link, n) ==
  f = [i \in 1 .. n |-> IF i = 1 THEN c ELSE link[f[i - 1]]]

(* There is one for every number of rounds.                                *)
LEMMA ChainExists ==
  ASSUME NEW c, NEW link
  PROVE  \A n \in Nat : \E f : Chain(f, c, link, n)
<1> DEFINE bad == {n \in Nat : ~ \E f : Chain(f, c, link, n)}
<1> SUFFICES ASSUME bad # {} PROVE FALSE
  OBVIOUS
<1> DEFINE n == Min(bad)
<1>1. n \in Nat /\ n \in bad /\ \A m \in bad : n <= m
  <2>1. bad \subseteq Nat
    OBVIOUS
  <2> HIDE DEF bad
  <2>. QED  BY <2>1, MinIsLeast
<1> HIDE DEF n
<1>2. n # 0
  <2>1. Chain(<<>>, c, link, 0)
    BY DEF Chain
  <2>. QED  BY <2>1, <1>1
<1>3. PICK f : Chain(f, c, link, n - 1)
  BY <1>1, <1>2
<1> DEFINE g == [i \in 1 .. n |-> IF i = n THEN IF n = 1 THEN c ELSE link[f[n - 1]]
                                           ELSE f[i]]
<1>4. ASSUME NEW i \in 1 .. n PROVE g[i] = IF i = 1 THEN c ELSE link[g[i - 1]]
  <2>1. CASE i = n
    BY <2>1, <1>1, <1>2
  <2>2. CASE i # n
    <3>1. i \in 1 .. n - 1 /\ (i # 1 => i - 1 \in 1 .. n /\ i - 1 # n)
      BY <2>2, <1>1, <1>2
    <3>3. g[i] = f[i] /\ (i # 1 => g[i - 1] = f[i - 1])
      BY <3>1, <2>2
    <3>2. f[i] = IF i = 1 THEN c ELSE link[f[i - 1]]
      BY <3>1, <1>3 DEF Chain
    <3>. QED  BY <3>2, <3>3
  <2>. QED  BY <2>1, <2>2
<1>5. Chain(g, c, link, n)
  BY <1>4 DEF Chain
<1>. QED  BY <1>5, <1>1

(* What Walk returns is such a chain, as far as it is not NULL.            *)
LEMMA WalkIsChain ==
  ASSUME NEW c, NEW link
  PROVE  \E f : /\ Chain(f, c, link, DEFAULT_BUFF_SIZE)
                /\ Walk(c, link) = [i \in {j \in 1 .. DEFAULT_BUFF_SIZE : f[j] # NULL} |-> f[i]]
<1> DEFINE f == CHOOSE g : Chain(g, c, link, DEFAULT_BUFF_SIZE)
<1>1. Chain(f, c, link, DEFAULT_BUFF_SIZE)
  BY ChainExists, CapacityAssumption
<1>2. Walk(c, link) = [i \in {j \in DOMAIN f : f[j] # NULL} |-> f[i]]
  BY DEF Walk, Chain
<1> HIDE DEF f
<1>3. DOMAIN f = 1 .. DEFAULT_BUFF_SIZE
  BY <1>1 DEF Chain
<1>. QED  BY <1>1, <1>2, <1>3

-----------------------------------------------------------------------------
(* A list in order.                                                        *)

(* The intervals in two cells share no number.                             *)
CellsApart(h, c, d) ==
  \/ h[c].end_seqnum_inclusive < h[d].start_seqnum_inclusive
  \/ h[d].end_seqnum_inclusive < h[c].start_seqnum_inclusive

(* The cells of L hold intervals that do not overlap.                      *)
Ordered(h, L) ==
  /\ \A c \in L : h[c].start_seqnum_inclusive <= h[c].end_seqnum_inclusive
  /\ \A c, d \in L : c # d => CellsApart(h, c, d)

(* c is the cell of S furthest to the left, NULL if S has none.            *)
Leftmost(h, S, c) ==
  \/ S = {} /\ c = NULL
  \/ c \in S /\ \A d \in S : h[c].start_seqnum_inclusive <= h[d].start_seqnum_inclusive

Rightmost(h, S, c) ==
  \/ S = {} /\ c = NULL
  \/ c \in S /\ \A d \in S : h[d].end_seqnum_inclusive <= h[c].end_seqnum_inclusive

RightOf(h, L, n) == {c \in L : h[c].start_seqnum_inclusive > n}
LeftOf(h, L, n)  == {c \in L : h[c].end_seqnum_inclusive < n}

(* Each cell of L points to the one that follows, or to the one before.    *)
NextLinks(h, L) ==
  \A c \in L : Leftmost(h, RightOf(h, L, h[c].end_seqnum_inclusive), h[c].next)

PrevLinks(h, L) ==
  \A c \in L : Rightmost(h, LeftOf(h, L, h[c].start_seqnum_inclusive), h[c].prev)

(* The sequence s is the cells of L from left to right.                    *)
Lists(h, L, s, n) ==
  /\ n \in Nat
  /\ s \in [1 .. n -> L]
  /\ \A c \in L : \E i \in 1 .. n : s[i] = c
  /\ \A i, j \in 1 .. n : i < j =>
       h[s[i]].end_seqnum_inclusive < h[s[j]].start_seqnum_inclusive

(* A walk along next from the leftmost cell on comes by all cells, in order. *)
LEMMA ForwardLists ==
  ASSUME NEW h \in Heap, NEW L \in SUBSET Cell, NEW a,
         Ordered(h, L), NextLinks(h, L), Leftmost(h, L, a)
  PROVE  \E n \in 0 .. DEFAULT_BUFF_SIZE : Lists(h, L, Forward(h, a), n)
<1> DEFINE N == DEFAULT_BUFF_SIZE
           link == [d \in {NULL} \cup Cell |-> IF d = NULL THEN NULL ELSE h[d].next]
<1>1. PICK f : /\ Chain(f, a, link, N)
               /\ Walk(a, link) = [i \in {j \in 1 .. DEFAULT_BUFF_SIZE : f[j] # NULL} |-> f[i]]
  <2> HIDE DEF link
  <2>. QED  BY WalkIsChain
<1>2. /\ f[1] = a
      /\ \A i \in 1 .. N : i # 1 => f[i] = link[f[i - 1]]
      /\ Forward(h, a) = [i \in {j \in 1 .. DEFAULT_BUFF_SIZE : f[j] # NULL} |-> f[i]]
  <2>1. 1 \in 1 .. N
    BY CapacityAssumption
  <2>2. Forward(h, a) = Walk(a, link)
    BY DEF Forward
  <2> HIDE DEF link
  <2>. QED  BY <2>1, <2>2, <1>1 DEF Chain
<1>3. /\ \A c \in L : /\ h[c].start_seqnum_inclusive \in Nat
                       /\ h[c].end_seqnum_inclusive \in Nat
                       /\ h[c].start_seqnum_inclusive <= h[c].end_seqnum_inclusive
                       /\ c # NULL /\ link[c] = h[c].next
      /\ link[NULL] = NULL
  BY CellFacts DEF Heap, CellType, Ordered
<1> HIDE DEF link
<1>4. \A c \in L : \/ link[c] \in L /\ h[c].end_seqnum_inclusive < h[link[c]].start_seqnum_inclusive
                   \/ link[c] = NULL
  BY <1>3 DEF NextLinks, Leftmost, RightOf
(* The loop stays in L until it gets to NULL.                              *)
<1>5. \A i \in 1 .. N : f[i] \in L \/ f[i] = NULL
  <2> DEFINE bad == {i \in 1 .. N : ~(f[i] \in L \/ f[i] = NULL)}
  <2> SUFFICES ASSUME bad # {} PROVE FALSE
    OBVIOUS
  <2> DEFINE i == Min(bad)
  <2>1. i \in bad /\ \A j \in bad : i <= j
    <3>1. bad \subseteq Nat
      OBVIOUS
    <3> HIDE DEF bad
    <3>. QED  BY <3>1, MinIsLeast
  <2> HIDE DEF i
  <2>2. i \in 1 .. N /\ ~(f[i] \in L \/ f[i] = NULL)
    BY <2>1
  <2>3. i # 1
    BY <2>2, <1>2 DEF Leftmost
  <2>4. i - 1 \in 1 .. N /\ i - 1 \notin bad
    <3>1. i - 1 \in 1 .. N /\ i - 1 < i
      BY <2>2, <2>3, CapacityAssumption
    <3>2. ~(i <= i - 1)
      BY <2>2, CapacityAssumption
    <3> HIDE DEF bad
    <3>. QED  BY <3>1, <3>2, <2>1
  <2>5. f[i - 1] \in L \/ f[i - 1] = NULL
    BY <2>4
  <2>. QED  BY <2>2, <2>3, <2>5, <1>2, <1>3, <1>4
(* It goes to the right.                                                   *)
<1>6. \A i, j \in 1 .. N : i < j /\ f[j] \in L =>
        f[i] \in L /\ h[f[i]].end_seqnum_inclusive < h[f[j]].start_seqnum_inclusive
  <2> DEFINE bad == {j \in 1 .. N : f[j] \in L /\ \E i \in 1 .. N : i < j /\
               ~(f[i] \in L /\ h[f[i]].end_seqnum_inclusive < h[f[j]].start_seqnum_inclusive)}
  <2> SUFFICES ASSUME bad # {} PROVE FALSE
    OBVIOUS
  <2> DEFINE j == Min(bad)
  <2>1. j \in bad /\ \A k \in bad : j <= k
    <3>1. bad \subseteq Nat
      OBVIOUS
    <3> HIDE DEF bad
    <3>. QED  BY <3>1, MinIsLeast
  <2> HIDE DEF j
  <2>2. PICK i \in 1 .. N : i < j /\
          ~(f[i] \in L /\ h[f[i]].end_seqnum_inclusive < h[f[j]].start_seqnum_inclusive)
    BY <2>1
  <2>3. j \in 1 .. N /\ f[j] \in L /\ j - 1 \in 1 .. N /\ j # 1 /\ ~(j <= j - 1)
    BY <2>1, <2>2, CapacityAssumption
  <2>4. f[j - 1] \in L /\ h[f[j - 1]].end_seqnum_inclusive < h[f[j]].start_seqnum_inclusive
    BY <2>3, <1>2, <1>3, <1>4, <1>5
  <2>5. i # j - 1
    BY <2>2, <2>4
  <2>6. i < j - 1
    BY <2>2, <2>3, <2>5, CapacityAssumption
  <2>7. j - 1 \notin bad
    <3> HIDE DEF bad
    <3>. QED  BY <2>1, <2>3
  <2>8. f[i] \in L /\ h[f[i]].end_seqnum_inclusive < h[f[j - 1]].start_seqnum_inclusive
    BY <2>3, <2>4, <2>6, <2>7
  <2>. QED  BY <2>2, <2>3, <2>4, <2>8, <1>3
(* It misses no cell of L, or it would have come by more cells than there are. *)
<1>7. ASSUME NEW e \in L PROVE \E i \in 1 .. N : f[i] = e
  <2> SUFFICES ASSUME \A i \in 1 .. N : f[i] # e PROVE FALSE
    OBVIOUS
  <2> DEFINE bad == {i \in 1 .. N : ~(f[i] \in L /\
                      h[f[i]].end_seqnum_inclusive < h[e].start_seqnum_inclusive)}
  <2>1. bad = {}
    <3> SUFFICES ASSUME bad # {} PROVE FALSE
      OBVIOUS
    <3> DEFINE i == Min(bad)
    <3>1. i \in bad /\ \A j \in bad : i <= j
      <4>1. bad \subseteq Nat
        OBVIOUS
      <4> HIDE DEF bad
      <4>. QED  BY <4>1, MinIsLeast
    <3> HIDE DEF i
    <3>2. i \in 1 .. N /\ f[i] # e
      BY <3>1
    <3>3. ASSUME NEW S \in SUBSET L, e \in S, Leftmost(h, S, f[i])
          PROVE  FALSE
      <4>1. f[i] \in L /\ h[f[i]].start_seqnum_inclusive <= h[e].start_seqnum_inclusive
        BY <3>3 DEF Leftmost
      <4>2. h[f[i]].end_seqnum_inclusive < h[e].start_seqnum_inclusive
        BY <4>1, <3>2, <1>3 DEF Ordered, CellsApart
      <4>. QED  BY <4>1, <4>2, <3>1
    <3>4. i # 1
      BY <3>3, <1>2
    <3>5. i - 1 \in 1 .. N /\ ~(i <= i - 1)
      BY <3>2, <3>4, CapacityAssumption
    <3>6. i - 1 \notin bad
      <4> HIDE DEF bad
      <4>. QED  BY <3>1, <3>5
    <3>7. f[i - 1] \in L /\ h[f[i - 1]].end_seqnum_inclusive < h[e].start_seqnum_inclusive
      BY <3>5, <3>6
    <3>8. Leftmost(h, RightOf(h, L, h[f[i - 1]].end_seqnum_inclusive), f[i])
      BY <3>2, <3>4, <3>7, <1>2, <1>3 DEF NextLinks
    <3>9. e \in RightOf(h, L, h[f[i - 1]].end_seqnum_inclusive)
      BY <3>7, <1>3 DEF RightOf
    <3>. QED  BY <3>3, <3>8, <3>9 DEF RightOf
  <2>2. \A i \in 1 .. N : f[i] \in L /\ f[i] # e
    BY <2>1
  <2> DEFINE g == [i \in 1 .. N |-> f[i]]
             rest == Cell \ {e}
  <2>3. g \in [1 .. N -> rest]
    BY <2>2
  <2>4. /\ IsFiniteSet(rest) /\ IsFiniteSet(1 .. N)
        /\ Cardinality(rest) < Cardinality(1 .. N)
    <3>1. e \in Cell
      OBVIOUS
    <3>2. /\ IsFiniteSet(Cell \ {e})
          /\ Cardinality(Cell \ {e}) = Cardinality(Cell) - 1
      BY <3>1, CellFacts, FS_RemoveElement
    <3>3. IsFiniteSet(1 .. N) /\ Cardinality(1 .. N) = N
      BY FS_Interval, CapacityAssumption
    <3>. QED  BY <3>2, <3>3, CellFacts, CapacityAssumption
  <2>5. PICK i \in 1 .. N, j \in 1 .. N : i # j /\ g[i] = g[j]
    <3> DEFINE rounds == 1 .. N
    <3>1. g \in [rounds -> rest]
      BY <2>3
    <3>2. IsFiniteSet(rest) /\ IsFiniteSet(rounds) /\ Cardinality(rest) < Cardinality(rounds)
      BY <2>4
    <3> HIDE DEF g, rest, rounds
    <3>3. \E i, j \in rounds : i # j /\ g[i] = g[j]
      BY <3>1, <3>2, FS_PigeonHole
    <3>. QED  BY <3>3 DEF rounds
  <2>6. ASSUME NEW k \in 1 .. N, NEW l \in 1 .. N, k < l, f[k] = f[l]
        PROVE  FALSE
    BY <2>6, <2>2, <1>6, <1>3
  <2>7. f[i] = f[j] /\ (i < j \/ j < i)
    BY <2>5, CapacityAssumption
  <2>. QED  BY <2>6, <2>7
<1>8. PICK n \in 0 .. N : {j \in 1 .. DEFAULT_BUFF_SIZE : f[j] # NULL} = 1 .. n
  <2> DEFINE none == {j \in 1 .. N : f[j] = NULL}
  <2>1. CASE none = {}
    <3>1. {j \in 1 .. DEFAULT_BUFF_SIZE : f[j] # NULL} = 1 .. N
      BY <2>1
    <3>. QED  BY <3>1, CapacityAssumption
  <2>2. CASE none # {}
    <3> DEFINE m == Min(none)
    <3>1. m \in none /\ \A j \in none : m <= j
      <4>1. none \subseteq Nat
        OBVIOUS
      <4> HIDE DEF none
      <4>. QED  BY <4>1, <2>2, MinIsLeast
    <3> HIDE DEF m
    <3>2. m \in 1 .. N /\ f[m] = NULL
      BY <3>1
    <3>3. m - 1 \in 0 .. N
      BY <3>2, CapacityAssumption
    <3>4. ASSUME NEW j \in 1 .. N PROVE f[j] # NULL <=> j <= m - 1
      <4>1. j < m => f[j] # NULL
        BY <3>1, <3>2, CapacityAssumption
      <4>2. m < j => f[j] = NULL
        BY <3>2, <1>3, <1>5, <1>6
      <4>. QED  BY <4>1, <4>2, <3>2, CapacityAssumption
    <3>5. {j \in 1 .. DEFAULT_BUFF_SIZE : f[j] # NULL} = 1 .. m - 1
      BY <3>3, <3>4, CapacityAssumption
    <3>. QED  BY <3>3, <3>5
  <2>. QED  BY <2>1, <2>2
<1>9. n \in Nat /\ (\A i \in 1 .. n : i \in 1 .. N /\ f[i] \in L)
  <2>1. \A i \in 1 .. n : i \in 1 .. N /\ f[i] # NULL
    BY <1>8
  <2>. QED  BY <2>1, <1>5, CapacityAssumption
<1>10. Forward(h, a) = [i \in 1 .. n |-> f[i]]
  BY <1>2, <1>8
<1>11. \A c \in L : \E i \in 1 .. n : f[i] = c
  BY <1>7, <1>8, <1>3
<1>12. Lists(h, L, Forward(h, a), n)
  BY <1>6, <1>9, <1>10, <1>11 DEF Lists
<1>. QED  BY <1>12

(* What a list says of the numbers in its cells.                           *)
LEMMA ListNumbers ==
  ASSUME NEW h \in Heap, NEW L \in SUBSET Cell, NEW s, NEW n,
         Ordered(h, L), Lists(h, L, s, n)
  PROVE  /\ n \in Nat /\ DOMAIN s = 1 .. n
         /\ \A i \in 1 .. n : s[i] \in L /\ s[i] # NULL
         /\ \A c \in L : /\ h[c].start_seqnum_inclusive \in Nat
                         /\ h[c].end_seqnum_inclusive \in Nat
                         /\ h[c].start_seqnum_inclusive <= h[c].end_seqnum_inclusive
         /\ \A i, j \in 1 .. n : i < j =>
              /\ h[s[i]].end_seqnum_inclusive < h[s[j]].start_seqnum_inclusive
              /\ h[s[i]].start_seqnum_inclusive < h[s[j]].start_seqnum_inclusive
              /\ h[s[i]].end_seqnum_inclusive < h[s[j]].end_seqnum_inclusive
<1>1. \A c \in L : /\ h[c].start_seqnum_inclusive \in Nat
                   /\ h[c].end_seqnum_inclusive \in Nat
                   /\ h[c].start_seqnum_inclusive <= h[c].end_seqnum_inclusive
                   /\ c # NULL
  BY CellFacts DEF Heap, CellType, Ordered
<1>2. /\ n \in Nat /\ DOMAIN s = 1 .. n
      /\ \A i \in 1 .. n : s[i] \in L
      /\ \A i, j \in 1 .. n : i < j =>
           h[s[i]].end_seqnum_inclusive < h[s[j]].start_seqnum_inclusive
  BY DEF Lists
<1>3. ASSUME NEW i \in 1 .. n, NEW j \in 1 .. n, i < j
      PROVE  /\ h[s[i]].start_seqnum_inclusive < h[s[j]].start_seqnum_inclusive
             /\ h[s[i]].end_seqnum_inclusive < h[s[j]].end_seqnum_inclusive
  <2>1. /\ h[s[i]].end_seqnum_inclusive < h[s[j]].start_seqnum_inclusive
        /\ s[i] \in L /\ s[j] \in L
    BY <1>2, <1>3
  <2>. QED  BY <2>1, <1>1
<1>. QED  BY <1>1, <1>2, <1>3

(* The rightmost of the first m cells is the m-th.                         *)
LEMMA RightmostIs ==
  ASSUME NEW h \in Heap, NEW L \in SUBSET Cell, NEW s, NEW n,
         Ordered(h, L), Lists(h, L, s, n),
         NEW m \in 0 .. n, NEW x, Rightmost(h, {s[j] : j \in 1 .. m}, x)
  PROVE  x = IF m = 0 THEN NULL ELSE s[m]
<1>1. n \in Nat
  BY ListNumbers
<1>2. CASE m = 0
  BY <1>1, <1>2 DEF Rightmost
<1>3. CASE m # 0
  <2>1. m \in 1 .. m /\ m \in 1 .. n /\ \A j \in 1 .. m : j \in 1 .. n /\ (j < m \/ j = m)
    BY <1>1, <1>3
  <2>2. PICK j \in 1 .. m : x = s[j]
    BY <2>1 DEF Rightmost
  <2>3. h[s[m]].end_seqnum_inclusive <= h[s[j]].end_seqnum_inclusive
    BY <2>1, <2>2 DEF Rightmost
  <2>4. ~(j < m)
    BY <2>1, <2>3, ListNumbers
  <2>. QED  BY <2>1, <2>2, <2>4, <1>3
<1>. QED  BY <1>2, <1>3

(* What is left of the k-th cell ends with the one before it.              *)
LEMMA PrevIs ==
  ASSUME NEW h \in Heap, NEW L \in SUBSET Cell, NEW s, NEW n,
         Ordered(h, L), Lists(h, L, s, n), NEW k \in 1 .. n,
         NEW x, Rightmost(h, LeftOf(h, L, h[s[k]].start_seqnum_inclusive), x)
  PROVE  x = IF k = 1 THEN NULL ELSE s[k - 1]
<1> DEFINE m == k - 1
           S == {s[j] : j \in 1 .. m}
<1>1. n \in Nat /\ s[k] \in L /\ m \in 0 .. n /\ (m = 0 <=> k = 1)
  BY ListNumbers
<1>2. ASSUME NEW c \in L, h[c].end_seqnum_inclusive < h[s[k]].start_seqnum_inclusive
      PROVE  c \in S
  <2>1. PICK j \in 1 .. n : c = s[j]
    BY DEF Lists
  <2>2. j # k /\ ~(k < j)
    BY <2>1, <1>2, <1>1, ListNumbers
  <2>3. j \in 1 .. m
    BY <2>2, <1>1
  <2>. QED  BY <2>1, <2>3
<1>3. ASSUME NEW j \in 1 .. m
      PROVE  s[j] \in L /\ h[s[j]].end_seqnum_inclusive < h[s[k]].start_seqnum_inclusive
  <2>1. j \in 1 .. n /\ j < k
    BY <1>1
  <2>. QED  BY <2>1, ListNumbers
<1>4. LeftOf(h, L, h[s[k]].start_seqnum_inclusive) = S
  BY <1>2, <1>3 DEF LeftOf
<1>5. Rightmost(h, S, x)
  BY <1>4
<1> HIDE DEF m
<1>6. x = IF m = 0 THEN NULL ELSE s[m]
  BY <1>1, <1>5, RightmostIs
<1>. QED  BY <1>1, <1>6 DEF m

(* A walk along prev from the rightmost cell on is the list backwards.     *)
LEMMA BackwardReverses ==
  ASSUME NEW h \in Heap, NEW L \in SUBSET Cell, NEW b, NEW s,
         NEW n \in 0 .. DEFAULT_BUFF_SIZE,
         Ordered(h, L), PrevLinks(h, L), Rightmost(h, L, b), Lists(h, L, s, n)
  PROVE  Backward(h, b) = [i \in 1 .. n |-> s[n + 1 - i]]
<1> DEFINE N == DEFAULT_BUFF_SIZE
           link == [d \in {NULL} \cup Cell |-> IF d = NULL THEN NULL ELSE h[d].prev]
<1>1. PICK f : /\ Chain(f, b, link, N)
               /\ Walk(b, link) = [i \in {j \in 1 .. DEFAULT_BUFF_SIZE : f[j] # NULL} |-> f[i]]
  <2> HIDE DEF link
  <2>. QED  BY WalkIsChain
<1>2. /\ f[1] = b
      /\ \A i \in 1 .. N : i # 1 => f[i] = link[f[i - 1]]
      /\ Backward(h, b) = [i \in {j \in 1 .. DEFAULT_BUFF_SIZE : f[j] # NULL} |-> f[i]]
  <2>1. 1 \in 1 .. N
    BY CapacityAssumption
  <2>2. Backward(h, b) = Walk(b, link)
    BY DEF Backward
  <2> HIDE DEF link
  <2>. QED  BY <2>1, <2>2, <1>1 DEF Chain
<1>3. (\A c \in L : link[c] = h[c].prev) /\ link[NULL] = NULL
  BY CellFacts DEF Heap, CellType
<1> HIDE DEF link
<1>4. n \in Nat /\ N \in Nat /\ N >= 2 /\ n <= N
  BY CapacityAssumption
<1>5. \A i \in 1 .. n : s[i] \in L /\ s[i] # NULL
  BY ListNumbers
<1> DEFINE back(i) == IF i <= n THEN s[n + 1 - i] ELSE NULL
<1>6. f[1] = back(1)
  <2>1. L = {s[j] : j \in 1 .. n}
    BY DEF Lists
  <2>2. b = IF n = 0 THEN NULL ELSE s[n]
    BY <2>1, <1>4, RightmostIs
  <2>3. n # 0 => 1 <= n /\ n + 1 - 1 = n
    BY <1>4
  <2>. QED  BY <2>2, <2>3, <1>2, <1>4
<1>7. ASSUME NEW i \in 1 .. N, i # 1, f[i - 1] = back(i - 1)
      PROVE  f[i] = back(i)
  <2>1. f[i] = link[back(i - 1)]
    BY <1>7, <1>2
  <2>2. CASE i - 1 <= n
    <3> DEFINE k == n + 1 - (i - 1)
    <3>1. k \in 1 .. n /\ back(i - 1) = s[k]
      BY <2>2, <1>4, <1>7
    <3> HIDE DEF k
    <3>2. f[i] = h[s[k]].prev /\ s[k] \in L
      BY <3>1, <2>1, <1>3, <1>5
    <3>3. Rightmost(h, LeftOf(h, L, h[s[k]].start_seqnum_inclusive), f[i])
      BY <3>2 DEF PrevLinks
    <3>5. f[i] = IF k = 1 THEN NULL ELSE s[k - 1]
      BY <3>1, <3>3, PrevIs
    <3>6. /\ k = 1 => ~(i <= n)
          /\ k # 1 => i <= n /\ k - 1 = n + 1 - i
      BY <1>4, <3>1, <2>2 DEF k
    <3>. QED  BY <3>5, <3>6
  <2>3. CASE ~(i - 1 <= n)
    <3>1. ~(i <= n)
      BY <2>3, <1>4
    <3>. QED  BY <3>1, <2>1, <2>3, <1>3
  <2>. QED  BY <2>2, <2>3
<1> HIDE DEF back
<1>8. \A i \in 1 .. N : f[i] = back(i)
  <2> DEFINE bad == {i \in 1 .. N : f[i] # back(i)}
  <2> SUFFICES ASSUME bad # {} PROVE FALSE
    OBVIOUS
  <2> DEFINE i == Min(bad)
  <2>1. i \in bad /\ \A j \in bad : i <= j
    <3>1. bad \subseteq Nat
      OBVIOUS
    <3> HIDE DEF bad
    <3>. QED  BY <3>1, MinIsLeast
  <2> HIDE DEF i
  <2>2. i \in 1 .. N /\ i # 1
    BY <2>1, <1>6
  <2>3. i - 1 \in 1 .. N /\ ~(i <= i - 1)
    BY <2>2, <1>4
  <2>4. i - 1 \notin bad
    <3> HIDE DEF bad
    <3>. QED  BY <2>1, <2>3
  <2>. QED  BY <2>1, <2>2, <2>3, <2>4, <1>7
<1>9. ASSUME NEW i \in 1 .. N PROVE f[i] # NULL <=> i <= n
  <2>1. i <= n => n + 1 - i \in 1 .. n
    BY <1>4
  <2>. QED  BY <2>1, <1>5, <1>8 DEF back
<1>10. {j \in 1 .. DEFAULT_BUFF_SIZE : f[j] # NULL} = 1 .. n
  BY <1>9, <1>4
<1>11. \A i \in 1 .. n : f[i] = s[n + 1 - i]
  BY <1>8, <1>4 DEF back
<1>. QED  BY <1>2, <1>10, <1>11

(* The loop from the left finds the leftmost cell of S ...                 *)
LEMMA FirstFromLeft ==
  ASSUME NEW h \in Heap, NEW L \in SUBSET Cell, NEW s, NEW n,
         Ordered(h, L), Lists(h, L, s, n), NEW S
  PROVE  Leftmost(h, L \cap S, FirstCell(s, S))
<1> DEFINE found == {i \in 1 .. n : s[i] \in S}
           k == Min(found)
<1>1. n \in Nat /\ DOMAIN s = 1 .. n
  BY ListNumbers
<1>2. FirstCell(s, S) = IF found = {} THEN NULL ELSE s[k]
  BY <1>1 DEF FirstCell
<1>3. \A c \in L \cap S : \E i \in found : c = s[i]
  BY DEF Lists
<1>4. CASE found = {}
  BY <1>2, <1>3, <1>4 DEF Leftmost
<1>5. CASE found # {}
  <2>1. k \in found /\ \A i \in found : k <= i
    <3>1. found \subseteq Nat
      OBVIOUS
    <3> HIDE DEF found
    <3>. QED  BY <3>1, <1>5, MinIsLeast
  <2> HIDE DEF k
  <2>2. k \in 1 .. n /\ s[k] \in L \cap S
    BY <2>1, ListNumbers
  <2>3. ASSUME NEW c \in L \cap S
        PROVE  h[s[k]].start_seqnum_inclusive <= h[c].start_seqnum_inclusive
    <3>1. PICK i \in found : c = s[i]
      BY <1>3
    <3>2. i \in 1 .. n /\ (k = i \/ k < i)
      BY <3>1, <2>1, <1>1
    <3>. QED  BY <3>1, <3>2, <2>2, ListNumbers
  <2>. QED  BY <1>2, <1>5, <2>2, <2>3 DEF Leftmost
<1>. QED  BY <1>4, <1>5

(* ... and the one from the right the rightmost.                           *)
LEMMA FirstFromRight ==
  ASSUME NEW h \in Heap, NEW L \in SUBSET Cell, NEW s, NEW n,
         Ordered(h, L), Lists(h, L, s, n), NEW S
  PROVE  Rightmost(h, L \cap S, FirstCell([i \in 1 .. n |-> s[n + 1 - i]], S))
<1> DEFINE r == [i \in 1 .. n |-> s[n + 1 - i]]
           found == {i \in 1 .. n : s[n + 1 - i] \in S}
           k == Min(found)
<1>1. n \in Nat /\ DOMAIN r = 1 .. n
  BY ListNumbers
<1>2. FirstCell(r, S) = IF found = {} THEN NULL ELSE r[k]
  <2>1. {i \in DOMAIN r : r[i] \in S} = found
    BY <1>1
  <2> HIDE DEF r
  <2>. QED  BY <2>1 DEF FirstCell
<1>3. ASSUME NEW c \in L \cap S PROVE \E i \in found : c = s[n + 1 - i]
  <2>1. PICK j \in 1 .. n : c = s[j]
    BY DEF Lists
  <2> DEFINE i == n + 1 - j
  <2>2. i \in 1 .. n /\ n + 1 - i = j
    BY <1>1
  <2> HIDE DEF i
  <2>. QED  BY <2>1, <2>2
<1>4. CASE found = {}
  BY <1>2, <1>3, <1>4 DEF Rightmost
<1>5. CASE found # {}
  <2>1. k \in found /\ \A i \in found : k <= i
    <3>1. found \subseteq Nat
      OBVIOUS
    <3> HIDE DEF found
    <3>. QED  BY <3>1, <1>5, MinIsLeast
  <2> HIDE DEF k
  <2>2. k \in 1 .. n /\ n + 1 - k \in 1 .. n /\ r[k] = s[n + 1 - k]
    BY <2>1, <1>1
  <2>3. s[n + 1 - k] \in L \cap S
    BY <2>1, <2>2, ListNumbers
  <2>4. ASSUME NEW c \in L \cap S
        PROVE  h[c].end_seqnum_inclusive <= h[s[n + 1 - k]].end_seqnum_inclusive
    <3>1. PICK i \in found : c = s[n + 1 - i]
      BY <1>3
    <3>2. n + 1 - i \in 1 .. n /\ (n + 1 - k = n + 1 - i \/ n + 1 - i < n + 1 - k)
      BY <3>1, <2>1, <2>2, <1>1
    <3>. QED  BY <3>1, <3>2, <2>2, <2>3, ListNumbers
  <2>. QED  BY <1>2, <1>5, <2>2, <2>3, <2>4 DEF Rightmost
<1>. QED  BY <1>4, <1>5

(* What the clean-up frees, through the prev of each successor, is every   *)
(* cell from left_end to right_end.                                        *)
LEMMA BetweenIs ==
  ASSUME NEW h \in Heap, NEW L \in SUBSET Cell, NEW l \in L, NEW r \in L,
         Ordered(h, L), NextLinks(h, L), PrevLinks(h, L),
         h[l].start_seqnum_inclusive <= h[r].start_seqnum_inclusive
  PROVE  Between(h, l, r) =
           {c \in L : /\ h[l].start_seqnum_inclusive <= h[c].start_seqnum_inclusive
                      /\ h[c].start_seqnum_inclusive <= h[r].start_seqnum_inclusive}
<1> DEFINE K == {c \in L : h[l].start_seqnum_inclusive <= h[c].start_seqnum_inclusive}
           s == Forward(h, l)
           stop == CHOOSE j \in DOMAIN s : s[j] = r
<1>1. \A c \in L : /\ h[c].start_seqnum_inclusive \in Nat
                   /\ h[c].end_seqnum_inclusive \in Nat
                   /\ h[c].start_seqnum_inclusive <= h[c].end_seqnum_inclusive
  BY DEF Heap, CellType, Ordered
<1>2. K \in SUBSET Cell /\ l \in K /\ r \in K /\ Ordered(h, K)
  BY <1>1 DEF Ordered
<1>3. NextLinks(h, K)
  <2> SUFFICES ASSUME NEW c \in K
               PROVE  Leftmost(h, RightOf(h, K, h[c].end_seqnum_inclusive), h[c].next)
    BY DEF NextLinks
  <2>1. \A d \in L : h[d].start_seqnum_inclusive > h[c].end_seqnum_inclusive => d \in K
    BY <1>1
  <2>2. RightOf(h, K, h[c].end_seqnum_inclusive) = RightOf(h, L, h[c].end_seqnum_inclusive)
    BY <2>1 DEF RightOf
  <2>. QED  BY <2>2 DEF NextLinks
<1>4. Leftmost(h, K, l)
  BY <1>2 DEF Leftmost
<1>5. PICK n \in 0 .. DEFAULT_BUFF_SIZE : Lists(h, K, s, n)
  <2> HIDE DEF K
  <2>. QED  BY <1>2, <1>3, <1>4, ForwardLists
<1> HIDE DEF s
<1>6. /\ n \in Nat /\ DOMAIN s = 1 .. n
      /\ \A i \in 1 .. n : s[i] \in K
      /\ \A i, j \in 1 .. n : i < j =>
           /\ h[s[i]].end_seqnum_inclusive < h[s[j]].start_seqnum_inclusive
           /\ h[s[i]].start_seqnum_inclusive < h[s[j]].start_seqnum_inclusive
           /\ h[s[i]].end_seqnum_inclusive < h[s[j]].end_seqnum_inclusive
      /\ \A c \in K : \E i \in 1 .. n : s[i] = c
  <2> HIDE DEF K
  <2>. QED  BY <1>2, <1>5, ListNumbers DEF Lists
<1>7. stop \in 1 .. n /\ s[stop] = r
  BY <1>2, <1>6
<1> HIDE DEF stop
<1>8. ASSUME NEW i \in 2 .. n PROVE h[s[i]].prev = s[i - 1]
  <2> DEFINE x == h[s[i]].prev
  <2>1. i \in 1 .. n /\ i - 1 \in 1 .. n /\ i - 1 < i /\ s[i] \in L /\ s[i - 1] \in L
    BY <1>6
  <2>2. s[i - 1] \in LeftOf(h, L, h[s[i]].start_seqnum_inclusive)
    BY <2>1, <1>6 DEF LeftOf
  <2>3. /\ x \in L /\ h[x].end_seqnum_inclusive < h[s[i]].start_seqnum_inclusive
        /\ h[s[i - 1]].end_seqnum_inclusive <= h[x].end_seqnum_inclusive
    BY <2>1, <2>2 DEF PrevLinks, Rightmost, LeftOf
  <2> HIDE DEF x
  <2>4. x \in K
    <3> SUFFICES ASSUME x \notin K PROVE FALSE
      OBVIOUS
    <3>1. h[x].start_seqnum_inclusive < h[l].start_seqnum_inclusive /\ x # l
      BY <2>3, <1>1
    <3>2. h[x].end_seqnum_inclusive < h[l].start_seqnum_inclusive
      BY <3>1, <2>3, <1>1 DEF Ordered, CellsApart
    <3>3. h[l].start_seqnum_inclusive <= h[s[i - 1]].start_seqnum_inclusive
      BY <2>1, <1>6
    <3>. QED  BY <3>2, <3>3, <2>1, <2>3, <1>1
  <2>5. PICK j \in 1 .. n : x = s[j]
    BY <2>4, <1>6
  <2>6. ~(j = i) /\ ~(i < j) /\ ~(j < i - 1)
    <3>1. s[j] \in L /\ h[s[j]].end_seqnum_inclusive < h[s[i]].start_seqnum_inclusive
      BY <2>3, <2>5
    <3>2. ~(j = i)
      BY <3>1, <2>1, <1>1
    <3>4. ~(i < j)
      <4>1. i < j => h[s[i]].end_seqnum_inclusive < h[s[j]].end_seqnum_inclusive
        BY <2>1, <1>6
      <4>. QED  BY <4>1, <3>1, <2>1, <1>1
    <3>3. ~(j < i - 1)
      BY <3>1, <2>1, <2>3, <2>5, <1>1, <1>6
    <3>. QED  BY <3>2, <3>3, <3>4
  <2>7. j = i - 1
    BY <2>6, <2>1, <1>6
  <2>. QED  BY <2>5, <2>7 DEF x
<1>9. Between(h, l, r) = {h[s[i]].prev : i \in 2 .. stop} \cup {r}
  BY DEF Between, s, stop
<1>10. ASSUME NEW c \in L,
              h[l].start_seqnum_inclusive <= h[c].start_seqnum_inclusive,
              h[c].start_seqnum_inclusive <= h[r].start_seqnum_inclusive
       PROVE  c \in Between(h, l, r)
  <2>1. PICK i \in 1 .. n : s[i] = c
    BY <1>10, <1>6
  <2>2. ~(stop < i)
    BY <2>1, <1>1, <1>6, <1>7, <1>10
  <2>3. CASE i = stop
    BY <2>1, <2>3, <1>7, <1>9
  <2>4. CASE i # stop
    <3>1. i + 1 \in 2 .. stop /\ i + 1 \in 2 .. n /\ i + 1 - 1 = i
      BY <2>2, <2>4, <1>6, <1>7
    <3>2. h[s[i + 1]].prev = c
      BY <3>1, <2>1, <1>8
    <3>. QED  BY <3>1, <3>2, <1>9
  <2>. QED  BY <2>3, <2>4
<1>11. ASSUME NEW c \in Between(h, l, r)
       PROVE  /\ c \in L
              /\ h[l].start_seqnum_inclusive <= h[c].start_seqnum_inclusive
              /\ h[c].start_seqnum_inclusive <= h[r].start_seqnum_inclusive
  <2>1. CASE c = r
    BY <2>1, <1>1
  <2>2. CASE c # r
    <3>1. PICK i \in 2 .. stop : c = h[s[i]].prev
      BY <2>2, <1>9
    <3>2. i \in 2 .. n /\ i - 1 \in 1 .. n /\ i - 1 < stop
      BY <3>1, <1>6, <1>7
    <3>3. c = s[i - 1]
      BY <3>1, <3>2, <1>8
    <3>. QED  BY <3>2, <3>3, <1>1, <1>6, <1>7
  <2>. QED  BY <2>1, <2>2
<1>. QED  BY <1>10, <1>11

-----------------------------------------------------------------------------
(* Changing a list.                                                        *)

(* L, from a to b, is a doubly linked list in order.                       *)
Linked(h, L, a, b) ==
  /\ Ordered(h, L) /\ NextLinks(h, L) /\ PrevLinks(h, L)
  /\ Leftmost(h, L, a) /\ Rightmost(h, L, b)

(* What the links of a list in order lead to, cell by cell.                *)
LEMMA LinkFacts ==
  ASSUME NEW h \in Heap, NEW L \in SUBSET Cell, NextLinks(h, L), PrevLinks(h, L),
         NEW c \in L
  PROVE  LET lo(d) == h[d].start_seqnum_inclusive
             hi(d) == h[d].end_seqnum_inclusive
         IN
         /\ \/ h[c].next = NULL /\ \A d \in L : ~(hi(c) < lo(d))
            \/ /\ h[c].next \in L /\ hi(c) < lo(h[c].next)
               /\ \A d \in L : hi(c) < lo(d) => lo(h[c].next) <= lo(d)
         /\ \/ h[c].prev = NULL /\ \A d \in L : ~(hi(d) < lo(c))
            \/ /\ h[c].prev \in L /\ hi(h[c].prev) < lo(c)
               /\ \A d \in L : hi(d) < lo(c) => hi(d) <= hi(h[c].prev)
<1> DEFINE lo(d) == h[d].start_seqnum_inclusive
           hi(d) == h[d].end_seqnum_inclusive
<1>1. /\ Leftmost(h, RightOf(h, L, hi(c)), h[c].next)
      /\ Rightmost(h, LeftOf(h, L, lo(c)), h[c].prev)
  BY DEF NextLinks, PrevLinks
<1>2. \A d \in L : lo(d) \in Nat /\ hi(d) \in Nat
  BY DEF Heap, CellType
<1>3. \/ h[c].next = NULL /\ \A d \in L : ~(hi(c) < lo(d))
      \/ /\ h[c].next \in L /\ hi(c) < lo(h[c].next)
         /\ \A d \in L : hi(c) < lo(d) => lo(h[c].next) <= lo(d)
  BY <1>1, <1>2 DEF Leftmost, RightOf
<1>4. \/ h[c].prev = NULL /\ \A d \in L : ~(hi(d) < lo(c))
      \/ /\ h[c].prev \in L /\ hi(h[c].prev) < lo(c)
         /\ \A d \in L : hi(d) < lo(c) => hi(d) <= hi(h[c].prev)
  BY <1>1 DEF Rightmost, LeftOf
<1>. QED  BY <1>3, <1>4

(* The cell seg, which covers the cells of F, took their place: it points  *)
(* to its neighbours, and they to it.                                      *)
Spliced(h, g, L, F, seg) ==
  LET first == g[seg].start_seqnum_inclusive
      last  == g[seg].end_seqnum_inclusive
  IN
  /\ first <= last
  /\ \A c \in F : first <= h[c].start_seqnum_inclusive /\ h[c].end_seqnum_inclusive <= last
  /\ \A c \in L \ F : h[c].end_seqnum_inclusive < first \/ last < h[c].start_seqnum_inclusive
  /\ Rightmost(h, LeftOf(h, L \ F, first), g[seg].prev)
  /\ Leftmost(h, RightOf(h, L \ F, last), g[seg].next)
  /\ \A c \in L \ F :
       /\ g[c].start_seqnum_inclusive = h[c].start_seqnum_inclusive
       /\ g[c].end_seqnum_inclusive = h[c].end_seqnum_inclusive
       /\ g[c].next = IF c = g[seg].prev THEN seg ELSE h[c].next
       /\ g[c].prev = IF c = g[seg].next THEN seg ELSE h[c].prev

(* Then the list is linked as before, with a new end where seg has no      *)
(* neighbour.                                                              *)
LEMMA SpliceLinked ==
  ASSUME NEW h \in Heap, NEW g \in Heap, NEW L \in SUBSET Cell, NEW F \in SUBSET L,
         NEW seg \in Cell \ L, NEW a, NEW b,
         Linked(h, L, a, b), Spliced(h, g, L, F, seg)
  PROVE  Linked(g, (L \ F) \cup {seg}, IF g[seg].prev = NULL THEN seg ELSE a,
                                       IF g[seg].next = NULL THEN seg ELSE b)
<1> DEFINE R == L \ F
           M == R \cup {seg}
           p == g[seg].prev
           n == g[seg].next
           first == g[seg].start_seqnum_inclusive
           last  == g[seg].end_seqnum_inclusive
           lo(c) == h[c].start_seqnum_inclusive
           hi(c) == h[c].end_seqnum_inclusive
<1>1. /\ \A c \in L : lo(c) \in Nat /\ hi(c) \in Nat /\ lo(c) <= hi(c) /\ c # NULL
      /\ \A c, d \in L : c # d => hi(c) < lo(d) \/ hi(d) < lo(c)
  BY CellFacts DEF Heap, CellType, Linked, Ordered, CellsApart
<1>2. /\ first \in Nat /\ last \in Nat /\ seg # NULL
  BY CellFacts DEF Heap, CellType
<1>3. /\ first <= last
      /\ \A c \in F : first <= lo(c) /\ hi(c) <= last
      /\ \A c \in R : hi(c) < first \/ last < lo(c)
  BY DEF Spliced
<1>4. \A c \in R : /\ g[c].start_seqnum_inclusive = lo(c)
                   /\ g[c].end_seqnum_inclusive = hi(c)
                   /\ g[c].next = IF c = p THEN seg ELSE h[c].next
                   /\ g[c].prev = IF c = n THEN seg ELSE h[c].prev
                   /\ c # seg /\ c \in L /\ c \notin F
  BY DEF Spliced
<1>5. \/ p = NULL /\ \A c \in R : last < lo(c)
      \/ p \in R /\ hi(p) < first /\ \A c \in R : hi(c) < first => hi(c) <= hi(p)
  <2>1. Rightmost(h, LeftOf(h, R, first), p)
    BY DEF Spliced
  <2>. QED  BY <2>1, <1>3 DEF Rightmost, LeftOf
<1>6. \/ n = NULL /\ \A c \in R : hi(c) < first
      \/ n \in R /\ last < lo(n) /\ \A c \in R : last < lo(c) => lo(n) <= lo(c)
  <2>1. Leftmost(h, RightOf(h, R, last), n)
    BY DEF Spliced
  <2>. QED  BY <2>1, <1>3, <1>1, <1>2, <1>4 DEF Leftmost, RightOf
<1>7. /\ \A c \in L : \/ h[c].next = NULL /\ \A d \in L : ~(hi(c) < lo(d))
                      \/ /\ h[c].next \in L /\ hi(c) < lo(h[c].next)
                         /\ \A d \in L : hi(c) < lo(d) => lo(h[c].next) <= lo(d)
      /\ \A c \in L : \/ h[c].prev = NULL /\ \A d \in L : ~(hi(d) < lo(c))
                      \/ /\ h[c].prev \in L /\ hi(h[c].prev) < lo(c)
                         /\ \A d \in L : hi(d) < lo(c) => hi(d) <= hi(h[c].prev)
  BY LinkFacts DEF Linked
<1>8. /\ L = {} \/ (a \in L /\ \A d \in L : lo(a) <= lo(d))
      /\ L = {} \/ (b \in L /\ \A d \in L : hi(d) <= hi(b))
  BY DEF Linked, Leftmost, Rightmost
<1> DEFINE glo(c) == g[c].start_seqnum_inclusive
           ghi(c) == g[c].end_seqnum_inclusive
<1>9. \A c \in M : /\ glo(c) \in Nat /\ ghi(c) \in Nat
                   /\ glo(c) = (IF c = seg THEN first ELSE lo(c))
                   /\ ghi(c) = (IF c = seg THEN last ELSE hi(c))
  BY <1>1, <1>2, <1>4
<1> HIDE DEF p, n, first, last, lo, hi, R
<1>10. Ordered(g, M)
  BY <1>1, <1>3, <1>4, <1>9 DEF Ordered, CellsApart
<1>11. NextLinks(g, M)
  <2> SUFFICES ASSUME NEW c \in M
               PROVE  Leftmost(g, RightOf(g, M, ghi(c)), g[c].next)
    BY DEF NextLinks
  <2>1. SUFFICES \/ g[c].next = NULL /\ \A d \in M : ~(ghi(c) < glo(d))
                 \/ /\ g[c].next \in M /\ ghi(c) < glo(g[c].next)
                    /\ \A d \in M : ghi(c) < glo(d) => glo(g[c].next) <= glo(d)
    BY <1>9 DEF Leftmost, RightOf
  <2>2. CASE c = seg
    BY <2>2, <1>1, <1>2, <1>3, <1>4, <1>6, <1>9 DEF n
  <2>3. CASE c \in R /\ c = p
    BY <2>3, <1>1, <1>2, <1>3, <1>4, <1>5, <1>9
  <2>4. CASE c \in R /\ c # p /\ hi(c) < first
    <3>1. p \in R /\ hi(p) < first /\ hi(c) < lo(p)
      BY <2>4, <1>1, <1>2, <1>3, <1>4, <1>5
    <3>2. /\ g[c].next = h[c].next /\ h[c].next \in L /\ hi(c) < lo(h[c].next)
          /\ \A d \in L : hi(c) < lo(d) => lo(h[c].next) <= lo(d)
          /\ lo(h[c].next) <= lo(p)
      BY <2>4, <3>1, <1>4, <1>7
    <3>3. lo(h[c].next) < first /\ h[c].next \in R
      BY <3>1, <3>2, <1>1, <1>2, <1>3, <1>4 DEF R
    <3>. QED  BY <2>4, <3>2, <3>3, <1>1, <1>2, <1>4, <1>9
  <2>5. CASE c \in R /\ c # p /\ last < lo(c)
    <3>1. g[c].next = h[c].next /\ c \in L
      BY <2>5, <1>4
    <3>2. \A d \in L : hi(c) < lo(d) => d \in R
      BY <2>5, <3>1, <1>1, <1>2, <1>3 DEF R
    <3>3. ~(hi(c) < first)
      BY <2>5, <3>1, <1>1, <1>2, <1>3
    <3>. QED  BY <2>5, <3>1, <3>2, <3>3, <1>4, <1>7, <1>9
  <2>. QED  BY <2>2, <2>3, <2>4, <2>5, <1>3
<1>12. PrevLinks(g, M)
  <2> SUFFICES ASSUME NEW c \in M
               PROVE  Rightmost(g, LeftOf(g, M, glo(c)), g[c].prev)
    BY DEF PrevLinks
  <2>1. SUFFICES \/ g[c].prev = NULL /\ \A d \in M : ~(ghi(d) < glo(c))
                 \/ /\ g[c].prev \in M /\ ghi(g[c].prev) < glo(c)
                    /\ \A d \in M : ghi(d) < glo(c) => ghi(d) <= ghi(g[c].prev)
    BY <1>9 DEF Rightmost, LeftOf
  <2>2. CASE c = seg
    BY <2>2, <1>1, <1>2, <1>3, <1>4, <1>5, <1>9 DEF p
  <2>3. CASE c \in R /\ c = n
    BY <2>3, <1>1, <1>2, <1>3, <1>4, <1>6, <1>9
  <2>4. CASE c \in R /\ c # n /\ last < lo(c)
    <3>1. n \in R /\ last < lo(n) /\ hi(n) < lo(c)
      BY <2>4, <1>1, <1>2, <1>3, <1>4, <1>6
    <3>2. /\ g[c].prev = h[c].prev /\ h[c].prev \in L /\ hi(h[c].prev) < lo(c)
          /\ \A d \in L : hi(d) < lo(c) => hi(d) <= hi(h[c].prev)
          /\ hi(n) <= hi(h[c].prev)
      BY <2>4, <3>1, <1>4, <1>7
    <3>3. last < hi(h[c].prev) /\ h[c].prev \in R
      BY <3>1, <3>2, <1>1, <1>2, <1>3, <1>4 DEF R
    <3>. QED  BY <2>4, <3>2, <3>3, <1>1, <1>2, <1>4, <1>9
  <2>5. CASE c \in R /\ c # n /\ hi(c) < first
    <3>1. g[c].prev = h[c].prev /\ c \in L
      BY <2>5, <1>4
    <3>2. \A d \in L : hi(d) < lo(c) => d \in R
      BY <2>5, <3>1, <1>1, <1>2, <1>3 DEF R
    <3>3. ~(last < lo(c))
      BY <2>5, <3>1, <1>1, <1>2, <1>3
    <3>. QED  BY <2>5, <3>1, <3>2, <3>3, <1>4, <1>7, <1>9
  <2>. QED  BY <2>2, <2>3, <2>4, <2>5, <1>3
<1>13. Leftmost(g, M, IF p = NULL THEN seg ELSE a)
  <2>1. CASE p = NULL
    BY <2>1, <1>1, <1>2, <1>3, <1>4, <1>5, <1>9 DEF Leftmost
  <2>2. CASE p # NULL
    <3>1. p \in R /\ p \in L /\ hi(p) < first
      BY <2>2, <1>4, <1>5
    <3>2. a \in L /\ lo(a) < first /\ \A d \in L : lo(a) <= lo(d)
      BY <3>1, <1>1, <1>2, <1>8
    <3>3. a \in R
      BY <3>2, <1>1, <1>2, <1>3 DEF R
    <3>. QED  BY <2>2, <3>2, <3>3, <1>1, <1>2, <1>4, <1>9 DEF Leftmost
  <2>. QED  BY <2>1, <2>2
<1>14. Rightmost(g, M, IF n = NULL THEN seg ELSE b)
  <2>1. CASE n = NULL
    BY <2>1, <1>1, <1>2, <1>3, <1>4, <1>6, <1>9 DEF Rightmost
  <2>2. CASE n # NULL
    <3>1. n \in R /\ n \in L /\ last < lo(n)
      BY <2>2, <1>4, <1>6
    <3>2. b \in L /\ last < hi(b) /\ \A d \in L : hi(d) <= hi(b)
      BY <3>1, <1>1, <1>2, <1>8
    <3>3. b \in R
      BY <3>2, <1>1, <1>2, <1>3 DEF R
    <3>. QED  BY <2>2, <3>2, <3>3, <1>1, <1>2, <1>4, <1>9 DEF Rightmost
  <2>. QED  BY <2>1, <2>2
<1>. QED  BY <1>10, <1>11, <1>12, <1>13, <1>14 DEF Linked, p, n, R

(* segment_disconnect takes a cell out.                                    *)
LEMMA UnlinkLinked ==
  ASSUME NEW h \in Heap, NEW g \in Heap, NEW L \in SUBSET Cell, NEW seg \in L,
         NEW a, NEW b, Linked(h, L, a, b),
         \A c \in L \ {seg} :
           /\ g[c].start_seqnum_inclusive = h[c].start_seqnum_inclusive
           /\ g[c].end_seqnum_inclusive = h[c].end_seqnum_inclusive
           /\ g[c].next = IF c = h[seg].prev THEN h[seg].next ELSE h[c].next
           /\ g[c].prev = IF c = h[seg].next THEN h[seg].prev ELSE h[c].prev
  PROVE  Linked(g, L \ {seg}, IF h[seg].prev = NULL THEN h[seg].next ELSE a,
                              IF h[seg].next = NULL THEN h[seg].prev ELSE b)
<1> DEFINE M == L \ {seg}
           p == h[seg].prev
           n == h[seg].next
           lo(c) == h[c].start_seqnum_inclusive
           hi(c) == h[c].end_seqnum_inclusive
<1>1. /\ \A c \in L : lo(c) \in Nat /\ hi(c) \in Nat /\ lo(c) <= hi(c) /\ c # NULL
      /\ \A c, d \in L : c # d => hi(c) < lo(d) \/ hi(d) < lo(c)
  BY CellFacts DEF Heap, CellType, Linked, Ordered, CellsApart
<1>2. \A c \in M : /\ g[c].start_seqnum_inclusive = lo(c)
                   /\ g[c].end_seqnum_inclusive = hi(c)
                   /\ g[c].next = IF c = p THEN n ELSE h[c].next
                   /\ g[c].prev = IF c = n THEN p ELSE h[c].prev
                   /\ c \in L /\ c # seg
  OBVIOUS
<1>3. ASSUME NEW c \in L
      PROVE  /\ \/ h[c].next = NULL /\ \A d \in L : ~(hi(c) < lo(d))
                \/ /\ h[c].next \in L /\ hi(c) < lo(h[c].next)
                   /\ \A d \in L : hi(c) < lo(d) => lo(h[c].next) <= lo(d)
             /\ \/ h[c].prev = NULL /\ \A d \in L : ~(hi(d) < lo(c))
                \/ /\ h[c].prev \in L /\ hi(h[c].prev) < lo(c)
                   /\ \A d \in L : hi(d) < lo(c) => hi(d) <= hi(h[c].prev)
  BY LinkFacts DEF Linked
<1>4. /\ a \in L /\ \A d \in L : lo(a) <= lo(d)
      /\ b \in L /\ \A d \in L : hi(d) <= hi(b)
  BY DEF Linked, Leftmost, Rightmost
<1>5. \/ n = NULL /\ \A d \in L : ~(hi(seg) < lo(d))
      \/ /\ n \in M /\ hi(seg) < lo(n)
         /\ \A d \in L : hi(seg) < lo(d) => lo(n) <= lo(d)
  BY <1>1, <1>3
<1>6. \/ p = NULL /\ \A d \in L : ~(hi(d) < lo(seg))
      \/ /\ p \in M /\ hi(p) < lo(seg)
         /\ \A d \in L : hi(d) < lo(seg) => hi(d) <= hi(p)
  BY <1>1, <1>3
<1> DEFINE glo(c) == g[c].start_seqnum_inclusive
           ghi(c) == g[c].end_seqnum_inclusive
<1>7. \A c \in M : glo(c) \in Nat /\ ghi(c) \in Nat /\ glo(c) = lo(c) /\ ghi(c) = hi(c)
  BY <1>1, <1>2
<1> HIDE DEF p, n, lo, hi
<1>8. Ordered(g, M)
  BY <1>1, <1>7 DEF Ordered, CellsApart
<1>9. NextLinks(g, M)
  <2> SUFFICES ASSUME NEW c \in M
               PROVE  Leftmost(g, RightOf(g, M, ghi(c)), g[c].next)
    BY DEF NextLinks
  <2>1. SUFFICES \/ g[c].next = NULL /\ \A d \in M : ~(ghi(c) < glo(d))
                 \/ /\ g[c].next \in M /\ ghi(c) < glo(g[c].next)
                    /\ \A d \in M : ghi(c) < glo(d) => glo(g[c].next) <= glo(d)
    BY <1>7 DEF Leftmost, RightOf
  <2>2. CASE c = p
    <3>1. p \in L /\ hi(p) < lo(seg) /\ g[c].next = n
      BY <2>2, <1>1, <1>2, <1>6
    <3>2. \A d \in M : hi(p) < lo(d) => hi(seg) < lo(d)
      BY <2>2, <3>1, <1>1, <1>6
    <3>. QED  BY <2>2, <3>1, <3>2, <1>1, <1>5, <1>7
  <2>3. CASE c # p
    <3>1. g[c].next = h[c].next /\ c \in L
      BY <2>3, <1>2
    <3>2. h[c].next # seg
      <4> SUFFICES ASSUME h[c].next = seg PROVE FALSE
        OBVIOUS
      <4>1. /\ hi(c) < lo(seg)
            /\ \A d \in L : hi(c) < lo(d) => lo(seg) <= lo(d)
        BY <3>1, <1>1, <1>3
      <4>2. p \in M /\ p \in L /\ hi(p) < lo(seg) /\ hi(c) <= hi(p)
        BY <4>1, <1>2, <1>6
      <4>3. hi(c) < lo(p)
        BY <4>2, <2>3, <3>1, <1>1
      <4>. QED  BY <4>1, <4>2, <4>3, <1>1
    <3>. QED  BY <3>1, <3>2, <1>3, <1>7
  <2>. QED  BY <2>2, <2>3
<1>10. PrevLinks(g, M)
  <2> SUFFICES ASSUME NEW c \in M
               PROVE  Rightmost(g, LeftOf(g, M, glo(c)), g[c].prev)
    BY DEF PrevLinks
  <2>1. SUFFICES \/ g[c].prev = NULL /\ \A d \in M : ~(ghi(d) < glo(c))
                 \/ /\ g[c].prev \in M /\ ghi(g[c].prev) < glo(c)
                    /\ \A d \in M : ghi(d) < glo(c) => ghi(d) <= ghi(g[c].prev)
    BY <1>7 DEF Rightmost, LeftOf
  <2>2. CASE c = n
    <3>1. n \in L /\ hi(seg) < lo(n) /\ g[c].prev = p
      BY <2>2, <1>1, <1>2, <1>5
    <3>2. \A d \in M : hi(d) < lo(n) => hi(d) < lo(seg)
      BY <2>2, <3>1, <1>1, <1>5
    <3>. QED  BY <2>2, <3>1, <3>2, <1>1, <1>6, <1>7
  <2>3. CASE c # n
    <3>1. g[c].prev = h[c].prev /\ c \in L
      BY <2>3, <1>2
    <3>2. h[c].prev # seg
      <4> SUFFICES ASSUME h[c].prev = seg PROVE FALSE
        OBVIOUS
      <4>1. /\ hi(seg) < lo(c)
            /\ \A d \in L : hi(d) < lo(c) => hi(d) <= hi(seg)
        BY <3>1, <1>1, <1>3
      <4>2. n \in M /\ n \in L /\ hi(seg) < lo(n) /\ lo(n) <= lo(c)
        BY <4>1, <1>2, <1>5
      <4>3. hi(n) < lo(c)
        BY <4>2, <2>3, <3>1, <1>1
      <4>. QED  BY <4>1, <4>2, <4>3, <1>1
    <3>. QED  BY <3>1, <3>2, <1>3, <1>7
  <2>. QED  BY <2>2, <2>3
<1>11. Leftmost(g, M, IF p = NULL THEN n ELSE a)
  <2>1. CASE p = NULL
    <3>1. \A d \in M : hi(seg) < lo(d)
      BY <2>1, <1>1, <1>2, <1>6
    <3>. QED  BY <2>1, <3>1, <1>2, <1>5, <1>7 DEF Leftmost
  <2>2. CASE p # NULL
    <3>1. a # seg
      BY <2>2, <1>1, <1>4, <1>6
    <3>. QED  BY <2>2, <3>1, <1>2, <1>4, <1>7 DEF Leftmost
  <2>. QED  BY <2>1, <2>2
<1>12. Rightmost(g, M, IF n = NULL THEN p ELSE b)
  <2>1. CASE n = NULL
    <3>1. \A d \in M : hi(d) < lo(seg)
      BY <2>1, <1>1, <1>2, <1>5
    <3>. QED  BY <2>1, <3>1, <1>2, <1>6, <1>7 DEF Rightmost
  <2>2. CASE n # NULL
    <3>1. b # seg
      BY <2>2, <1>1, <1>4, <1>5
    <3>. QED  BY <2>2, <3>1, <1>2, <1>4, <1>7 DEF Rightmost
  <2>. QED  BY <2>1, <2>2
<1>. QED  BY <1>8, <1>9, <1>10, <1>11, <1>12 DEF Linked, p, n

-----------------------------------------------------------------------------
(* The heap.                                                               *)

(* g is h with the next, or the prev, of c turned to `to`.                 *)
NextSet(h, g, c, to) ==
  /\ g \in Heap
  /\ \A d \in Cell :
       /\ g[d].start_seqnum_inclusive = h[d].start_seqnum_inclusive
       /\ g[d].end_seqnum_inclusive = h[d].end_seqnum_inclusive
       /\ g[d].prev = h[d].prev
       /\ g[d].next = IF d = c THEN to ELSE h[d].next
       /\ d # c => g[d] = h[d]

PrevSet(h, g, c, to) ==
  /\ g \in Heap
  /\ \A d \in Cell :
       /\ g[d].start_seqnum_inclusive = h[d].start_seqnum_inclusive
       /\ g[d].end_seqnum_inclusive = h[d].end_seqnum_inclusive
       /\ g[d].next = h[d].next
       /\ g[d].prev = IF d = c THEN to ELSE h[d].prev
       /\ d # c => g[d] = h[d]

(* Assignments through pointers touch nothing else.                        *)
LEMMA SetNextHeap ==
  ASSUME NEW h \in Heap, NEW c \in {NULL} \cup Cell, NEW to \in {NULL} \cup Cell
  PROVE  NextSet(h, SetNext(h, c, to), c, to)
BY CellFacts DEF NextSet, SetNext, Heap, CellType

(* The same for prev.                                                      *)
LEMMA SetPrevHeap ==
  ASSUME NEW h \in Heap, NEW c \in {NULL} \cup Cell, NEW to \in {NULL} \cup Cell
  PROVE  PrevSet(h, SetPrev(h, c, to), c, to)
BY CellFacts DEF PrevSet, SetPrev, Heap, CellType

(* A cell from malloc keeps its links, and no other cell changes.          *)
LEMMA NewSegmentHeap ==
  ASSUME NEW h \in Heap, NEW c \in Cell, NEW f \in Nat, NEW l \in Nat
  PROVE  /\ NewSegment(h, c, f, l) \in Heap
         /\ NewSegment(h, c, f, l)[c].start_seqnum_inclusive = f
         /\ NewSegment(h, c, f, l)[c].end_seqnum_inclusive = l
         /\ NewSegment(h, c, f, l)[c].next = h[c].next
         /\ NewSegment(h, c, f, l)[c].prev = h[c].prev
         /\ \A d \in Cell : d # c => NewSegment(h, c, f, l)[d] = h[d]
<1> DEFINE g == [h EXCEPT ![c].start_seqnum_inclusive = f]
<1>1. /\ g \in Heap
      /\ g[c].start_seqnum_inclusive = f
      /\ g[c].next = h[c].next /\ g[c].prev = h[c].prev
      /\ \A d \in Cell : d # c => g[d] = h[d]
  BY DEF Heap, CellType
<1>2. NewSegment(h, c, f, l) = [g EXCEPT ![c].end_seqnum_inclusive = l]
  BY DEF NewSegment
<1> HIDE DEF g
<1>. QED  BY <1>1, <1>2 DEF Heap, CellType

(* Freeing cells touches no other.                                         *)
LEMMA FreedHeap ==
  ASSUME NEW h \in Heap, NEW cells
  PROVE  /\ Freed(h, cells) \in Heap
         /\ \A d \in Cell : d \notin cells => Freed(h, cells)[d] = h[d]
BY CellFacts DEF Freed, Heap, CellType, Blank

(* What malloc returns: a cell that is not in use, with links that lead to *)
(* any cell.                                                               *)
LEMMA MallocFacts ==
  ASSUME heap \in Heap, NEW new \in malloc
  PROVE  /\ new.seg \in Cell \ live
         /\ new.heap \in Heap
         /\ \A d \in Cell : d # new.seg => new.heap[d] = heap[d]
<1> DEFINE Link == {NULL} \cup Cell
<1>1. PICK c \in Cell \ live : new \in {[heap |-> h, seg |-> c] : h \in Contents(c)}
  BY DEF malloc
<1>2. new.seg = c /\ new.heap \in Contents(c)
  BY <1>1
<1>3. PICK link \in Link \X Link :
        new.heap = [heap EXCEPT ![c].prev = link[1], ![c].next = link[2]]
  BY <1>2 DEF Contents
<1>4. link[1] \in Link /\ link[2] \in Link
  OBVIOUS
<1> DEFINE g == [heap EXCEPT ![c].prev = link[1]]
           mem == new.heap
<1>5. g \in Heap /\ \A d \in Cell : d # c => g[d] = heap[d]
  BY <1>4 DEF Heap, CellType
<1>6. mem = [g EXCEPT ![c].next = link[2]]
  BY <1>3
<1> HIDE DEF g, mem
<1>7. mem \in Heap /\ \A d \in Cell : d # c => mem[d] = heap[d]
  BY <1>4, <1>5, <1>6 DEF Heap, CellType
<1>. QED  BY <1>2, <1>7 DEF mem

-----------------------------------------------------------------------------
(* segment_merge.                                                          *)

(* The cells that share a number with f .. l.                              *)
Hit(f, l) == {c \in live : /\ heap[c].end_seqnum_inclusive >= f
                           /\ heap[c].start_seqnum_inclusive <= l}

(* The list between two operations: the cells in use are linked.  Of the   *)
(* others nothing is known.                                                *)
ListGood ==
  /\ heap \in Heap
  /\ live \in SUBSET Cell
  /\ Linked(heap, live, start, end)

(* A link of the cell that malloc returned which segment_merge does not    *)
(* set, next in a list that ends left of f, prev in one that starts right  *)
(* of l, reads as NULL.                                                    *)
Unset(new, f, l) ==
  /\ (\A c \in live : heap[c].end_seqnum_inclusive < f) =>
       new.heap[new.seg].next = NULL
  /\ (\A c \in live : heap[c].start_seqnum_inclusive > l) =>
       new.heap[new.seg].prev = NULL

(* What the two loops of segment_merge find.                               *)
LEMMA EndsFound ==
  ASSUME ListGood, NEW f, NEW l
  PROVE  /\ Leftmost(heap, {c \in live : heap[c].end_seqnum_inclusive >= f},
                     FirstCell(Forward(heap, start),
                               {c \in Cell : heap[c].end_seqnum_inclusive >= f}))
         /\ Rightmost(heap, {c \in live : heap[c].start_seqnum_inclusive <= l},
                      FirstCell(Backward(heap, end),
                                {c \in Cell : heap[c].start_seqnum_inclusive <= l}))
<1> DEFINE S == {c \in Cell : heap[c].end_seqnum_inclusive >= f}
           T == {c \in Cell : heap[c].start_seqnum_inclusive <= l}
           s == Forward(heap, start)
<1>1. /\ heap \in Heap /\ live \in SUBSET Cell
      /\ Ordered(heap, live) /\ NextLinks(heap, live) /\ PrevLinks(heap, live)
      /\ Leftmost(heap, live, start) /\ Rightmost(heap, live, end)
  BY DEF ListGood, Linked
<1>2. PICK n \in 0 .. DEFAULT_BUFF_SIZE : Lists(heap, live, s, n)
  BY <1>1, ForwardLists
<1>3. live \cap S = {c \in live : heap[c].end_seqnum_inclusive >= f}
  BY <1>1
<1>4. live \cap T = {c \in live : heap[c].start_seqnum_inclusive <= l}
  BY <1>1
<1>5. Backward(heap, end) = [i \in 1 .. n |-> s[n + 1 - i]]
  <2> HIDE DEF s
  <2>. QED  BY <1>1, <1>2, BackwardReverses
<1> HIDE DEF s, S, T
<1>6. Leftmost(heap, live \cap S, FirstCell(s, S))
  BY <1>1, <1>2, FirstFromLeft
<1>7. Rightmost(heap, live \cap T, FirstCell([i \in 1 .. n |-> s[n + 1 - i]], T))
  BY <1>1, <1>2, FirstFromRight
<1>. QED  BY <1>3, <1>4, <1>5, <1>6, <1>7 DEF s, S, T

(* In each of its four cases segment_merge puts one new cell in the place  *)
(* of the cells that share a number with the packet, frees exactly these,  *)
(* and covers the packet and them and no more.                             *)
LEMMA MergeSplices ==
  ASSUME ListGood, live # {},
         NEW f \in Nat, NEW l \in Nat, f <= l, NEW new \in malloc, Unset(new, f, l)
  PROVE  LET m == list_merge(new, f, l) IN
         /\ m.heap \in Heap
         /\ m.seg \in Cell \ live
         /\ m.freed = Hit(f, l)
         /\ Spliced(heap, m.heap, live, Hit(f, l), m.seg)
         /\ LET first == m.heap[m.seg].start_seqnum_inclusive IN
            first = f \/ \E c \in Hit(f, l) : first = heap[c].start_seqnum_inclusive
         /\ LET last == m.heap[m.seg].end_seqnum_inclusive IN
            last = l \/ \E c \in Hit(f, l) : last = heap[c].end_seqnum_inclusive
         /\ m.heap[m.seg].start_seqnum_inclusive <= f
         /\ l <= m.heap[m.seg].end_seqnum_inclusive
<1> DEFINE left == FirstCell(Forward(heap, start),
                             {c \in Cell : heap[c].end_seqnum_inclusive >= f})
           right == FirstCell(Backward(heap, end),
                              {c \in Cell : heap[c].start_seqnum_inclusive <= l})
           seg == new.seg
           alone == NewSegment(new.heap, seg, f, l)
           m == list_merge(new, f, l)
           g == m.heap
           lo(c) == heap[c].start_seqnum_inclusive
           hi(c) == heap[c].end_seqnum_inclusive
<1>1. m = IF left = NULL
          THEN Merged([alone EXCEPT ![seg].prev = end, ![end].next = seg], seg, {})
          ELSE IF right = NULL
          THEN Merged([alone EXCEPT ![seg].next = start, ![start].prev = seg], seg, {})
          ELSE IF heap[right].next = left
          THEN Merged([alone EXCEPT ![seg].next = left, ![left].prev = seg,
                                    ![seg].prev = right, ![right].next = seg], seg, {})
          ELSE Merged(Replace(NewSegment(new.heap, seg, MIN(lo(left), f), MAX(hi(right), l)),
                              seg, left, right),
                      seg, Between(heap, left, right))
  BY DEF list_merge
<1>2. /\ heap \in Heap /\ live \in SUBSET Cell
      /\ Ordered(heap, live) /\ NextLinks(heap, live) /\ PrevLinks(heap, live)
      /\ Leftmost(heap, live, start) /\ Rightmost(heap, live, end)
  BY DEF ListGood, Linked
<1>3. /\ \A c \in live : lo(c) \in Nat /\ hi(c) \in Nat /\ lo(c) <= hi(c)
                          /\ c # NULL /\ c \in Cell
      /\ \A c, d \in live : c # d => hi(c) < lo(d) \/ hi(d) < lo(c)
  BY <1>2, CellFacts DEF Heap, CellType, Ordered, CellsApart
<1>4. /\ Leftmost(heap, {c \in live : hi(c) >= f}, left)
      /\ Rightmost(heap, {c \in live : lo(c) <= l}, right)
  BY EndsFound
<1>5. /\ seg \in Cell /\ seg \notin live /\ seg # NULL /\ new.heap \in Heap
      /\ \A d \in Cell : d # seg => new.heap[d] = heap[d]
      /\ (\A c \in live : hi(c) < f) => new.heap[seg].next = NULL
      /\ (\A c \in live : lo(c) > l) => new.heap[seg].prev = NULL
  <2>1. /\ seg \in Cell \ live /\ new.heap \in Heap
        /\ \A d \in Cell : d # seg => new.heap[d] = heap[d]
    BY <1>2, MallocFacts
  <2>. QED  BY <2>1, CellFacts DEF Unset
<1> HIDE DEF left, right, seg, m
<1>5a. ASSUME NEW a \in Nat, NEW b \in Nat
       PROVE  LET mem == NewSegment(new.heap, seg, a, b) IN
              /\ mem \in Heap
              /\ mem[seg].start_seqnum_inclusive = a
              /\ mem[seg].end_seqnum_inclusive = b
              /\ mem[seg].next = new.heap[seg].next
              /\ mem[seg].prev = new.heap[seg].prev
              /\ \A d \in Cell : d # seg => mem[d] = heap[d]
  <2> DEFINE old == new.heap
  <2>1. old \in Heap /\ seg \in Cell /\ \A d \in Cell : d # seg => old[d] = heap[d]
    BY <1>5
  <2> HIDE DEF old
  <2>2. LET mem == NewSegment(old, seg, a, b) IN
              /\ mem \in Heap
              /\ mem[seg].start_seqnum_inclusive = a
              /\ mem[seg].end_seqnum_inclusive = b
              /\ mem[seg].next = old[seg].next
              /\ mem[seg].prev = old[seg].prev
              /\ \A d \in Cell : d # seg => mem[d] = old[d]
    BY <2>1, NewSegmentHeap, SMTT(60)
  <2>. QED  BY <2>1, <2>2 DEF old
<1>6. /\ alone \in Heap
      /\ alone[seg].start_seqnum_inclusive = f /\ alone[seg].end_seqnum_inclusive = l
      /\ alone[seg].next = new.heap[seg].next /\ alone[seg].prev = new.heap[seg].prev
      /\ \A d \in Cell : d # seg => alone[d] = heap[d]
  BY <1>5a
<1>7. /\ \/ left = NULL /\ \A c \in live : ~(hi(c) >= f)
         \/ /\ left \in live /\ hi(left) >= f
            /\ \A c \in live : hi(c) >= f => lo(left) <= lo(c)
      /\ \/ right = NULL /\ \A c \in live : ~(lo(c) <= l)
         \/ /\ right \in live /\ lo(right) <= l
            /\ \A c \in live : lo(c) <= l => hi(c) <= hi(right)
  BY <1>4 DEF Leftmost, Rightmost
<1>8. /\ start \in live /\ \A c \in live : lo(start) <= lo(c)
      /\ end \in live /\ \A c \in live : hi(c) <= hi(end)
  BY <1>2 DEF Leftmost, Rightmost
<1> HIDE DEF alone
<1> DEFINE Result ==
      /\ g \in Heap
      /\ m.seg = seg
      /\ m.freed = Hit(f, l)
      /\ Spliced(heap, g, live, Hit(f, l), seg)
      /\ \/ g[seg].start_seqnum_inclusive = f
         \/ \E c \in Hit(f, l) : g[seg].start_seqnum_inclusive = lo(c)
      /\ \/ g[seg].end_seqnum_inclusive = l
         \/ \E c \in Hit(f, l) : g[seg].end_seqnum_inclusive = hi(c)
      /\ g[seg].start_seqnum_inclusive <= f
      /\ l <= g[seg].end_seqnum_inclusive
<1> SUFFICES Result
  BY <1>5 DEF m
(* A new cell between p and n, which may be NULL, when it hits no other.   *)
<1> DEFINE Inserted(p, n) ==
      /\ g \in Heap
      /\ g[seg].start_seqnum_inclusive = f /\ g[seg].end_seqnum_inclusive = l
      /\ g[seg].prev = p /\ g[seg].next = n
      /\ \A d \in Cell : d # seg =>
           /\ g[d].start_seqnum_inclusive = lo(d) /\ g[d].end_seqnum_inclusive = hi(d)
           /\ g[d].next = IF d = p THEN seg ELSE heap[d].next
           /\ g[d].prev = IF d = n THEN seg ELSE heap[d].prev
<1>9. ASSUME Hit(f, l) = {}, m.seg = seg, m.freed = {}, NEW p, NEW n, Inserted(p, n),
             Rightmost(heap, LeftOf(heap, live, f), p),
             Leftmost(heap, RightOf(heap, live, l), n)
      PROVE  Result
  <2>1. \A c \in live : hi(c) < f \/ l < lo(c)
    BY <1>9, <1>3 DEF Hit
  <2>3. \A c \in live : c # seg
    BY <1>5
  <2>4. Spliced(heap, g, live, {}, seg)
    <3>1. live \ {} = live
      OBVIOUS
    <3> HIDE DEF g
    <3>. QED  BY <3>1, <2>1, <2>3, <1>3, <1>9 DEF Spliced
  <2>. QED  BY <2>4, <1>9
<1> HIDE DEF g, Result
<1>10. CASE left = NULL
  <2> DEFINE g1 == SetPrev(alone, seg, end)
             g2 == SetNext(g1, end, seg)
  <2>1. /\ m.seg = seg /\ m.freed = {}
        /\ g = [alone EXCEPT ![seg].prev = end, ![end].next = seg]
    BY <1>1, <1>10 DEF Merged, g
  <2>2. /\ end \in Cell /\ end # NULL /\ end # seg
        /\ seg \in {NULL} \cup Cell /\ end \in {NULL} \cup Cell
    BY <1>3, <1>5, <1>8
  <2>3. g = g2
    BY <2>1, <2>2, <1>5 DEF SetNext, SetPrev
  <2>4. PrevSet(alone, g1, seg, end)
    BY <2>2, <1>6, SetPrevHeap
  <2> HIDE DEF g1
  <2>5. NextSet(g1, g2, end, seg)
    <3>1. g1 \in Heap
      BY <2>4 DEF PrevSet
    <3>. QED  BY <3>1, <2>2, SetNextHeap
  <2> HIDE DEF g2
  <2>7. Hit(f, l) = {} /\ \A c \in live : hi(c) < f /\ ~(lo(c) > l)
    BY <1>10, <1>7, <1>3, CellFacts DEF Hit
  <2>6. Inserted(end, NULL)
    <3>1. alone[seg].next = NULL
      BY <2>7, <1>5, <1>6
    <3>. QED  BY <3>1, <2>2, <2>3, <2>4, <2>5, <1>5, <1>6, CellFacts DEF NextSet, PrevSet
  <2>8. Rightmost(heap, LeftOf(heap, live, f), end)
    BY <2>7, <1>8 DEF Rightmost, LeftOf
  <2>9. Leftmost(heap, RightOf(heap, live, l), NULL)
    BY <2>7 DEF Leftmost, RightOf
  <2> HIDE DEF Inserted
  <2>. QED  BY <2>1, <2>6, <2>7, <2>8, <2>9, <1>9
<1>11. CASE left # NULL /\ right = NULL
  <2> DEFINE g1 == SetNext(alone, seg, start)
             g2 == SetPrev(g1, start, seg)
  <2>1. /\ m.seg = seg /\ m.freed = {}
        /\ g = [alone EXCEPT ![seg].next = start, ![start].prev = seg]
    BY <1>1, <1>11 DEF Merged, g
  <2>2. /\ start \in Cell /\ start # NULL /\ start # seg
        /\ seg \in {NULL} \cup Cell /\ start \in {NULL} \cup Cell
    BY <1>3, <1>5, <1>8
  <2>3. g = g2
    BY <2>1, <2>2, <1>5 DEF SetNext, SetPrev
  <2>4. NextSet(alone, g1, seg, start)
    BY <2>2, <1>6, SetNextHeap
  <2> HIDE DEF g1
  <2>5. PrevSet(g1, g2, start, seg)
    <3>1. g1 \in Heap
      BY <2>4 DEF NextSet
    <3>. QED  BY <3>1, <2>2, SetPrevHeap
  <2> HIDE DEF g2
  <2>7. Hit(f, l) = {} /\ \A c \in live : lo(c) > l /\ ~(hi(c) < f)
    <3>1. \A c \in live : lo(c) > l /\ ~(hi(c) < f)
      BY <1>11, <1>7, <1>3, CellFacts
    <3>. QED  BY <3>1, <1>3 DEF Hit
  <2>6. Inserted(NULL, start)
    <3>1. alone[seg].prev = NULL
      BY <2>7, <1>5, <1>6
    <3>. QED  BY <3>1, <2>2, <2>3, <2>4, <2>5, <1>5, <1>6, CellFacts DEF NextSet, PrevSet
  <2>8. Rightmost(heap, LeftOf(heap, live, f), NULL)
    BY <2>7 DEF Rightmost, LeftOf
  <2>9. Leftmost(heap, RightOf(heap, live, l), start)
    BY <2>7, <1>8 DEF Leftmost, RightOf
  <2> HIDE DEF Inserted
  <2>. QED  BY <2>1, <2>6, <2>7, <2>8, <2>9, <1>9
<1>12. CASE left # NULL /\ right # NULL /\ heap[right].next = left
  <2> DEFINE g1 == SetNext(alone, seg, left)
             g2 == SetPrev(g1, left, seg)
             g3 == SetPrev(g2, seg, right)
             g4 == SetNext(g3, right, seg)
  <2>1. /\ m.seg = seg /\ m.freed = {}
        /\ g = [alone EXCEPT ![seg].next = left, ![left].prev = seg,
                             ![seg].prev = right, ![right].next = seg]
    BY <1>1, <1>12 DEF Merged, g
  <2>2. /\ left \in live /\ hi(left) >= f /\ \A c \in live : hi(c) >= f => lo(left) <= lo(c)
        /\ right \in live /\ lo(right) <= l /\ \A c \in live : lo(c) <= l => hi(c) <= hi(right)
    BY <1>7, <1>12
  <2>3. hi(right) < lo(left)
    BY <2>2, <1>2, <1>3, <1>12 DEF NextLinks, Leftmost, RightOf
  <2>4. /\ left # NULL /\ left # seg /\ right # NULL /\ right # seg /\ left # right
        /\ seg \in {NULL} \cup Cell /\ left \in {NULL} \cup Cell
        /\ right \in {NULL} \cup Cell /\ left \in Cell /\ right \in Cell
    BY <2>2, <2>3, <1>3, <1>5
  <2>5. g = g4
    BY <2>1, <2>4, <1>5 DEF SetNext, SetPrev
  <2>6. NextSet(alone, g1, seg, left)
    BY <2>4, <1>6, SetNextHeap
  <2> HIDE DEF g1
  <2>7. PrevSet(g1, g2, left, seg)
    <3>1. g1 \in Heap
      BY <2>6 DEF NextSet
    <3>. QED  BY <3>1, <2>4, SetPrevHeap
  <2> HIDE DEF g2
  <2>8. PrevSet(g2, g3, seg, right)
    <3>1. g2 \in Heap
      BY <2>7 DEF PrevSet
    <3>. QED  BY <3>1, <2>4, SetPrevHeap
  <2> HIDE DEF g3
  <2>9. NextSet(g3, g4, right, seg)
    <3>1. g3 \in Heap
      BY <2>8 DEF PrevSet
    <3>. QED  BY <3>1, <2>4, SetNextHeap
  <2> HIDE DEF g4
  <2>10. Inserted(right, left)
    BY <2>4, <2>5, <2>6, <2>7, <2>8, <2>9, <1>5, <1>6, CellFacts DEF NextSet, PrevSet
  <2>11. Hit(f, l) = {}
    <3>1. ASSUME NEW c \in live, hi(c) >= f, lo(c) <= l PROVE FALSE
      <4>1. lo(left) <= lo(c) /\ hi(c) <= hi(right)
        BY <3>1, <2>2
      <4>. QED  BY <4>1, <2>2, <2>3, <1>3
    <3>. QED  BY <3>1 DEF Hit
  <2>12. hi(right) < f /\ lo(left) > l
    <3>1. ~(hi(right) >= f)
      BY <2>2, <2>3, <1>3
    <3>2. ~(lo(left) <= l)
      BY <2>2, <2>3, <1>3
    <3>. QED  BY <3>1, <3>2, <2>2, <1>3
  <2>13. /\ \A c \in live : hi(c) < f => hi(c) <= hi(right)
         /\ \A c \in live : lo(c) > l => lo(left) <= lo(c)
    <3>1. \A c \in live : hi(c) < f => lo(c) <= l
      BY <1>3
    <3>2. \A c \in live : lo(c) > l => hi(c) >= f
      BY <1>3
    <3>. QED  BY <3>1, <3>2, <2>2
  <2>14. Rightmost(heap, LeftOf(heap, live, f), right)
    BY <2>2, <2>12, <2>13 DEF Rightmost, LeftOf
  <2>15. Leftmost(heap, RightOf(heap, live, l), left)
    BY <2>2, <2>12, <2>13 DEF Leftmost, RightOf
  <2> HIDE DEF Inserted
  <2>. QED  BY <2>1, <2>10, <2>11, <2>14, <2>15, <1>9
<1>13. CASE left # NULL /\ right # NULL /\ heap[right].next # left
  <2> DEFINE first == MIN(lo(left), f)
             last == MAX(hi(right), l)
             p == heap[left].prev
             n == heap[right].next
             g0 == NewSegment(new.heap, seg, first, last)
             g1 == SetNext(g0, seg, n)
             g2 == SetPrev(g1, seg, p)
             g3 == SetPrev(g2, n, seg)
             g4 == SetNext(g3, p, seg)
  <2>1. /\ m.seg = seg /\ m.freed = Between(heap, left, right)
        /\ g = Replace(g0, seg, left, right)
    BY <1>1, <1>13 DEF Merged, g
  <2>2. /\ left \in live /\ hi(left) >= f /\ \A c \in live : hi(c) >= f => lo(left) <= lo(c)
        /\ right \in live /\ lo(right) <= l /\ \A c \in live : lo(c) <= l => hi(c) <= hi(right)
    BY <1>7, <1>13
  <2>3. /\ first \in Nat /\ last \in Nat /\ first <= f /\ l <= last
        /\ first <= lo(left) /\ hi(right) <= last
        /\ first = f \/ first = lo(left)
        /\ last = l \/ last = hi(right)
    BY <2>2, <1>3 DEF MIN, MAX
  <2>4. /\ g0 \in Heap
        /\ g0[seg].start_seqnum_inclusive = first /\ g0[seg].end_seqnum_inclusive = last
        /\ \A d \in Cell : d # seg => g0[d] = heap[d]
    <3> HIDE DEF first, last
    <3>. QED  BY <2>3, <1>5a
  <2>5. /\ \/ p = NULL /\ \A c \in live : ~(hi(c) < lo(left))
           \/ /\ p \in live /\ hi(p) < lo(left)
              /\ \A c \in live : hi(c) < lo(left) => hi(c) <= hi(p)
        /\ \/ n = NULL /\ \A c \in live : ~(lo(c) > hi(right))
           \/ /\ n \in live /\ lo(n) > hi(right)
              /\ \A c \in live : lo(c) > hi(right) => lo(n) <= lo(c)
    BY <2>2, <1>2 DEF NextLinks, PrevLinks, Leftmost, Rightmost, LeftOf, RightOf
  <2>6. /\ left \in Cell /\ right \in Cell /\ left # seg /\ right # seg
        /\ p # seg /\ n # seg
        /\ p \in {NULL} \cup Cell /\ n \in {NULL} \cup Cell /\ seg \in {NULL} \cup Cell
    BY <2>2, <2>5, <1>3, <1>5
  <2>7. g = g4
    <3>1. g0[right].next = n /\ g0[left].prev = p
      BY <2>4, <2>6
    <3> HIDE DEF g0, p, n
    <3>2. g2 = [g0 EXCEPT ![seg].next = n, ![seg].prev = p]
      BY <1>5 DEF SetNext, SetPrev
    <3>. QED  BY <3>1, <3>2, <2>1 DEF Replace
  <2> HIDE DEF g0, first, last, p, n
  <2>8. NextSet(g0, g1, seg, n)
    BY <2>4, <2>6, SetNextHeap
  <2> HIDE DEF g1
  <2>9. PrevSet(g1, g2, seg, p)
    <3>1. g1 \in Heap
      BY <2>8 DEF NextSet
    <3>. QED  BY <3>1, <2>6, SetPrevHeap
  <2> HIDE DEF g2
  <2>10. PrevSet(g2, g3, n, seg)
    <3>1. g2 \in Heap
      BY <2>9 DEF PrevSet
    <3>. QED  BY <3>1, <2>6, SetPrevHeap
  <2> HIDE DEF g3
  <2>11. NextSet(g3, g4, p, seg)
    <3>1. g3 \in Heap
      BY <2>10 DEF PrevSet
    <3>. QED  BY <3>1, <2>6, SetNextHeap
  <2> HIDE DEF g4
  <2>12. /\ g \in Heap
         /\ g[seg].start_seqnum_inclusive = first /\ g[seg].end_seqnum_inclusive = last
         /\ g[seg].prev = p /\ g[seg].next = n
         /\ \A d \in Cell : d # seg =>
              /\ g[d].start_seqnum_inclusive = lo(d) /\ g[d].end_seqnum_inclusive = hi(d)
              /\ g[d].next = IF d = p THEN seg ELSE heap[d].next
              /\ g[d].prev = IF d = n THEN seg ELSE heap[d].prev
    BY <2>4, <2>6, <2>7, <2>8, <2>9, <2>10, <2>11, <1>5 DEF NextSet, PrevSet
  (* Both ends share a number with f .. l, or they would be neighbours.    *)
  <2>13. lo(left) <= l
    <3> SUFFICES ASSUME ~(lo(left) <= l) PROVE FALSE
      OBVIOUS
    <3>1. right # left
      BY <2>2
    <3>2. hi(right) < lo(left)
      BY <3>1, <2>2, <1>3
    <3>3. n \in live /\ lo(n) > hi(right) /\ lo(n) <= lo(left) /\ n # left
      BY <3>2, <2>2, <2>5, <1>3, <1>13 DEF n
    <3>4. hi(n) < lo(left)
      BY <3>3, <2>2, <1>3
    <3>5. ~(hi(n) >= f) /\ lo(n) <= l
      BY <3>3, <3>4, <2>2, <1>3
    <3>. QED  BY <3>3, <3>5, <2>2, <1>3
  <2>14. hi(right) >= f /\ lo(left) <= lo(right)
    <3>1. hi(left) <= hi(right)
      BY <2>2, <2>13
    <3>. QED  BY <3>1, <2>2, <1>3
  <2>15. left \in Hit(f, l) /\ right \in Hit(f, l)
    BY <2>2, <2>13, <2>14 DEF Hit
  <2>16. \A c \in live : lo(left) <= lo(c) /\ lo(c) <= lo(right) <=>
                         hi(c) >= f /\ lo(c) <= l
    <3>1. ASSUME NEW c \in live, lo(left) <= lo(c), lo(c) <= lo(right)
          PROVE  hi(c) >= f /\ lo(c) <= l
      BY <3>1, <2>2, <1>3
    <3>2. ASSUME NEW c \in live, hi(c) >= f, lo(c) <= l
          PROVE  lo(left) <= lo(c) /\ lo(c) <= lo(right)
      BY <3>2, <2>2, <1>3
    <3>. QED  BY <3>1, <3>2
  <2>17. m.freed = Hit(f, l)
    <3>1. Between(heap, left, right) =
            {c \in live : lo(left) <= lo(c) /\ lo(c) <= lo(right)}
      BY <2>2, <2>14, <1>2, BetweenIs
    <3>. QED  BY <3>1, <2>1, <2>16 DEF Hit
  <2>18. \A c \in Hit(f, l) : first <= lo(c) /\ hi(c) <= last
    BY <2>2, <2>3, <1>3 DEF Hit
  <2>19. \A c \in live \ Hit(f, l) :
           /\ c \in live
           /\ hi(c) < first \/ last < lo(c)
           /\ hi(c) < first <=> hi(c) < lo(left)
           /\ last < lo(c) <=> lo(c) > hi(right)
    <3> SUFFICES ASSUME NEW c \in live, c \notin Hit(f, l)
                 PROVE  \/ /\ hi(c) < first /\ hi(c) < lo(left)
                           /\ ~(last < lo(c)) /\ ~(lo(c) > hi(right))
                        \/ /\ last < lo(c) /\ lo(c) > hi(right)
                           /\ ~(hi(c) < first) /\ ~(hi(c) < lo(left))
      OBVIOUS
    <3>1. c # left /\ c # right /\ ~(hi(c) >= f /\ lo(c) <= l)
      BY <2>15 DEF Hit
    <3>2. CASE hi(c) < f
      <4>1. hi(c) < lo(left)
        BY <3>1, <3>2, <2>2, <1>3
      <4>. QED  BY <4>1, <3>2, <2>2, <2>3, <2>14, <1>3
    <3>3. CASE lo(c) > l
      <4>1. lo(c) > hi(right)
        BY <3>1, <3>3, <2>2, <1>3
      <4>. QED  BY <4>1, <3>3, <2>2, <2>3, <2>14, <1>3
    <3>. QED  BY <3>1, <3>2, <3>3, <1>3
  <2>20. /\ \A c \in live : hi(c) < lo(left) => c \notin Hit(f, l)
         /\ \A c \in live : lo(c) > hi(right) => c \notin Hit(f, l)
    BY <2>2, <1>3 DEF Hit
  <2>21. LeftOf(heap, live \ Hit(f, l), first) = LeftOf(heap, live, lo(left))
    BY <2>19, <2>20 DEF LeftOf
  <2>22. RightOf(heap, live \ Hit(f, l), last) = RightOf(heap, live, hi(right))
    <3>1. \A c \in live : lo(c) > last <=> last < lo(c)
      BY <2>3, <1>3
    <3>. QED  BY <3>1, <2>19, <2>20 DEF RightOf
  <2>23. /\ Rightmost(heap, LeftOf(heap, live, lo(left)), p)
         /\ Leftmost(heap, RightOf(heap, live, hi(right)), n)
    BY <2>2, <1>2 DEF NextLinks, PrevLinks, p, n
  <2>24. Spliced(heap, g, live, Hit(f, l), seg)
    <3>1. first <= last
      BY <2>3
    <3>2. \A c \in live \ Hit(f, l) : c \in Cell /\ c # seg
      BY <1>3, <1>5
    <3>. QED  BY <3>1, <3>2, <2>12, <2>18, <2>19, <2>21, <2>22, <2>23 DEF Spliced
  <2>. QED  BY <2>1, <2>3, <2>12, <2>15, <2>17, <2>24 DEF Result
<1>. QED  BY <1>10, <1>11, <1>12, <1>13
-----------------------------------------------------------------------------
(* The list and the set of segments.                                       *)

(* There is always memory for one more segment: the segments lie in the    *)
(* capacity less one numbers that follow the last byte read.               *)
LEMMA RoomForSegment ==
  ASSUME RInv, ListGood, rb.segs = SegsOf(heap, live)
  PROVE  live # Cell
<1> DEFINE lo(c) == heap[c].start_seqnum_inclusive
           hi(c) == heap[c].end_seqnum_inclusive
           ls == rb.last_byte_read_seqnum
           numbers == ls + 1 .. ls + DEFAULT_BUFF_SIZE - 1
           at == [c \in Cell |-> lo(c)]
<1>1. /\ ls \in Nat
      /\ ls < get_next_byte_expected_seqnum(rb)
      /\ get_next_byte_expected_seqnum(rb) \in Nat
      /\ Sound(rb)
  BY InvariantFacts, NextExpectedBounds DEF RecvBufferType
<1>2. /\ \A c \in live : lo(c) \in Nat /\ hi(c) \in Nat /\ lo(c) <= hi(c)
      /\ \A c, d \in live : c # d => hi(c) < lo(d) \/ hi(d) < lo(c)
  BY DEF ListGood, Linked, Ordered, CellsApart, Heap, CellType
<1>3. ASSUME NEW c \in live
      PROVE  lo(c) \in numbers
  <2> DEFINE s == Segment(lo(c), hi(c))
  <2>1. s \in rb.segs
    BY DEF SegsOf
  <2>2. s.start_seqnum_inclusive = lo(c) /\ s.end_seqnum_inclusive = hi(c)
    BY DEF Segment
  <2>3. /\ get_next_byte_expected_seqnum(rb) <= lo(c)
        /\ hi(c) < ls + DEFAULT_BUFF_SIZE
    BY <2>1, <2>2, <1>1 DEF Sound
  <2> HIDE DEF lo, hi, ls
  <2>. QED  BY <2>3, <1>1, <1>2, CapacityAssumption
<1>4. IsFiniteSet(numbers) /\ Cardinality(numbers) = DEFAULT_BUFF_SIZE - 1
  <2> DEFINE a == ls + 1
             b == ls + DEFAULT_BUFF_SIZE - 1
  <2>1. a \in Int /\ b \in Int /\ ~(a > b) /\ b - a + 1 = DEFAULT_BUFF_SIZE - 1
    BY <1>1, CapacityAssumption
  <2>2. numbers = a .. b
    OBVIOUS
  <2> HIDE DEF a, b, numbers
  <2>3. IsFiniteSet(a .. b) /\ Cardinality(a .. b) = IF a > b THEN 0 ELSE b - a + 1
    BY <2>1, FS_Interval
  <2>. QED  BY <2>1, <2>2, <2>3
<1> SUFFICES ASSUME live = Cell PROVE FALSE
  OBVIOUS
<1>5. at \in [Cell -> numbers]
  BY <1>3
<1>6. Cardinality(numbers) < Cardinality(Cell)
  BY <1>4, CellFacts, CapacityAssumption
<1>7. PICK c \in Cell, d \in Cell : c # d /\ at[c] = at[d]
  <2> HIDE DEF at, numbers
  <2>. QED  BY <1>4, <1>5, <1>6, CellFacts, FS_PigeonHole
<1>8. lo(c) = lo(d) /\ c \in live /\ d \in live
  BY <1>7
<1> HIDE DEF lo, hi
<1>. QED  BY <1>2, <1>7, <1>8

(* The cell of segment_merge holds the segment that RecvBuffer merges, and *)
(* the cells it leaves alone hold those that RecvBuffer does.              *)
LEMMA MergeMatches ==
  ASSUME ListGood, live # {}, rb.segs = SegsOf(heap, live),
         NEW f \in Nat, NEW l \in Nat, f <= l, NEW new \in malloc, Unset(new, f, l)
  PROVE  LET m == list_merge(new, f, l) IN
         /\ segment_merge(rb.segs, f, l) =
              Segment(m.heap[m.seg].start_seqnum_inclusive,
                      m.heap[m.seg].end_seqnum_inclusive)
         /\ rb.segs \ Overlapping(rb.segs, f, l) = SegsOf(heap, live \ Hit(f, l))
<1> DEFINE m == list_merge(new, f, l)
           first == m.heap[m.seg].start_seqnum_inclusive
           last == m.heap[m.seg].end_seqnum_inclusive
           lo(c) == heap[c].start_seqnum_inclusive
           hi(c) == heap[c].end_seqnum_inclusive
           seg(c) == Segment(lo(c), hi(c))
           hit == Overlapping(rb.segs, f, l)
<1>1. /\ m.heap \in Heap /\ m.seg \in Cell
      /\ Spliced(heap, m.heap, live, Hit(f, l), m.seg)
      /\ first = f \/ \E c \in Hit(f, l) : first = lo(c)
      /\ last = l \/ \E c \in Hit(f, l) : last = hi(c)
      /\ first <= f /\ l <= last
  BY MergeSplices
<1> HIDE DEF m
<1>2. /\ first \in Nat /\ last \in Nat
      /\ \A c \in Hit(f, l) : first <= lo(c) /\ hi(c) <= last
  BY <1>1 DEF Spliced, Heap, CellType
<1> HIDE DEF first, last
<1>3. /\ \A c \in live : lo(c) \in Nat /\ hi(c) \in Nat
      /\ \A c : seg(c).start_seqnum_inclusive = lo(c) /\ seg(c).end_seqnum_inclusive = hi(c)
      /\ Hit(f, l) \subseteq live
  BY DEF ListGood, Heap, CellType, Segment, Hit
<1>4. rb.segs = {seg(c) : c \in live}
  BY DEF SegsOf
<1>5. \A c \in live : c \in Hit(f, l) <=> hi(c) >= f /\ lo(c) <= l
  BY DEF Hit
<1>6. SegsOf(heap, live \ Hit(f, l)) = {seg(c) : c \in live \ Hit(f, l)}
  BY DEF SegsOf
<1> HIDE DEF seg
<1>7. hit = {seg(c) : c \in Hit(f, l)}
  BY <1>3, <1>4, <1>5 DEF Overlapping
<1>8. rb.segs \ hit = {seg(c) : c \in live \ Hit(f, l)}
  BY <1>3, <1>4, <1>5 DEF Overlapping
<1> HIDE DEF lo, hi, hit
<1>9. Min({f} \cup {g.start_seqnum_inclusive : g \in hit}) = first
  <2> DEFINE S == {f} \cup {g.start_seqnum_inclusive : g \in hit}
  <2>1. S = {f} \cup {lo(c) : c \in Hit(f, l)}
    BY <1>3, <1>7
  <2> HIDE DEF S
  <2>2. S \subseteq Nat /\ S # {} /\ first \in S /\ \A y \in S : first <= y
    BY <2>1, <1>1, <1>2, <1>3 DEF first, lo
  <2>3. Min(S) \in S /\ Min(S) <= first
    BY <2>2, MinIsLeast
  <2>4. first <= Min(S) /\ Min(S) \in Nat
    BY <2>2, <2>3
  <2>5. Min(S) = first
    BY <2>3, <2>4, <1>2
  <2>. QED  BY <2>5 DEF S
<1>10. Max({l} \cup {g.end_seqnum_inclusive : g \in hit}) = last
  <2> DEFINE S == {l} \cup {g.end_seqnum_inclusive : g \in hit}
  <2>1. S = {l} \cup {hi(c) : c \in Hit(f, l)}
    BY <1>3, <1>7
  <2> HIDE DEF S
  <2>2. S \subseteq Nat /\ S # {} /\ last \in S /\ \A y \in S : y <= last
    BY <2>1, <1>1, <1>2, <1>3 DEF last, hi
  <2>3. Max(S) \in S /\ last <= Max(S)
    BY <2>2, <1>2, MaxIsGreatest
  <2>4. Max(S) <= last /\ Max(S) \in Nat
    BY <2>2, <2>3
  <2>5. Max(S) = last
    BY <2>3, <2>4, <1>2
  <2>. QED  BY <2>5 DEF S
<1>11. segment_merge(rb.segs, f, l) = Segment(first, last)
  BY <1>9, <1>10 DEF segment_merge, hit
<1>. QED  BY <1>6, <1>8, <1>11 DEF first, last, m, hit

(* With no segments there is nothing to merge with.                        *)
LEMMA MergeAlone ==
  ASSUME NEW f \in Nat, NEW l \in Nat
  PROVE  Overlapping({}, f, l) = {} /\ segment_merge({}, f, l) = Segment(f, l)
<1>1. Overlapping({}, f, l) = {}
  BY DEF Overlapping
<1>2. Min({f}) = f /\ Max({l}) = l
  <2>1. {f} \subseteq Nat /\ {f} # {} /\ {l} \subseteq Nat /\ {l} # {} /\ \A y \in {l} : y <= l
    OBVIOUS
  <2>2. Min({f}) \in {f} /\ Max({l}) \in {l}
    BY <2>1, MinIsLeast, MaxIsGreatest
  <2>. QED  BY <2>2
<1>3. /\ {f} \cup {g.start_seqnum_inclusive : g \in {}} = {f}
      /\ {l} \cup {g.end_seqnum_inclusive : g \in {}} = {l}
  OBVIOUS
<1>. QED  BY <1>1, <1>2, <1>3 DEF segment_merge
-----------------------------------------------------------------------------
(* The inductive invariant.                                                *)

ListInv ==
  /\ RInv
  /\ ~misuse
  /\ cleaned \in BOOLEAN
  /\ EndsAreEnds
  /\ IF cleaned THEN live = {} ELSE ListGood /\ rb.segs = SegsOf(heap, live)

(* An empty list, and the two ends of one that is not.                     *)
LEMMA ListEnds ==
  ASSUME ListGood
  PROVE  /\ (start = NULL <=> live = {}) /\ (end = NULL <=> live = {})
         /\ live # {} => start \in live /\ end \in live
         /\ EndsAreEnds
<1> DEFINE lo(c) == heap[c].start_seqnum_inclusive
           hi(c) == heap[c].end_seqnum_inclusive
<1>1. /\ live \subseteq Cell /\ heap \in Heap
      /\ Leftmost(heap, live, start) /\ Rightmost(heap, live, end)
      /\ NextLinks(heap, live) /\ PrevLinks(heap, live)
      /\ \A c \in live : lo(c) \in Nat /\ hi(c) \in Nat /\ lo(c) <= hi(c) /\ c # NULL
  BY CellFacts DEF ListGood, Linked, Ordered, Heap, CellType
<1>2. /\ (start = NULL <=> live = {}) /\ (end = NULL <=> live = {})
      /\ live # {} => start \in live /\ end \in live
  BY <1>1 DEF Leftmost, Rightmost
<1>3. ASSUME start # NULL PROVE heap[start].prev = NULL /\ heap[end].next = NULL
  <2>1. /\ start \in live /\ \A d \in live : lo(start) <= lo(d)
        /\ end \in live /\ \A d \in live : hi(d) <= hi(end)
    BY <1>1, <1>2, <1>3 DEF Leftmost, Rightmost
  <2>2. LeftOf(heap, live, lo(start)) = {} /\ RightOf(heap, live, hi(end)) = {}
    BY <2>1, <1>1 DEF LeftOf, RightOf
  <2>3. /\ Rightmost(heap, LeftOf(heap, live, lo(start)), heap[start].prev)
        /\ Leftmost(heap, RightOf(heap, live, hi(end)), heap[end].next)
    BY <2>1, <1>1 DEF NextLinks, PrevLinks
  <2>. QED  BY <2>2, <2>3 DEF Leftmost, Rightmost
<1>. QED  BY <1>2, <1>3 DEF EndsAreEnds

(* recv_buffer_initialize leaves an empty list.                            *)
LEMMA ListInitial == ListInit => ListInv
<1> SUFFICES ASSUME ListInit PROVE ListInv
  OBVIOUS
<1>1. /\ Init /\ start = NULL /\ end = NULL /\ live = {}
      /\ heap = [c \in Cell |-> Blank]
      /\ ~misuse /\ cleaned = FALSE
  BY DEF ListInit
<1>2. RInv
  BY <1>1, InitInvariant
<1>3. rb.segs = {}
  BY <1>1 DEF Init, recv_buffer_initialize
<1>4. rb.segs = SegsOf(heap, live)
  BY <1>1, <1>3 DEF SegsOf
<1>5. ListGood
  <2>1. heap \in Heap
    BY <1>1, CellFacts DEF Heap, CellType, Blank
  <2>2. Linked(heap, {}, NULL, NULL)
    BY DEF Linked, Ordered, NextLinks, PrevLinks, Leftmost, Rightmost
  <2>. QED  BY <1>1, <2>1, <2>2 DEF ListGood
<1>6. EndsAreEnds
  BY <1>1 DEF EndsAreEnds
<1>. QED  BY <1>1, <1>2, <1>4, <1>5, <1>6 DEF ListInv

(* Where segment_merge relies on a link that it does not set, an end of    *)
(* the list that reads as an end shows that this link reads as NULL.       *)
LEMMA EndsUnset ==
  ASSUME RInv, ListGood, rb.segs = SegsOf(heap, live), live # {},
         NEW f \in Nat, NEW l \in Nat, f <= l, NEW new \in malloc,
         list_receive(new, f, l), EndsAreEnds'
  PROVE  Unset(new, f, l)
<1> DEFINE left == FirstCell(Forward(heap, start),
                             {c \in Cell : heap[c].end_seqnum_inclusive >= f})
           right == FirstCell(Backward(heap, end),
                              {c \in Cell : heap[c].start_seqnum_inclusive <= l})
           seg == new.seg
           alone == NewSegment(new.heap, seg, f, l)
           m == list_merge(new, f, l)
           g == m.heap
           lo(c) == heap[c].start_seqnum_inclusive
           hi(c) == heap[c].end_seqnum_inclusive
<1>1. /\ heap \in Heap /\ live \in SUBSET Cell
      /\ start \in live /\ end \in live /\ start # NULL /\ end # NULL /\ NULL \notin Cell
      /\ \A c \in live : lo(c) \in Nat /\ hi(c) \in Nat /\ lo(c) <= hi(c)
  BY ListEnds, CellFacts DEF ListGood, Linked, Ordered, Heap, CellType
<1>2. /\ Leftmost(heap, {c \in live : hi(c) >= f}, left)
      /\ Rightmost(heap, {c \in live : lo(c) <= l}, right)
  BY EndsFound
<1>3. /\ seg \in Cell /\ seg \notin live /\ seg # NULL /\ seg # start /\ seg # end
      /\ alone \in Heap
      /\ alone[seg].start_seqnum_inclusive = f
      /\ alone[seg].next = new.heap[seg].next /\ alone[seg].prev = new.heap[seg].prev
  <2>1. new.heap \in Heap /\ seg \in Cell \ live
    BY <1>1, MallocFacts
  <2> HIDE DEF seg
  <2>2. /\ alone \in Heap
        /\ alone[seg].start_seqnum_inclusive = f
        /\ alone[seg].next = new.heap[seg].next /\ alone[seg].prev = new.heap[seg].prev
    BY <2>1, NewSegmentHeap
  <2>. QED  BY <2>1, <2>2, <1>1
<1>4. \A c \in live : next_expected <= lo(c)
  <2> SUFFICES ASSUME NEW c \in live PROVE next_expected <= lo(c)
    OBVIOUS
  <2>1. Segment(lo(c), hi(c)) \in rb.segs
    BY DEF SegsOf
  <2>. QED  BY <2>1, InvariantFacts DEF Sound, Segment, next_expected
<1>5. IF g[m.seg].start_seqnum_inclusive <= next_expected THEN Absorb(m) ELSE Keep(m)
  BY <1>1 DEF list_receive, merged, Segment
<1>6. /\ start' # NULL => heap'[start'].prev = NULL /\ heap'[end'].next = NULL
      /\ next_expected \in Nat
  BY InvariantFacts, NextExpectedBounds DEF EndsAreEnds, next_expected
<1>7. m = IF left = NULL
          THEN Merged([alone EXCEPT ![seg].prev = end, ![end].next = seg], seg, {})
          ELSE IF right = NULL
          THEN Merged([alone EXCEPT ![seg].next = start, ![start].prev = seg], seg, {})
          ELSE m
  BY DEF list_merge
<1> HIDE DEF left, right, alone, seg, m
(* At the right end of the list: next.                                     *)
<1>8. ASSUME \A c \in live : hi(c) < f, new.heap[seg].next # NULL
      PROVE  FALSE
  <2>1. left = NULL
    BY <1>8, <1>1, <1>2 DEF Leftmost
  <2>2. /\ m.seg = seg /\ m.freed = {}
        /\ g = [alone EXCEPT ![seg].prev = end, ![end].next = seg]
    BY <2>1, <1>7 DEF Merged
  <2>3. /\ g[seg].start_seqnum_inclusive = f /\ g[seg].prev = end
        /\ g[seg].next # NULL /\ g[end].next = seg /\ g \in Heap
    BY <2>2, <1>1, <1>3, <1>8 DEF Heap, CellType
  <2>4. ~(f <= next_expected)
    <3>1. next_expected <= lo(end) /\ lo(end) <= hi(end) /\ hi(end) < f
      BY <1>1, <1>4, <1>8
    <3> HIDE DEF lo, hi
    <3>. QED  BY <3>1, <1>1, <1>6
  <2>5. Keep(m)
    BY <2>2, <2>3, <2>4, <1>5
  <2>6. start' = start /\ end' = end /\ heap' = Freed(g, {})
    BY <2>2, <2>3, <2>5, <1>1 DEF Keep
  <2>7. heap'[end] = g[end]
    BY <2>3, <2>6, <1>1, FreedHeap
  <2>. QED  BY <2>3, <2>6, <2>7, <1>1, <1>3, <1>6
(* At the left end: prev.                                                  *)
<1>9. ASSUME \A c \in live : lo(c) > l, new.heap[seg].prev # NULL
      PROVE  FALSE
  <2>1. left # NULL /\ right = NULL
    <3>1. \A c \in live : hi(c) >= f /\ ~(lo(c) <= l)
      BY <1>9, <1>1
    <3>. QED  BY <3>1, <1>1, <1>2 DEF Leftmost, Rightmost
  <2>2. /\ m.seg = seg /\ m.freed = {}
        /\ g = [alone EXCEPT ![seg].next = start, ![start].prev = seg]
    BY <2>1, <1>7 DEF Merged
  <2>3. /\ g[seg].next = start /\ g[seg].prev # NULL
        /\ g[seg].prev \in Cell /\ g[start].prev = seg /\ g \in Heap
    BY <2>2, <1>1, <1>3, <1>9 DEF Heap, CellType
  <2>4. CASE Keep(m)
    <3>1. start' = start /\ heap' = Freed(g, {})
      BY <2>2, <2>3, <2>4 DEF Keep
    <3>2. heap'[start] = g[start]
      BY <2>3, <3>1, <1>1, FreedHeap
    <3>. QED  BY <2>3, <3>1, <3>2, <1>1, <1>3, <1>6
  <2>5. CASE Absorb(m)
    <3> DEFINE p == g[seg].prev
               g1 == SetNext(g, p, start)
               g2 == SetPrev(g1, start, p)
    <3>1. start' = start /\ heap' = Freed(g2, {seg})
      BY <2>2, <2>3, <2>5 DEF Absorb
    <3>2. p \in {NULL} \cup Cell /\ start \in {NULL} \cup Cell /\ start \in Cell
      BY <2>3, <1>1
    <3> HIDE DEF p
    <3>3. NextSet(g, g1, p, start)
      BY <2>3, <3>2, SetNextHeap
    <3> HIDE DEF g1
    <3>4. PrevSet(g1, g2, start, p)
      <4>1. g1 \in Heap
        BY <3>3 DEF NextSet
      <4>. QED  BY <4>1, <3>2, SetPrevHeap
    <3> HIDE DEF g2
    <3>5. g2 \in Heap /\ g2[start].prev = p
      BY <3>2, <3>4 DEF PrevSet
    <3>6. heap'[start] = g2[start]
      BY <3>1, <3>2, <3>5, <1>3, FreedHeap
    <3>7. p # NULL
      BY <2>3 DEF p
    <3>. QED  BY <3>1, <3>5, <3>6, <3>7, <1>1, <1>6
  <2>. QED  BY <2>4, <2>5, <1>5
<1>. QED  BY <1>8, <1>9 DEF Unset, seg

(* The first segment of an empty list.                                     *)
LEMMA FirstStep ==
  ASSUME ListGood, live = {}, NEW f \in Nat, NEW l \in Nat, f <= l,
         NEW new \in malloc, EndsAreEnds',
         start' = new.seg, end' = new.seg,
         heap' = NewSegment(new.heap, new.seg, f, l),
         live' = live \cup {new.seg}
  PROVE  ListGood' /\ SegsOf(heap', live') = {Segment(f, l)}
<1> DEFINE seg == new.seg
<1>1. seg \in Cell /\ new.heap \in Heap /\ seg # NULL
  BY MallocFacts, CellFacts DEF ListGood
<1>2. /\ live' = {seg} /\ start' = seg /\ end' = seg
      /\ heap' = NewSegment(new.heap, seg, f, l)
  OBVIOUS
<1> HIDE DEF seg
<1>3. /\ heap' \in Heap
      /\ heap'[seg].start_seqnum_inclusive = f /\ heap'[seg].end_seqnum_inclusive = l
      /\ heap'[seg].next = NULL /\ heap'[seg].prev = NULL
  BY <1>1, <1>2, NewSegmentHeap DEF EndsAreEnds
<1>4. RightOf(heap', {seg}, l) = {} /\ LeftOf(heap', {seg}, f) = {}
  BY <1>3 DEF RightOf, LeftOf
<1>5. Linked(heap', {seg}, seg, seg)
  BY <1>3, <1>4 DEF Linked, Ordered, NextLinks, PrevLinks, Leftmost, Rightmost
<1>6. ListGood'
  BY <1>1, <1>2, <1>3, <1>5 DEF ListGood
<1>7. SegsOf(heap', live') = {Segment(f, l)}
  BY <1>2, <1>3 DEF SegsOf
<1>. QED  BY <1>6, <1>7

(* A merged segment that stays in the list.                                *)
LEMMA KeepStep ==
  ASSUME ListGood, live # {}, NEW f \in Nat, NEW l \in Nat, f <= l,
         NEW new \in malloc, Unset(new, f, l), Keep(list_merge(new, f, l))
  PROVE  LET m == list_merge(new, f, l) IN
         /\ ListGood'
         /\ SegsOf(heap', live') = SegsOf(heap, live \ Hit(f, l)) \cup
              {Segment(m.heap[m.seg].start_seqnum_inclusive,
                       m.heap[m.seg].end_seqnum_inclusive)}
<1> DEFINE m == list_merge(new, f, l)
           g == m.heap
           seg == m.seg
           hit == Hit(f, l)
<1>1. /\ g \in Heap /\ seg \in Cell \ live /\ m.freed = hit
      /\ Spliced(heap, g, live, hit, seg)
  BY MergeSplices
<1>2. /\ start' = IF g[seg].prev = NULL THEN seg ELSE start
      /\ end' = IF g[seg].next = NULL THEN seg ELSE end
      /\ heap' = Freed(g, hit)
      /\ live' = (live \ hit) \cup {seg}
  BY <1>1 DEF Keep
<1>3. /\ hit \subseteq live /\ live \in SUBSET Cell /\ heap \in Heap
      /\ Linked(heap, live, start, end)
  BY DEF Hit, ListGood
<1> HIDE DEF m, hit, g, seg
<1>4. heap' \in Heap /\ \A d \in Cell : d \notin hit => heap'[d] = g[d]
  BY <1>1, <1>2, FreedHeap
<1>5. heap'[seg] = g[seg] /\ \A c \in live \ hit : heap'[c] = g[c]
  BY <1>1, <1>3, <1>4
<1>6. Spliced(heap, heap', live, hit, seg)
  BY <1>1, <1>5 DEF Spliced
<1>7. Linked(heap', live', start', end')
  <2>1. Linked(heap', (live \ hit) \cup {seg}, IF heap'[seg].prev = NULL THEN seg ELSE start,
                                               IF heap'[seg].next = NULL THEN seg ELSE end)
    BY <1>1, <1>3, <1>4, <1>6, SpliceLinked
  <2>. QED  BY <2>1, <1>2, <1>5
<1>9. ListGood'
  BY <1>1, <1>2, <1>3, <1>4, <1>7 DEF ListGood
<1>10. \A c \in live \ hit :
         /\ heap'[c].start_seqnum_inclusive = heap[c].start_seqnum_inclusive
         /\ heap'[c].end_seqnum_inclusive = heap[c].end_seqnum_inclusive
  BY <1>6 DEF Spliced
<1>11. SegsOf(heap', live') = SegsOf(heap, live \ hit) \cup
         {Segment(g[seg].start_seqnum_inclusive, g[seg].end_seqnum_inclusive)}
  BY <1>2, <1>5, <1>10 DEF SegsOf
<1>. QED  BY <1>9, <1>11 DEF m, g, seg, hit

(* A merged segment that joins the in-order data leaves the list.          *)
LEMMA AbsorbStep ==
  ASSUME ListGood, live # {}, NEW f \in Nat, NEW l \in Nat, f <= l,
         NEW new \in malloc, Unset(new, f, l), Absorb(list_merge(new, f, l))
  PROVE  ListGood' /\ SegsOf(heap', live') = SegsOf(heap, live \ Hit(f, l))
<1> DEFINE m == list_merge(new, f, l)
           g == m.heap
           seg == m.seg
           hit == Hit(f, l)
           p == g[seg].prev
           n == g[seg].next
           g1 == SetNext(g, p, n)
           g2 == SetPrev(g1, n, p)
           L == (live \ hit) \cup {seg}
           a == IF p = NULL THEN seg ELSE start
           b == IF n = NULL THEN seg ELSE end
<1>1. /\ g \in Heap /\ seg \in Cell \ live /\ m.freed = hit
      /\ Spliced(heap, g, live, hit, seg)
  BY MergeSplices
<1>2. /\ start' = IF p = NULL THEN n ELSE start
      /\ end' = IF n = NULL THEN p ELSE end
      /\ heap' = Freed(g2, hit \cup {seg})
      /\ live' = live \ hit
  BY <1>1 DEF Absorb
<1>3. /\ hit \subseteq live /\ live \in SUBSET Cell /\ heap \in Heap
      /\ Linked(heap, live, start, end)
  BY DEF Hit, ListGood
<1> HIDE DEF m, hit, g, seg
<1>4. Linked(g, L, a, b)
  BY <1>1, <1>3, SpliceLinked
<1>5. p \in {NULL} \cup (live \ hit) /\ n \in {NULL} \cup (live \ hit)
  BY <1>1 DEF Spliced, Leftmost, Rightmost, LeftOf, RightOf
<1>6. p \in {NULL} \cup Cell /\ n \in {NULL} \cup Cell
  BY <1>3, <1>5
<1> HIDE DEF p, n
<1>7. NextSet(g, g1, p, n)
  BY <1>1, <1>6, SetNextHeap
<1> HIDE DEF g1
<1>8. PrevSet(g1, g2, n, p)
  <2>1. g1 \in Heap
    BY <1>7 DEF NextSet
  <2>. QED  BY <2>1, <1>6, SetPrevHeap
<1> HIDE DEF g2
<1>9. g2 \in Heap
  BY <1>8 DEF PrevSet
<1>10. /\ heap' \in Heap
       /\ \A d \in Cell : d \notin hit \cup {seg} => heap'[d] = g2[d]
  BY <1>2, <1>9, FreedHeap
<1>11. \A c \in live \ hit :
         /\ heap'[c].start_seqnum_inclusive = g[c].start_seqnum_inclusive
         /\ heap'[c].end_seqnum_inclusive = g[c].end_seqnum_inclusive
         /\ heap'[c].next = IF c = p THEN n ELSE g[c].next
         /\ heap'[c].prev = IF c = n THEN p ELSE g[c].prev
  <2> SUFFICES ASSUME NEW c \in live \ hit
               PROVE  /\ heap'[c].start_seqnum_inclusive = g[c].start_seqnum_inclusive
                      /\ heap'[c].end_seqnum_inclusive = g[c].end_seqnum_inclusive
                      /\ heap'[c].next = IF c = p THEN n ELSE g[c].next
                      /\ heap'[c].prev = IF c = n THEN p ELSE g[c].prev
    OBVIOUS
  <2>1. c \in Cell /\ heap'[c] = g2[c]
    BY <1>1, <1>3, <1>10
  <2>. QED  BY <2>1, <1>7, <1>8 DEF NextSet, PrevSet
<1>12. L \ {seg} = live \ hit /\ L \in SUBSET Cell /\ seg \in L
  BY <1>1, <1>3
<1> HIDE DEF L
<1>13. Linked(heap', live', start', end')
  <2> DEFINE a1 == IF p = NULL THEN n ELSE a
             b1 == IF n = NULL THEN p ELSE b
  <2>1. a1 = start' /\ b1 = end'
    BY <1>2
  <2> HIDE DEF a, b
  <2>2. Linked(heap', L \ {seg}, a1, b1)
    BY <1>1, <1>4, <1>10, <1>11, <1>12, UnlinkLinked DEF p, n
  <2>. QED  BY <2>1, <2>2, <1>2, <1>12
<1>15. ListGood'
  BY <1>2, <1>3, <1>10, <1>13 DEF ListGood
<1>16. \A c \in live \ hit :
         /\ heap'[c].start_seqnum_inclusive = heap[c].start_seqnum_inclusive
         /\ heap'[c].end_seqnum_inclusive = heap[c].end_seqnum_inclusive
  BY <1>1, <1>11 DEF Spliced
<1>17. SegsOf(heap', live') = SegsOf(heap, live \ hit)
  BY <1>2, <1>16 DEF SegsOf
<1>. QED  BY <1>15, <1>17 DEF hit

(* handle_message stores a packet.  Where the ends of the list still read  *)
(* as ends, it did to the buffer what RecvBuffer does.                     *)
LEMMA ListReceiveStep ==
  ASSUME ListInv, NEW first \in 1 .. MaxStream, NEW n \in 1 .. MaxStream,
         NEW new \in malloc, ListReceive(new, first, n), EndsAreEnds'
  PROVE  ListInv' /\ Receive(first, n)
<1> DEFINE f == ISN + first
           l == ISN + first + n - 1
           seg == merged(new, f, l)
           rest == rb.segs \ Overlapping(rb.segs, f, l)
           m == list_merge(new, f, l)
<1>1. /\ RInv /\ ListGood /\ rb.segs = SegsOf(heap, live) /\ ~misuse
      /\ ~cleaned /\ cleaned' = cleaned /\ cleaned \in BOOLEAN
  BY DEF ListInv, ListReceive
<1>2. f \in Nat /\ l \in Nat /\ f <= l
  BY StreamAssumption
<1>3. /\ first + n - 1 <= MaxStream
      /\ recv_buffer_can_receive(rb, f, n) = 0
      /\ list_receive(new, f, l)
      /\ rb' = [rb EXCEPT
           !.buffer = CopyIn(@, seqnum_to_index_recv(rb, f), StreamBytes(first, n)),
           !.next_byte_expected_index =
              IF seg.start_seqnum_inclusive <= next_expected
                THEN seqnum_to_index_recv(rb, seg.end_seqnum_inclusive + 1)
                ELSE @,
           !.segs = SegsOf(heap', live')]
      /\ accepted' = accepted \cup (first .. first + n - 1)
      /\ UNCHANGED <<nread, chunk>>
  BY DEF ListReceive
<1> HIDE DEF f, l
<1>4. /\ seg = segment_merge(rb.segs, f, l)
      /\ SegsOf(heap', live') = IF seg.start_seqnum_inclusive <= next_expected
                                  THEN rest ELSE rest \cup {seg}
      /\ ListGood' /\ ~misuse'
  <2>1. CASE start = NULL
    <3>1. live = {}
      BY <1>1, <2>1, ListEnds
    <3>2. rb.segs = {}
      BY <3>1, <1>1 DEF SegsOf
    <3>3. /\ seg = Segment(f, l) /\ seg = segment_merge(rb.segs, f, l) /\ rest = {}
          /\ seg.start_seqnum_inclusive = f
      BY <2>1, <3>2, <1>2, MergeAlone DEF merged, Segment
    <3> HIDE DEF seg, rest
    <3>4. CASE f <= next_expected
      <4>1. UNCHANGED <<start, end, heap, live, misuse>>
        BY <3>4, <1>3, <2>1 DEF list_receive
      <4>2. SegsOf(heap', live') = {}
        BY <4>1, <3>1 DEF SegsOf
      <4>. QED  BY <4>1, <4>2, <3>3, <3>4, <1>1 DEF ListGood
    <3>5. CASE ~(f <= next_expected)
      <4>1. /\ start' = new.seg /\ end' = new.seg
            /\ heap' = NewSegment(new.heap, new.seg, f, l)
            /\ live' = live \cup {new.seg} /\ misuse' = misuse
        BY <3>5, <1>3, <2>1 DEF list_receive
      <4>2. ListGood' /\ SegsOf(heap', live') = {Segment(f, l)}
        BY <4>1, <3>1, <1>1, <1>2, FirstStep
      <4>. QED  BY <4>1, <4>2, <3>3, <3>5, <1>1
    <3>. QED  BY <3>4, <3>5
  <2>2. CASE start # NULL
    <3>1. live # {}
      BY <1>1, <2>2, ListEnds
    <3>2. Unset(new, f, l)
      BY <3>1, <1>1, <1>2, <1>3, EndsUnset
    <3>3. m.freed = Hit(f, l)
      BY <3>1, <3>2, <1>1, <1>2, MergeSplices
    <3>4. /\ segment_merge(rb.segs, f, l) =
               Segment(m.heap[m.seg].start_seqnum_inclusive,
                       m.heap[m.seg].end_seqnum_inclusive)
          /\ rest = SegsOf(heap, live \ Hit(f, l))
      BY <3>1, <3>2, <1>1, <1>2, MergeMatches
    <3>5. seg = Segment(m.heap[m.seg].start_seqnum_inclusive,
                        m.heap[m.seg].end_seqnum_inclusive)
      BY <2>2 DEF merged
    <3>6. /\ IF seg.start_seqnum_inclusive <= next_expected THEN Absorb(m) ELSE Keep(m)
          /\ Free(m.freed)
      BY <1>3, <2>2 DEF list_receive
    <3>7. ~misuse'
      BY <3>3, <3>6, <1>1 DEF Free, Hit
    <3> HIDE DEF seg, rest
    <3>8. CASE seg.start_seqnum_inclusive <= next_expected
      <4>1. Absorb(list_merge(new, f, l))
        BY <3>6, <3>8
      <4>2. ListGood' /\ SegsOf(heap', live') = SegsOf(heap, live \ Hit(f, l))
        BY <4>1, <3>1, <3>2, <1>1, <1>2, AbsorbStep
      <4>. QED  BY <4>2, <3>4, <3>5, <3>7, <3>8
    <3>9. CASE ~(seg.start_seqnum_inclusive <= next_expected)
      <4>1. Keep(list_merge(new, f, l))
        BY <3>6, <3>9
      <4>2. /\ ListGood'
            /\ SegsOf(heap', live') = SegsOf(heap, live \ Hit(f, l)) \cup
                 {Segment(m.heap[m.seg].start_seqnum_inclusive,
                          m.heap[m.seg].end_seqnum_inclusive)}
        BY <4>1, <3>1, <3>2, <1>1, <1>2, KeepStep
      <4>. QED  BY <4>2, <3>4, <3>5, <3>7, <3>9
    <3>. QED  BY <3>8, <3>9
  <2>. QED  BY <2>1, <2>2
<1>5. Receive(first, n)
  <2>1. Len(StreamBytes(first, n)) = n /\ f + n - 1 = l
    BY StreamAssumption DEF StreamBytes, f, l
  <2>2. rb' = recv_buffer_receive(rb, f, StreamBytes(first, n))
    <3> HIDE DEF seg
    <3>. QED  BY <2>1, <1>3, <1>4 DEF recv_buffer_receive, next_expected
  <2>. QED  BY <2>2, <1>3 DEF Receive, f
<1>6. RInv'
  <2>1. Next
    BY <1>5 DEF Next
  <2>. QED  BY <2>1, <1>1, NextStep
<1>7. rb'.segs = SegsOf(heap', live')
  <2>1. rb \in RecvBufferType
    BY <1>1, InvariantFacts
  <2> HIDE DEF seg
  <2>. QED  BY <2>1, <1>3 DEF RecvBufferType
<1>. QED  BY <1>1, <1>4, <1>5, <1>6, <1>7 DEF ListInv

(* cmu_read leaves the list alone.                                         *)
LEMMA ListReadStep ==
  ASSUME ListInv, NEW length \in 1 .. DEFAULT_BUFF_SIZE, ListRead(length)
  PROVE  ListInv' /\ Read(length)
<1>1. Read(length) /\ UNCHANGED list
  BY DEF ListRead
<1>2. RInv'
  <2>1. Next
    BY <1>1 DEF Next
  <2>. QED  BY <2>1, NextStep DEF ListInv
<1>3. rb'.segs = rb.segs
  <2>1. rb \in RecvBufferType
    BY InvariantFacts DEF ListInv
  <2>. QED  BY <2>1, <1>1 DEF Read, recv_buffer_read, RecvBufferType
<1>. QED  BY <1>1, <1>2, <1>3 DEF ListInv, list, ListGood, EndsAreEnds

(* recv_buffer_clean frees every cell of the list, and each of them once.  *)
LEMMA CleanStep ==
  ASSUME ListInv, Clean
  PROVE  ListInv'
<1> DEFINE lo(c) == heap[c].start_seqnum_inclusive
           hi(c) == heap[c].end_seqnum_inclusive
<1>1. /\ RInv /\ ListGood /\ ~misuse /\ EndsAreEnds
      /\ cleaned' = TRUE /\ live' = live \ segment_clean
      /\ misuse' = (misuse \/ ~(segment_clean \subseteq live))
      /\ UNCHANGED <<vars, start, end, heap>>
  BY DEF ListInv, Clean, Free
<1>2. RInv'
  BY <1>1, StutterStep
<1>3. segment_clean = live
  <2>1. CASE live = {}
    BY <2>1, <1>1, ListEnds DEF segment_clean
  <2>2. CASE live # {}
    <3>1. /\ heap \in Heap /\ live \in SUBSET Cell
          /\ Ordered(heap, live) /\ NextLinks(heap, live) /\ PrevLinks(heap, live)
      BY <1>1 DEF ListGood, Linked
    <3>2. /\ start \in live /\ \A c \in live : lo(start) <= lo(c)
          /\ end \in live /\ \A c \in live : hi(c) <= hi(end)
      BY <1>1, <2>2 DEF ListGood, Linked, Leftmost, Rightmost
    <3>3. /\ \A c \in live : lo(c) \in Nat /\ hi(c) \in Nat /\ lo(c) <= hi(c)
          /\ \A c, d \in live : c # d => hi(c) < lo(d) \/ hi(d) < lo(c)
      BY <3>1 DEF Ordered, CellsApart, Heap, CellType
    <3>4. \A c \in live : lo(c) <= lo(end)
      BY <3>2, <3>3
    <3>5. Between(heap, start, end) =
            {c \in live : lo(start) <= lo(c) /\ lo(c) <= lo(end)}
      BY <3>1, <3>2, BetweenIs
    <3>6. Between(heap, start, end) = live
      BY <3>2, <3>4, <3>5
    <3>. QED  BY <3>6, <2>2, <1>1, ListEnds DEF segment_clean
  <2>. QED  BY <2>1, <2>2
<1>. QED  BY <1>1, <1>2, <1>3 DEF ListInv, EndsAreEnds

(* Nothing happens.                                                        *)
LEMMA ListStutter ==
  ASSUME ListInv, UNCHANGED <<vars, list>>
  PROVE  ListInv'
<1>1. RInv'
  BY StutterStep DEF ListInv
<1>. QED  BY <1>1 DEF ListInv, vars, list, ListGood, EndsAreEnds

(* A step after which the ends of the list read as ends keeps the          *)
(* invariant, and does to the buffer what a step of RecvStream does.       *)
LEMMA ListStep ==
  ASSUME ListInv, [ListNext]_<<vars, list>>, EndsAreEnds'
  PROVE  ListInv' /\ [Next]_vars
<1>1. ASSUME NEW first \in 1 .. MaxStream, NEW n \in 1 .. MaxStream, NEW new \in malloc,
             ListReceive(new, first, n)
      PROVE  ListInv' /\ [Next]_vars
  BY <1>1, ListReceiveStep DEF Next
<1>2. ASSUME NEW length \in 1 .. DEFAULT_BUFF_SIZE, ListRead(length)
      PROVE  ListInv' /\ [Next]_vars
  BY <1>2, ListReadStep DEF Next
<1>3. CASE Clean
  BY <1>3, CleanStep DEF Clean
<1>4. CASE UNCHANGED <<vars, list>>
  BY <1>4, ListStutter
<1>. QED  BY <1>1, <1>2, <1>3, <1>4 DEF ListNext

(* The invariant holds as long as the ends of the list read as ends.       *)
LEMMA ListInvariance == ListSpec /\ []EndsAreEnds => []ListInv
<1>1. ListInv /\ [ListNext]_<<vars, list>> /\ EndsAreEnds' => ListInv'
  BY ListStep
<1>. QED  BY <1>1, ListInitial, PTL DEF ListSpec

-----------------------------------------------------------------------------
(* The theorems.  None of them assumes anything of the memory that malloc  *)
(* returns.  The links that segment_merge and recv_buffer_receive leave    *)
(* unset may lead anywhere, and where they do, EndsAreEnds is false.       *)

(* The links left unset are all that can go wrong with the list: a step    *)
(* from a sound list leads to a sound list if, and only if, the segments   *)
(* at its ends still read as ends, whatever packet came and whatever       *)
(* memory malloc returned.                                                 *)
THEOREM OnlyUnsetLinks ==
  ListSpec => [][ListInv => (ListInv' <=> EndsAreEnds')]_<<vars, list>>
<1>1. [ListNext]_<<vars, list>> /\ ListInv => (ListInv' <=> EndsAreEnds')
  <2>1. ListInv' => EndsAreEnds'
    BY DEF ListInv
  <2>. QED  BY <2>1, ListStep
<1>. QED  BY <1>1, PTL DEF ListSpec

(* Whatever packets came in whatever order, the doubly linked list that    *)
(* segment_merge and recv_buffer_receive maintain is the set of segments   *)
(* RecvBuffer keeps: in ascending order, and the same walked both ways.    *)
THEOREM ListIsTheSet == ListSpec /\ []EndsAreEnds => []ListIsSet
<1>1. ASSUME ListInv PROVE ListIsSet
  <2> SUFFICES ASSUME ~cleaned PROVE ListIsSet
    BY DEF ListIsSet
  <2> DEFINE s == Forward(heap, start)
             at(i) == Segment(heap[s[i]].start_seqnum_inclusive,
                              heap[s[i]].end_seqnum_inclusive)
  <2>1. /\ heap \in Heap /\ live \in SUBSET Cell
        /\ Ordered(heap, live) /\ NextLinks(heap, live) /\ PrevLinks(heap, live)
        /\ Leftmost(heap, live, start) /\ Rightmost(heap, live, end)
        /\ rb.segs = SegsOf(heap, live)
    BY <1>1 DEF ListInv, ListGood, Linked
  <2>2. PICK n \in 0 .. DEFAULT_BUFF_SIZE : Lists(heap, live, s, n)
    BY <2>1, ForwardLists
  <2>3. Backward(heap, end) = [i \in 1 .. n |-> s[n + 1 - i]]
    <3> HIDE DEF s
    <3>. QED  BY <2>1, <2>2, BackwardReverses
  <2> HIDE DEF s
  <2>4. /\ n \in Nat /\ DOMAIN s = 1 .. n /\ s \in [1 .. n -> live]
        /\ \A c \in live : \E i \in 1 .. n : s[i] = c
        /\ \A i, j \in 1 .. n : i < j =>
             heap[s[i]].end_seqnum_inclusive < heap[s[j]].start_seqnum_inclusive
    BY <2>2 DEF Lists
  <2>5. Len(s) = n
    <3>1. s \in Seq(live)
      BY <2>4
    <3>. QED  BY <3>1, <2>4
  <2>6. {at(i) : i \in DOMAIN s} = rb.segs
    BY <2>1, <2>4 DEF SegsOf
  <2>7. \A i \in 1 .. Len(s) - 1 :
          at(i).end_seqnum_inclusive < at(i + 1).start_seqnum_inclusive
    <3> SUFFICES ASSUME NEW i \in 1 .. n - 1
                 PROVE  at(i).end_seqnum_inclusive < at(i + 1).start_seqnum_inclusive
      BY <2>5
    <3>1. i \in 1 .. n /\ i + 1 \in 1 .. n /\ i < i + 1
      BY <2>4
    <3>. QED  BY <3>1, <2>4 DEF Segment
  <2>. QED  BY <2>3, <2>4, <2>5, <2>6, <2>7 DEF ListIsSet, s
<1>. QED  BY <1>1, ListInvariance, PTL

(* segment_merge, recv_buffer_receive and recv_buffer_clean free every     *)
(* cell exactly once: none twice, none still in the list, none is left.    *)
THEOREM CellsStayAccounted == ListSpec /\ []EndsAreEnds => []CellsAccounted
<1>1. ASSUME ListInv PROVE CellsAccounted
  <2>1. CASE cleaned
    BY <2>1, <1>1 DEF ListInv, CellsAccounted
  <2>2. CASE ~cleaned
    <3> DEFINE s == Forward(heap, start)
    <3>1. /\ heap \in Heap /\ live \in SUBSET Cell
          /\ Ordered(heap, live) /\ NextLinks(heap, live)
          /\ Leftmost(heap, live, start) /\ ~misuse
      BY <2>2, <1>1 DEF ListInv, ListGood, Linked
    <3>2. PICK n \in 0 .. DEFAULT_BUFF_SIZE : Lists(heap, live, s, n)
      BY <3>1, ForwardLists
    <3> HIDE DEF s
    <3>3. live = {s[i] : i \in DOMAIN s}
      BY <3>2 DEF Lists
    <3>. QED  BY <3>1, <3>3, <2>2 DEF CellsAccounted, s
  <2>. QED  BY <2>1, <2>2
<1>. QED  BY <1>1, ListInvariance, PTL

(* As many cells as the ring has slots are enough: malloc always finds one *)
(* that is not in use, so that the bound on memory keeps no packet out.    *)
THEOREM CellsSuffice == ListSpec /\ []EndsAreEnds => [](~cleaned => malloc # {})
<1>1. ASSUME ListInv, ~cleaned PROVE malloc # {}
  <2>1. PICK c \in Cell : c \notin live
    BY <1>1, RoomForSegment DEF ListInv, ListGood
  <2> DEFINE Link == {NULL} \cup Cell
             old == <<heap[c].prev, heap[c].next>>
  <2>2. [heap EXCEPT ![c].prev = old[1], ![c].next = old[2]] = heap /\ old \in Link \X Link
    BY <1>1, <2>1 DEF ListInv, ListGood, Heap, CellType
  <2>3. heap \in Contents(c)
    BY <2>2 DEF Contents
  <2> DEFINE From(d) == {[heap |-> h, seg |-> d] : h \in Contents(d)}
  <2>4. [heap |-> heap, seg |-> c] \in From(c)
    BY <2>3
  <2>5. malloc = UNION {From(d) : d \in Cell \ live}
    BY DEF malloc
  <2> HIDE DEF From
  <2>. QED  BY <2>1, <2>4, <2>5
<1>. QED  BY <1>1, ListInvariance, PTL

(* Refinement: the buffer that decides by its list, by where the two walks *)
(* stop and what the merged cell holds, takes the steps of the buffer that *)
(* decides by a set of segments.  With it, what is proved of RecvStream is *)
(* true of the buffer with its list.                                       *)
THEOREM ListImplementsBuffer == ListSpec /\ []EndsAreEnds => ImplementsBuffer
<1>1. ListInit => Init
  BY DEF ListInit
<1>2. ListInv /\ [ListNext]_<<vars, list>> /\ EndsAreEnds' => [Next]_vars
  BY ListStep
<1>. QED  BY <1>1, <1>2, ListInvariance, PTL DEF ListSpec, ImplementsBuffer, Spec
=============================================================================
