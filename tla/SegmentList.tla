---------------------------- MODULE SegmentList ----------------------------
(***************************************************************************)
(* The receive buffer on its doubly linked list of segments, cell by cell: *)
(* the pointers segment_merge turns, the cells it frees, the links that    *)
(* segment_merge and recv_buffer_receive do not set in the memory malloc   *)
(* returns, and recv_buffer_clean at the end.  What recv_buffer_receive    *)
(* decides, it decides by what it finds in the list.  rb.segs, in          *)
(* RecvBuffer the segments themselves, is here only a view: what the cells *)
(* in use hold.  No step reads it.                                         *)
(***************************************************************************)
EXTENDS SeqWords

CONSTANTS
  Cell,     \* addresses of segments
  NULL,
  Recycled  \* whether memory from malloc has the links that it had when it was
            \* freed, or any links

(* More cells than segments ever exist at a time: in a ring of that many   *)
(* slots at least two are not available to segments.                       *)
ASSUME HeapAssumption ==
  /\ NULL \notin Cell
  /\ IsFiniteSet(Cell) /\ Cardinality(Cell) = DEFAULT_BUFF_SIZE
  /\ Recycled \in BOOLEAN

Blank == [start_seqnum_inclusive |-> 0, end_seqnum_inclusive |-> 0,
          prev |-> NULL, next |-> NULL]

VARIABLES
  start, end,  \* recv_buf->start, recv_buf->end
  heap,        \* the memory of the segments: heap[c] is the segment_t at c
  live,        \* the cells allocated
  misuse,      \* history: whether a cell was freed that was not allocated
  cleaned      \* whether recv_buffer_clean has run

list == <<start, end, heap, live, misuse, cleaned>>

ListInit ==
  /\ Init
  /\ start = NULL /\ end = NULL
  /\ heap = [c \in Cell |-> Blank]
  /\ live = {}
  /\ misuse = FALSE
  /\ cleaned = FALSE

-----------------------------------------------------------------------------
(* Memory.                                                                 *)

(* What the links in cell c may be: the old ones, or anything.             *)
Contents(c) ==
  LET Link == {NULL} \cup Cell IN
  {h \in {[heap EXCEPT ![c].prev = link[1], ![c].next = link[2]] :
             link \in Link \X Link} : Recycled => h = heap}

(* What malloc may return: a cell that is not in use, and what is in it.   *)
malloc ==
  UNION {{[heap |-> h, seg |-> c] : h \in Contents(c)} : c \in Cell \ live}

(* Freed cells keep their links, if recycled memory does.  (glibc uses the *)
(* place of the numbers for itself, and that of prev in some versions, but *)
(* not that of next.)                                                      *)
Freed(h, cells) ==
  [c \in Cell |->
     IF c \notin cells THEN h[c]
     ELSE IF Recycled THEN [Blank EXCEPT !.prev = h[c].prev, !.next = h[c].next]
     ELSE Blank]

(* The cell that holds first .. last; its links are what they are.         *)
NewSegment(h, c, first, last) ==
  [h EXCEPT ![c].start_seqnum_inclusive = first, ![c].end_seqnum_inclusive = last]

(* Assignment through a pointer that may be NULL, after the code's test.   *)
SetNext(h, c, to) == IF c = NULL THEN h ELSE [h EXCEPT ![c].next = to]
SetPrev(h, c, to) == IF c = NULL THEN h ELSE [h EXCEPT ![c].prev = to]

(* The cells that a loop comes by which starts at c and follows links as   *)
(* far as NULL.  A list has no more cells than there are: only a loop that *)
(* goes round in a circle, which never ends, is cut off.                   *)
Walk(c, link) ==
  LET cell[i \in 1 .. DEFAULT_BUFF_SIZE] == IF i = 1 THEN c ELSE link[cell[i - 1]]
  IN  [i \in {j \in DOMAIN cell : cell[j] # NULL} |-> cell[i]]

Forward(h, c) ==
  Walk(c, [d \in {NULL} \cup Cell |-> IF d = NULL THEN NULL ELSE h[d].next])

Backward(h, c) ==
  Walk(c, [d \in {NULL} \cup Cell |-> IF d = NULL THEN NULL ELSE h[d].prev])

(* The first of them that is in S.                                         *)
FirstCell(cells, S) ==
  LET found == {i \in DOMAIN cells : cells[i] \in S}
  IN  IF found = {} THEN NULL ELSE cells[Min(found)]

-----------------------------------------------------------------------------
(* segment_merge: the heap, the new cell and the cells to free; new is     *)
(* what malloc returned.                                                   *)

Merged(h, c, freed) == [heap |-> h, seg |-> c, freed |-> freed]

(* A merge that keeps the old cell between its neighbours.                 *)
MutUnlink(h, seg, left_end, right_end) ==
  LET tied == [h EXCEPT ![seg].next = h[right_end].next,
                        ![seg].prev = h[left_end].prev]
  IN  SetPrev(tied, h[right_end].next, seg)

(* The new cell takes the place of left_end .. right_end in the list.      *)
Replace(h, seg, left_end, right_end) ==
  LET tied == [h EXCEPT ![seg].next = h[right_end].next,
                        ![seg].prev = h[left_end].prev]
  IN  SetNext(SetPrev(tied, h[right_end].next, seg), h[left_end].prev, seg)

(* A clean-up that stops one cell short.                                   *)
MutBetween(h, left_end, right_end) ==
  LET cells == Forward(h, left_end)
      stop  == CHOOSE j \in DOMAIN cells : cells[j] = right_end
  IN  {h[cells[i]].prev : i \in 2 .. stop}

(* "clean up left_end, ..., right_end": every cell but the last is freed   *)
(* through the prev of its successor.                                      *)
Between(h, left_end, right_end) ==
  LET cells == Forward(h, left_end)
      stop  == CHOOSE j \in DOMAIN cells : cells[j] = right_end
  IN  {h[cells[i]].prev : i \in 2 .. stop} \cup {right_end}

list_merge(new, first, last) ==
  LET left_end  == FirstCell(Forward(heap, start),
                             {c \in Cell : heap[c].end_seqnum_inclusive >= first})
      right_end == FirstCell(Backward(heap, end),
                             {c \in Cell : heap[c].start_seqnum_inclusive <= last})
      seg   == new.seg
      alone == NewSegment(new.heap, seg, first, last)
  IN
  IF left_end = NULL
  THEN Merged([alone EXCEPT ![seg].prev = end, ![end].next = seg], seg, {})
  ELSE IF right_end = NULL
  THEN Merged([alone EXCEPT ![seg].next = start, ![start].prev = seg], seg, {})
  ELSE IF heap[right_end].next = left_end
  THEN Merged([alone EXCEPT ![seg].next = left_end, ![left_end].prev = seg,
                            ![seg].prev = right_end, ![right_end].next = seg],
              seg, {})
  ELSE Merged(Replace(NewSegment(new.heap, seg,
                        MIN(heap[left_end].start_seqnum_inclusive, first),
                        MAX(heap[right_end].end_seqnum_inclusive, last)),
                      seg, left_end, right_end),
              seg, Between(heap, left_end, right_end))

-----------------------------------------------------------------------------
(* recv_buffer_receive, as far as the list goes.                           *)

Free(cells) == misuse' = (misuse \/ ~(cells \subseteq live))

(* The merged segment reaches the in-order data: it leaves the list again. *)
Absorb(m) ==
  LET h    == m.heap
      prev == h[m.seg].prev
      next == h[m.seg].next
  IN
  /\ start' = IF prev = NULL THEN next ELSE start
  /\ end' = IF next = NULL THEN prev ELSE end
  /\ heap' = Freed(SetPrev(SetNext(h, prev, next), next, prev), m.freed \cup {m.seg})
  /\ live' = live \ m.freed

(* The merged segment stays.                                               *)
Keep(m) ==
  /\ start' = IF m.heap[m.seg].prev = NULL THEN m.seg ELSE start
  /\ end' = IF m.heap[m.seg].next = NULL THEN m.seg ELSE end
  /\ heap' = Freed(m.heap, m.freed)
  /\ live' = (live \ m.freed) \cup {m.seg}

(* What a packet brings, without what it was merged with.                  *)
MutMerged(new, first, last) == Segment(first, last)

(* The segment that a packet ends up in: itself if there is no other.      *)
merged(new, first, last) ==
  IF start = NULL THEN Segment(first, last)
  ELSE LET m == list_merge(new, first, last)
       IN  Segment(m.heap[m.seg].start_seqnum_inclusive,
                   m.heap[m.seg].end_seqnum_inclusive)

list_receive(new, first, last) ==
  IF start = NULL
  THEN IF first <= next_expected
       THEN UNCHANGED <<start, end, heap, live, misuse>>
       ELSE /\ start' = new.seg /\ end' = new.seg
            /\ heap' = NewSegment(new.heap, new.seg, first, last)
            /\ live' = live \cup {new.seg}
            /\ UNCHANGED misuse
  ELSE LET m == list_merge(new, first, last) IN
       /\ IF merged(new, first, last).start_seqnum_inclusive <= next_expected
            THEN Absorb(m) ELSE Keep(m)
       /\ Free(m.freed)

(* What the cells of L hold.                                               *)
SegsOf(h, L) ==
  {Segment(h[c].start_seqnum_inclusive, h[c].end_seqnum_inclusive) : c \in L}

segment_clean ==
  IF start = NULL \/ end = NULL THEN {} ELSE Between(heap, start, end)

(* recv_buffer_clean, called by cmu_close when the backend is gone.        *)
Clean ==
  /\ ~cleaned
  /\ cleaned' = TRUE
  /\ live' = live \ segment_clean
  /\ Free(segment_clean)
  /\ UNCHANGED <<vars, start, end, heap>>

(* handle_message, between locking and unlocking recv_lock, with all that  *)
(* recv_buffer_receive does.                                               *)
ListReceive(new, first, n) ==
  LET seqnum == ISN + first
      last   == seqnum + n - 1
      seg    == merged(new, seqnum, last)
  IN
  /\ ~cleaned
  /\ first + n - 1 <= MaxStream
  /\ recv_buffer_can_receive(rb, seqnum, n) = 0
  /\ list_receive(new, seqnum, last)
  /\ rb' = [rb EXCEPT
       !.buffer = CopyIn(@, seqnum_to_index_recv(rb, seqnum), StreamBytes(first, n)),
       !.next_byte_expected_index =
          IF seg.start_seqnum_inclusive <= next_expected
            THEN seqnum_to_index_recv(rb, seg.end_seqnum_inclusive + 1)
            ELSE @,
       !.segs = SegsOf(heap', live')]
  /\ accepted' = accepted \cup (first .. first + n - 1)
  /\ UNCHANGED <<nread, chunk, cleaned>>

ListRead(length) ==
  /\ ~cleaned
  /\ Read(length)
  /\ UNCHANGED list

ListNext ==
  \/ \E first, n \in 1 .. MaxStream, new \in malloc : ListReceive(new, first, n)
  \/ \E length \in 1 .. DEFAULT_BUFF_SIZE : ListRead(length)
  \/ Clean

ListSpec == ListInit /\ [][ListNext]_<<vars, list>>

(* "should be placed on the right-most" (recv_buffer.c:116): the segment   *)
(* at the right end of the list has no successor, the one at the left end  *)
(* no predecessor.  segment_merge tells the ends from the links it did not *)
(* set.                                                                    *)
EndsAreEnds ==
  start # NULL => heap[start].prev = NULL /\ heap[end].next = NULL

(* ListSpec /\ []EndsAreEnds as an initial condition and steps: whatever   *)
(* memory holds, a link left unset at an end of the list reads as NULL.    *)
TiedSpec == ListInit /\ [][ListNext /\ EndsAreEnds']_<<vars, list>>

-----------------------------------------------------------------------------
(* Whatever packets came in whatever order, the two walks of segment_merge *)
(* come by the same cells, those in use and no others, one in ascending    *)
(* order and one in descending (it takes what the two find for the ends of *)
(* one interval).                                                          *)
ListIsSet ==
  ~cleaned =>
    LET cells == Forward(heap, start)
        at(i) == Segment(heap[cells[i]].start_seqnum_inclusive,
                         heap[cells[i]].end_seqnum_inclusive)
    IN /\ Backward(heap, end) = [i \in DOMAIN cells |-> cells[Len(cells) + 1 - i]]
       /\ {at(i) : i \in DOMAIN cells} = rb.segs
       /\ \A i \in 1 .. Len(cells) - 1 :
            at(i).end_seqnum_inclusive < at(i + 1).start_seqnum_inclusive

(* Every cell is freed exactly once: none while it is in the list, none    *)
(* twice, and none is left when the buffer is gone.                        *)
CellsAccounted ==
  /\ ~misuse
  /\ live = IF cleaned THEN {}
            ELSE {Forward(heap, start)[i] : i \in DOMAIN Forward(heap, start)}

(* Refinement: what the buffer does by its list is what RecvBuffer does by *)
(* a set of segments.  The index of the next expected byte, and with it    *)
(* what is acknowledged and read, comes from walks that stop in the right  *)
(* place and a merge that takes in the right cells.                        *)
ImplementsBuffer == Spec
=============================================================================
