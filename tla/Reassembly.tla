----------------------------- MODULE Reassembly -----------------------------
(***************************************************************************)
(* What a receive buffer promises, with no ring and no list of segments:   *)
(* the set of the stream positions received so far, filled in any order    *)
(* but never more than Limit bytes ahead of the reader, and a reader that  *)
(* is given the stream without a gap, a repetition or a byte that did not  *)
(* arrive.                                                                 *)
(***************************************************************************)
EXTENDS Integers

CONSTANTS Limit, MaxStream

VARIABLES received, read

reassembly == <<received, read>>

Init == received = {} /\ read = 0

(* A packet of consecutive bytes arrives and is kept as a whole.           *)
Receive(first, last) ==
  /\ first .. last \subseteq read + 1 .. read + Limit
  /\ received' = received \cup (first .. last)
  /\ UNCHANGED read

Read(n) ==
  /\ read + 1 .. read + n \subseteq received
  /\ read' = read + n
  /\ UNCHANGED received

Next ==
  \/ \E first, last \in 1 .. MaxStream : first <= last /\ Receive(first, last)
  \/ \E n \in 1 .. Limit : Read(n)

Spec == Init /\ [][Next]_reassembly
=============================================================================
