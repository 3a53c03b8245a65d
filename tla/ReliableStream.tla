--------------------------- MODULE ReliableStream ---------------------------
(***************************************************************************)
(* What a connection promises for the bytes that flow one way: what is     *)
(* read was received, what is received was written, and a byte leaves the  *)
(* sender only when the receiver has it.  No packets, no windows, no       *)
(* retransmissions; at most Limit bytes are kept on each side.             *)
(***************************************************************************)
EXTENDS Integers

CONSTANT Limit

VARIABLES
  written,   \* bytes the sending application has handed over
  acked,     \* bytes the sender has forgotten
  received,  \* bytes the receiver has in order
  read       \* bytes the receiving application was given

stream == <<written, acked, received, read>>

Init == written = 0 /\ acked = 0 /\ received = 0 /\ read = 0

Write(n) ==
  /\ written + n - acked <= Limit
  /\ written' = written + n
  /\ UNCHANGED <<acked, received, read>>

Receive(n) ==
  /\ received + n <= written
  /\ received + n - read <= Limit
  /\ received' = received + n
  /\ UNCHANGED <<written, acked, read>>

Forget(n) ==
  /\ acked + n <= received
  /\ acked' = acked + n
  /\ UNCHANGED <<written, received, read>>

Read(n) ==
  /\ read + n <= received
  /\ read' = read + n
  /\ UNCHANGED <<written, acked, received>>

Next == \E n \in 1 .. Limit : Write(n) \/ Receive(n) \/ Forget(n) \/ Read(n)

Spec == Init /\ [][Next]_stream
=============================================================================
