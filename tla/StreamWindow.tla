---------------------------- MODULE StreamWindow ----------------------------
(***************************************************************************)
(* What a send buffer promises, with no ring in sight: a window over the   *)
(* stream the application writes.  The first `acked` bytes were            *)
(* acknowledged and forgotten, those up to `sent` were transmitted and are *)
(* kept for retransmission, those up to `written` wait to be sent; and     *)
(* never more than Limit bytes are kept.                                   *)
(***************************************************************************)
EXTENDS Integers

CONSTANT Limit

VARIABLES acked, sent, written

window == <<acked, sent, written>>

Init == acked = 0 /\ sent = 0 /\ written = 0

(* The application hands over n bytes, if there is room for them.          *)
Write(n) ==
  /\ written + n - acked <= Limit
  /\ written' = written + n
  /\ UNCHANGED <<acked, sent>>

(* n bytes go out for the first time.                                      *)
Send(n) ==
  /\ sent + n <= written
  /\ sent' = sent + n
  /\ UNCHANGED <<acked, written>>

(* n bytes are acknowledged: only bytes that were sent.                    *)
Acknowledge(n) ==
  /\ acked + n <= sent
  /\ acked' = acked + n
  /\ UNCHANGED <<sent, written>>

Next == \E n \in 1 .. Limit : Write(n) \/ Send(n) \/ Acknowledge(n)

Spec == Init /\ [][Next]_window
=============================================================================
