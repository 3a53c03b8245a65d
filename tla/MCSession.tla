----------------------------- MODULE MCSession -----------------------------
(***************************************************************************)
(* Instances of Session for TLC.                                           *)
(***************************************************************************)
EXTENDS Session

(* Different initial sequence numbers, as rand() gives them.               *)
MCISN == [e \in Endpoint |-> IF e = "client" THEN 3 ELSE 1]

(* How much each application writes.                                       *)
OneEach == [e \in Endpoint |-> 1]
=============================================================================
