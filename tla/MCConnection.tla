---------------------------- MODULE MCConnection ----------------------------
(***************************************************************************)
(* Instances of Connection for TLC.                                        *)
(***************************************************************************)
EXTENDS Connection

(* Different initial sequence numbers, as rand() gives them.               *)
MCISN == [e \in Endpoint |-> IF e = "client" THEN 3 ELSE 0]

(* How much each application writes.                                       *)
OneWay(n) == [e \in Endpoint |-> IF e = "client" THEN n ELSE 0]
OneWay2   == OneWay(2)
OneWay3   == OneWay(3)
OneWay4   == OneWay(4)
(* One byte one way, and more than a lap the other.                        *)
Torn      == [e \in Endpoint |-> IF e = "client" THEN 3 ELSE 1]
=============================================================================
