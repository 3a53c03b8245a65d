------------------------------- MODULE Packet -------------------------------
(***************************************************************************)
(* cmu_packet.c: packets and their headers.  A packet is a record of the   *)
(* header fields that the program looks at, the peer it is sent to and the *)
(* payload.  The identifier and the ports are never looked at, and no      *)
(* packet has an extension (ext_len is 0 in every call).  Lengths and the  *)
(* window are 16 bits wide in the header.                                  *)
(***************************************************************************)
EXTENDS Naturals, Sequences

(* sizeof(cmu_tcp_header_t)                                                *)
HeaderSize == 25

uint16(n) == n % 2^16

(* The fields as the getters read them, for any set of payloads.           *)
PacketType(Peers, Payloads) ==
  [dst : Peers, seq : Nat, ack : Nat, hlen : 0 .. 2^16 - 1, plen : 0 .. 2^16 - 1,
   flags : SUBSET {"SYN", "ACK", "FIN"}, adv_window : 0 .. 2^16 - 1,
   payload : Payloads]

set_header(dst, seq, ack, hlen, plen, flags, adv_window, payload) ==
  [dst |-> dst, seq |-> seq, ack |-> ack, hlen |-> hlen, plen |-> plen,
   flags |-> flags, adv_window |-> adv_window, payload |-> payload]

(* The set of the packet, or empty for the NULL that is returned when the  *)
(* lengths do not fit together (sendto sends nothing then).                *)
create_packet(dst, seq, ack, hlen, plen, flags, adv_window, payload) ==
  IF hlen < HeaderSize \/ plen < hlen THEN {}
  ELSE {set_header(dst, seq, ack, hlen, plen, flags, adv_window, payload)}

get_payload_len(pkt) == uint16(pkt.plen + 2^16 - pkt.hlen)

(* As many bytes from the payload on as get_payload_len says.              *)
get_payload(pkt) == SubSeq(pkt.payload, 1, get_payload_len(pkt))
=============================================================================
