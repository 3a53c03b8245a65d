------------------------------- MODULE Session -------------------------------
(***************************************************************************)
(* Two sockets from the first packet on: the three-way handshake           *)
(* (init_handshake_client and init_handshake_server of backend.c) and,     *)
(* once an endpoint is ESTABLISHED, its part of Connection.                *)
(*                                                                         *)
(* Packets with the SYN flag are in `syns`; those in `net` have the ACK    *)
(* flag and no other.  A failed assertion ends the process.  The server    *)
(* listens from the start: what is sent before is lost, as any packet may  *)
(* be.                                                                     *)
(***************************************************************************)
EXTENDS Connection

VARIABLES
  state,        \* sock->state
  initialized,  \* sock->initialized
  syns,         \* the SYN and SYN-ACK packets in the network
  aborted       \* where an assertion failed, or "nowhere"

handshake == <<state, initialized, syns, aborted>>
session == <<vars, handshake>>

(* cmu_socket, up to the first packet: a receive buffer learns the peer's  *)
(* initial sequence number only from its SYN, and the acknowledgement of   *)
(* the own SYN is still to come.                                           *)
SessionInit ==
  /\ sb = [e \in Endpoint |-> send_buffer_initialize(ISN[e])]
  /\ rb = [e \in Endpoint |-> recv_buffer_initialize(0)]
  /\ window = [e \in Endpoint |->
                 [next_seq_expected      |-> 0,
                  last_ack_received      |-> ISN[e],
                  rcvd_advertised_window |-> CP1_WINDOW_SIZE]]
  /\ pc = [e \in Endpoint |-> "check"]
  /\ wrapped = [e \in Endpoint |-> FALSE]
  /\ net = {}
  /\ alive = [e \in Endpoint |-> TRUE]
  /\ wrote = [e \in Endpoint |-> 0]
  /\ delivered = [e \in Endpoint |-> {}]
  /\ state = [e \in Endpoint |-> IF e = "client" THEN "CLOSED" ELSE "LISTEN"]
  /\ initialized = [e \in Endpoint |-> FALSE]
  /\ syns = {}
  /\ aborted = [e \in Endpoint |-> "nowhere"]

-----------------------------------------------------------------------------
(* Packets of the handshake.                                               *)

SYN == Compose("client", ISN["client"], 0, {"SYN"}, CP1_WINDOW_SIZE, <<>>)

(* The number of the SYN taken for the number expected next.               *)
MutSynAck(acknum) ==
  Compose("server", ISN["server"], acknum - 1, {"SYN", "ACK"}, CP1_WINDOW_SIZE, <<>>)

SYN_ACK(acknum) ==
  Compose("server", ISN["server"], acknum, {"SYN", "ACK"}, CP1_WINDOW_SIZE, <<>>)

Incoming(e) == {p \in syns \cup net : p.dst = e}

(* sendto a packet with the SYN flag, after recvfrom removed those in      *)
(* `taken` (the network may have made a copy).                             *)
TransmitSyn(packets, taken) ==
  \E copied \in Duplication, lost \in BOOLEAN :
    syns' = (IF copied THEN syns ELSE syns \ taken)
              \cup (IF lost THEN {} ELSE packets)

Abort(e, where) ==
  /\ alive' = [alive EXCEPT ![e] = FALSE]
  /\ aborted' = [aborted EXCEPT ![e] = where]

-----------------------------------------------------------------------------
(* The client: init_handshake_client.                                      *)

(* The first SYN, and its repetition when nothing comes for a while.       *)
SendSyn ==
  /\ state["client"] \in {"CLOSED", "SYN_SENT"}
  /\ alive["client"]
  /\ TransmitSyn(SYN, {})
  /\ state' = [state EXCEPT !["client"] = "SYN_SENT"]
  /\ UNCHANGED <<vars, initialized, aborted>>

(* The assertions on the answer.                                           *)
AcceptableSynAck(p) ==
  /\ p.flags = {"SYN", "ACK"}
  /\ rb["client"].last_byte_read_seqnum = 0
  /\ p.ack = window["client"].last_ack_received + 1

(* The acknowledgement of the SYN is not noted.                            *)
MutOpened(w, p) == [w EXCEPT !.next_seq_expected = p.seq + 1]

(* The window_t after the SYN-ACK.                                         *)
Opened(w, p) ==
  [w EXCEPT !.last_ack_received = p.ack, !.next_seq_expected = p.seq + 1]

ClientReceive(p) ==
  /\ alive["client"]
  /\ state["client"] = "SYN_SENT"
  /\ p \in Incoming("client")
  /\ IF AcceptableSynAck(p)
     THEN /\ rb' = [rb EXCEPT !["client"] = recv_buffer_initialize(p.seq)]
          /\ window' = [window EXCEPT !["client"] = Opened(@, p)]
          /\ Transmit(Compose("client", 0, p.seq + 1, {"ACK"}, CP1_WINDOW_SIZE, <<>>))
          /\ \E copied \in Duplication :
               syns' = IF copied THEN syns ELSE syns \ {p}
          /\ state' = [state EXCEPT !["client"] = "ESTABLISHED"]
          /\ initialized' = [initialized EXCEPT !["client"] = TRUE]
          /\ UNCHANGED <<sb, pc, wrapped, alive, wrote, delivered, aborted>>
     ELSE /\ Abort("client", "handshake")
          /\ UNCHANGED <<sb, rb, window, pc, wrapped, net, wrote, delivered,
                         state, initialized, syns>>

-----------------------------------------------------------------------------
(* The server: init_handshake_server.                                      *)

(* A server that acknowledges the SYN by its own number, and stays where   *)
(* it is.                                                                  *)
MutServerListen(p) ==
  /\ alive["server"] /\ state["server"] = "LISTEN"
  /\ p \in Incoming("server")
  /\ TransmitSyn(SYN_ACK(p.seq), {p})
  /\ UNCHANGED <<vars, state, initialized, aborted>>

(* State LISTEN: the application may use the socket from here on.          *)
ServerListen(p) ==
  /\ alive["server"]
  /\ state["server"] = "LISTEN"
  /\ p \in Incoming("server")
  /\ IF p.flags = {"SYN"} /\ rb["server"].last_byte_read_seqnum = 0
     THEN /\ rb' = [rb EXCEPT !["server"] = recv_buffer_initialize(p.seq)]
          /\ window' = [window EXCEPT !["server"].next_seq_expected = p.seq + 1]
          /\ TransmitSyn(SYN_ACK(p.seq + 1), {p})
          /\ state' = [state EXCEPT !["server"] = "SYN_RCVD"]
          /\ initialized' = [initialized EXCEPT !["server"] = TRUE]
          /\ UNCHANGED <<sb, pc, wrapped, net, alive, wrote, delivered, aborted>>
     ELSE /\ Abort("server", "handshake")
          /\ UNCHANGED <<sb, rb, window, pc, wrapped, net, wrote, delivered,
                         state, initialized, syns>>

(* State SYN_RCVD, an acknowledgement of the SYN-ACK: the packet is then   *)
(* handled like any other.  (begin_backend goes on with check_for_data     *)
(* once more before it sends; NoData is always possible, so going on with  *)
(* "send" adds nothing.)                                                   *)
ServerEstablish(p, again) ==
  /\ alive["server"]
  /\ state["server"] = "SYN_RCVD"
  /\ p \in net
  /\ p.ack = window["server"].last_ack_received + 1
  /\ HandleMessage("server", p, again)
  /\ state' = [state EXCEPT !["server"] = "ESTABLISHED"]
  /\ UNCHANGED <<initialized, syns, aborted>>

(* A server that drops the repeated SYN.                                   *)
MutServerRepeat(p) ==
  /\ alive["server"] /\ state["server"] = "SYN_RCVD"
  /\ p \in Incoming("server") /\ "SYN" \in p.flags
  /\ syns' = syns \ {p}
  /\ UNCHANGED <<vars, state, initialized, aborted>>

(* SYN_RCVD, the SYN once more: nothing but that makes the server send its *)
(* SYN-ACK again.                                                          *)
ServerRepeat(p) ==
  /\ alive["server"]
  /\ state["server"] = "SYN_RCVD"
  /\ p \in Incoming("server")
  /\ ~("ACK" \in p.flags /\ p.ack = window["server"].last_ack_received + 1)
  /\ IF "SYN" \in p.flags
     THEN /\ TransmitSyn(SYN_ACK(window["server"].next_seq_expected), {p})
          /\ UNCHANGED <<vars, state, initialized, aborted>>
     ELSE /\ Abort("server", "handshake")
          /\ UNCHANGED <<sb, rb, window, pc, wrapped, net, wrote, delivered,
                         state, initialized, syns>>

-----------------------------------------------------------------------------
(* Afterwards.                                                             *)

(* The two assertions at the head of handle_message.                       *)
LateSyn(e, p) ==
  /\ alive[e]
  /\ state[e] = "ESTABLISHED" /\ pc[e] = "check"
  /\ p \in Incoming(e) \cap syns
  /\ Abort(e, "handle_message")
  /\ UNCHANGED <<sb, rb, window, pc, wrapped, net, wrote, delivered,
                 state, initialized, syns>>

Established(e) ==
  /\ state[e] = "ESTABLISHED"
  /\ Backend(e)
  /\ UNCHANGED handshake

Application(e) ==
  /\ initialized[e]
  /\ \E n \in 1 .. DEFAULT_BUFF_SIZE : Write(e, n) \/ Read(e, n)
  /\ UNCHANGED handshake

SessionNext ==
  \/ SendSyn
  \/ \E p \in syns \cup net : ClientReceive(p)
  \/ \E p \in syns \cup net : ServerListen(p)
  \/ \E p \in net, again \in Duplication : ServerEstablish(p, again)
  \/ \E p \in syns \cup net : ServerRepeat(p)
  \/ \E e \in Endpoint, p \in syns : LateSyn(e, p)
  \/ \E e \in Endpoint : Established(e) \/ Application(e)

SessionSpec == SessionInit /\ [][SessionNext]_session

-----------------------------------------------------------------------------
(* Type invariant of the variables that Connection does not have.          *)
SessionTypeOK ==
  /\ state \in [Endpoint -> {"CLOSED", "LISTEN", "SYN_SENT", "SYN_RCVD",
                             "ESTABLISHED"}]
  /\ initialized \in [Endpoint -> BOOLEAN]
  /\ syns \subseteq SYN \cup SYN_ACK(ISN["client"] + 1)
  /\ aborted \in [Endpoint -> {"nowhere", "handshake", "handle_message"}]

(* No packet that is late, lost or repeated trips an assertion of the      *)
(* handshake itself (backend.c:185-198, 272-281, 341).                     *)
HandshakeAssertsHold == \A e \in Endpoint : aborted[e] # "handshake"

(* When the application may use a socket (`initialized`), its receive      *)
(* buffer stands exactly at the peer's stream, even while the peer is not  *)
(* ESTABLISHED, or is already sending.                                     *)
InitializedInStep ==
  \A e \in Endpoint : initialized[e] =>
    /\ ISN[peer(e)] <= rb[e].last_byte_read_seqnum
    /\ sb[peer(e)].last_byte_acked_seqnum < next_expected(e)
    /\ next_expected(e) <= get_last_byte_sent_seqnum(sb[peer(e)]) + 1
    /\ window[e].next_seq_expected = next_expected(e)

(* A backend starts to send only when both ends are ready: the server is   *)
(* ESTABLISHED only after the client, and neither with a window_t that has *)
(* the wrong idea of what was acknowledged.                                *)
EstablishedInStep ==
  /\ state["server"] = "ESTABLISHED" => state["client"] = "ESTABLISHED"
  /\ \A e \in Endpoint : state[e] = "ESTABLISHED" =>
       /\ initialized["client"] /\ initialized["server"]
       /\ window[e].last_ack_received = sb[e].last_byte_acked_seqnum + 1

(* While the streams have not come back to slot 0 of their rings, what is  *)
(* read is what was written, and a process dies of nothing but the one     *)
(* assertion about a late SYN.                                             *)
TransferIntact ==
  \A e \in Endpoint : wrote[e] < DEFAULT_BUFF_SIZE =>
    /\ delivered[peer(e)] \subseteq {"right"}
    /\ alive[e] \/ aborted[e] = "handle_message"

(* "should not see a SYN packet after initial handshake" (backend.c:49).   *)
NoSynAfterHandshake == \A e \in Endpoint : aborted[e] # "handle_message"

-----------------------------------------------------------------------------
(* Nothing is received by a buffer that is not initialized.                *)
ReceivedSoFar(e) == IF initialized[peer(e)] THEN ReceivedBytes(e) ELSE 0
ReadSoFar(e)     == IF initialized[peer(e)] THEN ReadBytes(e) ELSE 0

UpToServer == INSTANCE ReliableStream WITH
  Limit    <- DEFAULT_BUFF_SIZE - 1,
  written  <- wrote["client"],          acked <- AckedBytes("client"),
  received <- ReceivedSoFar("client"),  read  <- ReadSoFar("client")

DownToClient == INSTANCE ReliableStream WITH
  Limit    <- DEFAULT_BUFF_SIZE - 1,
  written  <- wrote["server"],          acked <- AckedBytes("server"),
  received <- ReceivedSoFar("server"),  read  <- ReadSoFar("server")

(* Refinement: with the handshake in front, and data that arrives while it *)
(* is still going on, both directions are reliable streams.                *)
SessionImplementsStreams == UpToServer!Spec /\ DownToClient!Spec

-----------------------------------------------------------------------------
(* Fairness: that of Connection, for the handshake.  The client repeats    *)
(* its SYN, and of what is sent again and again something gets through and *)
(* is handled.                                                             *)
SessionFairness ==
  /\ SF_session(SendSyn /\ SYN \subseteq syns')
  /\ SF_session(\E p \in syns : ServerListen(p) /\ SYN_ACK(p.seq + 1) \subseteq syns')
  /\ SF_session(\E p \in syns : ServerRepeat(p)
                  /\ SYN_ACK(window["server"].next_seq_expected) \subseteq syns')
  /\ SF_session(\E p \in syns : ClientReceive(p))
  /\ SF_session(\E p \in net : ServerEstablish(p, FALSE))
  /\ \A e \in Endpoint :
       /\ WF_session(Established(e))
       /\ SF_session(\E w \in AdvertisedWindows(e) :
                       /\ state[e] = "ESTABLISHED"
                       /\ Timeout(e, w)
                       /\ resend_unacknowledged(e, w) \subseteq net'
                       /\ UNCHANGED handshake)

FairSessionSpec == SessionSpec /\ SessionFairness

(* The handshake ends, if the client has something to send: the data it    *)
(* retransmits stands in for an acknowledgement that was lost (the server  *)
(* never repeats its SYN-ACK of its own accord).                           *)
EventuallyEstablished ==
  /\ <>(state["client"] = "ESTABLISHED")
  /\ wrote["client"] > 0 ~>
       (state["server"] = "ESTABLISHED" \/ \E e \in Endpoint : ~alive[e])
=============================================================================
