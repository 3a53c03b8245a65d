---------------------------- MODULE SessionProofs ----------------------------
(***************************************************************************)
(* Proofs about Session, for every capacity, every MSS, all initial        *)
(* sequence numbers, streams of every length and any number of packets in  *)
(* the network.                                                            *)
(*                                                                         *)
(* A session goes through three phases.  Opening: the client has not seen  *)
(* a SYN-ACK; only packets with the SYN flag are under way, though the     *)
(* server may be ready and its application write.  HalfOpen: the client is *)
(* ESTABLISHED and sends, the server has seen its SYN only; it is here     *)
(* that the invariant of Connection first holds, but for the window_t of   *)
(* the server.  BothOpen: the connection.                                  *)
(***************************************************************************)
EXTENDS Session, ConnectionProofs

(* The last packet of the handshake advertises a window of its own.        *)
HandshakeAck ==
  Compose("client", 0, ISN["server"] + 1, {"ACK"}, CP1_WINDOW_SIZE, <<>>)

(* Nothing of the stream of e was sent; it may have been written.          *)
Unsent(e) ==
  /\ SendGood(sb[e], ISN[e])
  /\ acked(sb[e]) = ISN[e] /\ sent(sb[e]) = ISN[e]
  /\ written(sb[e]) = ISN[e] + wrote[e] + 1
  /\ window[e].last_ack_received = ISN[e]
  /\ delivered[e] = {}

(* The server before and after its first SYN.                              *)
ServerWaits ==
  /\ state["server"] = "LISTEN" /\ ~initialized["server"]
  /\ rb["server"] = recv_buffer_initialize(0)
  /\ syns \subseteq SYN

ServerReady ==
  /\ state["server"] = "SYN_RCVD" /\ initialized["server"]
  /\ rb["server"] = recv_buffer_initialize(ISN["client"])
  /\ window["server"].next_seq_expected = ISN["client"] + 1

Opening ==
  /\ state["client"] \in {"CLOSED", "SYN_SENT"} /\ ~initialized["client"]
  /\ rb["client"] = recv_buffer_initialize(0)
  /\ TypeOK /\ net = {}
  /\ \A e \in Endpoint : Unsent(e)
  /\ ServerWaits \/ ServerReady

HalfOpen ==
  /\ state["client"] = "ESTABLISHED" /\ initialized["client"]
  /\ state["server"] = "SYN_RCVD" /\ initialized["server"]
  /\ CInv({"client"}, HandshakeAck)
  /\ sent(sb["server"]) = ISN["server"]
  /\ window["server"].last_ack_received = ISN["server"]
  /\ expected(rb["server"]) = ISN["client"] + 1

BothOpen ==
  /\ \A e \in Endpoint : state[e] = "ESTABLISHED" /\ initialized[e]
  /\ CInv(Endpoint, HandshakeAck)

(* A process whose stream has not come back to slot 0 dies of an assertion *)
(* about a SYN only.                                                       *)
DiesOfSynOnly ==
  \A e \in Endpoint :
    wrote[e] < DEFAULT_BUFF_SIZE => alive[e] \/ aborted[e] = "handle_message"

SessInv ==
  /\ SessionTypeOK /\ HandshakeAssertsHold /\ DiesOfSynOnly
  /\ Opening \/ HalfOpen \/ BothOpen

-----------------------------------------------------------------------------
(* Packets of the handshake.                                               *)
LEMMA Ends ==
  /\ "client" \in Endpoint /\ "server" \in Endpoint
  /\ peer("client") = "server" /\ peer("server") = "client"
  /\ \A e \in Endpoint : e = "client" \/ e = "server"
  /\ Endpoint = {"client"} \cup {"server"}
  /\ ISN["client"] \in Nat /\ ISN["server"] \in Nat /\ CP1_WINDOW_SIZE \in Nat
BY ConnectionAssumption DEF Endpoint, peer

(* A packet without bytes.                                                 *)
LEMMA ComposedEmpty ==
  ASSUME NEW e \in Endpoint, NEW seqnum \in Nat, NEW acknum \in Nat,
         NEW flags \in SUBSET {"SYN", "ACK", "FIN"},
         NEW p \in Compose(e, seqnum, acknum, flags, CP1_WINDOW_SIZE, <<>>)
  PROVE  /\ p \in PacketType(Endpoint, Seq(Byte))
         /\ p.dst = peer(e) /\ p.seq = seqnum /\ p.ack = acknum /\ p.flags = flags
         /\ p.hlen = HeaderSize /\ p.plen = HeaderSize /\ p.payload = <<>>
<1> DEFINE none == <<>>
<1>1. none \in Seq(Byte) /\ Len(none) = 0
  OBVIOUS
<1>2. Len(none) <= MSS /\ CP1_WINDOW_SIZE \in Nat
  <2>1. MSS \in Nat /\ CP1_WINDOW_SIZE \in Nat
    BY ConnectionAssumption DEF HeaderSize
  <2>. QED  BY <1>1, <2>1
<1>3. HeaderSize + 0 = HeaderSize
  BY DEF HeaderSize
<1>4. p \in Compose(e, seqnum, acknum, flags, CP1_WINDOW_SIZE, none)
  OBVIOUS
<1> HIDE DEF none
<1>5. /\ p \in PacketType(Endpoint, Seq(Byte))
      /\ p.dst = peer(e) /\ p.seq = seqnum /\ p.ack = acknum /\ p.flags = flags
      /\ p.hlen = HeaderSize /\ p.plen = HeaderSize + Len(none) /\ p.payload = none
  <2>1. ASSUME NEW payload \in Seq(Byte), Len(payload) <= MSS,
               p \in Compose(e, seqnum, acknum, flags, CP1_WINDOW_SIZE, payload)
        PROVE  /\ p \in PacketType(Endpoint, Seq(Byte))
               /\ p.dst = peer(e) /\ p.seq = seqnum /\ p.ack = acknum /\ p.flags = flags
               /\ p.hlen = HeaderSize /\ p.plen = HeaderSize + Len(payload)
               /\ p.payload = payload
    BY <2>1, <1>2, Composed
  <2>. QED  BY <2>1, <1>1, <1>2, <1>4
<1>. QED  BY <1>1, <1>3, <1>5 DEF none

LEMMA SynFacts ==
  ASSUME NEW p \in SYN
  PROVE  p.dst = "server" /\ p.seq = ISN["client"] /\ p.flags = {"SYN"}
<1>1. {"SYN"} \in SUBSET {"SYN", "ACK", "FIN"} /\ 0 \in Nat
  OBVIOUS
<1>. QED  BY <1>1, Ends, ComposedEmpty DEF SYN

LEMMA SynAckFacts ==
  ASSUME NEW p \in SYN_ACK(ISN["client"] + 1)
  PROVE  /\ p.dst = "client" /\ p.seq = ISN["server"] /\ p.ack = ISN["client"] + 1
         /\ p.flags = {"SYN", "ACK"}
<1>1. {"SYN", "ACK"} \in SUBSET {"SYN", "ACK", "FIN"} /\ ISN["client"] + 1 \in Nat
  BY Ends
<1>. QED  BY <1>1, Ends, ComposedEmpty DEF SYN_ACK

LEMMA TransmitSynAdds ==
  ASSUME NEW packets, NEW taken, TransmitSyn(packets, taken)
  PROVE  syns' \subseteq syns \cup packets
BY DEF TransmitSyn

(* The packet that ends the handshake is a good one.                       *)
LEMMA HandshakeAckGood ==
  ASSUME NEW S, NEW R, NEW p \in HandshakeAck, expected(R["client"]) = ISN["server"] + 1
  PROVE  PacketGood(p, S, R, HandshakeAck)
<1>1. {"ACK"} \in SUBSET {"SYN", "ACK", "FIN"} /\ 0 \in Nat /\ ISN["server"] + 1 \in Nat
  BY Ends
<1>2. /\ p \in PacketType(Endpoint, Seq(Byte))
      /\ p.dst = "server" /\ p.seq = 0 /\ p.ack = ISN["server"] + 1 /\ p.flags = {"ACK"}
      /\ p.hlen = HeaderSize /\ p.plen = HeaderSize /\ p.payload = <<>>
  <2>1. p \in Compose("client", 0, ISN["server"] + 1, {"ACK"}, CP1_WINDOW_SIZE, <<>>)
    BY DEF HandshakeAck
  <2>2. "client" \in Endpoint /\ peer("client") = "server" /\ 0 \in Nat
    BY Ends
  <2>3. ASSUME NEW acknum \in Nat, NEW flags \in SUBSET {"SYN", "ACK", "FIN"},
               p \in Compose("client", 0, acknum, flags, CP1_WINDOW_SIZE, <<>>)
        PROVE  /\ p \in PacketType(Endpoint, Seq(Byte))
               /\ p.dst = "server" /\ p.seq = 0 /\ p.ack = acknum /\ p.flags = flags
               /\ p.hlen = HeaderSize /\ p.plen = HeaderSize /\ p.payload = <<>>
    BY <2>2, <2>3, ComposedEmpty
  <2>. QED  BY <2>1, <2>3, <1>1
<1>3. HeaderSize + 0 = HeaderSize /\ MSS \in Nat
  BY ConnectionAssumption DEF HeaderSize
<1>4. p.payload \in Seq(Byte) /\ Len(p.payload) = 0
  BY <1>2
<1>5. \A s, isn : InPlace(p.payload, p.seq, s, isn)
  BY <1>4 DEF InPlace
<1>6. PayloadGood(p, S["client"], ISN["client"])
  BY <1>1, <1>2, <1>3, <1>4, <1>5 DEF PayloadGood
<1>7. AckGood(p, R["client"], ISN["server"], HandshakeAck)
  BY <1>1, <1>2, Ends DEF AckGood
<1>8. peer(p.dst) = "client"
  BY <1>2, Ends
<1>. QED  BY <1>2, <1>6, <1>7, <1>8 DEF PacketGood

-----------------------------------------------------------------------------
(* The initial state.                                                      *)
LEMMA SessionInitInvariant == SessionInit => SessInv
<1> SUFFICES ASSUME SessionInit PROVE SessInv
  OBVIOUS
<1>1. ASSUME NEW e \in Endpoint
      PROVE  Unsent(e) /\ sb[e] \in SendBufferType
  <2>1. /\ sb[e] = send_buffer_initialize(ISN[e]) /\ ISN[e] \in Nat
        /\ window[e].last_ack_received = ISN[e] /\ delivered[e] = {} /\ wrote[e] = 0
    BY ConnectionAssumption DEF SessionInit
  <2>2. /\ SendGood(sb[e], ISN[e]) /\ acked(sb[e]) = ISN[e] /\ sent(sb[e]) = ISN[e]
        /\ written(sb[e]) = ISN[e] + 1
    BY <2>1, InitializeExact
  <2>3. ISN[e] + wrote[e] + 1 = ISN[e] + 1
    BY <2>1
  <2>. QED  BY <2>1, <2>2, <2>3 DEF Unsent, SendGood
<1>2. recv_buffer_initialize(0) \in RecvBufferType
  BY CapacityAssumption DEF RecvBufferType, recv_buffer_initialize, Index, Byte
<1>3. TypeOK
  <2>1. sb \in [Endpoint -> SendBufferType] /\ rb \in [Endpoint -> RecvBufferType]
    BY <1>1, <1>2 DEF SessionInit
  <2>2. window \in [Endpoint -> [next_seq_expected : Nat, last_ack_received : Nat,
                                 rcvd_advertised_window : Nat]]
    BY ConnectionAssumption DEF SessionInit
  <2>3. \A e \in Endpoint : wrote[e] = 0 /\ 0 <= MaxStream[e]
    BY ConnectionAssumption DEF SessionInit
  <2>. QED  BY <2>1, <2>2, <2>3 DEF SessionInit, TypeOK
<1>4. /\ state["client"] = "CLOSED" /\ state["server"] = "LISTEN"
      /\ ~initialized["client"] /\ ~initialized["server"]
      /\ rb["client"] = recv_buffer_initialize(0)
      /\ rb["server"] = recv_buffer_initialize(0)
      /\ net = {} /\ syns = {}
  BY Ends, Zenon DEF SessionInit
<1>5. Opening
  BY <1>1, <1>3, <1>4 DEF Opening, ServerWaits
<1>6. SessionTypeOK
  BY DEF SessionInit, SessionTypeOK
<1>7. HandshakeAssertsHold /\ DiesOfSynOnly
  BY DEF SessionInit, HandshakeAssertsHold, DiesOfSynOnly
<1>. QED  BY <1>5, <1>6, <1>7 DEF SessInv

-----------------------------------------------------------------------------
(* The streams.  A step of ReliableStream, for the numbers that count from *)
(* the handshake on.                                                       *)
SoFarStep(e) ==
  StreamMove(wrote[e], AckedBytes(e), ReceivedSoFar(e), ReadSoFar(e),
             wrote[e]', AckedBytes(e)', ReceivedSoFar(e)', ReadSoFar(e)')

(* Nothing has moved but what the applications wrote.                      *)
Started ==
  \A e \in Endpoint :
    /\ AckedBytes(e) = 0 /\ ReceivedSoFar(e) = 0 /\ ReadSoFar(e) = 0
    /\ wrote[e] \in Nat /\ wrote[e] <= DEFAULT_BUFF_SIZE - 1

(* A direction of which nothing was sent, whose receiver knows its start.  *)
Fresh(e) ==
  /\ Unsent(e) /\ wrote[e] \in Nat
  /\ rb[peer(e)] = recv_buffer_initialize(ISN[e])

LEMMA UnsentFits ==
  ASSUME NEW e \in Endpoint, Unsent(e), wrote[e] \in Nat
  PROVE  AckedBytes(e) = 0 /\ wrote[e] <= DEFAULT_BUFF_SIZE - 1
<1>1. /\ sb[e] \in SendBufferType /\ ISN[e] \in Nat /\ acked(sb[e]) = ISN[e]
      /\ written(sb[e]) = ISN[e] + wrote[e] + 1
  BY DEF Unsent, SendGood
<1>2. written(sb[e]) <= acked(sb[e]) + DEFAULT_BUFF_SIZE
  BY <1>1, SendBounds
<1>3. AckedBytes(e) = acked(sb[e]) - ISN[e]
  BY DEF AckedBytes, acked
<1>. QED  BY <1>1, <1>2, <1>3, CapacityAssumption

LEMMA FreshReceived ==
  ASSUME NEW e \in Endpoint, Fresh(e)
  PROVE  ReceivedBytes(e) = 0 /\ ReadBytes(e) = 0
<1>1. ISN[e] \in Nat /\ rb[peer(e)] = recv_buffer_initialize(ISN[e])
  BY ConnectionAssumption DEF Fresh
<1>2. /\ expected(rb[peer(e)]) = ISN[e] + 1
      /\ lastRead(rb[peer(e)]) = ISN[e]
  BY <1>1, FreshReceiver DEF Fresh, Unsent
<1>3. /\ ReceivedBytes(e) = expected(rb[peer(e)]) - 1 - ISN[e]
      /\ ReadBytes(e) = lastRead(rb[peer(e)]) - ISN[e]
  BY DEF ReceivedBytes, ReadBytes, next_expected, expected, lastRead
<1>. QED  BY <1>1, <1>2, <1>3

LEMMA OpeningStarted == Opening => Started
<1> SUFFICES ASSUME Opening, NEW e \in Endpoint
             PROVE  /\ AckedBytes(e) = 0 /\ ReceivedSoFar(e) = 0 /\ ReadSoFar(e) = 0
                    /\ wrote[e] \in Nat /\ wrote[e] <= DEFAULT_BUFF_SIZE - 1
  BY DEF Started
<1>1. Unsent(e) /\ wrote[e] \in Nat
  BY DEF Opening, TypeOK
<1>2. ReceivedSoFar(e) = 0 /\ ReadSoFar(e) = 0
  <2>1. CASE ~initialized[peer(e)]
    BY <2>1, Zenon DEF ReceivedSoFar, ReadSoFar
  <2>2. CASE initialized[peer(e)]
    <3>1. e = "client" /\ ServerReady
      BY <2>2, Ends, Zenon DEF Opening, ServerWaits
    <3>2. Fresh(e)
      BY <3>1, <1>1, Ends, Zenon DEF ServerReady, Fresh
    <3>3. ReceivedBytes(e) = 0 /\ ReadBytes(e) = 0
      BY <3>2, FreshReceived
    <3>. QED  BY <3>3, Zenon DEF ReceivedSoFar, ReadSoFar
  <2>. QED  BY <2>1, <2>2
<1>. QED  BY <1>1, <1>2, UnsentFits

LEMMA StartStream ==
  ASSUME Started, Started', NEW e \in Endpoint, wrote[e] <= wrote'[e]
  PROVE  SoFarStep(e)
<1> DEFINE w == wrote[e]
           wp == wrote'[e]
<1>1. /\ AckedBytes(e) = 0 /\ ReceivedSoFar(e) = 0 /\ ReadSoFar(e) = 0 /\ w \in Nat
  BY DEF Started
<1>2. /\ AckedBytes(e)' = 0 /\ ReceivedSoFar(e)' = 0 /\ ReadSoFar(e)' = 0
      /\ wp \in Nat /\ wp <= DEFAULT_BUFF_SIZE - 1 /\ wrote[e]' = wp
  BY Zenon DEF Started
<1>3. w <= wp
  OBVIOUS
<1> HIDE DEF w, wp
<1>4. StreamMove(w, 0, 0, 0, wp, 0, 0, 0)
  <2>1. CASE w = wp
    BY <2>1 DEF StreamMove
  <2>2. CASE w # wp
    <3> DEFINE n == wp - w
    <3>1. /\ n \in 1 .. DEFAULT_BUFF_SIZE - 1 /\ w + n - 0 <= DEFAULT_BUFF_SIZE - 1
          /\ wp = w + n
      BY <2>2, <1>1, <1>2, <1>3, CapacityAssumption
    <3> HIDE DEF n
    <3>. QED  BY <3>1 DEF StreamMove
  <2>. QED  BY <2>1, <2>2
<1>. QED  BY <1>1, <1>2, <1>4, Zenon DEF SoFarStep, w

(* From HalfOpen on the numbers are those of Connection.                   *)
LEMMA OpenStream ==
  ASSUME HalfOpen \/ BothOpen, HalfOpen' \/ BothOpen', NEW e \in Endpoint, OneMoves(e)
  PROVE  SoFarStep(e)
<1>1. initialized[peer(e)] /\ initialized'[peer(e)]
  BY Peers, Ends, Zenon DEF HalfOpen, BothOpen
<1>2. PICK E : CInv(E, HandshakeAck)
  BY DEF HalfOpen, BothOpen
<1>3. PICK En : CInv(En, HandshakeAck)'
  BY DEF HalfOpen, BothOpen
<1>4. StreamStep(e)
  BY <1>2, <1>3, EveryStepStreams
<1>5. /\ ReceivedSoFar(e) = ReceivedBytes(e) /\ ReadSoFar(e) = ReadBytes(e)
      /\ ReceivedSoFar(e)' = ReceivedBytes(e)' /\ ReadSoFar(e)' = ReadBytes(e)'
  BY <1>1, Zenon DEF ReceivedSoFar, ReadSoFar
<1>. QED  BY <1>4, <1>5, Zenon DEF SoFarStep, StreamStep

-----------------------------------------------------------------------------
(* What every step that trips no assertion keeps.                          *)
LEMMA TypesHold == SessInv => TypeOK
BY DEF SessInv, Opening, HalfOpen, BothOpen, CInv

LEMMA NoAssertion ==
  ASSUME SessInv, TypeOK', UNCHANGED aborted,
         \A e \in Endpoint : wrote[e] <= wrote'[e] /\ StaysAlive(e)
  PROVE  HandshakeAssertsHold' /\ DiesOfSynOnly'
<1>1. HandshakeAssertsHold /\ DiesOfSynOnly /\ TypeOK
  BY TypesHold DEF SessInv
<1>2. \A e \in Endpoint : wrote'[e] < DEFAULT_BUFF_SIZE => wrote[e] < DEFAULT_BUFF_SIZE
  <2>1. \A e \in Endpoint : wrote[e] \in Nat /\ wrote'[e] \in Nat
    BY <1>1 DEF TypeOK
  <2>. QED  BY <2>1, CapacityAssumption
<1>3. HandshakeAssertsHold'
  BY <1>1 DEF HandshakeAssertsHold
<1>4. DiesOfSynOnly'
  BY <1>1, <1>2, Zenon DEF DiesOfSynOnly, StaysAlive
<1>. QED  BY <1>3, <1>4

(* The same, for a step that leaves the connection alone.                  *)
LEMMA NothingMoves ==
  ASSUME SessInv, UNCHANGED vars
  PROVE  /\ TypeOK' /\ \A e \in Endpoint : wrote[e] <= wrote'[e] /\ StaysAlive(e)
         /\ \A e \in Endpoint : Unsent(e) => Unsent(e)'
<1>1. /\ sb' = sb /\ rb' = rb /\ window' = window /\ pc' = pc /\ wrapped' = wrapped
      /\ net' = net /\ alive' = alive /\ wrote' = wrote /\ delivered' = delivered
  BY DEF vars
<1>2. TypeOK'
  BY <1>1, TypesHold DEF TypeOK
<1>3. \A e \in Endpoint : wrote[e] <= wrote'[e]
  <2>1. \A e \in Endpoint : wrote[e] \in Nat
    BY TypesHold DEF TypeOK
  <2>. QED  BY <1>1, <2>1
<1>4. \A e \in Endpoint : StaysAlive(e)
  BY <1>1, Zenon DEF StaysAlive
<1>5. \A e \in Endpoint : Unsent(e) => Unsent(e)'
  BY <1>1 DEF Unsent
<1>. QED  BY <1>2, <1>3, <1>4, <1>5

(* A step within the first phase.                                          *)
LEMMA OpeningStep ==
  ASSUME SessInv, Opening, Opening', SessionTypeOK', UNCHANGED aborted,
         \A e \in Endpoint : wrote[e] <= wrote'[e] /\ StaysAlive(e)
  PROVE  SessInv' /\ \A e \in Endpoint : SoFarStep(e)
<1>1. TypeOK'
  BY DEF Opening
<1>2. HandshakeAssertsHold' /\ DiesOfSynOnly'
  BY <1>1, NoAssertion
<1>3. Opening' => Started'
  BY OpeningStarted, PTL
<1>4. \A e \in Endpoint : SoFarStep(e)
  BY <1>3, OpeningStarted, StartStream
<1>. QED  BY <1>2, <1>4 DEF SessInv

(* A step within the other two, or from one to the other.                  *)
LEMMA OpenStep ==
  ASSUME SessInv, HalfOpen \/ BothOpen, HalfOpen' \/ BothOpen', SessionTypeOK',
         UNCHANGED aborted, StepGood
  PROVE  SessInv' /\ \A e \in Endpoint : SoFarStep(e)
<1>1. TypeOK'
  BY DEF HalfOpen, BothOpen, CInv
<1>2. \A e \in Endpoint : wrote[e] <= wrote'[e] /\ StaysAlive(e)
  BY DEF StepGood, OneMoves
<1>3. HandshakeAssertsHold' /\ DiesOfSynOnly'
  BY <1>1, <1>2, NoAssertion
<1>4. \A e \in Endpoint : SoFarStep(e)
  BY OpenStream DEF StepGood
<1>. QED  BY <1>3, <1>4 DEF SessInv

LEMMA SendSynStep ==
  ASSUME SessInv, SendSyn
  PROVE  SessInv' /\ \A e \in Endpoint : SoFarStep(e)
<1>1. /\ state["client"] \in {"CLOSED", "SYN_SENT"} /\ UNCHANGED vars
      /\ initialized' = initialized /\ aborted' = aborted
      /\ state' = [state EXCEPT !["client"] = "SYN_SENT"]
  BY DEF SendSyn
<1>2. SessionTypeOK /\ Opening
  BY <1>1, Ends DEF SessInv, HalfOpen, BothOpen
<1>3. syns' \subseteq syns \cup SYN
  BY TransmitSynAdds DEF SendSyn
<1>4. SessionTypeOK'
  BY <1>1, <1>2, <1>3 DEF SessionTypeOK
<1>5. state'["client"] = "SYN_SENT" /\ state'["server"] = state["server"]
  BY <1>1, <1>2, Ends DEF SessionTypeOK
<1>6. rb' = rb /\ window' = window /\ net' = net
  BY <1>1 DEF vars
<1>7. ServerWaits' \/ ServerReady'
  <2>1. CASE ServerWaits
    BY <2>1, <1>1, <1>3, <1>5, <1>6, Zenon DEF ServerWaits
  <2>2. CASE ServerReady
    BY <2>2, <1>1, <1>5, <1>6, Zenon DEF ServerReady
  <2>. QED  BY <2>1, <2>2, <1>2 DEF Opening
<1>8. /\ TypeOK' /\ \A e \in Endpoint : wrote[e] <= wrote'[e] /\ StaysAlive(e)
      /\ \A e \in Endpoint : Unsent(e)'
  BY <1>1, <1>2, NothingMoves DEF Opening
<1>9. Opening'
  BY <1>1, <1>2, <1>5, <1>6, <1>7, <1>8, Zenon DEF Opening
<1>. QED  BY <1>1, <1>2, <1>4, <1>8, <1>9, OpeningStep

-----------------------------------------------------------------------------
(* The server hears of the client.                                         *)
LEMMA SynIncoming ==
  ASSUME SessionTypeOK, NEW p \in syns
  PROVE  /\ p.dst = "server" => p \in SYN
         /\ p.dst = "client" => p \in SYN_ACK(ISN["client"] + 1)
BY SynFacts, SynAckFacts DEF SessionTypeOK

LEMMA ServerListenStep ==
  ASSUME SessInv, NEW p \in syns \cup net, ServerListen(p)
  PROVE  SessInv' /\ \A e \in Endpoint : SoFarStep(e)
<1>1. SessionTypeOK /\ Opening /\ ServerWaits
  BY Ends DEF ServerListen, SessInv, HalfOpen, BothOpen, Opening, ServerReady
<1>2. p \in SYN
  BY <1>1, SynIncoming DEF ServerListen, Incoming, Opening
<1>3. p.seq = ISN["client"] /\ p.flags = {"SYN"} /\ p.dst = "server"
  BY <1>2, SynFacts
<1>4. rb["server"].last_byte_read_seqnum = 0
  BY <1>1 DEF ServerWaits, recv_buffer_initialize
<1>5. /\ rb' = [rb EXCEPT !["server"] = recv_buffer_initialize(ISN["client"])]
      /\ window' = [window EXCEPT !["server"].next_seq_expected = ISN["client"] + 1]
      /\ TransmitSyn(SYN_ACK(ISN["client"] + 1), {p})
      /\ state' = [state EXCEPT !["server"] = "SYN_RCVD"]
      /\ initialized' = [initialized EXCEPT !["server"] = TRUE]
      /\ UNCHANGED <<sb, pc, wrapped, net, alive, wrote, delivered, aborted>>
  BY <1>3, <1>4, Zenon DEF ServerListen
<1>6. syns' \subseteq syns \cup SYN_ACK(ISN["client"] + 1)
  BY <1>5, TransmitSynAdds
<1>7. TypeOK /\ \A e \in Endpoint : Unsent(e)
  BY <1>1 DEF Opening
<1>8. /\ recv_buffer_initialize(ISN["client"]) \in RecvBufferType
      /\ ISN["client"] + 1 \in Nat
  BY <1>7, Ends, FreshReceiver DEF Unsent
<1>9. /\ rb' \in [Endpoint -> RecvBufferType]
      /\ rb'["server"] = recv_buffer_initialize(ISN["client"])
      /\ rb'["client"] = rb["client"]
  BY <1>5, <1>7, <1>8, Ends DEF TypeOK
<1>10. /\ window' \in [Endpoint -> [next_seq_expected : Nat, last_ack_received : Nat,
                                    rcvd_advertised_window : Nat]]
       /\ window'["server"].next_seq_expected = ISN["client"] + 1
       /\ \A e \in Endpoint :
            window'[e].last_ack_received = window[e].last_ack_received
  BY <1>5, <1>7, <1>8, Ends DEF TypeOK
<1>11. /\ state'["server"] = "SYN_RCVD" /\ state'["client"] = state["client"]
       /\ state' \in [Endpoint -> {"CLOSED", "LISTEN", "SYN_SENT", "SYN_RCVD",
                                   "ESTABLISHED"}]
  BY <1>1, <1>5, Ends DEF SessionTypeOK
<1>12. /\ initialized'["server"] = TRUE /\ initialized'["client"] = initialized["client"]
       /\ initialized' \in [Endpoint -> BOOLEAN]
  BY <1>1, <1>5, Ends DEF SessionTypeOK
<1>13. SessionTypeOK'
  BY <1>1, <1>5, <1>6, <1>11, <1>12 DEF SessionTypeOK
<1>14. TypeOK'
  BY <1>5, <1>7, <1>9, <1>10 DEF TypeOK
<1>15. \A e \in Endpoint : Unsent(e)'
  BY <1>5, <1>7, <1>10 DEF Unsent
<1>16. ServerReady'
  BY <1>9, <1>10, <1>11, <1>12, Zenon DEF ServerReady
<1>17. Opening'
  BY <1>1, <1>5, <1>9, <1>11, <1>12, <1>14, <1>15, <1>16, Zenon DEF Opening
<1>18. \A e \in Endpoint : wrote[e] <= wrote'[e] /\ StaysAlive(e)
  <2>1. \A e \in Endpoint : wrote[e] \in Nat
    BY <1>7 DEF TypeOK
  <2>2. \A e \in Endpoint : wrote[e] <= wrote'[e]
    BY <1>5, <2>1
  <2>3. \A e \in Endpoint : StaysAlive(e)
    BY <1>5, Zenon DEF StaysAlive
  <2>. QED  BY <2>2, <2>3
<1>. QED  BY <1>1, <1>5, <1>13, <1>17, <1>18, OpeningStep

(* An acknowledgement that reaches a server in SYN_RCVD is the one it      *)
(* waits for, so it repeats its SYN-ACK for a SYN only.                    *)
LEMMA AckOfSynAck ==
  ASSUME HalfOpen, NEW p \in net, p.dst = "server"
  PROVE  p.flags = {"ACK"} /\ p.ack = ISN["server"] + 1
<1>1. CInv({"client"}, HandshakeAck) /\ sent(sb["server"]) = ISN["server"]
  BY DEF HalfOpen
<1>2. PacketGood(p, sb, rb, HandshakeAck)
  BY <1>1 DEF CInv, NetGood
<1>3. p.flags = {"ACK"} /\ p.ack \in Nat
  BY <1>2 DEF PacketGood, PacketType
<1>4. ISN["server"] < p.ack /\ p.ack <= expected(rb["client"])
  BY <1>2, Ends DEF PacketGood, AckGood
<1>5. InStep(sb["server"], rb["client"], ISN["server"])
  BY <1>1, Ends DEF CInv, StreamsGood
<1>6. expected(rb["client"]) \in Nat /\ expected(rb["client"]) <= ISN["server"] + 1
  BY <1>1, <1>5, ReceivedWasSent
<1>. QED  BY <1>3, <1>4, <1>6, Ends

LEMMA ServerRepeatStep ==
  ASSUME SessInv, NEW p \in syns \cup net, ServerRepeat(p)
  PROVE  SessInv' /\ \A e \in Endpoint : SoFarStep(e)
<1>1. SessionTypeOK /\ ((Opening /\ ServerReady) \/ HalfOpen)
  BY Ends DEF ServerRepeat, SessInv, BothOpen, Opening, ServerWaits
<1>2. window["server"].last_ack_received = ISN["server"]
  BY <1>1, Ends DEF Opening, Unsent, HalfOpen
<1>3. p \in SYN
  <2>1. p.dst = "server"
    BY DEF ServerRepeat, Incoming
  <2>2. ASSUME p \in net PROVE FALSE
    <3>1. HalfOpen
      BY <2>2, <1>1 DEF Opening
    <3>2. p.flags = {"ACK"} /\ p.ack = ISN["server"] + 1
      BY <2>1, <2>2, <3>1, AckOfSynAck
    <3>. QED  BY <3>2, <1>2 DEF ServerRepeat
  <2>. QED  BY <2>1, <2>2, <1>1, SynIncoming
<1>4. window["server"].next_seq_expected = ISN["client"] + 1
  BY <1>1, Ends DEF ServerReady, HalfOpen, CInv, WindowGood
<1>5. "SYN" \in p.flags
  BY <1>3, SynFacts
<1>6. /\ syns' \subseteq syns \cup SYN_ACK(ISN["client"] + 1)
      /\ UNCHANGED vars /\ state' = state /\ initialized' = initialized
      /\ aborted' = aborted
  BY <1>4, <1>5, TransmitSynAdds DEF ServerRepeat
<1>7. SessionTypeOK'
  BY <1>1, <1>6 DEF SessionTypeOK
<1>8. /\ TypeOK' /\ \A e \in Endpoint : wrote[e] <= wrote'[e] /\ StaysAlive(e)
      /\ \A e \in Endpoint : Unsent(e) => Unsent(e)'
  BY <1>6, NothingMoves
<1>9. sb' = sb /\ rb' = rb /\ window' = window /\ net' = net
  BY <1>6 DEF vars
<1>10. CASE Opening /\ ServerReady
  <2>1. ServerReady'
    BY <1>6, <1>9, <1>10, Zenon DEF ServerReady
  <2>2. Opening'
    BY <1>6, <1>8, <1>9, <1>10, <2>1, Zenon DEF Opening
  <2>. QED  BY <1>6, <1>7, <1>8, <1>10, <2>2, OpeningStep
<1>11. CASE HalfOpen
  <2>1. CInv({"client"}, HandshakeAck)' /\ StepGood
    BY <1>6, <1>11, Stutter DEF HalfOpen
  <2>2. HalfOpen'
    BY <1>6, <1>9, <1>11, <2>1, Zenon DEF HalfOpen
  <2>. QED  BY <1>6, <1>7, <1>11, <2>1, <2>2, OpenStep
<1>. QED  BY <1>1, <1>10, <1>11

-----------------------------------------------------------------------------
(* The client hears of the server: from here on both directions are in     *)
(* step.  The assertions on the SYN-ACK hold.                              *)
LEMMA ClientReceiveStep ==
  ASSUME SessInv, NEW p \in syns \cup net, ClientReceive(p)
  PROVE  SessInv' /\ \A e \in Endpoint : SoFarStep(e)
<1>1. SessionTypeOK /\ Opening /\ TypeOK /\ \A e \in Endpoint : Unsent(e)
  BY Ends DEF ClientReceive, SessInv, HalfOpen, BothOpen, Opening
<1>2. p \in syns /\ p.dst = "client"
  BY <1>1 DEF ClientReceive, Incoming, Opening
<1>3. ServerReady
  <2>1. ASSUME ServerWaits PROVE FALSE
    BY <1>2, <2>1, SynFacts DEF ServerWaits
  <2>. QED  BY <1>1, <2>1 DEF Opening
<1>4. p \in SYN_ACK(ISN["client"] + 1)
  BY <1>1, <1>2, SynIncoming
<1>5. /\ p.seq = ISN["server"] /\ p.ack = ISN["client"] + 1 /\ p.flags = {"SYN", "ACK"}
  BY <1>4, SynAckFacts
<1>6. AcceptableSynAck(p)
  <2>1. rb["client"].last_byte_read_seqnum = 0
    BY <1>1 DEF Opening, recv_buffer_initialize
  <2>2. window["client"].last_ack_received = ISN["client"]
    BY <1>1, Ends DEF Unsent
  <2>. QED  BY <1>5, <2>1, <2>2 DEF AcceptableSynAck
<1>7. /\ rb' = [rb EXCEPT !["client"] = recv_buffer_initialize(ISN["server"])]
      /\ window' = [window EXCEPT !["client"] = Opened(@, p)]
      /\ Transmit(HandshakeAck)
      /\ state' = [state EXCEPT !["client"] = "ESTABLISHED"]
      /\ initialized' = [initialized EXCEPT !["client"] = TRUE]
      /\ UNCHANGED <<sb, pc, wrapped, alive, wrote, delivered, aborted>>
  BY <1>5, <1>6, Zenon DEF ClientReceive, HandshakeAck
<1>8. syns' \subseteq syns
  BY <1>6 DEF ClientReceive
<1>9. net' \subseteq HandshakeAck
  BY <1>1, <1>7 DEF Transmit, Opening
<1>10. \A e \in Endpoint : wrote[e] \in Nat /\ ISN[e] \in Nat
  BY <1>1, ConnectionAssumption DEF TypeOK
<1>11. /\ recv_buffer_initialize(ISN["server"]) \in RecvBufferType
       /\ ISN["client"] + 1 \in Nat /\ ISN["server"] + 1 \in Nat
  BY <1>1, Ends, FreshReceiver DEF Unsent
<1>12. /\ rb' \in [Endpoint -> RecvBufferType]
       /\ \A e \in Endpoint : rb'[peer(e)] = recv_buffer_initialize(ISN[e])
  <2>1. /\ rb' \in [Endpoint -> RecvBufferType]
        /\ rb'["client"] = recv_buffer_initialize(ISN["server"])
        /\ rb'["server"] = rb["server"]
    BY <1>1, <1>7, <1>11, Ends DEF TypeOK
  <2>. QED  BY <2>1, <1>3, Ends DEF ServerReady
<1>13. /\ window' \in [Endpoint -> [next_seq_expected : Nat, last_ack_received : Nat,
                                    rcvd_advertised_window : Nat]]
       /\ window'["client"].last_ack_received = ISN["client"] + 1
       /\ window'["client"].next_seq_expected = ISN["server"] + 1
       /\ window'["server"] = window["server"]
  <2> DEFINE WT == [next_seq_expected : Nat, last_ack_received : Nat,
                    rcvd_advertised_window : Nat]
             wn == Opened(window["client"], p)
  <2>1. window \in [Endpoint -> WT] /\ window["client"] \in WT
    BY <1>1, Ends DEF TypeOK
  <2>2. wn = [window["client"] EXCEPT !.last_ack_received = ISN["client"] + 1,
                                      !.next_seq_expected = ISN["server"] + 1]
    BY <1>5 DEF Opened
  <2>3. /\ wn \in WT /\ wn.last_ack_received = ISN["client"] + 1
        /\ wn.next_seq_expected = ISN["server"] + 1
    BY <2>1, <2>2, <1>11
  <2>4. window' = [window EXCEPT !["client"] = wn]
    BY <1>7
  <2> HIDE DEF WT, wn
  <2>5. /\ window' \in [Endpoint -> WT] /\ window'["client"] = wn
        /\ window'["server"] = window["server"]
    BY <2>1, <2>3, <2>4, Ends
  <2>. QED  BY <2>3, <2>5 DEF WT
<1>14. ASSUME NEW e \in Endpoint
       PROVE  /\ InStep(sb'[e], rb'[peer(e)], ISN[e])
              /\ expected(rb'[peer(e)]) = ISN[e] + 1 /\ lastRead(rb'[peer(e)]) = ISN[e]
              /\ acked(sb'[e]) = ISN[e] /\ sent(sb'[e]) = ISN[e]
              /\ written(sb'[e]) = ISN[e] + wrote'[e] + 1
              /\ delivered'[e] = {}
  <2>1. sb'[e] = sb[e] /\ wrote'[e] = wrote[e] /\ delivered'[e] = delivered[e]
    BY <1>7
  <2>2. SendGood(sb[e], ISN[e]) /\ acked(sb[e]) = ISN[e] /\ sent(sb[e]) = ISN[e]
        /\ written(sb[e]) = ISN[e] + wrote[e] + 1 /\ delivered[e] = {}
    BY <1>1 DEF Unsent
  <2>3. /\ InStep(sb[e], recv_buffer_initialize(ISN[e]), ISN[e])
        /\ expected(recv_buffer_initialize(ISN[e])) = ISN[e] + 1
        /\ lastRead(recv_buffer_initialize(ISN[e])) = ISN[e]
    BY <2>2, FreshReceiver
  <2>. QED  BY <2>1, <2>2, <2>3, <1>12
<1>15. /\ expected(rb'["client"]) = ISN["server"] + 1
       /\ expected(rb'["server"]) = ISN["client"] + 1
  BY <1>14, Ends
<1>16. /\ state'["client"] = "ESTABLISHED" /\ state'["server"] = "SYN_RCVD"
       /\ state' \in [Endpoint -> {"CLOSED", "LISTEN", "SYN_SENT", "SYN_RCVD",
                                   "ESTABLISHED"}]
  BY <1>1, <1>3, <1>7, Ends DEF SessionTypeOK, ServerReady
<1>17. /\ initialized'["client"] = TRUE /\ initialized'["server"] = initialized["server"]
       /\ initialized' \in [Endpoint -> BOOLEAN]
  BY <1>1, <1>7, Ends DEF SessionTypeOK
<1>18. SessionTypeOK'
  BY <1>1, <1>7, <1>8, <1>16, <1>17 DEF SessionTypeOK
<1>19. NetGood(HandshakeAck)' /\ net' \subseteq PacketType(Endpoint, Seq(Byte))
  <2>1. \A q \in net' : PacketGood(q, sb', rb', HandshakeAck)
    BY <1>9, <1>15, HandshakeAckGood
  <2>. QED  BY <2>1 DEF NetGood, PacketGood
<1>20. TypeOK'
  BY <1>1, <1>7, <1>12, <1>13, <1>19 DEF TypeOK
<1>21. StreamsGood' /\ NeverMisplaced' /\ ReadIntact'
  BY <1>14, Peers DEF StreamsGood, NeverMisplaced, ReadIntact
<1>22. WindowGood({"client"})'
  <2>1. window'["client"].last_ack_received = acked(sb'["client"]) + 1
    BY <1>13, <1>14, Ends
  <2>2. window'["server"].next_seq_expected = ISN["client"] + 1
    BY <1>3, <1>13 DEF ServerReady
  <2>3. \A e \in Endpoint : window'[e].next_seq_expected = expected(rb'[e])
    BY <1>13, <1>15, <2>2, Ends
  <2>. QED  BY <2>1, <2>3 DEF WindowGood
<1>23. CInv({"client"}, HandshakeAck)'
  BY <1>19, <1>20, <1>21, <1>22 DEF CInv
<1>24. HalfOpen'
  <2>1. window'["server"].last_ack_received = ISN["server"]
    BY <1>1, <1>13, Ends DEF Unsent
  <2>2. sent(sb'["server"]) = ISN["server"]
    BY <1>14, Ends
  <2>3. initialized'["server"]
    BY <1>3, <1>17, Zenon DEF ServerReady
  <2>. QED  BY <1>15, <1>16, <1>17, <1>23, <2>1, <2>2, <2>3, Zenon DEF HalfOpen
<1>25. \A e \in Endpoint : wrote[e] <= wrote'[e] /\ StaysAlive(e)
  <2>1. \A e \in Endpoint : wrote[e] <= wrote'[e]
    BY <1>7, <1>10
  <2>2. \A e \in Endpoint : StaysAlive(e)
    BY <1>7, Zenon DEF StaysAlive
  <2>. QED  BY <2>1, <2>2
<1>26. HandshakeAssertsHold' /\ DiesOfSynOnly'
  BY <1>7, <1>20, <1>25, NoAssertion
<1>27. Started'
  <2>1. ASSUME NEW e \in Endpoint
        PROVE  /\ AckedBytes(e)' = 0 /\ ReceivedBytes(e)' = 0 /\ ReadBytes(e)' = 0
               /\ wrote'[e] \in Nat /\ wrote'[e] <= DEFAULT_BUFF_SIZE - 1
    <3>1. /\ AckedBytes(e)' = acked(sb'[e]) - ISN[e]
          /\ ReceivedBytes(e)' = expected(rb'[peer(e)]) - 1 - ISN[e]
          /\ ReadBytes(e)' = lastRead(rb'[peer(e)]) - ISN[e]
      BY DEF AckedBytes, ReceivedBytes, ReadBytes, next_expected, acked, expected, lastRead
    <3>2. AckedBytes(e)' = 0 /\ ReceivedBytes(e)' = 0 /\ ReadBytes(e)' = 0
      BY <3>1, <1>10, <1>14
    <3>3. wrote'[e] = wrote[e] /\ wrote[e] <= DEFAULT_BUFF_SIZE - 1
      BY <1>1, <1>7, <1>10, UnsentFits
    <3>. QED  BY <3>2, <3>3, <1>10
  <2>. QED  BY <2>1, Zenon DEF Started, ReceivedSoFar, ReadSoFar
<1>28. \A e \in Endpoint : SoFarStep(e)
  BY <1>1, <1>25, <1>27, OpeningStarted, StartStream
<1>. QED  BY <1>18, <1>24, <1>26, <1>28 DEF SessInv

-----------------------------------------------------------------------------
(* The server's handshake ends with the packet that puts its window_t in   *)
(* step, whether it is the last one of the handshake or already carries    *)
(* data.                                                                   *)
LEMMA ServerEstablishStep ==
  ASSUME SessInv, NEW p \in net, NEW again \in Duplication, ServerEstablish(p, again)
  PROVE  SessInv' /\ \A e \in Endpoint : SoFarStep(e)
<1>1. SessionTypeOK /\ HalfOpen
  BY Ends DEF ServerEstablish, SessInv, Opening, BothOpen
<1>2. /\ CInv({"client"}, HandshakeAck) /\ window["server"].last_ack_received = ISN["server"]
      /\ sent(sb["server"]) = ISN["server"]
  BY <1>1 DEF HalfOpen
<1>3. acked(sb["server"]) = ISN["server"]
  <2>1. /\ SendGood(sb["server"], ISN["server"])
        /\ acked(sb["server"]) \in Nat /\ sent(sb["server"]) \in Nat
        /\ acked(sb["server"]) <= sent(sb["server"])
    BY <1>2, Ends, EndpointFacts
  <2>2. ISN["server"] <= acked(sb["server"])
    BY <2>1 DEF SendGood
  <2>. QED  BY <1>2, <2>1, <2>2, Ends
<1>4. /\ window["server"].last_ack_received = acked(sb["server"])
      /\ p.ack = acked(sb["server"]) + 1 /\ HandleMessage("server", p, again)
  BY <1>2, <1>3 DEF ServerEstablish
<1>5. CInv({"client"} \cup {"server"}, HandshakeAck)' /\ StepGood
  BY <1>2, <1>4, Ends, HandleMessageStep
<1>6. CInv(Endpoint, HandshakeAck)'
  <2>1. Endpoint = {"client"} \cup {"server"}
    BY Ends
  <2>. QED  BY <1>5, <2>1
<1>7. /\ state' = [state EXCEPT !["server"] = "ESTABLISHED"]
      /\ initialized' = initialized /\ syns' = syns /\ aborted' = aborted
  BY DEF ServerEstablish
<1>8. /\ state'["client"] = "ESTABLISHED" /\ state'["server"] = "ESTABLISHED"
      /\ state' \in [Endpoint -> {"CLOSED", "LISTEN", "SYN_SENT", "SYN_RCVD",
                                  "ESTABLISHED"}]
  BY <1>1, <1>7, Ends DEF SessionTypeOK, HalfOpen
<1>9. SessionTypeOK'
  BY <1>1, <1>7, <1>8 DEF SessionTypeOK
<1>10. \A e \in Endpoint : initialized'[e]
  BY <1>1, <1>7, Ends, Zenon DEF HalfOpen
<1>11. BothOpen'
  BY <1>6, <1>8, <1>10, Ends, Zenon DEF BothOpen
<1>. QED  BY <1>1, <1>5, <1>7, <1>9, <1>11, OpenStep

-----------------------------------------------------------------------------
(* A late SYN kills a process, and changes nothing else.                   *)
LEMMA OnlyDies ==
  ASSUME NEW E, NEW U, CInv(E, U), alive' \in [Endpoint -> BOOLEAN],
         UNCHANGED <<sb, rb, window, pc, wrapped, net, wrote, delivered>>
  PROVE  CInv(E, U)' /\ \A e \in Endpoint : OneMoves(e)
<1>1. TypeOK /\ StreamsGood /\ WindowGood(E) /\ NetGood(U)
      /\ NeverMisplaced /\ ReadIntact
  BY DEF CInv
<1>2. TypeOK'
  BY <1>1 DEF TypeOK
<1>3. StreamsGood' /\ WindowGood(E)' /\ NetGood(U)'
  BY <1>1 DEF StreamsGood, WindowGood, NetGood
<1>4. NeverMisplaced' /\ ReadIntact'
  BY <1>1 DEF NeverMisplaced, ReadIntact
<1>5. ASSUME NEW e \in Endpoint PROVE OneMoves(e)
  <2>1. /\ wrote[e] \in Nat /\ acked(sb[e]) \in Nat
        /\ expected(rb[peer(e)]) \in Nat /\ lastRead(rb[peer(e)]) \in Nat
    BY EndpointFacts
  <2>. QED  BY <2>1 DEF OneMoves
<1>. QED  BY <1>2, <1>3, <1>4, <1>5 DEF CInv

LEMMA LateSynStep ==
  ASSUME SessInv, NEW e \in Endpoint, NEW p \in syns, LateSyn(e, p)
  PROVE  SessInv' /\ \A g \in Endpoint : SoFarStep(g)
<1>1. SessionTypeOK /\ HandshakeAssertsHold /\ DiesOfSynOnly /\ (HalfOpen \/ BothOpen)
  BY Ends DEF LateSyn, SessInv, Opening, ServerWaits, ServerReady
<1>2. /\ alive' = [alive EXCEPT ![e] = FALSE]
      /\ aborted' = [aborted EXCEPT ![e] = "handle_message"]
      /\ UNCHANGED <<sb, rb, window, pc, wrapped, net, wrote, delivered,
                     state, initialized, syns>>
  BY DEF LateSyn, Abort
<1>3. alive \in [Endpoint -> BOOLEAN]
  BY TypesHold DEF TypeOK
<1>4. /\ alive' \in [Endpoint -> BOOLEAN]
      /\ \A g \in Endpoint : g # e => alive'[g] = alive[g]
  BY <1>2, <1>3
<1>5. /\ aborted' \in [Endpoint -> {"nowhere", "handshake", "handle_message"}]
      /\ aborted'[e] = "handle_message"
      /\ \A g \in Endpoint : g # e => aborted'[g] = aborted[g]
  BY <1>1, <1>2 DEF SessionTypeOK
<1>6. SessionTypeOK'
  BY <1>1, <1>2, <1>5 DEF SessionTypeOK
<1>7. HandshakeAssertsHold'
  BY <1>1, <1>5 DEF HandshakeAssertsHold
<1>8. DiesOfSynOnly'
  BY <1>1, <1>2, <1>4, <1>5, Zenon DEF DiesOfSynOnly
<1>9. /\ HalfOpen => HalfOpen' /\ \A g \in Endpoint : OneMoves(g)
      /\ BothOpen => BothOpen' /\ \A g \in Endpoint : OneMoves(g)
  <2>1. CASE HalfOpen
    <3>1. CInv({"client"}, HandshakeAck)' /\ \A g \in Endpoint : OneMoves(g)
      BY <2>1, <1>2, <1>4, OnlyDies DEF HalfOpen
    <3>2. HalfOpen'
      BY <2>1, <3>1, <1>2, Zenon DEF HalfOpen
    <3>3. ~BothOpen
      BY <2>1, Ends DEF HalfOpen, BothOpen
    <3>. QED  BY <3>1, <3>2, <3>3
  <2>2. CASE BothOpen
    <3>1. CInv(Endpoint, HandshakeAck)' /\ \A g \in Endpoint : OneMoves(g)
      BY <2>2, <1>2, <1>4, OnlyDies DEF BothOpen
    <3>2. BothOpen'
      BY <2>2, <3>1, <1>2, Zenon DEF BothOpen
    <3>3. ~HalfOpen
      BY <2>2, Ends DEF HalfOpen, BothOpen
    <3>. QED  BY <3>1, <3>2, <3>3
  <2>. QED  BY <2>1, <2>2, <1>1
<1>10. \A g \in Endpoint : SoFarStep(g)
  BY <1>1, <1>9, OpenStream
<1>. QED  BY <1>1, <1>6, <1>7, <1>8, <1>9, <1>10 DEF SessInv

-----------------------------------------------------------------------------
(* The loop of an ESTABLISHED endpoint.                                    *)
LEMMA BackendLeaves ==
  ASSUME TypeOK, NEW e \in Endpoint, Backend(e), NEW g \in Endpoint, g # e
  PROVE  sb'[g] = sb[g] /\ rb'[g] = rb[g] /\ window'[g] = window[g]
<1> USE DEF TypeOK
<1>1. CASE NoData(e) \/ Reply(e)
  BY <1>1 DEF NoData, Reply
<1>2. CASE \E p \in net, again \in Duplication : HandleMessage(e, p, again)
  BY <1>2 DEF HandleMessage
<1>3. CASE \E w \in AdvertisedWindows(e) : Timeout(e, w)
  BY <1>3 DEF Timeout
<1>4. CASE \E w \in AdvertisedWindows(e) : Send(e, w)
  BY <1>4 DEF Send, multiple_send
<1>. QED  BY <1>1, <1>2, <1>3, <1>4 DEF Backend

LEMMA EstablishedStep ==
  ASSUME SessInv, NEW e \in Endpoint, Established(e)
  PROVE  SessInv' /\ \A g \in Endpoint : SoFarStep(g)
<1>1. /\ state[e] = "ESTABLISHED" /\ Backend(e) /\ state' = state
      /\ initialized' = initialized /\ syns' = syns /\ aborted' = aborted
  BY DEF Established, handshake
<1>2. SessionTypeOK /\ SessionTypeOK' /\ TypeOK
  BY <1>1, TypesHold DEF SessInv, SessionTypeOK
<1>3. HalfOpen \/ BothOpen
  BY <1>1, Ends DEF SessInv, Opening, ServerWaits, ServerReady
<1>4. CASE HalfOpen
  <2>1. e = "client" /\ e \in {"client"}
    BY <1>1, <1>4, Ends DEF HalfOpen
  <2>2. CInv({"client"}, HandshakeAck)' /\ StepGood
    BY <1>1, <1>4, <2>1, BackendStep DEF HalfOpen
  <2>3. /\ sb'["server"] = sb["server"] /\ rb'["server"] = rb["server"]
        /\ window'["server"] = window["server"]
    BY <1>1, <1>2, <2>1, Ends, BackendLeaves
  <2>4. HalfOpen'
    BY <1>1, <1>4, <2>2, <2>3, Zenon DEF HalfOpen
  <2>. QED  BY <1>1, <1>2, <1>4, <2>2, <2>4, OpenStep
<1>5. CASE BothOpen
  <2>1. CInv(Endpoint, HandshakeAck)' /\ StepGood
    BY <1>1, <1>5, BackendStep DEF BothOpen
  <2>2. BothOpen'
    BY <1>1, <1>5, <2>1, Zenon DEF BothOpen
  <2>. QED  BY <1>1, <1>2, <1>5, <2>1, <2>2, OpenStep
<1>. QED  BY <1>3, <1>4, <1>5

-----------------------------------------------------------------------------
(* The applications.  That of the server may write, but not read, before   *)
(* anything has come from the client.                                      *)
LEMMA NothingToRead ==
  ASSUME NEW r, expected(r) = lastRead(r) + 1, lastRead(r) \in Nat
  PROVE  ~(recv_buffer_max_read(r) > 0)
<1>1. recv_buffer_max_read(r) = expected(r) - lastRead(r) - 1
  BY DEF recv_buffer_max_read, expected, lastRead
<1>. QED  BY <1>1

LEMMA OpeningWriteStep ==
  ASSUME SessInv, Opening, NEW e \in Endpoint, NEW n \in 1 .. DEFAULT_BUFF_SIZE,
         Write(e, n), UNCHANGED handshake
  PROVE  SessInv' /\ \A g \in Endpoint : SoFarStep(g)
<1> DEFINE sn == send_buffer_write(sb[e], StreamBytes(wrote[e] + 1, n))
<1>1. /\ sb' = [sb EXCEPT ![e] = sn] /\ wrote' = [wrote EXCEPT ![e] = @ + n]
      /\ n <= send_buffer_max_write(sb[e]) /\ wrote[e] + n <= MaxStream[e]
      /\ UNCHANGED <<rb, window, pc, wrapped, net, alive, delivered>>
  BY DEF Write
<1>2. state' = state /\ initialized' = initialized /\ syns' = syns /\ aborted' = aborted
  BY DEF handshake
<1>3. TypeOK /\ (\A g \in Endpoint : Unsent(g)) /\ SessionTypeOK
  BY DEF Opening, SessInv
<1>4. wrote[e] \in Nat /\ ISN[e] \in Nat /\ n \in Nat \ {0}
  BY <1>3, ConnectionAssumption DEF TypeOK
<1>5. Written(sb[e], sn, ISN[e], n)
  <2>1. written(sb[e]) = ISN[e] + wrote[e] + 1 /\ SendGood(sb[e], ISN[e])
    BY <1>3 DEF Unsent
  <2>2. wrote[e] + 1 = written(sb[e]) - ISN[e]
    BY <2>1, <1>4
  <2>. QED  BY <1>1, <1>4, <2>1, <2>2, WriteExact
<1> HIDE DEF sn
<1>6. /\ SendGood(sn, ISN[e]) /\ acked(sn) = acked(sb[e]) /\ sent(sn) = sent(sb[e])
      /\ written(sn) = written(sb[e]) + n /\ sn \in SendBufferType
  BY <1>5 DEF Written, SendGood
<1>7. /\ sb' \in [Endpoint -> SendBufferType]
      /\ sb'[e] = sn /\ \A g \in Endpoint : g # e => sb'[g] = sb[g]
      /\ wrote' \in [Endpoint -> Nat]
      /\ wrote'[e] = wrote[e] + n /\ \A g \in Endpoint : g # e => wrote'[g] = wrote[g]
  BY <1>1, <1>3, <1>4, <1>6 DEF TypeOK
<1>8. TypeOK'
  <2>1. \A g \in Endpoint : wrote'[g] <= MaxStream[g]
    BY <1>1, <1>3, <1>7 DEF TypeOK
  <2>. QED  BY <2>1, <1>1, <1>3, <1>7 DEF TypeOK
<1>9. ASSUME NEW g \in Endpoint PROVE Unsent(g)'
  <2>1. Unsent(g) /\ window'[g] = window[g] /\ delivered'[g] = delivered[g]
    BY <1>1, <1>3
  <2>2. CASE g = e
    <3>1. written(sb[e]) = ISN[e] + wrote[e] + 1
      BY <1>3 DEF Unsent
    <3>2. written(sn) = ISN[e] + (wrote[e] + n) + 1
      BY <3>1, <1>4, <1>6
    <3>. QED  BY <2>1, <2>2, <3>2, <1>6, <1>7 DEF Unsent
  <2>3. CASE g # e
    BY <2>1, <2>3, <1>7 DEF Unsent
  <2>. QED  BY <2>2, <2>3
<1>10. ServerWaits' \/ ServerReady'
  <2>1. CASE ServerWaits
    BY <2>1, <1>1, <1>2, Zenon DEF ServerWaits
  <2>2. CASE ServerReady
    BY <2>2, <1>1, <1>2, Zenon DEF ServerReady
  <2>. QED  BY <2>1, <2>2 DEF Opening
<1>11. Opening'
  BY <1>1, <1>2, <1>8, <1>9, <1>10, Zenon DEF Opening
<1>12. \A g \in Endpoint : wrote[g] <= wrote'[g] /\ StaysAlive(g)
  <2>1. \A g \in Endpoint : wrote[g] \in Nat
    BY <1>3 DEF TypeOK
  <2>2. \A g \in Endpoint : wrote[g] <= wrote'[g]
    BY <1>4, <1>7, <2>1
  <2>3. \A g \in Endpoint : StaysAlive(g)
    BY <1>1, Zenon DEF StaysAlive
  <2>. QED  BY <2>2, <2>3
<1>13. SessionTypeOK'
  BY <1>2, <1>3 DEF SessionTypeOK
<1>. QED  BY <1>2, <1>11, <1>12, <1>13, OpeningStep

LEMMA ApplicationStep ==
  ASSUME SessInv, NEW e \in Endpoint, Application(e)
  PROVE  SessInv' /\ \A g \in Endpoint : SoFarStep(g)
<1>1. /\ initialized[e] /\ state' = state /\ initialized' = initialized
      /\ syns' = syns /\ aborted' = aborted /\ UNCHANGED handshake
  BY DEF Application, handshake
<1>2. PICK n \in 1 .. DEFAULT_BUFF_SIZE : Write(e, n) \/ Read(e, n)
  BY DEF Application
<1>3. SessionTypeOK' /\ TypeOK
  BY <1>1, TypesHold DEF SessInv, SessionTypeOK
<1>4. CASE Opening
  <2>1. e = "server" /\ ServerReady
    BY <1>1, <1>4, Ends, Zenon DEF Opening, ServerWaits
  <2>2. ASSUME Read(e, n) PROVE FALSE
    <3>1. /\ rb["server"] = recv_buffer_initialize(ISN["client"]) /\ Unsent("client")
      BY <1>4, <2>1, Ends DEF ServerReady, Opening
    <3>2. /\ expected(rb["server"]) = ISN["client"] + 1
          /\ lastRead(rb["server"]) = ISN["client"]
      BY <3>1, FreshReceiver DEF Unsent
    <3>3. ~(recv_buffer_max_read(rb["server"]) > 0)
      BY <3>2, Ends, NothingToRead
    <3>. QED  BY <2>1, <2>2, <3>3 DEF Read
  <2>. QED  BY <1>1, <1>2, <1>4, <2>2, OpeningWriteStep
<1>5. CASE HalfOpen
  <2>1. CInv({"client"}, HandshakeAck)
    BY <1>5 DEF HalfOpen
  <2>2. CASE Write(e, n)
    <3>1. /\ CInv({"client"}, HandshakeAck)' /\ StepGood
          /\ sent(sb'["server"]) = sent(sb["server"])
      BY <2>1, <2>2, WriteStep, Ends
    <3>2. rb' = rb /\ window' = window
      BY <2>2 DEF Write
    <3>3. HalfOpen'
      BY <1>1, <1>5, <3>1, <3>2, Zenon DEF HalfOpen
    <3>. QED  BY <1>1, <1>3, <1>5, <3>1, <3>3, OpenStep
  <2>3. CASE Read(e, n)
    <3>1. /\ CInv({"client"}, HandshakeAck)' /\ StepGood
      BY <2>1, <2>3, ReadStep
    <3>2. e # "server"
      <4>1. InStep(sb["client"], rb["server"], ISN["client"])
        BY <2>1, Ends DEF CInv, StreamsGood
      <4>2. expected(rb["server"]) = ISN["client"] + 1
        BY <1>5 DEF HalfOpen
      <4>3. /\ lastRead(rb["server"]) \in Nat /\ ISN["client"] <= lastRead(rb["server"])
            /\ lastRead(rb["server"]) < expected(rb["server"])
        BY <4>1, ReceivedWasSent
      <4>4. expected(rb["server"]) = lastRead(rb["server"]) + 1
        BY <4>2, <4>3, Ends
      <4>5. ~(recv_buffer_max_read(rb["server"]) > 0)
        BY <4>3, <4>4, NothingToRead
      <4>. QED  BY <2>3, <4>5 DEF Read
    <3>3. sb' = sb /\ window' = window /\ rb'["server"] = rb["server"]
      BY <2>3, <3>2, <1>3, Ends DEF Read, TypeOK
    <3>4. HalfOpen'
      BY <1>1, <1>5, <3>1, <3>3, Zenon DEF HalfOpen
    <3>. QED  BY <1>1, <1>3, <1>5, <3>1, <3>4, OpenStep
  <2>. QED  BY <1>2, <2>2, <2>3
<1>6. CASE BothOpen
  <2>1. CInv(Endpoint, HandshakeAck)
    BY <1>6 DEF BothOpen
  <2>2. CInv(Endpoint, HandshakeAck)' /\ StepGood
    <3>1. CASE Write(e, n)
      BY <2>1, <3>1, WriteStep
    <3>2. CASE Read(e, n)
      BY <2>1, <3>2, ReadStep
    <3>. QED  BY <1>2, <3>1, <3>2
  <2>3. BothOpen'
    BY <1>1, <1>6, <2>2, Zenon DEF BothOpen
  <2>. QED  BY <1>1, <1>3, <1>6, <2>2, <2>3, OpenStep
<1>. QED  BY <1>4, <1>5, <1>6 DEF SessInv

-----------------------------------------------------------------------------
LEMMA SessionStutter ==
  ASSUME SessInv, UNCHANGED session
  PROVE  SessInv' /\ \A e \in Endpoint : SoFarStep(e)
<1>1. /\ UNCHANGED vars /\ state' = state /\ initialized' = initialized
      /\ syns' = syns /\ aborted' = aborted
  BY DEF session, handshake
<1>2. /\ sb' = sb /\ rb' = rb /\ window' = window /\ net' = net
  BY <1>1 DEF vars
<1>3. SessionTypeOK'
  BY <1>1 DEF SessInv, SessionTypeOK
<1>4. /\ TypeOK' /\ \A e \in Endpoint : wrote[e] <= wrote'[e] /\ StaysAlive(e)
      /\ \A e \in Endpoint : Unsent(e) => Unsent(e)'
  BY <1>1, NothingMoves
<1>5. CASE Opening
  <2>1. ServerWaits' \/ ServerReady'
    <3>1. CASE ServerWaits
      BY <3>1, <1>1, <1>2, Zenon DEF ServerWaits
    <3>2. CASE ServerReady
      BY <3>2, <1>1, <1>2, Zenon DEF ServerReady
    <3>. QED  BY <3>1, <3>2, <1>5 DEF Opening
  <2>2. Opening'
    BY <1>1, <1>2, <1>4, <1>5, <2>1, Zenon DEF Opening
  <2>. QED  BY <1>1, <1>3, <1>4, <1>5, <2>2, OpeningStep
<1>6. CASE HalfOpen
  <2>1. CInv({"client"}, HandshakeAck)' /\ StepGood
    BY <1>1, <1>6, Stutter DEF HalfOpen
  <2>2. HalfOpen'
    BY <1>1, <1>2, <1>6, <2>1, Zenon DEF HalfOpen
  <2>. QED  BY <1>1, <1>3, <1>6, <2>1, <2>2, OpenStep
<1>7. CASE BothOpen
  <2>1. CInv(Endpoint, HandshakeAck)' /\ StepGood
    BY <1>1, <1>7, Stutter DEF BothOpen
  <2>2. BothOpen'
    BY <1>1, <1>7, <2>1, Zenon DEF BothOpen
  <2>. QED  BY <1>1, <1>3, <1>7, <2>1, <2>2, OpenStep
<1>. QED  BY <1>5, <1>6, <1>7 DEF SessInv

LEMMA SessionStep ==
  ASSUME SessInv, [SessionNext]_session
  PROVE  SessInv' /\ \A e \in Endpoint : SoFarStep(e)
<1>1. CASE UNCHANGED session
  BY <1>1, SessionStutter
<1>2. CASE SendSyn
  BY <1>2, SendSynStep
<1>3. CASE \E p \in syns \cup net : ClientReceive(p)
  BY <1>3, ClientReceiveStep
<1>4. CASE \E p \in syns \cup net : ServerListen(p)
  BY <1>4, ServerListenStep
<1>5. CASE \E p \in net, again \in Duplication : ServerEstablish(p, again)
  BY <1>5, ServerEstablishStep
<1>6. CASE \E p \in syns \cup net : ServerRepeat(p)
  BY <1>6, ServerRepeatStep
<1>7. CASE \E e \in Endpoint, p \in syns : LateSyn(e, p)
  BY <1>7, LateSynStep
<1>8. CASE \E e \in Endpoint : Established(e)
  BY <1>8, EstablishedStep
<1>9. CASE \E e \in Endpoint : Application(e)
  BY <1>9, ApplicationStep
<1>. QED  BY <1>1, <1>2, <1>3, <1>4, <1>5, <1>6, <1>7, <1>8, <1>9 DEF SessionNext

LEMMA SessionInvariance == SessionSpec => []SessInv
<1>1. SessInv /\ [SessionNext]_session => SessInv'
  BY SessionStep
<1>. QED  BY <1>1, SessionInitInvariant, PTL DEF SessionSpec

-----------------------------------------------------------------------------
(* Type correctness; above all, the handshake never sends a SYN-ACK with a *)
(* number other than the one that follows the SYN of the client, however   *)
(* often init_handshake_server repeats it.                                 *)
THEOREM SessionTypeCorrect == SessionSpec => []SessionTypeOK
<1>1. SessInv => SessionTypeOK
  BY DEF SessInv
<1>. QED  BY <1>1, SessionInvariance, PTL

(* No assertion of init_handshake_client and init_handshake_server fails,  *)
(* whatever the network loses, delays or repeats.                          *)
THEOREM SessionAssertsHold == SessionSpec => []HandshakeAssertsHold
<1>1. SessInv => HandshakeAssertsHold
  BY DEF SessInv
<1>. QED  BY <1>1, SessionInvariance, PTL

(* From the moment sock->initialized lets the application in, the receive  *)
(* buffer stands where the stream of the peer begins, or where it has come *)
(* to since.                                                               *)
THEOREM SessionInitialized == SessionSpec => []InitializedInStep
<1>1. SessInv => InitializedInStep
  <2> SUFFICES ASSUME SessInv, NEW e \in Endpoint, initialized[e]
               PROVE  /\ ISN[peer(e)] <= lastRead(rb[e])
                      /\ acked(sb[peer(e)]) < expected(rb[e])
                      /\ expected(rb[e]) <= sent(sb[peer(e)]) + 1
                      /\ window[e].next_seq_expected = expected(rb[e])
    BY Zenon DEF InitializedInStep, next_expected, lastRead, acked, expected, sent
  <2>1. InStep(sb[peer(e)], rb[e], ISN[peer(e)])
        /\ window[e].next_seq_expected = expected(rb[e])
    <3>1. CASE Opening
      <4>1. e = "server" /\ ServerReady
        BY <3>1, Ends, Zenon DEF Opening, ServerWaits
      <4>2. /\ peer(e) = "client" /\ rb[e] = recv_buffer_initialize(ISN["client"])
            /\ window[e].next_seq_expected = ISN["client"] + 1
        BY <4>1, Ends DEF ServerReady
      <4>3. SendGood(sb["client"], ISN["client"]) /\ acked(sb["client"]) = ISN["client"]
        BY <3>1, Ends DEF Opening, Unsent
      <4>. QED  BY <4>2, <4>3, FreshReceiver
    <3>2. CASE HalfOpen \/ BothOpen
      <4>1. PICK E : CInv(E, HandshakeAck)
        BY <3>2 DEF HalfOpen, BothOpen
      <4>. QED  BY <4>1, EndpointFacts
    <3>. QED  BY <3>1, <3>2 DEF SessInv
  <2>. QED  BY <2>1, ReceivedWasSent
<1>. QED  BY <1>1, SessionInvariance, PTL

(* The server is ESTABLISHED only after the client, both with the window_t *)
(* that Connection starts with: what Connection assumes in its initial     *)
(* state is what the handshake brings about.                               *)
THEOREM SessionEstablished == SessionSpec => []EstablishedInStep
<1>1. SessInv => EstablishedInStep
  <2> SUFFICES ASSUME SessInv PROVE EstablishedInStep
    OBVIOUS
  <2>1. CASE Opening
    BY <2>1, Ends DEF Opening, ServerWaits, ServerReady, EstablishedInStep
  <2>2. CASE HalfOpen
    <3>1. window["client"].last_ack_received = sb["client"].last_byte_acked_seqnum + 1
      BY <2>2, Ends DEF HalfOpen, CInv, WindowGood, acked
    <3>2. state["server"] # "ESTABLISHED"
      BY <2>2 DEF HalfOpen
    <3>. QED  BY <2>2, <3>1, <3>2, Ends, Zenon DEF HalfOpen, EstablishedInStep
  <2>3. CASE BothOpen
    <3>1. \A e \in Endpoint :
            window[e].last_ack_received = sb[e].last_byte_acked_seqnum + 1
      BY <2>3 DEF BothOpen, CInv, WindowGood, acked
    <3>. QED  BY <2>3, <3>1, Ends, Zenon DEF BothOpen, EstablishedInStep
  <2>. QED  BY <2>1, <2>2, <2>3 DEF SessInv
<1>. QED  BY <1>1, SessionInvariance, PTL

(* From the first SYN on, what cmu_read returns is what the peer wrote,    *)
(* and no process dies of a copy, while the streams have not come back to  *)
(* slot 0 of their rings.                                                  *)
THEOREM SessionTransferIntact == SessionSpec => []TransferIntact
<1>1. SessInv => TransferIntact
  <2> SUFFICES ASSUME SessInv, NEW e \in Endpoint, wrote[e] < DEFAULT_BUFF_SIZE
               PROVE  /\ delivered[peer(e)] \subseteq {"right"}
                      /\ alive[e] \/ aborted[e] = "handle_message"
    BY Zenon DEF TransferIntact
  <2>1. alive[e] \/ aborted[e] = "handle_message"
    BY Zenon DEF SessInv, DiesOfSynOnly
  <2>2. delivered[peer(e)] \subseteq {"right"}
    <3>1. CASE Opening
      BY <3>1, Peers DEF Opening, Unsent
    <3>2. CASE HalfOpen \/ BothOpen
      BY <3>2 DEF HalfOpen, BothOpen, CInv, ReadIntact
    <3>. QED  BY <3>1, <3>2 DEF SessInv
  <2>. QED  BY <2>1, <2>2
<1>. QED  BY <1>1, SessionInvariance, PTL

(* Both directions implement ReliableStream from the first SYN on: the     *)
(* handshake itself moves nothing, and what the applications write or the  *)
(* client sends before it is over takes its place in the stream.           *)
THEOREM SessionStreams == SessionSpec => SessionImplementsStreams
<1>1. SessionInit => UpToServer!Init /\ DownToClient!Init
  <2> SUFFICES ASSUME SessionInit PROVE UpToServer!Init /\ DownToClient!Init
    OBVIOUS
  <2>1. \A e \in Endpoint : wrote[e] = 0 /\ state["client"] = "CLOSED"
    BY Ends DEF SessionInit
  <2>2. SessInv /\ ~HalfOpen /\ ~BothOpen
    BY <2>1, Ends, SessionInitInvariant DEF HalfOpen, BothOpen
  <2>3. Started
    BY <2>2, OpeningStarted DEF SessInv
  <2>. QED  BY <2>1, <2>3, Ends DEF Started, UpToServer!Init, DownToClient!Init
<1>2. SessInv /\ [SessionNext]_session =>
        /\ [UpToServer!Next]_UpToServer!stream
        /\ [DownToClient!Next]_DownToClient!stream
  <2> SUFFICES ASSUME SessInv, [SessionNext]_session
               PROVE  /\ [UpToServer!Next]_UpToServer!stream
                      /\ [DownToClient!Next]_DownToClient!stream
    OBVIOUS
  <2>1. SoFarStep("client") /\ SoFarStep("server")
    BY SessionStep, Ends
  <2>2. [UpToServer!Next]_UpToServer!stream
    BY <2>1, Zenon DEF SoFarStep, StreamMove, UpToServer!Next, UpToServer!stream,
         UpToServer!Write, UpToServer!Receive, UpToServer!Forget, UpToServer!Read
  <2>3. [DownToClient!Next]_DownToClient!stream
    BY <2>1, Zenon DEF SoFarStep, StreamMove, DownToClient!Next, DownToClient!stream,
         DownToClient!Write, DownToClient!Receive, DownToClient!Forget, DownToClient!Read
  <2>. QED  BY <2>2, <2>3
<1>. QED  BY <1>1, <1>2, SessionInvariance, PTL
          DEF SessionSpec, SessionImplementsStreams, UpToServer!Spec, DownToClient!Spec
=============================================================================
