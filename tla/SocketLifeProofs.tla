-------------------------- MODULE SocketLifeProofs --------------------------
(***************************************************************************)
(* Proofs about SocketLife: blocking reads, closing, and the loop of       *)
(* begin_backend around the steps of Connection.                           *)
(*                                                                         *)
(* Every step is a step of Connection or leaves its variables alone, so    *)
(* the invariant of ConnectionProofs is part of the inductive one.  To it  *)
(* come, for each socket, where its two threads can be at the same time,   *)
(* that a sleeping reader has nothing to read, and that a backend which    *)
(* has left its loop had every byte acknowledged; the last stays true      *)
(* because a closed socket is not written to.                              *)
(***************************************************************************)
EXTENDS SocketLife, ConnectionProofs

BackendPlace == {"top", "live", "dead", "round", "alert", "gone"}
AppPlace     == {"run", "wait", "woken", "join"}

(* Every byte that was written is acknowledged.                            *)
Flushed(e) == acked(sb[e]) = ISN[e] + wrote[e]

SocketGood(e) ==
  /\ at[e] \in {"dead", "gone"} => app[e] = "join"
  /\ at[e] # "round" => pc[e] = "check"
  /\ app[e] = "wait" => recv_buffer_max_read(rb[e]) = 0
  /\ at[e] = "gone" => Flushed(e)

LInv ==
  /\ Inv
  /\ at \in [Endpoint -> BackendPlace] /\ app \in [Endpoint -> AppPlace]
  /\ \A e \in Endpoint : SocketGood(e)

(* A step of one socket leaves the other alone, but for acknowledgements.  *)
Untouched(g) ==
  /\ at'[g] = at[g] /\ app'[g] = app[g]
  /\ pc'[g] = pc[g] /\ rb'[g] = rb[g] /\ wrote'[g] = wrote[g]

-----------------------------------------------------------------------------
(* What is acknowledged stays acknowledged.                                *)
LEMMA StaysFlushed ==
  ASSUME Inv, Inv', StepGood, NEW e \in Endpoint, Flushed(e), wrote'[e] = wrote[e]
  PROVE  Flushed(e)'
<1> DEFINE a == acked(sb'[e])
           u == sent(sb'[e])
           w == written(sb'[e])
<1>1. /\ ISN[e] \in Nat /\ wrote[e] \in Nat /\ acked(sb[e]) \in Nat
  BY EndpointFacts DEF Inv
<1>2. acked(sb[e]) <= a
  BY DEF StepGood, OneMoves
<1>3. /\ SendGood(sb'[e], ISN[e]) /\ w = ISN[e] + wrote'[e] + 1
  BY DEF Inv, CInv, StreamsGood, InStep
<1>4. a \in Nat /\ u \in Nat /\ w \in Nat /\ a <= u /\ u < w
  BY <1>3, SendBounds DEF SendGood
<1>5. w = ISN[e] + wrote[e] + 1
  BY <1>3
<1> HIDE DEF a, u, w
<1>6. a = ISN[e] + wrote[e]
  BY <1>1, <1>2, <1>4, <1>5 DEF Flushed
<1>. QED  BY <1>6 DEF Flushed, a

(* What a step of socket e has to show.                                    *)
LEMMA SocketStep ==
  ASSUME LInv, [Next]_vars, NEW e \in Endpoint,
         at' \in [Endpoint -> BackendPlace], app' \in [Endpoint -> AppPlace],
         \A g \in Endpoint : g # e => Untouched(g),
         at'[e] \in {"dead", "gone"} => app'[e] = "join",
         at'[e] # "round" => pc'[e] = "check",
         app'[e] = "wait" => recv_buffer_max_read(rb'[e]) = 0,
         at'[e] = "gone" => Flushed(e) /\ wrote'[e] = wrote[e]
  PROVE  LInv'
<1>1. Inv /\ Inv' /\ StepGood
  BY NextStep DEF LInv
<1>2. ASSUME NEW g \in Endpoint, g # e PROVE SocketGood(g)'
  <2>1. SocketGood(g) /\ Untouched(g)
    BY <1>2 DEF LInv
  <2>2. at'[g] = "gone" => Flushed(g)'
    BY <1>1, <2>1, StaysFlushed DEF SocketGood, Untouched
  <2>. QED  BY <2>1, <2>2 DEF SocketGood, Untouched
<1>3. SocketGood(e)'
  <2>1. at'[e] = "gone" => Flushed(e)'
    BY <1>1, StaysFlushed
  <2>. QED  BY <2>1 DEF SocketGood
<1>. QED  BY <1>1, <1>2, <1>3 DEF LInv

LEMMA LifeInitInvariant == LifeInit => LInv
<1> SUFFICES ASSUME LifeInit PROVE LInv
  OBVIOUS
<1>1. Inv
  BY InitInvariant DEF LifeInit
<1>2. /\ at = [e \in Endpoint |-> "top"] /\ app = [e \in Endpoint |-> "run"]
      /\ pc = [e \in Endpoint |-> "check"]
  BY DEF LifeInit, Init
<1>. QED  BY <1>1, <1>2 DEF LInv, SocketGood, BackendPlace, AppPlace

-----------------------------------------------------------------------------
(* The application thread.                                                 *)
LEMMA CmuWriteStep ==
  ASSUME LInv, NEW e \in Endpoint, NEW n \in 1 .. DEFAULT_BUFF_SIZE, CmuWrite(e, n)
  PROVE  LInv' /\ [Next]_vars
<1>1. [Next]_vars
  BY DEF CmuWrite, Next
<1>2. /\ app[e] = "run" /\ at' = at /\ app' = app /\ pc' = pc /\ rb' = rb
      /\ wrote' = [wrote EXCEPT ![e] = @ + n] /\ SocketGood(e)
  BY DEF CmuWrite, Write, LInv
<1>3. /\ at \in [Endpoint -> BackendPlace] /\ app \in [Endpoint -> AppPlace]
      /\ wrote \in [Endpoint -> Nat]
  BY DEF LInv, Inv, CInv, TypeOK
<1>4. \A g \in Endpoint : g # e => Untouched(g)
  BY <1>2, <1>3 DEF Untouched
<1>5. at[e] # "gone"
  BY <1>2 DEF SocketGood
<1>6. LInv'
  BY <1>1, <1>2, <1>3, <1>4, <1>5, SocketStep DEF SocketGood
<1>. QED  BY <1>1, <1>6

LEMMA CmuReadStep ==
  ASSUME LInv, NEW e \in Endpoint, NEW length \in 1 .. DEFAULT_BUFF_SIZE,
         CmuRead(e, length)
  PROVE  LInv' /\ [Next]_vars
<1>1. [Next]_vars
  BY DEF CmuRead, Next
<1> DEFINE rn == recv_buffer_read(rb[e], MIN(length, recv_buffer_max_read(rb[e])))
<1>2. /\ app[e] \in {"run", "woken"} /\ at' = at /\ pc' = pc /\ wrote' = wrote
      /\ app' = [app EXCEPT ![e] = "run"] /\ rb' = [rb EXCEPT ![e] = rn]
      /\ SocketGood(e)
  BY DEF CmuRead, Read, LInv
<1> HIDE DEF rn
<1>3. /\ at \in [Endpoint -> BackendPlace] /\ app \in [Endpoint -> AppPlace]
      /\ rb \in [Endpoint -> RecvBufferType]
  BY DEF LInv, Inv, CInv, TypeOK
<1>4. \A g \in Endpoint : g # e => Untouched(g)
  BY <1>2, <1>3 DEF Untouched
<1>5. app' \in [Endpoint -> AppPlace] /\ app'[e] = "run"
  BY <1>2, <1>3 DEF AppPlace
<1>6. at[e] \notin {"dead", "gone"} /\ (at[e] # "round" => pc[e] = "check")
  BY <1>2 DEF SocketGood
<1>7. LInv'
  BY <1>1, <1>2, <1>3, <1>4, <1>5, <1>6, SocketStep
<1>. QED  BY <1>1, <1>7

(* Falling asleep and closing.                                             *)
LEMMA AppOnlyStep ==
  ASSUME LInv, NEW e \in Endpoint, Wait(e) \/ CmuClose(e)
  PROVE  LInv' /\ [Next]_vars
<1>1. [Next]_vars /\ vars' = vars
  BY DEF Wait, CmuClose
<1>2. at' = at /\ pc' = pc /\ wrote' = wrote /\ rb' = rb /\ SocketGood(e)
  BY <1>1 DEF Wait, CmuClose, vars, LInv
<1>3. at \in [Endpoint -> BackendPlace] /\ app \in [Endpoint -> AppPlace]
  BY DEF LInv
<1>4. /\ app' \in [Endpoint -> AppPlace] /\ app[e] # "join"
      /\ app'[e] \in {"wait", "join"} /\ \A g \in Endpoint : g # e => app'[g] = app[g]
  BY <1>3 DEF Wait, CmuClose, AppPlace
<1>5. \A g \in Endpoint : g # e => Untouched(g)
  BY <1>2, <1>4 DEF Untouched
<1>6. at[e] \notin {"dead", "gone"} /\ (at[e] # "round" => pc[e] = "check")
  BY <1>2, <1>4 DEF SocketGood
<1>7. app'[e] = "wait" => recv_buffer_max_read(rb[e]) = 0
  BY <1>3 DEF Wait, CmuClose, MustWait
<1>8. LInv'
  BY <1>1, <1>2, <1>3, <1>4, <1>5, <1>6, <1>7, SocketStep
<1>. QED  BY <1>1, <1>8

-----------------------------------------------------------------------------
(* The head of the loop: nothing is left when the backend leaves.          *)
LEMMA NothingLeft ==
  ASSUME Inv, NEW e \in Endpoint, DataLeft(e) = 0
  PROVE  Flushed(e)
<1>1. /\ ISN[e] \in Nat /\ wrote[e] \in Nat
      /\ acked(sb[e]) \in Nat /\ sent(sb[e]) \in Nat /\ written(sb[e]) \in Nat
      /\ written(sb[e]) = ISN[e] + wrote[e] + 1
  BY EndpointFacts DEF Inv
<1>2. (sent(sb[e]) - acked(sb[e])) + (written(sb[e]) - sent(sb[e]) - 1) = 0
  BY DEF DataLeft, get_unacknowledged_count, send_buffer_max_new_dump, acked, sent, written
<1>. QED  BY <1>1, <1>2 DEF Flushed

LEMMA HeadStep ==
  ASSUME LInv, NEW e \in Endpoint, ReadDying(e) \/ LeaveOrStay(e)
  PROVE  LInv' /\ [Next]_vars
<1>1. [Next]_vars /\ vars' = vars
  BY DEF ReadDying, LeaveOrStay
<1>2. app' = app /\ pc' = pc /\ wrote' = wrote /\ rb' = rb /\ SocketGood(e) /\ Inv
  BY <1>1 DEF ReadDying, LeaveOrStay, vars, LInv
<1>3. at \in [Endpoint -> BackendPlace] /\ app \in [Endpoint -> AppPlace]
  BY DEF LInv
<1>4. /\ at' \in [Endpoint -> BackendPlace] /\ at[e] # "round"
      /\ \A g \in Endpoint : g # e => at'[g] = at[g]
  BY <1>3 DEF ReadDying, LeaveOrStay, BackendPlace
<1>5. /\ at'[e] \in {"dead", "gone"} => app[e] = "join"
      /\ at'[e] = "gone" => DataLeft(e) = 0
  BY <1>2, <1>3 DEF ReadDying, LeaveOrStay, dying, SocketGood
<1>6. at'[e] = "gone" => Flushed(e)
  BY <1>2, <1>5, NothingLeft
<1>7. \A g \in Endpoint : g # e => Untouched(g)
  BY <1>2, <1>4 DEF Untouched
<1>8. LInv'
  BY <1>1, <1>2, <1>3, <1>4, <1>5, <1>6, <1>7, SocketStep DEF SocketGood
<1>. QED  BY <1>1, <1>8

(* A round: the packet handled, the answer, what is sent.                  *)
LEMMA HandleStep ==
  ASSUME LInv, NEW e \in Endpoint, NEW p \in net, NEW again \in Duplication,
         Handle(e, p, again)
  PROVE  LInv' /\ [Next]_vars
<1>1. [Next]_vars
  BY DEF Handle, Next
<1> DEFINE rn == IF Wakes(e, p) THEN recv_buffer_receive(rb[e], p.seq, get_payload(p))
                 ELSE rb[e]
<1>2. /\ at[e] = "round" /\ at' = at /\ wrote' = wrote
      /\ app' = IF Wakes(e, p) THEN Signal(e) ELSE app
      /\ rb' = [rb EXCEPT ![e] = rn]
      /\ SocketGood(e)
  BY DEF Handle, HandleMessage, Wakes, LInv
<1>3. /\ at \in [Endpoint -> BackendPlace] /\ app \in [Endpoint -> AppPlace]
      /\ rb \in [Endpoint -> RecvBufferType]
      /\ pc \in [Endpoint -> {"check", "reply", "send"}]
  BY DEF LInv, Inv, CInv, TypeOK
<1>4. \A g \in Endpoint : g # e => pc'[g] = pc[g]
  BY <1>3 DEF Handle, HandleMessage, GoSend
<1>5. /\ app' \in [Endpoint -> AppPlace]
      /\ \A g \in Endpoint : g # e => app'[g] = app[g]
      /\ app'[e] = "wait" => app[e] = "wait" /\ ~Wakes(e, p)
  BY <1>2, <1>3 DEF Signal, AppPlace
<1>6. app'[e] = "wait" => recv_buffer_max_read(rb'[e]) = 0
  BY <1>2, <1>3, <1>5 DEF SocketGood
<1>7. \A g \in Endpoint : g # e => Untouched(g)
  BY <1>2, <1>3, <1>4, <1>5 DEF Untouched
<1>8. LInv'
  BY <1>1, <1>2, <1>3, <1>5, <1>6, <1>7, SocketStep
<1>. QED  BY <1>1, <1>8

LEMMA RoundStep ==
  ASSUME LInv, NEW e \in Endpoint,
         \/ Poll(e)
         \/ Answer(e)
         \/ \E w \in AdvertisedWindows(e) : Resend(e, w) \/ SendFresh(e, w)
  PROVE  LInv' /\ [Next]_vars
<1>1. [Next]_vars
  BY DEF Poll, Answer, Resend, SendFresh, Next
<1>2. /\ at[e] = "round" /\ app' = app /\ wrote' = wrote /\ rb' = rb /\ SocketGood(e)
  BY DEF Poll, Answer, Resend, SendFresh, GoAlert, NoData, Reply, Timeout, Send, LInv
<1>3. /\ at \in [Endpoint -> BackendPlace] /\ app \in [Endpoint -> AppPlace]
      /\ pc \in [Endpoint -> {"check", "reply", "send"}]
  BY DEF LInv, Inv, CInv, TypeOK
<1>4. \/ at' = at /\ GoSend(e)
      \/ at' = [at EXCEPT ![e] = "alert"] /\ GoCheck(e)
  BY DEF Poll, Answer, Resend, SendFresh, GoAlert, NoData, Reply, Timeout, Send
<1>5. /\ at' \in [Endpoint -> BackendPlace]
      /\ at'[e] = "round" \/ (at'[e] = "alert" /\ pc'[e] = "check")
      /\ \A g \in Endpoint : g # e => at'[g] = at[g] /\ pc'[g] = pc[g]
  BY <1>2, <1>3, <1>4 DEF GoSend, GoCheck, BackendPlace
<1>6. \A g \in Endpoint : g # e => Untouched(g)
  BY <1>2, <1>5 DEF Untouched
<1>7. app'[e] = "wait" => recv_buffer_max_read(rb'[e]) = 0
  BY <1>2 DEF SocketGood
<1>8. LInv'
  BY <1>1, <1>2, <1>3, <1>5, <1>6, <1>7, SocketStep
<1>. QED  BY <1>1, <1>8

(* The end of the loop.                                                    *)
LEMMA AlertStep ==
  ASSUME LInv, NEW e \in Endpoint, Alert(e)
  PROVE  LInv' /\ [Next]_vars
<1>1. [Next]_vars /\ vars' = vars
  BY DEF Alert
<1>2. /\ at[e] = "alert" /\ at' = [at EXCEPT ![e] = "top"] /\ SocketGood(e)
      /\ app' = IF recv_buffer_max_read(rb[e]) > 0 THEN Signal(e) ELSE app
      /\ pc' = pc /\ wrote' = wrote /\ rb' = rb
  BY <1>1 DEF Alert, vars, LInv
<1>3. at \in [Endpoint -> BackendPlace] /\ app \in [Endpoint -> AppPlace]
  BY DEF LInv
<1>4. /\ app' \in [Endpoint -> AppPlace]
      /\ \A g \in Endpoint : g # e => app'[g] = app[g]
      /\ app'[e] = "wait" => app[e] = "wait"
  BY <1>2, <1>3 DEF Signal, AppPlace
<1>5. /\ at' \in [Endpoint -> BackendPlace] /\ at'[e] = "top"
      /\ \A g \in Endpoint : g # e => at'[g] = at[g]
  BY <1>2, <1>3 DEF BackendPlace
<1>6. \A g \in Endpoint : g # e => Untouched(g)
  BY <1>2, <1>4, <1>5 DEF Untouched
<1>7. LInv'
  BY <1>1, <1>2, <1>4, <1>5, <1>6, SocketStep DEF SocketGood
<1>. QED  BY <1>1, <1>7

-----------------------------------------------------------------------------
LEMMA LifeStep ==
  ASSUME LInv, [LifeNext]_lvars
  PROVE  LInv' /\ [Next]_vars
<1>1. CASE UNCHANGED lvars
  <2>1. vars' = vars /\ at' = at /\ app' = app
    BY <1>1 DEF lvars
  <2>2. Inv'
    BY <2>1, NextStep DEF LInv
  <2>3. sb' = sb /\ rb' = rb /\ pc' = pc /\ wrote' = wrote
    BY <2>1 DEF vars
  <2>4. \A e \in Endpoint : SocketGood(e)'
    BY <2>1, <2>3 DEF LInv, SocketGood, Flushed
  <2>. QED  BY <2>1, <2>2, <2>4 DEF LInv
<1>2. CASE LifeNext
  <2>1. PICK e \in Endpoint :
          \/ \E n \in 1 .. DEFAULT_BUFF_SIZE : CmuWrite(e, n)
          \/ Wait(e)
          \/ \E length \in 1 .. DEFAULT_BUFF_SIZE : CmuRead(e, length)
          \/ CmuClose(e)
          \/ BackendLoop(e)
    BY <1>2 DEF LifeNext
  <2>2. CASE \E n \in 1 .. DEFAULT_BUFF_SIZE : CmuWrite(e, n)
    BY <2>2, CmuWriteStep
  <2>3. CASE Wait(e) \/ CmuClose(e)
    BY <2>3, AppOnlyStep
  <2>4. CASE \E length \in 1 .. DEFAULT_BUFF_SIZE : CmuRead(e, length)
    BY <2>4, CmuReadStep
  <2>5. CASE BackendLoop(e)
    <3>1. CASE ReadDying(e) \/ LeaveOrStay(e)
      BY <3>1, HeadStep
    <3>2. CASE \/ Poll(e) \/ Answer(e)
               \/ \E w \in AdvertisedWindows(e) : Resend(e, w) \/ SendFresh(e, w)
      BY <3>2, RoundStep
    <3>3. CASE \E p \in net, again \in Duplication : Handle(e, p, again)
      BY <3>3, HandleStep
    <3>4. CASE Alert(e)
      BY <3>4, AlertStep
    <3>. QED  BY <2>5, <3>1, <3>2, <3>3, <3>4 DEF BackendLoop
  <2>. QED  BY <2>1, <2>2, <2>3, <2>4, <2>5
<1>. QED  BY <1>1, <1>2

LEMMA LifeInvariance == LifeSpec => []LInv
<1>1. LInv /\ [LifeNext]_lvars => LInv'
  BY LifeStep
<1>. QED  BY <1>1, LifeInitInvariant, PTL DEF LifeSpec

-----------------------------------------------------------------------------
(* The two threads of a socket are never where they cannot be together:    *)
(* the backend believes in cmu_close only when the application is in it,   *)
(* and is in the middle of a packet only inside its round.                 *)
THEOREM LifeTypeCorrect == LifeSpec => []LifeTypeOK
<1>1. LInv => LifeTypeOK
  BY DEF LInv, LifeTypeOK, SocketGood, BackendPlace, AppPlace, dying
<1>. QED  BY <1>1, LifeInvariance, PTL

(* cmu_close returns only when the peer has every byte in order, wherever  *)
(* in the loop of the backend it was called.                               *)
THEOREM LifeCloseFlushes == LifeSpec => []CloseFlushes
<1>1. LInv => CloseFlushes
  <2> SUFFICES ASSUME LInv, NEW e \in Endpoint, at[e] = "gone"
               PROVE  ReceivedBytes(e) = wrote[e]
    BY DEF CloseFlushes
  <2> DEFINE x == expected(rb[peer(e)])
  <2>1. acked(sb[e]) = ISN[e] + wrote[e] /\ CInv(Endpoint, {})
    BY DEF LInv, SocketGood, Flushed, Inv
  <2>2. /\ ISN[e] \in Nat /\ wrote[e] \in Nat /\ sent(sb[e]) \in Nat /\ x \in Nat
        /\ sent(sb[e]) < written(sb[e]) /\ written(sb[e]) = ISN[e] + wrote[e] + 1
        /\ InStep(sb[e], rb[peer(e)], ISN[e])
    BY <2>1, EndpointFacts
  <2>3. acked(sb[e]) < x /\ x <= sent(sb[e]) + 1
    BY <2>2, ReceivedWasSent
  <2>4. ReceivedBytes(e) = x - 1 - ISN[e]
    BY DEF ReceivedBytes, next_expected, expected
  <2> HIDE DEF x
  <2>. QED  BY <2>1, <2>2, <2>3, <2>4
<1>. QED  BY <1>1, LifeInvariance, PTL

(* A reader that sleeps in cmu_read has nothing to read: no signal is lost *)
(* between its test and its sleep, or between the storing of bytes and the *)
(* signal.                                                                 *)
THEOREM LifeSleepsForReason == LifeSpec => []SleepsForReason
<1>1. LInv => SleepsForReason
  BY DEF LInv, SleepsForReason, SocketGood
<1>. QED  BY <1>1, LifeInvariance, PTL

(* With blocking reads, signals and closing around it, the connection is   *)
(* still the one of Connection: LifeSpec implements Spec, and with it      *)
(* everything ConnectionProofs proves of Spec.                             *)
THEOREM LifeIsConnection == LifeSpec => Spec
<1>1. LifeInit => Init
  BY DEF LifeInit
<1>2. LInv /\ [LifeNext]_lvars => [Next]_vars
  BY LifeStep
<1>. QED  BY <1>1, <1>2, LifeInvariance, PTL DEF LifeSpec, Spec
=============================================================================
