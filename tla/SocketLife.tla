----------------------------- MODULE SocketLife -----------------------------
(***************************************************************************)
(* The life of two connected sockets to its end: Connection, together with *)
(* the application thread that blocks in cmu_read and closes the socket    *)
(* (cmu_tcp.c), and the parts of the loop of begin_backend around the      *)
(* steps of Connection.  One application thread uses a socket: it is in    *)
(* one call at a time, and in none after cmu_close.                        *)
(*                                                                         *)
(* The backend is at                                                       *)
(*    "top"             before it reads sock->dying under death_lock       *)
(*    "live", "dead"    with what it read, before it counts the data left  *)
(*    "round"           from check_for_data to the end of the sending part *)
(*    "alert"           before it looks for data to be read                *)
(*    "gone"            after pthread_exit: cmu_close returns              *)
(***************************************************************************)
EXTENDS Connection

VARIABLES
  at,   \* where the backend is
  app   \* the application thread: running, in cmu_read, or in cmu_close

lvars == <<vars, at, app>>

LifeInit ==
  /\ Init
  /\ at = [e \in Endpoint |-> "top"]
  /\ app = [e \in Endpoint |-> "run"]

(* cmu_close sets sock->dying and joins the backend thread.                *)
dying(e) == app[e] = "join"

-----------------------------------------------------------------------------
(* The application thread.                                                 *)

CmuWrite(e, n) ==
  /\ app[e] = "run"
  /\ Write(e, n)
  /\ UNCHANGED <<at, app>>

(* A test that leaves the last byte for later.                             *)
MutMustWait(e) == recv_buffer_max_read(rb[e]) <= 1

MustWait(e) == recv_buffer_max_read(rb[e]) = 0

(* cmu_read with NO_FLAG, at its first test or after a signal: it sleeps   *)
(* on wait_cond, which releases recv_lock ...                              *)
Wait(e) ==
  /\ alive[e] /\ app[e] \in {"run", "woken"}
  /\ MustWait(e)
  /\ app' = [app EXCEPT ![e] = "wait"]
  /\ UNCHANGED <<vars, at>>

(* ... or reads and returns.  (With NO_WAIT it reads as well, if it can.)  *)
CmuRead(e, length) ==
  /\ app[e] \in {"run", "woken"}
  /\ ~MustWait(e)
  /\ Read(e, length)
  /\ app' = [app EXCEPT ![e] = "run"]
  /\ UNCHANGED at

CmuClose(e) ==
  /\ alive[e] /\ app[e] = "run"
  /\ app' = [app EXCEPT ![e] = "join"]
  /\ UNCHANGED <<vars, at>>

-----------------------------------------------------------------------------
(* The backend thread.                                                     *)

ReadDying(e) ==
  /\ alive[e] /\ at[e] = "top"
  /\ at' = [at EXCEPT ![e] = IF dying(e) THEN "dead" ELSE "live"]
  /\ UNCHANGED <<vars, app>>

(* Data that was never sent is forgotten.                                  *)
MutDataLeft(e) == get_unacknowledged_count(sb[e])

DataLeft(e) == get_unacknowledged_count(sb[e]) + send_buffer_max_new_dump(sb[e])

(* The flag read before is not looked at.                                  *)
MutLeaveOrStay(e) ==
  /\ alive[e] /\ at[e] \in {"live", "dead"}
  /\ at' = [at EXCEPT ![e] = IF DataLeft(e) = 0 THEN "gone" ELSE "round"]
  /\ UNCHANGED <<vars, app>>

LeaveOrStay(e) ==
  /\ alive[e] /\ at[e] \in {"live", "dead"}
  /\ at' = [at EXCEPT ![e] =
              IF at[e] = "dead" /\ DataLeft(e) = 0 THEN "gone" ELSE "round"]
  /\ UNCHANGED <<vars, app>>

(* pthread_cond_signal: nothing happens if nobody waits.                   *)
Signal(e) == [app EXCEPT ![e] = IF @ = "wait" THEN "woken" ELSE @]

(* The signal given by a test made before the bytes are stored.            *)
MutWakes(e, p) == get_payload_len(p) > 0 /\ recv_buffer_max_read(rb[e]) > 0

(* handle_message signals when it has stored the bytes of a packet, under  *)
(* the same lock.                                                          *)
Wakes(e, p) ==
  get_payload_len(p) > 0 /\ recv_buffer_can_receive(rb[e], p.seq, get_payload_len(p)) = 0

Handle(e, p, again) ==
  /\ at[e] = "round"
  /\ HandleMessage(e, p, again)
  /\ app' = IF Wakes(e, p) THEN Signal(e) ELSE app
  /\ UNCHANGED at

Poll(e)   == at[e] = "round" /\ NoData(e) /\ UNCHANGED <<at, app>>
Answer(e) == at[e] = "round" /\ Reply(e) /\ UNCHANGED <<at, app>>

GoAlert(e) ==
  /\ at[e] = "round"
  /\ at' = [at EXCEPT ![e] = "alert"]
  /\ UNCHANGED app

Resend(e, w)    == GoAlert(e) /\ Timeout(e, w)
SendFresh(e, w) == GoAlert(e) /\ Send(e, w)

(* The end of the loop.  (The signal comes after recv_lock is released; a  *)
(* reader that it reaches late tests again.)                               *)
Alert(e) ==
  /\ alive[e] /\ at[e] = "alert"
  /\ app' = IF recv_buffer_max_read(rb[e]) > 0 THEN Signal(e) ELSE app
  /\ at' = [at EXCEPT ![e] = "top"]
  /\ UNCHANGED vars

BackendLoop(e) ==
  \/ ReadDying(e)
  \/ LeaveOrStay(e)
  \/ Poll(e)
  \/ \E p \in net, again \in Duplication : Handle(e, p, again)
  \/ Answer(e)
  \/ \E w \in AdvertisedWindows(e) : Resend(e, w)
  \/ \E w \in AdvertisedWindows(e) : SendFresh(e, w)
  \/ Alert(e)

LifeNext ==
  \E e \in Endpoint :
    \/ \E n \in 1 .. DEFAULT_BUFF_SIZE : CmuWrite(e, n)
    \/ Wait(e)
    \/ \E length \in 1 .. DEFAULT_BUFF_SIZE : CmuRead(e, length)
    \/ CmuClose(e)
    \/ BackendLoop(e)

(* The fairness of Connection; a reader reads when it can, if it is awake. *)
LifeFairness ==
  \A e \in Endpoint :
    /\ WF_lvars(BackendLoop(e))
    /\ SF_lvars(\E p \in net : Handle(e, p, FALSE))
    /\ SF_lvars(\E w \in AdvertisedWindows(e) :
                  Resend(e, w) /\ resend_unacknowledged(e, w) \subseteq net')
    /\ SF_lvars(Answer(e) /\ PureAck(e) \subseteq net')
    /\ WF_lvars(\E length \in 1 .. DEFAULT_BUFF_SIZE : CmuRead(e, length))

LifeSpec == LifeInit /\ [][LifeNext]_lvars /\ LifeFairness

-----------------------------------------------------------------------------
(* Type invariant of what this module adds: where the threads of a socket  *)
(* can be at the same time.                                                *)
LifeTypeOK ==
  /\ at \in [Endpoint -> {"top", "live", "dead", "round", "alert", "gone"}]
  /\ app \in [Endpoint -> {"run", "wait", "woken", "join"}]
  /\ \A e \in Endpoint : /\ at[e] \in {"dead", "gone"} => dying(e)
                         /\ at[e] # "round" => pc[e] = "check"

(* When cmu_close returns, the peer has every byte that was written, in    *)
(* order: the backend, which reads sock->dying and counts the data left    *)
(* under different locks, never leaves its loop with data on its hands.    *)
CloseFlushes ==
  \A e \in Endpoint : at[e] = "gone" => ReceivedBytes(e) = wrote[e]

(* No wake-up is lost: a reader never sleeps on wait_cond while there is   *)
(* data for it, however its test falls between the steps of the backend.   *)
SleepsForReason ==
  \A e \in Endpoint : app[e] = "wait" => recv_buffer_max_read(rb[e]) = 0

(* cmu_close returns, unless the peer is gone and took with it the         *)
(* acknowledgement of data that is left (there is no FIN and no give-up).  *)
(* A peer that goes after its last acknowledgement got through is no       *)
(* excuse.  (Closing is for good, so not to be closing again and again is  *)
(* never to close.)                                                        *)
CloseReturns ==
  \A e \in Endpoint :
    []<>(~dying(e) \/ at[e] = "gone" \/ (at[peer(e)] = "gone" /\ DataLeft(e) > 0))

(* All that the client's application writes before it closes the socket is *)
(* read by the server's, which may sleep in cmu_read, unless that one      *)
(* closes its socket.  (The streams are finite.)                           *)
EventuallyRead ==
  []<>(ReadBytes("client") = wrote["client"] \/ dying("server"))
=============================================================================
