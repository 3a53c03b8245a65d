------------------------------ MODULE SeqWords ------------------------------
(***************************************************************************)
(* Sequence numbers as the code has them, in a uint32_t: the decision of   *)
(* recv_buffer_can_receive, which compares them with < and <= (and not     *)
(* with the before and after of cmu_packet.h), next to the one that        *)
(* RecvBuffer makes with natural numbers.                                  *)
(***************************************************************************)
EXTENDS RecvStream

CONSTANT Modulus   \* 2^32

(* rand() gives an initial number below 2^31: this leaves 2^31 bytes.      *)
ASSUME ModulusAssumption ==
  Modulus \in Nat /\ DEFAULT_BUFF_SIZE < Modulus /\ ISN + MaxStream + 1 < Modulus

word(n) == n % Modulus

(* The buffer of the code: a sequence number in a word.                    *)
InWords(buf) == [buf EXCEPT !.last_byte_read_seqnum = word(@)]

(* The bytes already read are forgotten.                                   *)
MutWordCanReceive(buf, seqnum, len) ==
  LET last_seq == word(seqnum + len - 1) IN
  IF last_seq < word(get_next_byte_expected_seqnum(buf)) THEN 3
  ELSE IF word(last_seq + Modulus - buf.last_byte_read_seqnum)
            >= DEFAULT_BUFF_SIZE THEN 1
  ELSE 0

word_can_receive(buf, seqnum, len) ==
  LET last_seq == word(seqnum + len - 1) IN
  IF seqnum <= buf.last_byte_read_seqnum THEN 2
  ELSE IF last_seq < word(get_next_byte_expected_seqnum(buf)) THEN 3
  ELSE IF word(last_seq + Modulus - buf.last_byte_read_seqnum)
            >= DEFAULT_BUFF_SIZE THEN 1
  ELSE 0

(* As long as the stream ends before the numbers run out, comparing words  *)
(* is comparing numbers, for every packet the peer can have in flight: the *)
(* buffer of the code refuses and accepts what RecvBuffer does.            *)
WordsAgree ==
  \A first, n \in 1 .. MaxStream : first + n - 1 <= MaxStream =>
    word_can_receive(InWords(rb), word(ISN + first), n)
      = recv_buffer_can_receive(rb, ISN + first, n)
=============================================================================
