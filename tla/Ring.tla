-------------------------------- MODULE Ring --------------------------------
(***************************************************************************)
(* What send_buffer.c and recv_buffer.c have in common: a circular array   *)
(* of DEFAULT_BUFF_SIZE bytes, of which at most DEFAULT_BUFF_SIZE - 1 are  *)
(* in use at any time.                                                     *)
(*                                                                         *)
(* A byte is abstracted to its position in the stream it belongs to (1 is  *)
(* the first byte the application writes).  A byte read from memory that   *)
(* holds none of the stream is Junk: an array slot never written, or heap  *)
(* memory beyond the end of the array.                                     *)
(***************************************************************************)
EXTENDS Integers, Sequences

CONSTANTS
  DEFAULT_BUFF_SIZE,  \* the capacity of both buffers (cmu_tcp.c:29)
  Junk                \* a byte that is not part of the stream

ASSUME CapacityAssumption ==
  DEFAULT_BUFF_SIZE \in Nat /\ DEFAULT_BUFF_SIZE >= 2

Index == 0 .. DEFAULT_BUFF_SIZE - 1

Byte == (Nat \ {0}) \cup {Junk}

MIN(x, y) == IF x < y THEN x ELSE y
MAX(x, y) == IF x < y THEN y ELSE x

(* The array after Len(data) bytes were copied in at `start`, the tail of  *)
(* the array first and the rest from slot 0.                               *)
CopyIn(buffer, start, data) ==
  [i \in Index |->
     IF i \in start .. start + Len(data) - 1 THEN data[i - start + 1]
     ELSE IF i + DEFAULT_BUFF_SIZE <= start + Len(data) - 1
          THEN data[i + DEFAULT_BUFF_SIZE - start + 1]
          ELSE buffer[i]]

(* One memcpy of len bytes out of the array at `start`: it does not know   *)
(* where the array ends.                                                   *)
Linear(buffer, start, len) ==
  [k \in 1 .. len |-> IF start + k - 1 \in Index THEN buffer[start + k - 1]
                                                 ELSE Junk]

(* The stream bytes at positions first .. first + len - 1.                 *)
StreamBytes(first, len) == [k \in 1 .. len |-> first + k - 1]
=============================================================================
