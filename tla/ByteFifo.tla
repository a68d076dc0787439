------------------------------ MODULE ByteFifo ------------------------------
(***************************************************************************)
(* What the PCM ring buffer promises its two users, free of pointers: a    *)
(* bounded, lossless, order-preserving pipe of bytes.                      *)
(*                                                                         *)
(* A byte is named by its position in the accepted stream, so the state is *)
(* the number of bytes accepted from the audio device and the record of    *)
(* the bytes handed to the codec.  A byte that is lost, duplicated, read   *)
(* before it was written or read after it was overwritten would make some  *)
(* pair <<i, b>> of out have b # i, or leave a place without a pair.       *)
(***************************************************************************)
EXTENDS Integers

CONSTANT Capacity        \* bytes the pipe can hold

VARIABLES
  accepted,              \* bytes taken from the audio device so far
  taken,                 \* bytes handed to the codec so far
  out                    \* what was handed over: pairs <<place, byte>>

fifoVars == <<accepted, taken, out>>

FifoInit ==
  /\ accepted = 0
  /\ taken = 0
  /\ out = {}

\* The device hands over n bytes; the pipe must have room for them.
Put ==
  /\ \E n \in 1 .. Capacity - (accepted - taken) : accepted' = accepted + n
  /\ UNCHANGED <<taken, out>>

\* The codec gets the n oldest bytes, in order.
Get ==
  /\ \E n \in 1 .. accepted - taken :
       /\ taken' = taken + n
       /\ out' = out \cup {<<i, i>> : i \in taken .. taken + n - 1}
  /\ UNCHANGED accepted

FifoNext == Put \/ Get

FifoSpec == FifoInit /\ [][FifoNext]_fifoVars

=============================================================================
