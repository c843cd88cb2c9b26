---------------------------- MODULE MCRingQueue ----------------------------
(***************************************************************************)
(* Small instances of RingQueue: a header of two bytes and messages whose  *)
(* sizes make headers and payloads wrap at every position of the ring.     *)
(***************************************************************************)
EXTENDS RingQueue, TLC

MCByte == 0 .. 255

(* Little-endian numbers of two bytes. *)
MCToLeBytes(n) == <<n % 256, n \div 256>>
MCFromLeBytes(b) == b[1] + 256 * b[2]

(* Two messages of one size show a reordering, an empty one is a header    *)
(* only, and the long one wraps nearly wherever it starts.                 *)
MCMsg == {<<>>, <<101>>, <<102>>, <<201, 202, 203>>}

(* Messages for the runs that fill the ring: one that fills an empty ring  *)
(* of 8 bytes to the last byte and a short one that moves the indices.     *)
MCMsgFull == {<<101>>, <<102, 103>>, <<201, 202, 203, 204, 205, 206>>}

(* Bound of the history of a ring that loses accepted messages.            *)
CONSTANT MaxPending

NextBounded ==
  (\E m \in Msg : Len(pending) < MaxPending /\ TrySend(m)) \/ TryRecv

SpecBounded == Init /\ [][NextBounded]_vars
=============================================================================
