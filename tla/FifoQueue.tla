----------------------------- MODULE FifoQueue -----------------------------
(***************************************************************************)
(* What the launcher message bus promises to those who use it: a FIFO      *)
(* queue of messages bounded by the bytes they occupy.  A message that     *)
(* fits is always accepted, one that does not fit is always refused, and a *)
(* receive returns the oldest accepted message, or None exactly when the   *)
(* queue is empty.  RingQueue is the implementation.                       *)
(***************************************************************************)
EXTENDS Integers, Sequences

CONSTANTS
  Msg,      (* The messages that may be sent.                              *)
  Size(_),  (* The bytes a message occupies in the queue, its header incl. *)
  Limit,    (* The bytes the queue can hold.                               *)
  Accepted, Refused, None  (* Replies other than a received message.       *)

VARIABLES
  queue,    (* The accepted messages not received yet, oldest first.       *)
  used,     (* The bytes they occupy.                                      *)
  reply     (* What the last call returned.                                *)

vars == <<queue, used, reply>>

Init ==
  /\ queue = <<>>
  /\ used = 0
  /\ reply = None

Send(m) ==
  \/ /\ used + Size(m) <= Limit
     /\ queue' = Append(queue, m)
     /\ used' = used + Size(m)
     /\ reply' = Accepted
  \/ /\ used + Size(m) > Limit
     /\ reply' = Refused
     /\ UNCHANGED <<queue, used>>

Recv ==
  \/ /\ queue # <<>>
     /\ reply' = Head(queue)
     /\ queue' = Tail(queue)
     /\ used' = used - Size(Head(queue))
  \/ /\ queue = <<>>
     /\ reply' = None
     /\ UNCHANGED <<queue, used>>

Next == (\E m \in Msg : Send(m)) \/ Recv

Spec == Init /\ [][Next]_vars
=============================================================================
