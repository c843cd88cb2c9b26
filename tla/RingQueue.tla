----------------------------- MODULE RingQueue -----------------------------
(***************************************************************************)
(* RingQueue<CAPACITY> of src/bgw/ring_queue.rs: the byte ring in shared   *)
(* memory that carries the messages to the launcher.  A message is a       *)
(* header of HEADER_SIZE bytes holding its length in little-endian order,  *)
(* followed by its bytes; header and bytes may each wrap around the end.   *)
(*                                                                         *)
(* Every caller holds the LWLock in exclusive mode around one call, so a   *)
(* call is one step.  A slice outside the buffer makes the code panic; the *)
(* panic leaves the structure as it was, which is the reply Panic here.    *)
(*                                                                         *)
(* Operators Mut<X> are wrong versions of X used to show that a property   *)
(* can fail; no specification of this project uses them.                   *)
(***************************************************************************)
EXTENDS Integers, Sequences

CONSTANTS
  CAPACITY,         (* Bytes of the ring.                                  *)
  HEADER_SIZE,      (* size_of::<usize>().                                 *)
  Byte,             (* The values of a byte.                               *)
  Msg,              (* The messages callers send: sequences of bytes.      *)
  ToLeBytes(_),     (* usize::to_le_bytes.                                 *)
  FromLeBytes(_),   (* usize::from_le_bytes.                               *)
  Ok, Err, None, Panic

ASSUME SizeAssumption ==
  /\ CAPACITY \in Nat /\ HEADER_SIZE \in Nat
  /\ 0 < HEADER_SIZE /\ HEADER_SIZE <= CAPACITY

ASSUME MsgAssumption ==
  /\ 0 \in Byte
  /\ Msg \subseteq Seq(Byte)
  /\ {Ok, Err, None, Panic} \cap Seq(Byte) = {}
  /\ Ok # Err /\ Panic \notin {Ok, Err, None}

ASSUME LeBytesAssumption ==
  /\ \A b \in [1 .. HEADER_SIZE -> Byte] : FromLeBytes(b) \in Nat
  /\ \A m \in Msg :
       /\ ToLeBytes(Len(m)) \in Seq(Byte)
       /\ Len(ToLeBytes(Len(m))) = HEADER_SIZE
       /\ FromLeBytes(ToLeBytes(Len(m))) = Len(m)

VARIABLES
  read, write, is_full, buffer,  (* The fields of the structure.           *)
  reply,                         (* What the last call returned.           *)
  pending    (* History: the messages accepted and not yet returned.       *)

ring == <<read, write, is_full, buffer>>
vars == <<read, write, is_full, buffer, reply, pending>>

Init ==
  /\ read = 0
  /\ write = 0
  /\ is_full = FALSE
  /\ buffer = [i \in 0 .. CAPACITY - 1 |-> 0]
  /\ reply = None
  /\ pending = <<>>

(* Bytes of a message and its header. *)
TotalLen(m) == HEADER_SIZE + Len(m)

(* An index moved forward by n bytes, modulo the size of the ring. *)
MutAdvance(i, n) == i + n
Advance(i, n) == (i + n) % CAPACITY

(* buf[at .. at + src.len()].copy_from_slice(src) *)
Copy(buf, at, src) ==
  [i \in DOMAIN buf |->
     IF at <= i /\ i < at + Len(src) THEN src[i - at + 1] ELSE buf[i]]

MutCopyWrapped(buf, at, src) ==
  LET end_space == CAPACITY - at
  IN  IF end_space >= Len(src)
        THEN Copy(buf, at, src)
        ELSE Copy(buf, at, SubSeq(src, 1, end_space))

(* The same when src may run over the end of the ring and go on at its     *)
(* beginning.                                                              *)
CopyWrapped(buf, at, src) ==
  LET end_space == CAPACITY - at
  IN  IF end_space >= Len(src)
        THEN Copy(buf, at, src)
        ELSE Copy(Copy(buf, at, SubSeq(src, 1, end_space)),
                  0, SubSeq(src, end_space + 1, Len(src)))

(* buf[at .. at + n], a slice that lies inside the buffer. *)
Slice(buf, at, n) == [i \in 1 .. n |-> buf[at + i - 1]]

(* The n bytes from at on, going round the end of the ring. *)
SliceWrapped(buf, at, n) ==
  [i \in 1 .. n |-> IF i <= CAPACITY - at THEN buf[at + i - 1]
                                          ELSE buf[i - (CAPACITY - at) - 1]]

(* Bytes between write and read that a sender may use. *)
Free == IF write >= read THEN CAPACITY - (write - read) ELSE read - write

MutCanSend(m) ==
  /\ Len(m) <= CAPACITY - HEADER_SIZE
  /\ TotalLen(m) <= Free

CanSend(m) ==
  /\ ~ is_full
  /\ Len(m) <= CAPACITY - HEADER_SIZE
  /\ TotalLen(m) <= Free

(* The buffer after a send: header and bytes written with two copies each  *)
(* when the free space wraps, in one contiguous piece when it does not.    *)
Written(m) ==
  LET header_data == ToLeBytes(Len(m))
  IN  IF write >= read
        THEN CopyWrapped(CopyWrapped(buffer, write, header_data),
                         Advance(write, HEADER_SIZE), m)
        ELSE Copy(Copy(buffer, write, header_data), write + HEADER_SIZE, m)

SendAccepted(m) ==
  /\ CanSend(m)
  /\ buffer' = Written(m)
  /\ write' = Advance(write, TotalLen(m))
  /\ is_full' = (write' = read)
  /\ reply' = Ok
  /\ pending' = Append(pending, m)
  /\ UNCHANGED read

SendRefused(m) ==
  /\ ~ CanSend(m)
  /\ reply' = Err
  /\ UNCHANGED <<ring, pending>>

(* try_send *)
TrySend(m) == SendAccepted(m) \/ SendRefused(m)

IsEmpty == read = write /\ ~ is_full

(* The header and the length it holds are read without wrapping in the     *)
(* branch write >= read, with wrapping in the other.                       *)
HeaderLen ==
  IF write >= read
    THEN FromLeBytes(Slice(buffer, read, HEADER_SIZE))
    ELSE FromLeBytes(SliceWrapped(buffer, read, HEADER_SIZE))

(* Slices of the branch write >= read that end outside the buffer. *)
HeaderOutOfRange == write >= read /\ read + HEADER_SIZE > CAPACITY
PayloadOutOfRange ==
  write >= read /\ read + HEADER_SIZE + HeaderLen > CAPACITY

(* The "corrupted data?" test: fewer bytes are in use than the header says. *)
Corrupted ==
  /\ ~ is_full
  /\ IF write >= read THEN write - read < HEADER_SIZE + HeaderLen
                      ELSE CAPACITY - (read - write) < HEADER_SIZE + HeaderLen

RecvNone ==
  /\ \/ IsEmpty
     \/ ~ HeaderOutOfRange /\ Corrupted
  /\ reply' = None
  /\ UNCHANGED <<ring, pending>>

RecvPanic ==
  /\ ~ IsEmpty
  /\ \/ HeaderOutOfRange
     \/ ~ HeaderOutOfRange /\ ~ Corrupted /\ PayloadOutOfRange
  /\ reply' = Panic
  /\ UNCHANGED <<ring, pending>>

(* A message is returned.  The branch write >= read does not reduce the    *)
(* new read index modulo CAPACITY.                                         *)
RecvMessage ==
  /\ ~ IsEmpty /\ ~ HeaderOutOfRange /\ ~ Corrupted /\ ~ PayloadOutOfRange
  /\ IF write >= read
       THEN /\ reply' = Slice(buffer, read + HEADER_SIZE, HeaderLen)
            /\ read' = read + HEADER_SIZE + HeaderLen
       ELSE /\ reply' = SliceWrapped(buffer, Advance(read, HEADER_SIZE), HeaderLen)
            /\ read' = Advance(read, HEADER_SIZE + HeaderLen)
  /\ is_full' = FALSE
  /\ pending' = IF pending = <<>> THEN pending ELSE Tail(pending)
  /\ UNCHANGED <<write, buffer>>

(* try_recv *)
TryRecv == RecvNone \/ RecvPanic \/ RecvMessage

Next == (\E m \in Msg : TrySend(m)) \/ TryRecv

Spec == Init /\ [][Next]_vars

(***************************************************************************)
(* The ring as it is used while no accepted message fills it to the last   *)
(* byte.  The launcher drains the 64 KiB ring every second and a message   *)
(* is some tens of bytes, so this is how the ring normally runs; what      *)
(* happens in the exactly full ring is what the runs RingFull* show.       *)
(***************************************************************************)
LeavesRoom(m) == CanSend(m) => TotalLen(m) < Free

NextNotFull == (\E m \in Msg : LeavesRoom(m) /\ TrySend(m)) \/ TryRecv

SpecNotFull == Init /\ [][NextNotFull]_vars

-----------------------------------------------------------------------------

(* Types of the fields: read is an index of the ring or, after a receive   *)
(* that ended at the last byte of a full ring, CAPACITY itself.            *)
TypeOK ==
  /\ read \in 0 .. CAPACITY
  /\ write \in 0 .. CAPACITY - 1
  /\ is_full \in BOOLEAN
  /\ buffer \in [0 .. CAPACITY - 1 -> Byte]
  /\ reply \in Seq(Byte) \cup {Ok, Err, None, Panic}
  /\ pending \in Seq(Msg)

(* Bytes in use as the indices and the flag give them. *)
Used == IF is_full THEN CAPACITY ELSE CAPACITY - Free

(* The promise of the ring: it is the bounded FIFO queue of FifoQueue.     *)
Fifo == INSTANCE FifoQueue
          WITH queue <- pending, used <- Used, reply <- reply,
               Size <- TotalLen, Limit <- CAPACITY,
               Accepted <- Ok, Refused <- Err
FifoSpec == Fifo!Spec

(* try_recv never slices outside the buffer: what the test that fills the  *)
(* ring exactly and unwraps every receive says of a full ring.             *)
NoPanic == reply # Panic

(* After a panic the ring is wedged: no later call changes it, so every     *)
(* send is refused and every receive panics again, in each process that    *)
(* attaches to the same shared memory.                                     *)
PanicIsPermanent == [][reply = Panic => UNCHANGED ring /\ reply' \in {Err, Panic}]_vars

(* try_recv reports an empty ring only when every message that try_send    *)
(* accepted has been returned.                                             *)
NoneOnlyWhenEmpty == [][RecvNone => pending = <<>>]_vars
=============================================================================
