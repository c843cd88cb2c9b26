-------------------------- MODULE RingQueueProofs --------------------------
(***************************************************************************)
(* Proofs about RingQueue for every capacity, header size and set of       *)
(* messages.                                                               *)
(***************************************************************************)
EXTENDS RingQueue, SequenceTheorems, TLAPS

Buffers == [0 .. CAPACITY - 1 -> Byte]

(* An index moved forward is an index of the ring.                         *)
LEMMA AdvanceInRing ==
  ASSUME NEW i \in Nat, NEW n \in Nat
  PROVE  Advance(i, n) \in 0 .. CAPACITY - 1
BY SizeAssumption DEF SizeAssumption, Advance

(* Copying bytes into a buffer leaves a buffer of bytes.                   *)
LEMMA CopyType ==
  ASSUME NEW buf \in Buffers, NEW at \in Nat, NEW src \in Seq(Byte)
  PROVE  Copy(buf, at, src) \in Buffers
<1> SUFFICES ASSUME NEW i \in 0 .. CAPACITY - 1, at <= i, i < at + Len(src)
             PROVE  src[i - at + 1] \in Byte
  BY SizeAssumption DEF SizeAssumption, Copy, Buffers
<1>1. i - at + 1 \in 1 .. Len(src)
  BY SizeAssumption DEF SizeAssumption
<1> QED
  BY <1>1, ElementOfSeq

LEMMA CopyWrappedType ==
  ASSUME NEW buf \in Buffers, NEW at \in 0 .. CAPACITY - 1, NEW src \in Seq(Byte)
  PROVE  CopyWrapped(buf, at, src) \in Buffers
<1>1. CASE CAPACITY - at >= Len(src)
  BY <1>1, CopyType DEF CopyWrapped
<1>2. CASE ~ (CAPACITY - at >= Len(src))
  <2> DEFINE e == CAPACITY - at
  <2>1. e \in 1 .. Len(src)
    BY <1>2, SizeAssumption DEF SizeAssumption
  <2>2. SubSeq(src, 1, e) \in Seq(Byte) /\ SubSeq(src, e + 1, Len(src)) \in Seq(Byte)
    <3>1. /\ \A i \in 1 .. e : src[i] \in Byte
          /\ \A i \in e + 1 .. Len(src) : src[i] \in Byte
          /\ e \in Int /\ e + 1 \in Int /\ Len(src) \in Int
      BY <2>1, ElementOfSeq
    <3> HIDE DEF e
    <3> QED
      BY <3>1, SubSeqProperties
  <2>3. Copy(Copy(buf, at, SubSeq(src, 1, e)), 0, SubSeq(src, e + 1, Len(src))) \in Buffers
    <3>1. at \in Nat /\ 0 \in Nat
      BY SizeAssumption DEF SizeAssumption
    <3>2. Copy(buf, at, SubSeq(src, 1, e)) \in Buffers
      BY <2>2, <3>1, CopyType
    <3> QED
      BY <2>2, <3>1, <3>2, CopyType
  <2> QED
    BY <1>2, <2>3 DEF CopyWrapped
<1> QED
  BY <1>1, <1>2

(* A slice is a sequence of bytes, of the length asked for.                *)
LEMMA SliceType ==
  ASSUME NEW buf \in Buffers, NEW at \in Nat, NEW n \in Nat, at + n <= CAPACITY
  PROVE  Slice(buf, at, n) \in [1 .. n -> Byte] /\ Slice(buf, at, n) \in Seq(Byte)
<1>1. \A i \in 1 .. n : at + i - 1 \in 0 .. CAPACITY - 1
  BY SizeAssumption DEF SizeAssumption
<1>2. Slice(buf, at, n) \in [1 .. n -> Byte]
  BY <1>1 DEF Slice, Buffers
<1> QED
  BY <1>2, SeqDef

LEMMA SliceWrappedType ==
  ASSUME NEW buf \in Buffers, NEW at \in 0 .. CAPACITY, NEW n \in 0 .. CAPACITY
  PROVE  SliceWrapped(buf, at, n) \in [1 .. n -> Byte] /\ SliceWrapped(buf, at, n) \in Seq(Byte)
<1>1. \A i \in 1 .. n :
        /\ i <= CAPACITY - at => at + i - 1 \in 0 .. CAPACITY - 1
        /\ ~ (i <= CAPACITY - at) => i - (CAPACITY - at) - 1 \in 0 .. CAPACITY - 1
  BY SizeAssumption DEF SizeAssumption
<1>2. SliceWrapped(buf, at, n) \in [1 .. n -> Byte]
  BY <1>1 DEF SliceWrapped, Buffers
<1> QED
  BY <1>2, SeqDef

(* The length a receive reads is a number, and the bytes it takes for the  *)
(* message lie inside the ring.                                            *)
LEMMA HeaderLenType ==
  ASSUME TypeOK, ~ HeaderOutOfRange
  PROVE  HeaderLen \in Nat
<1>1. CASE write >= read
  <2>1. Slice(buffer, read, HEADER_SIZE) \in [1 .. HEADER_SIZE -> Byte]
    <3>1. /\ read \in Nat /\ HEADER_SIZE \in Nat /\ buffer \in Buffers
          /\ read + HEADER_SIZE <= CAPACITY
      BY <1>1, SizeAssumption DEF SizeAssumption, TypeOK, HeaderOutOfRange, Buffers
    <3> QED
      BY <3>1, SliceType
  <2> QED
    BY <1>1, <2>1, LeBytesAssumption DEF LeBytesAssumption, HeaderLen
<1>2. CASE ~ (write >= read)
  <2>1. SliceWrapped(buffer, read, HEADER_SIZE) \in [1 .. HEADER_SIZE -> Byte]
    BY SliceWrappedType, SizeAssumption DEF SizeAssumption, TypeOK, Buffers
  <2> QED
    BY <1>2, <2>1, LeBytesAssumption DEF LeBytesAssumption, HeaderLen
<1> QED
  BY <1>1, <1>2

(* An accepted send writes inside the ring. *)
LEMMA SendType ==
  ASSUME TypeOK, NEW m \in Msg, SendAccepted(m)
  PROVE  TypeOK'
<1> DEFINE h == ToLeBytes(Len(m))
<1>1. m \in Seq(Byte) /\ h \in Seq(Byte) /\ Len(m) \in Nat /\ TotalLen(m) \in Nat
  BY MsgAssumption, LeBytesAssumption, SizeAssumption
  DEF MsgAssumption, LeBytesAssumption, SizeAssumption, TotalLen
<1> HIDE DEF h
<1>2. buffer' \in Buffers
  <2>1. CASE write >= read
    <3>1. write \in 0 .. CAPACITY - 1 /\ Advance(write, HEADER_SIZE) \in 0 .. CAPACITY - 1
      <4>1. write \in 0 .. CAPACITY - 1 /\ write \in Nat /\ HEADER_SIZE \in Nat
        BY SizeAssumption DEF SizeAssumption, TypeOK
      <4> QED
        BY <4>1, AdvanceInRing
    <3>2. CopyWrapped(buffer, write, h) \in Buffers
      BY <1>1, <3>1, CopyWrappedType DEF TypeOK, Buffers
    <3>3. CopyWrapped(CopyWrapped(buffer, write, h), Advance(write, HEADER_SIZE), m) \in Buffers
      BY <1>1, <3>1, <3>2, CopyWrappedType
    <3> QED
      BY <2>1, <3>3 DEF SendAccepted, Written, h
  <2>2. CASE ~ (write >= read)
    <3>1. write \in Nat /\ write + HEADER_SIZE \in Nat
      BY SizeAssumption DEF SizeAssumption, TypeOK
    <3>2. Copy(buffer, write, h) \in Buffers
      BY <1>1, <3>1, CopyType DEF TypeOK, Buffers
    <3>3. Copy(Copy(buffer, write, h), write + HEADER_SIZE, m) \in Buffers
      BY <1>1, <3>1, <3>2, CopyType
    <3> QED
      BY <2>2, <3>3 DEF SendAccepted, Written, h
  <2> QED
    BY <2>1, <2>2
<1>3. write' \in 0 .. CAPACITY - 1
  BY <1>1, AdvanceInRing DEF SendAccepted, TypeOK
<1> QED
  BY <1>2, <1>3 DEF SendAccepted, TypeOK, Buffers

(* The flag is set only when the indices meet. *)
FullInv == is_full => read = write

(* A receive leaves read inside the ring or, at most, at its end. *)
LEMMA RecvType ==
  ASSUME TypeOK, FullInv, RecvMessage
  PROVE  TypeOK'
<1>1. HeaderLen \in Nat /\ read \in 0 .. CAPACITY /\ buffer \in Buffers
  BY HeaderLenType DEF RecvMessage, TypeOK, Buffers
<1>2. read' \in 0 .. CAPACITY /\ reply' \in Seq(Byte)
  <2>1. CASE write >= read
    <3>1. read + HEADER_SIZE \in Nat /\ read + HEADER_SIZE + HeaderLen <= CAPACITY
      BY <1>1, <2>1, SizeAssumption DEF SizeAssumption, RecvMessage, PayloadOutOfRange
    <3> QED
      BY <1>1, <2>1, <3>1, SliceType, SizeAssumption DEF SizeAssumption, RecvMessage
  <2>2. CASE ~ (write >= read)
    <3>1. Advance(read, HEADER_SIZE) \in 0 .. CAPACITY
          /\ Advance(read, HEADER_SIZE + HeaderLen) \in 0 .. CAPACITY
      <4>1. read \in Nat /\ HEADER_SIZE \in Nat /\ HEADER_SIZE + HeaderLen \in Nat
        BY <1>1, SizeAssumption DEF SizeAssumption
      <4>2. /\ Advance(read, HEADER_SIZE) \in 0 .. CAPACITY - 1
            /\ Advance(read, HEADER_SIZE + HeaderLen) \in 0 .. CAPACITY - 1
        BY <4>1, AdvanceInRing
      <4> QED
        BY <4>2, SizeAssumption DEF SizeAssumption
    <3>2. HeaderLen \in 0 .. CAPACITY
      BY <1>1, <2>2, SizeAssumption DEF SizeAssumption, RecvMessage, Corrupted, TypeOK, FullInv
    <3> QED
      BY <1>1, <2>2, <3>1, <3>2, SliceWrappedType DEF RecvMessage
  <2> QED
    BY <2>1, <2>2
<1>3. pending' \in Seq(Msg)
  <2>1. pending # <<>> => Tail(pending) \in Seq(Msg)
    BY HeadTailProperties DEF TypeOK
  <2> QED
    BY <2>1 DEF RecvMessage, TypeOK
<1> QED
  BY <1>2, <1>3 DEF RecvMessage, TypeOK

LEMMA IndicesAndFlag == Spec => [](TypeOK /\ FullInv)
<1>1. Init => TypeOK /\ FullInv
  <2> SUFFICES ASSUME Init PROVE TypeOK /\ FullInv
    OBVIOUS
  <2>1. read \in 0 .. CAPACITY /\ write \in 0 .. CAPACITY - 1
    BY SizeAssumption DEF SizeAssumption, Init
  <2>2. buffer \in [0 .. CAPACITY - 1 -> Byte]
    BY MsgAssumption DEF MsgAssumption, Init
  <2>3. pending \in Seq(Msg)
    BY DEF Init
  <2> QED
    BY <2>1, <2>2, <2>3 DEF Init, TypeOK, FullInv
<1>2. TypeOK /\ FullInv /\ [Next]_vars => TypeOK' /\ FullInv'
  <2> SUFFICES ASSUME TypeOK, FullInv, [Next]_vars PROVE TypeOK' /\ FullInv'
    OBVIOUS
  <2>1. ASSUME NEW m \in Msg, SendAccepted(m) PROVE TypeOK' /\ FullInv'
    BY <2>1, SendType DEF SendAccepted, FullInv
  <2>2. ASSUME NEW m \in Msg, SendRefused(m) PROVE TypeOK' /\ FullInv'
    BY <2>2 DEF SendRefused, TypeOK, FullInv, ring
  <2>3. CASE RecvNone \/ RecvPanic
    BY <2>3 DEF RecvNone, RecvPanic, TypeOK, FullInv, ring
  <2>4. CASE RecvMessage
    BY <2>4, RecvType DEF RecvMessage, FullInv
  <2>5. CASE UNCHANGED vars
    BY <2>5 DEF vars, TypeOK, FullInv
  <2> QED
    BY <2>1, <2>2, <2>3, <2>4, <2>5 DEF Next, TrySend, TryRecv
<1> QED
  BY <1>1, <1>2, PTL DEF Spec

(* The indices, the bytes and the replies of the ring stay in range,       *)
(* whatever its capacity and the messages and even after an exactly full   *)
(* ring has gone wrong: no call writes outside the buffer, and read passes *)
(* its end at most by standing on CAPACITY.                                *)
THEOREM IndicesInRing == Spec => []TypeOK
BY IndicesAndFlag, PTL

-----------------------------------------------------------------------------
(***************************************************************************)
(* What the ring holds.  Positions run from read to read + Used without    *)
(* going round; Wrap gives the index of a position in the buffer.          *)
(***************************************************************************)

Wrap(x) == IF x < CAPACITY THEN x ELSE x - CAPACITY

(* The header of m and its bytes lie in a buffer from a position on.       *)
Stored(buf, at, m) ==
  /\ \A k \in 1 .. HEADER_SIZE : buf[Wrap(at + k - 1)] = ToLeBytes(Len(m))[k]
  /\ \A k \in 1 .. Len(m) : buf[Wrap(at + HEADER_SIZE + k - 1)] = m[k]

(* The bytes in use are the messages of q, one after the other, the i-th   *)
(* from position off[i] on.                                                *)
Holds(q, off) ==
  /\ off \in [1 .. Len(q) + 1 -> Nat]
  /\ off[1] = read /\ off[Len(q) + 1] = read + Used
  /\ \A i \in 1 .. Len(q) : off[i + 1] = off[i] + TotalLen(q[i]) /\ Stored(buffer, off[i], q[i])
  /\ \A i, j \in 1 .. Len(q) + 1 : i < j => off[i] + HEADER_SIZE <= off[j]

LEMMA MessageLen ==
  ASSUME NEW m \in Msg
  PROVE  /\ m \in Seq(Byte) /\ Len(m) \in Nat
         /\ TotalLen(m) \in Nat /\ TotalLen(m) = HEADER_SIZE + Len(m)
         /\ ToLeBytes(Len(m)) \in Seq(Byte) /\ Len(ToLeBytes(Len(m))) = HEADER_SIZE
BY MsgAssumption, LeBytesAssumption, SizeAssumption
DEF MsgAssumption, LeBytesAssumption, SizeAssumption, TotalLen

LEMMA CopyBytes ==
  ASSUME NEW buf \in Buffers, NEW at \in Nat, NEW src, NEW j \in 0 .. CAPACITY - 1
  PROVE  Copy(buf, at, src)[j] =
           IF at <= j /\ j < at + Len(src) THEN src[j - at + 1] ELSE buf[j]
BY DEF Copy, Buffers

(* The two copies write the bytes of src from a position on, and no other. *)
LEMMA CopyWrappedBytes ==
  ASSUME NEW buf \in Buffers, NEW at \in 0 .. CAPACITY - 1, NEW src \in Seq(Byte),
         Len(src) <= CAPACITY
  PROVE  /\ \A k \in 1 .. Len(src) : CopyWrapped(buf, at, src)[Wrap(at + k - 1)] = src[k]
         /\ \A j \in 0 .. CAPACITY - 1 :
              (\A k \in 1 .. Len(src) : j # Wrap(at + k - 1)) =>
                CopyWrapped(buf, at, src)[j] = buf[j]
<1>0. CAPACITY \in Nat /\ at \in Nat /\ Len(src) \in Nat
  BY SizeAssumption DEF SizeAssumption
<1>1. CASE CAPACITY - at >= Len(src)
  <2>1. \A j \in 0 .. CAPACITY - 1 :
          CopyWrapped(buf, at, src)[j] =
            IF at <= j /\ j < at + Len(src) THEN src[j - at + 1] ELSE buf[j]
    BY <1>0, <1>1, CopyBytes DEF CopyWrapped
  <2>2. ASSUME NEW k \in 1 .. Len(src)
        PROVE  CopyWrapped(buf, at, src)[Wrap(at + k - 1)] = src[k]
    <3>1. /\ at + k - 1 \in 0 .. CAPACITY - 1 /\ Wrap(at + k - 1) = at + k - 1
          /\ at <= at + k - 1 /\ at + k - 1 < at + Len(src) /\ (at + k - 1) - at + 1 = k
      BY <1>0, <1>1 DEF Wrap
    <3> QED
      BY <2>1, <3>1
  <2>3. ASSUME NEW j \in 0 .. CAPACITY - 1, \A k \in 1 .. Len(src) : j # Wrap(at + k - 1)
        PROVE  CopyWrapped(buf, at, src)[j] = buf[j]
    <3>1. ASSUME at <= j /\ j < at + Len(src) PROVE FALSE
      <4>1. j - at + 1 \in 1 .. Len(src) /\ Wrap(at + (j - at + 1) - 1) = j
        BY <1>0, <3>1 DEF Wrap
      <4> QED
        BY <2>3, <4>1
    <3> QED
      BY <2>1, <3>1
  <2> QED
    BY <2>2, <2>3
<1>2. CASE ~ (CAPACITY - at >= Len(src))
  <2> DEFINE e == CAPACITY - at
             A == SubSeq(src, 1, e)
             B == SubSeq(src, e + 1, Len(src))
             inner == Copy(buf, at, A)
  <2>1. e \in 1 .. Len(src) - 1 /\ Len(src) - e <= at
    BY <1>0, <1>2
  <2>2. CopyWrapped(buf, at, src) = Copy(inner, 0, B)
    BY <1>2 DEF CopyWrapped
  <2> HIDE DEF e
  <2>3. /\ A \in Seq(Byte) /\ B \in Seq(Byte)
        /\ Len(A) = e /\ \A i \in 1 .. e : A[i] = src[i]
        /\ Len(B) = Len(src) - e /\ \A i \in 1 .. Len(src) - e : B[i] = src[e + i]
    <3>1. /\ \A i \in 1 .. e : src[i] \in Byte
          /\ \A i \in e + 1 .. Len(src) : src[i] \in Byte
          /\ e \in Int /\ e + 1 \in Int /\ Len(src) \in Int
          /\ 1 <= e + 1 /\ e + 1 <= Len(src) + 1
      BY <1>0, <2>1, ElementOfSeq
    <3>2. /\ A \in Seq(Byte) /\ Len(A) = e /\ \A i \in 1 .. e : A[i] = src[1 + i - 1]
      BY <2>1, <3>1, SubSeqProperties
    <3>3. /\ B \in Seq(Byte) /\ Len(B) = Len(src) - (e + 1) + 1
          /\ \A i \in 1 .. Len(src) - (e + 1) + 1 : B[i] = src[(e + 1) + i - 1]
      BY <2>1, <3>1, SubSeqProperties
    <3>4. /\ Len(src) - (e + 1) + 1 = Len(src) - e
          /\ \A i \in 1 .. e : 1 + i - 1 = i
          /\ \A i \in 1 .. Len(src) - e : (e + 1) + i - 1 = e + i
      BY <1>0, <2>1
    <3> QED
      BY <3>2, <3>3, <3>4
  <2>4. inner \in Buffers
    BY <1>0, <2>3, CopyType
  <2> HIDE DEF A, B
  <2>5. \A j \in 0 .. CAPACITY - 1 :
          inner[j] = IF at <= j /\ j < at + Len(A) THEN A[j - at + 1] ELSE buf[j]
    BY <1>0, CopyBytes
  <2> HIDE DEF inner
  <2>6. \A j \in 0 .. CAPACITY - 1 :
          Copy(inner, 0, B)[j] = IF 0 <= j /\ j < 0 + Len(B) THEN B[j - 0 + 1] ELSE inner[j]
    BY <1>0, <2>4, CopyBytes
  <2>7. ASSUME NEW j \in 0 .. CAPACITY - 1
        PROVE  /\ j < Len(src) - e => CopyWrapped(buf, at, src)[j] = src[e + j + 1]
               /\ at <= j => CopyWrapped(buf, at, src)[j] = src[j - at + 1]
               /\ Len(src) - e <= j /\ j < at => CopyWrapped(buf, at, src)[j] = buf[j]
    <3>1. ASSUME j < Len(src) - e PROVE CopyWrapped(buf, at, src)[j] = src[e + j + 1]
      <4>1. j - 0 + 1 \in 1 .. Len(src) - e /\ e + (j - 0 + 1) = e + j + 1 /\ ~ (at <= j)
        BY <1>0, <2>1, <3>1
      <4>2. Copy(inner, 0, B)[j] = B[j - 0 + 1]
        BY <1>0, <2>1, <2>3, <2>6, <3>1
      <4>3. B[j - 0 + 1] = src[e + j + 1]
        BY <2>3, <4>1
      <4> QED
        BY <2>2, <3>1, <4>1, <4>2, <4>3
    <3>2. ASSUME at <= j PROVE CopyWrapped(buf, at, src)[j] = src[j - at + 1]
      <4>1. ~ (j < Len(src) - e) /\ j < at + e /\ j - at + 1 \in 1 .. e
        BY <1>0, <2>1, <3>2 DEF e
      <4>2. CopyWrapped(buf, at, src)[j] = inner[j]
        BY <2>2, <2>3, <2>6, <4>1
      <4>3. inner[j] = A[j - at + 1]
        BY <2>3, <2>5, <3>2, <4>1
      <4> QED
        BY <2>3, <3>2, <4>1, <4>2, <4>3
    <3>3. ASSUME Len(src) - e <= j, j < at PROVE CopyWrapped(buf, at, src)[j] = buf[j]
      <4>1. CopyWrapped(buf, at, src)[j] = inner[j]
        BY <1>0, <2>1, <2>2, <2>3, <2>6, <3>3
      <4>2. inner[j] = buf[j]
        BY <1>0, <2>5, <3>3
      <4> QED
        BY <1>0, <2>1, <3>3, <4>1, <4>2
    <3> QED
      BY <3>1, <3>2, <3>3
  <2>8. ASSUME NEW k \in 1 .. Len(src)
        PROVE  CopyWrapped(buf, at, src)[Wrap(at + k - 1)] = src[k]
    <3>1. CASE k <= e
      <4>1. /\ at + k - 1 \in 0 .. CAPACITY - 1 /\ Wrap(at + k - 1) = at + k - 1
            /\ at <= at + k - 1 /\ (at + k - 1) - at + 1 = k
        BY <1>0, <2>1, <3>1 DEF Wrap, e
      <4> QED
        BY <2>7, <4>1
    <3>2. CASE ~ (k <= e)
      <4>1. /\ k - e - 1 \in 0 .. CAPACITY - 1 /\ Wrap(at + k - 1) = k - e - 1
            /\ k - e - 1 < Len(src) - e /\ e + (k - e - 1) + 1 = k
        BY <1>0, <2>1, <3>2 DEF Wrap, e
      <4> QED
        BY <2>7, <4>1
    <3> QED
      BY <3>1, <3>2
  <2>9. ASSUME NEW j \in 0 .. CAPACITY - 1, \A k \in 1 .. Len(src) : j # Wrap(at + k - 1)
        PROVE  CopyWrapped(buf, at, src)[j] = buf[j]
    <3>1. ASSUME at <= j PROVE FALSE
      <4>1. j - at + 1 \in 1 .. Len(src) /\ Wrap(at + (j - at + 1) - 1) = j
        BY <1>0, <2>1, <3>1 DEF Wrap, e
      <4> QED
        BY <2>9, <4>1
    <3>2. ASSUME j < Len(src) - e PROVE FALSE
      <4>1. e + j + 1 \in 1 .. Len(src) /\ Wrap(at + (e + j + 1) - 1) = j
        BY <1>0, <2>1, <3>2 DEF Wrap, e
      <4> QED
        BY <2>9, <4>1
    <3> QED
      BY <1>0, <2>1, <2>7, <3>1, <3>2
  <2> QED
    BY <2>8, <2>9
<1> QED
  BY <1>1, <1>2

(* Positions less than a ring apart have different indices, and moving an  *)
(* index forward is moving a position.                                     *)
LEMMA WrapIndex ==
  /\ \A x \in Nat : x < 2 * CAPACITY => Wrap(x) \in 0 .. CAPACITY - 1
  /\ \A x, y \in Nat : x < y /\ y < x + CAPACITY /\ y < 2 * CAPACITY => Wrap(x) # Wrap(y)
BY SizeAssumption DEF SizeAssumption, Wrap

LEMMA AdvanceWraps ==
  ASSUME NEW i \in Nat, NEW n \in Nat, i + n < 2 * CAPACITY
  PROVE  Advance(i, n) = Wrap(i + n)
<1>1. CASE i + n < CAPACITY
  BY <1>1, SizeAssumption DEF SizeAssumption, Advance, Wrap
<1>2. CASE ~ (i + n < CAPACITY)
  <2>1. (i + n) % CAPACITY = (i + n) - CAPACITY
    BY <1>2, SizeAssumption DEF SizeAssumption
  <2> QED
    BY <1>2, <2>1 DEF Advance, Wrap
<1> QED
  BY <1>1, <1>2

(* A send writes the message from write on and nothing else.               *)
LEMMA WrittenBytes ==
  ASSUME TypeOK, NEW m \in Msg, CanSend(m)
  PROVE  /\ Stored(Written(m), write, m)
         /\ \A j \in 0 .. CAPACITY - 1 :
              (\A k \in 1 .. TotalLen(m) : j # Wrap(write + k - 1)) => Written(m)[j] = buffer[j]
<1> DEFINE h == ToLeBytes(Len(m))
<1>1. /\ m \in Seq(Byte) /\ h \in Seq(Byte) /\ Len(m) \in Nat /\ Len(h) = HEADER_SIZE
      /\ TotalLen(m) = HEADER_SIZE + Len(m)
  BY MessageLen
<1>2. /\ CAPACITY \in Nat /\ HEADER_SIZE \in Nat /\ 0 < HEADER_SIZE /\ HEADER_SIZE <= CAPACITY
      /\ write \in 0 .. CAPACITY - 1 /\ read \in 0 .. CAPACITY /\ buffer \in Buffers
  BY SizeAssumption DEF SizeAssumption, TypeOK, Buffers
<1>3. HEADER_SIZE + Len(m) <= CAPACITY /\ (write < read => write + HEADER_SIZE + Len(m) <= read)
  BY <1>1, <1>2 DEF CanSend, Free
<1>4. ASSUME NEW k \in 1 .. HEADER_SIZE
      PROVE  /\ write + k - 1 \in Nat /\ Wrap(write + k - 1) \in 0 .. CAPACITY - 1
             /\ \A i \in 1 .. Len(m) :
                  Wrap(write + k - 1) # Wrap(write + HEADER_SIZE + i - 1)
  <2>1. write + k - 1 \in Nat /\ write + k - 1 < 2 * CAPACITY
    BY <1>2
  <2>2. ASSUME NEW i \in 1 .. Len(m)
        PROVE  /\ write + HEADER_SIZE + i - 1 \in Nat
               /\ write + k - 1 < write + HEADER_SIZE + i - 1
               /\ write + HEADER_SIZE + i - 1 < (write + k - 1) + CAPACITY
               /\ write + HEADER_SIZE + i - 1 < 2 * CAPACITY
    BY <1>1, <1>2, <1>3
  <2> QED
    BY <2>1, <2>2, WrapIndex
<1> HIDE DEF h
<1>5. CASE write >= read
  <2> DEFINE at == Advance(write, HEADER_SIZE)
             inner == CopyWrapped(buffer, write, h)
  <2>1. at = Wrap(write + HEADER_SIZE) /\ at \in 0 .. CAPACITY - 1
    BY <1>2, AdvanceWraps, WrapIndex
  <2>2. Written(m) = CopyWrapped(inner, at, m)
    BY <1>5 DEF Written, h
  <2>3. inner \in Buffers
    BY <1>1, <1>2, CopyWrappedType
  <2>4. /\ \A k \in 1 .. HEADER_SIZE : inner[Wrap(write + k - 1)] = h[k]
        /\ \A j \in 0 .. CAPACITY - 1 :
             (\A k \in 1 .. HEADER_SIZE : j # Wrap(write + k - 1)) => inner[j] = buffer[j]
    BY <1>1, <1>2, CopyWrappedBytes
  <2> HIDE DEF at, inner
  <2>5. /\ \A k \in 1 .. Len(m) : CopyWrapped(inner, at, m)[Wrap(at + k - 1)] = m[k]
        /\ \A j \in 0 .. CAPACITY - 1 :
             (\A k \in 1 .. Len(m) : j # Wrap(at + k - 1)) =>
               CopyWrapped(inner, at, m)[j] = inner[j]
    <3>1. m \in Seq(Byte) /\ Len(m) <= CAPACITY /\ at \in 0 .. CAPACITY - 1
      BY <1>1, <1>2, <1>3, <2>1
    <3> QED
      BY <2>3, <3>1, CopyWrappedBytes
  <2>6. \A k \in 1 .. Len(m) : Wrap(at + k - 1) = Wrap(write + HEADER_SIZE + k - 1)
    BY <1>1, <1>2, <1>3, <2>1 DEF Wrap
  <2>7. \A k \in 1 .. HEADER_SIZE : Written(m)[Wrap(write + k - 1)] = h[k]
    BY <1>4, <2>2, <2>4, <2>5, <2>6
  <2>8. \A k \in 1 .. Len(m) : Written(m)[Wrap(write + HEADER_SIZE + k - 1)] = m[k]
    BY <2>2, <2>5, <2>6
  <2>9. ASSUME NEW j \in 0 .. CAPACITY - 1, \A k \in 1 .. TotalLen(m) : j # Wrap(write + k - 1)
        PROVE  Written(m)[j] = buffer[j]
    <3>1. \A k \in 1 .. HEADER_SIZE : j # Wrap(write + k - 1)
      <4>1. \A k \in 1 .. HEADER_SIZE : k \in 1 .. TotalLen(m)
        BY <1>1, <1>2
      <4> QED
        BY <2>9, <4>1
    <3>2. \A k \in 1 .. Len(m) : j # Wrap(write + HEADER_SIZE + k - 1)
      <4>1. ASSUME NEW k \in 1 .. Len(m)
            PROVE  /\ HEADER_SIZE + k \in 1 .. TotalLen(m)
                   /\ write + (HEADER_SIZE + k) - 1 = write + HEADER_SIZE + k - 1
        BY <1>1, <1>2
      <4> QED
        BY <2>9, <4>1
    <3> QED
      BY <2>2, <2>4, <2>5, <2>6, <3>1, <3>2
  <2> QED
    BY <2>7, <2>8, <2>9 DEF Stored, h
<1>6. CASE ~ (write >= read)
  <2> DEFINE inner == Copy(buffer, write, h)
  <2>1. Written(m) = Copy(inner, write + HEADER_SIZE, m)
    BY <1>6 DEF Written, h
  <2>2. inner \in Buffers
    BY <1>1, <1>2, CopyType
  <2>3. \A j \in 0 .. CAPACITY - 1 :
          inner[j] = IF write <= j /\ j < write + HEADER_SIZE THEN h[j - write + 1]
                     ELSE buffer[j]
    BY <1>1, <1>2, CopyBytes
  <2> HIDE DEF inner
  <2>4. \A j \in 0 .. CAPACITY - 1 :
          Written(m)[j] = IF write + HEADER_SIZE <= j /\ j < write + HEADER_SIZE + Len(m)
                            THEN m[j - (write + HEADER_SIZE) + 1] ELSE inner[j]
    BY <1>1, <1>2, <2>1, <2>2, CopyBytes
  <2>5. write + HEADER_SIZE + Len(m) <= CAPACITY
    BY <1>1, <1>2, <1>3, <1>6
  <2>6. ASSUME NEW k \in 1 .. HEADER_SIZE
        PROVE  Written(m)[Wrap(write + k - 1)] = h[k]
    <3>1. /\ Wrap(write + k - 1) = write + k - 1 /\ write + k - 1 \in 0 .. CAPACITY - 1
          /\ ~ (write + HEADER_SIZE <= write + k - 1)
          /\ write <= write + k - 1 /\ write + k - 1 < write + HEADER_SIZE
          /\ (write + k - 1) - write + 1 = k
      BY <1>1, <1>2, <2>5 DEF Wrap
    <3> QED
      BY <2>3, <2>4, <3>1
  <2>7. ASSUME NEW k \in 1 .. Len(m)
        PROVE  Written(m)[Wrap(write + HEADER_SIZE + k - 1)] = m[k]
    <3>1. /\ Wrap(write + HEADER_SIZE + k - 1) = write + HEADER_SIZE + k - 1
          /\ write + HEADER_SIZE + k - 1 \in 0 .. CAPACITY - 1
          /\ write + HEADER_SIZE <= write + HEADER_SIZE + k - 1
          /\ write + HEADER_SIZE + k - 1 < write + HEADER_SIZE + Len(m)
          /\ (write + HEADER_SIZE + k - 1) - (write + HEADER_SIZE) + 1 = k
      BY <1>1, <1>2, <2>5 DEF Wrap
    <3> QED
      BY <2>4, <3>1
  <2>8. ASSUME NEW j \in 0 .. CAPACITY - 1, \A k \in 1 .. TotalLen(m) : j # Wrap(write + k - 1)
        PROVE  Written(m)[j] = buffer[j]
    <3>1. ASSUME write <= j, j < write + TotalLen(m) PROVE FALSE
      <4>1. j - write + 1 \in 1 .. TotalLen(m) /\ Wrap(write + (j - write + 1) - 1) = j
        BY <1>1, <1>2, <3>1 DEF Wrap
      <4> QED
        BY <2>8, <4>1
    <3>2. /\ ~ (write <= j /\ j < write + HEADER_SIZE)
          /\ ~ (write + HEADER_SIZE <= j /\ j < write + HEADER_SIZE + Len(m))
      BY <1>1, <1>2, <3>1
    <3> QED
      BY <2>3, <2>4, <3>2
  <2> QED
    BY <2>6, <2>7, <2>8 DEF Stored, h
<1> QED
  BY <1>5, <1>6

(* Where a send writes, and the bytes in use after it: all it adds, unless *)
(* read stands on CAPACITY and the message ends there, when the ring looks *)
(* empty afterwards.                                                       *)
LEMMA SendIndices ==
  ASSUME TypeOK, NEW m \in Msg, SendAccepted(m)
  PROVE  /\ Used \in Nat /\ read \in Nat /\ write = Wrap(read + Used)
         /\ Used + TotalLen(m) <= CAPACITY /\ read' = read
         /\ \/ Used' = Used + TotalLen(m)
            \/ Used' = 0 /\ read = CAPACITY /\ TotalLen(m) = Free
<1> DEFINE T == TotalLen(m)
<1>1. /\ CAPACITY \in Nat /\ CAPACITY # 0 /\ T \in Nat /\ 0 < T
      /\ write \in 0 .. CAPACITY - 1 /\ read \in 0 .. CAPACITY
  BY MessageLen, SizeAssumption DEF SizeAssumption, TypeOK
<1>2. ~ is_full /\ T <= Free /\ read' = read /\ is_full' = (write' = read)
  BY DEF SendAccepted, CanSend
<1>3. write' = Wrap(write + T)
  <2>1. write \in Nat /\ write + T < 2 * CAPACITY
    BY <1>1, <1>2 DEF Free
  <2> QED
    BY <1>1, <2>1, AdvanceWraps DEF SendAccepted
<1> HIDE DEF T
<1>4. Used \in Nat /\ write = Wrap(read + Used) /\ Used + T <= CAPACITY
  BY <1>1, <1>2 DEF Used, Free, Wrap
<1>5. Used' = Used + T \/ (Used' = 0 /\ read = CAPACITY /\ T = Free)
  <2>1. /\ Used' = IF is_full' THEN CAPACITY ELSE CAPACITY - Free'
        /\ Free' = IF write' >= read THEN CAPACITY - (write' - read) ELSE read - write'
        /\ is_full' <=> write' = read
    BY <1>2 DEF Used, Free
  <2>2. /\ Used = CAPACITY - Free
        /\ Free = IF write >= read THEN CAPACITY - (write - read) ELSE read - write
    BY <1>2 DEF Used, Free
  <2>3. CASE write + T < CAPACITY
    <3>1. write' = write + T
      BY <1>3, <2>3 DEF Wrap
    <3>2. CASE write' = read
      BY <1>1, <1>2, <2>1, <2>2, <3>1, <3>2
    <3>3. CASE write' # read
      BY <1>1, <1>2, <2>1, <2>2, <3>1, <3>3
    <3> QED
      BY <3>2, <3>3
  <2>4. CASE ~ (write + T < CAPACITY)
    <3>1. write' = write + T - CAPACITY
      BY <1>1, <1>3, <2>4 DEF Wrap
    <3>2. CASE write' = read
      BY <1>1, <1>2, <2>1, <2>2, <2>4, <3>1, <3>2
    <3>3. CASE write' # read
      BY <1>1, <1>2, <2>1, <2>2, <2>4, <3>1, <3>3
    <3> QED
      BY <3>2, <3>3
  <2> QED
    BY <2>3, <2>4
<1> QED
  BY <1>1, <1>2, <1>4, <1>5 DEF T

(* The bytes of a message that lies between two positions.                 *)
LEMMA BytesBelow ==
  ASSUME NEW r \in Nat, NEW w \in Nat, NEW a \in Nat, NEW h \in Nat, NEW l \in Nat,
         r <= a, a + (h + l) <= w
  PROVE  /\ \A k \in 1 .. h : a + k - 1 \in Nat /\ r <= a + k - 1 /\ a + k - 1 < w
         /\ \A k \in 1 .. l : /\ a + h + k - 1 \in Nat /\ r <= a + h + k - 1
                              /\ a + h + k - 1 < w
OBVIOUS

(* A message sent is held behind those that were there.                    *)
LEMMA SendHolds ==
  ASSUME TypeOK, NEW q \in Seq(Msg), NEW off, Holds(q, off), NEW m \in Msg, SendAccepted(m),
         Used' = Used + TotalLen(m)
  PROVE  \E o : Holds(Append(q, m), o)'
<1> DEFINE n == Len(q)
           T == TotalLen(m)
           o == [i \in 1 .. n + 2 |-> IF i = n + 2 THEN off[n + 1] + T ELSE off[i]]
           w == read + Used
<1>1. /\ CAPACITY \in Nat /\ HEADER_SIZE \in Nat /\ 0 < HEADER_SIZE
      /\ T \in Nat /\ T = HEADER_SIZE + Len(m) /\ Len(m) \in Nat /\ n \in Nat
      /\ write \in 0 .. CAPACITY - 1 /\ read \in 0 .. CAPACITY
  BY MessageLen, SizeAssumption DEF SizeAssumption, TypeOK
<1>2. /\ Used \in Nat /\ w \in Nat /\ write = Wrap(w) /\ Used + T <= CAPACITY /\ read' = read
      /\ w + T <= read + CAPACITY /\ w < 2 * CAPACITY /\ read <= w
  BY <1>1, SendIndices
<1>3. /\ off \in [1 .. n + 1 -> Nat] /\ off[1] = read /\ off[n + 1] = w
      /\ \A i \in 1 .. n : off[i + 1] = off[i] + TotalLen(q[i]) /\ Stored(buffer, off[i], q[i])
      /\ \A i, j \in 1 .. n + 1 : i < j => off[i] + HEADER_SIZE <= off[j]
  BY DEF Holds
<1>4. /\ Len(Append(q, m)) = n + 1 /\ Append(q, m)[n + 1] = m
      /\ \A i \in 1 .. n : Append(q, m)[i] = q[i] /\ q[i] \in Msg
  BY AppendProperties, ElementOfSeq
<1> HIDE DEF n, T, w
<1>5. /\ \A i \in 1 .. n + 1 : o[i] = off[i]
      /\ o[n + 2] = w + T
      /\ o \in [1 .. n + 2 -> Nat]
  <2>1. /\ n + 2 \in 1 .. n + 2 /\ n + 1 \in 1 .. n + 1
        /\ \A i \in 1 .. n + 1 : i \in 1 .. n + 2 /\ i # n + 2
        /\ \A i \in 1 .. n + 2 : i = n + 2 \/ i \in 1 .. n + 1
    BY <1>1
  <2>2. \A i \in 1 .. n + 1 : o[i] = off[i]
    BY <2>1
  <2>3. o[n + 2] = w + T /\ w + T \in Nat
    BY <1>1, <1>2, <1>3, <2>1
  <2> QED
    BY <1>3, <2>1, <2>2, <2>3
<1> HIDE DEF o
<1>6. /\ Stored(buffer', write, m)
      /\ \A j \in 0 .. CAPACITY - 1 :
           (\A k \in 1 .. T : j # Wrap(write + k - 1)) => buffer'[j] = buffer[j]
  BY WrittenBytes DEF SendAccepted, T
<1>7. \A k \in 1 .. T : Wrap(write + k - 1) = Wrap(w + k - 1)
  BY <1>1, <1>2 DEF Wrap
<1>8. Stored(buffer', w, m)
  <2>1. \A k \in 1 .. HEADER_SIZE : Wrap(write + k - 1) = Wrap(w + k - 1)
    <3>1. \A k \in 1 .. HEADER_SIZE : k \in 1 .. T
      BY <1>1
    <3> QED
      BY <1>7, <3>1
  <2>2. \A k \in 1 .. Len(m) : Wrap(write + HEADER_SIZE + k - 1) = Wrap(w + HEADER_SIZE + k - 1)
    <3>1. \A k \in 1 .. Len(m) : HEADER_SIZE + k \in 1 .. T
      BY <1>1
    <3>2. \A k \in 1 .. Len(m) :
            /\ write + (HEADER_SIZE + k) - 1 = write + HEADER_SIZE + k - 1
            /\ w + (HEADER_SIZE + k) - 1 = w + HEADER_SIZE + k - 1
      <4>1. write \in Nat /\ w \in Nat /\ HEADER_SIZE \in Nat /\ Len(m) \in Nat
        BY <1>1, <1>2
      <4> QED
        BY <4>1
    <3> QED
      BY <1>7, <3>1, <3>2
  <2> QED
    BY <1>6, <2>1, <2>2 DEF Stored
<1>9. ASSUME NEW x \in Nat, read <= x, x < w
      PROVE  buffer'[Wrap(x)] = buffer[Wrap(x)]
  <2>1. Wrap(x) \in 0 .. CAPACITY - 1
    <3>1. x < 2 * CAPACITY
      <4>1. w \in Nat /\ CAPACITY \in Nat /\ w < 2 * CAPACITY
        BY <1>1, <1>2
      <4> QED
        BY <1>9, <4>1
    <3> QED
      BY <3>1, WrapIndex
  <2>2. ASSUME NEW k \in 1 .. T PROVE Wrap(x) # Wrap(write + k - 1)
    <3>1. /\ w + k - 1 \in Nat /\ x < w + k - 1 /\ w + k - 1 < x + CAPACITY
          /\ w + k - 1 < 2 * CAPACITY
      BY <1>1, <1>2, <1>9
    <3> QED
      BY <1>7, <3>1, WrapIndex
  <2> QED
    BY <1>6, <2>1, <2>2
<1>10. ASSUME NEW i \in 1 .. n
       PROVE  Stored(buffer', off[i], q[i])
  <2>1. /\ off[i] \in Nat /\ q[i] \in Msg /\ Stored(buffer, off[i], q[i])
        /\ off[i] + TotalLen(q[i]) = off[i + 1] /\ off[i + 1] <= w /\ read <= off[i]
    <3>1. i \in 1 .. n + 1 /\ i + 1 \in 1 .. n + 1 /\ 1 \in 1 .. n + 1 /\ n + 1 \in 1 .. n + 1
      BY <1>1
    <3>2. read <= off[i]
      <4>1. i = 1 \/ off[1] + HEADER_SIZE <= off[i]
        BY <1>1, <1>3, <3>1
      <4> QED
        BY <1>1, <1>3, <3>1, <4>1
    <3>3. off[i + 1] <= w
      <4>1. i = n \/ i + 1 < n + 1
        BY <1>1
      <4>2. i = n \/ off[i + 1] + HEADER_SIZE <= off[n + 1]
        BY <1>3, <3>1, <4>1
      <4>3. off[i + 1] \in Nat /\ off[n + 1] = w /\ w \in Nat /\ HEADER_SIZE \in Nat
        BY <1>1, <1>2, <1>3, <3>1
      <4> QED
        BY <4>2, <4>3
    <3> QED
      BY <1>3, <1>4, <3>1, <3>2, <3>3
  <2>2. Len(q[i]) \in Nat /\ off[i] + (HEADER_SIZE + Len(q[i])) <= w
    BY <2>1, MessageLen
  <2>3. /\ \A k \in 1 .. HEADER_SIZE :
             off[i] + k - 1 \in Nat /\ read <= off[i] + k - 1 /\ off[i] + k - 1 < w
        /\ \A k \in 1 .. Len(q[i]) :
             /\ off[i] + HEADER_SIZE + k - 1 \in Nat /\ read <= off[i] + HEADER_SIZE + k - 1
             /\ off[i] + HEADER_SIZE + k - 1 < w
    <3>1. read \in Nat /\ read <= off[i]
      BY <1>1, <2>1
    <3> QED
      BY <1>1, <1>2, <2>1, <2>2, <3>1, BytesBelow
  <2> QED
    BY <1>9, <2>1, <2>3 DEF Stored
<1>11. \A i \in 1 .. n + 1 :
         /\ o[i + 1] = o[i] + TotalLen(Append(q, m)[i])
         /\ Stored(buffer', o[i], Append(q, m)[i])
  <2> SUFFICES ASSUME NEW i \in 1 .. n + 1
               PROVE  /\ o[i + 1] = o[i] + TotalLen(Append(q, m)[i])
                      /\ Stored(buffer', o[i], Append(q, m)[i])
    OBVIOUS
  <2>1. CASE i = n + 1
    BY <1>1, <1>3, <1>4, <1>5, <1>8, <2>1 DEF T
  <2>2. CASE i # n + 1
    <3>1. i \in 1 .. n /\ i + 1 \in 1 .. n + 1
      BY <1>1, <2>2
    <3> QED
      BY <1>3, <1>4, <1>5, <1>10, <3>1
  <2> QED
    BY <2>1, <2>2
<1>12. \A i, j \in 1 .. n + 2 : i < j => o[i] + HEADER_SIZE <= o[j]
  <2> SUFFICES ASSUME NEW i \in 1 .. n + 2, NEW j \in 1 .. n + 2, i < j
               PROVE  o[i] + HEADER_SIZE <= o[j]
    OBVIOUS
  <2>1. i \in 1 .. n + 1
    BY <1>1
  <2>2. CASE j = n + 2
    <3>1. off[i] <= w
      <4>1. off[i] \in Nat /\ off[n + 1] = w
        BY <1>3, <2>1
      <4>2. CASE i = n + 1
        BY <1>2, <4>1, <4>2
      <4>3. CASE i # n + 1
        <5>1. i < n + 1 /\ n + 1 \in 1 .. n + 1
          BY <1>1, <2>1, <4>3
        <5>2. off[i] + HEADER_SIZE <= w
          BY <1>3, <2>1, <4>1, <5>1
        <5>3. HEADER_SIZE \in Nat /\ w \in Nat
          BY <1>1, <1>2
        <5> QED
          BY <4>1, <5>2, <5>3
      <4> QED
        BY <4>2, <4>3
    <3> QED
      <4>1. o[i] = off[i] /\ o[j] = w + T /\ off[i] \in Nat
        BY <1>3, <1>5, <2>1, <2>2
      <4> QED
        <5>1. HEADER_SIZE \in Nat /\ T \in Nat /\ HEADER_SIZE <= T /\ w \in Nat
          BY <1>1, <1>2
        <5> QED
          BY <3>1, <4>1, <5>1
  <2>3. CASE j # n + 2
    <3>1. j \in 1 .. n + 1
      BY <1>1, <2>3
    <3> QED
      BY <1>3, <1>5, <2>1, <3>1
  <2> QED
    BY <2>2, <2>3
<1>13. o[1] = read' /\ o[n + 2] = read' + Used'
  <2>1. 1 \in 1 .. n + 1
    BY <1>1
  <2> QED
    BY <1>1, <1>2, <1>3, <1>5, <2>1 DEF T, w
<1>14. Holds(Append(q, m), o)'
  <2>1. n + 1 + 1 = n + 2
    BY <1>1
  <2> QED
    BY <1>4, <1>5, <1>11, <1>12, <1>13, <2>1 DEF Holds
<1> QED
  BY <1>14

-----------------------------------------------------------------------------

LEMMA UsedType ==
  ASSUME TypeOK
  PROVE  Used \in 0 .. CAPACITY
BY SizeAssumption DEF SizeAssumption, TypeOK, Used, Free

(* Every message lies between read and the last byte in use.               *)
LEMMA Positions ==
  ASSUME TypeOK, NEW q \in Seq(Msg), NEW off, Holds(q, off), NEW i \in 1 .. Len(q)
  PROVE  /\ off[i] \in Nat /\ read <= off[i]
         /\ q[i] \in Msg /\ Len(q[i]) \in Nat
         /\ off[i + 1] = off[i] + (HEADER_SIZE + Len(q[i])) /\ off[i + 1] <= read + Used
<1> DEFINE n == Len(q)
<1>1. /\ n \in Nat /\ read \in Nat /\ Used \in Nat /\ HEADER_SIZE \in Nat
  BY UsedType, SizeAssumption DEF SizeAssumption, TypeOK
<1>2. /\ i \in 1 .. n + 1 /\ i + 1 \in 1 .. n + 1 /\ 1 \in 1 .. n + 1 /\ n + 1 \in 1 .. n + 1
  BY <1>1
<1>3. /\ off \in [1 .. n + 1 -> Nat] /\ off[1] = read /\ off[n + 1] = read + Used
      /\ off[i + 1] = off[i] + TotalLen(q[i])
      /\ \A k, l \in 1 .. n + 1 : k < l => off[k] + HEADER_SIZE <= off[l]
  BY DEF Holds
<1>4. q[i] \in Msg /\ Len(q[i]) \in Nat /\ TotalLen(q[i]) = HEADER_SIZE + Len(q[i])
  BY ElementOfSeq, MessageLen
<1> HIDE DEF n
<1>5. off[i] \in Nat /\ off[i + 1] \in Nat
  BY <1>2, <1>3
<1>6. read <= off[i]
  <2>1. i = 1 \/ off[1] + HEADER_SIZE <= off[i]
    BY <1>1, <1>2, <1>3
  <2> QED
    BY <1>1, <1>3, <1>5, <2>1
<1>7. off[i + 1] <= read + Used
  <2>1. CASE i = n
    BY <1>1, <1>3, <1>5, <2>1
  <2>2. CASE i # n
    <3>1. i + 1 < n + 1
      BY <1>1, <1>2, <2>2
    <3>2. off[i + 1] + HEADER_SIZE <= off[n + 1]
      BY <1>2, <1>3, <3>1
    <3> QED
      BY <1>1, <1>3, <1>5, <3>2
  <2> QED
    BY <2>1, <2>2
<1> QED
  BY <1>3, <1>4, <1>5, <1>6, <1>7

(* A slice of the bytes of s is s.                                         *)
LEMMA SliceOf ==
  ASSUME NEW buf, NEW at \in 0 .. CAPACITY, NEW s \in Seq(Byte),
         \A k \in 1 .. Len(s) : buf[Wrap(at + k - 1)] = s[k]
  PROVE  /\ at + Len(s) <= CAPACITY => Slice(buf, at, Len(s)) = s
         /\ SliceWrapped(buf, at, Len(s)) = s
<1>1. CAPACITY \in Nat /\ Len(s) \in Nat /\ s = [k \in 1 .. Len(s) |-> s[k]]
  BY LenProperties, SizeAssumption DEF SizeAssumption
<1>2. ASSUME at + Len(s) <= CAPACITY PROVE Slice(buf, at, Len(s)) = s
  <2>1. \A k \in 1 .. Len(s) : Wrap(at + k - 1) = at + k - 1
    BY <1>1, <1>2 DEF Wrap
  <2>2. Slice(buf, at, Len(s)) = [k \in 1 .. Len(s) |-> s[k]]
    BY <2>1 DEF Slice
  <2> QED
    BY <1>1, <2>2
<1>3. SliceWrapped(buf, at, Len(s)) = s
  <2>1. \A k \in 1 .. Len(s) :
          Wrap(at + k - 1) = IF k <= CAPACITY - at THEN at + k - 1 ELSE k - (CAPACITY - at) - 1
    BY <1>1 DEF Wrap
  <2>2. SliceWrapped(buf, at, Len(s)) = [k \in 1 .. Len(s) |-> s[k]]
    BY <2>1 DEF SliceWrapped
  <2> QED
    BY <1>1, <2>2
<1> QED
  BY <1>2, <1>3

(* The length a receive reads is that of the oldest message.               *)
LEMMA HeaderOfHead ==
  ASSUME TypeOK, NEW q \in Seq(Msg), q # <<>>, NEW off, Holds(q, off), ~ HeaderOutOfRange
  PROVE  HeaderLen = Len(q[1])
<1> DEFINE h == ToLeBytes(Len(q[1]))
<1>1. 1 \in 1 .. Len(q)
  BY EmptySeq
<1>2. /\ q[1] \in Msg /\ off[1] = read
      /\ \A k \in 1 .. HEADER_SIZE : buffer[Wrap(read + k - 1)] = h[k]
  BY <1>1, ElementOfSeq DEF Holds, Stored
<1>3. h \in Seq(Byte) /\ Len(h) = HEADER_SIZE /\ FromLeBytes(h) = Len(q[1])
  BY <1>2, LeBytesAssumption DEF LeBytesAssumption
<1>4. read \in 0 .. CAPACITY
  BY DEF TypeOK
<1> HIDE DEF h
<1>5. /\ read + HEADER_SIZE <= CAPACITY => Slice(buffer, read, HEADER_SIZE) = h
      /\ SliceWrapped(buffer, read, HEADER_SIZE) = h
  BY <1>2, <1>3, <1>4, SliceOf
<1>6. write >= read => read + HEADER_SIZE <= CAPACITY
  BY <1>4, SizeAssumption DEF SizeAssumption, HeaderOutOfRange
<1> QED
  BY <1>3, <1>5, <1>6 DEF HeaderLen

(* Nothing is held exactly when no byte is in use, and a receive then      *)
(* reports an empty ring.                                                  *)
LEMMA EmptyHolds ==
  ASSUME TypeOK, NEW q \in Seq(Msg), NEW off, Holds(q, off)
  PROVE  /\ q = <<>> <=> Used = 0
         /\ q = <<>> => IsEmpty \/ (~ HeaderOutOfRange /\ Corrupted)
         /\ IsEmpty => q = <<>>
<1>1. /\ Len(q) \in Nat /\ read \in 0 .. CAPACITY /\ write \in 0 .. CAPACITY - 1
      /\ Used \in Nat /\ HEADER_SIZE \in Nat /\ 0 < HEADER_SIZE /\ CAPACITY \in Nat
      /\ CAPACITY # 0 /\ is_full \in BOOLEAN
  BY UsedType, SizeAssumption DEF SizeAssumption, TypeOK
<1>2. q = <<>> => Used = 0
  BY <1>1 DEF Holds
<1>3. q # <<>> => Used # 0
  <2> SUFFICES ASSUME q # <<>> PROVE Used # 0
    OBVIOUS
  <2>1. 1 \in 1 .. Len(q)
    BY EmptySeq
  <2>2. off[1] = read /\ off[2] = off[1] + (HEADER_SIZE + Len(q[1])) /\ off[2] <= read + Used
        /\ Len(q[1]) \in Nat
    <3>1. off[1] = read
      BY DEF Holds
    <3> QED
      BY <2>1, <3>1, Positions
  <2> QED
    BY <1>1, <2>2
<1>4. ASSUME Used = 0 PROVE IsEmpty \/ (~ HeaderOutOfRange /\ Corrupted)
  <2>1. /\ ~ is_full
        /\ write >= read => read = write
        /\ ~ (write >= read) => CAPACITY - (read - write) = 0
    BY <1>1, <1>4 DEF Used, Free
  <2>2. CASE write >= read
    BY <2>1, <2>2 DEF IsEmpty
  <2>3. CASE ~ (write >= read)
    <3>1. ~ HeaderOutOfRange
      BY <2>3 DEF HeaderOutOfRange
    <3>2. HeaderLen \in Nat
      BY <3>1, HeaderLenType
    <3>3. 0 < HEADER_SIZE + HeaderLen
      BY <1>1, <3>2
    <3> QED
      BY <2>1, <2>3, <3>1, <3>3 DEF Corrupted
  <2> QED
    BY <2>2, <2>3
<1>5. IsEmpty => Used = 0
  BY <1>1 DEF IsEmpty, Used, Free
<1> QED
  BY <1>2, <1>3, <1>4, <1>5

(* While the ring is not full, the oldest message passes every test of a   *)
(* receive.                                                                *)
LEMMA HeadIsIntact ==
  ASSUME TypeOK, NEW q \in Seq(Msg), q # <<>>, NEW off, Holds(q, off), ~ is_full
  PROVE  ~ IsEmpty /\ ~ HeaderOutOfRange /\ ~ Corrupted /\ ~ PayloadOutOfRange
<1>1. /\ read \in 0 .. CAPACITY /\ write \in 0 .. CAPACITY - 1
      /\ Used \in Nat /\ HEADER_SIZE \in Nat /\ CAPACITY \in Nat
  BY UsedType, SizeAssumption DEF SizeAssumption, TypeOK
<1>2. Len(q[1]) \in Nat /\ read + (HEADER_SIZE + Len(q[1])) <= read + Used
  <2>1. 1 \in 1 .. Len(q)
    BY EmptySeq
  <2>2. off[1] = read
    BY DEF Holds
  <2> QED
    BY <2>1, <2>2, Positions
<1>3. Used = IF write >= read THEN write - read ELSE CAPACITY - (read - write)
  BY <1>1 DEF Used, Free
<1>4. ~ HeaderOutOfRange
  BY <1>1, <1>2, <1>3 DEF HeaderOutOfRange
<1>5. HeaderLen = Len(q[1])
  BY <1>4, HeaderOfHead
<1>6. ~ PayloadOutOfRange
  <2>1. write >= read => ~ (read + HEADER_SIZE + Len(q[1]) > CAPACITY)
    <3> DEFINE l == Len(q[1])
    <3>1. l \in Nat /\ read + (HEADER_SIZE + l) <= read + Used
      BY <1>2
    <3> HIDE DEF l
    <3>2. write >= read => read + (HEADER_SIZE + l) <= write
      BY <1>1, <1>3, <3>1
    <3>3. write >= read => ~ (read + HEADER_SIZE + l > CAPACITY)
      BY <1>1, <3>1, <3>2
    <3> QED
      BY <3>3 DEF l
  <2> QED
    BY <1>5, <2>1 DEF PayloadOutOfRange
<1>7. ~ Corrupted
  BY <1>1, <1>2, <1>3, <1>5 DEF Corrupted
<1> QED
  BY <1>4, <1>6, <1>7, EmptyHolds

(* The positions after the first, moved back by d bytes.                   *)
LEMMA TailHolds ==
  ASSUME TypeOK, NEW q \in Seq(Msg), q # <<>>, NEW off, Holds(q, off),
         NEW d \in {0, CAPACITY}, read' = off[2] - d, off[2] >= d, buffer' = buffer,
         read + Used <= d + CAPACITY \/ d = 0, read + Used < 2 * CAPACITY,
         Used' = Used - TotalLen(Head(q))
  PROVE  \E o : Holds(Tail(q), o)'
<1> DEFINE n == Len(q)
           t == Tail(q)
           o == [i \in 1 .. n |-> off[i + 1] - d]
<1>1. /\ n \in Nat \ {0} /\ t \in Seq(Msg) /\ Len(t) = n - 1
      /\ \A i \in 1 .. n - 1 : t[i] = q[i + 1]
      /\ Head(q) = q[1]
  BY HeadTailProperties, EmptySeq
<1>2. /\ CAPACITY \in Nat /\ d \in Nat /\ Used \in Nat /\ read \in Nat
  BY UsedType, SizeAssumption DEF SizeAssumption, TypeOK
<1>3. /\ off \in [1 .. n + 1 -> Nat] /\ off[1] = read /\ off[n + 1] = read + Used
      /\ \A i \in 1 .. n : off[i + 1] = off[i] + TotalLen(q[i]) /\ Stored(buffer, off[i], q[i])
      /\ \A i, j \in 1 .. n + 1 : i < j => off[i] + HEADER_SIZE <= off[j]
  BY DEF Holds
<1> HIDE DEF n, t
<1>4. \A i \in 1 .. n : i + 1 \in 1 .. n + 1 /\ off[i + 1] \in Nat /\ off[i + 1] >= d
  <2> SUFFICES ASSUME NEW i \in 1 .. n PROVE i + 1 \in 1 .. n + 1 /\ off[i + 1] \in Nat /\ off[i + 1] >= d
    OBVIOUS
  <2>1. i + 1 \in 1 .. n + 1 /\ 2 \in 1 .. n + 1 /\ HEADER_SIZE \in Nat
    BY <1>1, SizeAssumption DEF SizeAssumption
  <2>2. off[i + 1] \in Nat /\ off[2] \in Nat
    BY <1>3, <2>1
  <2>3. i + 1 = 2 \/ off[2] + HEADER_SIZE <= off[i + 1]
    BY <1>1, <1>3, <2>1
  <2> QED
    BY <1>2, <2>1, <2>2, <2>3
<1>5. o \in [1 .. n -> Nat] /\ \A i \in 1 .. n : o[i] = off[i + 1] - d
  BY <1>2, <1>4
<1> HIDE DEF o
<1>6. o[1] = read' /\ o[n] = read' + Used'
  <2>1. 1 \in 1 .. n /\ n \in 1 .. n /\ 1 + 1 = 2
    BY <1>1
  <2>2. /\ off[2] = read + TotalLen(q[1]) /\ TotalLen(q[1]) \in Nat /\ off[2] \in Nat
    <3>1. q[1] \in Msg
      BY <2>1, ElementOfSeq DEF n
    <3>2. TotalLen(q[1]) \in Nat
      BY <3>1, MessageLen
    <3>3. off[1 + 1] = off[1] + TotalLen(q[1]) /\ off[1] = read
      BY <1>3, <2>1
    <3>4. off[2] = read + TotalLen(q[1])
      BY <2>1, <3>3
    <3> QED
      BY <1>2, <3>2, <3>4
  <2>3. o[1] = off[2] - d /\ o[n] = (read + Used) - d
    BY <1>3, <1>5, <2>1
  <2>4. read' = off[2] - d /\ Used' = Used - TotalLen(q[1])
    BY <1>1
  <2> DEFINE x == off[2]
             y == TotalLen(q[1])
             u == Used
             v == Used'
             a == read
             b == read'
             c == o[n]
  <2>5. x = a + y /\ y \in Nat /\ a \in Nat /\ u \in Nat /\ d \in Nat
        /\ b = x - d /\ v = u - y /\ c = (a + u) - d
    BY <1>2, <2>2, <2>3, <2>4
  <2> HIDE DEF x, y, u, v, a, b, c
  <2>6. c = b + v
    BY <2>5
  <2> QED
    BY <2>3, <2>4, <2>6 DEF x, u, v, b, c
<1>7. ASSUME NEW i \in 1 .. n - 1
      PROVE  /\ i \in 1 .. n /\ i + 1 \in 1 .. n
             /\ o[i + 1] = o[i] + TotalLen(t[i]) /\ Stored(buffer', o[i], t[i])
  <2>1. i \in 1 .. n /\ i + 1 \in 1 .. n
    BY <1>1
  <2> DEFINE a == off[i + 1]
             m == q[i + 1]
  <2>2. /\ a \in Nat /\ a >= d /\ o[i] = a - d /\ t[i] = m
    BY <1>1, <1>4, <1>5, <2>1
  <2>3. /\ m \in Msg /\ Len(m) \in Nat /\ a + (HEADER_SIZE + Len(m)) <= read + Used
        /\ off[i + 1 + 1] = a + (HEADER_SIZE + Len(m)) /\ Stored(buffer, a, m)
    <3>1. Stored(buffer, a, m)
      BY <1>3, <2>1
    <3>2. i + 1 \in 1 .. Len(q)
      BY <2>1 DEF n
    <3> QED
      BY <3>1, <3>2, Positions
  <2>4. o[i + 1] = off[i + 1 + 1] - d
    BY <1>5, <2>1
  <2> HIDE DEF a, m
  <2>5. HEADER_SIZE \in Nat
    BY SizeAssumption DEF SizeAssumption
  <2>6. o[i + 1] = o[i] + TotalLen(t[i])
    BY <1>2, <2>2, <2>3, <2>4, <2>5 DEF TotalLen
  <2>7. /\ \A k \in 1 .. HEADER_SIZE : Wrap((a - d) + k - 1) = Wrap(a + k - 1)
        /\ \A k \in 1 .. Len(m) : Wrap((a - d) + HEADER_SIZE + k - 1) = Wrap(a + HEADER_SIZE + k - 1)
    <3>1. /\ \A k \in 1 .. HEADER_SIZE :
               a + k - 1 \in Nat /\ a <= a + k - 1 /\ a + k - 1 < read + Used
          /\ \A k \in 1 .. Len(m) :
               /\ a + HEADER_SIZE + k - 1 \in Nat /\ a <= a + HEADER_SIZE + k - 1
               /\ a + HEADER_SIZE + k - 1 < read + Used
      BY <1>2, <2>2, <2>3, <2>5, BytesBelow
    <3>2. ASSUME NEW x \in Nat, a <= x, x < read + Used PROVE Wrap(x - d) = Wrap(x)
      BY <1>2, <2>2, <3>2 DEF Wrap
    <3>3. ASSUME NEW k \in 1 .. HEADER_SIZE PROVE (a - d) + k - 1 = (a + k - 1) - d
      BY <1>2, <2>2, <2>5
    <3>4. ASSUME NEW k \in 1 .. Len(m)
          PROVE  (a - d) + HEADER_SIZE + k - 1 = (a + HEADER_SIZE + k - 1) - d
      BY <1>2, <2>2, <2>5
    <3> QED
      BY <3>1, <3>2, <3>3, <3>4
  <2> QED
    BY <2>1, <2>2, <2>3, <2>6, <2>7 DEF Stored
<1>8. ASSUME NEW i \in 1 .. n, NEW j \in 1 .. n, i < j
      PROVE  o[i] + HEADER_SIZE <= o[j]
  <2>1. i + 1 \in 1 .. n + 1 /\ j + 1 \in 1 .. n + 1 /\ i + 1 < j + 1 /\ HEADER_SIZE \in Nat
    BY <1>1, <1>8, SizeAssumption DEF SizeAssumption
  <2>2. off[i + 1] + HEADER_SIZE <= off[j + 1]
    BY <1>3, <2>1
  <2>3. o[i] = off[i + 1] - d /\ o[j] = off[j + 1] - d /\ off[i + 1] \in Nat /\ off[j + 1] \in Nat
    BY <1>4, <1>5
  <2> DEFINE x == off[i + 1]
             y == off[j + 1]
  <2>4. x \in Nat /\ y \in Nat /\ d \in Nat /\ HEADER_SIZE \in Nat /\ x + HEADER_SIZE <= y
    BY <1>2, <2>1, <2>2, <2>3
  <2> HIDE DEF x, y
  <2>5. (x - d) + HEADER_SIZE <= y - d
    BY <2>4
  <2> QED
    BY <2>3, <2>5 DEF x, y
<1>9. Holds(t, o)'
  <2>1. Len(t) + 1 = n
    BY <1>1
  <2> QED
    BY <1>1, <1>5, <1>6, <1>7, <1>8, <2>1 DEF Holds
<1> QED
  BY <1>9 DEF t

(* A receive returns the oldest message and holds the others.              *)
LEMMA RecvHolds ==
  ASSUME TypeOK, FullInv, NEW q \in Seq(Msg), NEW off, Holds(q, off), RecvMessage
  PROVE  /\ q # <<>> /\ reply' = Head(q) /\ Used' = Used - TotalLen(Head(q))
         /\ \E o : Holds(Tail(q), o)'
<1> DEFINE m == q[1]
           T == TotalLen(m)
<1>1. q # <<>>
  BY EmptyHolds DEF RecvMessage
<1>2. /\ 1 \in 1 .. Len(q) /\ Head(q) = m /\ m \in Msg /\ m \in Seq(Byte)
      /\ Len(m) \in Nat /\ T = HEADER_SIZE + Len(m) /\ T \in Nat
  <2>1. 1 \in 1 .. Len(q) /\ Head(q) = m
    BY <1>1, EmptySeq, HeadTailProperties
  <2>2. m \in Msg
    BY <2>1, ElementOfSeq
  <2> QED
    BY <2>1, <2>2, MessageLen
<1>3. HeaderLen = Len(m)
  BY <1>1, HeaderOfHead DEF RecvMessage
<1>4. /\ off[1] = read /\ Stored(buffer, read, m)
      /\ off[2] = read + T /\ read + T <= read + Used
  <2>1. off[1] = read /\ Stored(buffer, read, m)
    BY <1>2 DEF Holds
  <2> QED
    BY <1>2, <2>1, Positions
<1>5. /\ CAPACITY \in Nat /\ HEADER_SIZE \in Nat /\ 0 < HEADER_SIZE
      /\ read \in 0 .. CAPACITY /\ write \in 0 .. CAPACITY - 1
      /\ Used \in 0 .. CAPACITY
  BY UsedType, SizeAssumption DEF SizeAssumption, TypeOK
<1>6. ~ is_full' /\ write' = write /\ buffer' = buffer
  BY DEF RecvMessage
<1>7. Used' = CAPACITY - (IF write >= read' THEN CAPACITY - (write - read') ELSE read' - write)
  BY <1>6 DEF Used, Free
<1>8. \A k \in 1 .. Len(m) : buffer[Wrap(read + HEADER_SIZE + k - 1)] = m[k]
  BY <1>4 DEF Stored
<1> HIDE DEF m, T
<1>9. CASE write >= read
  <2>1. read' = read + T /\ read + T <= CAPACITY
        /\ reply' = Slice(buffer, read + HEADER_SIZE, Len(m))
    <3>1. read' = read + HEADER_SIZE + Len(m) /\ ~ (read + HEADER_SIZE + Len(m) > CAPACITY)
          /\ reply' = Slice(buffer, read + HEADER_SIZE, Len(m))
      BY <1>3, <1>9 DEF RecvMessage, PayloadOutOfRange
    <3> QED
      BY <1>2, <1>5, <3>1
  <2>2. reply' = m
    <3>1. read + HEADER_SIZE \in 0 .. CAPACITY /\ read + HEADER_SIZE + Len(m) <= CAPACITY
      BY <1>2, <1>5, <2>1
    <3> QED
      BY <1>2, <1>8, <2>1, <3>1, SliceOf
  <2>3. Used' = Used - T /\ read + Used < 2 * CAPACITY
    <3>1. CASE is_full
      <4>1. read = write /\ Used = CAPACITY
        BY <3>1 DEF FullInv, Used
      <4> QED
        BY <1>2, <1>5, <1>7, <2>1, <4>1
    <3>2. CASE ~ is_full
      <4>1. Used = write - read
        BY <1>5, <1>9, <3>2 DEF Used, Free
      <4> QED
        BY <1>2, <1>4, <1>5, <1>7, <1>9, <2>1, <4>1
    <3> QED
      BY <3>1, <3>2
  <2>4. 0 \in {0, CAPACITY} /\ off[2] - 0 = read' /\ off[2] >= 0
    BY <1>2, <1>4, <1>5, <2>1
  <2>5. \E o : Holds(Tail(q), o)'
    BY <1>1, <1>2, <1>6, <2>3, <2>4, TailHolds DEF T
  <2> QED
    BY <1>1, <1>2, <2>2, <2>3, <2>5 DEF T
<1>10. CASE ~ (write >= read)
  <2>1. Used = CAPACITY - (read - write) /\ read + Used = CAPACITY + write
    <3>1. ~ is_full
      BY <1>5, <1>10 DEF FullInv
    <3> QED
      BY <1>5, <1>10, <3>1 DEF Used, Free
  <2>2. read' = Wrap(read + T) /\ read + T < 2 * CAPACITY
        /\ reply' = SliceWrapped(buffer, Wrap(read + HEADER_SIZE), Len(m))
    <3>1. read' = Advance(read, HEADER_SIZE + Len(m))
          /\ reply' = SliceWrapped(buffer, Advance(read, HEADER_SIZE), Len(m))
      BY <1>3, <1>10 DEF RecvMessage
    <3>2. read + T < 2 * CAPACITY /\ read + HEADER_SIZE < 2 * CAPACITY /\ read \in Nat
      BY <1>2, <1>4, <1>5, <2>1
    <3>3. Advance(read, T) = Wrap(read + T) /\ Advance(read, HEADER_SIZE) = Wrap(read + HEADER_SIZE)
      BY <1>2, <1>5, <3>2, AdvanceWraps
    <3> QED
      BY <1>2, <3>1, <3>2, <3>3
  <2>3. reply' = m
    <3>1. Wrap(read + HEADER_SIZE) \in 0 .. CAPACITY
      BY <1>2, <1>4, <1>5, <2>1 DEF Wrap
    <3>2. \A k \in 1 .. Len(m) :
            Wrap(Wrap(read + HEADER_SIZE) + k - 1) = Wrap(read + HEADER_SIZE + k - 1)
      BY <1>2, <1>4, <1>5, <2>1 DEF Wrap
    <3>3. \A k \in 1 .. Len(m) : buffer[Wrap(Wrap(read + HEADER_SIZE) + k - 1)] = m[k]
      BY <1>8, <3>2
    <3> QED
      BY <1>2, <2>2, <3>1, <3>3, SliceOf
  <2>4. CASE read + T < CAPACITY
    <3>1. read' = read + T
      BY <2>2, <2>4 DEF Wrap
    <3>2. Used' = Used - T /\ read + Used < 2 * CAPACITY
      <4>1. T \in Nat /\ read + T <= read + Used
        BY <1>2, <1>4
      <4>2. Used' = CAPACITY - (read' - write)
        BY <1>5, <1>7, <1>10, <3>1, <4>1
      <4> QED
        BY <1>5, <2>1, <3>1, <4>1, <4>2
    <3>3. 0 \in {0, CAPACITY} /\ off[2] - 0 = read' /\ off[2] >= 0
      BY <1>2, <1>4, <1>5, <3>1
    <3>4. \E o : Holds(Tail(q), o)'
      BY <1>1, <1>2, <1>6, <3>2, <3>3, TailHolds DEF T
    <3> QED
      BY <1>1, <1>2, <2>3, <3>2, <3>4 DEF T
  <2>5. CASE ~ (read + T < CAPACITY)
    <3>1. read' = (read + T) - CAPACITY
      BY <2>2, <2>5 DEF Wrap
    <3>2. Used' = Used - T /\ read + Used < 2 * CAPACITY /\ read + Used <= CAPACITY + CAPACITY
      <4>1. T \in Nat /\ read + T <= read + Used
        BY <1>2, <1>4
      <4>2. Used' = CAPACITY - (CAPACITY - (write - read')) /\ read' \in Nat
        BY <1>5, <1>7, <2>1, <2>5, <3>1, <4>1
      <4> QED
        BY <1>5, <2>1, <3>1, <4>1, <4>2
    <3>3. CAPACITY \in {0, CAPACITY} /\ off[2] - CAPACITY = read' /\ off[2] >= CAPACITY
      BY <1>2, <1>4, <1>5, <2>5, <3>1
    <3>4. \E o : Holds(Tail(q), o)'
      BY <1>1, <1>2, <1>6, <3>2, <3>3, TailHolds DEF T
    <3> QED
      BY <1>1, <1>2, <2>3, <3>2, <3>4 DEF T
  <2> QED
    BY <2>4, <2>5
<1> QED
  BY <1>9, <1>10

-----------------------------------------------------------------------------

(* With no byte in use the ring holds the empty queue.                     *)
LEMMA NothingHeld ==
  ASSUME TypeOK, Used = 0
  PROVE  Holds(<<>>, [i \in 1 .. 1 |-> read])
BY SizeAssumption DEF SizeAssumption, TypeOK, Holds

LEMMA NothingHeldNext ==
  ASSUME read' \in Nat, Used' = 0
  PROVE  \E o : Holds(<<>>, o)'
<1>1. PICK r \in Nat : r = read'
  OBVIOUS
<1>2. r + 0 = r
  <2>1. \A x \in Nat : x + 0 = x
    OBVIOUS
  <2> QED
    BY <1>1, <2>1
<1>3. Len(<<>>) = 0
  BY EmptySeq
<1>4. PICK o : o = [i \in 1 .. 1 |-> r]
  OBVIOUS
<1>5. o \in [1 .. 1 -> Nat] /\ o[1] = r
  BY <1>1, <1>4
<1>6. Holds(<<>>, o)'
  BY <1>1, <1>2, <1>3, <1>5 DEF Holds
<1> QED
  BY <1>6

(* A call that leaves the structure alone leaves what it holds alone.      *)
LEMMA StillHolds ==
  ASSUME NEW q, NEW off, Holds(q, off), UNCHANGED ring
  PROVE  Holds(q, off)' /\ Used' = Used
BY DEF ring, Holds, Used, Free

(* The ring that is never filled to the last byte holds the accepted       *)
(* messages that no receive returned yet, and nothing else.                *)
QueueInv ==
  /\ TypeOK /\ FullInv
  /\ ~ is_full /\ read < CAPACITY
  /\ \E off : Holds(pending, off)

LEMMA QueueInit == Init => QueueInv /\ Fifo!Init
<1> SUFFICES ASSUME Init PROVE QueueInv /\ Fifo!Init
  OBVIOUS
<1>1. /\ read = 0 /\ write = 0 /\ is_full = FALSE /\ reply = None /\ pending = <<>>
      /\ CAPACITY \in Nat /\ 0 < CAPACITY
  BY SizeAssumption DEF SizeAssumption, Init
<1>2. TypeOK /\ FullInv
  <2>1. buffer \in [0 .. CAPACITY - 1 -> Byte]
    BY MsgAssumption DEF MsgAssumption, Init
  <2>2. read \in 0 .. CAPACITY /\ write \in 0 .. CAPACITY - 1 /\ pending \in Seq(Msg)
    BY <1>1
  <2> QED
    BY <1>1, <2>1, <2>2 DEF TypeOK, FullInv
<1>3. Used = 0
  BY <1>1 DEF Used, Free
<1>4. \E off : Holds(pending, off)
  BY <1>1, <1>2, <1>3, NothingHeld
<1> QED
  BY <1>1, <1>2, <1>3, <1>4 DEF QueueInv, Fifo!Init

LEMMA QueueSend ==
  ASSUME QueueInv, NEW m \in Msg, SendAccepted(m), LeavesRoom(m)
  PROVE  QueueInv' /\ Fifo!Send(m)
<1>1. TypeOK /\ FullInv /\ ~ is_full /\ read < CAPACITY /\ pending \in Seq(Msg)
  BY DEF QueueInv, TypeOK
<1>2. TotalLen(m) < Free /\ TotalLen(m) \in Nat /\ read \in Nat /\ CAPACITY \in Nat
  BY <1>1, MessageLen, SizeAssumption DEF SizeAssumption, TypeOK, SendAccepted, LeavesRoom
<1>3. Free = CAPACITY - Used /\ Used \in Nat
  BY <1>1, <1>2 DEF Used, Free, TypeOK
<1>4. Used' = Used + TotalLen(m) /\ Used + TotalLen(m) < CAPACITY /\ read' = read
  BY <1>1, <1>2, <1>3, SendIndices
<1>5. TypeOK' /\ FullInv'
  BY <1>1, SendType DEF SendAccepted, FullInv
<1>6. ~ is_full'
  BY <1>2, <1>3, <1>4 DEF Used
<1>7. \E off : Holds(pending, off)'
  BY <1>1, <1>4, SendHolds DEF QueueInv, SendAccepted
<1>8. Fifo!Send(m)
  BY <1>2, <1>3, <1>4 DEF Fifo!Send, SendAccepted
<1> QED
  BY <1>1, <1>4, <1>5, <1>6, <1>7, <1>8 DEF QueueInv

LEMMA QueueRefuse ==
  ASSUME QueueInv, NEW m \in Msg, SendRefused(m)
  PROVE  QueueInv' /\ Fifo!Send(m)
<1>1. /\ TypeOK /\ ~ is_full /\ CAPACITY \in Nat /\ HEADER_SIZE \in Nat
      /\ TotalLen(m) = HEADER_SIZE + Len(m) /\ Len(m) \in Nat
  BY MessageLen, SizeAssumption DEF SizeAssumption, QueueInv
<1>2. Used \in Nat /\ Free = CAPACITY - Used
  BY <1>1 DEF Used, Free, TypeOK
<1>3. Used + TotalLen(m) > CAPACITY
  BY <1>1, <1>2 DEF SendRefused, CanSend
<1>4. PICK off : Holds(pending, off)
  BY DEF QueueInv
<1>5. Holds(pending, off)' /\ Used' = Used
  BY <1>4, StillHolds DEF SendRefused, Holds, Used, Free, ring
<1>6. Fifo!Send(m)
  BY <1>3, <1>5 DEF Fifo!Send, SendRefused
<1>7. QueueInv'
  BY <1>5 DEF QueueInv, SendRefused, TypeOK, FullInv, ring
<1> QED
  BY <1>6, <1>7

LEMMA QueueRecv ==
  ASSUME QueueInv, TryRecv
  PROVE  QueueInv' /\ Fifo!Recv
<1>1. TypeOK /\ FullInv /\ ~ is_full /\ read < CAPACITY /\ pending \in Seq(Msg)
  BY DEF QueueInv, TypeOK
<1>2. PICK off : Holds(pending, off)
  BY DEF QueueInv
<1>3. CASE RecvNone
  <2>1. pending = <<>>
    BY <1>1, <1>2, <1>3, HeadIsIntact DEF RecvNone
  <2>2. Holds(pending, off)' /\ Used' = Used
    BY <1>2, <1>3, StillHolds DEF RecvNone, Holds, Used, Free, ring
  <2>3. Fifo!Recv
    BY <1>3, <2>1, <2>2 DEF Fifo!Recv, RecvNone
  <2>4. QueueInv'
    BY <1>1, <1>3, <2>2 DEF QueueInv, RecvNone, TypeOK, FullInv, ring
  <2> QED
    BY <2>3, <2>4
<1>4. CASE RecvPanic
  BY <1>1, <1>2, <1>4, HeadIsIntact, EmptyHolds DEF RecvPanic
<1>5. CASE RecvMessage
  <2> PICK q \in Seq(Msg) : q = pending
    BY <1>1
  <2>1. /\ q # <<>> /\ reply' = Head(q)
        /\ Used' = Used - TotalLen(Head(q)) /\ \E o : Holds(Tail(q), o)'
    BY <1>1, <1>2, <1>5, RecvHolds
  <2>2. pending' = Tail(q)
    BY <1>5, <2>1 DEF RecvMessage
  <2>3. TypeOK' /\ FullInv' /\ ~ is_full'
    BY <1>1, <1>5, RecvType DEF RecvMessage, FullInv
  <2>4. read' < CAPACITY
    <3>1. /\ read \in Nat /\ HEADER_SIZE \in Nat /\ HeaderLen \in Nat /\ CAPACITY \in Nat
          /\ write \in 0 .. CAPACITY - 1
      BY <1>1, <1>5, HeaderLenType, SizeAssumption
      DEF SizeAssumption, TypeOK, RecvMessage
    <3>2. CASE write >= read
      <4>1. read' = read + HEADER_SIZE + HeaderLen /\ ~ (write - read < HEADER_SIZE + HeaderLen)
        BY <1>1, <1>5, <3>2 DEF RecvMessage, Corrupted
      <4> QED
        BY <3>1, <4>1
    <3>3. CASE ~ (write >= read)
      <4>1. Advance(read, HEADER_SIZE + HeaderLen) \in 0 .. CAPACITY - 1
        <5>1. HEADER_SIZE + HeaderLen \in Nat
          BY <3>1
        <5> QED
          BY <3>1, <5>1, AdvanceInRing
      <4>2. read' = Advance(read, HEADER_SIZE + HeaderLen)
        BY <1>5, <3>3 DEF RecvMessage
      <4> QED
        BY <3>1, <4>1, <4>2
    <3> QED
      BY <3>2, <3>3
  <2>5. Fifo!Recv
    BY <2>1, <2>2 DEF Fifo!Recv
  <2>6. QueueInv'
    BY <2>1, <2>2, <2>3, <2>4 DEF QueueInv
  <2> QED
    BY <2>5, <2>6
<1> QED
  BY <1>3, <1>4, <1>5 DEF TryRecv

(* The message bus, as long as no accepted message fills it to the last    *)
(* byte, is the bounded FIFO queue FifoQueue for every capacity, header    *)
(* size and set of messages: try_send accepts exactly what fits, try_recv  *)
(* returns every message whole and in order, wherever it wraps around the  *)
(* end, reports an empty ring only when nothing is left, and never panics. *)
THEOREM RingIsFifo == SpecNotFull => FifoSpec
<1>1. Init => QueueInv /\ Fifo!Init
  BY QueueInit
<1>2. QueueInv /\ [NextNotFull]_vars => QueueInv' /\ [Fifo!Next]_(Fifo!vars)
  <2> SUFFICES ASSUME QueueInv, [NextNotFull]_vars
               PROVE  QueueInv' /\ [Fifo!Next]_(Fifo!vars)
    OBVIOUS
  <2>1. ASSUME NEW m \in Msg, LeavesRoom(m), TrySend(m)
        PROVE  QueueInv' /\ Fifo!Next
    <3>1. QueueInv' /\ Fifo!Send(m)
      BY <2>1, QueueSend, QueueRefuse DEF TrySend
    <3> QED
      BY <3>1 DEF Fifo!Next
  <2>2. CASE TryRecv
    BY <2>2, QueueRecv DEF Fifo!Next
  <2>3. CASE UNCHANGED vars
    <3>1. QueueInv'
      BY <2>3 DEF vars, QueueInv, TypeOK, FullInv, Holds, Used, Free
    <3>2. UNCHANGED Fifo!vars
      BY <2>3 DEF vars, Fifo!vars, Used, Free
    <3> QED
      BY <3>1, <3>2
  <2> QED
    BY <2>1, <2>2, <2>3 DEF NextNotFull
<1> QED
  BY <1>1, <1>2, PTL DEF SpecNotFull, FifoSpec, Fifo!Spec

-----------------------------------------------------------------------------

(* Whatever is sent, the bytes in use are whole messages: those pending,   *)
(* or none after a send that ended exactly at the end of a ring whose read *)
(* stands on CAPACITY.                                                     *)
WholeMessages == \E q \in Seq(Msg) : \E off : Holds(q, off)

(* Only an exactly full ring whose oldest message wraps makes try_recv     *)
(* panic.                                                                  *)
Wedged == reply = Panic => is_full /\ (HeaderOutOfRange \/ PayloadOutOfRange)

WedgedInv == TypeOK /\ FullInv /\ WholeMessages /\ Wedged

LEMMA WedgedCall ==
  ASSUME WedgedInv, Next
  PROVE  WholeMessages' /\ Wedged'
<1>1. TypeOK /\ FullInv
  BY DEF WedgedInv
<1> PICK q \in Seq(Msg) : \E off : Holds(q, off)
  BY DEF WedgedInv, WholeMessages
<1>2. PICK off : Holds(q, off)
  OBVIOUS
<1>3. ASSUME NEW m \in Msg, SendAccepted(m)
      PROVE  WholeMessages' /\ Wedged'
  <2>1. reply' # Panic
    BY <1>3, MsgAssumption DEF MsgAssumption, SendAccepted
  <2>2. CASE Used' = Used + TotalLen(m)
    <3>1. Append(q, m) \in Seq(Msg)
      BY <1>2, <1>3, AppendProperties
    <3>2. \E o : Holds(Append(q, m), o)'
      BY <1>1, <1>2, <1>3, <2>2, SendHolds
    <3> QED
      BY <2>1, <3>1, <3>2 DEF WholeMessages, Wedged
  <2>3. CASE Used' = 0
    <3>1. TypeOK'
      BY <1>1, <1>3, SendType
    <3>2. read' \in Nat
      BY <3>1, SizeAssumption DEF SizeAssumption, TypeOK
    <3>4. \E o : Holds(<<>>, o)'
      BY <2>3, <3>2, NothingHeldNext
    <3>3. <<>> \in Seq(Msg)
      OBVIOUS
    <3> QED
      BY <2>1, <3>3, <3>4 DEF WholeMessages, Wedged
  <2> QED
    BY <1>1, <1>3, <2>2, <2>3, SendIndices
<1>4. ASSUME UNCHANGED ring, reply' = Panic => RecvPanic
      PROVE  WholeMessages' /\ Wedged'
  <2>1. Holds(q, off)'
    BY <1>2, <1>4, StillHolds DEF ring, Holds, Used, Free
  <2>2. ASSUME RecvPanic
        PROVE  is_full /\ (HeaderOutOfRange \/ PayloadOutOfRange)
    BY <1>1, <1>2, <2>2, HeadIsIntact, EmptyHolds DEF RecvPanic
  <2>3. is_full' = is_full /\ HeaderOutOfRange' = HeaderOutOfRange
        /\ PayloadOutOfRange' = PayloadOutOfRange
    BY <1>4 DEF ring, HeaderOutOfRange, PayloadOutOfRange, HeaderLen
  <2> QED
    BY <1>4, <2>1, <2>2, <2>3 DEF WholeMessages, Wedged
<1>5. ASSUME NEW m \in Msg, SendRefused(m) PROVE WholeMessages' /\ Wedged'
  BY <1>4, <1>5, MsgAssumption DEF MsgAssumption, SendRefused
<1>6. CASE RecvNone
  BY <1>4, <1>6, MsgAssumption DEF MsgAssumption, RecvNone
<1>7. CASE RecvPanic
  BY <1>4, <1>7 DEF RecvPanic
<1>8. CASE RecvMessage
  <2>1. q # <<>> /\ reply' = Head(q) /\ \E o : Holds(Tail(q), o)'
    BY <1>1, <1>2, <1>8, RecvHolds
  <2>2. Tail(q) \in Seq(Msg) /\ Head(q) \in Msg
    BY <1>2, <2>1, HeadTailProperties
  <2>3. reply' # Panic
    BY <2>1, <2>2, MsgAssumption DEF MsgAssumption
  <2> QED
    BY <2>1, <2>2, <2>3 DEF WholeMessages, Wedged
<1> QED
  BY <1>3, <1>5, <1>6, <1>7, <1>8 DEF Next, TrySend, TryRecv

(* Once a receive panicked, in whatever way the ring came to that, every   *)
(* later call in every process leaves the ring as it is and fails: sends   *)
(* are refused and receives panic again.                                   *)
THEOREM PanicStays == Spec => PanicIsPermanent
<1>1. Init => WedgedInv
  <2> SUFFICES ASSUME Init PROVE WedgedInv
    OBVIOUS
  <2>1. TypeOK /\ FullInv /\ pending \in Seq(Msg) /\ \E off : Holds(pending, off)
    BY QueueInit DEF QueueInv, TypeOK
  <2>2. reply # Panic
    BY MsgAssumption DEF MsgAssumption, Init
  <2> QED
    BY <2>1, <2>2 DEF WedgedInv, WholeMessages, Wedged
<1>2. WedgedInv /\ [Next]_vars /\ TypeOK' /\ FullInv' => WedgedInv'
  <2>1. CASE UNCHANGED vars
    BY <2>1 DEF vars, WedgedInv, TypeOK, FullInv, WholeMessages, Wedged, Holds, Used, Free,
       HeaderOutOfRange, PayloadOutOfRange, HeaderLen
  <2> QED
    BY <2>1, WedgedCall DEF WedgedInv
<1>3. WedgedInv /\ [Next]_vars =>
        [reply = Panic => UNCHANGED ring /\ reply' \in {Err, Panic}]_vars
  <2> SUFFICES ASSUME WedgedInv, Next, reply = Panic
               PROVE  UNCHANGED ring /\ reply' \in {Err, Panic}
    BY DEF vars
  <2>1. is_full /\ (HeaderOutOfRange \/ PayloadOutOfRange)
    BY DEF WedgedInv, Wedged
  <2> QED
    BY <2>1 DEF Next, TrySend, SendAccepted, SendRefused, CanSend, TryRecv, RecvNone,
       RecvPanic, RecvMessage, IsEmpty, Corrupted
<1>4. Spec => [](TypeOK /\ FullInv)
  BY IndicesAndFlag
<1> QED
  BY <1>1, <1>2, <1>3, <1>4, PTL DEF Spec, PanicIsPermanent
=============================================================================
