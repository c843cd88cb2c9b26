--------------------- MODULE SubscriptionCommandsProofs ---------------------
(***************************************************************************)
(* Subscriber implements SubscriptionCommands, for any subjects,           *)
(* functions, options, tasks, bounds and events but a body that calls a    *)
(* missing function.                                                       *)
(***************************************************************************)
EXTENDS SubscriberCommandProofs, NaturalsInduction, WellFoundedInduction

(***************************************************************************)
(* The messages of a sequence that are in a set.                           *)
(***************************************************************************)

(* Induction, for sets: what contains zero and every successor of what it  *)
(* contains contains every number.                                         *)
LEMMA Induction ==
  ASSUME NEW T, 0 \in T, \A n \in Nat : n \in T => n + 1 \in T
  PROVE  \A n \in Nat : n \in T
<1> SUFFICES ASSUME NEW x \in Nat, x \notin T PROVE FALSE
  OBVIOUS
<1> DEFINE R == OpToRel(<, Nat)
           U == {n \in Nat : n \notin T}
<1>1. IsWellFoundedOn(R, Nat)
  BY NatLessThanWellFounded
<1>2. PICK n \in U : \A y \in U : ~ (<<y, n>> \in R)
  <2> HIDE DEF R
  <2> QED
    BY <1>1, WFMin
<1>3. n # 0 /\ n - 1 \in Nat /\ n - 1 \notin T
  OBVIOUS
<1>4. <<n - 1, n>> \in R
  BY <1>3 DEF OpToRel
<1> QED
  BY <1>2, <1>3, <1>4

(* f has the messages of S among the first m of q, for m up to n.          *)
Picks(f, q, S, n) ==
  f = [m \in 0 .. n |->
        IF m = 0 THEN <<>>
        ELSE IF q[m] \in S THEN Append(f[m - 1], q[m]) ELSE f[m - 1]]

LEMMA PicksExist ==
  ASSUME NEW q, NEW S
  PROVE  \A n \in Nat : \E f : Picks(f, q, S, n)
<1> DEFINE T == {n \in Nat : \E f : Picks(f, q, S, n)}
<1>1. 0 \in T
  <2>1. Picks([m \in 0 .. 0 |-> <<>>], q, S, 0)
    BY DEF Picks
  <2> QED
    BY <2>1
<1>2. ASSUME NEW n \in Nat, n \in T PROVE n + 1 \in T
  <2>1. PICK f : Picks(f, q, S, n)
    BY <1>2
  <2> DEFINE last == IF q[n + 1] \in S THEN Append(f[n], q[n + 1]) ELSE f[n]
             g == [m \in 0 .. n + 1 |-> IF m = n + 1 THEN last ELSE f[m]]
  <2>2. \A m \in 0 .. n + 1 : m # n + 1 =>
          f[m] = IF m = 0 THEN <<>>
                 ELSE IF q[m] \in S THEN Append(f[m - 1], q[m]) ELSE f[m - 1]
    <3>1. \A m \in 0 .. n :
            f[m] = IF m = 0 THEN <<>>
                   ELSE IF q[m] \in S THEN Append(f[m - 1], q[m]) ELSE f[m - 1]
      BY <2>1 DEF Picks
    <3>2. \A m \in 0 .. n + 1 : m # n + 1 => m \in 0 .. n
      OBVIOUS
    <3> QED
      BY <3>1, <3>2
  <2>3. \A m \in 0 .. n + 1 : m # 0 => g[m - 1] = f[m - 1]
    OBVIOUS
  <2>4. \A m \in 0 .. n + 1 :
          g[m] = IF m = 0 THEN <<>>
                 ELSE IF q[m] \in S THEN Append(g[m - 1], q[m]) ELSE g[m - 1]
    <3>1. g[n + 1] = last /\ n + 1 # 0 /\ (n + 1) - 1 = n /\ n + 1 \in 0 .. n + 1
      OBVIOUS
    <3>2. \A m \in 0 .. n + 1 : m # n + 1 => g[m] = f[m]
      OBVIOUS
    <3> HIDE DEF g
    <3> QED
      BY <2>2, <2>3, <3>1, <3>2
  <2>5. g = [m \in 0 .. n + 1 |-> g[m]]
    OBVIOUS
  <2>6. Picks(g, q, S, n + 1)
    <3> HIDE DEF g
    <3> QED
      BY <2>4, <2>5 DEF Picks
  <2> QED
    BY <2>6
<1> HIDE DEF T
<1>3. \A n \in Nat : n \in T
  BY <1>1, <1>2, Induction
<1> QED
  BY <1>3 DEF T

LEMMA OnlyPicks ==
  ASSUME NEW q, Len(q) \in Nat, NEW S
  PROVE  \E f : Picks(f, q, S, Len(q)) /\ Only(q, S) = f[Len(q)]
<1>1. \E f : Picks(f, q, S, Len(q))
  BY PicksExist
<1>2. Only(q, S) = (CHOOSE f : Picks(f, q, S, Len(q)))[Len(q)]
  BY DEF Only, Picks
<1> QED
  BY <1>1, <1>2

(* What is picked is in the set, and does not depend on what follows.      *)
LEMMA PicksType ==
  ASSUME NEW S, NEW q, NEW i \in Nat, NEW f, Picks(f, q, S, i)
  PROVE  \A n \in 0 .. i : f[n] \in Seq(S)
<1> DEFINE T == {n \in Nat : n <= i => f[n] \in Seq(S)}
<1>1. f[0] = <<>>
  BY DEF Picks
<1>2. 0 \in T
  BY <1>1, EmptySeq
<1>3. ASSUME NEW n \in Nat, n \in T PROVE n + 1 \in T
  <2> SUFFICES ASSUME n + 1 <= i PROVE f[n + 1] \in Seq(S)
    OBVIOUS
  <2>1. f[n] \in Seq(S) /\ n + 1 \in 0 .. i /\ n + 1 # 0 /\ (n + 1) - 1 = n
    BY <1>3
  <2>2. f[n + 1] = IF q[n + 1] \in S THEN Append(f[n], q[n + 1]) ELSE f[n]
    BY <2>1 DEF Picks
  <2> QED
    BY <2>1, <2>2, AppendProperties
<1> HIDE DEF T
<1>4. \A n \in Nat : n \in T
  BY <1>2, <1>3, Induction
<1> QED
  BY <1>4 DEF T

LEMMA PicksSame ==
  ASSUME NEW S, NEW q, NEW r, NEW f, NEW g, NEW i \in Nat, NEW j \in Nat,
         Picks(f, q, S, i), Picks(g, r, S, j),
         NEW k \in Nat, k <= i, k <= j, \A n \in 1 .. k : q[n] = r[n]
  PROVE  f[k] = g[k]
<1> DEFINE T == {n \in Nat : n <= k => f[n] = g[n]}
<1>1. 0 \in T
  BY DEF Picks
<1>2. ASSUME NEW n \in Nat, n \in T PROVE n + 1 \in T
  <2> SUFFICES ASSUME n + 1 <= k PROVE f[n + 1] = g[n + 1]
    OBVIOUS
  <2>1. /\ f[n] = g[n] /\ n + 1 \in 0 .. i /\ n + 1 \in 0 .. j /\ n + 1 \in 1 .. k
        /\ n + 1 # 0 /\ (n + 1) - 1 = n
    BY <1>2
  <2>2. /\ f[n + 1] = IF q[n + 1] \in S THEN Append(f[n], q[n + 1]) ELSE f[n]
        /\ g[n + 1] = IF r[n + 1] \in S THEN Append(g[n], r[n + 1]) ELSE g[n]
    BY <2>1 DEF Picks
  <2> QED
    BY <2>1, <2>2
<1> HIDE DEF T
<1>3. \A n \in Nat : n \in T
  BY <1>1, <1>2, Induction
<1> QED
  BY <1>3 DEF T

LEMMA OnlyType ==
  ASSUME NEW M, NEW S, NEW q \in Seq(M)
  PROVE  Only(q, S) \in Seq(S)
<1>1. Len(q) \in Nat
  BY LenProperties
<1>2. PICK f : Picks(f, q, S, Len(q)) /\ Only(q, S) = f[Len(q)]
  BY <1>1, OnlyPicks
<1>3. Len(q) \in 0 .. Len(q)
  BY <1>1
<1> QED
  BY <1>2, <1>3, PicksType

LEMMA OnlyEmpty == \A S : Only(<<>>, S) = <<>>
<1> SUFFICES ASSUME NEW S PROVE Only(<<>>, S) = <<>>
  OBVIOUS
<1>1. Len(<<>>) = 0
  OBVIOUS
<1>2. PICK f : Picks(f, <<>>, S, 0) /\ Only(<<>>, S) = f[0]
  BY <1>1, OnlyPicks
<1> QED
  BY <1>2 DEF Picks

(* A message at the end.                                                   *)
LEMMA OnlyAppend ==
  ASSUME NEW M, NEW S, NEW q \in Seq(M), NEW m \in M
  PROVE  Only(Append(q, m), S) = IF m \in S THEN Append(Only(q, S), m) ELSE Only(q, S)
<1> DEFINE r == Append(q, m)
           n == Len(q)
<1>1. /\ n \in Nat /\ Len(r) = n + 1 /\ r[n + 1] = m
      /\ \A k \in 1 .. n : r[k] = q[k]
  BY AppendProperties, LenProperties
<1>2. n + 1 \in Nat /\ n + 1 # 0 /\ (n + 1) - 1 = n /\ n + 1 \in 0 .. n + 1 /\ n <= n /\ n <= n + 1
  BY <1>1
<1> HIDE DEF r, n
<1>3. PICK f : Picks(f, q, S, n) /\ Only(q, S) = f[n]
  BY <1>1, OnlyPicks DEF n
<1>4. PICK g : Picks(g, r, S, n + 1) /\ Only(r, S) = g[n + 1]
  BY <1>1, <1>2, OnlyPicks
<1>5. f[n] = g[n]
  <2>1. \A k \in 1 .. n : q[k] = r[k]
    BY <1>1
  <2> QED
    BY <1>1, <1>2, <1>3, <1>4, <2>1, PicksSame
<1>6. g[n + 1] = IF r[n + 1] \in S THEN Append(g[n], r[n + 1]) ELSE g[n]
  BY <1>2, <1>4 DEF Picks
<1> QED
  BY <1>1, <1>3, <1>4, <1>5, <1>6 DEF r

(* A message at the front.                                                 *)
LEMMA OnlyHead ==
  ASSUME NEW M, NEW S, NEW q \in Seq(M), q # <<>>
  PROVE  Only(q, S) = (IF Head(q) \in S THEN <<Head(q)>> ELSE <<>>) \o Only(Tail(q), S)
<1> DEFINE r == Tail(q)
           n == Len(r)
           first == IF Head(q) \in S THEN <<Head(q)>> ELSE <<>>
<1>1. /\ n \in Nat /\ Len(q) = n + 1 /\ Head(q) = q[1]
      /\ \A k \in 1 .. n : r[k] = q[k + 1]
  BY HeadTailProperties, LenProperties, EmptySeq
<1>2. first \in Seq(S)
  BY EmptySeq
<1> HIDE DEF r, n, first
<1>3. PICK f : Picks(f, q, S, n + 1) /\ Only(q, S) = f[n + 1]
  BY <1>1, OnlyPicks
<1>4. PICK g : Picks(g, r, S, n) /\ Only(r, S) = g[n]
  BY <1>1, OnlyPicks DEF n
<1>5. \A k \in 0 .. n : g[k] \in Seq(S)
  BY <1>1, <1>4, PicksType
<1> DEFINE T == {k \in Nat : k <= n => f[k + 1] = first \o g[k]}
<1>6. 0 \in T
  <2>1. f[0] = <<>> /\ g[0] = <<>>
    BY <1>1, <1>3, <1>4 DEF Picks
  <2>2. 1 \in 0 .. n + 1 /\ 1 # 0 /\ 1 - 1 = 0 /\ 0 + 1 = 1
    BY <1>1
  <2>3. f[1] = IF q[1] \in S THEN Append(f[0], q[1]) ELSE f[0]
    <3>1. \A m \in 0 .. n + 1 : m # 0 =>
            f[m] = IF q[m] \in S THEN Append(f[m - 1], q[m]) ELSE f[m - 1]
      BY <1>3 DEF Picks
    <3> QED
      BY <2>2, <3>1
  <2>4. f[1] = first
    BY <1>1, <2>1, <2>3 DEF first
  <2>5. first \o <<>> = first
    BY <1>2, ConcatEmptySeq
  <2> QED
    BY <2>1, <2>2, <2>4, <2>5
<1>7. ASSUME NEW k \in Nat, k \in T PROVE k + 1 \in T
  <2> SUFFICES ASSUME k + 1 <= n PROVE f[(k + 1) + 1] = first \o g[k + 1]
    OBVIOUS
  <2>1. /\ f[k + 1] = first \o g[k] /\ k \in 0 .. n
        /\ k + 1 \in 0 .. n /\ k + 1 # 0 /\ (k + 1) - 1 = k /\ k + 1 \in 1 .. n
        /\ (k + 1) + 1 \in 0 .. n + 1 /\ (k + 1) + 1 # 0 /\ ((k + 1) + 1) - 1 = k + 1
    BY <1>1, <1>7
  <2> DEFINE e == r[k + 1]
  <2>2. e = q[(k + 1) + 1]
    BY <1>1, <2>1
  <2>3. g[k + 1] = IF e \in S THEN Append(g[k], e) ELSE g[k]
    BY <1>4, <2>1 DEF Picks
  <2>4. f[(k + 1) + 1] = IF e \in S THEN Append(f[k + 1], e) ELSE f[k + 1]
    BY <1>3, <2>1, <2>2 DEF Picks
  <2> HIDE DEF e
  <2>5. ASSUME e \in S PROVE Append(first \o g[k], e) = first \o Append(g[k], e)
    <3>1. g[k] \in Seq(S) /\ <<e>> \in Seq(S) /\ first \o g[k] \in Seq(S)
      BY <1>2, <1>5, <2>1, <2>5, ConcatProperties
    <3>2. Append(first \o g[k], e) = (first \o g[k]) \o <<e>> /\ Append(g[k], e) = g[k] \o <<e>>
      BY <2>5, <3>1, AppendIsConcat
    <3> DEFINE x == g[k]
               y == <<e>>
    <3>3. first \in Seq(S) /\ x \in Seq(S) /\ y \in Seq(S)
      BY <1>2, <3>1
    <3> HIDE DEF x, y
    <3>4. (first \o x) \o y = first \o (x \o y)
      BY <3>3, ConcatAssociative
    <3> QED
      BY <3>2, <3>4 DEF x, y
  <2> QED
    BY <2>1, <2>3, <2>4, <2>5
<1> HIDE DEF T
<1>8. \A k \in Nat : k \in T
  BY <1>6, <1>7, Induction
<1>9. n <= n
  BY <1>1
<1> QED
  BY <1>1, <1>3, <1>4, <1>8, <1>9 DEF T, r, first

(* Messages that are not in the set, at the end.                           *)
LEMMA OnlyConcat ==
  ASSUME NEW M, NEW S, NEW q \in Seq(M), NEW r \in Seq(M), \A k \in 1 .. Len(r) : r[k] \notin S
  PROVE  Only(q \o r, S) = Only(q, S)
<1> DEFINE c == q \o r
           n == Len(q)
           l == Len(r)
<1>1. /\ n \in Nat /\ l \in Nat /\ Len(c) = n + l
      /\ \A k \in 1 .. n + l : c[k] = IF k <= n THEN q[k] ELSE r[k - n]
  BY ConcatProperties, LenProperties
<1>2. \A k \in 1 .. l : r[k] \notin S
  OBVIOUS
<1> HIDE DEF c, n, l
<1>3. PICK f : Picks(f, q, S, n) /\ Only(q, S) = f[n]
  BY <1>1, OnlyPicks DEF n
<1>4. n + l \in Nat /\ n <= n + l /\ n <= n
  BY <1>1
<1>5. PICK g : Picks(g, c, S, n + l) /\ Only(c, S) = g[n + l]
  BY <1>1, <1>4, OnlyPicks
<1>6. f[n] = g[n]
  <2>1. \A k \in 1 .. n : k \in 1 .. n + l /\ k <= n
    BY <1>1
  <2>2. \A k \in 1 .. n : q[k] = c[k]
    BY <1>1, <2>1
  <2> QED
    BY <1>1, <1>3, <1>4, <1>5, <2>2, PicksSame
<1> DEFINE T == {k \in Nat : k <= l => g[n + k] = g[n]}
<1>7. 0 \in T
  <2>1. n + 0 = n
    BY <1>1
  <2> QED
    BY <2>1
<1>8. ASSUME NEW k \in Nat, k \in T PROVE k + 1 \in T
  <2> SUFFICES ASSUME k + 1 <= l PROVE g[n + (k + 1)] = g[n]
    OBVIOUS
  <2> DEFINE x == n + (k + 1)
  <2>1. /\ g[n + k] = g[n] /\ k + 1 \in 1 .. l
        /\ x \in 0 .. n + l /\ x \in 1 .. n + l /\ x # 0 /\ x - 1 = n + k
        /\ ~ (x <= n) /\ x - n = k + 1
    BY <1>1, <1>8
  <2> HIDE DEF x
  <2>2. c[x] \notin S
    BY <1>1, <1>2, <2>1
  <2>3. g[x] = g[x - 1]
    BY <1>5, <2>1, <2>2 DEF Picks
  <2> QED
    BY <2>1, <2>3 DEF x
<1> HIDE DEF T
<1>9. \A k \in Nat : k \in T
  BY <1>7, <1>8, Induction
<1>10. g[n + l] = g[n]
  <2>1. l <= l
    BY <1>1
  <2> QED
    BY <1>1, <1>9, <2>1 DEF T
<1> QED
  BY <1>3, <1>5, <1>6, <1>10 DEF c

(***************************************************************************)
(* Sequences put together.                                                 *)
(***************************************************************************)

(* The first of b moved to the end of a. *)
LEMMA Shift ==
  ASSUME NEW S, NEW c \in S, NEW a \in Seq(S), NEW b \in Seq(S)
  PROVE  Append(a, c) \o b = a \o (<<c>> \o b)
<1> DEFINE x == <<c>>
<1>1. x \in Seq(S) /\ Append(a, c) = a \o x
  BY AppendIsConcat
<1> HIDE DEF x
<1>2. (a \o x) \o b = a \o (x \o b)
  BY <1>1, ConcatAssociative
<1> QED
  BY <1>1, <1>2 DEF x

(* c in front of a and b. *)
LEMMA Regroup ==
  ASSUME NEW S, NEW c \in S, NEW a \in Seq(S), NEW b \in Seq(S)
  PROVE  (<<c>> \o a) \o b = <<c>> \o (a \o b)
<1> DEFINE x == <<c>>
<1>1. x \in Seq(S)
  OBVIOUS
<1> HIDE DEF x
<1>2. (x \o a) \o b = x \o (a \o b)
  BY <1>1, ConcatAssociative
<1> QED
  BY <1>2 DEF x

LEMMA FirstOfConcat ==
  ASSUME NEW S, NEW c \in S, NEW y \in Seq(S), NEW q, q = <<c>> \o y
  PROVE  q # <<>> /\ Head(q) = c /\ Tail(q) = y
<1> DEFINE x == <<c>>
           p == x \o y
<1>1. x \in Seq(S) /\ Len(x) = 1 /\ x[1] = c /\ q = p
  OBVIOUS
<1>2. Len(y) \in Nat
  BY LenProperties
<1> HIDE DEF x
<1>3. /\ p \in Seq(S) /\ Len(p) = Len(x) + Len(y)
      /\ \A k \in 1 .. Len(x) + Len(y) : p[k] = IF k <= Len(x) THEN x[k] ELSE y[k - Len(x)]
  BY <1>1, ConcatProperties
<1> HIDE DEF p
<1>4. /\ Len(p) = 1 + Len(y)
      /\ \A k \in 1 .. 1 + Len(y) : p[k] = IF k <= 1 THEN x[k] ELSE y[k - 1]
  BY <1>1, <1>3
<1>5. p # <<>>
  BY <1>2, <1>4, EmptySeq
<1>6. Head(p) = c
  <2>1. 1 \in 1 .. 1 + Len(y) /\ 1 <= 1
    BY <1>2
  <2>2. p[1] = x[1]
    BY <1>4, <2>1
  <2>3. Head(p) = p[1]
    BY <1>3, <1>5, HeadTailProperties
  <2> QED
    BY <1>1, <2>2, <2>3
<1>7. Tail(p) = y
  <2>1. /\ Tail(p) \in Seq(S) /\ Len(Tail(p)) = Len(p) - 1
        /\ \A k \in 1 .. Len(Tail(p)) : Tail(p)[k] = p[k + 1]
    BY <1>3, <1>5, HeadTailProperties
  <2>2. Len(Tail(p)) = Len(y)
    BY <1>2, <1>4, <2>1
  <2>3. \A k \in 1 .. Len(y) : k + 1 \in 1 .. 1 + Len(y) /\ ~ (k + 1 <= 1) /\ (k + 1) - 1 = k
    BY <1>2
  <2>4. \A k \in 1 .. Len(y) : Tail(p)[k] = y[k]
    BY <1>4, <2>1, <2>2, <2>3
  <2> QED
    BY <2>1, <2>2, <2>4, SeqEqual
<1> QED
  BY <1>1, <1>5, <1>6, <1>7

(* c at the end of a and b. *)
LEMMA AppendToConcat ==
  ASSUME NEW S, NEW c \in S, NEW a \in Seq(S), NEW b \in Seq(S)
  PROVE  a \o Append(b, c) = Append(a \o b, c)
<1> DEFINE x == <<c>>
<1>1. /\ x \in Seq(S) /\ Append(b, c) = b \o x
      /\ Append(a \o b, c) = (a \o b) \o x
  BY AppendIsConcat, ConcatProperties
<1> HIDE DEF x
<1>2. (a \o b) \o x = a \o (b \o x)
  BY <1>1, ConcatAssociative
<1> QED
  BY <1>1, <1>2

(***************************************************************************)
(* The commands under way.                                                 *)
(***************************************************************************)

AsCommand(m) == CommandMsg(m.type, m.subject, m.fn)

LEMMA CommandType ==
  ASSUME NEW m \in CommandMessage
  PROVE  AsCommand(m) \in Commands!Command
BY DEF AsCommand, CommandMessage, CommandMsg, SubscribeMsg, Commands!Command

LEMMA AskedSeq ==
  ASSUME NEW M, NEW q \in Seq(M)
  PROVE  /\ Only(q, CommandMessage) \in Seq(CommandMessage)
         /\ Asked(q) \in Seq(Commands!Command)
         /\ Len(Asked(q)) = Len(Only(q, CommandMessage))
         /\ \A k \in 1 .. Len(Asked(q)) : Asked(q)[k] = AsCommand(Only(q, CommandMessage)[k])
<1> DEFINE c == Only(q, CommandMessage)
           n == Len(c)
<1>1. c \in Seq(CommandMessage)
  BY OnlyType
<1>2. n \in Nat /\ DOMAIN c = 1 .. n
  BY <1>1, LenProperties
<1>3. \A k \in 1 .. n : AsCommand(c[k]) \in Commands!Command
  BY <1>1, ElementOfSeq, CommandType
<1>4. Asked(q) = [k \in 1 .. n |-> AsCommand(c[k])]
  BY <1>2 DEF Asked, AsCommand
<1> HIDE DEF c, n
<1>5. Asked(q) \in [1 .. n -> Commands!Command]
  BY <1>3, <1>4
<1>6. Asked(q) \in Seq(Commands!Command) /\ Len(Asked(q)) = n
  BY <1>2, <1>5
<1> QED
  BY <1>1, <1>4, <1>6 DEF c, n

LEMMA AskedAppend ==
  ASSUME NEW M, NEW q \in Seq(M), NEW m \in M
  PROVE  Asked(Append(q, m)) = IF m \in CommandMessage THEN Append(Asked(q), AsCommand(m))
                                                       ELSE Asked(q)
<1> DEFINE c == Only(q, CommandMessage)
           d == Only(Append(q, m), CommandMessage)
<1>1. d = IF m \in CommandMessage THEN Append(c, m) ELSE c
  BY OnlyAppend
<1>2. CASE m \notin CommandMessage
  BY <1>1, <1>2 DEF Asked
<1>3. CASE m \in CommandMessage
  <2>1. /\ c \in Seq(CommandMessage) /\ Len(Asked(q)) = Len(c) /\ Asked(q) \in Seq(Commands!Command)
        /\ \A k \in 1 .. Len(c) : Asked(q)[k] = AsCommand(c[k])
    BY AskedSeq
  <2>2. Append(q, m) \in Seq(M)
    BY AppendProperties
  <2>3. /\ Len(Asked(Append(q, m))) = Len(d) /\ Asked(Append(q, m)) \in Seq(Commands!Command)
        /\ \A k \in 1 .. Len(d) : Asked(Append(q, m))[k] = AsCommand(d[k])
    BY <2>2, AskedSeq
  <2>4. /\ d = Append(c, m) /\ Len(d) = Len(c) + 1 /\ d[Len(c) + 1] = m /\ Len(c) \in Nat
        /\ \A k \in 1 .. Len(c) : d[k] = c[k]
    BY <1>1, <1>3, <2>1, AppendProperties, LenProperties
  <2> DEFINE e == Append(Asked(q), AsCommand(m))
  <2>5. /\ e \in Seq(Commands!Command) /\ Len(e) = Len(c) + 1 /\ e[Len(c) + 1] = AsCommand(m)
        /\ \A k \in 1 .. Len(c) : e[k] = AsCommand(c[k])
    BY <1>3, <2>1, CommandType, AppendProperties
  <2> HIDE DEF c, d, e
  <2>6. \A k \in 1 .. Len(c) + 1 : k \in 1 .. Len(c) \/ k = Len(c) + 1
    BY <2>4
  <2>7. \A k \in 1 .. Len(c) + 1 : Asked(Append(q, m))[k] = e[k]
    BY <2>3, <2>4, <2>5, <2>6
  <2>8. Asked(Append(q, m)) = e
    BY <2>3, <2>4, <2>5, <2>7, SeqEqual
  <2> QED
    BY <1>3, <2>8 DEF e
<1> QED
  BY <1>2, <1>3

LEMMA AskedHead ==
  ASSUME NEW M, NEW q \in Seq(M), q # <<>>
  PROVE  Asked(q) = (IF Head(q) \in CommandMessage THEN <<AsCommand(Head(q))>> ELSE <<>>)
                      \o Asked(Tail(q))
<1> DEFINE m == Head(q)
           c == Only(Tail(q), CommandMessage)
           d == Only(q, CommandMessage)
<1>1. d = (IF m \in CommandMessage THEN <<m>> ELSE <<>>) \o c
  BY OnlyHead
<1>2. Tail(q) \in Seq(M)
  BY HeadTailProperties
<1>3. /\ c \in Seq(CommandMessage) /\ Asked(Tail(q)) \in Seq(Commands!Command)
      /\ Len(Asked(Tail(q))) = Len(c)
      /\ \A k \in 1 .. Len(c) : Asked(Tail(q))[k] = AsCommand(c[k])
  BY <1>2, AskedSeq
<1>4. CASE m \notin CommandMessage
  <2>1. d = c
    BY <1>1, <1>3, <1>4, ConcatEmptySeq
  <2>2. Asked(q) = Asked(Tail(q))
    BY <2>1 DEF Asked
  <2> QED
    BY <1>3, <1>4, <2>2, ConcatEmptySeq
<1>5. CASE m \in CommandMessage
  <2>1. /\ Len(Asked(q)) = Len(d) /\ Asked(q) \in Seq(Commands!Command)
        /\ \A k \in 1 .. Len(d) : Asked(q)[k] = AsCommand(d[k])
    BY AskedSeq
  <2> DEFINE e == <<AsCommand(m)>> \o Asked(Tail(q))
             n == Len(c)
  <2>2. /\ <<m>> \in Seq(CommandMessage) /\ Len(<<m>>) = 1 /\ <<m>>[1] = m
        /\ <<AsCommand(m)>> \in Seq(Commands!Command) /\ Len(<<AsCommand(m)>>) = 1
        /\ <<AsCommand(m)>>[1] = AsCommand(m) /\ n \in Nat
    BY <1>3, <1>5, CommandType, LenProperties
  <2>3. /\ Len(d) = 1 + n
        /\ \A k \in 1 .. 1 + n : d[k] = IF k <= 1 THEN <<m>>[k] ELSE c[k - 1]
    BY <1>1, <1>3, <1>5, <2>2, ConcatProperties
  <2>4. /\ e \in Seq(Commands!Command) /\ Len(e) = 1 + n
        /\ \A k \in 1 .. 1 + n :
             e[k] = IF k <= 1 THEN <<AsCommand(m)>>[k] ELSE Asked(Tail(q))[k - 1]
    BY <1>3, <2>2, ConcatProperties
  <2> HIDE DEF m, c, d, e
  <2>5. ASSUME NEW k \in 1 .. 1 + n PROVE Asked(q)[k] = e[k]
    <3>1. CASE k = 1
      <4>1. d[1] = m /\ e[1] = AsCommand(m)
        BY <2>2, <2>3, <2>4, <3>1
      <4> QED
        BY <2>1, <2>3, <3>1, <4>1
    <3>2. CASE k # 1
      <4>1. ~ (k <= 1) /\ k - 1 \in 1 .. n
        BY <2>2, <3>2
      <4>2. d[k] = c[k - 1] /\ e[k] = AsCommand(c[k - 1])
        BY <1>3, <2>3, <2>4, <4>1
      <4> QED
        BY <2>1, <2>3, <4>2
    <3> QED
      BY <3>1, <3>2
  <2>6. Asked(q) = e
    BY <2>1, <2>3, <2>4, <2>5, SeqEqual
  <2> QED
    BY <1>5, <2>6 DEF e, m
<1> QED
  BY <1>4, <1>5

LEMMA AskedConcat ==
  ASSUME NEW M, NEW q \in Seq(M), NEW r \in Seq(M),
         \A k \in 1 .. Len(r) : r[k] \notin CommandMessage
  PROVE  Asked(q \o r) = Asked(q)
BY OnlyConcat DEF Asked

(* A command in a queue of the subscriber; the other messages are none.    *)
LEMMA Kinds ==
  /\ \A m \in InternalMessage :
       /\ m \in CommandMessage <=> m.type = "Unsubscribe" \/ (m.type = "Subscribe" /\ m.register)
       /\ Row(m) <=> m = SubscribeMsg(FALSE, m.subject, m.fn) /\ m.type = "Subscribe"
  /\ \A m \in SubscriberMessage : m \in CommandMessage <=> m.type # "NewConfig"
<1>1. ASSUME NEW m \in InternalMessage
      PROVE  m \in CommandMessage <=> m.type = "Unsubscribe" \/ (m.type = "Subscribe" /\ m.register)
  BY DEF InternalMessage, CommandMessage, SubscribeMsg, UnsubscribeMsg, CallbackCall,
         UnsubscribeSubject, CommandMsg
<1>2. ASSUME NEW m \in InternalMessage
      PROVE  Row(m) <=> m = SubscribeMsg(FALSE, m.subject, m.fn) /\ m.type = "Subscribe"
  BY DEF InternalMessage, SubscribeMsg, UnsubscribeMsg, CallbackCall, UnsubscribeSubject, Row
<1>3. ASSUME NEW m \in SubscriberMessage PROVE m \in CommandMessage <=> m.type # "NewConfig"
  BY DEF SubscriberMessage, CommandMessage, SubscribeMsg, CommandMsg, ConfigMsg
<1> QED
  BY <1>1, <1>2, <1>3

LEMMA PendingTypes ==
  ASSUME TypeOK
  PROVE  /\ channel \in Seq(InternalMessage) /\ inbox \in Seq(SubscriberMessage)
         /\ Asked(channel) \in Seq(Commands!Command) /\ Asked(inbox) \in Seq(Commands!Command)
BY AskedSeq DEF TypeOK

LEMMA PendingAccepts ==
  ASSUME TypeOK, NEW m \in SubscriberMessage, m.type # "NewConfig",
         channel' = channel, inbox' = Append(inbox, m)
  PROVE  Pending' = Append(Pending, AsCommand(m)) /\ AsCommand(m) \in Commands!Command
<1> DEFINE a == Asked(channel)
           b == Asked(inbox)
           c == AsCommand(m)
<1>1. a \in Seq(Commands!Command) /\ b \in Seq(Commands!Command) /\ inbox \in Seq(SubscriberMessage)
  BY PendingTypes
<1>2. m \in CommandMessage
  BY Kinds
<1>3. c \in Commands!Command /\ <<c>> \in Seq(Commands!Command)
  BY <1>2, CommandType
<1>4. Asked(Append(inbox, m)) = Append(b, c)
  BY <1>1, <1>2, AskedAppend
<1>5. Asked(channel)' = a /\ Asked(inbox)' = Append(b, c)
  <2>1. Asked(channel') = a /\ Asked(inbox') = Append(b, c)
    BY <1>4
  <2> QED
    BY <2>1 DEF Asked, Only
<1> HIDE DEF a, b, c
<1>6. a \o Append(b, c) = Append(a \o b, c)
  BY <1>1, <1>3, AppendToConcat
<1> QED
  BY <1>3, <1>5, <1>6 DEF Pending, a, b, c

(* The loop takes a message from its channel: a command is the first of    *)
(* those under way.                                                        *)
LEMMA PendingTaken ==
  ASSUME TypeOK, channel # <<>>, channel' = Tail(channel), inbox' = inbox
  PROVE  /\ Head(channel) \in CommandMessage =>
              Pending # <<>> /\ Head(Pending) = AsCommand(Head(channel)) /\ Pending' = Tail(Pending)
         /\ Head(channel) \notin CommandMessage => Pending' = Pending
<1> DEFINE a == Asked(Tail(channel))
           b == Asked(inbox)
           c == AsCommand(Head(channel))
<1>1. /\ channel \in Seq(InternalMessage) /\ b \in Seq(Commands!Command)
      /\ Tail(channel) \in Seq(InternalMessage)
  BY PendingTypes, HeadTailProperties
<1>2. a \in Seq(Commands!Command)
  BY <1>1, AskedSeq
<1>3. Asked(channel)' = a /\ Asked(inbox)' = b
  <2>1. Asked(channel') = a /\ Asked(inbox') = b
    OBVIOUS
  <2> QED
    BY <2>1 DEF Asked, Only
<1>4. Pending' = a \o b /\ a \o b \in Seq(Commands!Command)
  BY <1>1, <1>2, <1>3, ConcatProperties DEF Pending
<1>5. ASSUME Head(channel) \in CommandMessage
      PROVE  Pending # <<>> /\ Head(Pending) = c /\ Pending' = Tail(Pending)
  <2>1. c \in Commands!Command
    BY <1>5, CommandType
  <2>2. Asked(channel) = <<c>> \o a
    BY <1>1, <1>5, AskedHead
  <2> HIDE DEF a, b, c
  <2>3. Pending = (<<c>> \o a) \o b
    BY <2>2 DEF Pending, b
  <2>4. Pending = <<c>> \o (a \o b)
    BY <1>1, <1>2, <2>1, <2>3, Regroup
  <2>5. Pending # <<>> /\ Head(Pending) = c /\ Tail(Pending) = a \o b
    BY <1>4, <2>1, <2>4, FirstOfConcat
  <2> QED
    BY <1>4, <2>5
<1>6. ASSUME Head(channel) \notin CommandMessage PROVE Pending' = Pending
  <2>1. Asked(channel) = <<>> \o a
    BY <1>1, <1>6, AskedHead
  <2>2. Asked(channel) = a
    BY <1>2, <2>1, ConcatEmptySeq
  <2> QED
    BY <1>4, <2>2 DEF Pending
<1> QED
  BY <1>5, <1>6

(* A command moves from the inbox to the channel. *)
LEMMA PendingMoves ==
  ASSUME TypeOK, inbox # <<>>, inbox' = Tail(inbox), Head(inbox) \in CommandMessage,
         NEW m \in InternalMessage, m \in CommandMessage, AsCommand(m) = AsCommand(Head(inbox)),
         channel' = Append(channel, m)
  PROVE  Pending' = Pending
<1> DEFINE a == Asked(channel)
           b == Asked(Tail(inbox))
           c == AsCommand(m)
<1>1. /\ channel \in Seq(InternalMessage) /\ a \in Seq(Commands!Command)
      /\ inbox \in Seq(SubscriberMessage) /\ Tail(inbox) \in Seq(SubscriberMessage)
  BY PendingTypes, HeadTailProperties
<1>2. b \in Seq(Commands!Command)
  BY <1>1, AskedSeq
<1>3. c \in Commands!Command
  BY CommandType
<1>4. Asked(channel)' = Append(a, c) /\ Asked(inbox)' = b
  <2>1. Asked(channel') = Append(a, c) /\ Asked(inbox') = b
    BY <1>1, AskedAppend
  <2> QED
    BY <2>1 DEF Asked, Only
<1>5. Asked(inbox) = <<c>> \o b
  BY <1>1, AskedHead
<1> HIDE DEF a, b, c
<1>6. Append(a, c) \o b = a \o (<<c>> \o b)
  BY <1>1, <1>2, <1>3, Shift
<1> QED
  BY <1>4, <1>5, <1>6 DEF Pending, a

(* Other messages come and go without an effect on the commands.           *)
LEMMA PendingKept ==
  ASSUME TypeOK,
         \/ channel' = channel
         \/ \E m \in InternalMessage : m \notin CommandMessage /\ channel' = Append(channel, m)
         \/ \E r \in Seq(InternalMessage) :
              channel' = channel \o r /\ \A k \in 1 .. Len(r) : r[k] \notin CommandMessage,
         \/ inbox' = inbox
         \/ inbox # <<>> /\ Head(inbox) \notin CommandMessage /\ inbox' = Tail(inbox)
         \/ \E m \in SubscriberMessage : m \notin CommandMessage /\ inbox' = Append(inbox, m)
  PROVE  Pending' = Pending
<1>1. /\ channel \in Seq(InternalMessage) /\ inbox \in Seq(SubscriberMessage)
      /\ Asked(channel) \in Seq(Commands!Command)
  BY PendingTypes
<1>2. Asked(channel') = Asked(channel)
  <2>1. CASE \E m \in InternalMessage : m \notin CommandMessage /\ channel' = Append(channel, m)
    BY <1>1, <2>1, AskedAppend
  <2>2. CASE \E r \in Seq(InternalMessage) :
               channel' = channel \o r /\ \A k \in 1 .. Len(r) : r[k] \notin CommandMessage
    BY <1>1, <2>2, AskedConcat
  <2>3. CASE channel' = channel
    BY <2>3
  <2> QED
    BY <2>1, <2>2, <2>3
<1>3. Asked(inbox') = Asked(inbox)
  <2>1. CASE inbox # <<>> /\ Head(inbox) \notin CommandMessage /\ inbox' = Tail(inbox)
    <3>1. Asked(inbox) = <<>> \o Asked(Tail(inbox))
      BY <1>1, <2>1, AskedHead
    <3>2. Asked(Tail(inbox)) \in Seq(Commands!Command)
      <4>1. Tail(inbox) \in Seq(SubscriberMessage)
        BY <1>1, <2>1, HeadTailProperties
      <4> QED
        BY <4>1, AskedSeq
    <3> QED
      BY <2>1, <3>1, <3>2, ConcatEmptySeq
  <2>2. CASE inbox' = inbox
    BY <2>2
  <2>3. CASE \E m \in SubscriberMessage : m \notin CommandMessage /\ inbox' = Append(inbox, m)
    BY <1>1, <2>3, AskedAppend
  <2> QED
    BY <2>1, <2>2, <2>3
<1>4. Asked(channel)' = Asked(channel) /\ Asked(inbox)' = Asked(inbox)
  BY <1>2, <1>3 DEF Asked, Only
<1> QED
  BY <1>4 DEF Pending

(***************************************************************************)
(* The rows that a scan found and the loop has not taken yet.              *)
(***************************************************************************)

(* No row is twice in q: taking it off takes its pair away. *)
RowsOnce(q) == \A j, k \in DOMAIN q : j < k /\ Row(q[j]) => q[j] # q[k]

RowPair(m) == <<m.subject, m.fn>>

LEMMA RowsFound ==
  ASSUME NEW q \in Seq(InternalMessage)
  PROVE  {p \in Pair : \E k \in DOMAIN q : q[k] = SubscribeMsg(FALSE, p[1], p[2])} = RowPairs(q)
<1>1. ASSUME NEW k \in DOMAIN q
      PROVE  /\ Row(q[k]) => RowPair(q[k]) \in Pair
             /\ Row(q[k]) => q[k] = SubscribeMsg(FALSE, q[k].subject, q[k].fn)
  <2>1. q[k] \in InternalMessage
    BY ElementOfSeq, LenProperties
  <2> QED
    BY <2>1, Kinds, InternalKinds DEF Row, RowPair, Pair
<1>2. \A x, y : /\ Row(SubscribeMsg(FALSE, x, y))
                /\ RowPair(SubscribeMsg(FALSE, x, y)) = <<x, y>>
  BY DEF Row, SubscribeMsg, RowPair
<1>3. \A p \in Pair : p = <<p[1], p[2]>>
  BY DEF Pair
<1>4. ASSUME NEW p \in Pair, NEW k \in DOMAIN q, q[k] = SubscribeMsg(FALSE, p[1], p[2])
      PROVE  p \in RowPairs(q)
  <2>1. Row(q[k]) /\ RowPair(q[k]) = p
    <3>1. /\ Row(SubscribeMsg(FALSE, p[1], p[2]))
          /\ RowPair(SubscribeMsg(FALSE, p[1], p[2])) = <<p[1], p[2]>>
      BY <1>2
    <3>2. p = <<p[1], p[2]>>
      BY <1>3
    <3> QED
      BY <1>4, <3>1, <3>2
  <2> QED
    BY <2>1 DEF RowPairs, RowPair
<1>5. ASSUME NEW k \in DOMAIN q, Row(q[k])
      PROVE  /\ RowPair(q[k]) \in Pair
             /\ q[k] = SubscribeMsg(FALSE, RowPair(q[k])[1], RowPair(q[k])[2])
  BY <1>1, <1>5 DEF RowPair
<1>6. \A p \in RowPairs(q) : \E k \in DOMAIN q : Row(q[k]) /\ p = RowPair(q[k])
  BY DEF RowPairs, RowPair
<1> QED
  BY <1>4, <1>5, <1>6

LEMMA RestoringRows ==
  /\ channel \in Seq(InternalMessage) => Restoring = RowPairs(channel)
  /\ channel' \in Seq(InternalMessage) => Restoring' = RowPairs(channel')
BY RowsFound DEF Restoring, InChannel

LEMMA OnceAppend ==
  ASSUME NEW c \in Seq(InternalMessage), NEW n \in InternalMessage, ~ Row(n)
  PROVE  /\ RowPairs(Append(c, n)) = RowPairs(c)
         /\ RowsOnce(c) => RowsOnce(Append(c, n))
<1> DEFINE d == Append(c, n)
<1>1. /\ Len(c) \in Nat /\ DOMAIN c = 1 .. Len(c) /\ DOMAIN d = 1 .. Len(c) + 1
      /\ \A k \in 1 .. Len(c) : d[k] = c[k]
      /\ d[Len(c) + 1] = n
  BY AppendProperties, LenProperties
<1> HIDE DEF d
<1>2. \A k \in DOMAIN d : \/ k \in DOMAIN c /\ d[k] = c[k]
                          \/ ~ Row(d[k])
  BY <1>1
<1>3. \A k \in DOMAIN c : k \in DOMAIN d /\ d[k] = c[k]
  BY <1>1
<1>4. RowPairs(d) = RowPairs(c)
  <2>1. RowPairs(d) \subseteq RowPairs(c)
    BY <1>2 DEF RowPairs
  <2>2. RowPairs(c) \subseteq RowPairs(d)
    BY <1>3 DEF RowPairs
  <2> QED
    BY <2>1, <2>2
<1>5. RowsOnce(c) => RowsOnce(d)
  BY <1>2 DEF RowsOnce
<1> QED
  BY <1>4, <1>5 DEF d

LEMMA OnceTail ==
  ASSUME NEW c \in Seq(InternalMessage), c # <<>>, RowsOnce(c)
  PROVE  /\ RowsOnce(Tail(c))
         /\ Row(Head(c)) => /\ RowPair(Head(c)) \in RowPairs(c)
                            /\ RowPairs(Tail(c)) = RowPairs(c) \ {RowPair(Head(c))}
         /\ ~ Row(Head(c)) => RowPairs(Tail(c)) = RowPairs(c)
<1> DEFINE d == Tail(c)
           h == Head(c)
<1>1. /\ Len(c) \in Nat /\ Len(c) # 0 /\ DOMAIN c = 1 .. Len(c) /\ DOMAIN d = 1 .. Len(c) - 1
      /\ h = c[1] /\ \A k \in 1 .. Len(c) - 1 : d[k] = c[k + 1]
  <2>1. /\ d \in Seq(InternalMessage) /\ Len(d) = Len(c) - 1 /\ Len(c) \in Nat /\ Len(c) # 0
        /\ \A k \in 1 .. Len(d) : d[k] = c[k + 1]
    BY HeadTailProperties, LenProperties, EmptySeq
  <2>2. DOMAIN c = 1 .. Len(c) /\ DOMAIN d = 1 .. Len(c) - 1
    BY <2>1, LenProperties
  <2> QED
    BY <2>1, <2>2
<1> HIDE DEF d, h
<1>2. /\ 1 \in DOMAIN c
      /\ \A k \in DOMAIN d : k \in Nat /\ k + 1 \in DOMAIN c /\ 1 < k + 1 /\ d[k] = c[k + 1]
  BY <1>1
<1>3. \A k \in DOMAIN c : k = 1 \/ (k - 1 \in DOMAIN d /\ d[k - 1] = c[k])
  <2>1. \A k \in 1 .. Len(c) : k = 1 \/ (k - 1 \in 1 .. Len(c) - 1 /\ (k - 1) + 1 = k)
    BY <1>1
  <2> QED
    BY <1>1, <2>1
<1>4. RowsOnce(d)
  <2>1. ASSUME NEW j \in DOMAIN d, NEW k \in DOMAIN d, j < k, Row(d[j]) PROVE d[j] # d[k]
    <3>1. /\ j + 1 \in DOMAIN c /\ k + 1 \in DOMAIN c /\ j + 1 < k + 1
          /\ d[j] = c[j + 1] /\ d[k] = c[k + 1]
      BY <1>2, <2>1
    <3> QED
      BY <2>1, <3>1 DEF RowsOnce
  <2> QED
    BY <2>1 DEF RowsOnce
<1>5. RowPairs(d) \subseteq RowPairs(c)
  BY <1>2 DEF RowPairs
<1>6. \A p \in RowPairs(c) : p \in RowPairs(d) \/ (Row(h) /\ p = RowPair(h))
  <2>1. ASSUME NEW k \in DOMAIN c, Row(c[k])
        PROVE  RowPair(c[k]) \in RowPairs(d) \/ (Row(h) /\ RowPair(c[k]) = RowPair(h))
    <3>1. CASE k = 1
      BY <1>1, <2>1, <3>1
    <3>2. CASE k - 1 \in DOMAIN d /\ d[k - 1] = c[k]
      BY <2>1, <3>2 DEF RowPairs, RowPair
    <3> QED
      BY <1>3, <3>1, <3>2
  <2>2. \A p \in RowPairs(c) : \E k \in DOMAIN c : Row(c[k]) /\ p = RowPair(c[k])
    BY DEF RowPairs, RowPair
  <2> QED
    BY <2>1, <2>2
<1>7. ASSUME Row(h) PROVE RowPair(h) \in RowPairs(c) /\ RowPair(h) \notin RowPairs(d)
  <2>1. RowPair(h) \in RowPairs(c)
    BY <1>1, <1>2, <1>7 DEF RowPairs, RowPair
  <2>2. ASSUME NEW k \in DOMAIN d, Row(d[k]) PROVE RowPair(d[k]) # RowPair(h)
    <3>1. d[k] # h
      BY <1>1, <1>2, <1>7 DEF RowsOnce
    <3>2. d[k] \in InternalMessage /\ h \in InternalMessage
      BY <1>1, <1>2, ElementOfSeq
    <3>3. /\ d[k] = SubscribeMsg(FALSE, d[k].subject, d[k].fn)
          /\ h = SubscribeMsg(FALSE, h.subject, h.fn)
      BY <1>7, <2>2, <3>2, Kinds
    <3> QED
      BY <3>1, <3>3 DEF RowPair
  <2>3. \A p \in RowPairs(d) : \E k \in DOMAIN d : Row(d[k]) /\ p = RowPair(d[k])
    BY DEF RowPairs, RowPair
  <2> QED
    BY <2>1, <2>2, <2>3
<1> QED
  BY <1>4, <1>5, <1>6, <1>7 DEF d, h

(* A scan finds every pair of the table, once. *)
LEMMA RestoredOnce ==
  ASSUME table \subseteq Pair, NEW rows \in Restored
  PROVE  /\ rows \in Seq(InternalMessage) /\ RowPairs(rows) = table /\ RowsOnce(rows)
         /\ \A k \in DOMAIN rows : Row(rows[k]) /\ rows[k] \notin CommandMessage
<1> DEFINE n == Cardinality(table)
<1>1. IsFiniteSet(table) /\ n \in Nat
  <2>1. IsFiniteSet(Pair)
    BY FS_Product, SubscriberAssumption DEF Pair, SubscriberAssumption
  <2> QED
    BY <2>1, FS_Subset, FS_CardinalityType
<1>2. PICK r \in [1 .. n -> table] :
        /\ \A p \in table : \E k \in DOMAIN r : r[k] = p
        /\ rows = [k \in DOMAIN r |-> SubscribeMsg(FALSE, r[k][1], r[k][2])]
  BY DEF Restored
<1>3. r \in Injection(1 .. n, table)
  <2>1. r \in Surjection(1 .. n, table)
    BY <1>2 DEF Surjection
  <2>2. IsFiniteSet(1 .. n) /\ Cardinality(1 .. n) = n
    <3>1. 1 \in Int /\ n \in Int /\ (1 > n => n = 0) /\ n - 1 + 1 = n
      BY <1>1
    <3> HIDE DEF n
    <3> QED
      BY <3>1, FS_Interval
  <2> QED
    BY <2>1, <2>2, FS_Surjection
<1> HIDE DEF n
<1>4. DOMAIN rows = 1 .. n /\ DOMAIN r = 1 .. n
  BY <1>2
<1>5. ASSUME NEW k \in 1 .. n
      PROVE  /\ r[k] \in table /\ r[k] = <<r[k][1], r[k][2]>>
             /\ rows[k] = SubscribeMsg(FALSE, r[k][1], r[k][2])
             /\ Row(rows[k]) /\ RowPair(rows[k]) = r[k]
  <2>1. r[k] \in table /\ rows[k] = SubscribeMsg(FALSE, r[k][1], r[k][2])
    BY <1>2
  <2>2. r[k] = <<r[k][1], r[k][2]>>
    BY <2>1 DEF Pair
  <2> QED
    BY <2>1, <2>2 DEF Row, RowPair, SubscribeMsg
<1>6. RowPairs(rows) = table
  <2>1. RowPairs(rows) \subseteq table
    BY <1>4, <1>5 DEF RowPairs, RowPair
  <2>2. table \subseteq RowPairs(rows)
    BY <1>2, <1>4, <1>5 DEF RowPairs, RowPair
  <2> QED
    BY <2>1, <2>2
<1>7. RowsOnce(rows)
  <2>1. ASSUME NEW j \in 1 .. n, NEW k \in 1 .. n, j < k PROVE rows[j] # rows[k]
    <3>1. j # k
      BY <1>1, <2>1
    <3>2. r[j] # r[k]
      BY <1>3, <3>1 DEF Injection, IsInjective
    <3> QED
      BY <1>5, <3>2
  <2> QED
    BY <1>4, <2>1 DEF RowsOnce
<1>8. rows \in Seq(InternalMessage)
  BY RestoredRows
<1>9. ASSUME NEW k \in DOMAIN rows PROVE rows[k] \notin CommandMessage
  <2>1. rows[k] \in InternalMessage /\ Row(rows[k])
    BY <1>4, <1>5, <1>8, ElementOfSeq, LenProperties
  <2> QED
    BY <2>1, Kinds DEF Row
<1> QED
  BY <1>4, <1>5, <1>6, <1>7, <1>8, <1>9

(* The rows of a scan, after a channel that holds none. *)
LEMMA OnceConcat ==
  ASSUME NEW c \in Seq(InternalMessage), RowPairs(c) = {}, table \subseteq Pair, NEW rows \in Restored
  PROVE  RowPairs(c \o rows) = table /\ RowsOnce(c \o rows)
<1> DEFINE d == c \o rows
<1>1. /\ rows \in Seq(InternalMessage) /\ RowPairs(rows) = table /\ RowsOnce(rows)
      /\ \A k \in DOMAIN rows : Row(rows[k])
  BY RestoredOnce
<1>2. /\ Len(c) \in Nat /\ Len(rows) \in Nat
      /\ DOMAIN c = 1 .. Len(c) /\ DOMAIN rows = 1 .. Len(rows)
      /\ DOMAIN d = 1 .. Len(c) + Len(rows)
      /\ \A k \in 1 .. Len(c) + Len(rows) : d[k] = IF k <= Len(c) THEN c[k] ELSE rows[k - Len(c)]
  BY <1>1, ConcatProperties, LenProperties
<1> DEFINE a == Len(c)
           b == Len(rows)
<1> HIDE DEF d, a, b
<1>3. \A k \in DOMAIN c : ~ Row(c[k])
  BY DEF RowPairs
<1>4. ASSUME NEW k \in DOMAIN d
      PROVE  \/ k \in DOMAIN c /\ d[k] = c[k] /\ ~ Row(d[k])
             \/ k \in Int /\ a \in Nat /\ k - a \in DOMAIN rows /\ d[k] = rows[k - a]
  <2>1. k \in 1 .. a + b /\ a \in Nat /\ b \in Nat
    BY <1>2 DEF a, b
  <2>2. IF k <= a THEN k \in 1 .. a ELSE k \in Int /\ k - a \in 1 .. b
    BY <2>1
  <2> QED
    BY <1>2, <1>3, <2>1, <2>2 DEF a, b
<1>5. ASSUME NEW k \in DOMAIN rows PROVE k + a \in DOMAIN d /\ d[k + a] = rows[k]
  <2>1. k \in 1 .. b /\ a \in Nat /\ b \in Nat
    BY <1>2 DEF a, b
  <2>2. k + a \in 1 .. a + b /\ ~ (k + a <= a) /\ (k + a) - a = k
    BY <2>1
  <2> QED
    BY <1>2, <2>2 DEF a, b
<1>6. RowPairs(d) = RowPairs(rows)
  <2>1. RowPairs(d) \subseteq RowPairs(rows)
    BY <1>4 DEF RowPairs
  <2>2. RowPairs(rows) \subseteq RowPairs(d)
    BY <1>5 DEF RowPairs
  <2> QED
    BY <2>1, <2>2
<1>7. RowsOnce(d)
  <2>1. ASSUME NEW j \in DOMAIN d, NEW k \in DOMAIN d, j < k, Row(d[j]) PROVE d[j] # d[k]
    <3>1. j \in Int /\ a \in Nat /\ j - a \in DOMAIN rows /\ d[j] = rows[j - a]
      BY <1>4, <2>1
    <3>2. CASE ~ Row(d[k])
      BY <2>1, <3>2
    <3>3. CASE k \in Int /\ k - a \in DOMAIN rows /\ d[k] = rows[k - a]
      <4>1. j - a < k - a
        BY <2>1, <3>1, <3>3
      <4> QED
        BY <1>1, <2>1, <3>1, <3>3, <4>1 DEF RowsOnce
    <3> QED
      BY <1>4, <3>2, <3>3
  <2> QED
    BY <2>1 DEF RowsOnce
<1> QED
  BY <1>1, <1>6, <1>7 DEF d

(***************************************************************************)
(* The steps of the abstract specification, said of the variables here.    *)
(***************************************************************************)

LEMMA Stutters ==
  ASSUME pc' # "stopped" <=> pc # "stopped", status' = status,
         UNCHANGED <<Pending, table, Restoring, Serving, functions>>
  PROVE  UNCHANGED Commands!vars
<1>1. (pc # "stopped")' = (pc # "stopped") /\ (status = "Master")' = (status = "Master")
  OBVIOUS
<1> QED
  BY <1>1 DEF Commands!vars

LEMMA Accepts ==
  ASSUME pc # "stopped", NEW c \in Commands!Command, Pending' = Append(Pending, c),
         UNCHANGED <<pc, status, table, Restoring, Serving, functions>>
  PROVE  Commands!Accept(c)
<1>1. (pc # "stopped")' = (pc # "stopped") /\ (status = "Master")' = (status = "Master")
  OBVIOUS
<1> QED
  BY <1>1 DEF Commands!Accept

LEMMA Applies ==
  ASSUME pc # "stopped", status = "Master", UNCHANGED <<pc, status, Restoring, functions>>,
         Pending # <<>>, Pending' = Tail(Pending), NEW c, Head(Pending) = c,
         \/ /\ c.type = "Subscribe"
            /\ Serving' = Serving \cup {Commands!PairOf(c)}
            /\ table' = table \cup {Commands!PairOf(c)} \/ table' = table
         \/ /\ c.type # "Subscribe"
            /\ Serving' = Serving \ {Commands!PairOf(c)}
            /\ table' = table \ {Commands!PairOf(c)} \/ table' = table
  PROVE  Commands!Apply
<1>1. (pc # "stopped")' = (pc # "stopped") /\ (status = "Master")' = (status = "Master")
  OBVIOUS
<1> QED
  BY <1>1 DEF Commands!Apply, Commands!Taken

LEMMA Ignores ==
  ASSUME pc # "stopped", status # "Master", Pending # <<>>, Pending' = Tail(Pending),
         UNCHANGED <<pc, status, table, Restoring, Serving, functions>>
  PROVE  Commands!Ignore
<1>1. (pc # "stopped")' = (pc # "stopped") /\ (status = "Master")' = (status = "Master")
  OBVIOUS
<1> QED
  BY <1>1 DEF Commands!Ignore, Commands!Taken

LEMMA Serves ==
  ASSUME pc # "stopped", NEW p \in Restoring, Restoring' = Restoring \ {p},
         Serving' = IF status = "Master" THEN Serving \cup {p} ELSE Serving,
         UNCHANGED <<pc, status, Pending, table, functions>>
  PROVE  Commands!Serve(p)
<1>1. (pc # "stopped")' = (pc # "stopped") /\ (status = "Master")' = (status = "Master")
  OBVIOUS
<1> QED
  BY <1>1 DEF Commands!Serve

LEMMA Forgets ==
  ASSUME NEW S \in SUBSET Serving, \A p \in S : p[2] \notin functions \/ p[1] \in Invalid,
         Serving' = Serving \ S,
         UNCHANGED <<pc, status, Pending, table, Restoring, functions>>
  PROVE  Commands!Forget(S)
<1>1. (pc # "stopped")' = (pc # "stopped") /\ (status = "Master")' = (status = "Master")
  OBVIOUS
<1> QED
  BY <1>1 DEF Commands!Forget

LEMMA Starts ==
  ASSUME pc = "stopped", pc' # "stopped",
         Restoring' = {} \/ (status' = "Master" /\ Restoring' = table),
         UNCHANGED <<Pending, table, Serving, functions>>
  PROVE  Commands!Start
<1>1. (status = "Master")' \in BOOLEAN
  OBVIOUS
<1>2. ~ (pc # "stopped") /\ (pc # "stopped")'
  OBVIOUS
<1> QED
  BY <1>1, <1>2 DEF Commands!Start

LEMMA Promotes ==
  ASSUME pc # "stopped", pc' # "stopped", status # "Master", status' = "Master",
         Restoring' = Restoring \/ Restoring' = Restoring \cup table,
         UNCHANGED <<Pending, table, Serving, functions>>
  PROVE  Commands!Promote
<1>1. (pc # "stopped")' = (pc # "stopped") /\ ~ (status = "Master") /\ (status = "Master")'
  OBVIOUS
<1> QED
  BY <1>1 DEF Commands!Promote

LEMMA Demotes ==
  ASSUME pc # "stopped", pc' # "stopped", status = "Master", status' # "Master",
         Serving' = {}, UNCHANGED <<Pending, table, Restoring, functions>>
  PROVE  Commands!Demote
<1>1. (pc # "stopped")' = (pc # "stopped") /\ (status = "Master") /\ ~ (status = "Master")'
  OBVIOUS
<1> QED
  BY <1>1 DEF Commands!Demote

LEMMA Stops ==
  ASSUME pc # "stopped", pc' = "stopped", Pending' = <<>>, Restoring' = {}, Serving' = {},
         UNCHANGED <<status, table, functions>>
  PROVE  Commands!Stop
<1>1. (pc # "stopped") /\ ~ (pc # "stopped")' /\ (status = "Master")' = (status = "Master")
  OBVIOUS
<1> QED
  BY <1>1 DEF Commands!Stop

LEMMA Drops ==
  ASSUME NEW f, functions' = functions \ {f}, table' = {p \in table : p[2] # f},
         UNCHANGED <<pc, status, Pending, Restoring, Serving>>
  PROVE  Commands!Drop(f)
<1>1. (pc # "stopped")' = (pc # "stopped") /\ (status = "Master")' = (status = "Master")
  OBVIOUS
<1> QED
  BY <1>1 DEF Commands!Drop

LEMMA Creates ==
  ASSUME NEW f, functions' = functions \cup {f},
         UNCHANGED <<pc, status, Pending, table, Restoring, Serving>>
  PROVE  Commands!Create(f)
<1>1. (pc # "stopped")' = (pc # "stopped") /\ (status = "Master")' = (status = "Master")
  OBVIOUS
<1> QED
  BY <1>1 DEF Commands!Create

(***************************************************************************)
(* The inductive invariant of the refinement: a row is in the channel once,*)
(* which scans keep since they are made where it holds none; only subjects *)
(* that NATS refuses are reported; a worker that has ended left nothing.   *)
(***************************************************************************)

Refining ==
  /\ RowsOnce(channel) /\ Reports(channel)
  /\ pc = "latch" /\ status = "Replica" => RowPairs(channel) = {}
  /\ pc = "stopped" => channel = <<>> /\ \A i \in Task : task[i] = FreeTask

LEMMA RefiningKept ==
  ASSUME TypeOK, Refining,
         \/ channel' = channel
         \/ \E n \in InternalMessage :
              /\ ~ Row(n) /\ channel' = Append(channel, n)
              /\ n.type = "UnsubscribeSubject" => n.subject \in Invalid
         \/ channel # <<>> /\ channel' = Tail(channel),
         pc' = "latch" /\ status' = "Replica" =>
           channel' = <<>> \/ (pc = "latch" /\ status = "Replica"),
         pc' = "stopped" => channel' = <<>> /\ \A i \in Task : task'[i] = FreeTask
  PROVE  Refining'
<1>1. channel \in Seq(InternalMessage) /\ RowsOnce(channel) /\ Reports(channel)
  BY DEF TypeOK, Refining
<1>2. RowsOnce(channel') /\ RowPairs(channel') \subseteq RowPairs(channel)
  BY <1>1, OnceAppend, OnceTail
<1>3. Reports(channel')
  BY <1>1, ReportsChanged
<1>4. RowPairs(<<>>) = {}
  BY DEF RowPairs
<1>5. pc' = "latch" /\ status' = "Replica" => RowPairs(channel') = {}
  BY <1>2, <1>4 DEF Refining
<1> QED
  BY <1>2, <1>3, <1>5 DEF Refining

(* Messages put at the end by the tasks and the loop. *)
LEMMA NoRows ==
  /\ \A s \in Subject, n \in 1 .. MaxMsgs : ~ Row(CallbackCall(s, n))
  /\ \A s \in Subject : ~ Row(UnsubscribeSubject(s))
  /\ \A s, f : ~ Row(SubscribeMsg(TRUE, s, f)) /\ ~ Row(UnsubscribeMsg(s, f))
BY DEF Row, CallbackCall, UnsubscribeSubject, SubscribeMsg, UnsubscribeMsg

LEMMA RefiningWorker ==
  ASSUME TypeOK, Refining, Start \/ WorkerStep
  PROVE  Refining'
<1>0. /\ inbox \in Seq(SubscriberMessage) /\ channel \in Seq(InternalMessage)
      /\ table \subseteq Pair /\ Reports(channel) /\ RowsOnce(channel)
  BY DEF TypeOK, Refining
<1>1. CASE Start
  <2>1. pc = "stopped" /\ pc' = "latch" /\ channel = <<>>
    BY <1>1 DEF Start, Refining
  <2>2. CASE channel' = channel
    BY <2>1, <2>2, RefiningKept
  <2>3. CASE channel' \in Restored /\ ~ recovery
    <3>1. RowsOnce(channel')
      BY <1>0, <2>3, RestoredOnce
    <3>2. Reports(channel')
      BY <1>0, <2>3, ReportsChanged
    <3>3. status' = "Master"
      BY <1>1, <2>3 DEF Start, Role
    <3> QED
      BY <2>1, <3>1, <3>2, <3>3 DEF Refining
  <2> QED
    BY <1>1, <2>2, <2>3 DEF Start
<1>2. CASE CheckMigration
  <2>1. pc = "latch" /\ pc' = "queue"
    BY <1>2 DEF CheckMigration
  <2>2. CASE channel' = channel
    BY <2>1, <2>2, RefiningKept
  <2>3. ASSUME status = "Replica", NEW rows \in Restored, channel' = channel \o rows
        PROVE  Refining'
    <3>1. RowPairs(channel) = {}
      BY <2>1, <2>3 DEF Refining
    <3>2. RowsOnce(channel')
      BY <1>0, <2>3, <3>1, OnceConcat
    <3>3. Reports(channel')
      BY <1>0, <2>3, ReportsChanged
    <3> QED
      BY <2>1, <3>2, <3>3 DEF Refining
  <2> QED
    BY <1>2, <2>2, <2>3 DEF CheckMigration, MigrateUp
<1>3. CASE QueueCommand
  <2>1. pc = "queue" /\ pc' = pc /\ Head(inbox) \in SubscriberMessage
    BY <1>3, InboxHead DEF QueueCommand, TakeInbox, loop
  <2>2. PICK n \in InternalMessage :
          /\ channel' = Append(channel, n) /\ n.type \in {"Subscribe", "Unsubscribe"}
          /\ n.type = "Subscribe" => n.register
    BY <1>3, CommandTaken DEF QueueCommand, TakeInbox
  <2>3. ~ Row(n) /\ n.type # "UnsubscribeSubject"
    BY <2>2 DEF Row
  <2> QED
    BY <2>1, <2>2, <2>3, RefiningKept
<1>4. CASE ApplyConfig \/ QueueEmpty
  <2>1. channel' = channel /\ pc = "queue" /\ pc' \in {"queue", "channel"}
    BY <1>4 DEF ApplyConfig, QueueEmpty, TakeInbox
  <2> QED
    BY <2>1, RefiningKept
<1>5. CASE ChannelEmpty
  <2>1. channel' = channel /\ channel = <<>> /\ pc' = "latch"
    BY <1>5 DEF ChannelEmpty
  <2> QED
    BY <2>1, RefiningKept
<1>6. CASE IgnoreOnReplica \/ HandleSubscribe \/ HandleUnsubscribe \/ HandleCallback
             \/ HandleUnsubscribeSubject
  <2>1. TakeChannel /\ pc' = pc
    BY <1>6 DEF IgnoreOnReplica, HandleSubscribe, HandleUnsubscribe, HandleCallback,
                HandleUnsubscribeSubject, TakeInternal, loop
  <2> QED
    BY <2>1, RefiningKept DEF TakeChannel
<1> QED
  BY <1>1, <1>2, <1>3, <1>4, <1>5, <1>6 DEF WorkerStep

LEMMA RefiningTask ==
  ASSUME TypeOK, Refining, NEW i \in Task, TaskStep(i)
  PROVE  Refining'
<1>1. task[i].st # "free" /\ task[i] # FreeTask
  BY DEF TaskStep, Listen, Forward, Cancel, FreeTask
<1>2. pc # "stopped" /\ UNCHANGED <<pc, status>>
  BY <1>1 DEF Refining, TaskStep, Listen, Forward, Cancel, loop
<1>3. CASE channel' = channel
  BY <1>2, <1>3, RefiningKept
<1>4. CASE channel' # channel
  <2>1. PICK m \in InternalMessage :
          /\ channel' = Append(channel, m)
          /\ m.type \in {"UnsubscribeSubject", "CallbackCall"}
          /\ m.type = "UnsubscribeSubject" => m.subject \in Invalid
    BY <1>4, TaskSends
  <2>2. ~ Row(m)
    BY <2>1 DEF Row
  <2> QED
    BY <1>2, <2>1, <2>2, RefiningKept
<1> QED
  BY <1>3, <1>4

LEMMA RefiningEnvironment ==
  ASSUME TypeOK, Refining, Environment
  PROVE  Refining'
<1>1. CASE Exit
  <2>1. /\ pc' = "stopped" /\ channel' = <<>> /\ task' = [j \in Task |-> FreeTask]
    BY <1>1 DEF Exit
  <2>2. RowsOnce(<<>>) /\ Reports(<<>>) /\ RowPairs(<<>>) = {}
    BY DEF RowsOnce, Reports, RowPairs
  <2> QED
    BY <2>1, <2>2 DEF Refining
<1>2. CASE ~ Exit
  <2>1. UNCHANGED <<pc, status, channel>>
    BY <1>2 DEF Environment, SendCommand, SendConfig, Publish, DropFunction, CreateFunction,
                ChangeRole, loop
  <2>2. pc = "stopped" => \A i \in Task : task'[i] = FreeTask
    <3>1. CASE UNCHANGED task
      BY <3>1 DEF Refining
    <3>2. ASSUME NEW s \in Subject, Publish(s), pc = "stopped"
          PROVE  \A i \in Task : task'[i] = FreeTask
      <4>1. \A i \in Task : task[i] = FreeTask
        BY <3>2 DEF Refining
      <4>2. \A i \in Task : task'[i] = task[i]
        <5>1. \A i \in Task : task[i].st # "listening"
          BY <4>1 DEF FreeTask
        <5> QED
          BY <3>2, <5>1 DEF Publish
      <4> QED
        BY <4>1, <4>2
    <3> QED
      BY <1>2, <3>1, <3>2 DEF Environment, SendCommand, SendConfig, DropFunction,
                              CreateFunction, ChangeRole
  <2> QED
    BY <2>1, <2>2, RefiningKept DEF Refining
<1> QED
  BY <1>1, <1>2

LEMMA RefiningHolds == Spec => []Refining
<1>1. Init => Refining
  BY DEF Init, Refining, RowsOnce, Reports, RowPairs
<1>2. TypeOK /\ Refining /\ [Next]_vars => Refining'
  <2>1. CASE UNCHANGED vars
    BY <2>1 DEF vars, loop, Refining
  <2> QED
    BY <2>1, RefiningWorker, RefiningTask, RefiningEnvironment DEF Next
<1> QED
  BY <1>1, <1>2, TypeCorrect, PTL DEF Spec

(***************************************************************************)
(* Every step is a step of SubscriptionCommands or changes nothing there.  *)
(***************************************************************************)

LEMMA RestoringKept ==
  ASSUME TypeOK, Refining,
         \/ channel' = channel
         \/ \E n \in InternalMessage : ~ Row(n) /\ channel' = Append(channel, n)
         \/ channel # <<>> /\ ~ Row(Head(channel)) /\ channel' = Tail(channel)
  PROVE  Restoring' = Restoring
<1>1. channel \in Seq(InternalMessage) /\ RowsOnce(channel)
  BY DEF TypeOK, Refining
<1>2. RowPairs(channel') = RowPairs(channel)
  BY <1>1, OnceAppend, OnceTail
<1>3. channel' \in Seq(InternalMessage)
  BY <1>1, AppendProperties, HeadTailProperties
<1> QED
  BY <1>1, <1>2, <1>3, RestoringRows

(* A row is taken. *)
LEMMA RestoringTaken ==
  ASSUME TypeOK, Refining, channel # <<>>, Row(Head(channel)), channel' = Tail(channel)
  PROVE  /\ RowPair(Head(channel)) \in Restoring
         /\ Restoring' = Restoring \ {RowPair(Head(channel))}
<1>1. channel \in Seq(InternalMessage) /\ RowsOnce(channel) /\ channel' \in Seq(InternalMessage)
  BY HeadTailProperties DEF TypeOK, Refining
<1>2. Restoring = RowPairs(channel) /\ Restoring' = RowPairs(Tail(channel))
  BY <1>1, RestoringRows
<1> QED
  BY <1>1, <1>2, OnceTail

LEMMA ServingKept ==
  ASSUME \A s \in Subject : Funcs(s)' = Funcs(s)
  PROVE  Serving' = Serving
BY DEF Serving, Pair

(* The functions of one subject change. *)
LEMMA ServingChanged ==
  ASSUME NEW s \in Subject, NEW F, \A t \in Subject : Funcs(t)' = IF t = s THEN F ELSE Funcs(t)
  PROVE  /\ \A f \in Fn : F = Funcs(s) \cup {f} => Serving' = Serving \cup {<<s, f>>}
         /\ \A f \in Fn : F = Funcs(s) \ {f} => Serving' = Serving \ {<<s, f>>}
         /\ F \subseteq Funcs(s) => Serving' = Serving \ {p \in Serving : p[1] = s /\ p[2] \notin F}
<1>1. /\ \A p \in Pair : p = <<p[1], p[2]>> /\ p[1] \in Subject
      /\ \A f \in Fn : <<s, f>> \in Pair /\ <<s, f>>[1] = s /\ <<s, f>>[2] = f
  BY DEF Pair
<1>2. \A p \in Pair : p \in Serving' <=> (IF p[1] = s THEN p[2] \in F ELSE p \in Serving)
  BY <1>1 DEF Serving
<1>3. Serving \subseteq Pair /\ Serving' \subseteq Pair
  BY DEF Serving
<1>4. \A p \in Pair : p[1] = s => (p \in Serving <=> p[2] \in Funcs(s))
  BY DEF Serving
<1>5. ASSUME NEW f \in Fn, F = Funcs(s) \cup {f} PROVE Serving' = Serving \cup {<<s, f>>}
  <2>1. \A p \in Pair : p \in Serving' <=> p \in Serving \cup {<<s, f>>}
    BY <1>1, <1>2, <1>4, <1>5
  <2> QED
    BY <1>1, <1>3, <2>1
<1>6. ASSUME NEW f \in Fn, F = Funcs(s) \ {f} PROVE Serving' = Serving \ {<<s, f>>}
  <2>1. \A p \in Pair : p \in Serving' <=> p \in Serving \ {<<s, f>>}
    BY <1>1, <1>2, <1>4, <1>6
  <2> QED
    BY <1>1, <1>3, <2>1
<1>7. ASSUME F \subseteq Funcs(s)
      PROVE  Serving' = Serving \ {p \in Serving : p[1] = s /\ p[2] \notin F}
  <2>1. \A p \in Pair : p \in Serving' <=>
                          p \in Serving \ {q \in Serving : q[1] = s /\ q[2] \notin F}
    BY <1>2, <1>4, <1>7
  <2> QED
    BY <1>3, <2>1
<1> QED
  BY <1>5, <1>6, <1>7

LEMMA NothingChanges ==
  ASSUME TypeOK, Refining, UNCHANGED <<pc, status, table, functions, subscriptions>>,
         \/ channel' = channel
         \/ \E n \in InternalMessage :
              ~ Row(n) /\ n \notin CommandMessage /\ channel' = Append(channel, n),
         \/ inbox' = inbox
         \/ inbox # <<>> /\ Head(inbox) \notin CommandMessage /\ inbox' = Tail(inbox)
         \/ \E m \in SubscriberMessage : m \notin CommandMessage /\ inbox' = Append(inbox, m)
  PROVE  UNCHANGED Commands!vars
<1>1. Pending' = Pending
  BY PendingKept
<1>2. Restoring' = Restoring
  BY RestoringKept
<1>3. Serving' = Serving
  BY FuncsSame, ServingKept
<1> QED
  BY <1>1, <1>2, <1>3, Stutters

LEMMA SimulateStart ==
  ASSUME TypeOK, Refining, Start
  PROVE  Commands!Start
<1>1. /\ pc = "stopped" /\ pc' = "latch" /\ channel = <<>> /\ table \subseteq Pair
      /\ UNCHANGED <<table, functions, inbox, subscriptions>>
  BY DEF Start, Refining, TypeOK
<1>2. Serving' = Serving
  BY <1>1, FuncsSame, ServingKept
<1>3. CASE channel' = channel
  <2>1. Pending' = Pending
    BY <1>1, <1>3, PendingKept
  <2>2. Restoring' = {}
    <3>1. channel' = <<>>
      BY <1>1, <1>3
    <3> QED
      BY <3>1 DEF Restoring, InChannel
  <2> QED
    BY <1>1, <1>2, <2>1, <2>2, Starts
<1>4. ASSUME NEW rows \in Restored, channel' = rows, ~ recovery PROVE Commands!Start
  <2>1. /\ rows \in Seq(InternalMessage) /\ RowPairs(rows) = table
        /\ \A k \in DOMAIN rows : rows[k] \notin CommandMessage
    BY <1>1, RestoredOnce
  <2>2. \A k \in 1 .. Len(rows) : rows[k] \notin CommandMessage
    BY <2>1, LenProperties
  <2>3. channel' = channel \o rows
    BY <1>1, <1>4, <2>1, ConcatEmptySeq
  <2>4. Pending' = Pending
    BY <1>1, <2>1, <2>2, <2>3, PendingKept
  <2>5. Restoring' = table
    BY <1>4, <2>1, RestoringRows
  <2>6. status' = "Master"
    BY <1>4 DEF Start, Role
  <2> QED
    BY <1>1, <1>2, <2>4, <2>5, <2>6, Starts
<1> QED
  BY <1>3, <1>4 DEF Start

(* A worker that finds itself promoted reads the table, one that finds     *)
(* itself demoted serves nothing any more.                                 *)
LEMMA SimulateMigration ==
  ASSUME TypeOK, Refining, CheckMigration
  PROVE  Commands!Promote \/ Commands!Demote \/ UNCHANGED Commands!vars
<1>1. /\ pc = "latch" /\ pc' = "queue" /\ status' = Role /\ UNCHANGED <<table, functions, inbox>>
      /\ table \subseteq Pair /\ channel \in Seq(InternalMessage)
  BY DEF CheckMigration, TypeOK
<1>2. CASE status = Role /\ UNCHANGED <<subscriptions, task, channel, announced>>
  <2>1. Pending' = Pending
    BY <1>1, <1>2, PendingKept
  <2>2. Restoring' = Restoring
    BY <1>2, RestoringKept
  <2>3. Serving' = Serving
    BY <1>2, FuncsSame, ServingKept
  <2> QED
    BY <1>1, <1>2, <2>1, <2>2, <2>3, Stutters
<1>3. CASE status = "Master" /\ recovery /\ MigrateDown /\ UNCHANGED channel
  <2>1. Pending' = Pending
    BY <1>1, <1>3, PendingKept
  <2>2. Restoring' = Restoring
    BY <1>3, RestoringKept
  <2>3. Serving' = {}
    <3>1. \A s \in Subject : subscriptions'[s] = None
      BY <1>3 DEF MigrateDown, RemoveAll, NoSubscriptions
    <3> QED
      BY <3>1 DEF Serving, Funcs, Subscribed, Pair
  <2>4. status' = "Replica"
    BY <1>1, <1>3 DEF Role
  <2> QED
    BY <1>1, <1>3, <2>1, <2>2, <2>3, <2>4, Demotes
<1>4. CASE status = "Replica" /\ ~ recovery /\ MigrateUp /\ UNCHANGED <<subscriptions, task>>
  <2>1. status' = "Master"
    BY <1>1, <1>4 DEF Role
  <2>2. Serving' = Serving
    BY <1>4, FuncsSame, ServingKept
  <2>3. CASE channel' = channel
    <3>1. Pending' = Pending
      BY <1>1, <2>3, PendingKept
    <3>2. Restoring' = Restoring
      BY <2>3, RestoringKept
    <3> QED
      BY <1>1, <1>4, <2>1, <2>2, <3>1, <3>2, Promotes
  <2>4. ASSUME NEW rows \in Restored, channel' = channel \o rows PROVE Commands!Promote
    <3>1. RowPairs(channel) = {}
      BY <1>1, <1>4 DEF Refining
    <3>2. /\ rows \in Seq(InternalMessage)
          /\ \A k \in DOMAIN rows : rows[k] \notin CommandMessage
      BY <1>1, RestoredOnce
    <3>3. \A k \in 1 .. Len(rows) : rows[k] \notin CommandMessage
      BY <3>2, LenProperties
    <3>4. Pending' = Pending
      BY <1>1, <2>4, <3>2, <3>3, PendingKept
    <3>5. RowPairs(channel') = table
      BY <1>1, <2>4, <3>1, OnceConcat
    <3>6. channel' \in Seq(InternalMessage)
      BY <1>1, <2>4, <3>2, ConcatProperties
    <3>7. Restoring = {} /\ Restoring' = table
      BY <1>1, <3>1, <3>5, <3>6, RestoringRows
    <3>8. Restoring' = Restoring \cup table
      BY <3>7
    <3> QED
      BY <1>1, <1>4, <2>1, <2>2, <3>4, <3>8, Promotes
  <2> QED
    BY <1>4, <2>3, <2>4 DEF MigrateUp
<1> QED
  BY <1>2, <1>3, <1>4 DEF CheckMigration

(* Reading the launcher's queue changes nothing: a command is under way    *)
(* until the loop takes it from its channel.                               *)
LEMMA SimulateQueue ==
  ASSUME TypeOK, Refining, ApplyConfig \/ QueueCommand \/ QueueEmpty \/ ChannelEmpty
  PROVE  UNCHANGED Commands!vars
<1> USE TypeParts
<1>1. CASE QueueEmpty \/ ChannelEmpty
  <2>1. /\ pc # "stopped" /\ pc' # "stopped"
        /\ UNCHANGED <<status, table, functions, subscriptions, inbox, channel>>
    BY <1>1 DEF QueueEmpty, ChannelEmpty, env
  <2>2. Pending' = Pending
    BY <2>1, PendingKept
  <2>3. Restoring' = Restoring
    BY <2>1, RestoringKept
  <2>4. Serving' = Serving
    BY <2>1, FuncsSame, ServingKept
  <2> QED
    BY <2>1, <2>2, <2>3, <2>4, Stutters
<1>2. CASE ApplyConfig
  <2>1. /\ UNCHANGED <<pc, status, table, functions, channel>>
        /\ inbox # <<>> /\ Head(inbox).type = "NewConfig" /\ inbox' = Tail(inbox)
    BY <1>2 DEF ApplyConfig, TakeInbox, env
  <2>2. Head(inbox) \in SubscriberMessage /\ Head(inbox).opt \in Opt
    BY <2>1, InboxHead, InboxKinds
  <2>3. Head(inbox) \notin CommandMessage
    BY <2>1, <2>2, Kinds
  <2>4. Pending' = Pending
    BY <2>1, <2>3, PendingKept
  <2>5. Restoring' = Restoring
    BY <2>1, RestoringKept
  <2>6. \A s \in Subject : Funcs(s)' = Funcs(s)
    <3>1. CASE UNCHANGED subscriptions
      BY <3>1, FuncsSame
    <3>2. CASE Reconnect(Head(inbox).opt)
      BY <2>2, <3>2, ReconnectEffect DEF Funcs, Subscribed
    <3> QED
      BY <1>2, <3>1, <3>2 DEF ApplyConfig
  <2>7. Serving' = Serving
    BY <2>6, ServingKept
  <2> QED
    BY <2>1, <2>4, <2>5, <2>7, Stutters
<1>3. CASE QueueCommand
  <2>1. /\ UNCHANGED <<pc, status, table, functions, subscriptions>>
        /\ inbox # <<>> /\ inbox' = Tail(inbox)
        /\ Head(inbox) \in SubscriberMessage
    BY <1>3, InboxHead DEF QueueCommand, TakeInbox, env, loop
  <2> DEFINE h == Head(inbox)
  <2>2. h.type \in {"Subscribe", "Unsubscribe"} /\ h.subject \in Subject /\ h.fn \in Fn
    BY <1>3, <2>1, InboxKinds DEF QueueCommand, TakeInbox
  <2>3. h \in CommandMessage
    BY <2>1, <2>2, Kinds
  <2>4. \E m \in InternalMessage :
          /\ channel' = Append(channel, m) /\ m \in CommandMessage /\ ~ Row(m)
          /\ AsCommand(m) = AsCommand(h)
    <3>1. CASE h.type = "Subscribe"
      <4> DEFINE m == SubscribeMsg(TRUE, h.subject, h.fn)
      <4>1. channel' = Append(channel, m)
        BY <1>3, <3>1 DEF QueueCommand, TakeInbox
      <4>2. m \in InternalMessage /\ m.type = "Subscribe" /\ m.register
        BY <2>2, Messages DEF SubscribeMsg
      <4>3. m \in CommandMessage /\ ~ Row(m)
        <5> HIDE DEF m
        <5> QED
          BY <4>2, Kinds DEF Row
      <4>4. AsCommand(m) = AsCommand(h)
        BY <3>1 DEF AsCommand, SubscribeMsg, CommandMsg
      <4> QED
        BY <4>1, <4>2, <4>3, <4>4
    <3>2. CASE h.type = "Unsubscribe"
      <4> DEFINE m == UnsubscribeMsg(h.subject, h.fn)
      <4>1. channel' = Append(channel, m)
        BY <1>3, <3>2 DEF QueueCommand, TakeInbox
      <4>2. m \in InternalMessage /\ m.type = "Unsubscribe"
        BY <2>2, Messages DEF UnsubscribeMsg
      <4>3. m \in CommandMessage /\ ~ Row(m)
        BY <4>2, Kinds, NoRows
      <4>4. AsCommand(m) = AsCommand(h)
        BY <3>2 DEF AsCommand, UnsubscribeMsg, CommandMsg
      <4> QED
        BY <4>1, <4>2, <4>3, <4>4
    <3> QED
      BY <2>2, <3>1, <3>2
  <2> HIDE DEF h
  <2>5. PICK m \in InternalMessage :
          /\ channel' = Append(channel, m) /\ m \in CommandMessage /\ ~ Row(m)
          /\ AsCommand(m) = AsCommand(h)
    BY <2>4
  <2>6. Pending' = Pending
    BY <2>1, <2>3, <2>5, PendingMoves DEF h
  <2>7. Restoring' = Restoring
    BY <2>5, RestoringKept
  <2>8. Serving' = Serving
    BY <2>1, FuncsSame, ServingKept
  <2> QED
    BY <2>1, <2>6, <2>7, <2>8, Stutters
<1> QED
  BY <1>1, <1>2, <1>3

(* What the loop takes from the channel. *)
LEMMA Taking ==
  ASSUME TypeOK, TakeChannel
  PROVE  /\ pc # "stopped" /\ channel # <<>> /\ channel' = Tail(channel)
         /\ Head(channel) \in InternalMessage
BY ChannelHead DEF TakeChannel

LEMMA SimulateIgnore ==
  ASSUME TypeOK, Refining, IgnoreOnReplica
  PROVE  \/ Commands!Ignore \/ \E p \in Pair : Commands!Serve(p)
         \/ UNCHANGED Commands!vars
<1> DEFINE h == Head(channel)
<1>1. /\ pc # "stopped" /\ channel # <<>> /\ channel' = Tail(channel) /\ h \in InternalMessage
      /\ status # "Master"
      /\ UNCHANGED <<pc, status, table, functions, subscriptions, inbox>>
  BY Taking DEF IgnoreOnReplica, env, loop
<1>2. Serving' = Serving
  BY <1>1, FuncsSame, ServingKept
<1>3. CASE h \in CommandMessage
  <2>1. Pending # <<>> /\ Pending' = Tail(Pending)
    BY <1>1, <1>3, PendingTaken
  <2>2. ~ Row(h)
    BY <1>1, <1>3, Kinds DEF Row
  <2>3. Restoring' = Restoring
    BY <1>1, <2>2, RestoringKept
  <2> QED
    BY <1>1, <1>2, <2>1, <2>3, Ignores
<1>4. CASE h \notin CommandMessage
  <2>1. Pending' = Pending
    BY <1>1, <1>4, PendingTaken
  <2>2. CASE Row(h)
    <3>1. RowPair(h) \in Restoring /\ Restoring' = Restoring \ {RowPair(h)}
      BY <1>1, <2>2, RestoringTaken
    <3>2. RowPair(h) \in Pair
      BY <3>1 DEF Restoring
    <3>3. Commands!Serve(RowPair(h))
      BY <1>1, <1>2, <2>1, <3>1, Serves
    <3> QED
      BY <3>2, <3>3
  <2>3. CASE ~ Row(h)
    <3>1. Restoring' = Restoring
      BY <1>1, <2>3, RestoringKept
    <3> QED
      BY <1>1, <1>2, <2>1, <3>1, Stutters
  <2> QED
    BY <2>2, <2>3
<1> QED
  BY <1>3, <1>4

(* A command is carried out when the loop takes it from the channel, a row *)
(* of a scan is served then.                                               *)
LEMMA SimulateSubscribe ==
  ASSUME TypeOK, Refining, HandleSubscribe
  PROVE  Commands!Apply \/ \E p \in Pair : Commands!Serve(p)
<1> USE TypeParts
<1> DEFINE h == Head(channel)
           s == h.subject
           f == h.fn
<1>1. /\ pc # "stopped" /\ channel # <<>> /\ channel' = Tail(channel) /\ h \in InternalMessage
      /\ status = "Master" /\ h.type = "Subscribe"
      /\ UNCHANGED <<pc, status, functions, inbox>>
      /\ AddCallback(s, f) /\ config \in Opt
  BY Taking DEF HandleSubscribe, TakeInternal, TypeOK
<1>2. h.register \in BOOLEAN /\ s \in Subject /\ f \in Fn
  BY <1>1, InternalKinds
<1>3. Serving' = Serving \cup {<<s, f>>}
  <2>1. PICK t \in Subject, g \in Fn : t = s /\ g = f
    BY <1>2
  <2>2. AddCallback(t, g)
    BY <1>1, <2>1
  <2> DEFINE F == Funcs(t) \cup {g}
  <2>3. \A u \in Subject : Funcs(u)' = IF u = t THEN F ELSE Funcs(u)
    BY <1>1, <2>2, AddFuncs
  <2>4. F = Funcs(t) \cup {g}
    OBVIOUS
  <2> HIDE DEF F
  <2>5. Serving' = Serving \cup {<<t, g>>}
    BY <2>3, <2>4, ServingChanged
  <2> QED
    BY <2>1, <2>5
<1>4. CASE h.register
  <2>1. h \in CommandMessage /\ ~ Row(h)
    BY <1>1, <1>4, Kinds DEF Row
  <2>2. Pending # <<>> /\ Head(Pending) = AsCommand(h) /\ Pending' = Tail(Pending)
    BY <1>1, <2>1, PendingTaken
  <2>3. Restoring' = Restoring
    BY <1>1, <2>1, RestoringKept
  <2>4. table' = table \cup {<<s, f>>} \/ table' = table
    BY <1>4 DEF HandleSubscribe, Writes
  <2>5. AsCommand(h).type = "Subscribe" /\ Commands!PairOf(AsCommand(h)) = <<s, f>>
    BY <1>1 DEF AsCommand, CommandMsg, Commands!PairOf
  <2> HIDE DEF h, s, f
  <2>6. Commands!Apply
    BY <1>1, <1>3, <2>2, <2>3, <2>4, <2>5, Applies
  <2> QED
    BY <2>6
<1>5. CASE ~ h.register
  <2>1. h \notin CommandMessage /\ Row(h)
    BY <1>1, <1>5, Kinds DEF Row
  <2>2. Pending' = Pending
    BY <1>1, <2>1, PendingTaken
  <2>3. RowPair(h) \in Restoring /\ Restoring' = Restoring \ {RowPair(h)}
    BY <1>1, <2>1, RestoringTaken
  <2>4. table' = table
    BY <1>5 DEF HandleSubscribe
  <2>5. RowPair(h) = <<s, f>> /\ RowPair(h) \in Pair
    BY <2>3 DEF RowPair, Restoring
  <2> HIDE DEF h, s, f
  <2>6. Commands!Serve(RowPair(h))
    BY <1>1, <1>3, <2>2, <2>3, <2>4, <2>5, Serves
  <2> QED
    BY <2>5, <2>6
<1> QED
  BY <1>2, <1>4, <1>5

LEMMA SimulateUnsubscribe ==
  ASSUME TypeOK, Refining, HandleUnsubscribe
  PROVE  Commands!Apply
<1> USE TypeParts
<1> DEFINE h == Head(channel)
           s == h.subject
           f == h.fn
<1>1. /\ pc # "stopped" /\ channel # <<>> /\ channel' = Tail(channel) /\ h \in InternalMessage
      /\ status = "Master" /\ h.type = "Unsubscribe"
      /\ UNCHANGED <<pc, status, functions, inbox>>
      /\ RemoveCallback(s, f)
  BY Taking DEF HandleUnsubscribe, TakeInternal
<1>2. s \in Subject /\ f \in Fn
  BY <1>1, InternalKinds
<1>3. Serving' = Serving \ {<<s, f>>}
  <2>1. PICK t \in Subject, g \in Fn : t = s /\ g = f
    BY <1>2
  <2>2. RemoveCallback(t, g)
    BY <1>1, <2>1
  <2> DEFINE F == Funcs(t) \ {g}
  <2>3. \A u \in Subject : Funcs(u)' = IF u = t THEN F ELSE Funcs(u)
    BY <2>2, RemoveFuncs
  <2>4. F = Funcs(t) \ {g}
    OBVIOUS
  <2> HIDE DEF F
  <2>5. Serving' = Serving \ {<<t, g>>}
    BY <2>3, <2>4, ServingChanged
  <2> QED
    BY <2>1, <2>5
<1>4. h \in CommandMessage /\ ~ Row(h)
  BY <1>1, Kinds DEF Row
<1>5. Pending # <<>> /\ Head(Pending) = AsCommand(h) /\ Pending' = Tail(Pending)
  BY <1>1, <1>4, PendingTaken
<1>6. Restoring' = Restoring
  BY <1>1, <1>4, RestoringKept
<1>7. table' = table \ {<<s, f>>} \/ table' = table
  BY DEF HandleUnsubscribe, Writes
<1>8. AsCommand(h).type # "Subscribe" /\ Commands!PairOf(AsCommand(h)) = <<s, f>>
  BY <1>1 DEF AsCommand, CommandMsg, Commands!PairOf
<1> HIDE DEF h, s, f
<1> QED
  BY <1>1, <1>3, <1>5, <1>6, <1>7, <1>8, Applies

(* Calling the functions of a subject, or hearing that NATS refuses it,    *)
(* forgets only functions that are missing, or subjects that are refused.  *)
LEMMA SimulateForgetting ==
  ASSUME TypeOK, Refining, "BodyUndefined" \notin Events,
         HandleCallback \/ HandleUnsubscribeSubject
  PROVE  \E S \in SUBSET Serving : Commands!Forget(S)
<1> USE TypeParts
<1> DEFINE h == Head(channel)
<1>1. /\ pc # "stopped" /\ channel # <<>> /\ channel' = Tail(channel) /\ h \in InternalMessage
      /\ h.type \in {"CallbackCall", "UnsubscribeSubject"}
      /\ UNCHANGED <<pc, status, table, functions, inbox>>
  BY Taking DEF HandleCallback, HandleUnsubscribeSubject, TakeInternal, env
<1>2. h \notin CommandMessage /\ ~ Row(h)
  BY <1>1, Kinds DEF Row
<1>3. Pending' = Pending
  BY <1>1, <1>2, PendingTaken
<1>4. Restoring' = Restoring
  BY <1>1, <1>2, RestoringKept
<1>5. PICK t \in Subject : t = h.subject
  BY <1>1, InternalKinds
<1>6. \E F : /\ F \subseteq Funcs(t)
             /\ \A u \in Subject : Funcs(u)' = IF u = t THEN F ELSE Funcs(u)
             /\ t \notin Invalid => \A f \in Funcs(t) : f \in functions => f \in F
  <2>1. CASE HandleUnsubscribeSubject
    <3>1. subscriptions' = [subscriptions EXCEPT ![t] = None] /\ t \in Invalid
      <4>1. channel \in Seq(InternalMessage) /\ Reports(channel) /\ h.type = "UnsubscribeSubject"
        BY <2>1 DEF TypeOK, Refining, HandleUnsubscribeSubject, TakeInternal
      <4>2. h.subject \in Invalid
        BY <1>1, <4>1, ReportsChanged
      <4> QED
        BY <1>5, <2>1, <4>2 DEF HandleUnsubscribeSubject
    <3>2. \A u \in Subject : Funcs(u)' = IF u = t THEN {} ELSE Funcs(u)
      BY <3>1 DEF MapOK, Funcs, Subscribed
    <3> QED
      BY <3>1, <3>2
  <2>2. CASE HandleCallback
    <3>1. PICK missing \in Undefined(t) :
            subscriptions' = IF Subscribed(t)
                               THEN [subscriptions EXCEPT ![t].funcs = @ \ missing]
                               ELSE subscriptions
      BY <1>5, <2>2 DEF HandleCallback
    <3>2. missing \cap functions = {}
      BY <3>1 DEF Undefined
    <3> DEFINE F == Funcs(t) \ missing
    <3>3. CASE Subscribed(t)
      <4>1. F \in SUBSET Fn /\ subscriptions' = [subscriptions EXCEPT ![t].funcs = F]
        BY <3>1, <3>3, EntryType DEF Funcs
      <4>2. F \subseteq Funcs(t) /\ \A f \in Funcs(t) : f \in functions => f \in F
        BY <3>2
      <4> HIDE DEF F
      <4>3. /\ \A u \in Subject : u # t => subscriptions'[u] = subscriptions[u]
            /\ subscriptions'[t] # None /\ subscriptions'[t].funcs = F
        BY <3>3, <4>1, FuncsChanged
      <4>4. \A u \in Subject : Funcs(u)' = IF u = t THEN F ELSE Funcs(u)
        BY <4>3, FuncsSame DEF Funcs, Subscribed
      <4> QED
        BY <4>2, <4>4
    <3>4. CASE ~ Subscribed(t)
      <4>1. \A u \in Subject : Funcs(u)' = IF u = t THEN {} ELSE Funcs(u)
        BY <3>1, <3>4, FuncsSame DEF Funcs, Subscribed
      <4>2. Funcs(t) = {}
        BY <3>4 DEF Funcs
      <4> QED
        BY <4>1, <4>2
    <3> QED
      BY <3>3, <3>4
  <2> QED
    BY <2>1, <2>2
<1>7. PICK F : /\ F \subseteq Funcs(t)
               /\ \A u \in Subject : Funcs(u)' = IF u = t THEN F ELSE Funcs(u)
               /\ t \notin Invalid => \A f \in Funcs(t) : f \in functions => f \in F
  BY <1>6
<1> DEFINE S == {p \in Serving : p[1] = t /\ p[2] \notin F}
<1>8. Serving' = Serving \ S
  BY <1>7, ServingChanged
<1>9. \A p \in S : p[2] \notin functions \/ p[1] \in Invalid
  BY <1>7 DEF Serving
<1>10. S \in SUBSET Serving
  OBVIOUS
<1> HIDE DEF S, h
<1>11. Commands!Forget(S)
  BY <1>1, <1>3, <1>4, <1>8, <1>9, <1>10, Forgets
<1> QED
  BY <1>10, <1>11

LEMMA SimulateTask ==
  ASSUME TypeOK, Refining, NEW i \in Task, TaskStep(i)
  PROVE  UNCHANGED Commands!vars
<1>1. UNCHANGED <<pc, status, table, functions, subscriptions, inbox>>
  BY DEF TaskStep, Listen, Forward, Cancel, env, loop
<1>2. CASE channel' = channel
  BY <1>1, <1>2, NothingChanges
<1>3. CASE channel' # channel
  <2>1. PICK m \in InternalMessage :
          channel' = Append(channel, m) /\ m.type \in {"UnsubscribeSubject", "CallbackCall"}
    BY <1>3, TaskSends
  <2>2. ~ Row(m) /\ m \notin CommandMessage
    BY <2>1, Kinds DEF Row
  <2> QED
    BY <1>1, <2>1, <2>2, NothingChanges
<1> QED
  BY <1>2, <1>3

(* The backends: a command is accepted when the bus takes it. *)
LEMMA SimulateSend ==
  ASSUME TypeOK, Refining, NEW t \in {"Subscribe", "Unsubscribe"}, NEW s \in Subject, NEW f \in Fn,
         SendCommand(t, s, f)
  PROVE  \E c \in Commands!Command : Commands!Accept(c)
<1> DEFINE m == CommandMsg(t, s, f)
<1>1. /\ pc # "stopped" /\ inbox' = Append(inbox, m)
      /\ UNCHANGED <<pc, status, table, functions, subscriptions, channel>>
  BY DEF SendCommand, Send, env, loop
<1>2. m \in SubscriberMessage /\ m.type # "NewConfig"
  BY DEF SubscriberMessage, CommandMsg
<1> HIDE DEF m
<1>3. Pending' = Append(Pending, AsCommand(m)) /\ AsCommand(m) \in Commands!Command
  BY <1>1, <1>2, PendingAccepts
<1>4. Restoring' = Restoring
  BY <1>1, RestoringKept
<1>5. Serving' = Serving
  BY <1>1, FuncsSame, ServingKept
<1>6. Commands!Accept(AsCommand(m))
  BY <1>1, <1>3, <1>4, <1>5, Accepts
<1> QED
  BY <1>3, <1>6

LEMMA AskedNothing == Asked(<<>>) = <<>>
<1>1. Only(<<>>, CommandMessage) = <<>>
  BY OnlyEmpty
<1>2. DOMAIN <<>> = {}
  BY LenProperties, EmptySeq
<1> QED
  BY <1>1, <1>2 DEF Asked

LEMMA SimulateExit ==
  ASSUME Exit
  PROVE  Commands!Stop
<1>1. /\ pc # "stopped" /\ pc' = "stopped" /\ channel' = <<>> /\ inbox' = <<>>
      /\ subscriptions' = NoSubscriptions /\ UNCHANGED <<status, table, functions>>
  BY DEF Exit, env
<1>2. Pending' = <<>>
  <2>1. Asked(channel') = <<>> /\ Asked(inbox') = <<>>
    BY <1>1, AskedNothing
  <2>2. Asked(channel)' = <<>> /\ Asked(inbox)' = <<>>
    BY <2>1 DEF Asked, Only
  <2>3. <<>> \o <<>> = <<>>
    BY ConcatEmptySeq, EmptySeq
  <2> QED
    BY <2>2, <2>3 DEF Pending
<1>3. Restoring' = {}
  BY <1>1 DEF Restoring, InChannel
<1>4. Serving' = {}
  BY <1>1 DEF Serving, Funcs, Subscribed, Pair, NoSubscriptions
<1> QED
  BY <1>1, <1>2, <1>3, <1>4, Stops

LEMMA SimulateEnvironment ==
  ASSUME TypeOK, Refining, Environment
  PROVE  \/ \E c \in Commands!Command : Commands!Accept(c)
         \/ \E f \in Fn : Commands!Drop(f) \/ Commands!Create(f)
         \/ Commands!Stop
         \/ UNCHANGED Commands!vars
<1>1. ASSUME NEW s \in Subject, NEW f \in Fn,
             SendCommand("Subscribe", s, f) \/ SendCommand("Unsubscribe", s, f)
      PROVE  \E c \in Commands!Command : Commands!Accept(c)
  BY <1>1, SimulateSend
<1>2. ASSUME NEW o \in Opt, SendConfig(o) PROVE UNCHANGED Commands!vars
  <2>1. /\ UNCHANGED <<pc, status, table, functions, subscriptions, channel>>
        /\ inbox' = Append(inbox, ConfigMsg(o))
    BY <1>2 DEF SendConfig, Send, env, loop
  <2>2. ConfigMsg(o) \in SubscriberMessage /\ ConfigMsg(o).type = "NewConfig"
    BY DEF SubscriberMessage, ConfigMsg
  <2>3. ConfigMsg(o) \notin CommandMessage
    BY <2>2, Kinds
  <2> QED
    BY <2>1, <2>2, <2>3, NothingChanges
<1>3. ASSUME ChangeRole \/ \E s \in Subject : Publish(s) PROVE UNCHANGED Commands!vars
  <2>1. UNCHANGED <<pc, status, table, functions, subscriptions, channel, inbox>>
    BY <1>3 DEF ChangeRole, Publish, env, loop
  <2> QED
    BY <2>1, NothingChanges
<1>4. ASSUME NEW f \in Fn, DropFunction(f) \/ CreateFunction(f)
      PROVE  Commands!Drop(f) \/ Commands!Create(f)
  <2>1. UNCHANGED <<pc, status, subscriptions, channel, inbox>>
    BY <1>4 DEF DropFunction, CreateFunction, loop
  <2>2. Pending' = Pending
    BY <2>1, PendingKept
  <2>3. Restoring' = Restoring
    BY <2>1, RestoringKept
  <2>4. Serving' = Serving
    BY <2>1, FuncsSame, ServingKept
  <2>5. CASE DropFunction(f)
    <3>1. functions' = functions \ {f} /\ table' = {p \in table : p[2] # f}
      BY <2>5 DEF DropFunction
    <3> QED
      BY <2>1, <2>2, <2>3, <2>4, <3>1, Drops
  <2>6. CASE CreateFunction(f)
    <3>1. functions' = functions \cup {f} /\ table' = table
      BY <2>6 DEF CreateFunction
    <3> QED
      BY <2>1, <2>2, <2>3, <2>4, <3>1, Creates
  <2> QED
    BY <1>4, <2>5, <2>6
<1>5. CASE Exit
  BY <1>5, SimulateExit
<1> QED
  BY <1>1, <1>2, <1>3, <1>4, <1>5 DEF Environment

LEMMA Simulated ==
  ASSUME "BodyUndefined" \notin Events
  PROVE  TypeOK /\ Refining /\ [Next]_vars => [Commands!Next]_(Commands!vars)
<1> SUFFICES ASSUME TypeOK, Refining, [Next]_vars PROVE [Commands!Next]_(Commands!vars)
  OBVIOUS
<1>0. Commands!Pair = Pair
  BY DEF Commands!Pair, Pair
<1>1. CASE UNCHANGED vars
  <2>1. UNCHANGED <<pc, status, table, functions, subscriptions, channel, inbox>>
    BY <1>1 DEF vars, env, loop
  <2> QED
    BY <2>1, NothingChanges
<1>2. CASE Start
  BY <1>2, SimulateStart DEF Commands!Next
<1>3. CASE CheckMigration
  BY <1>3, SimulateMigration DEF Commands!Next
<1>4. CASE ApplyConfig \/ QueueCommand \/ QueueEmpty \/ ChannelEmpty
  BY <1>4, SimulateQueue
<1>5. CASE IgnoreOnReplica
  BY <1>0, <1>5, SimulateIgnore DEF Commands!Next
<1>6. CASE HandleSubscribe
  BY <1>0, <1>6, SimulateSubscribe DEF Commands!Next
<1>7. CASE HandleUnsubscribe
  BY <1>7, SimulateUnsubscribe DEF Commands!Next
<1>8. CASE HandleCallback \/ HandleUnsubscribeSubject
  BY <1>8, SimulateForgetting DEF Commands!Next
<1>9. ASSUME NEW i \in Task, TaskStep(i) PROVE UNCHANGED Commands!vars
  BY <1>9, SimulateTask
<1>10. CASE Environment
  BY <1>10, SimulateEnvironment DEF Commands!Next
<1> QED
  BY <1>1, <1>2, <1>3, <1>4, <1>5, <1>6, <1>7, <1>8, <1>9, <1>10 DEF Next, WorkerStep

LEMMA SimulateInit == Init => Commands!Init
<1> SUFFICES ASSUME Init PROVE Commands!Init
  OBVIOUS
<1>1. /\ pc = "stopped" /\ channel = <<>> /\ inbox = <<>> /\ subscriptions = NoSubscriptions
      /\ table \in SUBSET Pair /\ functions = Fn
  BY DEF Init
<1>2. Pending = <<>>
  <2>1. Asked(channel) = <<>> /\ Asked(inbox) = <<>>
    BY <1>1, AskedNothing
  <2>2. <<>> \o <<>> = <<>>
    BY ConcatEmptySeq, EmptySeq
  <2> QED
    BY <2>1, <2>2 DEF Pending
<1>3. Restoring = {}
  BY <1>1 DEF Restoring, InChannel
<1>4. Serving = {}
  BY <1>1 DEF Serving, Funcs, Subscribed, Pair, NoSubscriptions
<1> QED
  BY <1>1, <1>2, <1>3, <1>4 DEF Commands!Init, Commands!Pair, Pair

(* The subscriber does what nats_subscribe and nats_unsubscribe promise:   *)
(* the commands the bus accepts are carried out one at a time, in their    *)
(* order, each at most once, on the table and on what is served, and       *)
(* nothing else changes either; unless a function that exists can be       *)
(* reported missing because its body calls one that is, in which case the  *)
(* loop forgets it (run_callbacks in src/bgw/subscriber/nats.rs).          *)
THEOREM CommandsImplemented ==
  ASSUME "BodyUndefined" \notin Events
  PROVE  Spec => CommandsSpec
<1>1. Init => Commands!Init
  BY SimulateInit
<1>2. TypeOK /\ Refining /\ [Next]_vars => [Commands!Next]_(Commands!vars)
  BY Simulated
<1>3. Spec => []TypeOK
  BY TypeCorrect
<1>4. Spec => []Refining
  BY RefiningHolds
<1> QED
  BY <1>1, <1>2, <1>3, <1>4, PTL DEF Spec, CommandsSpec, Commands!Spec

=============================================================================
