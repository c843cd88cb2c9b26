---------------------- MODULE SubscriberCommandProofs ----------------------
(***************************************************************************)
(* Proofs about what a subscriber does with commands and messages, for any *)
(* subjects, functions, tasks and bounds: when it is quiet the last        *)
(* command for each pair is in the table and in its memory, and while      *)
(* subscriptions are only made it calls functions in order.                *)
(***************************************************************************)
EXTENDS SubscriberProofs

(* A message, of the inbox or of the channel, that asks for p. *)
AsksOn(m, p) == m = CommandMsg("Subscribe", p[1], p[2]) \/ m = SubscribeMsg(TRUE, p[1], p[2])
AsksOff(m, p) == m = CommandMsg("Unsubscribe", p[1], p[2]) \/ m = UnsubscribeMsg(p[1], p[2])
Asks(m, p) == AsksOn(m, p) \/ AsksOff(m, p)
AsksFor(m, p, w) == IF w = "on" THEN AsksOn(m, p) ELSE AsksOff(m, p)

(* Nothing of q asks for p; the last of q that does asks for w.            *)
Silent(q, p) == \A k \in 1 .. Len(q) : ~ Asks(q[k], p)
Last(q, p, w) ==
  \E k \in 1 .. Len(q) :
    AsksFor(q[k], p, w) /\ \A j \in 1 .. Len(q) : k < j => ~ Asks(q[j], p)

(* What the last command for p asked for is still to be read, still in the *)
(* channel, or done.                                                       *)
Follows(p, i, c, w, done) ==
  \/ Last(i, p, w)
  \/ Silent(i, p) /\ Last(c, p, w)
  \/ Silent(i, p) /\ Silent(c, p) /\ done

Done(p) ==
  \/ p \in unwritten
  \/ wanted[p] = "on" /\ p \in table
  \/ wanted[p] = "off" /\ p \notin table

(* The inductive invariant.                                                *)
Following ==
  \A p \in Pair : wanted[p] # "any" =>
    /\ status = "Master" /\ ~ recovery /\ pc # "stopped"
    /\ Follows(p, inbox, channel, wanted[p], Done(p))

-----------------------------------------------------------------------------
(* Messages.                                                               *)

LEMMA CommandAsks ==
  ASSUME NEW s \in Subject, NEW f \in Fn, NEW p \in Pair
  PROVE  /\ AsksOn(CommandMsg("Subscribe", s, f), p) <=> p = <<s, f>>
         /\ ~ AsksOff(CommandMsg("Subscribe", s, f), p)
         /\ AsksOff(CommandMsg("Unsubscribe", s, f), p) <=> p = <<s, f>>
         /\ ~ AsksOn(CommandMsg("Unsubscribe", s, f), p)
         /\ AsksOn(SubscribeMsg(TRUE, s, f), p) <=> p = <<s, f>>
         /\ ~ AsksOff(SubscribeMsg(TRUE, s, f), p)
         /\ ~ Asks(SubscribeMsg(FALSE, s, f), p)
         /\ AsksOff(UnsubscribeMsg(s, f), p) <=> p = <<s, f>>
         /\ ~ AsksOn(UnsubscribeMsg(s, f), p)
<1>1. p = <<s, f>> <=> p[1] = s /\ p[2] = f
  BY DEF Pair
<1>2. ASSUME NEW t \in Subject, NEW g \in Fn
      PROVE  /\ CommandMsg("Subscribe", s, f) = CommandMsg("Subscribe", t, g) <=> s = t /\ f = g
             /\ CommandMsg("Unsubscribe", s, f) = CommandMsg("Unsubscribe", t, g)
                   <=> s = t /\ f = g
             /\ SubscribeMsg(TRUE, s, f) = SubscribeMsg(TRUE, t, g) <=> s = t /\ f = g
             /\ UnsubscribeMsg(s, f) = UnsubscribeMsg(t, g) <=> s = t /\ f = g
  BY DEF CommandMsg, SubscribeMsg, UnsubscribeMsg
<1>3. /\ CommandMsg("Subscribe", s, f).type = "Subscribe"
      /\ CommandMsg("Unsubscribe", s, f).type = "Unsubscribe"
      /\ SubscribeMsg(TRUE, s, f).type = "Subscribe"
      /\ UnsubscribeMsg(s, f).type = "Unsubscribe"
  BY DEF CommandMsg, SubscribeMsg, UnsubscribeMsg
<1>4. ASSUME NEW t \in Subject, NEW g \in Fn
      PROVE  SubscribeMsg(FALSE, s, f) # CommandMsg("Subscribe", t, g)
  BY DEF CommandMsg, SubscribeMsg
<1>5. ASSUME NEW t \in Subject, NEW g \in Fn
      PROVE  SubscribeMsg(FALSE, s, f) # SubscribeMsg(TRUE, t, g)
  BY DEF SubscribeMsg
<1> QED
  BY <1>1, <1>2, <1>3, <1>4, <1>5
  DEF Pair, AsksOn, AsksOff, Asks, CommandMsg, SubscribeMsg, UnsubscribeMsg

LEMMA OtherAsks ==
  ASSUME NEW p \in Pair, NEW m, Asks(m, p)
  PROVE  m.type \in {"Subscribe", "Unsubscribe"}
BY DEF AsksOn, AsksOff, Asks, CommandMsg, SubscribeMsg, UnsubscribeMsg

-----------------------------------------------------------------------------
(* Queues.                                                                 *)

(* A message that does not ask for p, put at the end, changes nothing.     *)
LEMMA AppendOther ==
  ASSUME NEW S, NEW q \in Seq(S), NEW m \in S, NEW p, ~ Asks(m, p), NEW w
  PROVE  /\ Silent(q, p) => Silent(Append(q, m), p)
         /\ Last(q, p, w) => Last(Append(q, m), p, w)
<1>1. /\ Len(Append(q, m)) = Len(q) + 1 /\ Len(q) \in Nat
      /\ \A k \in 1 .. Len(q) : Append(q, m)[k] = q[k]
      /\ Append(q, m)[Len(q) + 1] = m
  BY AppendProperties, LenProperties
<1>2. \A k \in 1 .. Len(Append(q, m)) : k \in 1 .. Len(q) \/ k = Len(q) + 1
  BY <1>1
<1>3. Silent(q, p) => Silent(Append(q, m), p)
  BY <1>1, <1>2 DEF Silent
<1>4. ASSUME Last(q, p, w) PROVE Last(Append(q, m), p, w)
  <2>1. PICK k \in 1 .. Len(q) :
          AsksFor(q[k], p, w) /\ \A j \in 1 .. Len(q) : k < j => ~ Asks(q[j], p)
    BY <1>4 DEF Last
  <2>2. AsksFor(Append(q, m)[k], p, w) /\ k \in 1 .. Len(Append(q, m))
    BY <1>1, <2>1
  <2>3. \A j \in 1 .. Len(Append(q, m)) : k < j => ~ Asks(Append(q, m)[j], p)
    BY <1>1, <1>2, <2>1
  <2> QED
    BY <2>2, <2>3 DEF Last
<1> QED
  BY <1>3, <1>4

(* One that asks for p becomes the last one.                               *)
LEMMA AppendOwn ==
  ASSUME NEW S, NEW q \in Seq(S), NEW m \in S, NEW p, NEW w, AsksFor(m, p, w)
  PROVE  Last(Append(q, m), p, w)
<1>1. /\ Len(Append(q, m)) = Len(q) + 1 /\ Len(q) \in Nat
      /\ Append(q, m)[Len(q) + 1] = m
  BY AppendProperties, LenProperties
<1>2. /\ Len(q) + 1 \in 1 .. Len(Append(q, m))
      /\ \A j \in 1 .. Len(Append(q, m)) : ~ (Len(q) + 1 < j)
  BY <1>1
<1> QED
  BY <1>1, <1>2 DEF Last

(* Taking the head off loses the last one for p only if it is the head.    *)
LEMMA TakeHead ==
  ASSUME NEW S, NEW q \in Seq(S), q # <<>>, NEW p, NEW w
  PROVE  /\ Silent(q, p) => Silent(Tail(q), p)
         /\ Last(q, p, w) => Last(Tail(q), p, w)
                             \/ (AsksFor(Head(q), p, w) /\ Silent(Tail(q), p))
<1>1. /\ Len(q) \in Nat \ {0} /\ Len(Tail(q)) = Len(q) - 1 /\ Head(q) = q[1]
      /\ \A k \in 1 .. Len(Tail(q)) : Tail(q)[k] = q[k + 1] /\ k + 1 \in 1 .. Len(q)
  BY HeadTailProperties, EmptySeq, LenProperties
<1>2. Silent(q, p) => Silent(Tail(q), p)
  BY <1>1 DEF Silent
<1>3. ASSUME Last(q, p, w)
      PROVE  Last(Tail(q), p, w) \/ (AsksFor(Head(q), p, w) /\ Silent(Tail(q), p))
  <2>1. PICK k \in 1 .. Len(q) :
          AsksFor(q[k], p, w) /\ \A j \in 1 .. Len(q) : k < j => ~ Asks(q[j], p)
    BY <1>3 DEF Last
  <2>2. CASE k = 1
    <3>1. \A j \in 1 .. Len(Tail(q)) : ~ Asks(Tail(q)[j], p)
      BY <1>1, <2>1, <2>2
    <3> QED
      BY <1>1, <2>1, <2>2, <3>1 DEF Silent
  <2>3. CASE k # 1
    <3>1. k - 1 \in 1 .. Len(Tail(q)) /\ Tail(q)[k - 1] = q[k]
      BY <1>1, <2>1, <2>3
    <3>2. \A j \in 1 .. Len(Tail(q)) : k - 1 < j => ~ Asks(Tail(q)[j], p)
      BY <1>1, <2>1
    <3> QED
      BY <2>1, <3>1, <3>2 DEF Last
  <2> QED
    BY <2>2, <2>3
<1> QED
  BY <1>2, <1>3

-----------------------------------------------------------------------------
(* The steps.                                                              *)

(* A message in the inbox that is a command is one of the two commands,    *)
(* and so is what the loop takes from the channel.                         *)
LEMMA InboxCommand ==
  ASSUME NEW m \in SubscriberMessage, m.type \in {"Subscribe", "Unsubscribe"}
  PROVE  m = CommandMsg(m.type, m.subject, m.fn) /\ m.subject \in Subject /\ m.fn \in Fn
BY DEF SubscriberMessage, CommandMsg, ConfigMsg

LEMMA ChannelCommand ==
  ASSUME NEW m \in InternalMessage
  PROVE  /\ m.type = "Subscribe" => /\ m = SubscribeMsg(m.register, m.subject, m.fn)
                                     /\ m.register \in BOOLEAN
                                     /\ m.subject \in Subject /\ m.fn \in Fn
         /\ m.type = "Unsubscribe" => /\ m = UnsubscribeMsg(m.subject, m.fn)
                                       /\ m.subject \in Subject /\ m.fn \in Fn
BY DEF InternalMessage, SubscribeMsg, UnsubscribeMsg, CallbackCall, UnsubscribeSubject

(* A command that the loop reads from the inbox becomes a message at the   *)
(* end of the channel that asks for the same.                              *)
LEMMA CommandTaken ==
  ASSUME TypeOK, QueueCommand
  PROVE  \E m \in InternalMessage :
           /\ channel' = Append(channel, m)
           /\ m.type = Head(inbox).type
           /\ m.type = "Subscribe" => m.register
           /\ \A p \in Pair : /\ AsksOn(Head(inbox), p) <=> AsksOn(m, p)
                              /\ AsksOff(Head(inbox), p) <=> AsksOff(m, p)
<1>1. Head(inbox) \in SubscriberMessage /\ Head(inbox).type \in {"Subscribe", "Unsubscribe"}
  BY InboxHead DEF QueueCommand, TakeInbox
<1>2. /\ Head(inbox) = CommandMsg(Head(inbox).type, Head(inbox).subject, Head(inbox).fn)
      /\ Head(inbox).subject \in Subject /\ Head(inbox).fn \in Fn
  BY <1>1, InboxCommand
<1> DEFINE s == Head(inbox).subject
           f == Head(inbox).fn
<1>3. CASE TakeInbox("Subscribe") /\ channel' = Append(channel, SubscribeMsg(TRUE, s, f))
  <2>1. /\ Head(inbox) = CommandMsg("Subscribe", s, f) /\ Head(inbox).type = "Subscribe"
        /\ s \in Subject /\ f \in Fn
    BY <1>2, <1>3 DEF TakeInbox
  <2> HIDE DEF s, f
  <2>2. \A p \in Pair :
          /\ AsksOn(CommandMsg("Subscribe", s, f), p) <=> AsksOn(SubscribeMsg(TRUE, s, f), p)
          /\ AsksOff(CommandMsg("Subscribe", s, f), p) <=> AsksOff(SubscribeMsg(TRUE, s, f), p)
    BY <2>1, CommandAsks
  <2>3. /\ SubscribeMsg(TRUE, s, f) \in InternalMessage
        /\ SubscribeMsg(TRUE, s, f).type = "Subscribe" /\ SubscribeMsg(TRUE, s, f).register
    BY <2>1, Messages DEF SubscribeMsg
  <2> QED
    BY <1>3, <2>1, <2>2, <2>3
<1>4. CASE TakeInbox("Unsubscribe") /\ channel' = Append(channel, UnsubscribeMsg(s, f))
  <2>1. /\ Head(inbox) = CommandMsg("Unsubscribe", s, f) /\ Head(inbox).type = "Unsubscribe"
        /\ s \in Subject /\ f \in Fn
    BY <1>2, <1>4 DEF TakeInbox
  <2> HIDE DEF s, f
  <2>2. \A p \in Pair :
          /\ AsksOn(CommandMsg("Unsubscribe", s, f), p) <=> AsksOn(UnsubscribeMsg(s, f), p)
          /\ AsksOff(CommandMsg("Unsubscribe", s, f), p) <=> AsksOff(UnsubscribeMsg(s, f), p)
    BY <2>1, CommandAsks
  <2>3. UnsubscribeMsg(s, f) \in InternalMessage /\ UnsubscribeMsg(s, f).type = "Unsubscribe"
    BY <2>1, Messages DEF UnsubscribeMsg
  <2> QED
    BY <1>4, <2>1, <2>2, <2>3
<1> QED
  BY <1>3, <1>4 DEF QueueCommand

(* So the last command for a pair stays the last one.                      *)
LEMMA CommandMoves ==
  ASSUME TypeOK, QueueCommand, NEW p \in Pair, NEW w \in {"on", "off"}
  PROVE  /\ Last(inbox, p, w) => \/ Last(inbox', p, w)
                                 \/ Silent(inbox', p) /\ Last(channel', p, w)
         /\ Silent(inbox, p) => /\ Silent(inbox', p)
                                /\ Silent(channel, p) => Silent(channel', p)
                                /\ Last(channel, p, w) => Last(channel', p, w)
<1>0. inbox \in Seq(SubscriberMessage) /\ channel \in Seq(InternalMessage)
  BY DEF TypeOK
<1>1. inbox # <<>> /\ inbox' = Tail(inbox)
  BY DEF QueueCommand, TakeInbox
<1>2. PICK m \in InternalMessage :
        /\ channel' = Append(channel, m)
        /\ \A r \in Pair : /\ AsksOn(Head(inbox), r) <=> AsksOn(m, r)
                           /\ AsksOff(Head(inbox), r) <=> AsksOff(m, r)
  BY CommandTaken
<1>3. ASSUME AsksFor(Head(inbox), p, w) PROVE Last(channel', p, w)
  <2>1. AsksFor(m, p, w)
    BY <1>2, <1>3 DEF AsksFor
  <2> QED
    BY <1>0, <1>2, <2>1, AppendOwn
<1>4. ASSUME Silent(inbox, p)
      PROVE  /\ Silent(inbox', p)
             /\ Silent(channel, p) => Silent(channel', p)
             /\ Last(channel, p, w) => Last(channel', p, w)
  <2>1. ~ Asks(Head(inbox), p)
    BY <1>0, <1>1, <1>4, HeadTailProperties, EmptySeq, LenProperties DEF Silent
  <2>2. ~ Asks(m, p)
    BY <1>2, <2>1 DEF Asks
  <2>3. Silent(inbox', p)
    BY <1>0, <1>1, <1>4, TakeHead
  <2> QED
    BY <1>0, <1>2, <2>2, <2>3, AppendOther
<1> QED
  BY <1>0, <1>1, <1>3, <1>4, TakeHead

(* What the loop takes from the channel to change a pair is the command    *)
(* for that pair, or a row of it.                                          *)
LEMMA CommandHandled ==
  ASSUME TypeOK, HandleSubscribe \/ HandleUnsubscribe
  PROVE  LET m == Head(channel)
             q == <<m.subject, m.fn>>
         IN /\ channel # <<>> /\ channel' = Tail(channel)
            /\ m \in InternalMessage /\ m.subject \in Subject /\ m.fn \in Fn
            /\ \/ m = SubscribeMsg(FALSE, m.subject, m.fn)
               \/ m.type = "Subscribe" /\ m.register
               \/ m.type = "Unsubscribe"
            /\ \A p \in Pair :
                 /\ AsksOn(m, p) => p = q /\ m.type = "Subscribe" /\ m.register
                 /\ AsksOff(m, p) => p = q /\ m.type = "Unsubscribe"
                 /\ p = q => Asks(m, p) \/ m = SubscribeMsg(FALSE, m.subject, m.fn)
<1> DEFINE m == Head(channel)
           s == m.subject
           f == m.fn
<1>1. channel # <<>> /\ channel' = Tail(channel)
  BY DEF HandleSubscribe, HandleUnsubscribe, TakeInternal, TakeChannel
<1>2. m \in InternalMessage
  BY <1>1, ChannelHead
<1>3. /\ \/ m = SubscribeMsg(FALSE, s, f)
         \/ m.type = "Subscribe" /\ m.register /\ m = SubscribeMsg(TRUE, s, f)
         \/ m.type = "Unsubscribe" /\ m = UnsubscribeMsg(s, f)
      /\ s \in Subject /\ f \in Fn
  BY <1>2, ChannelCommand DEF HandleSubscribe, HandleUnsubscribe, TakeInternal
<1>4. ASSUME NEW p \in Pair
      PROVE  /\ AsksOn(m, p) => p = <<s, f>> /\ m.type = "Subscribe" /\ m.register
             /\ AsksOff(m, p) => p = <<s, f>> /\ m.type = "Unsubscribe"
             /\ p = <<s, f>> => Asks(m, p) \/ m = SubscribeMsg(FALSE, s, f)
  <2> HIDE DEF m, s, f
  <2>1. /\ AsksOn(SubscribeMsg(TRUE, s, f), p) <=> p = <<s, f>>
        /\ ~ AsksOff(SubscribeMsg(TRUE, s, f), p)
        /\ ~ Asks(SubscribeMsg(FALSE, s, f), p)
        /\ AsksOff(UnsubscribeMsg(s, f), p) <=> p = <<s, f>>
        /\ ~ AsksOn(UnsubscribeMsg(s, f), p)
    BY <1>3, CommandAsks
  <2>2. CASE m = SubscribeMsg(FALSE, s, f)
    BY <2>1, <2>2 DEF Asks
  <2>3. CASE m.type = "Subscribe" /\ m.register /\ m = SubscribeMsg(TRUE, s, f)
    BY <2>1, <2>3 DEF Asks
  <2>4. CASE m.type = "Unsubscribe" /\ m = UnsubscribeMsg(s, f)
    BY <2>1, <2>4 DEF Asks
  <2> QED
    BY <1>3, <2>2, <2>3, <2>4
<1> QED
  BY <1>1, <1>2, <1>3, <1>4

(* What the invariant needs of a step that leaves the commands alone.      *)
LEMMA FollowingKept ==
  ASSUME Following,
         \A p \in Pair : wanted'[p] # "any" =>
           /\ wanted'[p] = wanted[p] /\ (p \in table' <=> p \in table)
           /\ (p \in unwritten => p \in unwritten')
           /\ status' = "Master" /\ ~ recovery' /\ pc' # "stopped"
           /\ Silent(inbox, p) => Silent(inbox', p)
           /\ Last(inbox, p, wanted[p]) => Last(inbox', p, wanted[p])
           /\ Silent(channel, p) => Silent(channel', p)
           /\ Last(channel, p, wanted[p]) => Last(channel', p, wanted[p])
  PROVE  Following'
BY DEF Following, Follows, Done

LEMMA FollowingWorker == TypeOK /\ Following /\ (Start \/ WorkerStep) => Following'
<1> SUFFICES ASSUME TypeOK, Following, Start \/ WorkerStep PROVE Following'
  OBVIOUS
<1>0. /\ inbox \in Seq(SubscriberMessage) /\ channel \in Seq(InternalMessage)
      /\ wanted \in [Pair -> {"on", "off", "any"}]
  BY DEF TypeOK
<1>1. CASE Start
  BY <1>1 DEF Start, Following, hist
<1>2. CASE CheckMigration
  <2>1. ASSUME NEW p \in Pair, wanted'[p] # "any"
        PROVE  /\ status' = "Master" /\ ~ recovery' /\ pc' # "stopped"
               /\ UNCHANGED <<wanted, table, unwritten, inbox, channel>>
    BY <1>2, <2>1 DEF CheckMigration, Following, Role, hist
  <2> QED
    BY <2>1, FollowingKept
<1>3. CASE ApplyConfig
  <2>1. /\ UNCHANGED <<wanted, table, unwritten, channel, status, recovery, pc>>
        /\ inbox # <<>> /\ Head(inbox).type = "NewConfig" /\ inbox' = Tail(inbox)
    BY <1>3 DEF ApplyConfig, TakeInbox, env, hist
  <2>2. \A p \in Pair : ~ Asks(Head(inbox), p)
    BY <2>1, OtherAsks
  <2>3. ASSUME NEW p \in Pair
        PROVE  /\ Silent(inbox, p) => Silent(inbox', p)
               /\ Last(inbox, p, wanted[p]) => Last(inbox', p, wanted[p])
    BY <1>0, <2>1, <2>2, TakeHead DEF AsksFor, Asks
  <2> QED
    BY <2>1, <2>3, FollowingKept DEF Following
<1>4. CASE QueueCommand
  <2>1. UNCHANGED <<wanted, table, unwritten, status, recovery, pc>>
    BY <1>4 DEF QueueCommand, TakeInbox, env, loop, hist
  <2>2. SUFFICES ASSUME NEW p \in Pair, wanted[p] # "any"
                 PROVE  Follows(p, inbox', channel', wanted[p], Done(p))
    BY <2>1 DEF Following, Done
  <2>3. Follows(p, inbox, channel, wanted[p], Done(p)) /\ wanted[p] \in {"on", "off"}
    BY <1>0, <2>2 DEF Following
  <2>4. /\ Last(inbox, p, wanted[p]) =>
             \/ Last(inbox', p, wanted[p])
             \/ Silent(inbox', p) /\ Last(channel', p, wanted[p])
        /\ Silent(inbox, p) =>
             /\ Silent(inbox', p)
             /\ Silent(channel, p) => Silent(channel', p)
             /\ Last(channel, p, wanted[p]) => Last(channel', p, wanted[p])
    BY <1>4, <2>3, CommandMoves
  <2> QED
    BY <2>3, <2>4 DEF Follows
<1>5. CASE QueueEmpty \/ ChannelEmpty
  <2>1. UNCHANGED <<wanted, table, unwritten, inbox, channel, status, recovery>> /\ pc' # "stopped"
    BY <1>5 DEF QueueEmpty, ChannelEmpty, env, hist
  <2> QED
    BY <2>1, FollowingKept DEF Following
<1>6. CASE IgnoreOnReplica
  BY <1>6 DEF IgnoreOnReplica, Following, loop, hist
<1>7. CASE HandleCallback \/ HandleUnsubscribeSubject
  <2>1. /\ UNCHANGED <<wanted, table, unwritten, inbox, status, recovery, pc>>
        /\ channel # <<>> /\ channel' = Tail(channel)
        /\ Head(channel).type \in {"CallbackCall", "UnsubscribeSubject"}
    BY <1>7 DEF HandleCallback, HandleUnsubscribeSubject, TakeInternal, TakeChannel, env, hist
  <2>2. \A p \in Pair : ~ Asks(Head(channel), p)
    BY <2>1, OtherAsks
  <2>3. ASSUME NEW p \in Pair
        PROVE  /\ Silent(channel, p) => Silent(channel', p)
               /\ Last(channel, p, wanted[p]) => Last(channel', p, wanted[p])
    BY <1>0, <2>1, <2>2, TakeHead DEF AsksFor, Asks
  <2> QED
    BY <2>1, <2>3, FollowingKept DEF Following
<1>8. CASE HandleSubscribe \/ HandleUnsubscribe
  <2> DEFINE m == Head(channel)
             q == <<m.subject, m.fn>>
  <2>1. /\ UNCHANGED <<wanted, inbox, status, recovery, pc>>
        /\ channel # <<>> /\ channel' = Tail(channel)
    BY <1>8 DEF HandleSubscribe, HandleUnsubscribe, TakeInternal, TakeChannel
  <2>3. \A p \in Pair \ {q} : (p \in table' <=> p \in table)
                             /\ (p \in unwritten' <=> p \in unwritten)
    BY <1>8 DEF HandleSubscribe, HandleUnsubscribe, Writes
  <2>4. m = SubscribeMsg(FALSE, m.subject, m.fn) => UNCHANGED <<table, unwritten>>
    BY <1>8 DEF HandleSubscribe, HandleUnsubscribe, TakeInternal, SubscribeMsg
  <2>5. m.type = "Subscribe" /\ m.register => q \in unwritten' \/ q \in table'
    BY <1>8 DEF HandleSubscribe, HandleUnsubscribe, TakeInternal, Writes
  <2>6. m.type = "Unsubscribe" => q \in unwritten' \/ q \notin table'
    BY <1>8 DEF HandleSubscribe, HandleUnsubscribe, TakeInternal, Writes
  <2>9. \A p \in Pair :
          /\ AsksOn(m, p) => p = q /\ m.type = "Subscribe" /\ m.register
          /\ AsksOff(m, p) => p = q /\ m.type = "Unsubscribe"
          /\ p = q => Asks(m, p) \/ m = SubscribeMsg(FALSE, m.subject, m.fn)
    BY <1>8, CommandHandled
  <2> HIDE DEF m, q
  <2>10. SUFFICES ASSUME NEW p \in Pair, wanted[p] # "any"
                 PROVE  Follows(p, inbox, channel', wanted[p], Done(p)')
    BY <2>1 DEF Following
  <2>11. Follows(p, inbox, channel, wanted[p], Done(p)) /\ wanted[p] \in {"on", "off"}
    BY <1>0, <2>10 DEF Following
  <2>12. CASE Last(inbox, p, wanted[p])
    BY <2>12 DEF Follows
  <2>13. CASE Silent(inbox, p) /\ Last(channel, p, wanted[p])
    <3>1. CASE Last(channel', p, wanted[p])
      BY <2>13, <3>1 DEF Follows
    <3>2. CASE AsksFor(m, p, wanted[p]) /\ Silent(channel', p)
      <4>1. p = q
        BY <2>9, <3>2 DEF AsksFor
      <4>2. CASE wanted[p] = "on"
        <5>1. m.type = "Subscribe" /\ m.register
          BY <2>9, <3>2, <4>2 DEF AsksFor
        <5> QED
          BY <2>1, <2>5, <2>13, <3>2, <4>1, <4>2, <5>1 DEF Follows, Done
      <4>3. CASE wanted[p] = "off"
        <5>1. m.type = "Unsubscribe"
          BY <2>9, <3>2, <4>3 DEF AsksFor
        <5> QED
          BY <2>1, <2>6, <2>13, <3>2, <4>1, <4>3, <5>1 DEF Follows, Done
      <4> QED
        BY <2>11, <4>2, <4>3
    <3> QED
      BY <1>0, <2>1, <2>13, <3>1, <3>2, TakeHead DEF m
  <2>14. CASE Silent(inbox, p) /\ Silent(channel, p) /\ Done(p)
    <3>1. ~ Asks(m, p)
      BY <1>0, <2>1, <2>14, HeadTailProperties, EmptySeq, LenProperties DEF Silent, m
    <3>2. p # q \/ m = SubscribeMsg(FALSE, m.subject, m.fn)
      BY <2>9, <3>1
    <3>3. Done(p)'
      BY <2>1, <2>3, <2>4, <2>14, <3>2 DEF Done
    <3>4. Silent(channel', p)
      BY <1>0, <2>1, <2>14, TakeHead
    <3> QED
      BY <2>14, <3>3, <3>4 DEF Follows
  <2> QED
    BY <2>11, <2>12, <2>13, <2>14 DEF Follows
<1> QED
  BY <1>1, <1>2, <1>3, <1>4, <1>5, <1>6, <1>7, <1>8 DEF WorkerStep

(* A task sends the message it received, or that it could not subscribe.    *)
LEMMA TaskSends ==
  ASSUME TypeOK, NEW i \in Task, TaskStep(i), channel' # channel
  PROVE  \E m \in InternalMessage :
           /\ channel' = Append(channel, m)
           /\ m.type \in {"UnsubscribeSubject", "CallbackCall"}
           /\ m.type = "UnsubscribeSubject" => m.subject \in Invalid
<1>1. task[i] \in TaskState /\ task[i] # FreeTask
  BY DEF TypeOK, TaskStep, Listen, Forward, Cancel, FreeTask
<1>2. task[i].subject \in Subject
  BY <1>1 DEF TypeOK
<1>3. CASE Listen(i)
  BY <1>2, <1>3, Messages DEF Listen, UnsubscribeSubject
<1>4. CASE Forward(i)
  <2>1. Head(task[i].buf) \in 1 .. MaxMsgs
    BY <1>1, <1>4, HeadTailProperties DEF Forward, TaskState
  <2> QED
    BY <1>2, <1>4, <2>1, Messages DEF Forward, CallbackCall
<1> QED
  BY <1>3, <1>4 DEF TaskStep, Cancel

LEMMA FollowingTask ==
  ASSUME NEW i \in Task PROVE TypeOK /\ Following /\ TaskStep(i) => Following'
<1> SUFFICES ASSUME TypeOK, Following, TaskStep(i) PROVE Following'
  OBVIOUS
<1>1. UNCHANGED <<wanted, table, unwritten, inbox, status, recovery, pc>>
  BY DEF TaskStep, Listen, Forward, Cancel, env, loop, hist
<1>2. CASE channel' = channel
  BY <1>1, <1>2, FollowingKept DEF Following
<1>3. CASE channel' # channel
  <2>1. PICK m \in InternalMessage :
          channel' = Append(channel, m) /\ m.type \in {"UnsubscribeSubject", "CallbackCall"}
    BY <1>3, TaskSends
  <2>2. \A p \in Pair : ~ Asks(m, p)
    BY <2>1, OtherAsks
  <2>5. ASSUME NEW p \in Pair
        PROVE  /\ Silent(channel, p) => Silent(channel', p)
               /\ Last(channel, p, wanted[p]) => Last(channel', p, wanted[p])
    BY <2>1, <2>2, AppendOther DEF TypeOK
  <2> QED
    BY <1>1, <2>5, FollowingKept DEF Following
<1> QED
  BY <1>2, <1>3

LEMMA FollowingEnvironment == TypeOK /\ Following /\ Environment => Following'
<1> SUFFICES ASSUME TypeOK, Following, Environment PROVE Following'
  OBVIOUS
<1>0. /\ inbox \in Seq(SubscriberMessage)
      /\ wanted \in [Pair -> {"on", "off", "any"}]
  BY DEF TypeOK
<1>1. ASSUME NEW s \in Subject, NEW f \in Fn, NEW type \in {"Subscribe", "Unsubscribe"},
             SendCommand(type, s, f)
      PROVE  Following'
  <2> DEFINE m == CommandMsg(type, s, f)
  <2>1. /\ ~ recovery /\ pc # "stopped"
        /\ UNCHANGED <<recovery, table, unwritten, status, pc, channel>>
        /\ inbox' = Append(inbox, m)
        /\ wanted' = [wanted EXCEPT ![<<s, f>>] =
                        IF status = "Replica" THEN "any"
                        ELSE IF type = "Subscribe" THEN "on" ELSE "off"]
    BY <1>1 DEF SendCommand, Send, env, loop
  <2>2. m \in SubscriberMessage
    BY DEF SubscriberMessage
  <2>3. ASSUME NEW p \in Pair, p = <<s, f>>
        PROVE  AsksFor(m, p, IF type = "Subscribe" THEN "on" ELSE "off")
    BY <2>3, CommandAsks DEF AsksFor
  <2>4. ASSUME NEW p \in Pair, p # <<s, f>> PROVE ~ Asks(m, p)
    BY <2>4, CommandAsks DEF Asks
  <2> HIDE DEF m
  <2>5. SUFFICES ASSUME NEW p \in Pair, wanted'[p] # "any"
                 PROVE  /\ status = "Master"
                        /\ Follows(p, inbox', channel, wanted'[p], Done(p)')
    BY <2>1 DEF Following
  <2>6. CASE p = <<s, f>>
    <3>1. status = "Master" /\ wanted'[p] = IF type = "Subscribe" THEN "on" ELSE "off"
      BY <1>0, <2>1, <2>5, <2>6 DEF TypeOK
    <3>2. Last(inbox', p, wanted'[p])
      BY <1>0, <2>1, <2>2, <2>3, <2>6, <3>1, AppendOwn
    <3> QED
      BY <3>1, <3>2 DEF Follows
  <2>7. CASE p # <<s, f>>
    <3>1. /\ wanted'[p] = wanted[p] /\ (Done(p)' <=> Done(p))
      BY <1>0, <2>1, <2>7 DEF Done
    <3>2. /\ Silent(inbox, p) => Silent(inbox', p)
          /\ Last(inbox, p, wanted[p]) => Last(inbox', p, wanted[p])
      <4>1. ~ Asks(m, p)
        BY <2>7, <2>4
      <4>2. inbox' = Append(inbox, m)
        BY <2>1
      <4> QED
        BY <1>0, <2>2, <4>1, <4>2, AppendOther
    <3>3. status = "Master" /\ Follows(p, inbox, channel, wanted[p], Done(p))
      BY <2>5, <3>1 DEF Following
    <3> QED
      BY <3>1, <3>2, <3>3 DEF Follows
  <2> QED
    BY <2>6, <2>7
<1>2. ASSUME NEW o \in Opt, SendConfig(o) PROVE Following'
  <2>1. /\ UNCHANGED <<wanted, recovery, table, unwritten, status, pc, channel>>
        /\ inbox' = Append(inbox, ConfigMsg(o))
    BY <1>2 DEF SendConfig, Send, env, loop, hist
  <2>2. ConfigMsg(o) \in SubscriberMessage /\ \A p \in Pair : ~ Asks(ConfigMsg(o), p)
    BY OtherAsks DEF SubscriberMessage, ConfigMsg
  <2>3. ASSUME NEW p \in Pair
        PROVE  /\ Silent(inbox, p) => Silent(inbox', p)
               /\ Last(inbox, p, wanted[p]) => Last(inbox', p, wanted[p])
    BY <1>0, <2>1, <2>2, AppendOther
  <2> QED
    BY <2>1, <2>3, FollowingKept DEF Following
<1>3. ASSUME NEW s \in Subject, Publish(s) PROVE Following'
  <2>1. UNCHANGED <<wanted, recovery, table, unwritten, status, pc, channel, inbox>>
    BY <1>3 DEF Publish, env, loop
  <2> QED
    BY <2>1, FollowingKept DEF Following
<1>4. ASSUME NEW f \in Fn, DropFunction(f) PROVE Following'
  <2>1. /\ UNCHANGED <<recovery, unwritten, status, pc, channel, inbox>>
        /\ \A p \in Pair : wanted'[p] # "any" =>
             wanted'[p] = wanted[p] /\ (p \in table' <=> p \in table)
    BY <1>4 DEF DropFunction, loop
  <2> QED
    BY <2>1, FollowingKept DEF Following
<1>5. ASSUME NEW f \in Fn, CreateFunction(f) PROVE Following'
  <2>1. UNCHANGED <<wanted, recovery, table, unwritten, status, pc, channel, inbox>>
    BY <1>5 DEF CreateFunction, loop, hist
  <2> QED
    BY <2>1, FollowingKept DEF Following
<1>6. CASE ChangeRole
  <2>1. \A p \in Pair : wanted'[p] # "any" => recovery /\ wanted[p] # "any"
    BY <1>6 DEF ChangeRole
  <2>2. \A p \in Pair : wanted'[p] = "any"
    BY <2>1 DEF Following
  <2> QED
    BY <2>2 DEF Following
<1>7. CASE Exit
  BY <1>7 DEF Exit, Following
<1> QED
  BY <1>1, <1>2, <1>3, <1>4, <1>5, <1>6, <1>7 DEF Environment

LEMMA CommandsFollowed == Spec => []Following
<1>1. Init => Following
  BY DEF Init, Following
<1>2. ASSUME TypeOK, Following, [Next]_vars PROVE Following'
  <2>1. CASE UNCHANGED vars
    BY <1>2, <2>1, FollowingKept DEF Following, vars, env, loop, hist
  <2> QED
    BY <1>2, <2>1, FollowingWorker, FollowingTask, FollowingEnvironment DEF Next
<1> QED
  BY <1>1, <1>2, TypeCorrect, PTL DEF Spec

(* A worker with nothing left to handle has in the table what the last     *)
(* command for each pair asked for, unless writing it failed: whatever     *)
(* promotions, callbacks, reconfigurations and exits came in between, and  *)
(* for any number of subjects, functions and commands.                     *)
THEOREM LastCommandApplied == Spec => []CommandsApplied
<1>1. ASSUME TypeOK, Following PROVE CommandsApplied
  <2>1. SUFFICES ASSUME Quiet, NEW p \in Pair, p \notin unwritten, wanted[p] # "any"
                 PROVE  (wanted[p] = "on" => p \in table) /\ (wanted[p] = "off" => p \notin table)
    BY DEF CommandsApplied
  <2>2. Len(inbox) = 0 /\ Len(channel) = 0
    BY <2>1 DEF Quiet
  <2>3. ~ Last(inbox, p, wanted[p]) /\ ~ Last(channel, p, wanted[p])
    BY <2>2 DEF Last
  <2>4. Done(p)
    BY <1>1, <2>1, <2>3 DEF Following, Follows
  <2> QED
    BY <2>1, <2>4 DEF Done
<1> QED
  BY <1>1, CommandsFollowed, TypeCorrect, PTL

(***************************************************************************)
(* What the worker itself serves.                                          *)
(***************************************************************************)

(* The map has what the last command for p asked for.                      *)
Kept(p) ==
  \/ wanted[p] = "on" /\ (p[2] \in Funcs(p[1]) \/ p[1] \in Invalid)
  \/ wanted[p] = "off" /\ p[2] \notin Funcs(p[1])

(* A row of p that a scan found is followed by a command that removes p.   *)
RowsLeave(q, p) ==
  \A k \in 1 .. Len(q) : q[k] = SubscribeMsg(FALSE, p[1], p[2]) =>
    \E j \in 1 .. Len(q) : k < j /\ AsksOff(q[j], p)

(* Only a subject that the client refuses is reported as such.             *)
Reports(q) ==
  \A k \in 1 .. Len(q) : q[k].type = "UnsubscribeSubject" => q[k].subject \in Invalid

(* The inductive invariant, with Following.                                *)
Remembering ==
  /\ \A p \in Pair : wanted[p] # "any" =>
       /\ p[2] \in functions
       /\ Follows(p, inbox, channel, wanted[p], Kept(p))
       /\ wanted[p] = "off" => Last(inbox, p, "off") \/ RowsLeave(channel, p)
  /\ Reports(channel)

LEMMA RowsLeaveAppend ==
  ASSUME NEW S, NEW q \in Seq(S), NEW m \in S, NEW p,
         m # SubscribeMsg(FALSE, p[1], p[2])
  PROVE  /\ RowsLeave(q, p) => RowsLeave(Append(q, m), p)
         /\ AsksOff(m, p) => RowsLeave(Append(q, m), p)
<1> DEFINE d == Append(q, m)
<1>1. /\ Len(d) = Len(q) + 1 /\ Len(q) \in Nat
      /\ \A k \in 1 .. Len(q) : d[k] = q[k]
      /\ d[Len(q) + 1] = m
  BY AppendProperties, LenProperties
<1> HIDE DEF d
<1>2. \A k \in 1 .. Len(d) : d[k] = SubscribeMsg(FALSE, p[1], p[2]) =>
        k \in 1 .. Len(q) /\ q[k] = SubscribeMsg(FALSE, p[1], p[2])
  <2>1. \A k \in 1 .. Len(d) : k \in 1 .. Len(q) \/ k = Len(q) + 1
    BY <1>1
  <2> QED
    BY <1>1, <2>1
<1>3. \A j \in 1 .. Len(q) : j \in 1 .. Len(d)
  BY <1>1
<1>4. RowsLeave(q, p) => RowsLeave(d, p)
  BY <1>1, <1>2, <1>3 DEF RowsLeave
<1>5. AsksOff(m, p) => RowsLeave(d, p)
  <2>1. \A k \in 1 .. Len(q) : k < Len(q) + 1 /\ Len(q) + 1 \in 1 .. Len(d)
    BY <1>1
  <2> QED
    BY <1>1, <1>2, <2>1 DEF RowsLeave
<1> QED
  BY <1>4, <1>5 DEF d

LEMMA RowsLeaveTail ==
  ASSUME NEW S, NEW q \in Seq(S), q # <<>>, NEW p, RowsLeave(q, p)
  PROVE  /\ RowsLeave(Tail(q), p)
         /\ Silent(q, p) => \A k \in 1 .. Len(q) : q[k] # SubscribeMsg(FALSE, p[1], p[2])
<1> DEFINE d == Tail(q)
<1>1. /\ Len(q) \in Nat \ {0} /\ Len(d) = Len(q) - 1
      /\ \A k \in 1 .. Len(d) : d[k] = q[k + 1] /\ k + 1 \in 1 .. Len(q)
  BY HeadTailProperties, EmptySeq, LenProperties
<1> HIDE DEF d
<1>2. ASSUME NEW k \in 1 .. Len(d), d[k] = SubscribeMsg(FALSE, p[1], p[2])
      PROVE  \E j \in 1 .. Len(d) : k < j /\ AsksOff(d[j], p)
  <2>1. PICK j \in 1 .. Len(q) : k + 1 < j /\ AsksOff(q[j], p)
    BY <1>1, <1>2 DEF RowsLeave
  <2>2. j - 1 \in 1 .. Len(d) /\ k < j - 1 /\ (j - 1) + 1 = j
    BY <1>1, <2>1
  <2>3. d[j - 1] = q[j]
    BY <1>1, <2>2
  <2> QED
    BY <2>1, <2>2, <2>3
<1>3. Silent(q, p) => \A k \in 1 .. Len(q) : q[k] # SubscribeMsg(FALSE, p[1], p[2])
  BY DEF RowsLeave, Silent, Asks
<1> QED
  BY <1>2, <1>3 DEF RowsLeave, d

(* The reports of a channel to which one message is added, from which the  *)
(* first is taken, or to which rows are added.                             *)
LEMMA ReportsChanged ==
  ASSUME NEW q \in Seq(InternalMessage), Reports(q)
  PROVE  /\ \A m \in InternalMessage :
              (m.type = "UnsubscribeSubject" => m.subject \in Invalid) => Reports(Append(q, m))
         /\ q # <<>> => /\ Reports(Tail(q))
                        /\ Head(q).type = "UnsubscribeSubject" => Head(q).subject \in Invalid
         /\ table \subseteq Pair =>
              \A rows \in Restored : Reports(rows) /\ Reports(q \o rows)
<1>1. ASSUME NEW m \in InternalMessage, m.type = "UnsubscribeSubject" => m.subject \in Invalid
      PROVE  Reports(Append(q, m))
  <2>1. /\ Len(Append(q, m)) = Len(q) + 1 /\ Len(q) \in Nat
        /\ \A k \in 1 .. Len(q) : Append(q, m)[k] = q[k]
        /\ Append(q, m)[Len(q) + 1] = m
    BY AppendProperties, LenProperties
  <2>2. \A k \in 1 .. Len(Append(q, m)) : k \in 1 .. Len(q) \/ k = Len(q) + 1
    BY <2>1
  <2> QED
    BY <1>1, <2>1, <2>2 DEF Reports
<1>2. ASSUME q # <<>>
      PROVE  /\ Reports(Tail(q))
             /\ Head(q).type = "UnsubscribeSubject" => Head(q).subject \in Invalid
  <2>1. /\ Len(q) \in Nat \ {0} /\ Len(Tail(q)) = Len(q) - 1 /\ Head(q) = q[1]
        /\ \A k \in 1 .. Len(Tail(q)) : Tail(q)[k] = q[k + 1] /\ k + 1 \in 1 .. Len(q)
    BY <1>2, HeadTailProperties, EmptySeq, LenProperties
  <2> QED
    BY <2>1 DEF Reports
<1>3. ASSUME table \subseteq Pair, NEW rows \in Restored
      PROVE  Reports(rows) /\ Reports(q \o rows)
  <2>1. rows \in Seq(InternalMessage)
    BY <1>3, RestoredRows
  <2>2. /\ Len(rows) \in Nat /\ Len(q) \in Nat /\ Len(q \o rows) = Len(q) + Len(rows)
        /\ \A k \in 1 .. Len(q \o rows) :
             (q \o rows)[k] = IF k <= Len(q) THEN q[k] ELSE rows[k - Len(q)]
    BY <2>1, ConcatProperties, LenProperties
  <2>3. \A k \in 1 .. Len(rows) : rows[k].type # "UnsubscribeSubject"
    <3>1. \A k \in DOMAIN rows : \E p \in table : rows[k] = SubscribeMsg(FALSE, p[1], p[2])
      BY <1>3, RestoredRows
    <3>2. DOMAIN rows = 1 .. Len(rows)
      BY <2>1, LenProperties
    <3> QED
      BY <3>1, <3>2 DEF SubscribeMsg
  <2>4. \A k \in 1 .. Len(q \o rows) : k <= Len(q) \/ k - Len(q) \in 1 .. Len(rows)
    BY <2>2
  <2> QED
    BY <2>2, <2>3, <2>4 DEF Reports
<1> QED
  BY <1>1, <1>2, <1>3

(* What the invariant needs of a step that leaves the commands and what is *)
(* served for them alone.                                                  *)
LEMMA RememberingKept ==
  ASSUME Remembering, Reports(channel'),
         \A p \in Pair : wanted'[p] # "any" =>
           /\ wanted'[p] = wanted[p]
           /\ p[2] \in functions => p[2] \in functions'
           /\ wanted[p] = "on" /\ p[1] \notin Invalid /\ p[2] \in functions =>
                (p[2] \in Funcs(p[1]) => p[2] \in Funcs(p[1])')
           /\ wanted[p] = "off" => (p[2] \in Funcs(p[1])' => p[2] \in Funcs(p[1]))
           /\ Silent(inbox, p) => Silent(inbox', p)
           /\ Last(inbox, p, wanted[p]) => Last(inbox', p, wanted[p])
           /\ Silent(channel, p) => Silent(channel', p)
           /\ Last(channel, p, wanted[p]) => Last(channel', p, wanted[p])
           /\ RowsLeave(channel, p) => RowsLeave(channel', p)
  PROVE  Remembering'
<1>1. ASSUME NEW p \in Pair, wanted'[p] # "any"
      PROVE  /\ p[2] \in functions'
             /\ Follows(p, inbox', channel', wanted'[p], Kept(p)')
             /\ wanted'[p] = "off" => Last(inbox', p, "off") \/ RowsLeave(channel', p)
  <2>1. /\ wanted'[p] = wanted[p] /\ p[2] \in functions /\ p[2] \in functions'
        /\ Follows(p, inbox, channel, wanted[p], Kept(p))
        /\ wanted[p] = "off" => Last(inbox, p, "off") \/ RowsLeave(channel, p)
    BY <1>1 DEF Remembering
  <2>2. Kept(p) => Kept(p)'
    BY <1>1, <2>1 DEF Kept
  <2>3. Follows(p, inbox', channel', wanted'[p], Kept(p)')
    BY <1>1, <2>1, <2>2 DEF Follows
  <2> QED
    BY <1>1, <2>1, <2>3
<1> QED
  BY <1>1 DEF Remembering

(* The functions of a subject that the step leaves as it is.               *)
LEMMA FuncsSame ==
  ASSUME NEW s, subscriptions'[s] = subscriptions[s]
  PROVE  Funcs(s)' = Funcs(s)
BY DEF Funcs, Subscribed

LEMMA AddFuncs ==
  ASSUME MapOK, TasksOK, config \in Opt, NEW s \in Subject, NEW f \in Fn, AddCallback(s, f)
  PROVE  \A t \in Subject : Funcs(t)' = IF t = s THEN Funcs(s) \cup {f} ELSE Funcs(t)
<1>1. /\ subscriptions'[s] # None /\ subscriptions'[s].funcs = Funcs(s) \cup {f}
      /\ \A t \in Subject : t # s => subscriptions'[t] = subscriptions[t]
  BY AddEffect
<1>2. Funcs(s)' = Funcs(s) \cup {f}
  BY <1>1 DEF Funcs, Subscribed
<1> QED
  BY <1>1, <1>2, FuncsSame

LEMMA RemoveFuncs ==
  ASSUME MapOK, TasksOK, NEW s \in Subject, NEW f \in Fn, RemoveCallback(s, f)
  PROVE  \A t \in Subject : Funcs(t)' = IF t = s THEN Funcs(s) \ {f} ELSE Funcs(t)
<1>1. \A t \in Subject : t # s => subscriptions'[t] = subscriptions[t]
  BY RemoveEffect
<1>2. Funcs(s)' = Funcs(s) \ {f}
  <2>1. CASE Subscribed(s) /\ Funcs(s) \ {f} = {}
    <3>1. subscriptions'[s] = None
      BY <2>1 DEF RemoveCallback, MapOK
    <3> QED
      BY <2>1, <3>1 DEF Funcs, Subscribed
  <2>2. CASE Subscribed(s) /\ Funcs(s) \ {f} # {}
    <3>1. subscriptions' = [subscriptions EXCEPT ![s].funcs = Funcs(s) \ {f}]
      BY <2>2 DEF RemoveCallback, Funcs
    <3>2. Funcs(s) \ {f} \in SUBSET Fn
      BY EntryType
    <3>3. subscriptions'[s] # None /\ subscriptions'[s].funcs = Funcs(s) \ {f}
      BY <2>2, <3>1, <3>2, FuncsChanged
    <3> QED
      BY <3>3 DEF Funcs, Subscribed
  <2>3. CASE ~ Subscribed(s)
    BY <2>3 DEF RemoveCallback, Funcs, Subscribed
  <2> QED
    BY <2>1, <2>2, <2>3
<1> QED
  BY <1>1, <1>2, FuncsSame

LEMMA RememberingWorker ==
  ASSUME "BodyUndefined" \notin Events, TypeOK, Following, Remembering, Start \/ WorkerStep
  PROVE  Remembering'
<1> USE TypeParts
<1>0. /\ inbox \in Seq(SubscriberMessage) /\ channel \in Seq(InternalMessage)
      /\ table \subseteq Pair /\ wanted \in [Pair -> {"on", "off", "any"}]
      /\ Reports(channel)
  BY DEF TypeOK, Remembering
<1>1. CASE Start
  <2>1. \A p \in Pair : wanted'[p] = "any"
    BY <1>1 DEF Start, Following, hist
  <2>2. Reports(channel')
    BY <1>0, <1>1, ReportsChanged DEF Start
  <2> QED
    BY <2>1, <2>2 DEF Remembering
<1>2. CASE CheckMigration
  <2>1. /\ UNCHANGED <<wanted, functions, inbox>>
        /\ \A p \in Pair : wanted[p] # "any" => UNCHANGED <<subscriptions, channel>>
    BY <1>2 DEF CheckMigration, Following, Role, hist
  <2>2. Reports(channel')
    BY <1>0, <1>2, ReportsChanged DEF CheckMigration, MigrateUp
  <2> QED
    BY <2>1, <2>2, FuncsSame, RememberingKept
<1>3. CASE ApplyConfig
  <2>1. /\ UNCHANGED <<wanted, functions, channel>> /\ Head(inbox).opt \in Opt
        /\ inbox # <<>> /\ Head(inbox).type = "NewConfig" /\ inbox' = Tail(inbox)
    BY <1>3, InboxHead, InboxKinds DEF ApplyConfig, TakeInbox, env, hist
  <2>2. \A p \in Pair : ~ Asks(Head(inbox), p)
    BY <2>1, OtherAsks
  <2>3. ASSUME NEW p \in Pair
        PROVE  /\ Silent(inbox, p) => Silent(inbox', p)
               /\ Last(inbox, p, wanted[p]) => Last(inbox', p, wanted[p])
    BY <1>0, <2>1, <2>2, TakeHead DEF AsksFor, Asks
  <2>4. \A s \in Subject : Funcs(s)' = Funcs(s)
    <3>1. CASE UNCHANGED subscriptions
      BY <3>1, FuncsSame
    <3>2. CASE Reconnect(Head(inbox).opt)
      BY <2>1, <3>2, ReconnectEffect DEF Funcs, Subscribed
    <3> QED
      BY <1>3, <3>1, <3>2 DEF ApplyConfig
  <2> QED
    BY <1>0, <2>1, <2>3, <2>4, RememberingKept DEF Pair
<1>4. CASE QueueCommand
  <2>1. /\ UNCHANGED <<wanted, functions, subscriptions>>
        /\ inbox # <<>> /\ inbox' = Tail(inbox)
    BY <1>4 DEF QueueCommand, TakeInbox, env, loop, hist
  <2>2. PICK m \in InternalMessage :
          /\ channel' = Append(channel, m)
          /\ m.type = Head(inbox).type
          /\ m.type = "Subscribe" => m.register
          /\ \A p \in Pair : /\ AsksOn(Head(inbox), p) <=> AsksOn(m, p)
                             /\ AsksOff(Head(inbox), p) <=> AsksOff(m, p)
    BY <1>4, CommandTaken
  <2>3. m.type \in {"Subscribe", "Unsubscribe"} /\ \A s, f : m # SubscribeMsg(FALSE, s, f)
    BY <1>4, <2>2 DEF QueueCommand, TakeInbox, SubscribeMsg
  <2>4. Reports(channel')
    BY <1>0, <2>2, <2>3, ReportsChanged
  <2>5. ASSUME NEW p \in Pair, wanted[p] # "any"
        PROVE  /\ p[2] \in functions
               /\ Follows(p, inbox', channel', wanted[p], Kept(p)')
               /\ wanted[p] = "off" => Last(inbox', p, "off") \/ RowsLeave(channel', p)
    <3>1. /\ p[2] \in functions /\ wanted[p] \in {"on", "off"}
          /\ Follows(p, inbox, channel, wanted[p], Kept(p))
          /\ wanted[p] = "off" => Last(inbox, p, "off") \/ RowsLeave(channel, p)
      BY <1>0, <2>5 DEF Remembering
    <3>2. /\ Last(inbox, p, wanted[p]) =>
               \/ Last(inbox', p, wanted[p])
               \/ Silent(inbox', p) /\ Last(channel', p, wanted[p])
          /\ Silent(inbox, p) =>
               /\ Silent(inbox', p)
               /\ Silent(channel, p) => Silent(channel', p)
               /\ Last(channel, p, wanted[p]) => Last(channel', p, wanted[p])
      BY <1>4, <3>1, CommandMoves
    <3>3. Kept(p) => Kept(p)'
      BY <2>1 DEF Kept, Funcs, Subscribed
    <3>4. Follows(p, inbox', channel', wanted[p], Kept(p)')
      BY <3>1, <3>2, <3>3 DEF Follows
    <3>5. ASSUME wanted[p] = "off"
          PROVE  Last(inbox', p, "off") \/ RowsLeave(channel', p)
      <4>1. RowsLeave(channel, p) \/ AsksOff(m, p) => RowsLeave(channel', p)
        BY <1>0, <2>2, <2>3, RowsLeaveAppend
      <4>2. Last(inbox, p, "off") => Last(inbox', p, "off") \/ AsksOff(Head(inbox), p)
        BY <1>0, <2>1, TakeHead DEF AsksFor
      <4> QED
        BY <2>2, <3>1, <3>5, <4>1, <4>2
    <3> QED
      BY <3>1, <3>4, <3>5
  <2> QED
    BY <2>1, <2>4, <2>5 DEF Remembering
<1>5. CASE QueueEmpty \/ ChannelEmpty
  <2>1. UNCHANGED <<wanted, functions, subscriptions, inbox, channel>>
    BY <1>5 DEF QueueEmpty, ChannelEmpty, env, hist
  <2> QED
    BY <1>0, <2>1, FuncsSame, RememberingKept
<1>6. CASE IgnoreOnReplica
  <2>1. \A p \in Pair : wanted'[p] = "any"
    BY <1>6 DEF IgnoreOnReplica, Following, hist
  <2>2. Reports(channel')
    BY <1>0, <1>6, ReportsChanged DEF IgnoreOnReplica, TakeChannel
  <2> QED
    BY <2>1, <2>2 DEF Remembering
<1>7. CASE HandleCallback \/ HandleUnsubscribeSubject
  <2>1. /\ UNCHANGED <<wanted, functions, inbox>>
        /\ channel # <<>> /\ channel' = Tail(channel)
        /\ Head(channel).type \in {"CallbackCall", "UnsubscribeSubject"}
    BY <1>7 DEF HandleCallback, HandleUnsubscribeSubject, TakeInternal, TakeChannel, env, hist
  <2>2. \A p \in Pair : ~ Asks(Head(channel), p)
    BY <2>1, OtherAsks
  <2>3. ASSUME NEW p \in Pair
        PROVE  /\ Silent(channel, p) => Silent(channel', p)
               /\ Last(channel, p, wanted[p]) => Last(channel', p, wanted[p])
               /\ RowsLeave(channel, p) => RowsLeave(channel', p)
    BY <1>0, <2>1, <2>2, TakeHead, RowsLeaveTail DEF AsksFor, Asks
  <2>4. Reports(channel')
    BY <1>0, <2>1, ReportsChanged
  <2>5. ASSUME NEW s \in Subject
        PROVE  /\ Funcs(s)' \subseteq Funcs(s)
               /\ s \notin Invalid => \A f \in Funcs(s) : f \in functions => f \in Funcs(s)'
    <3>1. PICK t \in Subject : t = Head(channel).subject
      BY <2>1, ChannelHead, InternalKinds
    <3>2. CASE HandleUnsubscribeSubject
      <4>1. subscriptions' = [subscriptions EXCEPT ![t] = None] /\ t \in Invalid
        BY <1>0, <2>1, <3>1, <3>2, ReportsChanged DEF HandleUnsubscribeSubject, TakeInternal
      <4> QED
        BY <4>1 DEF MapOK, Funcs, Subscribed
    <3>3. CASE HandleCallback
      <4>1. PICK missing \in Undefined(t) :
              subscriptions' = IF Subscribed(t)
                                 THEN [subscriptions EXCEPT ![t].funcs = @ \ missing]
                                 ELSE subscriptions
        BY <3>1, <3>3 DEF HandleCallback
      <4>2. missing \cap functions = {}
        BY <4>1 DEF Undefined
      <4>3. CASE Subscribed(t)
        <5> DEFINE F == Funcs(t) \ missing
        <5>1. F \in SUBSET Fn /\ subscriptions' = [subscriptions EXCEPT ![t].funcs = F]
          BY <3>1, <4>1, <4>3, EntryType DEF Funcs
        <5> HIDE DEF F
        <5>2. /\ \A u \in Subject : u # t => subscriptions'[u] = subscriptions[u]
              /\ subscriptions'[t] # None /\ subscriptions'[t].funcs = F
          BY <4>3, <5>1, FuncsChanged
        <5>3. Funcs(t)' = F
          BY <5>2 DEF Funcs, Subscribed
        <5> QED
          BY <4>2, <5>2, <5>3, FuncsSame DEF F
      <4>4. CASE ~ Subscribed(t)
        BY <4>1, <4>4, FuncsSame
      <4> QED
        BY <4>3, <4>4
    <3> QED
      BY <1>7, <3>2, <3>3
  <2> QED
    BY <2>1, <2>3, <2>4, <2>5, RememberingKept DEF Pair
<1>8. CASE HandleSubscribe \/ HandleUnsubscribe
  <2> DEFINE m == Head(channel)
             s == m.subject
             f == m.fn
  <2>1. /\ UNCHANGED <<wanted, functions, inbox>>
        /\ channel # <<>> /\ channel' = Tail(channel)
    BY <1>8 DEF HandleSubscribe, HandleUnsubscribe, TakeInternal, TakeChannel
  <2>2. /\ s \in Subject /\ f \in Fn
        /\ \/ m = SubscribeMsg(FALSE, s, f)
           \/ m.type = "Subscribe" /\ m.register
           \/ m.type = "Unsubscribe"
        /\ \A p \in Pair :
             /\ AsksOn(m, p) => p = <<s, f>> /\ m.type = "Subscribe" /\ m.register
             /\ AsksOff(m, p) => p = <<s, f>> /\ m.type = "Unsubscribe"
             /\ p = <<s, f>> => Asks(m, p) \/ m = SubscribeMsg(FALSE, s, f)
    BY <1>8, CommandHandled
  <2>3. Reports(channel')
    BY <1>0, <2>1, ReportsChanged
  <2>4. \/ m.type = "Subscribe" /\ AddCallback(s, f)
        \/ m.type = "Unsubscribe" /\ RemoveCallback(s, f)
    BY <1>8 DEF HandleSubscribe, HandleUnsubscribe, TakeInternal
  <2>5. m = SubscribeMsg(FALSE, s, f) => m.type = "Subscribe"
    BY DEF SubscribeMsg
  <2>6. 1 \in 1 .. Len(channel) /\ channel[1] = m
    BY <1>0, <2>1, HeadTailProperties, EmptySeq, LenProperties
  <2>7. ASSUME NEW p \in Pair
        PROVE  /\ p # <<s, f>> => (p[2] \in Funcs(p[1])' <=> p[2] \in Funcs(p[1]))
               /\ p = <<s, f>> /\ m.type = "Subscribe" => p[2] \in Funcs(p[1])'
               /\ p = <<s, f>> /\ m.type = "Unsubscribe" => p[2] \notin Funcs(p[1])'
    <3>1. PICK t \in Subject, g \in Fn : t = s /\ g = f
      BY <2>2
    <3>2. /\ \/ m.type = "Subscribe" /\ AddCallback(t, g)
             \/ m.type = "Unsubscribe" /\ RemoveCallback(t, g)
          /\ p = <<p[1], p[2]>> /\ p[1] \in Subject
      BY <2>4, <3>1 DEF Pair
    <3> HIDE DEF m, s, f
    <3>3. CASE m.type = "Subscribe"
      <4>1. Funcs(p[1])' = IF p[1] = t THEN Funcs(t) \cup {g} ELSE Funcs(p[1])
        BY <3>2, <3>3, AddFuncs DEF TypeOK
      <4> QED
        BY <3>1, <3>2, <3>3, <4>1
    <3>4. CASE m.type = "Unsubscribe"
      <4>1. Funcs(p[1])' = IF p[1] = t THEN Funcs(t) \ {g} ELSE Funcs(p[1])
        BY <3>2, <3>4, RemoveFuncs
      <4> QED
        BY <3>1, <3>2, <3>4, <4>1
    <3> QED
      BY <3>2, <3>3, <3>4
  <2> HIDE DEF m, s, f
  <2>8. ASSUME NEW p \in Pair, wanted[p] # "any"
        PROVE  /\ p[2] \in functions
               /\ Follows(p, inbox', channel', wanted[p], Kept(p)')
               /\ wanted[p] = "off" => Last(inbox', p, "off") \/ RowsLeave(channel', p)
    <3>1. /\ p[2] \in functions /\ wanted[p] \in {"on", "off"}
          /\ Follows(p, inbox, channel, wanted[p], Kept(p))
          /\ wanted[p] = "off" => Last(inbox, p, "off") \/ RowsLeave(channel, p)
      BY <1>0, <2>8 DEF Remembering
    <3>2. wanted[p] = "off" => Last(inbox', p, "off") \/ RowsLeave(channel', p)
      BY <1>0, <2>1, <3>1, RowsLeaveTail
    <3>3. AsksFor(m, p, wanted[p]) => Kept(p)'
      BY <2>1, <2>2, <2>7, <3>1 DEF AsksFor, Kept
    <3>4. CASE Last(inbox, p, wanted[p])
      BY <2>1, <3>1, <3>2, <3>4 DEF Follows
    <3>5. CASE Silent(inbox, p) /\ Last(channel, p, wanted[p])
      <4>1. \/ Last(channel', p, wanted[p])
            \/ AsksFor(m, p, wanted[p]) /\ Silent(channel', p)
        BY <1>0, <2>1, <3>5, TakeHead DEF m
      <4> QED
        BY <2>1, <3>1, <3>2, <3>3, <3>5, <4>1 DEF Follows
    <3>6. CASE Silent(inbox, p) /\ Silent(channel, p) /\ Kept(p)
      <4>1. ~ Asks(m, p)
        BY <2>6, <3>6 DEF Silent
      <4>2. wanted[p] = "off" => ~ Last(inbox, p, "off")
        BY <3>6 DEF Silent, Last, AsksFor, Asks
      <4>3. wanted[p] = "off" => m # SubscribeMsg(FALSE, p[1], p[2])
        BY <1>0, <2>1, <2>6, <3>1, <3>6, <4>2, RowsLeaveTail
      <4>4. p # <<s, f>> \/ (m = SubscribeMsg(FALSE, s, f) /\ wanted[p] = "on")
        <5>1. p = <<s, f>> => m = SubscribeMsg(FALSE, s, f) /\ p[1] = s /\ p[2] = f
          <6>1. p = <<s, f>> => m = SubscribeMsg(FALSE, s, f)
            BY <2>2, <4>1
          <6>2. p = <<s, f>> => p[1] = s /\ p[2] = f
            OBVIOUS
          <6> QED
            BY <6>1, <6>2
        <5> QED
          BY <3>1, <4>3, <5>1
      <4>5. Kept(p)'
        BY <2>1, <2>5, <2>7, <3>1, <3>6, <4>4 DEF Kept
      <4>6. Silent(channel', p)
        BY <1>0, <2>1, <3>6, TakeHead
      <4> QED
        BY <2>1, <3>1, <3>2, <3>6, <4>5, <4>6 DEF Follows
    <3> QED
      BY <3>1, <3>4, <3>5, <3>6 DEF Follows
  <2> QED
    BY <2>1, <2>3, <2>8 DEF Remembering
<1> QED
  BY <1>1, <1>2, <1>3, <1>4, <1>5, <1>6, <1>7, <1>8 DEF WorkerStep

LEMMA RememberingTask ==
  ASSUME TypeOK, Remembering, NEW i \in Task, TaskStep(i)
  PROVE  Remembering'
<1>0. channel \in Seq(InternalMessage) /\ Reports(channel)
  BY DEF TypeOK, Remembering
<1>1. UNCHANGED <<wanted, functions, inbox, subscriptions>>
  BY DEF TaskStep, Listen, Forward, Cancel, env, loop, hist
<1>2. CASE channel' = channel
  BY <1>0, <1>1, <1>2, FuncsSame, RememberingKept
<1>3. CASE channel' # channel
  <2>1. PICK m \in InternalMessage :
          /\ channel' = Append(channel, m)
          /\ m.type \in {"UnsubscribeSubject", "CallbackCall"}
          /\ m.type = "UnsubscribeSubject" => m.subject \in Invalid
    BY <1>3, TaskSends
  <2>2. \A p \in Pair : ~ Asks(m, p) /\ m # SubscribeMsg(FALSE, p[1], p[2])
    BY <2>1, OtherAsks DEF SubscribeMsg
  <2>3. Reports(channel')
    BY <1>0, <2>1, ReportsChanged
  <2>4. ASSUME NEW p \in Pair
        PROVE  /\ Silent(channel, p) => Silent(channel', p)
               /\ Last(channel, p, wanted[p]) => Last(channel', p, wanted[p])
               /\ RowsLeave(channel, p) => RowsLeave(channel', p)
    BY <1>0, <2>1, <2>2, AppendOther, RowsLeaveAppend
  <2> QED
    BY <1>1, <2>3, <2>4, FuncsSame, RememberingKept
<1> QED
  BY <1>2, <1>3

LEMMA RememberingEnvironment ==
  ASSUME TypeOK, Following, Remembering, Environment
  PROVE  Remembering'
<1>0. /\ inbox \in Seq(SubscriberMessage) /\ Reports(channel)
      /\ wanted \in [Pair -> {"on", "off", "any"}]
  BY DEF TypeOK, Remembering
<1>1. ASSUME NEW s \in Subject, NEW f \in Fn, NEW type \in {"Subscribe", "Unsubscribe"},
             SendCommand(type, s, f)
      PROVE  Remembering'
  <2>1. /\ UNCHANGED <<functions, subscriptions, channel>> /\ f \in functions
        /\ inbox' = Append(inbox, CommandMsg(type, s, f))
        /\ wanted' = [wanted EXCEPT ![<<s, f>>] =
                        IF status = "Replica" THEN "any"
                        ELSE IF type = "Subscribe" THEN "on" ELSE "off"]
    BY <1>1 DEF SendCommand, Send, env, loop
  <2>2. SUFFICES ASSUME NEW p \in Pair, wanted'[p] # "any"
                 PROVE  /\ p[2] \in functions
                        /\ Follows(p, inbox', channel, wanted'[p], Kept(p)')
                        /\ wanted'[p] = "off" => Last(inbox', p, "off") \/ RowsLeave(channel, p)
    BY <1>0, <2>1 DEF Remembering
  <2>3. CommandMsg(type, s, f) \in SubscriberMessage
    BY DEF SubscriberMessage
  <2>4. CASE p = <<s, f>>
    <3>1. wanted'[p] = IF type = "Subscribe" THEN "on" ELSE "off"
      BY <1>0, <2>1, <2>2, <2>4
    <3>2. AsksFor(CommandMsg(type, s, f), p, wanted'[p])
      BY <2>4, <3>1, CommandAsks DEF AsksFor
    <3>3. Last(inbox', p, wanted'[p])
      BY <1>0, <2>1, <2>3, <3>2, AppendOwn
    <3>4. p[2] \in functions
      BY <2>1, <2>4
    <3> QED
      BY <3>3, <3>4 DEF Follows
  <2>5. CASE p # <<s, f>>
    <3>1. wanted'[p] = wanted[p]
      BY <1>0, <2>1, <2>5
    <3>2. ~ Asks(CommandMsg(type, s, f), p)
      BY <2>5, CommandAsks DEF Asks
    <3>3. /\ Silent(inbox, p) => Silent(inbox', p)
          /\ \A w : Last(inbox, p, w) => Last(inbox', p, w)
      BY <1>0, <2>1, <2>3, <3>2, AppendOther
    <3>4. Kept(p) => Kept(p)'
      BY <2>1, <3>1 DEF Kept, Funcs, Subscribed
    <3>5. /\ p[2] \in functions /\ Follows(p, inbox, channel, wanted[p], Kept(p))
          /\ wanted[p] = "off" => Last(inbox, p, "off") \/ RowsLeave(channel, p)
      BY <2>2, <3>1 DEF Remembering
    <3> QED
      BY <3>1, <3>3, <3>4, <3>5 DEF Follows
  <2> QED
    BY <2>4, <2>5
<1>2. ASSUME NEW o \in Opt, SendConfig(o) PROVE Remembering'
  <2>1. /\ UNCHANGED <<wanted, functions, subscriptions, channel>>
        /\ inbox' = Append(inbox, ConfigMsg(o))
    BY <1>2 DEF SendConfig, Send, env, loop, hist
  <2>2. ConfigMsg(o) \in SubscriberMessage /\ \A p \in Pair : ~ Asks(ConfigMsg(o), p)
    BY OtherAsks DEF SubscriberMessage, ConfigMsg
  <2>3. ASSUME NEW p \in Pair
        PROVE  /\ Silent(inbox, p) => Silent(inbox', p)
               /\ Last(inbox, p, wanted[p]) => Last(inbox', p, wanted[p])
    BY <1>0, <2>1, <2>2, AppendOther
  <2> QED
    BY <1>0, <2>1, <2>3, FuncsSame, RememberingKept
<1>3. ASSUME \/ \E s \in Subject : Publish(s)
             \/ \E f \in Fn : CreateFunction(f)
      PROVE  Remembering'
  <2>1. /\ UNCHANGED <<wanted, subscriptions, channel, inbox>> /\ functions \subseteq functions'
    BY <1>3 DEF Publish, CreateFunction, env, loop, hist
  <2> QED
    BY <1>0, <2>1, FuncsSame, RememberingKept
<1>4. ASSUME NEW f \in Fn, DropFunction(f) PROVE Remembering'
  <2>1. /\ UNCHANGED <<subscriptions, channel, inbox>>
        /\ \A p \in Pair : wanted'[p] # "any" =>
             wanted'[p] = wanted[p] /\ (p[2] \in functions => p[2] \in functions')
    BY <1>4 DEF DropFunction, loop
  <2> QED
    BY <1>0, <2>1, FuncsSame, RememberingKept
<1>5. CASE ChangeRole
  <2>1. /\ \A p \in Pair : wanted'[p] # "any" => recovery /\ wanted[p] # "any"
        /\ channel' = channel
    BY <1>5 DEF ChangeRole
  <2>2. \A p \in Pair : wanted'[p] = "any"
    BY <2>1 DEF Following
  <2> QED
    BY <1>0, <2>1, <2>2 DEF Remembering
<1>6. CASE Exit
  BY <1>6 DEF Exit, Remembering, Reports
<1> QED
  BY <1>1, <1>2, <1>3, <1>4, <1>5, <1>6 DEF Environment

(* Unless a function that exists is given up because its body calls one    *)
(* that does not, a worker on a master with nothing left to handle serves  *)
(* what the last command for each pair asked for, whether the table could  *)
(* be written or not, and whatever was restored from the table, called     *)
(* back, reconnected, dropped or created in between.                       *)
THEOREM LastCommandServed ==
  ASSUME "BodyUndefined" \notin Events
  PROVE  Spec => []MemoryFollows
<1>1. Init => Remembering
  BY DEF Init, Remembering, Reports
<1>2. ASSUME TypeOK, Following, Remembering, [Next]_vars PROVE Remembering'
  <2>1. CASE UNCHANGED vars
    <3>1. UNCHANGED <<wanted, functions, subscriptions, channel, inbox>> /\ Reports(channel)
      BY <1>2, <2>1 DEF Remembering, vars, env, loop, hist
    <3> QED
      BY <1>2, <3>1, FuncsSame, RememberingKept
  <2> QED
    BY <1>2, <2>1, RememberingWorker, RememberingTask, RememberingEnvironment DEF Next
<1>3. ASSUME TypeOK, Remembering PROVE MemoryFollows
  <2>1. SUFFICES ASSUME Quiet, NEW p \in Pair, wanted[p] # "any"
                 PROVE  Kept(p)
    BY <1>3 DEF MemoryFollows, Kept
  <2>2. Len(inbox) = 0 /\ Len(channel) = 0
    BY <2>1 DEF Quiet
  <2>3. ~ Last(inbox, p, wanted[p]) /\ ~ Last(channel, p, wanted[p])
    BY <2>2 DEF Last
  <2> QED
    BY <1>3, <2>1, <2>3 DEF Remembering, Follows
<1> QED
  BY <1>1, <1>2, <1>3, TypeCorrect, CommandsFollowed, PTL DEF Spec

-----------------------------------------------------------------------------
(***************************************************************************)
(* The order of the calls, while no command, configuration or demotion     *)
(* takes a subscription away: a subject then has one task at a time.       *)
(***************************************************************************)

Heard(m) == m.type = "CallbackCall"
Plain(m) == m.type = "Subscribe" \/ (m.type = "UnsubscribeSubject" /\ m.subject \in Invalid)

(* Only tasks of subjects that NATS refuses are aborted, and those never   *)
(* listen.                                                                 *)
Steady ==
  /\ status = "Master" => ~ recovery
  /\ \A k \in DOMAIN inbox : inbox[k].type = "Subscribe"
  /\ \A k \in DOMAIN channel : Plain(channel[k]) \/ Heard(channel[k])
  /\ \A i \in Task : /\ task[i].aborted => task[i].subject \in Invalid
                     /\ task[i].st = "listening" => task[i].subject \notin Invalid

Ordered(q) == \A j, k \in DOMAIN q : j < k => q[j] < q[k]
Past(q) == \A k \in DOMAIN q : q[k] <= msgs

(* The calls of a function, the messages of its subject in the channel and *)
(* those its task holds follow one another in the order of publication.    *)
InOrder ==
  /\ \A p \in Pair : Ordered(calls[p]) /\ Past(calls[p])
  /\ \A i \in Task : Ordered(task[i].buf) /\ Past(task[i].buf)
  /\ \A i \in Task : \A p \in Pair : p[1] = task[i].subject =>
       \A j \in DOMAIN calls[p], l \in DOMAIN task[i].buf : calls[p][j] < task[i].buf[l]
  /\ \A k \in DOMAIN channel : Heard(channel[k]) =>
       /\ channel[k].n <= msgs
       /\ \A l \in DOMAIN channel :
            Heard(channel[l]) /\ k < l /\ channel[k].subject = channel[l].subject
              => channel[k].n < channel[l].n
       /\ \A p \in Pair : p[1] = channel[k].subject =>
            \A j \in DOMAIN calls[p] : calls[p][j] < channel[k].n
       /\ \A i \in Task : task[i].subject = channel[k].subject =>
            \A l \in DOMAIN task[i].buf : channel[k].n < task[i].buf[l]

LEMMA Indices ==
  ASSUME NEW n \in Nat, NEW r \in Nat
  PROVE  /\ \A k \in 1 .. n : k \in Nat /\ k + 0 = k
         /\ \A k \in 1 .. n - 1 : k \in Nat /\ k + 1 \in 1 .. n
         /\ \A k \in 1 .. n + 1 : k = n + 1 \/ k \in 1 .. n
         /\ \A k \in 1 .. n + r : IF k <= n THEN k \in 1 .. n ELSE k - n \in 1 .. r
<1>1. \A k \in Nat : k + 0 = k
  OBVIOUS
<1>2. \A k \in 1 .. n : k \in Nat
  OBVIOUS
<1>3. \A k \in 1 .. n : k + 0 = k
  BY <1>1, <1>2
<1> QED
  BY <1>2, <1>3

(* What changes of the channel when no message of a task is put there.     *)
LEMMA HeardKept ==
  ASSUME channel \in Seq(InternalMessage),
         \/ channel' = channel
         \/ channel # <<>> /\ channel' = Tail(channel)
         \/ \E n \in InternalMessage : Plain(n) /\ channel' = Append(channel, n)
         \/ \E rows \in Seq(InternalMessage) :
              /\ \A k \in DOMAIN rows : Plain(rows[k])
              /\ channel' = channel \o rows \/ channel' = rows
  PROVE  \E d \in {0, 1} : \A k \in DOMAIN channel' :
           \/ Plain(channel'[k]) /\ ~ Heard(channel'[k])
           \/ k \in Nat /\ k + d \in DOMAIN channel /\ channel[k + d] = channel'[k]
<1> DEFINE Goal(d) == \A k \in DOMAIN channel' :
             \/ Plain(channel'[k]) /\ ~ Heard(channel'[k])
             \/ k \in Nat /\ k + d \in DOMAIN channel /\ channel[k + d] = channel'[k]
<1>1. CASE channel' = channel
  <2>1. \A k \in DOMAIN channel : k \in Nat /\ k + 0 = k
    BY Indices, LenProperties
  <2> QED
    BY <1>1, <2>1
<1>2. CASE channel # <<>> /\ channel' = Tail(channel)
  <2>1. /\ Len(channel) \in Nat /\ channel' \in Seq(InternalMessage)
        /\ DOMAIN channel = 1 .. Len(channel) /\ DOMAIN channel' = 1 .. Len(channel) - 1
        /\ \A k \in 1 .. Len(channel) - 1 : channel'[k] = channel[k + 1]
    BY <1>2, HeadTailProperties, LenProperties
  <2>2. \A k \in 1 .. Len(channel) - 1 : k \in Nat /\ k + 1 \in 1 .. Len(channel)
    BY <2>1, Indices
  <2> QED
    BY <2>1, <2>2
<1>3. ASSUME NEW n \in InternalMessage, Plain(n), channel' = Append(channel, n)
      PROVE  Goal(0)
  <2>1. /\ Len(channel) \in Nat
        /\ DOMAIN channel = 1 .. Len(channel) /\ DOMAIN channel' = 1 .. Len(channel) + 1
        /\ \A k \in 1 .. Len(channel) : channel'[k] = channel[k]
        /\ channel'[Len(channel) + 1] = n
    BY <1>3, AppendProperties, LenProperties
  <2>2. ASSUME NEW k \in 1 .. Len(channel) + 1
        PROVE  \/ Plain(channel'[k]) /\ ~ Heard(channel'[k])
               \/ k \in Nat /\ k + 0 \in DOMAIN channel /\ channel[k + 0] = channel'[k]
    <3>1. k = Len(channel) + 1 \/ (k \in 1 .. Len(channel) /\ k \in Nat /\ k + 0 = k)
      BY <2>1, Indices
    <3> QED
      BY <1>3, <2>1, <3>1 DEF Plain, Heard
  <2> QED
    BY <2>1, <2>2
<1>4. ASSUME NEW rows \in Seq(InternalMessage), \A k \in DOMAIN rows : Plain(rows[k]),
             channel' = channel \o rows
      PROVE  Goal(0)
  <2>1. /\ Len(channel) \in Nat /\ Len(rows) \in Nat
        /\ DOMAIN channel = 1 .. Len(channel) /\ DOMAIN channel' = 1 .. Len(channel) + Len(rows)
        /\ DOMAIN rows = 1 .. Len(rows)
        /\ \A k \in 1 .. Len(channel) + Len(rows) :
             channel'[k] = IF k <= Len(channel) THEN channel[k] ELSE rows[k - Len(channel)]
    BY <1>4, ConcatProperties, LenProperties
  <2>2. ASSUME NEW k \in 1 .. Len(channel) + Len(rows)
        PROVE  \/ Plain(channel'[k]) /\ ~ Heard(channel'[k])
               \/ k \in Nat /\ k + 0 \in DOMAIN channel /\ channel[k + 0] = channel'[k]
    <3>1. CASE k <= Len(channel)
      <4>1. k \in Nat /\ k + 0 = k /\ k \in DOMAIN channel
        BY <2>1, <3>1, Indices
      <4> QED
        BY <2>1, <3>1, <4>1
    <3>2. CASE ~ (k <= Len(channel))
      <4>1. k - Len(channel) \in DOMAIN rows
        BY <2>1, <3>2, Indices
      <4> QED
        BY <1>4, <2>1, <3>2, <4>1 DEF Plain, Heard
    <3> QED
      BY <3>1, <3>2
  <2> QED
    BY <2>1, <2>2
<1>5. ASSUME NEW rows \in Seq(InternalMessage), \A k \in DOMAIN rows : Plain(rows[k]),
             channel' = rows
      PROVE  Goal(0)
  BY <1>5 DEF Plain, Heard
<1> QED
  BY <1>1, <1>2, <1>3, <1>4, <1>5

(* Steps that neither call a function nor receive or forward a message.    *)
LEMMA OrderKept ==
  ASSUME TypeOK, Steady, InOrder, UNCHANGED <<calls, msgs>>,
         status' = "Master" => ~ recovery',
         \A k \in DOMAIN inbox' : inbox'[k].type = "Subscribe",
         \/ channel' = channel
         \/ channel # <<>> /\ channel' = Tail(channel)
         \/ \E n \in InternalMessage : Plain(n) /\ channel' = Append(channel, n)
         \/ \E rows \in Seq(InternalMessage) :
              /\ \A k \in DOMAIN rows : Plain(rows[k])
              /\ channel' = channel \o rows \/ channel' = rows,
         \A i \in Task :
           \/ task'[i].buf = <<>> /\ ~ task'[i].aborted /\ task'[i].st # "listening"
           \/ /\ task'[i].buf = task[i].buf /\ task'[i].subject = task[i].subject
              /\ task'[i].aborted => task'[i].subject \in Invalid
              /\ task'[i].st = "listening" => task'[i].subject \notin Invalid
  PROVE  Steady' /\ InOrder'
<1>1. PICK d \in {0, 1} : \A k \in DOMAIN channel' :
        \/ Plain(channel'[k]) /\ ~ Heard(channel'[k])
        \/ k \in Nat /\ k + d \in DOMAIN channel /\ channel[k + d] = channel'[k]
  BY HeardKept DEF TypeOK
<1>2. Steady'
  BY <1>1 DEF Steady, Plain, Heard
<1>3. \A i \in Task : \/ DOMAIN task'[i].buf = {}
                      \/ task'[i].buf = task[i].buf /\ task'[i].subject = task[i].subject
  OBVIOUS
<1>4. \A i \in Task : Ordered(task'[i].buf) /\ \A k \in DOMAIN task'[i].buf : task'[i].buf[k] <= msgs'
  BY <1>3 DEF InOrder, Ordered, Past
<1>5. \A i \in Task : \A p \in Pair : p[1] = task'[i].subject =>
        \A j \in DOMAIN calls[p], l \in DOMAIN task'[i].buf : calls[p][j] < task'[i].buf[l]
  BY <1>3 DEF InOrder
<1>6. ASSUME NEW k \in DOMAIN channel', Heard(channel'[k])
      PROVE  /\ channel'[k].n <= msgs
             /\ \A l \in DOMAIN channel' :
                  Heard(channel'[l]) /\ k < l /\ channel'[k].subject = channel'[l].subject
                    => channel'[k].n < channel'[l].n
             /\ \A p \in Pair : p[1] = channel'[k].subject =>
                  \A j \in DOMAIN calls[p] : calls[p][j] < channel'[k].n
             /\ \A i \in Task : task'[i].subject = channel'[k].subject =>
                  \A l \in DOMAIN task'[i].buf : channel'[k].n < task'[i].buf[l]
  <2>1. k \in Nat /\ k + d \in DOMAIN channel /\ channel[k + d] = channel'[k]
    BY <1>1, <1>6
  <2>2. ASSUME NEW l \in DOMAIN channel', Heard(channel'[l]), k < l,
               channel'[k].subject = channel'[l].subject
        PROVE  channel'[k].n < channel'[l].n
    <3>1. l \in Nat /\ l + d \in DOMAIN channel /\ channel[l + d] = channel'[l]
      BY <1>1, <2>2
    <3>2. k + d < l + d
      BY <2>1, <2>2, <3>1
    <3> QED
      BY <1>6, <2>1, <2>2, <3>1, <3>2 DEF InOrder
  <2>3. ASSUME NEW j \in Task, task'[j].subject = channel'[k].subject,
               NEW l \in DOMAIN task'[j].buf
        PROVE  channel'[k].n < task'[j].buf[l]
    BY <1>3, <1>6, <2>1, <2>3 DEF InOrder
  <2>4. channel'[k].n <= msgs
    BY <1>6, <2>1 DEF InOrder
  <2>5. \A p \in Pair : p[1] = channel'[k].subject =>
          \A j \in DOMAIN calls[p] : calls[p][j] < channel'[k].n
    BY <1>6, <2>1 DEF InOrder
  <2> QED
    BY <2>2, <2>3, <2>4, <2>5
<1>7. \A p \in Pair : Ordered(calls[p]) /\ Past(calls[p])
  BY DEF InOrder
<1> QED
  BY <1>2, <1>4, <1>5, <1>6, <1>7 DEF InOrder, Ordered, Past, Heard

(* Aborting keeps what a task has received; the tasks of subjects that     *)
(* NATS refuses are the only ones it may mark here.                        *)
LEMMA AbortedSteady ==
  ASSUME TypeOK, Listening, Steady, NEW S \in SUBSET Invalid, NEW i \in Task
  PROVE  /\ Aborted(S)[i].buf = task[i].buf /\ Aborted(S)[i].subject = task[i].subject
         /\ Aborted(S)[i].aborted => Aborted(S)[i].subject \in Invalid
         /\ Aborted(S)[i].st = "listening" => Aborted(S)[i].subject \notin Invalid
<1>1. task[i] \in TaskState /\ S \subseteq Subject
  BY SubscriberAssumption DEF SubscriberAssumption, TypeOK
<1>2. CASE task[i].st # "free" /\ \E s \in S : Subscribed(s) /\ Handler(s) = i
  <2>1. Aborted(S)[i] = [task[i] EXCEPT !.aborted = TRUE]
    BY <1>2 DEF Aborted
  <2>2. task[i].subject \in Invalid
    BY <1>1, <1>2 DEF Listening, EntryHasTask
  <2> QED
    BY <1>1, <2>1, <2>2 DEF TaskState, Steady
<1>3. CASE ~ (task[i].st # "free" /\ \E s \in S : Subscribed(s) /\ Handler(s) = i)
  <2>1. Aborted(S)[i] = task[i]
    BY <1>3 DEF Aborted
  <2> QED
    BY <2>1 DEF Steady
<1> QED
  BY <1>2, <1>3

(* Two tasks of a subject that NATS accepts would both be its entry's.     *)
LEMMA OneTask ==
  ASSUME TypeOK, Listening, Steady, NEW i \in Task, NEW j \in Task,
         task[i].st # "free", task[j].st # "free",
         task[i].subject = task[j].subject, task[i].subject \notin Invalid
  PROVE  i = j
<1>1. ~ task[i].aborted /\ ~ task[j].aborted
  BY DEF Steady
<1>2. PICK s \in Subject : Subscribed(s) /\ Handler(s) = i
  BY <1>1 DEF Listening, NoStrayTask
<1>3. PICK t \in Subject : Subscribed(t) /\ Handler(t) = j
  BY <1>1 DEF Listening, NoStrayTask
<1>4. task[i].subject = s /\ task[j].subject = t
  BY <1>2, <1>3 DEF Listening, EntryHasTask
<1> QED
  BY <1>2, <1>3, <1>4

(* A number that is above those of a sequence goes to its end.             *)
LEMMA AppendOrdered ==
  ASSUME NEW T \in SUBSET Nat, NEW q \in Seq(T), NEW n \in T, Ordered(q),
         \A k \in DOMAIN q : q[k] < n
  PROVE  /\ Append(q, n) \in Seq(T) /\ Ordered(Append(q, n))
         /\ \A k \in DOMAIN Append(q, n) :
              Append(q, n)[k] = n \/ (k \in DOMAIN q /\ Append(q, n)[k] = q[k])
<1> DEFINE a == Append(q, n)
<1>1. /\ Len(q) \in Nat /\ DOMAIN q = 1 .. Len(q) /\ DOMAIN a = 1 .. Len(q) + 1
      /\ \A k \in 1 .. Len(q) : a[k] = q[k] /\ q[k] \in Nat
      /\ a[Len(q) + 1] = n /\ a \in Seq(T) /\ n \in Nat
  <2>1. \A k \in 1 .. Len(q) : q[k] \in T
    BY ElementOfSeq
  <2>2. /\ a \in Seq(T) /\ Len(a) = Len(q) + 1 /\ a[Len(q) + 1] = n
        /\ \A k \in 1 .. Len(q) : a[k] = q[k]
    BY AppendProperties
  <2> HIDE DEF a
  <2>3. Len(q) \in Nat /\ DOMAIN q = 1 .. Len(q) /\ DOMAIN a = 1 .. Len(a)
    BY <2>2, LenProperties
  <2> QED
    BY <2>1, <2>2, <2>3
<1>2. \A k \in 1 .. Len(q) + 1 : k = Len(q) + 1 \/ k \in 1 .. Len(q)
  BY <1>1, Indices
<1>3. ASSUME NEW j \in DOMAIN a, NEW k \in DOMAIN a, j < k
      PROVE  a[j] < a[k]
  <2>1. j \in 1 .. Len(q) /\ (k = Len(q) + 1 \/ k \in 1 .. Len(q))
    BY <1>1, <1>3
  <2> QED
    BY <1>1, <1>3, <2>1 DEF Ordered
<1>4. \A k \in DOMAIN a : a[k] = n \/ (k \in DOMAIN q /\ a[k] = q[k])
  BY <1>1, <1>2
<1> HIDE DEF a
<1>5. Ordered(a)
  BY <1>3 DEF Ordered
<1> QED
  BY <1>1, <1>4, <1>5 DEF a

LEMMA TailOrdered ==
  ASSUME NEW T \in SUBSET Nat, NEW q \in Seq(T), q # <<>>, Ordered(q)
  PROVE  /\ Ordered(Tail(q)) /\ 1 \in DOMAIN q /\ Head(q) = q[1]
         /\ \A k \in DOMAIN Tail(q) :
              k + 1 \in DOMAIN q /\ Tail(q)[k] = q[k + 1] /\ Head(q) < Tail(q)[k]
<1> DEFINE t == Tail(q)
<1>1. /\ Len(q) \in Nat \ {0} /\ DOMAIN q = 1 .. Len(q) /\ DOMAIN t = 1 .. Len(q) - 1
      /\ \A k \in 1 .. Len(q) - 1 : t[k] = q[k + 1]
      /\ Head(q) = q[1]
  BY HeadTailProperties, LenProperties, EmptySeq
<1>2. 1 \in 1 .. Len(q) /\ \A k \in 1 .. Len(q) - 1 : k \in Nat /\ k + 1 \in 1 .. Len(q) /\ 1 < k + 1
  BY <1>1
<1>3. ASSUME NEW j \in DOMAIN t, NEW k \in DOMAIN t, j < k PROVE t[j] < t[k]
  <2>1. j + 1 < k + 1
    BY <1>1, <1>2, <1>3
  <2> QED
    BY <1>1, <1>2, <2>1 DEF Ordered
<1>4. \A k \in DOMAIN t : k + 1 \in DOMAIN q /\ t[k] = q[k + 1] /\ Head(q) < t[k]
  BY <1>1, <1>2 DEF Ordered
<1> HIDE DEF t
<1>5. Ordered(t)
  BY <1>3 DEF Ordered
<1> QED
  BY <1>1, <1>2, <1>4, <1>5 DEF t

(* Every function of the subject, or none, is called with the oldest       *)
(* message of the channel.                                                 *)
LEMMA OrderCalled ==
  ASSUME TypeOK, TypeOK', Steady, InOrder, channel # <<>>, Heard(Head(channel)),
         channel' = Tail(channel), UNCHANGED <<msgs, task, status, recovery, inbox>>,
         \A p \in Pair : \/ calls'[p] = calls[p]
                         \/ /\ p[1] = Head(channel).subject
                            /\ calls'[p] = Append(calls[p], Head(channel).n)
  PROVE  Steady' /\ InOrder'
<1> DEFINE s == Head(channel).subject
           n == Head(channel).n
<1>1. /\ Len(channel) \in Nat \ {0} /\ Head(channel) = channel[1]
      /\ DOMAIN channel = 1 .. Len(channel) /\ DOMAIN channel' = 1 .. Len(channel) - 1
      /\ \A k \in 1 .. Len(channel) - 1 : channel'[k] = channel[k + 1]
  BY HeadTailProperties, LenProperties, EmptySeq DEF TypeOK
<1>2. /\ 1 \in DOMAIN channel
      /\ \A k \in DOMAIN channel' : k \in Nat /\ k + 1 \in DOMAIN channel /\ 1 < k + 1
                                    /\ channel'[k] = channel[k + 1]
  BY <1>1
<1>3. s \in Subject /\ n \in 1 .. MaxMsgs /\ n \in Nat /\ msgs \in Nat
  BY ChannelHead, InternalKinds, SubscriberAssumption DEF SubscriberAssumption, TypeOK, Heard
<1>4. /\ n <= msgs
      /\ \A k \in DOMAIN channel' : Heard(channel'[k]) /\ channel'[k].subject = s => n < channel'[k].n
      /\ \A p \in Pair : p[1] = s => \A j \in DOMAIN calls[p] : calls[p][j] < n
      /\ \A i \in Task : task[i].subject = s => \A l \in DOMAIN task[i].buf : n < task[i].buf[l]
  BY <1>1, <1>2 DEF InOrder
<1> HIDE DEF s, n
<1>5. ASSUME NEW p \in Pair
      PROVE  /\ Ordered(calls'[p])
             /\ \A j \in DOMAIN calls'[p] :
                  \/ p[1] = s /\ calls'[p][j] = n
                  \/ j \in DOMAIN calls[p] /\ calls'[p][j] = calls[p][j]
  <2>1. calls[p] \in Seq(1 .. MaxMsgs) /\ Ordered(calls[p]) /\ (1 .. MaxMsgs) \in SUBSET Nat
    BY DEF TypeOK, InOrder
  <2>2. CASE calls'[p] = calls[p]
    BY <2>1, <2>2
  <2>3. CASE p[1] = s /\ calls'[p] = Append(calls[p], n)
    <3> DEFINE q == calls[p]
    <3>1. q \in Seq(1 .. MaxMsgs) /\ Ordered(q) /\ \A j \in DOMAIN q : q[j] < n
      BY <1>4, <2>1, <2>3
    <3> HIDE DEF q
    <3>2. /\ Ordered(Append(q, n))
          /\ \A k \in DOMAIN Append(q, n) :
               Append(q, n)[k] = n \/ (k \in DOMAIN q /\ Append(q, n)[k] = q[k])
      BY <1>3, <2>1, <3>1, AppendOrdered
    <3> QED
      BY <2>3, <3>2 DEF q
  <2> QED
    BY <2>2, <2>3 DEF s, n
<1>6. Steady'
  BY <1>2 DEF Steady
<1>7. \A p \in Pair : Ordered(calls'[p]) /\ \A k \in DOMAIN calls'[p] : calls'[p][k] <= msgs
  BY <1>4, <1>5 DEF InOrder, Past
<1>8. ASSUME NEW i \in Task, NEW p \in Pair, p[1] = task[i].subject,
             NEW j \in DOMAIN calls'[p], NEW l \in DOMAIN task[i].buf
      PROVE  calls'[p][j] < task[i].buf[l]
  BY <1>4, <1>5, <1>8 DEF InOrder
<1>9. ASSUME NEW k \in DOMAIN channel', Heard(channel'[k])
      PROVE  /\ channel'[k].n <= msgs
             /\ \A l \in DOMAIN channel' :
                  Heard(channel'[l]) /\ k < l /\ channel'[k].subject = channel'[l].subject
                    => channel'[k].n < channel'[l].n
             /\ \A p \in Pair : p[1] = channel'[k].subject =>
                  \A j \in DOMAIN calls'[p] : calls'[p][j] < channel'[k].n
             /\ \A i \in Task : task[i].subject = channel'[k].subject =>
                  \A l \in DOMAIN task[i].buf : channel'[k].n < task[i].buf[l]
  <2>1. k \in Nat /\ k + 1 \in DOMAIN channel /\ channel'[k] = channel[k + 1] /\ Heard(channel[k + 1])
    BY <1>2, <1>9
  <2>2. channel'[k].n <= msgs
    BY <2>1 DEF InOrder
  <2>3. ASSUME NEW l \in DOMAIN channel', Heard(channel'[l]), k < l,
               channel'[k].subject = channel'[l].subject
        PROVE  channel'[k].n < channel'[l].n
    <3>1. l + 1 \in DOMAIN channel /\ channel'[l] = channel[l + 1] /\ k + 1 < l + 1
      BY <1>2, <2>1, <2>3
    <3> QED
      BY <2>1, <2>3, <3>1 DEF InOrder
  <2>4. ASSUME NEW p \in Pair, p[1] = channel'[k].subject, NEW j \in DOMAIN calls'[p]
        PROVE  calls'[p][j] < channel'[k].n
    <3>1. CASE p[1] = s /\ calls'[p][j] = n
      BY <1>4, <1>9, <2>4, <3>1
    <3>2. CASE j \in DOMAIN calls[p] /\ calls'[p][j] = calls[p][j]
      BY <2>1, <2>4, <3>2 DEF InOrder
    <3> QED
      BY <1>5, <3>1, <3>2
  <2>5. ASSUME NEW i \in Task, task[i].subject = channel'[k].subject,
               NEW l \in DOMAIN task[i].buf
        PROVE  channel'[k].n < task[i].buf[l]
    BY <2>1, <2>5 DEF InOrder
  <2> QED
    BY <2>2, <2>3, <2>4, <2>5
<1>10. \A i \in Task : Ordered(task[i].buf) /\ \A k \in DOMAIN task[i].buf : task[i].buf[k] <= msgs
  BY DEF InOrder, Past
<1> QED
  BY <1>6, <1>7, <1>8, <1>9, <1>10 DEF InOrder, Ordered, Past, Heard

(* The oldest message a task holds goes to the end of the channel.         *)
LEMMA OrderForwarded ==
  ASSUME TypeOK, Listening, Steady, InOrder, NEW i \in Task, Forward(i)
  PROVE  Steady' /\ InOrder'
<1> DEFINE b == task[i].buf
           s == task[i].subject
           m == CallbackCall(s, Head(b))
<1>1. /\ task[i] \in TaskState /\ b \in Seq(1 .. MaxMsgs) /\ b # <<>> /\ Ordered(b)
      /\ s \in Subject /\ s \notin Invalid
      /\ task[i].st = "listening" /\ (1 .. MaxMsgs) \in SUBSET Nat
      /\ UNCHANGED <<calls, msgs, status, recovery, inbox>>
      /\ task' = [task EXCEPT ![i].buf = Tail(b)] /\ channel' = Append(channel, m)
  BY DEF TypeOK, TaskState, FreeTask, Forward, Steady, InOrder, env, loop, hist
<1>2. /\ Ordered(Tail(b)) /\ 1 \in DOMAIN b /\ Head(b) = b[1] /\ Head(b) \in 1 .. MaxMsgs
      /\ \A k \in DOMAIN Tail(b) :
           k + 1 \in DOMAIN b /\ Tail(b)[k] = b[k + 1] /\ Head(b) < Tail(b)[k]
  BY <1>1, TailOrdered, HeadTailProperties
<1>3. /\ m \in InternalMessage /\ Heard(m) /\ m.subject = s /\ m.n = Head(b)
  BY <1>1, <1>2, Messages DEF CallbackCall, Heard
<1>4. /\ task'[i].buf = Tail(b) /\ task'[i].subject = s /\ task'[i].st = "listening"
      /\ task'[i].aborted = task[i].aborted
      /\ \A j \in Task : j # i => task'[j] = task[j]
  BY <1>1 DEF TypeOK, TaskState
<1>5. \A j \in Task : task[j].subject = s => j = i \/ task[j].buf = <<>>
  <2> SUFFICES ASSUME NEW j \in Task, task[j].subject = s, j # i PROVE task[j].buf = <<>>
    OBVIOUS
  <2>1. task[j].st = "free"
    BY <1>1, OneTask
  <2> QED
    BY <2>1 DEF TypeOK, FreeTask
<1>6. /\ Head(b) <= msgs
      /\ \A k \in DOMAIN channel : Heard(channel[k]) /\ channel[k].subject = s =>
           channel[k].n < Head(b)
      /\ \A p \in Pair : p[1] = s => \A j \in DOMAIN calls[p] : calls[p][j] < Head(b)
  BY <1>1, <1>2 DEF InOrder, Past
<1>7. \A k \in DOMAIN channel' :
        \/ channel'[k] = m /\ k = Len(channel) + 1
        \/ k \in DOMAIN channel /\ channel'[k] = channel[k] /\ k <= Len(channel)
  <2>1. /\ Len(channel) \in Nat /\ DOMAIN channel = 1 .. Len(channel)
        /\ DOMAIN channel' = 1 .. Len(channel) + 1 /\ channel'[Len(channel) + 1] = m
        /\ \A k \in 1 .. Len(channel) : channel'[k] = channel[k]
    <3>1. channel \in Seq(InternalMessage)
      BY DEF TypeOK
    <3> HIDE DEF m
    <3> QED
      BY <1>1, <1>3, <3>1, AppendProperties, LenProperties
  <2>2. \A k \in 1 .. Len(channel) + 1 : k = Len(channel) + 1 \/ k \in 1 .. Len(channel)
    BY <2>1, Indices
  <2>3. \A k \in 1 .. Len(channel) : k <= Len(channel)
    BY <2>1
  <2> QED
    BY <2>1, <2>2, <2>3
<1>8. Steady'
  BY <1>1, <1>3, <1>4, <1>7 DEF Steady
<1> HIDE DEF b, s, m
<1>9. \A j \in Task : /\ Ordered(task'[j].buf)
                      /\ \A k \in DOMAIN task'[j].buf : task'[j].buf[k] <= msgs
  <2> SUFFICES ASSUME NEW j \in Task
               PROVE  /\ Ordered(task'[j].buf)
                      /\ \A k \in DOMAIN task'[j].buf : task'[j].buf[k] <= msgs
    OBVIOUS
  <2>1. CASE j = i
    <3>1. Ordered(Tail(b)) /\ \A k \in DOMAIN b : b[k] <= msgs
      BY <1>2 DEF InOrder, Past, b
    <3> QED
      BY <1>2, <1>4, <2>1, <3>1
  <2>2. CASE j # i
    <3>1. task'[j] = task[j]
      BY <1>4, <2>2
    <3> QED
      BY <3>1 DEF InOrder, Past
  <2> QED
    BY <2>1, <2>2
<1>10. ASSUME NEW j \in Task, NEW p \in Pair, p[1] = task'[j].subject,
              NEW k \in DOMAIN calls[p], NEW l \in DOMAIN task'[j].buf
       PROVE  calls[p][k] < task'[j].buf[l]
  <2>1. CASE j = i
    <3>1. ASSUME NEW h \in DOMAIN b PROVE calls[p][k] < b[h]
      BY <1>4, <1>10, <2>1, <3>1 DEF InOrder, b, s
    <3> QED
      BY <1>2, <1>4, <1>10, <2>1, <3>1
  <2>2. CASE j # i
    <3>1. task'[j] = task[j]
      BY <1>4, <2>2
    <3> QED
      BY <1>10, <3>1 DEF InOrder
  <2> QED
    BY <2>1, <2>2
<1>11. ASSUME NEW k \in DOMAIN channel', Heard(channel'[k])
       PROVE  /\ channel'[k].n <= msgs
              /\ \A l \in DOMAIN channel' :
                   Heard(channel'[l]) /\ k < l /\ channel'[k].subject = channel'[l].subject
                     => channel'[k].n < channel'[l].n
              /\ \A p \in Pair : p[1] = channel'[k].subject =>
                   \A j \in DOMAIN calls[p] : calls[p][j] < channel'[k].n
              /\ \A j \in Task : task'[j].subject = channel'[k].subject =>
                   \A l \in DOMAIN task'[j].buf : channel'[k].n < task'[j].buf[l]
  <2>1. CASE channel'[k] = m /\ k = Len(channel) + 1
    <3>1. ASSUME NEW l \in DOMAIN channel', k < l PROVE FALSE
      <4>1. l <= k /\ l \in Nat /\ k \in Nat
        <5>1. Len(channel) \in Nat /\ DOMAIN channel = 1 .. Len(channel)
          BY LenProperties DEF TypeOK
        <5> QED
          BY <1>7, <2>1, <5>1
      <4> QED
        BY <3>1, <4>1
    <3>2. ASSUME NEW j \in Task, task'[j].subject = s, NEW l \in DOMAIN task'[j].buf
          PROVE  Head(b) < task'[j].buf[l]
      <4>1. CASE j = i
        BY <1>2, <1>4, <3>2, <4>1
      <4>2. CASE j # i
        <5>1. task[j].buf = <<>> /\ task'[j].buf = <<>>
          BY <1>4, <1>5, <3>2, <4>2
        <5> QED
          BY <3>2, <5>1
      <4> QED
        BY <4>1, <4>2
    <3> QED
      BY <1>3, <1>6, <2>1, <3>1, <3>2
  <2>2. CASE k \in DOMAIN channel /\ channel'[k] = channel[k] /\ k <= Len(channel)
    <3>1. ASSUME NEW l \in DOMAIN channel', Heard(channel'[l]), k < l,
                 channel'[k].subject = channel'[l].subject
          PROVE  channel'[k].n < channel'[l].n
      <4>1. CASE channel'[l] = m
        BY <1>3, <1>6, <1>11, <2>2, <3>1, <4>1
      <4>2. CASE l \in DOMAIN channel /\ channel'[l] = channel[l]
        BY <1>11, <2>2, <3>1, <4>2 DEF InOrder
      <4> QED
        BY <1>7, <4>1, <4>2
    <3>2. ASSUME NEW j \in Task, task'[j].subject = channel[k].subject,
                 NEW l \in DOMAIN task'[j].buf
          PROVE  channel[k].n < task'[j].buf[l]
      <4>1. CASE j = i
        <5>1. Heard(channel[k]) /\ task[i].subject = channel[k].subject /\ b = task[i].buf
          BY <1>4, <1>11, <2>2, <3>2, <4>1 DEF b, s
        <5>2. \A h \in DOMAIN b : channel[k].n < b[h]
          BY <2>2, <5>1 DEF InOrder
        <5> QED
          BY <1>2, <1>4, <3>2, <4>1, <5>2
      <4>2. CASE j # i
        <5>1. task'[j] = task[j] /\ Heard(channel[k])
          BY <1>4, <1>11, <2>2, <4>2
        <5> QED
          BY <2>2, <3>2, <5>1 DEF InOrder
      <4> QED
        BY <4>1, <4>2
    <3>3. channel[k].n <= msgs /\ \A p \in Pair : p[1] = channel[k].subject =>
            \A j \in DOMAIN calls[p] : calls[p][j] < channel[k].n
      BY <1>11, <2>2 DEF InOrder
    <3> QED
      BY <2>2, <3>1, <3>2, <3>3
  <2> QED
    BY <1>7, <2>1, <2>2
<1>12. \A p \in Pair : Ordered(calls[p]) /\ Past(calls[p])
  BY DEF InOrder
<1> QED
  BY <1>1, <1>8, <1>9, <1>10, <1>11, <1>12 DEF InOrder, Ordered, Past, Heard

(* A message published is newer than all there are.                        *)
LEMMA OrderPublished ==
  ASSUME TypeOK, Steady, InOrder, NEW s \in Subject, Publish(s)
  PROVE  Steady' /\ InOrder'
<1>1. /\ UNCHANGED <<calls, channel, status, recovery, inbox>>
      /\ msgs' = msgs + 1 /\ msgs \in Nat /\ msgs < msgs' /\ msgs' \in 1 .. MaxMsgs
      /\ (1 .. MaxMsgs) \in SUBSET Nat /\ (0 .. MaxMsgs) \in SUBSET Nat
  BY SubscriberAssumption DEF SubscriberAssumption, Publish, TypeOK, env, loop
<1>2. ASSUME NEW i \in Task
      PROVE  /\ task'[i].subject = task[i].subject /\ task'[i].aborted = task[i].aborted
             /\ task'[i].st = task[i].st
             /\ Ordered(task'[i].buf)
             /\ \A k \in DOMAIN task'[i].buf :
                  \/ task'[i].buf[k] = msgs'
                  \/ k \in DOMAIN task[i].buf /\ task'[i].buf[k] = task[i].buf[k]
  <2> DEFINE b == task[i].buf
  <2>1. b \in Seq(1 .. MaxMsgs) /\ Ordered(b) /\ task[i] \in TaskState
        /\ \A k \in DOMAIN b : b[k] < msgs'
    <3>1. b \in Seq(1 .. MaxMsgs) /\ Ordered(b) /\ task[i] \in TaskState
          /\ \A k \in DOMAIN b : b[k] <= msgs
      BY DEF TypeOK, TaskState, InOrder, Past
    <3>2. \A k \in DOMAIN b : b[k] \in 1 .. MaxMsgs
      BY <3>1, ElementOfSeq, LenProperties
    <3> QED
      BY <1>1, <3>1, <3>2
  <2>2. CASE task'[i] = [task[i] EXCEPT !.buf = Append(b, msgs')]
    <3>1. /\ task'[i].subject = task[i].subject /\ task'[i].aborted = task[i].aborted
          /\ task'[i].st = task[i].st /\ task'[i].buf = Append(b, msgs')
      BY <2>1, <2>2 DEF TaskState
    <3> HIDE DEF b
    <3>2. /\ Ordered(Append(b, msgs'))
          /\ \A k \in DOMAIN Append(b, msgs') :
               Append(b, msgs')[k] = msgs' \/ (k \in DOMAIN b /\ Append(b, msgs')[k] = b[k])
      BY <1>1, <2>1, AppendOrdered
    <3> QED
      BY <3>1, <3>2 DEF b
  <2>3. CASE task'[i] = task[i]
    BY <2>1, <2>3
  <2> QED
    BY <1>1, <2>2, <2>3 DEF Publish
<1>3. Steady'
  BY <1>1, <1>2 DEF Steady
<1>4. /\ \A p \in Pair : \A k \in DOMAIN calls[p] : calls[p][k] \in Nat /\ calls[p][k] <= msgs
      /\ \A i \in Task : \A k \in DOMAIN task[i].buf : task[i].buf[k] \in Nat /\ task[i].buf[k] <= msgs
      /\ \A k \in DOMAIN channel : Heard(channel[k]) => channel[k].n \in Nat /\ channel[k].n <= msgs
  <2>1. \A p \in Pair : \A k \in DOMAIN calls[p] : calls[p][k] \in Nat
    <3>1. \A p \in Pair : calls[p] \in Seq(1 .. MaxMsgs)
      BY DEF TypeOK
    <3> QED
      BY <1>1, <3>1, ElementOfSeq, LenProperties
  <2>2. \A i \in Task : \A k \in DOMAIN task[i].buf : task[i].buf[k] \in Nat
    <3>1. \A i \in Task : task[i].buf \in Seq(1 .. MaxMsgs)
      BY DEF TypeOK, TaskState
    <3> QED
      BY <1>1, <3>1, ElementOfSeq, LenProperties
  <2>3. \A k \in DOMAIN channel : Heard(channel[k]) => channel[k].n \in Nat
    <3>1. \A k \in DOMAIN channel : channel[k] \in InternalMessage
      BY ElementOfSeq, LenProperties DEF TypeOK
    <3> QED
      BY <1>1, <3>1, InternalKinds DEF Heard
  <2> QED
    BY <2>1, <2>2, <2>3 DEF InOrder, Past
<1>5. \A p \in Pair : Ordered(calls[p]) /\ \A k \in DOMAIN calls[p] : calls[p][k] <= msgs'
  BY <1>1, <1>4 DEF InOrder
<1>6. \A i \in Task : Ordered(task'[i].buf) /\ \A k \in DOMAIN task'[i].buf : task'[i].buf[k] <= msgs'
  BY <1>1, <1>2, <1>4
<1>7. ASSUME NEW i \in Task, NEW p \in Pair, p[1] = task'[i].subject,
             NEW j \in DOMAIN calls[p], NEW l \in DOMAIN task'[i].buf
      PROVE  calls[p][j] < task'[i].buf[l]
  <2>1. CASE task'[i].buf[l] = msgs'
    BY <1>1, <1>4, <2>1
  <2>2. CASE l \in DOMAIN task[i].buf /\ task'[i].buf[l] = task[i].buf[l]
    BY <1>2, <1>7, <2>2 DEF InOrder
  <2> QED
    BY <1>2, <2>1, <2>2
<1>8. ASSUME NEW k \in DOMAIN channel, Heard(channel[k])
      PROVE  /\ channel[k].n <= msgs'
             /\ \A i \in Task : task'[i].subject = channel[k].subject =>
                  \A l \in DOMAIN task'[i].buf : channel[k].n < task'[i].buf[l]
  <2>1. ASSUME NEW i \in Task, task'[i].subject = channel[k].subject,
               NEW l \in DOMAIN task'[i].buf
        PROVE  channel[k].n < task'[i].buf[l]
    <3>1. CASE task'[i].buf[l] = msgs'
      BY <1>1, <1>4, <1>8, <3>1
    <3>2. CASE l \in DOMAIN task[i].buf /\ task'[i].buf[l] = task[i].buf[l]
      BY <1>2, <1>8, <2>1, <3>2 DEF InOrder
    <3> QED
      BY <1>2, <3>1, <3>2
  <2> QED
    BY <1>1, <1>4, <1>8, <2>1
<1>9. \A k, l \in DOMAIN channel :
        Heard(channel[k]) /\ Heard(channel[l]) /\ k < l /\ channel[k].subject = channel[l].subject
          => channel[k].n < channel[l].n
  BY DEF InOrder
<1>10. \A k \in DOMAIN channel : Heard(channel[k]) =>
         \A p \in Pair : p[1] = channel[k].subject =>
           \A j \in DOMAIN calls[p] : calls[p][j] < channel[k].n
  BY DEF InOrder
<1> QED
  BY <1>1, <1>3, <1>5, <1>6, <1>7, <1>8, <1>9, <1>10 DEF InOrder, Ordered, Past, Heard

(* The rows of the table become messages that call nothing.                *)
LEMMA RowsArePlain ==
  ASSUME TypeOK, NEW rows \in Restored
  PROVE  rows \in Seq(InternalMessage) /\ \A k \in DOMAIN rows : Plain(rows[k])
<1>1. table \subseteq Pair
  BY DEF TypeOK
<1> QED
  BY <1>1, RestoredRows DEF Plain, SubscribeMsg

(* A message taken from the launcher's queue or from the channel is one    *)
(* that may be there.                                                      *)
LEMMA SteadyHeads ==
  ASSUME TypeOK, Steady
  PROVE  /\ inbox # <<>> => /\ Head(inbox).type = "Subscribe"
                            /\ \A k \in DOMAIN Tail(inbox) : Tail(inbox)[k].type = "Subscribe"
         /\ channel # <<>> => Plain(Head(channel)) \/ Heard(Head(channel))
<1>1. ASSUME inbox # <<>>
      PROVE  /\ Head(inbox).type = "Subscribe"
             /\ \A k \in DOMAIN Tail(inbox) : Tail(inbox)[k].type = "Subscribe"
  <2>1. /\ Len(inbox) \in Nat \ {0} /\ DOMAIN inbox = 1 .. Len(inbox) /\ Head(inbox) = inbox[1]
        /\ DOMAIN Tail(inbox) = 1 .. Len(inbox) - 1
        /\ \A k \in 1 .. Len(inbox) - 1 : Tail(inbox)[k] = inbox[k + 1]
    BY <1>1, HeadTailProperties, LenProperties, EmptySeq DEF TypeOK
  <2>2. 1 \in 1 .. Len(inbox) /\ \A k \in 1 .. Len(inbox) - 1 : k + 1 \in 1 .. Len(inbox)
    BY <2>1
  <2> QED
    BY <2>1, <2>2 DEF Steady
<1>2. ASSUME channel # <<>> PROVE Plain(Head(channel)) \/ Heard(Head(channel))
  <2>1. 1 \in DOMAIN channel /\ Head(channel) = channel[1]
    BY <1>2, HeadTailProperties, LenProperties, EmptySeq DEF TypeOK
  <2> QED
    BY <2>1 DEF Steady
<1> QED
  BY <1>1, <1>2

LEMMA OrderWorker ==
  ASSUME TypeOK, TypeOK', Listening, Steady, InOrder, WorkerStep
  PROVE  Steady' /\ InOrder'
<1> USE TypeParts
<1>a. ASSUME NEW i \in Task, task'[i] = task[i]
      PROVE  /\ task'[i].buf = task[i].buf /\ task'[i].subject = task[i].subject
             /\ task'[i].aborted => task'[i].subject \in Invalid
             /\ task'[i].st = "listening" => task'[i].subject \notin Invalid
  BY <1>a DEF Steady
<1>1. CASE CheckMigration
  <2>1. /\ UNCHANGED <<calls, msgs, inbox, recovery>> /\ (status' = "Master" => ~ recovery)
        /\ task' = task
        /\ channel' = channel \/ \E rows \in Restored : channel' = channel \o rows
    BY <1>1 DEF CheckMigration, MigrateUp, Role, Steady, hist
  <2>2. CASE channel' = channel
    BY <1>a, <2>1, <2>2, OrderKept DEF Steady
  <2>3. CASE \E rows \in Restored : channel' = channel \o rows
    <3>1. PICK rows \in Seq(InternalMessage) :
            (\A k \in DOMAIN rows : Plain(rows[k])) /\ channel' = channel \o rows
      BY <2>3, RowsArePlain
    <3> QED
      BY <1>a, <2>1, <3>1, OrderKept DEF Steady
  <2> QED
    BY <2>1, <2>2, <2>3
<1>2. ~ ApplyConfig
  BY SteadyHeads DEF ApplyConfig, TakeInbox
<1>3. CASE QueueCommand
  <2>1. /\ inbox # <<>> /\ inbox' = Tail(inbox) /\ Head(inbox).type = "Subscribe"
        /\ \A k \in DOMAIN inbox' : inbox'[k].type = "Subscribe"
    BY <1>3, SteadyHeads DEF QueueCommand, TakeInbox
  <2>2. Head(inbox).subject \in Subject /\ Head(inbox).fn \in Fn
    BY <2>1, InboxHead, InboxKinds
  <2>3. PICK n \in InternalMessage : Plain(n) /\ channel' = Append(channel, n)
    BY <1>3, <2>1, <2>2, Messages DEF QueueCommand, TakeInbox, Plain, SubscribeMsg
  <2>4. UNCHANGED <<calls, msgs, status, recovery, task>>
    BY <1>3 DEF QueueCommand, env, loop, hist
  <2> QED
    BY <1>a, <2>1, <2>3, <2>4, OrderKept DEF Steady
<1>4. CASE QueueEmpty \/ ChannelEmpty
  <2>1. UNCHANGED <<calls, msgs, status, recovery, task, inbox, channel>>
    BY <1>4 DEF QueueEmpty, ChannelEmpty, env, hist
  <2> QED
    BY <1>a, <2>1, OrderKept DEF Steady
<1>5. CASE IgnoreOnReplica
  <2>1. /\ UNCHANGED <<calls, msgs, status, recovery, task, inbox>>
        /\ channel # <<>> /\ channel' = Tail(channel)
    BY <1>5 DEF IgnoreOnReplica, TakeChannel, env, loop, hist
  <2> QED
    BY <1>a, <2>1, OrderKept DEF Steady
<1>6. ASSUME NEW type, TakeInternal(type)
      PROVE  /\ Head(channel) \in InternalMessage /\ Head(channel).type = type
             /\ channel # <<>> /\ channel' = Tail(channel)
             /\ Plain(Head(channel)) \/ Heard(Head(channel))
  BY <1>6, ChannelHead, SteadyHeads DEF TakeInternal, TakeChannel
<1>7. CASE HandleSubscribe
  <2> DEFINE s == Head(channel).subject
             f == Head(channel).fn
  <2>1. /\ TakeInternal("Subscribe") /\ UNCHANGED <<calls, msgs, status, recovery, inbox>>
        /\ AddCallback(s, f)
    BY <1>7 DEF HandleSubscribe
  <2>2. s \in Subject /\ f \in Fn /\ config \in Opt
    BY <1>6, <2>1, InternalKinds DEF TypeOK
  <2> HIDE DEF s, f
  <2>3. \A i \in Task : \/ task'[i] = task[i]
                        \/ \E o : task'[i] = NewTask(s, o)
    <3>1. \/ task' = task
          \/ \E i \in Task : task' = [task EXCEPT ![i] = NewTask(s, config)]
      BY <2>1, <2>2, AddEffect
    <3> QED
      BY <3>1 DEF TasksOK
  <2>4. \A i \in Task :
          \/ task'[i].buf = <<>> /\ ~ task'[i].aborted /\ task'[i].st # "listening"
          \/ task'[i] = task[i]
    <3>1. \A o : NewTask(s, o).buf = <<>> /\ NewTask(s, o).aborted = FALSE
                 /\ NewTask(s, o).st = "spawned"
      BY DEF NewTask
    <3> QED
      BY <2>3, <3>1
  <2>5. channel # <<>> /\ channel' = Tail(channel)
    BY <1>6, <2>1
  <2> QED
    BY <1>a, <2>1, <2>4, <2>5, OrderKept DEF Steady
<1>8. ~ HandleUnsubscribe
  <2> SUFFICES ASSUME TakeInternal("Unsubscribe") PROVE FALSE
    BY DEF HandleUnsubscribe
  <2> QED
    BY <1>6 DEF Plain, Heard
<1>9. CASE HandleCallback
  <2>1. /\ TakeInternal("CallbackCall")
        /\ UNCHANGED <<msgs, task, status, recovery, inbox>>
        /\ \A p \in Pair : \/ calls'[p] = calls[p]
                           \/ /\ p[1] = Head(channel).subject
                              /\ calls'[p] = Append(calls[p], Head(channel).n)
    BY <1>9 DEF HandleCallback, env
  <2>2. channel # <<>> /\ channel' = Tail(channel) /\ Heard(Head(channel))
    BY <1>6, <2>1 DEF Heard
  <2> QED
    BY <2>1, <2>2, OrderCalled
<1>10. CASE HandleUnsubscribeSubject
  <2> DEFINE s == Head(channel).subject
  <2>1. /\ TakeInternal("UnsubscribeSubject")
        /\ UNCHANGED <<calls, msgs, status, recovery, inbox>> /\ task' = Aborted({s})
    BY <1>10 DEF HandleUnsubscribeSubject, env, hist
  <2>2. {s} \in SUBSET Invalid
    BY <1>6, <2>1 DEF Plain, Heard
  <2>3. channel # <<>> /\ channel' = Tail(channel)
    BY <1>6, <2>1
  <2> HIDE DEF s
  <2>4. \A i \in Task :
          /\ task'[i].buf = task[i].buf /\ task'[i].subject = task[i].subject
          /\ task'[i].aborted => task'[i].subject \in Invalid
          /\ task'[i].st = "listening" => task'[i].subject \notin Invalid
    BY <2>1, <2>2, AbortedSteady
  <2> QED
    BY <2>1, <2>3, <2>4, OrderKept DEF Steady
<1> QED
  BY <1>1, <1>2, <1>3, <1>4, <1>5, <1>7, <1>8, <1>9, <1>10 DEF WorkerStep

LEMMA OrderTask ==
  ASSUME TypeOK, Listening, Steady, InOrder, NEW i \in Task, TaskStep(i)
  PROVE  Steady' /\ InOrder'
<1>1. /\ UNCHANGED <<calls, msgs, status, recovery, inbox>>
      /\ task[i] \in TaskState /\ task \in [Task -> TaskState]
  BY DEF TaskStep, Listen, Forward, Cancel, env, loop, hist, TypeOK
<1>2. \A k \in DOMAIN inbox' : inbox'[k].type = "Subscribe"
  BY <1>1 DEF Steady
<1>3. CASE Forward(i)
  BY <1>3, OrderForwarded
<1>4. CASE Listen(i) \/ Cancel(i)
  <2>1. \A j \in Task : j # i => task'[j] = task[j]
    BY <1>1, <1>4 DEF Listen, Cancel
  <2>2. \/ task'[i] = FreeTask
        \/ /\ task'[i] = [task[i] EXCEPT !.st = "listening"] /\ task[i].subject \notin Invalid
    BY <1>1, <1>4 DEF Listen, Cancel
  <2>3. \A j \in Task :
          \/ task'[j].buf = <<>> /\ ~ task'[j].aborted /\ task'[j].st # "listening"
          \/ /\ task'[j].buf = task[j].buf /\ task'[j].subject = task[j].subject
             /\ task'[j].aborted => task'[j].subject \in Invalid
             /\ task'[j].st = "listening" => task'[j].subject \notin Invalid
    <3> SUFFICES ASSUME NEW j \in Task
                 PROVE  \/ task'[j].buf = <<>> /\ ~ task'[j].aborted /\ task'[j].st # "listening"
                        \/ /\ task'[j].buf = task[j].buf /\ task'[j].subject = task[j].subject
                           /\ task'[j].aborted => task'[j].subject \in Invalid
                           /\ task'[j].st = "listening" => task'[j].subject \notin Invalid
      OBVIOUS
    <3>1. CASE j # i
      BY <2>1, <3>1 DEF Steady
    <3>2. CASE j = i /\ task'[i] = FreeTask
      BY <3>2 DEF FreeTask
    <3>3. CASE j = i /\ task'[i] = [task[i] EXCEPT !.st = "listening"] /\ task[i].subject \notin Invalid
      <4>1. /\ task'[i].buf = task[i].buf /\ task'[i].subject = task[i].subject
            /\ task'[i].aborted = task[i].aborted
        BY <1>1, <3>3 DEF TaskState
      <4> QED
        BY <3>3, <4>1 DEF Steady
    <3> QED
      BY <2>2, <3>1, <3>2, <3>3
  <2>4. \/ channel' = channel
        \/ \E n \in InternalMessage : Plain(n) /\ channel' = Append(channel, n)
    <3>1. ASSUME task[i].subject \in Invalid
          PROVE  UnsubscribeSubject(task[i].subject) \in InternalMessage
                 /\ Plain(UnsubscribeSubject(task[i].subject))
      BY <3>1, Messages, SubscriberAssumption
      DEF SubscriberAssumption, Plain, UnsubscribeSubject
    <3> QED
      BY <1>4, <3>1 DEF Listen, Cancel
  <2>5. status' = "Master" => ~ recovery'
    BY <1>1 DEF Steady
  <2>6. CASE channel' = channel
    BY <1>1, <1>2, <2>3, <2>5, <2>6, OrderKept
  <2>7. CASE \E n \in InternalMessage : Plain(n) /\ channel' = Append(channel, n)
    BY <1>1, <1>2, <2>3, <2>5, <2>7, OrderKept
  <2> QED
    BY <2>4, <2>6, <2>7
<1> QED
  BY <1>3, <1>4 DEF TaskStep

(* Nothing outside the worker takes a subscription away. *)
OnlySubscribes ==
  "Unsubscribe" \notin Sends /\ "NewConfig" \notin Sends /\ "Demote" \notin Events

LEMMA OrderEnvironment ==
  ASSUME OnlySubscribes, TypeOK, Steady, InOrder, Start \/ Environment
  PROVE  Steady' /\ InOrder'
<1>a. ASSUME task' = task
      PROVE  \A i \in Task :
               /\ task'[i].buf = task[i].buf /\ task'[i].subject = task[i].subject
               /\ task'[i].aborted => task'[i].subject \in Invalid
               /\ task'[i].st = "listening" => task'[i].subject \notin Invalid
  BY <1>a DEF Steady
<1>1. CASE Start
  <2>1. /\ UNCHANGED <<calls, msgs, inbox, recovery, task>> /\ (status' = "Master" => ~ recovery)
        /\ channel' = channel \/ channel' \in Restored
    BY <1>1 DEF Start, Role, hist
  <2>2. CASE channel' = channel
    BY <1>a, <2>1, <2>2, OrderKept DEF Steady
  <2>3. CASE channel' \in Restored
    <3>1. PICK rows \in Seq(InternalMessage) :
            (\A k \in DOMAIN rows : Plain(rows[k])) /\ channel' = rows
      BY <2>3, RowsArePlain
    <3> QED
      BY <1>a, <2>1, <3>1, OrderKept DEF Steady
  <2> QED
    BY <2>1, <2>2, <2>3
<1>2. ASSUME NEW s \in Subject, NEW f \in Fn, NEW type \in {"Subscribe", "Unsubscribe"},
             SendCommand(type, s, f)
      PROVE  Steady' /\ InOrder'
  <2>1. /\ UNCHANGED <<calls, msgs, status, recovery, task, channel>>
        /\ inbox' = Append(inbox, CommandMsg(type, s, f)) /\ type = "Subscribe"
    BY <1>2 DEF SendCommand, Send, env, loop, CommandMsg, OnlySubscribes
  <2>2. \A k \in DOMAIN inbox' : inbox'[k].type = "Subscribe"
    <3>1. /\ Len(inbox) \in Nat /\ DOMAIN inbox = 1 .. Len(inbox)
          /\ DOMAIN inbox' = 1 .. Len(inbox) + 1
          /\ inbox'[Len(inbox) + 1] = CommandMsg(type, s, f)
          /\ \A k \in 1 .. Len(inbox) : inbox'[k] = inbox[k]
      <4>1. inbox \in Seq(SubscriberMessage) /\ CommandMsg(type, s, f) \in SubscriberMessage
        BY DEF TypeOK, SubscriberMessage
      <4> QED
        BY <2>1, <4>1, AppendProperties, LenProperties
    <3>2. \A k \in 1 .. Len(inbox) + 1 : k = Len(inbox) + 1 \/ k \in 1 .. Len(inbox)
      BY <3>1, Indices
    <3> QED
      BY <2>1, <3>1, <3>2 DEF Steady, CommandMsg
  <2> QED
    BY <1>a, <2>1, <2>2, OrderKept DEF Steady
<1>3. \A o \in Opt : ~ SendConfig(o)
  BY DEF SendConfig, Send, ConfigMsg, OnlySubscribes
<1>4. ASSUME NEW s \in Subject, Publish(s) PROVE Steady' /\ InOrder'
  BY <1>4, OrderPublished
<1>5. ASSUME NEW f \in Fn, DropFunction(f) \/ CreateFunction(f) PROVE Steady' /\ InOrder'
  <2>1. UNCHANGED <<calls, msgs, status, recovery, task, channel, inbox>>
    BY <1>5 DEF DropFunction, CreateFunction, loop, hist
  <2> QED
    BY <1>a, <2>1, OrderKept DEF Steady
<1>6. CASE ChangeRole
  <2>1. UNCHANGED <<calls, msgs, status, task, channel, inbox>> /\ recovery /\ ~ recovery'
    BY <1>6 DEF ChangeRole, loop, OnlySubscribes
  <2> QED
    BY <1>a, <2>1, OrderKept DEF Steady
<1>7. CASE Exit
  <2>1. /\ UNCHANGED <<calls, msgs, status, recovery>>
        /\ channel' = <<>> /\ inbox' = <<>> /\ \A i \in Task : task'[i] = FreeTask
    BY <1>7 DEF Exit, env
  <2>2. /\ <<>> \in Seq(InternalMessage) /\ \A k \in DOMAIN <<>> : Plain(<<>>[k])
    OBVIOUS
  <2>3. \A k \in DOMAIN inbox' : inbox'[k].type = "Subscribe"
    BY <2>1
  <2>4. \A i \in Task : task'[i].buf = <<>> /\ ~ task'[i].aborted /\ task'[i].st # "listening"
    BY <2>1 DEF FreeTask
  <2> QED
    BY <2>1, <2>2, <2>3, <2>4, OrderKept DEF Steady
<1> QED
  BY <1>1, <1>2, <1>3, <1>4, <1>5, <1>6, <1>7 DEF Environment

(* While subscriptions are only made, not taken away by a command, a       *)
(* configuration or a demotion, a function sees the messages of a subject  *)
(* in the order of publication and each at most once, across promotions,   *)
(* failed scans, dropped functions and restarts of the worker, with any    *)
(* number of tasks, functions and messages.                                *)
THEOREM CallsInOrder ==
  ASSUME OnlySubscribes
  PROVE  Spec => []CalledInOrder
<1>1. Init => Steady /\ InOrder
  BY DEF Init, Steady, InOrder, Ordered, Past, FreeTask
<1>2. ASSUME TypeOK, TypeOK', Listening, Steady, InOrder, [Next]_vars
      PROVE  Steady' /\ InOrder'
  <2>1. CASE UNCHANGED vars
    BY <1>2, <2>1 DEF vars, env, loop, hist, Steady, InOrder, Past
  <2> QED
    BY <1>2, <2>1, OrderWorker, OrderTask, OrderEnvironment DEF Next
<1>3. InOrder => CalledInOrder
  BY DEF InOrder, CalledInOrder, Ordered
<1> QED
  BY <1>1, <1>2, <1>3, TypeCorrect, ListeningHolds, PTL DEF Spec
=============================================================================
