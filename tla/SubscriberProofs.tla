-------------------------- MODULE SubscriberProofs --------------------------
(***************************************************************************)
(* Proofs about Subscriber for any subjects, functions, options, tasks,    *)
(* bounds and events.                                                      *)
(***************************************************************************)
EXTENDS Subscriber, FiniteSetTheorems, SequenceTheorems, TLAPS

(***************************************************************************)
(* Messages and tasks.                                                     *)
(***************************************************************************)

(* What a message of each type carries.                                    *)
LEMMA InternalKinds ==
  ASSUME NEW m \in InternalMessage
  PROVE  /\ m.type = "Subscribe" =>
              m.register \in BOOLEAN /\ m.subject \in Subject /\ m.fn \in Fn
         /\ m.type = "Unsubscribe" => m.subject \in Subject /\ m.fn \in Fn
         /\ m.type = "CallbackCall" => m.subject \in Subject /\ m.n \in 1 .. MaxMsgs
         /\ m.type = "UnsubscribeSubject" =>
              m.subject \in Subject /\ m = UnsubscribeSubject(m.subject)
BY DEF InternalMessage, SubscribeMsg, UnsubscribeMsg, CallbackCall, UnsubscribeSubject

LEMMA InboxKinds ==
  ASSUME NEW m \in SubscriberMessage
  PROVE  /\ m.type = "NewConfig" => m.opt \in Opt
         /\ m.type \in {"Subscribe", "Unsubscribe"} => m.subject \in Subject /\ m.fn \in Fn
BY DEF SubscriberMessage, CommandMsg, ConfigMsg

(* The messages the actions build are messages. *)
LEMMA Messages ==
  /\ \A r \in BOOLEAN, s \in Subject, f \in Fn : SubscribeMsg(r, s, f) \in InternalMessage
  /\ \A s \in Subject, f \in Fn : UnsubscribeMsg(s, f) \in InternalMessage
  /\ \A s \in Subject, n \in 1 .. MaxMsgs : CallbackCall(s, n) \in InternalMessage
  /\ \A s \in Subject : UnsubscribeSubject(s) \in InternalMessage
BY DEF InternalMessage

(* The rows of a scan are messages to the loop, in a finite sequence, each *)
(* for a pair of the table.                                                *)
LEMMA RestoredRows ==
  ASSUME table \subseteq Pair, NEW rows \in Restored
  PROVE  /\ rows \in Seq(InternalMessage)
         /\ \A k \in DOMAIN rows :
              \E p \in table : rows[k] = SubscribeMsg(FALSE, p[1], p[2])
<1>1. IsFiniteSet(Pair)
  BY FS_Product, SubscriberAssumption DEF Pair, SubscriberAssumption
<1>2. Cardinality(table) \in Nat
  BY <1>1, FS_Subset, FS_CardinalityType
<1>3. PICK r \in [1 .. Cardinality(table) -> table] :
        rows = [k \in DOMAIN r |-> SubscribeMsg(FALSE, r[k][1], r[k][2])]
  BY DEF Restored
<1>4. DOMAIN rows = 1 .. Cardinality(table)
  BY <1>3
<1>5. \A k \in DOMAIN rows : r[k] \in table /\ rows[k] = SubscribeMsg(FALSE, r[k][1], r[k][2])
  BY <1>3
<1>6. ASSUME NEW k \in DOMAIN rows PROVE rows[k] \in InternalMessage
  <2>1. r[k][1] \in Subject /\ r[k][2] \in Fn
    BY <1>5 DEF Pair
  <2>2. SubscribeMsg(FALSE, r[k][1], r[k][2]) \in InternalMessage
    BY <2>1, Messages
  <2> QED
    BY <1>5, <2>2
<1>7. rows = [k \in 1 .. Cardinality(table) |-> rows[k]]
  BY <1>3, <1>4
<1>8. rows \in [1 .. Cardinality(table) -> InternalMessage]
  BY <1>4, <1>6, <1>7
<1>9. rows \in Seq(InternalMessage)
  BY <1>2, <1>8
<1> QED
  BY <1>5, <1>9

(* The state of the map and the tasks.                                     *)
TasksOK ==
  /\ task \in [Task -> TaskState]
  /\ \A i \in Task : task[i] = FreeTask \/ (task[i].st # "free" /\ task[i].subject \in Subject)

(* Aborting leaves everything of a task but its mark.                      *)
LEMMA AbortedTasks ==
  ASSUME TasksOK, NEW S
  PROVE  /\ Aborted(S) \in [Task -> TaskState]
         /\ \A i \in Task :
              /\ Aborted(S)[i].st = task[i].st
              /\ Aborted(S)[i].subject = task[i].subject
              /\ Aborted(S)[i].opt = task[i].opt
              /\ task[i].st = "free" => Aborted(S)[i] = FreeTask
              /\ \/ Aborted(S)[i] = FreeTask
                 \/ Aborted(S)[i].st # "free" /\ Aborted(S)[i].subject \in Subject
<1>1. ASSUME NEW i \in Task
      PROVE  task[i] \in TaskState /\ (task[i].st # "free" => task[i].subject \in Subject)
  BY DEF TasksOK, FreeTask
<1>2. ASSUME NEW i \in Task
      PROVE  /\ Aborted(S)[i] \in TaskState
             /\ Aborted(S)[i].st = task[i].st
             /\ Aborted(S)[i].subject = task[i].subject
             /\ Aborted(S)[i].opt = task[i].opt
             /\ task[i].st = "free" => Aborted(S)[i] = FreeTask
             /\ \/ Aborted(S)[i] = FreeTask
                \/ Aborted(S)[i].st # "free" /\ Aborted(S)[i].subject \in Subject
  <2>1. CASE task[i].st # "free" /\ \E s \in S : Subscribed(s) /\ Handler(s) = i
    <3>1. Aborted(S)[i] = [task[i] EXCEPT !.aborted = TRUE]
      BY <2>1 DEF Aborted
    <3> QED
      BY <1>1, <2>1, <3>1 DEF TaskState
  <2>2. CASE ~ (task[i].st # "free" /\ \E s \in S : Subscribed(s) /\ Handler(s) = i)
    <3>1. Aborted(S)[i] = task[i]
      BY <2>2 DEF Aborted
    <3>2. task[i].st = "free" => task[i] = FreeTask
      BY DEF TasksOK
    <3> QED
      BY <1>1, <3>1, <3>2
  <2> QED
    BY <2>1, <2>2
<1>3. Aborted(S) = [i \in Task |-> Aborted(S)[i]]
  BY DEF Aborted
<1> QED
  BY <1>2, <1>3

(* It marks exactly the tasks of the subjects that have not ended.         *)
LEMMA AbortedMarks ==
  ASSUME TasksOK, NEW S, NEW i \in Task
  PROVE  /\ \A s \in S : task[i].st # "free" /\ Subscribed(s) /\ Handler(s) = i =>
              Aborted(S)[i].aborted
         /\ (\A s \in S : Subscribed(s) => Handler(s) # i) => Aborted(S)[i] = task[i]
<1>1. CASE task[i].st # "free" /\ \E s \in S : Subscribed(s) /\ Handler(s) = i
  <2>1. Aborted(S)[i] = [task[i] EXCEPT !.aborted = TRUE]
    BY <1>1 DEF Aborted
  <2>2. Aborted(S)[i].aborted
    BY <2>1 DEF TasksOK, TaskState
  <2> QED
    BY <1>1, <2>2
<1>2. CASE ~ (task[i].st # "free" /\ \E s \in S : Subscribed(s) /\ Handler(s) = i)
  BY <1>2 DEF Aborted
<1> QED
  BY <1>1, <1>2

LEMMA AbortedOK ==
  ASSUME TasksOK, NEW S, task' = Aborted(S)
  PROVE  TasksOK'
<1>1. task' \in [Task -> TaskState]
  BY AbortedTasks
<1>2. ASSUME NEW i \in Task
      PROVE  task'[i] = FreeTask \/ (task'[i].st # "free" /\ task'[i].subject \in Subject)
  BY AbortedTasks
<1> QED
  BY <1>1, <1>2 DEF TasksOK, FreeTask

(***************************************************************************)
(* Types.                                                                  *)
(***************************************************************************)

MapOK == subscriptions \in [Subject -> Entry \cup {None}]

(* An entry of the map is a task and a set of functions.                   *)
LEMMA EntryType ==
  ASSUME MapOK, NEW s \in Subject
  PROVE  /\ Subscribed(s) => /\ subscriptions[s] \in Entry
                             /\ Handler(s) \in Task /\ Funcs(s) \subseteq Fn
         /\ Funcs(s) \in SUBSET Fn
BY DEF MapOK, Subscribed, Handler, Funcs, Entry

LEMMA NewTaskType ==
  ASSUME NEW s \in Subject, NEW o \in Opt
  PROVE  /\ NewTask(s, o) \in TaskState /\ NewTask(s, o).st = "spawned"
         /\ NewTask(s, o).subject = s /\ NewTask(s, o).opt = o /\ ~ NewTask(s, o).aborted
BY DEF NewTask, TaskState

(* Other functions for a subject leave its task as it is.                  *)
LEMMA FuncsChanged ==
  ASSUME MapOK, NEW s \in Subject, Subscribed(s), NEW F \in SUBSET Fn,
         subscriptions' = [subscriptions EXCEPT ![s].funcs = F]
  PROVE  /\ MapOK'
         /\ \A t \in Subject : t # s => subscriptions'[t] = subscriptions[t]
         /\ subscriptions'[s] # None
         /\ subscriptions'[s].handler = subscriptions[s].handler
         /\ subscriptions'[s].funcs = F
<1>1. subscriptions[s] \in Entry
  BY EntryType
<1> DEFINE e == [subscriptions[s] EXCEPT !.funcs = F]
<1>2. e \in Entry /\ e.handler = subscriptions[s].handler /\ e.funcs = F
  BY <1>1 DEF Entry
<1>3. subscriptions' = [subscriptions EXCEPT ![s] = e]
  OBVIOUS
<1> HIDE DEF e
<1>4. e # None
  BY <1>2, SubscriberAssumption DEF SubscriberAssumption
<1> QED
  BY <1>2, <1>3, <1>4 DEF MapOK

(* subscribe: the entry is new, with a task of its own, or gets a function.*)
LEMMA AddEffect ==
  ASSUME MapOK, TasksOK, config \in Opt, NEW s \in Subject, NEW f \in Fn, AddCallback(s, f)
  PROVE  /\ MapOK' /\ TasksOK'
         /\ \A t \in Subject : t # s => subscriptions'[t] = subscriptions[t]
         /\ subscriptions'[s] # None
         /\ subscriptions'[s].funcs = Funcs(s) \cup {f}
         /\ \/ /\ Subscribed(s) /\ task' = task
               /\ subscriptions'[s].handler = subscriptions[s].handler
            \/ /\ ~ Subscribed(s)
               /\ \E i \in Task :
                    /\ Unused(i) /\ subscriptions'[s].handler = i
                    /\ task' = [task EXCEPT ![i] = NewTask(s, config)]
<1>1. CASE Subscribed(s)
  <2> DEFINE F == Funcs(s) \cup {f}
  <2>1. F \in SUBSET Fn
    BY EntryType
  <2>2. task' = task /\ subscriptions' = [subscriptions EXCEPT ![s].funcs = F]
    BY <1>1 DEF AddCallback, Funcs
  <2> HIDE DEF F
  <2>3. /\ MapOK' /\ subscriptions'[s] # None /\ subscriptions'[s].funcs = F
        /\ \A t \in Subject : t # s => subscriptions'[t] = subscriptions[t]
        /\ subscriptions'[s].handler = subscriptions[s].handler
    BY <1>1, <2>1, <2>2, FuncsChanged
  <2>4. TasksOK'
    BY <2>2 DEF TasksOK
  <2> QED
    BY <1>1, <2>2, <2>3, <2>4 DEF F
<1>2. CASE ~ Subscribed(s)
  <2>1. PICK i \in Task :
          /\ Unused(i) /\ task' = [task EXCEPT ![i] = NewTask(s, config)]
          /\ subscriptions' = [subscriptions EXCEPT ![s] = [handler |-> i, funcs |-> {f}]]
    BY <1>2 DEF AddCallback
  <2> DEFINE e == [handler |-> i, funcs |-> {f}]
  <2>2. e \in Entry /\ e.handler = i /\ e.funcs = {f}
    BY DEF Entry
  <2>3. e # None
    BY <2>2, SubscriberAssumption DEF SubscriberAssumption
  <2>4. subscriptions' = [subscriptions EXCEPT ![s] = e]
    BY <2>1
  <2> HIDE DEF e
  <2>5. /\ MapOK' /\ subscriptions'[s] = e
        /\ \A t \in Subject : t # s => subscriptions'[t] = subscriptions[t]
    BY <2>2, <2>4 DEF MapOK
  <2>6. TasksOK'
    BY <2>1, NewTaskType DEF TasksOK
  <2>7. Funcs(s) = {}
    BY <1>2 DEF Funcs
  <2> QED
    BY <1>2, <2>1, <2>2, <2>3, <2>5, <2>6, <2>7
<1> QED
  BY <1>1, <1>2

(* unsubscribe: the function goes, and with the last one the entry, whose  *)
(* task is aborted.                                                        *)
LEMMA RemoveEffect ==
  ASSUME MapOK, TasksOK, NEW s \in Subject, NEW f \in Fn, RemoveCallback(s, f)
  PROVE  /\ MapOK' /\ TasksOK'
         /\ \A t \in Subject : t # s => subscriptions'[t] = subscriptions[t]
         /\ \/ subscriptions'[s] = None /\ task' = Aborted({s})
            \/ /\ Subscribed(s) /\ subscriptions'[s] # None /\ task' = task
               /\ subscriptions'[s].handler = subscriptions[s].handler
               /\ subscriptions'[s].funcs = Funcs(s) \ {f}
            \/ ~ Subscribed(s) /\ subscriptions' = subscriptions /\ task' = task
<1>1. CASE Subscribed(s) /\ Funcs(s) \ {f} = {}
  <2>1. subscriptions' = [subscriptions EXCEPT ![s] = None] /\ task' = Aborted({s})
    BY <1>1 DEF RemoveCallback
  <2>2. TasksOK'
    BY <2>1, AbortedOK
  <2>3. MapOK'
    BY <2>1 DEF MapOK
  <2>4. subscriptions'[s] = None /\ \A t \in Subject : t # s => subscriptions'[t] = subscriptions[t]
    BY <2>1 DEF MapOK
  <2> QED
    BY <2>1, <2>2, <2>3, <2>4
<1>2. CASE Subscribed(s) /\ Funcs(s) \ {f} # {}
  <2> DEFINE F == Funcs(s) \ {f}
  <2>1. F \in SUBSET Fn
    BY EntryType
  <2>2. task' = task /\ subscriptions' = [subscriptions EXCEPT ![s].funcs = F]
    BY <1>2 DEF RemoveCallback, Funcs
  <2> HIDE DEF F
  <2>3. /\ MapOK' /\ subscriptions'[s] # None /\ subscriptions'[s].funcs = F
        /\ \A t \in Subject : t # s => subscriptions'[t] = subscriptions[t]
        /\ subscriptions'[s].handler = subscriptions[s].handler
    BY <1>2, <2>1, <2>2, FuncsChanged
  <2>4. TasksOK'
    BY <2>2 DEF TasksOK
  <2> QED
    BY <1>2, <2>2, <2>3, <2>4 DEF F
<1>3. CASE ~ Subscribed(s)
  <2>1. subscriptions' = subscriptions /\ task' = task
    BY <1>3 DEF RemoveCallback
  <2> QED
    BY <1>3, <2>1 DEF MapOK, TasksOK
<1> QED
  BY <1>1, <1>2, <1>3

(* unsubscribe_all *)
LEMMA RemoveAllEffect ==
  ASSUME MapOK, TasksOK, RemoveAll
  PROVE  /\ MapOK' /\ TasksOK'
         /\ subscriptions' = NoSubscriptions /\ task' = Aborted(Subject)
<1>1. subscriptions' = NoSubscriptions /\ task' = Aborted(Subject)
  BY DEF RemoveAll
<1>2. TasksOK'
  BY <1>1, AbortedOK
<1>3. MapOK'
  BY <1>1 DEF MapOK, NoSubscriptions
<1> QED
  BY <1>1, <1>2, <1>3

(* reconnect_nats: every entry gets a new task over the new connection,    *)
(* and every old one is aborted.                                           *)
LEMMA ReconnectEffect ==
  ASSUME MapOK, TasksOK, NEW o \in Opt, Reconnect(o)
  PROVE  /\ MapOK' /\ TasksOK'
         /\ \A s \in Subject : subscriptions[s] = None => subscriptions'[s] = None
         /\ \A s \in Subject : subscriptions[s] # None =>
              /\ subscriptions'[s] # None
              /\ subscriptions'[s].funcs = subscriptions[s].funcs
              /\ subscriptions'[s].handler \in Task
              /\ task'[subscriptions'[s].handler] = NewTask(s, o)
         /\ \A i \in Task :
              \/ \E s \in Subject : subscriptions'[s] # None /\ subscriptions'[s].handler = i
              \/ task'[i] = Aborted(Subject)[i]
<1> DEFINE Kept == {s \in Subject : Subscribed(s)}
<1>1. PICK new \in [Kept -> Task] :
        /\ \A s \in Kept : Unused(new[s])
        /\ \A s, t \in Kept : new[s] = new[t] => s = t
        /\ task' = [i \in Task |->
                     IF \E s \in Kept : new[s] = i
                       THEN NewTask(CHOOSE s \in Kept : new[s] = i, o)
                       ELSE Aborted(Subject)[i]]
        /\ subscriptions' = [s \in Subject |->
                              IF s \in Kept THEN [subscriptions[s] EXCEPT !.handler = new[s]]
                                            ELSE None]
  BY DEF Reconnect
<1>2. ASSUME NEW s \in Kept
      PROVE  /\ subscriptions'[s] \in Entry /\ subscriptions'[s] # None
             /\ subscriptions'[s].funcs = subscriptions[s].funcs
             /\ subscriptions'[s].handler = new[s]
  <2>1. subscriptions[s] \in Entry
    BY EntryType
  <2>2. subscriptions'[s] = [subscriptions[s] EXCEPT !.handler = new[s]]
    BY <1>1
  <2>3. /\ subscriptions'[s] \in Entry
        /\ subscriptions'[s].funcs = subscriptions[s].funcs
        /\ subscriptions'[s].handler = new[s]
    BY <2>1, <2>2 DEF Entry
  <2> QED
    BY <2>3, SubscriberAssumption DEF SubscriberAssumption
<1>3. \A s \in Subject : s \notin Kept => subscriptions'[s] = None
  BY <1>1
<1>4. MapOK'
  <2>1. \A s \in Subject : subscriptions'[s] \in Entry \cup {None}
    BY <1>2, <1>3
  <2>2. subscriptions' = [s \in Subject |-> subscriptions'[s]]
    BY <1>1
  <2> QED
    BY <2>1, <2>2 DEF MapOK
<1>5. ASSUME NEW s \in Kept PROVE task'[new[s]] = NewTask(s, o)
  <2>1. (CHOOSE t \in Kept : new[t] = new[s]) = s
    BY <1>1
  <2>2. task'[new[s]] = NewTask(CHOOSE t \in Kept : new[t] = new[s], o)
    BY <1>1
  <2> QED
    BY <2>1, <2>2
<1>6. ASSUME NEW i \in Task, \A s \in Kept : new[s] # i PROVE task'[i] = Aborted(Subject)[i]
  BY <1>1, <1>6
<1>7. TasksOK'
  <2>1. ASSUME NEW i \in Task
        PROVE  /\ task'[i] \in TaskState
               /\ task'[i] = FreeTask \/ (task'[i].st # "free" /\ task'[i].subject \in Subject)
    <3>1. CASE \E s \in Kept : new[s] = i
      <4>1. PICK s \in Kept : new[s] = i
        BY <3>1
      <4>2. task'[i] = NewTask(s, o)
        BY <4>1, <1>5
      <4> QED
        BY <4>2, NewTaskType
    <3>2. CASE \A s \in Kept : new[s] # i
      BY <3>2, <1>6, AbortedTasks
    <3> QED
      BY <3>1, <3>2
  <2>2. task' = [i \in Task |-> task'[i]]
    BY <1>1
  <2> QED
    BY <2>1, <2>2 DEF TasksOK, FreeTask
<1>8. \A s \in Subject : s \in Kept <=> subscriptions[s] # None
  BY DEF Subscribed
<1> HIDE DEF Kept
<1>9. \A i \in Task :
        \/ \E s \in Subject : subscriptions'[s] # None /\ subscriptions'[s].handler = i
        \/ task'[i] = Aborted(Subject)[i]
  BY <1>2, <1>6 DEF Kept
<1>10. ASSUME NEW s \in Subject, subscriptions[s] # None
       PROVE  /\ subscriptions'[s] # None
              /\ subscriptions'[s].funcs = subscriptions[s].funcs
              /\ subscriptions'[s].handler \in Task
              /\ task'[subscriptions'[s].handler] = NewTask(s, o)
  <2>1. s \in Kept
    BY <1>8, <1>10
  <2>2. subscriptions'[s].handler = new[s] /\ new[s] \in Task
    BY <1>1, <1>2, <2>1
  <2> QED
    BY <2>1, <2>2, <1>2, <1>5
<1>11. \A s \in Subject : subscriptions[s] = None => subscriptions'[s] = None
  BY <1>3, <1>8
<1> QED
  BY <1>4, <1>7, <1>9, <1>10, <1>11

LEMMA TypeParts == TypeOK => MapOK /\ TasksOK
BY DEF TypeOK, MapOK, TasksOK

(* The first message of the channel.                                       *)
LEMMA ChannelHead ==
  ASSUME TypeOK, channel # <<>>
  PROVE  Head(channel) \in InternalMessage /\ Tail(channel) \in Seq(InternalMessage)
BY HeadTailProperties DEF TypeOK

LEMMA InboxHead ==
  ASSUME TypeOK, inbox # <<>>
  PROVE  Head(inbox) \in SubscriberMessage /\ Tail(inbox) \in Seq(SubscriberMessage)
BY HeadTailProperties DEF TypeOK

LEMMA TypeInit == Init => TypeOK
<1> SUFFICES ASSUME Init PROVE TypeOK
  OBVIOUS
<1>1. FreeTask \in TaskState
  BY DEF FreeTask, TaskState
<1>2. recovery \in BOOLEAN
  BY DEF Init
<1> QED
  BY <1>1, <1>2, SubscriberAssumption
  DEF Init, TypeOK, NoSubscriptions, Pair, SubscriberAssumption

(* The steps of the loop preserve the types.                               *)
LEMMA TypeWorker ==
  ASSUME TypeOK, WorkerStep
  PROVE  TypeOK'
<1> USE TypeParts
<1>1. CASE CheckMigration
  <2>1. status' \in {"Master", "Replica"} /\ pc' = "queue"
    BY <1>1 DEF CheckMigration, Role
  <2>2. CASE UNCHANGED <<subscriptions, task, channel, announced>>
    BY <1>1, <2>1, <2>2 DEF CheckMigration, TypeOK, hist
  <2>3. CASE MigrateDown /\ UNCHANGED channel
    <3>1. MapOK' /\ TasksOK'
      BY <2>3, RemoveAllEffect DEF MigrateDown
    <3>2. announced' \in {"Master", "Replica", None}
      BY <2>3 DEF MigrateDown, Announce, TypeOK
    <3> QED
      BY <1>1, <2>1, <2>3, <3>1, <3>2 DEF CheckMigration, TypeOK, MapOK, TasksOK, hist
  <2>4. CASE MigrateUp /\ UNCHANGED <<subscriptions, task>>
    <3>1. channel' \in Seq(InternalMessage)
      <4>1. channel \in Seq(InternalMessage) /\ table \subseteq Pair
        BY DEF TypeOK
      <4>2. ASSUME NEW rows \in Restored PROVE channel \o rows \in Seq(InternalMessage)
        BY <4>1, RestoredRows, ConcatProperties
      <4> QED
        BY <2>4, <4>1, <4>2 DEF MigrateUp
    <3>2. announced' \in {"Master", "Replica", None}
      BY <2>4 DEF MigrateUp, Announce, TypeOK
    <3> QED
      BY <1>1, <2>1, <2>4, <3>1, <3>2 DEF CheckMigration, TypeOK, hist
  <2> QED
    BY <1>1, <2>2, <2>3, <2>4 DEF CheckMigration
<1>2. CASE ApplyConfig
  <2>1. /\ Head(inbox).opt \in Opt /\ inbox' \in Seq(SubscriberMessage)
    BY <1>2, InboxHead, InboxKinds DEF ApplyConfig, TakeInbox
  <2>2. CASE UNCHANGED <<config, subscriptions, task>>
    BY <1>2, <2>1, <2>2 DEF ApplyConfig, TypeOK, env, hist
  <2>3. CASE config' = Head(inbox).opt /\ Reconnect(Head(inbox).opt)
    <3>1. MapOK' /\ TasksOK'
      BY <2>1, <2>3, ReconnectEffect
    <3> QED
      BY <1>2, <2>1, <2>3, <3>1 DEF ApplyConfig, TypeOK, MapOK, TasksOK, env, hist
  <2> QED
    BY <1>2, <2>2, <2>3 DEF ApplyConfig
<1>3. CASE QueueCommand
  <2>1. inbox' \in Seq(SubscriberMessage)
    BY <1>3, InboxHead DEF QueueCommand, TakeInbox
  <2>2. PICK m \in InternalMessage : channel' = Append(channel, m)
    <3>1. Head(inbox).subject \in Subject /\ Head(inbox).fn \in Fn
      BY <1>3, InboxHead, InboxKinds DEF QueueCommand, TakeInbox
    <3> QED
      BY <1>3, <3>1, Messages DEF QueueCommand
  <2> QED
    BY <1>3, <2>1, <2>2 DEF QueueCommand, TypeOK, env, loop, hist
<1>4. CASE QueueEmpty
  BY <1>4 DEF QueueEmpty, TypeOK, env, hist
<1>5. CASE IgnoreOnReplica
  BY <1>5, ChannelHead DEF IgnoreOnReplica, TakeChannel, TypeOK, env, loop, hist
<1>6. CASE HandleSubscribe
  <2>1. /\ Head(channel).subject \in Subject /\ Head(channel).fn \in Fn
        /\ channel' \in Seq(InternalMessage)
    BY <1>6, ChannelHead, InternalKinds DEF HandleSubscribe, TakeInternal, TakeChannel
  <2>2. MapOK' /\ TasksOK'
    BY <1>6, <2>1, AddEffect DEF HandleSubscribe, TypeOK
  <2>3. table' \subseteq Pair /\ unwritten' \subseteq Pair
    BY <1>6, <2>1 DEF HandleSubscribe, Writes, TypeOK, Pair
  <2> QED
    BY <1>6, <2>1, <2>2, <2>3
    DEF HandleSubscribe, TakeInternal, TakeChannel, TypeOK, MapOK, TasksOK
<1>7. CASE HandleUnsubscribe
  <2>1. /\ Head(channel).subject \in Subject /\ Head(channel).fn \in Fn
        /\ channel' \in Seq(InternalMessage)
    BY <1>7, ChannelHead, InternalKinds DEF HandleUnsubscribe, TakeInternal, TakeChannel
  <2>2. MapOK' /\ TasksOK'
    BY <1>7, <2>1, RemoveEffect DEF HandleUnsubscribe
  <2>3. table' \subseteq Pair /\ unwritten' \subseteq Pair
    BY <1>7, <2>1 DEF HandleUnsubscribe, Writes, TypeOK, Pair
  <2> QED
    BY <1>7, <2>1, <2>2, <2>3
    DEF HandleUnsubscribe, TakeInternal, TakeChannel, TypeOK, MapOK, TasksOK
<1>8. CASE HandleCallback
  <2> DEFINE m == Head(channel)
  <2>1. m.subject \in Subject /\ m.n \in 1 .. MaxMsgs /\ channel' \in Seq(InternalMessage)
    BY <1>8, ChannelHead, InternalKinds DEF HandleCallback, TakeInternal, TakeChannel
  <2>2. PICK missing \in Undefined(m.subject) :
          /\ calls' = [p \in Pair |->
                        IF p[1] = m.subject /\ p[2] \in Funcs(m.subject) \ missing
                          THEN Append(calls[p], m.n) ELSE calls[p]]
          /\ subscriptions' = IF Subscribed(m.subject)
                                THEN [subscriptions EXCEPT ![m.subject].funcs = @ \ missing]
                                ELSE subscriptions
    BY <1>8 DEF HandleCallback
  <2>3. calls' \in [Pair -> Seq(1 .. MaxMsgs)]
    <3> HIDE DEF m
    <3>1. ASSUME NEW p \in Pair PROVE calls'[p] \in Seq(1 .. MaxMsgs)
      <4>1. calls[p] \in Seq(1 .. MaxMsgs)
        BY DEF TypeOK
      <4>2. Append(calls[p], m.n) \in Seq(1 .. MaxMsgs)
        BY <2>1, <4>1, AppendProperties
      <4>3. calls'[p] = Append(calls[p], m.n) \/ calls'[p] = calls[p]
        BY <2>2
      <4> QED
        BY <4>1, <4>2, <4>3
    <3>2. calls' = [p \in Pair |-> calls'[p]]
      BY <2>2
    <3> QED
      BY <3>1, <3>2
  <2>4. MapOK'
    <3>1. CASE Subscribed(m.subject)
      <4> DEFINE F == Funcs(m.subject) \ missing
      <4>1. F \in SUBSET Fn
        BY <2>1, EntryType
      <4>2. subscriptions' = [subscriptions EXCEPT ![m.subject].funcs = F]
        BY <2>2, <3>1 DEF Funcs
      <4> HIDE DEF F, m
      <4> QED
        BY <2>1, <3>1, <4>1, <4>2, FuncsChanged
    <3>2. CASE ~ Subscribed(m.subject)
      BY <2>2, <3>2 DEF MapOK
    <3> QED
      BY <3>1, <3>2
  <2> QED
    BY <1>8, <2>1, <2>3, <2>4 DEF HandleCallback, TypeOK, MapOK, env
<1>9. CASE HandleUnsubscribeSubject
  <2>1. Head(channel).subject \in Subject /\ channel' \in Seq(InternalMessage)
    BY <1>9, ChannelHead, InternalKinds DEF HandleUnsubscribeSubject, TakeInternal, TakeChannel
  <2>2. TasksOK'
    BY <1>9, AbortedOK DEF HandleUnsubscribeSubject
  <2>3. MapOK'
    BY <1>9, <2>1 DEF HandleUnsubscribeSubject, MapOK
  <2> QED
    BY <1>9, <2>1, <2>2, <2>3 DEF HandleUnsubscribeSubject, TypeOK, MapOK, TasksOK, env, hist
<1>10. CASE ChannelEmpty
  BY <1>10 DEF ChannelEmpty, TypeOK, env, hist
<1> QED
  BY <1>1, <1>2, <1>3, <1>4, <1>5, <1>6, <1>7, <1>8, <1>9, <1>10 DEF WorkerStep

LEMMA TaskChanged ==
  ASSUME TasksOK, NEW i \in Task, NEW t \in TaskState, task' = [task EXCEPT ![i] = t],
         t = FreeTask \/ (t.st # "free" /\ t.subject \in Subject)
  PROVE  TasksOK'
<1>1. task' \in [Task -> TaskState]
  BY DEF TasksOK
<1>2. ASSUME NEW j \in Task
      PROVE  task'[j] = FreeTask \/ (task'[j].st # "free" /\ task'[j].subject \in Subject)
  BY DEF TasksOK
<1> QED
  BY <1>1, <1>2 DEF TasksOK, FreeTask

(* The steps of the tasks preserve them. *)
LEMMA TypeTask ==
  ASSUME TypeOK, NEW i \in Task, TaskStep(i)
  PROVE  TypeOK'
<1>0. /\ TasksOK /\ task[i] \in TaskState /\ channel \in Seq(InternalMessage)
      /\ task[i].st # "free" => task[i].subject \in Subject
  BY DEF TypeOK, TasksOK, FreeTask
<1>1. FreeTask \in TaskState
  BY DEF FreeTask, TaskState
<1>2. CASE Listen(i)
  <2>1. CASE task[i].subject \in Invalid
    <3>1. UnsubscribeSubject(task[i].subject) \in InternalMessage
      BY <2>1, Messages, SubscriberAssumption DEF SubscriberAssumption
    <3>2. /\ channel' = Append(channel, UnsubscribeSubject(task[i].subject))
          /\ task' = [task EXCEPT ![i] = FreeTask]
      BY <1>2, <2>1 DEF Listen
    <3>3. channel' \in Seq(InternalMessage)
      BY <1>0, <3>1, <3>2, AppendProperties
    <3>4. TasksOK'
      BY <1>0, <1>1, <3>2, TaskChanged
    <3> QED
      BY <1>2, <3>3, <3>4 DEF Listen, TypeOK, TasksOK, env, loop, hist
  <2>2. CASE task[i].subject \notin Invalid
    <3> DEFINE t == [task[i] EXCEPT !.st = "listening"]
    <3>1. task' = [task EXCEPT ![i] = t] /\ channel' = channel
      BY <1>2, <2>2 DEF Listen
    <3>2. t \in TaskState /\ t.st # "free" /\ t.subject \in Subject
      BY <1>0, <1>2 DEF TaskState, Listen
    <3> HIDE DEF t
    <3>3. TasksOK'
      BY <1>0, <3>1, <3>2, TaskChanged
    <3> QED
      BY <1>2, <3>1, <3>3 DEF Listen, TypeOK, TasksOK, env, loop, hist
  <2> QED
    BY <2>1, <2>2
<1>3. CASE Forward(i)
  <2> DEFINE b == task[i].buf
             t == [task[i] EXCEPT !.buf = Tail(b)]
  <2>1. b \in Seq(1 .. MaxMsgs) /\ b # <<>>
    BY <1>0, <1>3 DEF Forward, TaskState
  <2>2. Head(b) \in 1 .. MaxMsgs /\ Tail(b) \in Seq(1 .. MaxMsgs)
    BY <2>1, HeadTailProperties
  <2>3. t \in TaskState /\ t.st # "free" /\ t.subject \in Subject
    BY <1>0, <1>3, <2>2 DEF Forward, TaskState
  <2>4. /\ task' = [task EXCEPT ![i] = t]
        /\ channel' = Append(channel, CallbackCall(task[i].subject, Head(b)))
    BY <1>3 DEF Forward
  <2>5. task[i].subject \in Subject
    BY <1>0, <1>3 DEF Forward
  <2> HIDE DEF b, t
  <2>6. TasksOK'
    BY <1>0, <2>3, <2>4, TaskChanged
  <2>7. CallbackCall(task[i].subject, Head(b)) \in InternalMessage
    BY <2>2, <2>5, Messages
  <2>8. channel' \in Seq(InternalMessage)
    BY <1>0, <2>4, <2>7, AppendProperties
  <2> QED
    BY <1>3, <2>6, <2>8 DEF Forward, TypeOK, TasksOK, env, loop, hist
<1>4. CASE Cancel(i)
  <2>1. TasksOK'
    BY <1>0, <1>1, <1>4, TaskChanged DEF Cancel
  <2> QED
    BY <1>4, <2>1 DEF Cancel, TypeOK, TasksOK, env, loop, hist
<1> QED
  BY <1>2, <1>3, <1>4 DEF TaskStep

(* So do those of everybody else, the start and the end of the worker      *)
(* among them.                                                             *)
LEMMA TypeEnvironment ==
  ASSUME TypeOK, Start \/ Environment
  PROVE  TypeOK'
<1>1. CASE Start
  <2>1. channel' \in Seq(InternalMessage)
    BY <1>1, RestoredRows DEF Start, TypeOK
  <2>2. status' \in {"Master", "Replica"} /\ announced' \in {"Master", "Replica", None}
    BY <1>1 DEF Start, Role, Announce, TypeOK
  <2> QED
    BY <1>1, <2>1, <2>2 DEF Start, TypeOK, hist
<1>2. ASSUME NEW s \in Subject, NEW f \in Fn, NEW type \in {"Subscribe", "Unsubscribe"},
             SendCommand(type, s, f)
      PROVE  TypeOK'
  <2>1. CommandMsg(type, s, f) \in SubscriberMessage
    BY DEF SubscriberMessage
  <2>2. inbox \in Seq(SubscriberMessage)
    BY DEF TypeOK
  <2>3. inbox' = Append(inbox, CommandMsg(type, s, f)) /\ sends' = sends + 1 /\ sends < MaxSends
    BY <1>2 DEF SendCommand, Send
  <2>4. inbox' \in Seq(SubscriberMessage)
    BY <2>1, <2>2, <2>3, AppendProperties
  <2>5. sends' \in 0 .. MaxSends
    BY <2>3, SubscriberAssumption DEF SubscriberAssumption, TypeOK
  <2>6. owed' \subseteq owed
    BY <1>2 DEF SendCommand
  <2>7. wanted' \in [Pair -> {"on", "off", "any"}]
    BY <1>2 DEF SendCommand, TypeOK
  <2> QED
    BY <1>2, <2>4, <2>5, <2>6, <2>7 DEF SendCommand, TypeOK, env, loop
<1>3. ASSUME NEW o \in Opt, SendConfig(o) PROVE TypeOK'
  <2>1. ConfigMsg(o) \in SubscriberMessage
    BY DEF SubscriberMessage
  <2>2. inbox \in Seq(SubscriberMessage)
    BY DEF TypeOK
  <2>3. inbox' = Append(inbox, ConfigMsg(o)) /\ sends' = sends + 1 /\ sends < MaxSends
    BY <1>3 DEF SendConfig, Send
  <2>4. inbox' \in Seq(SubscriberMessage)
    BY <2>1, <2>2, <2>3, AppendProperties
  <2>5. sends' \in 0 .. MaxSends
    BY <2>3, SubscriberAssumption DEF SubscriberAssumption, TypeOK
  <2> QED
    BY <1>3, <2>4, <2>5 DEF SendConfig, TypeOK, env, loop, hist
<1>4. ASSUME NEW s \in Subject, Publish(s) PROVE TypeOK'
  <2>1. msgs' \in 0 .. MaxMsgs /\ msgs + 1 \in 1 .. MaxMsgs
    BY <1>4, SubscriberAssumption DEF SubscriberAssumption, Publish, TypeOK
  <2>2. ASSUME NEW i \in Task
        PROVE  /\ task'[i] \in TaskState
               /\ task'[i] = FreeTask \/ (task'[i].st # "free" /\ task'[i].subject \in Subject)
    <3>1. /\ task[i] \in TaskState
          /\ task[i] = FreeTask \/ (task[i].st # "free" /\ task[i].subject \in Subject)
      BY DEF TypeOK
    <3>2. CASE task[i].st = "listening" /\ task[i].subject = s
      <4>1. task'[i] = [task[i] EXCEPT !.buf = Append(task[i].buf, msgs + 1)]
        BY <1>4, <3>2 DEF Publish
      <4>2. task[i].buf \in Seq(1 .. MaxMsgs)
        BY <3>1 DEF TaskState
      <4>3. Append(task[i].buf, msgs + 1) \in Seq(1 .. MaxMsgs)
        BY <2>1, <4>2, AppendProperties
      <4> QED
        BY <3>1, <3>2, <4>1, <4>3 DEF TaskState
    <3>3. CASE ~ (task[i].st = "listening" /\ task[i].subject = s)
      BY <1>4, <3>1, <3>3 DEF Publish
    <3> QED
      BY <3>2, <3>3
  <2>3. task' = [i \in Task |-> task'[i]]
    BY <1>4 DEF Publish
  <2>4. task' \in [Task -> TaskState]
    BY <2>2, <2>3
  <2>5. owed' \subseteq Pair \X (1 .. MaxMsgs)
    BY <1>4, <2>1, TypeParts, EntryType DEF Publish, TypeOK, Pair
  <2> QED
    BY <1>4, <2>1, <2>2, <2>4, <2>5 DEF Publish, TypeOK, env, loop, FreeTask
<1>5. ASSUME NEW f \in Fn, DropFunction(f) PROVE TypeOK'
  <2>1. wanted' \in [Pair -> {"on", "off", "any"}]
    BY <1>5 DEF DropFunction, TypeOK
  <2> QED
    BY <1>5, <2>1 DEF DropFunction, TypeOK, loop
<1>6. ASSUME NEW f \in Fn, CreateFunction(f) PROVE TypeOK'
  BY <1>6 DEF CreateFunction, TypeOK, loop, hist
<1>7. CASE ChangeRole
  <2>1. wanted' \in [Pair -> {"on", "off", "any"}]
    BY <1>7 DEF ChangeRole, TypeOK
  <2> QED
    BY <1>7, <2>1 DEF ChangeRole, TypeOK, loop
<1>8. CASE Exit
  <2>1. FreeTask \in TaskState
    BY DEF FreeTask, TaskState
  <2> QED
    BY <1>8, <2>1 DEF Exit, TypeOK, NoSubscriptions, env
<1> QED
  BY <1>1, <1>2, <1>3, <1>4, <1>5, <1>6, <1>7, <1>8 DEF Environment

(* Every variable keeps its type: the table never holds anything but pairs *)
(* of a subject and a function, a task that has ended leaves nothing       *)
(* behind, and no bound of the model is passed.                            *)
THEOREM TypeCorrect == Spec => []TypeOK
<1>1. ASSUME TypeOK, [Next]_vars PROVE TypeOK'
  <2>1. CASE Next
    BY <1>1, <2>1, TypeWorker, TypeTask, TypeEnvironment DEF Next
  <2>2. CASE UNCHANGED vars
    BY <1>1, <2>2 DEF vars, env, loop, hist, TypeOK
  <2> QED
    BY <1>1, <2>1, <2>2
<1> QED
  BY <1>1, TypeInit, PTL DEF Spec

(***************************************************************************)
(* Who listens.                                                            *)
(***************************************************************************)

(* A message stays in the channel until it is the head and is taken.       *)
LEMMA StillThere ==
  ASSUME channel \in Seq(InternalMessage), NEW m, InChannel(m),
         \/ channel' = channel
         \/ \E n \in InternalMessage : channel' = Append(channel, n)
         \/ \E rows \in Seq(InternalMessage) : channel' = channel \o rows
         \/ channel # <<>> /\ Head(channel) # m /\ channel' = Tail(channel)
  PROVE  \E k \in DOMAIN channel' : channel'[k] = m
<1>1. PICK k \in 1 .. Len(channel) : channel[k] = m
  BY LenProperties DEF InChannel
<1>2. CASE channel' = channel
  BY <1>1, <1>2, LenProperties
<1>3. CASE \E n \in InternalMessage : channel' = Append(channel, n)
  <2>1. PICK n \in InternalMessage : channel' = Append(channel, n)
    BY <1>3
  <2>2. channel'[k] = m /\ k \in 1 .. Len(channel') /\ channel' \in Seq(InternalMessage)
    BY <1>1, <2>1, AppendProperties, LenProperties
  <2> QED
    BY <2>2, LenProperties
<1>4. CASE \E rows \in Seq(InternalMessage) : channel' = channel \o rows
  <2>1. PICK rows \in Seq(InternalMessage) : channel' = channel \o rows
    BY <1>4
  <2>2. channel'[k] = m /\ k \in 1 .. Len(channel') /\ channel' \in Seq(InternalMessage)
    BY <1>1, <2>1, ConcatProperties, LenProperties
  <2> QED
    BY <2>2, LenProperties
<1>5. CASE channel # <<>> /\ Head(channel) # m /\ channel' = Tail(channel)
  <2>1. k # 1 /\ Len(channel) \in Nat
    BY <1>1, <1>5, HeadTailProperties, LenProperties
  <2>2. channel' \in Seq(InternalMessage) /\ Len(channel') = Len(channel) - 1
    BY <1>5, HeadTailProperties
  <2>3. k - 1 \in 1 .. Len(channel')
    BY <1>1, <2>1, <2>2
  <2>4. channel'[k - 1] = channel[(k - 1) + 1]
    BY <1>5, <2>2, <2>3, HeadTailProperties
  <2>5. channel'[k - 1] = m
    BY <1>1, <2>1, <2>4
  <2>6. k - 1 \in DOMAIN channel'
    BY <2>2, <2>3, LenProperties
  <2> QED
    BY <2>5, <2>6
<1> QED
  BY <1>2, <1>3, <1>4, <1>5

(* The inductive invariant: NoStrayTask needs EntryHasTask for the task of *)
(* an entry to be that of no other, and EntryHasTask needs SilentOnReplica *)
(* for a report that a replica throws away to be of no entry.              *)
Listening ==
  /\ NoStrayTask /\ EntryHasTask /\ SilentOnReplica
  /\ pc = "stopped" => subscriptions = NoSubscriptions

(* A task left alive after aborting is that of another entry. *)
LEMMA LeftAlive ==
  ASSUME TasksOK, NoStrayTask, NEW S \in SUBSET Subject, NEW i \in Task,
         Aborted(S)[i].st # "free", ~ Aborted(S)[i].aborted
  PROVE  \E s \in Subject \ S : Subscribed(s) /\ Handler(s) = i
<1>1. task[i].st # "free"
  BY AbortedTasks
<1>2. \A s \in S : ~ (Subscribed(s) /\ Handler(s) = i)
  BY <1>1, AbortedMarks
<1>3. Aborted(S)[i] = task[i]
  BY <1>2, AbortedMarks
<1>4. PICK s \in Subject : Subscribed(s) /\ Handler(s) = i
  BY <1>1, <1>3 DEF NoStrayTask
<1> QED
  BY <1>2, <1>4

(* Two entries with one task would have it while it does not run.          *)
LEMMA OneTaskEach ==
  ASSUME EntryHasTask, NEW s \in Subject, NEW t \in Subject, s # t,
         Subscribed(s), Subscribed(t), Handler(s) = Handler(t)
  PROVE  task[Handler(s)].st = "free"
BY DEF EntryHasTask

(* An entry keeps its task when neither is touched and no report is lost.  *)
LEMMA EntriesKept ==
  ASSUME EntryHasTask,
         \A s \in Subject : subscriptions'[s] # None =>
           \/ /\ task'[subscriptions'[s].handler].st # "free"
              /\ ~ task'[subscriptions'[s].handler].aborted
              /\ task'[subscriptions'[s].handler].subject = s
              /\ task'[subscriptions'[s].handler].opt = config'
           \/ /\ subscriptions[s] # None
              /\ subscriptions'[s].handler = subscriptions[s].handler
              /\ task'[subscriptions[s].handler] = task[subscriptions[s].handler]
              /\ config' = config
              /\ InChannel(UnsubscribeSubject(s)) =>
                   \E k \in DOMAIN channel' : channel'[k] = UnsubscribeSubject(s)
  PROVE  EntryHasTask'
BY DEF EntryHasTask, Subscribed, Handler, InChannel

(* Steps that leave the map, the tasks and the configuration alone.        *)
LEMMA Undisturbed ==
  ASSUME TypeOK, Listening, UNCHANGED <<subscriptions, task, config>>,
         \/ channel' = channel
         \/ \E n \in InternalMessage : channel' = Append(channel, n)
         \/ \E rows \in Seq(InternalMessage) : channel' = channel \o rows
         \/ channel # <<>> /\ channel' = Tail(channel) /\ subscriptions = NoSubscriptions,
         status' = status \/ subscriptions = NoSubscriptions,
         pc' = "stopped" => pc = "stopped"
  PROVE  Listening'
<1>1. channel \in Seq(InternalMessage)
  BY DEF TypeOK
<1>2. \A s \in Subject : subscriptions[s] # None /\ InChannel(UnsubscribeSubject(s)) =>
        \E k \in DOMAIN channel' : channel'[k] = UnsubscribeSubject(s)
  BY <1>1, StillThere DEF NoSubscriptions
<1>3. EntryHasTask'
  BY <1>2, EntriesKept DEF Listening
<1> QED
  BY <1>3 DEF Listening, NoStrayTask, SilentOnReplica, Subscribed, Handler, NoSubscriptions

(* Taking the entries of some subjects away, and aborting their tasks.     *)
LEMMA EntriesRemoved ==
  ASSUME TypeOK, Listening, NEW S \in SUBSET Subject, task' = Aborted(S), config' = config,
         \A s \in S : subscriptions'[s] = None,
         \A s \in Subject \ S : subscriptions'[s] = subscriptions[s],
         \A s \in Subject \ S : subscriptions[s] # None /\ InChannel(UnsubscribeSubject(s)) =>
           \E k \in DOMAIN channel' : channel'[k] = UnsubscribeSubject(s)
  PROVE  NoStrayTask' /\ EntryHasTask'
<1> USE TypeParts DEF Listening
<1>1. NoStrayTask'
  <2>1. ASSUME NEW i \in Task, task'[i].st # "free", ~ task'[i].aborted
        PROVE  \E s \in Subject : subscriptions'[s] # None /\ subscriptions'[s].handler = i
    <3>1. PICK s \in Subject \ S : Subscribed(s) /\ Handler(s) = i
      BY <2>1, LeftAlive
    <3> QED
      BY <3>1 DEF Subscribed, Handler
  <2> QED
    BY <2>1 DEF NoStrayTask, Subscribed, Handler
<1>2. EntryHasTask'
  <2>1. ASSUME NEW s \in Subject \ S, subscriptions[s] # None
        PROVE  task'[subscriptions[s].handler] = task[subscriptions[s].handler]
    <3>1. Subscribed(s) /\ Handler(s) \in Task
      BY <2>1, EntryType DEF Subscribed
    <3>2. CASE \E t \in S : Subscribed(t) /\ Handler(t) = Handler(s)
      <4>1. task[Handler(s)].st = "free"
        BY <3>1, <3>2, OneTaskEach
      <4> QED
        BY <3>1, <4>1, AbortedTasks DEF Handler, TasksOK
    <3>3. CASE \A t \in S : Subscribed(t) => Handler(t) # Handler(s)
      BY <3>1, <3>3, AbortedMarks DEF Handler
    <3> QED
      BY <3>2, <3>3
  <2>2. \A s \in Subject : subscriptions'[s] # None =>
          /\ subscriptions[s] # None /\ subscriptions'[s] = subscriptions[s]
          /\ task'[subscriptions[s].handler] = task[subscriptions[s].handler]
          /\ InChannel(UnsubscribeSubject(s)) =>
               \E k \in DOMAIN channel' : channel'[k] = UnsubscribeSubject(s)
    BY <2>1
  <2> QED
    BY <2>2, EntriesKept
<1> QED
  BY <1>1, <1>2

(* Other functions for some subjects. *)
LEMMA FuncsOnly ==
  ASSUME TypeOK, Listening, UNCHANGED <<task, config>>, NEW h, channel # <<>>, Head(channel) = h,
         channel' = Tail(channel), \A s \in Subject : h # UnsubscribeSubject(s),
         \A s \in Subject :
           /\ subscriptions'[s] # None <=> subscriptions[s] # None
           /\ subscriptions[s] # None => subscriptions'[s].handler = subscriptions[s].handler
  PROVE  NoStrayTask' /\ EntryHasTask'
<1>1. \A s \in Subject : InChannel(UnsubscribeSubject(s)) =>
        \E k \in DOMAIN channel' : channel'[k] = UnsubscribeSubject(s)
  BY StillThere DEF TypeOK
<1>2. EntryHasTask'
  BY <1>1, EntriesKept DEF Listening
<1>3. NoStrayTask'
  BY DEF Listening, NoStrayTask, Subscribed, Handler
<1> QED
  BY <1>2, <1>3

(* The loop. *)
LEMMA ListeningWorker ==
  ASSUME TypeOK, TypeOK', Listening, WorkerStep
  PROVE  Listening'
<1> USE TypeParts
<1>0. channel \in Seq(InternalMessage)
  BY DEF TypeOK
<1>1. CASE CheckMigration
  <2>1. pc' = "queue" /\ config' = config
    BY <1>1 DEF CheckMigration
  <2>2. CASE status' = status /\ UNCHANGED <<subscriptions, task, channel>>
    BY <2>1, <2>2, Undisturbed
  <2>3. CASE RemoveAll /\ UNCHANGED channel
    <3>1. subscriptions' = NoSubscriptions /\ task' = Aborted(Subject)
      BY <2>3 DEF RemoveAll
    <3>2. NoStrayTask' /\ EntryHasTask'
      BY <2>1, <3>1, EntriesRemoved DEF NoSubscriptions
    <3> QED
      BY <2>1, <3>1, <3>2 DEF Listening, SilentOnReplica, NoSubscriptions
  <2>4. CASE status = "Replica" /\ MigrateUp /\ UNCHANGED <<subscriptions, task>>
    <3>1. channel' = channel \/ \E rows \in Seq(InternalMessage) : channel' = channel \o rows
      BY <2>4, RestoredRows DEF MigrateUp, TypeOK
    <3>2. subscriptions = NoSubscriptions
      BY <2>4 DEF Listening, SilentOnReplica
    <3> QED
      BY <2>1, <2>4, <3>1, <3>2, Undisturbed
  <2> QED
    BY <1>1, <2>2, <2>3, <2>4 DEF CheckMigration, MigrateDown
<1>2. CASE ApplyConfig
  <2>1. /\ Head(inbox).opt \in Opt
        /\ pc' = pc /\ pc # "stopped" /\ channel' = channel /\ status' = status
    BY <1>2, InboxHead, InboxKinds DEF ApplyConfig, TakeInbox
  <2>2. CASE UNCHANGED <<config, subscriptions, task>>
    BY <2>1, <2>2, Undisturbed
  <2>3. CASE config' = Head(inbox).opt /\ Reconnect(Head(inbox).opt)
    <3> DEFINE o == Head(inbox).opt
    <3> HIDE DEF o
    <3>1. o \in Opt /\ config' = o /\ Reconnect(o)
      BY <2>1, <2>3 DEF o
    <3>2. ASSUME NEW s \in Subject, subscriptions'[s] # None
          PROVE  /\ subscriptions'[s].handler \in Task
                 /\ task'[subscriptions'[s].handler] = NewTask(s, o)
      BY <3>1, <3>2, ReconnectEffect
    <3>3. EntryHasTask'
      BY <3>1, <3>2, NewTaskType, EntriesKept DEF Listening
    <3>4. ASSUME NEW i \in Task, task'[i].st # "free", ~ task'[i].aborted
          PROVE  \E s \in Subject : subscriptions'[s] # None /\ subscriptions'[s].handler = i
      <4>1. task'[i] # Aborted(Subject)[i]
        BY <3>4, LeftAlive DEF Listening
      <4> QED
        BY <3>1, <4>1, ReconnectEffect
    <3>5. subscriptions = NoSubscriptions => subscriptions' = NoSubscriptions
      <4>1. MapOK' /\ \A s \in Subject : subscriptions[s] = None => subscriptions'[s] = None
        BY <3>1, ReconnectEffect
      <4> QED
        BY <4>1 DEF MapOK, NoSubscriptions
    <3> QED
      BY <2>1, <3>3, <3>4, <3>5
      DEF Listening, NoStrayTask, SilentOnReplica, Subscribed, Handler, NoSubscriptions
  <2> QED
    BY <1>2, <2>2, <2>3 DEF ApplyConfig
<1>3. CASE QueueCommand
  <2>1. PICK n \in InternalMessage : channel' = Append(channel, n)
    <3>1. Head(inbox).subject \in Subject /\ Head(inbox).fn \in Fn
      BY <1>3, InboxHead, InboxKinds DEF QueueCommand, TakeInbox
    <3> QED
      BY <1>3, <3>1, Messages DEF QueueCommand
  <2> QED
    BY <1>3, <2>1, Undisturbed DEF QueueCommand, loop
<1>4. CASE QueueEmpty \/ ChannelEmpty
  BY <1>4, Undisturbed DEF QueueEmpty, ChannelEmpty
<1>5. CASE IgnoreOnReplica
  <2>1. subscriptions = NoSubscriptions
    BY <1>5 DEF IgnoreOnReplica, Listening, SilentOnReplica
  <2> QED
    BY <1>5, <2>1, Undisturbed DEF IgnoreOnReplica, TakeChannel, loop
<1>6. ASSUME NEW type, TakeInternal(type)
      PROVE  /\ Head(channel) \in InternalMessage /\ Head(channel).type = type
             /\ channel # <<>> /\ channel' = Tail(channel)
             /\ type # "UnsubscribeSubject" =>
                  \A s \in Subject : Head(channel) # UnsubscribeSubject(s)
             /\ status = "Master" /\ pc = "channel"
  BY <1>6, ChannelHead DEF TakeInternal, TakeChannel, UnsubscribeSubject
<1>7. CASE HandleSubscribe
  <2> DEFINE s == Head(channel).subject
             f == Head(channel).fn
  <2>1. TakeInternal("Subscribe") /\ UNCHANGED <<pc, status, config>>
    BY <1>7 DEF HandleSubscribe
  <2>2. s \in Subject /\ f \in Fn /\ AddCallback(s, f) /\ config \in Opt
    BY <1>6, <1>7, <2>1, InternalKinds DEF HandleSubscribe, TypeOK
  <2> HIDE DEF s, f
  <2>3. NoStrayTask' /\ EntryHasTask'
    <3>1. CASE Subscribed(s) /\ task' = task /\ subscriptions'[s].handler = subscriptions[s].handler
      <4>1. \A t \in Subject :
              /\ subscriptions'[t] # None <=> subscriptions[t] # None
              /\ subscriptions[t] # None => subscriptions'[t].handler = subscriptions[t].handler
        BY <2>2, <3>1, AddEffect DEF Subscribed
      <4> QED
        BY <1>6, <2>1, <3>1, <4>1, FuncsOnly
    <3>2. ASSUME NEW i \in Task, ~ Subscribed(s), Unused(i), subscriptions'[s].handler = i,
                 task' = [task EXCEPT ![i] = NewTask(s, config)]
          PROVE  NoStrayTask' /\ EntryHasTask'
      <4>1. task'[i] = NewTask(s, config) /\ \A j \in Task : j # i => task'[j] = task[j]
        BY <3>2 DEF TasksOK
      <4>2. ASSUME NEW t \in Subject, t # s, subscriptions'[t] # None
            PROVE  /\ subscriptions[t] # None /\ subscriptions'[t] = subscriptions[t]
                   /\ task'[subscriptions[t].handler] = task[subscriptions[t].handler]
        <5>1. subscriptions[t] # None /\ subscriptions'[t] = subscriptions[t]
          BY <2>2, <4>2, AddEffect
        <5>2. subscriptions[t].handler \in Task /\ subscriptions[t].handler # i
          BY <3>2, <5>1, EntryType DEF Unused, Subscribed, Handler
        <5> QED
          BY <4>1, <5>1, <5>2
      <4>3. \A t \in Subject : InChannel(UnsubscribeSubject(t)) =>
              \E k \in DOMAIN channel' : channel'[k] = UnsubscribeSubject(t)
        <5>1. /\ channel # <<>> /\ channel' = Tail(channel)
              /\ \A t \in Subject : Head(channel) # UnsubscribeSubject(t)
          BY <1>6, <2>1
        <5> QED
          BY <1>0, <5>1, StillThere
      <4>4. EntryHasTask'
        BY <2>1, <2>2, <3>2, <4>1, <4>2, <4>3, NewTaskType, EntriesKept DEF Listening
      <4>5. ASSUME NEW j \in Task, task'[j].st # "free", ~ task'[j].aborted
            PROVE  \E t \in Subject : subscriptions'[t] # None /\ subscriptions'[t].handler = j
        <5>1. CASE j = i
          BY <2>2, <3>2, <5>1, AddEffect
        <5>2. CASE j # i
          <6>1. PICK t \in Subject : subscriptions[t] # None /\ subscriptions[t].handler = j
            BY <4>1, <4>5, <5>2 DEF Listening, NoStrayTask, Subscribed, Handler
          <6>2. t # s
            BY <3>2, <6>1 DEF Subscribed
          <6> QED
            BY <2>2, <6>1, <6>2, AddEffect
        <5> QED
          BY <5>1, <5>2
      <4> QED
        BY <4>4, <4>5 DEF NoStrayTask, Subscribed, Handler
    <3> QED
      BY <2>2, <3>1, <3>2, AddEffect
  <2> QED
    BY <1>6, <2>1, <2>3 DEF Listening, SilentOnReplica
<1>8. CASE HandleUnsubscribe
  <2> DEFINE s == Head(channel).subject
             f == Head(channel).fn
  <2>1. TakeInternal("Unsubscribe") /\ UNCHANGED <<pc, status, config>>
    BY <1>8 DEF HandleUnsubscribe
  <2>2. s \in Subject /\ f \in Fn /\ RemoveCallback(s, f)
    BY <1>6, <1>8, <2>1, InternalKinds DEF HandleUnsubscribe
  <2> HIDE DEF s, f
  <2>3. CASE subscriptions'[s] = None /\ task' = Aborted({s})
    <3>1. \A t \in Subject : InChannel(UnsubscribeSubject(t)) =>
            \E k \in DOMAIN channel' : channel'[k] = UnsubscribeSubject(t)
      <4>1. /\ channel # <<>> /\ channel' = Tail(channel)
            /\ \A t \in Subject : Head(channel) # UnsubscribeSubject(t)
        BY <1>6, <2>1
      <4> QED
        BY <1>0, <4>1, StillThere
    <3>2. {s} \in SUBSET Subject /\ \A t \in Subject \ {s} : subscriptions'[t] = subscriptions[t]
      BY <2>2, RemoveEffect
    <3>3. NoStrayTask' /\ EntryHasTask'
      BY <2>1, <2>3, <3>1, <3>2, EntriesRemoved
    <3> QED
      BY <1>6, <2>1, <3>3 DEF Listening, SilentOnReplica
  <2>4. CASE ~ (subscriptions'[s] = None /\ task' = Aborted({s}))
    <3>1. /\ task' = task
          /\ \A t \in Subject :
               /\ subscriptions'[t] # None <=> subscriptions[t] # None
               /\ subscriptions[t] # None => subscriptions'[t].handler = subscriptions[t].handler
      BY <2>2, <2>4, RemoveEffect DEF Subscribed
    <3>2. NoStrayTask' /\ EntryHasTask'
      BY <1>6, <2>1, <3>1, FuncsOnly
    <3> QED
      BY <1>6, <2>1, <3>2 DEF Listening, SilentOnReplica
  <2> QED
    BY <2>3, <2>4
<1>9. CASE HandleCallback
  <2> DEFINE s == Head(channel).subject
  <2>1. TakeInternal("CallbackCall") /\ UNCHANGED <<pc, status, config, task>>
    BY <1>9 DEF HandleCallback
  <2>2. PICK missing \in Undefined(s) :
          subscriptions' = IF Subscribed(s)
                             THEN [subscriptions EXCEPT ![s].funcs = @ \ missing]
                             ELSE subscriptions
    BY <1>9 DEF HandleCallback
  <2>3. s \in Subject
    BY <1>6, <2>1, InternalKinds
  <2> HIDE DEF s
  <2>4. \A t \in Subject :
          /\ subscriptions'[t] # None <=> subscriptions[t] # None
          /\ subscriptions[t] # None => subscriptions'[t].handler = subscriptions[t].handler
    <3>1. CASE Subscribed(s)
      <4> DEFINE F == Funcs(s) \ missing
      <4>1. F \in SUBSET Fn
        BY <2>3, EntryType
      <4>2. subscriptions' = [subscriptions EXCEPT ![s].funcs = F]
        BY <2>2, <3>1 DEF Funcs
      <4> HIDE DEF F
      <4> QED
        BY <2>3, <3>1, <4>1, <4>2, FuncsChanged DEF Subscribed
    <3>2. CASE ~ Subscribed(s)
      BY <2>2, <3>2
    <3> QED
      BY <3>1, <3>2
  <2>5. NoStrayTask' /\ EntryHasTask'
    BY <1>6, <2>1, <2>4, FuncsOnly
  <2> QED
    BY <1>6, <2>1, <2>5 DEF Listening, SilentOnReplica
<1>10. CASE HandleUnsubscribeSubject
  <2> DEFINE s == Head(channel).subject
  <2>1. /\ TakeInternal("UnsubscribeSubject") /\ UNCHANGED <<pc, status, config>>
        /\ subscriptions' = [subscriptions EXCEPT ![s] = None] /\ task' = Aborted({s})
    BY <1>10 DEF HandleUnsubscribeSubject
  <2>2. s \in Subject /\ Head(channel) = UnsubscribeSubject(s)
    BY <1>6, <2>1, InternalKinds
  <2> HIDE DEF s
  <2>3. {s} \in SUBSET Subject /\ subscriptions'[s] = None
        /\ \A t \in Subject \ {s} : subscriptions'[t] = subscriptions[t]
    BY <2>1, <2>2 DEF MapOK
  <2>4. \A t \in Subject \ {s} : Head(channel) # UnsubscribeSubject(t)
    BY <2>2 DEF UnsubscribeSubject
  <2>5. \A t \in Subject \ {s} : InChannel(UnsubscribeSubject(t)) =>
          \E k \in DOMAIN channel' : channel'[k] = UnsubscribeSubject(t)
    BY <1>6, <2>1, <2>4, StillThere DEF TypeOK
  <2>6. NoStrayTask' /\ EntryHasTask'
    BY <2>1, <2>3, <2>5, EntriesRemoved
  <2> QED
    BY <1>6, <2>1, <2>6 DEF Listening, SilentOnReplica
<1> QED
  BY <1>1, <1>2, <1>3, <1>4, <1>5, <1>7, <1>8, <1>9, <1>10 DEF WorkerStep

(* The tasks. *)
LEMMA ListeningTask ==
  ASSUME TypeOK, Listening, NEW i \in Task, TaskStep(i)
  PROVE  Listening'
<1> USE TypeParts
<1>1. /\ UNCHANGED <<pc, status, config, subscriptions>>
      /\ channel \in Seq(InternalMessage) /\ task[i] \in TaskState /\ task[i].st # "free"
      /\ task[i].subject \in Subject
  BY DEF TaskStep, Listen, Forward, Cancel, loop, TypeOK, FreeTask
<1>2. ASSUME channel' = channel \/ \E n \in InternalMessage : channel' = Append(channel, n),
             NEW s \in Subject, InChannel(UnsubscribeSubject(s))
      PROVE  \E k \in DOMAIN channel' : channel'[k] = UnsubscribeSubject(s)
  BY <1>1, <1>2, StillThere
<1>3. ASSUME NEW t \in TaskState, task' = [task EXCEPT ![i] = t],
             t.st # "free", t.aborted = task[i].aborted, t.subject = task[i].subject,
             t.opt = task[i].opt,
             channel' = channel \/ \E n \in InternalMessage : channel' = Append(channel, n)
      PROVE  Listening'
  <2>1. task'[i] = t /\ \A j \in Task : j # i => task'[j] = task[j]
    BY <1>3 DEF TasksOK
  <2>2. NoStrayTask'
    BY <1>1, <1>3, <2>1 DEF Listening, NoStrayTask, Subscribed, Handler
  <2>3. ASSUME NEW s \in Subject, subscriptions'[s] # None
        PROVE  \/ /\ task'[subscriptions'[s].handler].st # "free"
                  /\ ~ task'[subscriptions'[s].handler].aborted
                  /\ task'[subscriptions'[s].handler].subject = s
                  /\ task'[subscriptions'[s].handler].opt = config'
               \/ /\ subscriptions[s] # None
                  /\ subscriptions'[s].handler = subscriptions[s].handler
                  /\ task'[subscriptions[s].handler] = task[subscriptions[s].handler]
                  /\ config' = config
                  /\ InChannel(UnsubscribeSubject(s)) =>
                       \E k \in DOMAIN channel' : channel'[k] = UnsubscribeSubject(s)
    <3>1. subscriptions' = subscriptions /\ Subscribed(s) /\ Handler(s) \in Task
      BY <1>1, <2>3, EntryType DEF Subscribed
    <3>2. CASE Handler(s) = i
      <4>1. /\ ~ task[i].aborted /\ task[i].subject = s /\ task[i].opt = config
        BY <1>1, <3>1, <3>2 DEF Listening, EntryHasTask
      <4> QED
        BY <1>1, <1>3, <2>1, <3>1, <3>2, <4>1 DEF Handler
    <3>3. CASE Handler(s) # i
      BY <1>1, <1>2, <1>3, <2>1, <3>1, <3>3 DEF Handler, Subscribed
    <3> QED
      BY <3>2, <3>3
  <2>4. EntryHasTask'
    BY <2>3, EntriesKept DEF Listening
  <2> QED
    BY <1>1, <2>2, <2>4 DEF Listening, SilentOnReplica, NoSubscriptions
<1>4. ASSUME task' = [task EXCEPT ![i] = FreeTask],
             \A s \in Subject : Subscribed(s) /\ Handler(s) = i =>
               \E k \in DOMAIN channel' : channel'[k] = UnsubscribeSubject(s),
             channel' = channel \/ \E n \in InternalMessage : channel' = Append(channel, n)
      PROVE  Listening'
  <2>1. /\ task'[i] = FreeTask /\ FreeTask.st = "free"
        /\ \A j \in Task : j # i => task'[j] = task[j]
    BY <1>4 DEF TasksOK, FreeTask
  <2>2. NoStrayTask'
    BY <1>1, <2>1 DEF Listening, NoStrayTask, Subscribed, Handler
  <2>3. \A s \in Subject : InChannel(UnsubscribeSubject(s)) =>
          \E k \in DOMAIN channel' : channel'[k] = UnsubscribeSubject(s)
    BY <1>2, <1>4
  <2>4. ASSUME NEW s \in Subject, subscriptions'[s] # None
        PROVE  \/ /\ task'[subscriptions'[s].handler].st # "free"
                  /\ ~ task'[subscriptions'[s].handler].aborted
                  /\ task'[subscriptions'[s].handler].subject = s
                  /\ task'[subscriptions'[s].handler].opt = config'
               \/ /\ task'[subscriptions'[s].handler].st = "free"
                  /\ \E k \in DOMAIN channel' : channel'[k] = UnsubscribeSubject(s)
    <3>1. subscriptions' = subscriptions /\ Subscribed(s) /\ Handler(s) \in Task
      BY <1>1, <2>4, EntryType DEF Subscribed
    <3>2. CASE Handler(s) = i
      BY <1>4, <2>1, <3>1, <3>2 DEF Handler
    <3>3. CASE Handler(s) # i
      <4>1. task'[Handler(s)] = task[Handler(s)] /\ config' = config
        BY <1>1, <2>1, <3>1, <3>3
      <4> QED
        BY <2>3, <3>1, <4>1 DEF Listening, EntryHasTask, Handler
    <3> QED
      BY <3>2, <3>3
  <2>5. EntryHasTask'
    BY <2>4 DEF EntryHasTask, Subscribed, Handler, InChannel
  <2> QED
    BY <1>1, <2>2, <2>5 DEF Listening, SilentOnReplica, NoSubscriptions
<1>5. CASE Listen(i)
  <2>1. CASE task[i].subject \in Invalid
    <3> DEFINE m == UnsubscribeSubject(task[i].subject)
    <3>1. m \in InternalMessage
      BY <1>1, Messages
    <3>2. channel' = Append(channel, m) /\ task' = [task EXCEPT ![i] = FreeTask]
      BY <1>5, <2>1 DEF Listen
    <3>3. \E k \in DOMAIN channel' : channel'[k] = m
      <4> HIDE DEF m
      <4>1. channel' \in Seq(InternalMessage) /\ Len(channel') = Len(channel) + 1
        BY <1>1, <3>1, <3>2, AppendProperties
      <4>2. channel'[Len(channel) + 1] = m /\ Len(channel) \in Nat
        BY <1>1, <3>1, <3>2, AppendProperties, LenProperties
      <4>3. Len(channel) + 1 \in DOMAIN channel'
        BY <4>1, <4>2, LenProperties
      <4> QED
        BY <4>2, <4>3
    <3>4. \A s \in Subject : Subscribed(s) /\ Handler(s) = i => task[i].subject = s
      BY <1>1 DEF Listening, EntryHasTask
    <3>5. \A s \in Subject : Subscribed(s) /\ Handler(s) = i =>
            \E k \in DOMAIN channel' : channel'[k] = UnsubscribeSubject(s)
      BY <3>3, <3>4
    <3> HIDE DEF m
    <3> QED
      BY <1>4, <3>1, <3>2, <3>5
  <2>2. CASE task[i].subject \notin Invalid
    <3> DEFINE t == [task[i] EXCEPT !.st = "listening"]
    <3>1. /\ t \in TaskState /\ t.st # "free" /\ t.aborted = task[i].aborted
          /\ t.subject = task[i].subject /\ t.opt = task[i].opt
      BY <1>1 DEF TaskState
    <3>2. task' = [task EXCEPT ![i] = t] /\ channel' = channel
      BY <1>5, <2>2 DEF Listen
    <3> HIDE DEF t
    <3> QED
      BY <1>3, <3>1, <3>2
  <2> QED
    BY <2>1, <2>2
<1>6. CASE Forward(i)
  <2> DEFINE b == task[i].buf
             t == [task[i] EXCEPT !.buf = Tail(b)]
  <2>1. b \in Seq(1 .. MaxMsgs) /\ b # <<>>
    BY <1>1, <1>6 DEF Forward, TaskState
  <2>2. Head(b) \in 1 .. MaxMsgs /\ Tail(b) \in Seq(1 .. MaxMsgs)
    BY <2>1, HeadTailProperties
  <2>3. /\ t \in TaskState /\ t.st # "free" /\ t.aborted = task[i].aborted
        /\ t.subject = task[i].subject /\ t.opt = task[i].opt
    BY <1>1, <2>2 DEF TaskState
  <2>4. /\ task' = [task EXCEPT ![i] = t]
        /\ channel' = Append(channel, CallbackCall(task[i].subject, Head(b)))
    BY <1>6 DEF Forward
  <2>5. CallbackCall(task[i].subject, Head(b)) \in InternalMessage
    BY <1>1, <2>2, Messages
  <2> HIDE DEF b, t
  <2> QED
    BY <1>3, <2>3, <2>4, <2>5
<1>7. CASE Cancel(i)
  <2>1. \A s \in Subject : ~ (Subscribed(s) /\ Handler(s) = i)
    BY <1>1, <1>7 DEF Listening, EntryHasTask, Cancel
  <2> QED
    BY <1>4, <1>7, <2>1 DEF Cancel
<1> QED
  BY <1>5, <1>6, <1>7 DEF TaskStep

(* Everybody else. *)
LEMMA ListeningEnvironment ==
  ASSUME TypeOK, Listening, Start \/ Environment
  PROVE  Listening'
<1>1. CASE Start
  <2>1. /\ subscriptions = NoSubscriptions /\ UNCHANGED <<subscriptions, task>>
        /\ pc' # "stopped"
    BY <1>1 DEF Start, Listening
  <2> QED
    BY <2>1 DEF Listening, NoStrayTask, EntryHasTask, SilentOnReplica, Subscribed, Handler,
                NoSubscriptions
<1>2. CASE /\ UNCHANGED <<loop, channel, task>>
  BY <1>2, Undisturbed DEF loop
<1>3. ASSUME NEW s \in Subject, Publish(s) PROVE Listening'
  <2>1. UNCHANGED <<pc, status, config, subscriptions, channel>>
    BY <1>3 DEF Publish, loop
  <2>2. \A i \in Task : /\ task'[i].st = task[i].st /\ task'[i].aborted = task[i].aborted
                        /\ task'[i].subject = task[i].subject /\ task'[i].opt = task[i].opt
    BY <1>3 DEF Publish, TypeOK, TaskState
  <2>3. \A t \in Subject : Subscribed(t) => Handler(t) \in Task
    BY TypeParts, EntryType
  <2>4. NoStrayTask'
    BY <2>1, <2>2 DEF Listening, NoStrayTask, Subscribed, Handler
  <2>5. EntryHasTask'
    BY <2>1, <2>2, <2>3 DEF Listening, EntryHasTask, Subscribed, Handler, InChannel
  <2> QED
    BY <2>1, <2>4, <2>5 DEF Listening, SilentOnReplica, NoSubscriptions
<1>4. CASE Exit
  <2>1. /\ subscriptions' = NoSubscriptions
        /\ \A i \in Task : task'[i].st = "free"
    BY <1>4 DEF Exit, FreeTask
  <2> QED
    BY <2>1 DEF Listening, NoStrayTask, EntryHasTask, SilentOnReplica, Subscribed, Handler,
                NoSubscriptions
<1> QED
  BY <1>1, <1>2, <1>3, <1>4
  DEF Environment, SendCommand, SendConfig, DropFunction, CreateFunction, ChangeRole

(* Entries of the map, tasks and reports of refused subjects belong        *)
(* together one to one in every reachable state, whatever order commands,  *)
(* reports, promotions and the ends of tasks come in.                      *)
THEOREM ListeningHolds == Spec => []Listening
<1>1. Init => Listening
  BY DEF Init, Listening, NoStrayTask, EntryHasTask, SilentOnReplica, Subscribed, FreeTask,
         NoSubscriptions
<1>2. ASSUME TypeOK, TypeOK', Listening, [Next]_vars PROVE Listening'
  <2>1. CASE Next
    BY <1>2, <2>1, ListeningWorker, ListeningTask, ListeningEnvironment DEF Next
  <2>2. CASE UNCHANGED vars
    BY <1>2, <2>2, Undisturbed DEF vars, loop
  <2> QED
    BY <1>2, <2>1, <2>2
<1> QED
  BY <1>1, <1>2, TypeCorrect, PTL DEF Spec

(* However commands, reconnections, promotions, reports of subjects that   *)
(* NATS refuses and the ends of aborted tasks interleave, no task is left  *)
(* behind that nobody has aborted and no entry of the map knows: none      *)
(* calls functions of a subject that was unsubscribed.                     *)
THEOREM NoTaskLeftBehind == Spec => []NoStrayTask
BY ListeningHolds, PTL DEF Listening

(* Every subscribed subject has a task of its own, alive and connected by  *)
(* the current configuration, or a report of its end on its way.           *)
THEOREM EntriesAreServed == Spec => []EntryHasTask
BY ListeningHolds, PTL DEF Listening

(* A worker that knows it is on a replica listens to nothing. *)
THEOREM ReplicaIsSilent == Spec => []SilentOnReplica
BY ListeningHolds, PTL DEF Listening

(***************************************************************************)
(* What is backed by the table.                                            *)
(***************************************************************************)

Backed(p) == p \in table \/ p[2] \notin functions \/ p \in unwritten

(* A row that a scan found, on its way to the map. *)
Row(m) == m.type = "Subscribe" /\ ~ m.register
RowPairs(c) == {<<c[k].subject, c[k].fn>> : k \in {l \in DOMAIN c : Row(c[l])}}
NoneLeaving(c) == \A k \in DOMAIN c : c[k].type # "Unsubscribe"
RowsFirst(c) ==
  \A k \in DOMAIN c : Row(c[k]) => \A j \in 1 .. k - 1 : c[j].type # "Unsubscribe"

(* The inductive invariant: a row in the channel is still backed when it   *)
(* is taken, since no unsubscribe command can be ahead of it: scans are    *)
(* made only where the channel holds none.                                 *)
Backing ==
  /\ MemoryBacked
  /\ \A p \in RowPairs(channel) : Backed(p)
  /\ RowsFirst(channel)
  /\ pc \in {"stopped", "latch"} => NoneLeaving(channel)

LEMMA RowsAppend ==
  ASSUME NEW c \in Seq(InternalMessage), NEW n \in InternalMessage, ~ Row(n)
  PROVE  /\ RowPairs(Append(c, n)) \subseteq RowPairs(c)
         /\ RowsFirst(c) => RowsFirst(Append(c, n))
         /\ NoneLeaving(c) /\ n.type # "Unsubscribe" => NoneLeaving(Append(c, n))
<1> DEFINE d == Append(c, n)
<1>1. /\ d \in Seq(InternalMessage) /\ Len(d) = Len(c) + 1 /\ Len(c) \in Nat
      /\ \A k \in 1 .. Len(c) : d[k] = c[k]
      /\ d[Len(c) + 1] = n
  BY AppendProperties, LenProperties
<1>2. DOMAIN c = 1 .. Len(c) /\ DOMAIN d = 1 .. Len(c) + 1
  BY <1>1, LenProperties
<1> HIDE DEF d
<1>3. \A k \in DOMAIN d : Row(d[k]) => k \in DOMAIN c /\ d[k] = c[k]
  BY <1>1, <1>2
<1>4. RowPairs(d) \subseteq RowPairs(c)
  BY <1>3 DEF RowPairs
<1>5. RowsFirst(c) => RowsFirst(d)
  BY <1>1, <1>2, <1>3 DEF RowsFirst
<1>6. NoneLeaving(c) /\ n.type # "Unsubscribe" => NoneLeaving(d)
  BY <1>1, <1>2 DEF NoneLeaving
<1> QED
  BY <1>4, <1>5, <1>6 DEF d

LEMMA RowsTail ==
  ASSUME NEW c \in Seq(InternalMessage), c # <<>>
  PROVE  /\ RowPairs(Tail(c)) \subseteq RowPairs(c)
         /\ Row(Head(c)) => <<Head(c).subject, Head(c).fn>> \in RowPairs(c)
         /\ RowsFirst(c) => RowsFirst(Tail(c))
         /\ RowsFirst(c) /\ Head(c).type = "Unsubscribe" => RowPairs(Tail(c)) = {}
         /\ NoneLeaving(c) => NoneLeaving(Tail(c))
<1> DEFINE d == Tail(c)
<1>1. /\ d \in Seq(InternalMessage) /\ Len(d) = Len(c) - 1 /\ Len(c) \in Nat /\ Len(c) # 0
      /\ \A k \in 1 .. Len(d) : d[k] = c[k + 1]
  BY HeadTailProperties, LenProperties, EmptySeq
<1>2. DOMAIN c = 1 .. Len(c) /\ DOMAIN d = 1 .. Len(c) - 1
  BY <1>1, LenProperties
<1>3. Head(c) = c[1] /\ 1 \in DOMAIN c
  BY <1>1, <1>2, HeadTailProperties
<1> HIDE DEF d
<1>4. \A k \in DOMAIN d : k + 1 \in DOMAIN c /\ d[k] = c[k + 1]
  BY <1>1, <1>2
<1>5. RowPairs(d) \subseteq RowPairs(c)
  BY <1>4 DEF RowPairs
<1>6. Row(Head(c)) => <<Head(c).subject, Head(c).fn>> \in RowPairs(c)
  BY <1>3 DEF RowPairs
<1>7. ASSUME RowsFirst(c), NEW k \in DOMAIN d, Row(d[k])
      PROVE  c[1].type # "Unsubscribe" /\ \A j \in 1 .. k - 1 : d[j].type # "Unsubscribe"
  <2>1. Row(c[k + 1]) /\ k + 1 \in DOMAIN c
    BY <1>4, <1>7
  <2>2. \A j \in 1 .. (k + 1) - 1 : c[j].type # "Unsubscribe"
    BY <1>7, <2>1 DEF RowsFirst
  <2>3. k \in 1 .. Len(c) - 1
    BY <1>2
  <2>4. \A j \in 1 .. k - 1 : j + 1 \in 1 .. (k + 1) - 1 /\ d[j] = c[j + 1]
    BY <1>1, <1>2, <2>3
  <2>5. c[1].type # "Unsubscribe"
    <3>1. 1 \in 1 .. (k + 1) - 1
      BY <1>1, <2>3
    <3> QED
      BY <2>2, <3>1
  <2>6. \A j \in 1 .. k - 1 : d[j].type # "Unsubscribe"
    BY <2>2, <2>4
  <2> QED
    BY <2>5, <2>6
<1>8. RowsFirst(c) => RowsFirst(d)
  BY <1>7 DEF RowsFirst
<1>9. RowsFirst(c) /\ Head(c).type = "Unsubscribe" => RowPairs(d) = {}
  BY <1>3, <1>7 DEF RowPairs
<1>10. NoneLeaving(c) => NoneLeaving(d)
  BY <1>4 DEF NoneLeaving
<1> QED
  BY <1>5, <1>6, <1>8, <1>9, <1>10 DEF d

(* Rows after a channel that nothing leaves. *)
LEMMA RowsConcat ==
  ASSUME NEW c \in Seq(InternalMessage), NoneLeaving(c),
         table \subseteq Pair, NEW rows \in Restored
  PROVE  /\ RowPairs(c \o rows) \subseteq RowPairs(c) \cup table
         /\ RowsFirst(c \o rows) /\ NoneLeaving(c \o rows)
<1> DEFINE d == c \o rows
<1>1. rows \in Seq(InternalMessage)
  BY RestoredRows
<1>2. \A k \in DOMAIN rows :
        rows[k].type # "Unsubscribe" /\ <<rows[k].subject, rows[k].fn>> \in table
  <2>1. ASSUME NEW k \in DOMAIN rows
        PROVE  rows[k].type # "Unsubscribe" /\ <<rows[k].subject, rows[k].fn>> \in table
    <3>1. PICK p \in table : rows[k] = SubscribeMsg(FALSE, p[1], p[2])
      BY RestoredRows
    <3>2. p = <<p[1], p[2]>>
      BY <3>1 DEF Pair
    <3> QED
      BY <3>1, <3>2 DEF SubscribeMsg
  <2> QED
    BY <2>1
<1>3. /\ d \in Seq(InternalMessage) /\ Len(d) = Len(c) + Len(rows)
      /\ Len(c) \in Nat /\ Len(rows) \in Nat
      /\ \A k \in 1 .. Len(d) : d[k] = IF k <= Len(c) THEN c[k] ELSE rows[k - Len(c)]
  BY <1>1, ConcatProperties, LenProperties
<1>4. /\ DOMAIN c = 1 .. Len(c) /\ DOMAIN rows = 1 .. Len(rows)
      /\ DOMAIN d = 1 .. Len(c) + Len(rows)
  BY <1>1, <1>3, LenProperties
<1> HIDE DEF d
<1>5. ASSUME NEW k \in DOMAIN d
      PROVE  \/ k \in DOMAIN c /\ d[k] = c[k]
             \/ k - Len(c) \in DOMAIN rows /\ d[k] = rows[k - Len(c)]
  BY <1>3, <1>4
<1>6. RowPairs(d) \subseteq RowPairs(c) \cup table
  BY <1>2, <1>5 DEF RowPairs
<1>7. NoneLeaving(d)
  BY <1>2, <1>5 DEF NoneLeaving
<1>8. RowsFirst(d)
  BY <1>3, <1>4, <1>7 DEF RowsFirst, NoneLeaving
<1> QED
  BY <1>6, <1>7, <1>8 DEF d

(* Steps that serve nothing new and leave the table and the functions      *)
(* alone.                                                                  *)
LEMMA BackingKept ==
  ASSUME TypeOK, Backing, UNCHANGED <<table, functions, unwritten>>,
         \A s \in Subject : subscriptions'[s] # None => subscriptions'[s].funcs \subseteq Funcs(s),
         \/ channel' = channel /\ (pc' \in {"stopped", "latch"} => pc = pc')
         \/ \E n \in InternalMessage :
              /\ ~ Row(n) /\ channel' = Append(channel, n)
              /\ pc' \in {"stopped", "latch"} => pc = pc' /\ n.type # "Unsubscribe"
         \/ channel # <<>> /\ channel' = Tail(channel) /\ pc' = pc
  PROVE  Backing'
<1>0. channel \in Seq(InternalMessage)
  BY DEF TypeOK
<1>1. MemoryBacked'
  <2>1. \A s \in Subject : \A f \in Funcs(s) : Backed(<<s, f>>)
    BY DEF Backing, MemoryBacked, Backed
  <2> QED
    BY <2>1 DEF MemoryBacked, Backed, Funcs, Subscribed
<1>2. /\ RowPairs(channel') \subseteq RowPairs(channel)
      /\ RowsFirst(channel')
      /\ pc' \in {"stopped", "latch"} => NoneLeaving(channel')
  <2>1. CASE channel' = channel /\ (pc' \in {"stopped", "latch"} => pc = pc')
    BY <2>1 DEF Backing
  <2>2. ASSUME NEW n \in InternalMessage, ~ Row(n), channel' = Append(channel, n),
               pc' \in {"stopped", "latch"} => pc = pc' /\ n.type # "Unsubscribe"
        PROVE  /\ RowPairs(channel') \subseteq RowPairs(channel)
               /\ RowsFirst(channel')
               /\ pc' \in {"stopped", "latch"} => NoneLeaving(channel')
    BY <1>0, <2>2, RowsAppend DEF Backing
  <2>3. CASE channel # <<>> /\ channel' = Tail(channel) /\ pc' = pc
    BY <1>0, <2>3, RowsTail DEF Backing
  <2> QED
    BY <2>1, <2>2, <2>3
<1> QED
  BY <1>1, <1>2 DEF Backing, Backed

LEMMA BackingStarts == Init => Backing
<1> SUFFICES ASSUME Init PROVE Backing
  OBVIOUS
<1>1. channel = <<>> /\ DOMAIN channel = {} /\ \A s \in Subject : Funcs(s) = {}
  BY DEF Init, Funcs, Subscribed, NoSubscriptions
<1> QED
  BY <1>1 DEF Backing, MemoryBacked, RowPairs, RowsFirst, NoneLeaving

(* The loop: a command carried out changes only the backing of its pair. *)
LEMMA BackingWorker ==
  ASSUME TypeOK, Listening, Backing, WorkerStep
  PROVE  Backing'
<1> USE TypeParts
<1>0. channel \in Seq(InternalMessage) /\ table \subseteq Pair
  BY DEF TypeOK
<1>a. ASSUME subscriptions' = subscriptions
      PROVE  \A s \in Subject : subscriptions'[s] # None => subscriptions'[s].funcs \subseteq Funcs(s)
  BY <1>a DEF Funcs, Subscribed
<1>1. CASE CheckMigration
  <2>1. pc = "latch" /\ pc' = "queue" /\ UNCHANGED <<table, functions, unwritten>>
    BY <1>1 DEF CheckMigration, hist
  <2>2. CASE UNCHANGED <<subscriptions, channel>>
    BY <1>a, <2>1, <2>2, BackingKept
  <2>3. CASE RemoveAll /\ UNCHANGED channel
    <3>1. \A s \in Subject : subscriptions'[s] = None
      BY <2>3 DEF RemoveAll, NoSubscriptions
    <3> QED
      BY <2>1, <2>3, <3>1, BackingKept
  <2>4. ASSUME NEW rows \in Restored, channel' = channel \o rows, UNCHANGED subscriptions
        PROVE  Backing'
    <3>1. NoneLeaving(channel)
      BY <2>1 DEF Backing
    <3>2. /\ RowPairs(channel') \subseteq RowPairs(channel) \cup table
          /\ RowsFirst(channel') /\ NoneLeaving(channel')
      BY <1>0, <2>4, <3>1, RowsConcat
    <3>3. \A p \in RowPairs(channel') : Backed(p)
      BY <3>2 DEF Backing, Backed
    <3> QED
      BY <2>1, <2>4, <3>2, <3>3 DEF Backing, MemoryBacked, Backed, Funcs, Subscribed
  <2> QED
    BY <1>1, <2>2, <2>3, <2>4 DEF CheckMigration, MigrateDown, MigrateUp
<1>2. CASE ApplyConfig
  <2>1. /\ UNCHANGED <<table, functions, unwritten, channel, pc>> /\ Head(inbox).opt \in Opt
    BY <1>2, InboxHead, InboxKinds DEF ApplyConfig, TakeInbox, env, hist
  <2>2. CASE UNCHANGED subscriptions
    BY <1>a, <2>1, <2>2, BackingKept
  <2>3. CASE Reconnect(Head(inbox).opt)
    <3>1. \A s \in Subject : subscriptions'[s] # None => subscriptions'[s].funcs \subseteq Funcs(s)
      BY <2>1, <2>3, ReconnectEffect DEF Funcs, Subscribed
    <3> QED
      BY <2>1, <3>1, BackingKept
  <2> QED
    BY <1>2, <2>2, <2>3 DEF ApplyConfig
<1>3. CASE QueueCommand
  <2>1. Head(inbox).subject \in Subject /\ Head(inbox).fn \in Fn
    BY <1>3, InboxHead, InboxKinds DEF QueueCommand, TakeInbox
  <2>2. /\ UNCHANGED <<table, functions, unwritten, subscriptions, pc>> /\ pc = "queue"
    BY <1>3 DEF QueueCommand, TakeInbox, env, loop, hist
  <2>3. PICK n \in InternalMessage : ~ Row(n) /\ channel' = Append(channel, n)
    BY <1>3, <2>1, Messages DEF QueueCommand, Row, SubscribeMsg, UnsubscribeMsg
  <2> QED
    BY <1>a, <2>2, <2>3, BackingKept
<1>4. CASE QueueEmpty
  BY <1>4, <1>a, BackingKept DEF QueueEmpty, env, hist
<1>5. CASE IgnoreOnReplica
  BY <1>5, <1>a, BackingKept DEF IgnoreOnReplica, TakeChannel, env, loop, hist
<1>6. ASSUME NEW type, TakeInternal(type)
      PROVE  /\ Head(channel) \in InternalMessage /\ Head(channel).type = type
             /\ channel # <<>> /\ channel' = Tail(channel) /\ pc = "channel"
  BY <1>6, ChannelHead DEF TakeInternal, TakeChannel
<1>7. CASE HandleSubscribe
  <2> DEFINE s == Head(channel).subject
             f == Head(channel).fn
  <2>1. TakeInternal("Subscribe") /\ UNCHANGED <<functions, pc>>
    BY <1>7 DEF HandleSubscribe
  <2>2. s \in Subject /\ f \in Fn /\ AddCallback(s, f)
    BY <1>6, <1>7, <2>1, InternalKinds DEF HandleSubscribe
  <2>3. /\ Head(channel).register => Writes(<<s, f>>, table \cup {<<s, f>>})
        /\ ~ Head(channel).register => UNCHANGED <<table, unwritten>>
    BY <1>7 DEF HandleSubscribe
  <2>4. ~ Head(channel).register => <<s, f>> \in RowPairs(channel)
    BY <1>0, <1>6, <2>1, RowsTail DEF Row
  <2> HIDE DEF s, f
  <2>5. \A p \in Pair : Backed(p) =>
          p \in table' \/ p[2] \notin functions' \/ p \in unwritten'
    BY <2>1, <2>3 DEF Backed, Writes
  <2>6. <<s, f>> \in table' \/ f \notin functions' \/ <<s, f>> \in unwritten'
    BY <2>1, <2>3, <2>4 DEF Backing, Backed, Writes
  <2>7. MemoryBacked'
    <3>1. ASSUME NEW t \in Subject, subscriptions'[t] # None, NEW g \in subscriptions'[t].funcs
          PROVE  <<t, g>> \in table' \/ g \notin functions' \/ <<t, g>> \in unwritten'
      <4>1. g \in Funcs(t) \/ (t = s /\ g = f)
        BY <2>2, <3>1, AddEffect DEF Funcs, Subscribed, TypeOK
      <4>2. CASE g \in Funcs(t)
        <5>1. Backed(<<t, g>>) /\ <<t, g>> \in Pair
          BY <4>2, EntryType DEF Backing, MemoryBacked, Backed, Pair
        <5> QED
          BY <2>5, <5>1
      <4> QED
        BY <2>6, <4>1, <4>2
    <3> QED
      BY <3>1 DEF MemoryBacked, Funcs, Subscribed
  <2>8. /\ RowPairs(channel') \subseteq RowPairs(channel) /\ RowsFirst(channel')
        /\ pc' = "channel"
    BY <1>0, <1>6, <2>1, RowsTail DEF Backing
  <2>9. RowPairs(channel) \subseteq Pair
    BY <1>0, InternalKinds DEF RowPairs, Row, Pair
  <2> QED
    BY <2>5, <2>7, <2>8, <2>9 DEF Backing, Backed
<1>8. CASE HandleUnsubscribe
  <2> DEFINE s == Head(channel).subject
             f == Head(channel).fn
  <2>1. TakeInternal("Unsubscribe") /\ UNCHANGED <<functions, pc>>
    BY <1>8 DEF HandleUnsubscribe
  <2>2. /\ s \in Subject /\ f \in Fn /\ RemoveCallback(s, f)
        /\ Writes(<<s, f>>, table \ {<<s, f>>})
    BY <1>6, <1>8, <2>1, InternalKinds DEF HandleUnsubscribe
  <2> HIDE DEF s, f
  <2>3. \A p \in Pair : Backed(p) /\ p # <<s, f>> =>
          p \in table' \/ p[2] \notin functions' \/ p \in unwritten'
    BY <2>1, <2>2 DEF Backed, Writes
  <2>4. MemoryBacked'
    <3>1. ASSUME NEW t \in Subject, subscriptions'[t] # None, NEW g \in subscriptions'[t].funcs
          PROVE  <<t, g>> \in table' \/ g \notin functions' \/ <<t, g>> \in unwritten'
      <4>1. g \in Funcs(t) /\ <<t, g>> # <<s, f>>
        <5>1. CASE t # s
          BY <2>2, <3>1, <5>1, RemoveEffect DEF Funcs, Subscribed
        <5>2. CASE t = s
          <6>1. g \in Funcs(s) \ {f} \/ (~ Subscribed(s) /\ subscriptions' = subscriptions)
            BY <2>2, <3>1, <5>2, RemoveEffect
          <6> QED
            BY <3>1, <5>2, <6>1 DEF Subscribed
        <5> QED
          BY <5>1, <5>2
      <4>2. Backed(<<t, g>>) /\ <<t, g>> \in Pair
        BY <4>1, EntryType DEF Backing, MemoryBacked, Backed, Pair
      <4> QED
        BY <2>3, <4>1, <4>2
    <3> QED
      BY <3>1 DEF MemoryBacked, Funcs, Subscribed
  <2>5. RowPairs(channel') = {} /\ RowsFirst(channel') /\ pc' = "channel"
    BY <1>0, <1>6, <2>1, RowsTail DEF Backing
  <2> QED
    BY <2>4, <2>5 DEF Backing
<1>9. CASE HandleCallback
  <2> DEFINE s == Head(channel).subject
  <2>1. TakeInternal("CallbackCall") /\ UNCHANGED <<table, functions, unwritten, pc>>
    BY <1>9 DEF HandleCallback, env
  <2>2. PICK missing \in Undefined(s) :
          subscriptions' = IF Subscribed(s)
                             THEN [subscriptions EXCEPT ![s].funcs = @ \ missing]
                             ELSE subscriptions
    BY <1>9 DEF HandleCallback
  <2>3. s \in Subject
    BY <1>6, <2>1, InternalKinds
  <2> HIDE DEF s
  <2>4. CASE Subscribed(s)
    <3> DEFINE F == Funcs(s) \ missing
    <3>1. F \in SUBSET Fn /\ F \subseteq Funcs(s)
      BY <2>3, EntryType
    <3>2. subscriptions' = [subscriptions EXCEPT ![s].funcs = F]
      BY <2>2, <2>4 DEF Funcs
    <3> HIDE DEF F
    <3>3. \A t \in Subject : subscriptions'[t] # None => subscriptions'[t].funcs \subseteq Funcs(t)
      BY <2>3, <2>4, <3>1, <3>2, FuncsChanged DEF Funcs, Subscribed
    <3> QED
      BY <1>6, <2>1, <3>3, BackingKept
  <2>5. CASE ~ Subscribed(s)
    BY <1>6, <1>a, <2>1, <2>2, <2>5, BackingKept
  <2> QED
    BY <2>4, <2>5
<1>10. CASE HandleUnsubscribeSubject
  <2>1. /\ TakeInternal("UnsubscribeSubject") /\ UNCHANGED <<table, functions, unwritten, pc>>
        /\ subscriptions' = [subscriptions EXCEPT ![Head(channel).subject] = None]
    BY <1>10 DEF HandleUnsubscribeSubject, env, hist
  <2>2. \A s \in Subject : subscriptions'[s] # None => subscriptions'[s].funcs \subseteq Funcs(s)
    BY <2>1 DEF MapOK, Funcs, Subscribed
  <2> QED
    BY <1>6, <2>1, <2>2, BackingKept
<1>11. CASE ChannelEmpty
  <2>1. /\ channel' = <<>> /\ channel = <<>> /\ DOMAIN channel' = {}
        /\ UNCHANGED <<table, functions, unwritten, subscriptions>>
    BY <1>11 DEF ChannelEmpty, env, hist
  <2> QED
    BY <2>1 DEF Backing, MemoryBacked, Funcs, Subscribed, RowPairs, RowsFirst, NoneLeaving
<1> QED
  BY <1>1, <1>2, <1>3, <1>4, <1>5, <1>7, <1>8, <1>9, <1>10, <1>11 DEF WorkerStep

LEMMA BackingTask ==
  ASSUME TypeOK, Backing, NEW i \in Task, TaskStep(i)
  PROVE  Backing'
<1>1. /\ UNCHANGED <<table, functions, unwritten, subscriptions, pc>>
      /\ task[i] \in TaskState /\ task[i].subject \in Subject
  BY DEF TaskStep, Listen, Forward, Cancel, env, loop, hist, TypeOK, FreeTask
<1>2. \A s \in Subject : subscriptions'[s] # None => subscriptions'[s].funcs \subseteq Funcs(s)
  BY <1>1 DEF Funcs, Subscribed
<1>3. CASE channel' = channel
  BY <1>1, <1>2, <1>3, BackingKept
<1>4. CASE Forward(i)
  <2> DEFINE b == task[i].buf
  <2>1. b \in Seq(1 .. MaxMsgs) /\ b # <<>>
    BY <1>1, <1>4 DEF Forward, TaskState
  <2>2. Head(b) \in 1 .. MaxMsgs
    BY <2>1, HeadTailProperties
  <2>3. channel' = Append(channel, CallbackCall(task[i].subject, Head(b)))
    BY <1>4 DEF Forward
  <2> HIDE DEF b
  <2>4. PICK n \in InternalMessage :
          channel' = Append(channel, n) /\ ~ Row(n) /\ n.type # "Unsubscribe"
    BY <1>1, <2>2, <2>3, Messages DEF CallbackCall, Row
  <2> QED
    BY <1>1, <1>2, <2>4, BackingKept
<1>5. CASE Listen(i) /\ channel' # channel
  <2>1. PICK n \in InternalMessage :
          channel' = Append(channel, n) /\ ~ Row(n) /\ n.type # "Unsubscribe"
    BY <1>1, <1>5, Messages DEF Listen, UnsubscribeSubject, Row
  <2> QED
    BY <1>1, <1>2, <2>1, BackingKept
<1> QED
  BY <1>3, <1>4, <1>5 DEF TaskStep, Cancel

LEMMA BackingEnvironment ==
  ASSUME TypeOK, Listening, Backing, Start \/ Environment, "CreateFunction" \notin Events
  PROVE  Backing'
<1>0. channel \in Seq(InternalMessage) /\ table \subseteq Pair
  BY DEF TypeOK
<1>1. CASE Start
  <2>1. /\ pc = "stopped" /\ pc' = "latch"
        /\ UNCHANGED <<table, functions, unwritten, subscriptions>>
    BY <1>1 DEF Start, hist
  <2>2. \A s \in Subject : subscriptions'[s] # None => subscriptions'[s].funcs \subseteq Funcs(s)
    BY <2>1 DEF Funcs, Subscribed
  <2>3. CASE channel' = channel
    BY <2>1, <2>3 DEF Backing, MemoryBacked, Funcs, Subscribed, Backed
  <2>4. CASE channel' \in Restored
    <3>1. <<>> \in Seq(InternalMessage) /\ NoneLeaving(<<>>) /\ RowPairs(<<>>) = {}
      BY DEF NoneLeaving, RowPairs
    <3>2. <<>> \o channel' = channel'
      BY <1>0, <2>4, RestoredRows, ConcatEmptySeq
    <3>3. RowPairs(channel') \subseteq table /\ RowsFirst(channel') /\ NoneLeaving(channel')
      BY <1>0, <2>4, <3>1, <3>2, RowsConcat
    <3> QED
      BY <2>1, <3>3 DEF Backing, MemoryBacked, Funcs, Subscribed, Backed
  <2> QED
    BY <1>1, <2>3, <2>4 DEF Start
<1>2. CASE UNCHANGED <<table, functions, unwritten, subscriptions, pc, channel>>
  <2>1. \A s \in Subject : subscriptions'[s] # None => subscriptions'[s].funcs \subseteq Funcs(s)
    BY <1>2 DEF Funcs, Subscribed
  <2> QED
    BY <1>2, <2>1, BackingKept
<1>3. ASSUME NEW f \in Fn, DropFunction(f) PROVE Backing'
  <2>1. /\ UNCHANGED <<unwritten, subscriptions, pc, channel>>
        /\ functions' = functions \ {f} /\ table' = {p \in table : p[2] # f}
    BY <1>3 DEF DropFunction, loop
  <2>2. \A p : Backed(p) => p \in table' \/ p[2] \notin functions' \/ p \in unwritten'
    BY <2>1 DEF Backed
  <2>3. MemoryBacked'
    <3>1. ASSUME NEW s \in Subject, subscriptions'[s] # None, NEW g \in subscriptions'[s].funcs
          PROVE  <<s, g>> \in table' \/ g \notin functions' \/ <<s, g>> \in unwritten'
      <4>1. Backed(<<s, g>>)
        BY <2>1, <3>1 DEF Backing, MemoryBacked, Backed, Funcs, Subscribed
      <4> QED
        BY <2>2, <4>1
    <3> QED
      BY <3>1 DEF MemoryBacked, Funcs, Subscribed
  <2> QED
    BY <2>1, <2>2, <2>3 DEF Backing, Backed
<1>4. CASE Exit
  <2>1. channel' = <<>> /\ subscriptions' = NoSubscriptions /\ DOMAIN channel' = {}
    BY <1>4 DEF Exit
  <2> QED
    BY <2>1 DEF Backing, MemoryBacked, Funcs, Subscribed, NoSubscriptions, RowPairs, RowsFirst,
                NoneLeaving
<1> QED
  BY <1>1, <1>2, <1>3, <1>4
  DEF Environment, SendCommand, SendConfig, Publish, CreateFunction, ChangeRole, env, loop, hist

(* Every row that a scan has on its way in the channel, and every existing *)
(* function in the map, is backed by the table or by a failed write: no    *)
(* unsubscribe command deletes a row that a scan would then restore.       *)
THEOREM BackingHolds ==
  ASSUME "CreateFunction" \notin Events
  PROVE  Spec => []Backing
<1>1. ASSUME TypeOK, Listening, Backing, [Next]_vars PROVE Backing'
  <2>1. CASE Next
    BY <1>1, <2>1, BackingWorker, BackingTask, BackingEnvironment DEF Next
  <2>2. CASE UNCHANGED vars
    <3>1. \A s \in Subject : subscriptions'[s] # None => subscriptions'[s].funcs \subseteq Funcs(s)
      BY <2>2 DEF vars, loop, Funcs, Subscribed
    <3> QED
      BY <1>1, <2>2, <3>1, BackingKept DEF vars, env, loop, hist
  <2> QED
    BY <1>1, <2>1, <2>2
<1> QED
  BY <1>1, BackingStarts, TypeCorrect, ListeningHolds, PTL DEF Spec

(* As long as no dropped function is created again, a function that exists *)
(* is called only for a subscription that the table holds or that the      *)
(* worker could not write, whatever fails, restarts or is promoted.        *)
THEOREM OnlyStoredIsServed ==
  ASSUME "CreateFunction" \notin Events
  PROVE  Spec => []MemoryBacked
<1>1. Backing => MemoryBacked
  BY DEF Backing
<1> QED
  BY <1>1, BackingHolds, PTL
=============================================================================
