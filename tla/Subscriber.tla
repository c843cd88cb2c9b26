----------------------------- MODULE Subscriber -----------------------------
(***************************************************************************)
(* The subscriber worker of one database (src/bgw/subscriber): its main    *)
(* loop, the map from subjects to callback functions, the tokio tasks that *)
(* listen on NATS, the channel over which they and the loop itself send    *)
(* work to the loop, and the table pgnats.subscriptions.                   *)
(*                                                                         *)
(* The commands arrive in the order in which the launcher's bus accepted   *)
(* them, as Launcher says of one worker while it lives.  Each SPI call is  *)
(* one transaction of its own and commits at once.                         *)
(*                                                                         *)
(* Operators Mut<X> are wrong versions of X used to show that a property   *)
(* can fail; no specification of this project uses them.                   *)
(***************************************************************************)
EXTENDS Naturals, Sequences, FiniteSets

CONSTANTS
  Subject,    (* NATS subjects.                                            *)
  Invalid,    (* Those that the NATS client refuses to subscribe to.       *)
  Fn,         (* Callback functions.                                       *)
  Opt,        (* NATS connection options of the foreign server.            *)
  Task,       (* Handles of tokio tasks; bounds those alive at once.       *)
  None,
  MaxSends,   (* Bound: commands and configurations sent to the worker.    *)
  MaxMsgs,    (* Bound: messages published.                                *)
  Sends,      (* What may be sent: a subset of SendKind.                   *)
  Events      (* What else may happen: a subset of EventKind.              *)

SendKind == {"Subscribe", "Unsubscribe", "NewConfig"}
EventKind == {"Exit", "Replica", "Demote", "DropFunction", "CreateFunction",
              "RestoreFails", "ConnectFails", "WriteFails", "BodyUndefined", "AnnounceFails"}

(* NatsSubscription *)
Entry == [handler : Task, funcs : SUBSET Fn]

ASSUME SubscriberAssumption ==
  /\ IsFiniteSet(Subject) /\ IsFiniteSet(Fn) /\ Invalid \subseteq Subject
  /\ None \notin Task /\ None \notin Subject /\ None \notin Opt /\ None \notin Entry
  /\ MaxSends \in Nat /\ MaxMsgs \in Nat
  /\ Sends \subseteq SendKind /\ Events \subseteq EventKind

VARIABLES
  recovery,        (* The instance is a replica.                           *)
  table,           (* pgnats.subscriptions: pairs of subject and callback. *)
  functions,       (* Functions that exist.                                *)
  announced,       (* The role in the last notification sent to NATS.      *)
  inbox,           (* Messages of the launcher the worker has not read.    *)
  pc,              (* Where the main loop is.                              *)
  status, config,  (* Fields of SubscriberContext.                         *)
  subscriptions,   (* The map of NatsConnectionState.                      *)
  channel,         (* The mpsc channel of InternalWorkerMessage.           *)
  task,            (* The tokio tasks.                                     *)
  sends, msgs,     (* Counters of the bounds.                              *)
  wanted,          (* History: what the last command for a pair asked for. *)
  owed, calls,     (* History: messages heard for a function; its calls.   *)
  unwritten        (* History: pairs whose last change of the table failed.*)

loop == <<pc, status, config, subscriptions>>
env  == <<recovery, table, functions, announced>>
hist == <<wanted, owed, calls, unwritten>>
vars == <<env, inbox, loop, channel, task, sends, msgs, hist>>

Pair == Subject \X Fn

(* InternalWorkerMessage *)
SubscribeMsg(register, s, f) ==
  [type |-> "Subscribe", register |-> register, subject |-> s, fn |-> f]
UnsubscribeMsg(s, f) == [type |-> "Unsubscribe", subject |-> s, fn |-> f]
CallbackCall(s, n) == [type |-> "CallbackCall", subject |-> s, n |-> n]
UnsubscribeSubject(s) == [type |-> "UnsubscribeSubject", subject |-> s]

InternalMessage ==
  {SubscribeMsg(r, s, f) : r \in BOOLEAN, s \in Subject, f \in Fn}
  \cup {UnsubscribeMsg(s, f) : s \in Subject, f \in Fn}
  \cup {CallbackCall(s, n) : s \in Subject, n \in 1 .. MaxMsgs}
  \cup {UnsubscribeSubject(s) : s \in Subject}

(* SubscriberMessage *)
CommandMsg(type, s, f) == [type |-> type, subject |-> s, fn |-> f]
ConfigMsg(o) == [type |-> "NewConfig", opt |-> o]

SubscriberMessage ==
  {CommandMsg(t, s, f) : t \in {"Subscribe", "Unsubscribe"}, s \in Subject, f \in Fn}
  \cup {ConfigMsg(o) : o \in Opt}

FreeTask == [st |-> "free", subject |-> None, opt |-> None, aborted |-> FALSE, buf |-> <<>>]
NoSubscriptions == [s \in Subject |-> None]

Init ==
  /\ recovery \in IF "Replica" \in Events THEN BOOLEAN ELSE {FALSE}
  /\ table \in SUBSET Pair /\ functions = Fn /\ announced = None
  /\ inbox = <<>>
  /\ pc = "stopped" /\ status = "Replica" /\ config \in Opt
  /\ subscriptions = NoSubscriptions
  /\ channel = <<>>
  /\ task = [i \in Task |-> FreeTask]
  /\ sends = 0 /\ msgs = 0
  /\ wanted = [p \in Pair |-> "any"]
  /\ owed = {} /\ calls = [p \in Pair |-> <<>>] /\ unwritten = {}

(***************************************************************************)
(* NatsConnectionState.                                                    *)
(***************************************************************************)

Subscribed(s) == subscriptions[s] # None
Funcs(s) == IF Subscribed(s) THEN subscriptions[s].funcs ELSE {}
Handler(s) == subscriptions[s].handler

(* A task whose JoinHandle is kept is not used again. *)
Unused(i) == task[i].st = "free" /\ \A s \in Subject : Subscribed(s) => Handler(s) # i

NewTask(s, o) == [st |-> "spawned", subject |-> s, opt |-> o, aborted |-> FALSE, buf |-> <<>>]

MutAborted(S) ==
  [i \in Task |->
     IF \E s \in S : Subscribed(s) /\ Handler(s) = i
       THEN [task[i] EXCEPT !.aborted = TRUE] ELSE task[i]]

(* abort() of the tasks of some subjects: they end at a later point, and   *)
(* one that has ended already stays as it is.                              *)
Aborted(S) ==
  [i \in Task |->
     IF task[i].st # "free" /\ \E s \in S : Subscribed(s) /\ Handler(s) = i
       THEN [task[i] EXCEPT !.aborted = TRUE] ELSE task[i]]

MutAddCallback(s, f) ==
  \E i \in Task :
    /\ Unused(i)
    /\ task' = [task EXCEPT ![i] = NewTask(s, config)]
    /\ subscriptions' = [subscriptions EXCEPT ![s] = [handler |-> i, funcs |-> Funcs(s) \cup {f}]]

(* subscribe: the first function of a subject spawns the task that listens.*)
AddCallback(s, f) ==
  \/ /\ Subscribed(s)
     /\ subscriptions' = [subscriptions EXCEPT ![s].funcs = @ \cup {f}]
     /\ UNCHANGED task
  \/ /\ ~ Subscribed(s)
     /\ \E i \in Task :
          /\ Unused(i)
          /\ task' = [task EXCEPT ![i] = NewTask(s, config)]
          /\ subscriptions' = [subscriptions EXCEPT ![s] = [handler |-> i, funcs |-> {f}]]

MutRemoveCallback(s, f) ==
  IF f \in Funcs(s)
    THEN /\ subscriptions' = [subscriptions EXCEPT ![s] =
              IF Funcs(s) = {f} THEN None ELSE [@ EXCEPT !.funcs = @ \ {f}]]
         /\ UNCHANGED task
    ELSE UNCHANGED <<subscriptions, task>>

(* unsubscribe: the last function takes the task with it. *)
RemoveCallback(s, f) ==
  IF Subscribed(s)
    THEN IF Funcs(s) \ {f} = {}
           THEN /\ subscriptions' = [subscriptions EXCEPT ![s] = None]
                /\ task' = Aborted({s})
           ELSE /\ subscriptions' = [subscriptions EXCEPT ![s].funcs = @ \ {f}]
                /\ UNCHANGED task
    ELSE UNCHANGED <<subscriptions, task>>

(* unsubscribe_all *)
RemoveAll == subscriptions' = NoSubscriptions /\ task' = Aborted(Subject)

(* reconnect_nats, once the new connection is there: every subject gets a  *)
(* new task and the old one is aborted.                                    *)
Reconnect(o) ==
  LET Kept == {s \in Subject : Subscribed(s)}
  IN  \E new \in [Kept -> Task] :
        /\ \A s \in Kept : Unused(new[s])
        /\ \A s, t \in Kept : new[s] = new[t] => s = t
        /\ task' = [i \in Task |->
                     IF \E s \in Kept : new[s] = i
                       THEN NewTask(CHOOSE s \in Kept : new[s] = i, o)
                       ELSE Aborted(Subject)[i]]
        /\ subscriptions' = [s \in Subject |->
                              IF s \in Kept THEN [subscriptions[s] EXCEPT !.handler = new[s]]
                                            ELSE None]

(***************************************************************************)
(* The main loop.                                                          *)
(***************************************************************************)

(* restore_state: the rows of the table, in the order the scan finds them, *)
(* become messages to the loop itself.                                     *)
Restored ==
  {[k \in DOMAIN rows |-> SubscribeMsg(FALSE, rows[k][1], rows[k][2])] :
     rows \in {r \in [1 .. Cardinality(table) -> table] :
                 \A p \in table : \E k \in DOMAIN r : r[k] = p}}

Role == IF recovery THEN "Replica" ELSE "Master"

(* send_notification: the settings of the instance can be unusable, or     *)
(* NATS refuse the message.                                                *)
Announce(role) ==
  announced' \in {role} \cup {a \in {announced} : "AnnounceFails" \in Events}

(* The launcher starts a worker, which reads the options of the server,    *)
(* finds NATS there and announces its role.  A notification or a scan of   *)
(* the table that fails is logged.                                         *)
Start ==
  /\ pc = "stopped" /\ pc' = "latch"
  /\ status' = Role /\ Announce(Role)
  /\ config' \in Opt
  /\ \/ ~ recovery /\ channel' \in Restored
     \/ (recovery \/ "RestoreFails" \in Events) /\ UNCHANGED channel
  /\ UNCHANGED <<recovery, table, functions, inbox, subscriptions, task, sends, msgs, hist>>

MutMigrateDown == Announce("Replica") /\ UNCHANGED <<subscriptions, task>>

(* Master to replica *)
MigrateDown == RemoveAll /\ Announce("Replica")

MutMigrateUp == Announce("Master") /\ UNCHANGED channel

MutAnnounceFirst == (\E rows \in Restored : channel' = channel \o rows) /\ Announce("Replica")

(* Replica to master.  When the scan of the table fails the error is       *)
(* logged, and neither it nor the notification is tried again: the status  *)
(* is master already.                                                      *)
MigrateUp ==
  \/ /\ \E rows \in Restored : channel' = channel \o rows
     /\ Announce("Master")
  \/ "RestoreFails" \in Events /\ UNCHANGED <<channel, announced>>

(* wait_latch, check_extension_status and check_migration *)
CheckMigration ==
  /\ pc = "latch" /\ pc' = "queue"
  /\ status' = Role
  /\ \/ status = Role /\ UNCHANGED <<subscriptions, task, channel, announced>>
     \/ status = "Master" /\ recovery /\ MigrateDown /\ UNCHANGED channel
     \/ status = "Replica" /\ ~ recovery /\ MigrateUp /\ UNCHANGED <<subscriptions, task>>
  /\ UNCHANGED <<recovery, table, functions, inbox, config, sends, msgs, hist>>

(* handle_message_from_shared_queue *)
TakeInbox(type) ==
  /\ pc = "queue" /\ inbox # <<>> /\ Head(inbox).type = type
  /\ inbox' = Tail(inbox)

MutApplyConfig ==
  /\ TakeInbox("NewConfig")
  /\ config' = Head(inbox).opt
  /\ UNCHANGED <<env, pc, status, subscriptions, task, channel, sends, msgs, hist>>

(* apply_config: when the connection fails the old configuration stays. *)
ApplyConfig ==
  /\ TakeInbox("NewConfig")
  /\ \/ /\ Head(inbox).opt = config
        /\ UNCHANGED <<config, subscriptions, task>>
     \/ /\ Head(inbox).opt # config
        /\ config' = Head(inbox).opt
        /\ Reconnect(Head(inbox).opt)
     \/ /\ Head(inbox).opt # config /\ "ConnectFails" \in Events
        /\ UNCHANGED <<config, subscriptions, task>>
  /\ UNCHANGED <<env, pc, status, channel, sends, msgs, hist>>

MutQueueCommand ==
  /\ \/ /\ TakeInbox("Subscribe")
        /\ channel' = <<SubscribeMsg(TRUE, Head(inbox).subject, Head(inbox).fn)>> \o channel
     \/ /\ TakeInbox("Unsubscribe")
        /\ channel' = <<UnsubscribeMsg(Head(inbox).subject, Head(inbox).fn)>> \o channel
  /\ UNCHANGED <<env, loop, task, sends, msgs, hist>>

(* A command goes to the end of the channel, behind the callbacks there. *)
QueueCommand ==
  /\ \/ /\ TakeInbox("Subscribe")
        /\ channel' = Append(channel, SubscribeMsg(TRUE, Head(inbox).subject, Head(inbox).fn))
     \/ /\ TakeInbox("Unsubscribe")
        /\ channel' = Append(channel, UnsubscribeMsg(Head(inbox).subject, Head(inbox).fn))
  /\ UNCHANGED <<env, loop, task, sends, msgs, hist>>

QueueEmpty ==
  /\ pc = "queue" /\ inbox = <<>> /\ pc' = "channel"
  /\ UNCHANGED <<env, inbox, status, config, subscriptions, channel, task, sends, msgs, hist>>

(* msg_receiver.try_recv() *)
TakeChannel ==
  /\ pc = "channel" /\ channel # <<>>
  /\ channel' = Tail(channel)

(* "Received internal message on replica. Ignoring." *)
IgnoreOnReplica ==
  /\ TakeChannel /\ status = "Replica"
  /\ UNCHANGED <<env, inbox, loop, task, sends, msgs, hist>>

(* handle_internal_message for messages of a type *)
TakeInternal(type) == TakeChannel /\ status = "Master" /\ Head(channel).type = type

(* A change of the table is one statement in a transaction of its own; an  *)
(* error is logged and nothing else.                                       *)
Writes(p, new) ==
  \E written \in {TRUE} \cup {"WriteFails" \notin Events} :
    /\ table' = IF written THEN new ELSE table
    /\ unwritten' = IF table' = new THEN unwritten \ {p} ELSE unwritten \cup {p}

MutHandleSubscribe ==
  /\ TakeInternal("Subscribe")
  /\ LET m == Head(channel)
     IN /\ IF m.register THEN UNCHANGED <<table, unwritten>>
          ELSE Writes(<<m.subject, m.fn>>, table \cup {<<m.subject, m.fn>>})
        /\ AddCallback(m.subject, m.fn)
  /\ UNCHANGED <<recovery, functions, announced, inbox, pc, status, config, sends, msgs,
                 wanted, owed, calls>>

(* The row is inserted, which fails when it is there already, and the      *)
(* function subscribed in any case.                                        *)
HandleSubscribe ==
  /\ TakeInternal("Subscribe")
  /\ LET m == Head(channel)
     IN /\ IF m.register THEN Writes(<<m.subject, m.fn>>, table \cup {<<m.subject, m.fn>>})
          ELSE UNCHANGED <<table, unwritten>>
        /\ AddCallback(m.subject, m.fn)
  /\ UNCHANGED <<recovery, functions, announced, inbox, pc, status, config, sends, msgs,
                 wanted, owed, calls>>

MutHandleUnsubscribe ==
  /\ TakeInternal("Unsubscribe")
  /\ RemoveCallback(Head(channel).subject, Head(channel).fn)
  /\ UNCHANGED <<env, inbox, pc, status, config, sends, msgs, hist>>

MutUnsubscribeWritten ==
  /\ TakeInternal("Unsubscribe")
  /\ LET m == Head(channel)
     IN /\ Writes(<<m.subject, m.fn>>, table \ {<<m.subject, m.fn>>})
        /\ IF <<m.subject, m.fn>> \in table' THEN UNCHANGED <<subscriptions, task>>
          ELSE RemoveCallback(m.subject, m.fn)
  /\ UNCHANGED <<recovery, functions, announced, inbox, pc, status, config, sends, msgs,
                 wanted, owed, calls>>

(* The row is deleted, and the function forgotten in any case. *)
HandleUnsubscribe ==
  /\ TakeInternal("Unsubscribe")
  /\ LET m == Head(channel)
     IN /\ Writes(<<m.subject, m.fn>>, table \ {<<m.subject, m.fn>>})
        /\ RemoveCallback(m.subject, m.fn)
  /\ UNCHANGED <<recovery, functions, announced, inbox, pc, status, config, sends, msgs,
                 wanted, owed, calls>>

MutHandleCallback ==
  /\ TakeInternal("CallbackCall")
  /\ LET m == Head(channel)
     IN /\ calls' = [p \in Pair |->
                      IF p[1] = m.subject /\ p[2] \in Funcs(m.subject)
                           /\ Funcs(m.subject) \subseteq functions
                        THEN Append(calls[p], m.n) ELSE calls[p]]
        /\ subscriptions' = IF Subscribed(m.subject)
                              THEN [subscriptions EXCEPT ![m.subject].funcs = @ \cap functions]
                              ELSE subscriptions
  /\ UNCHANGED <<env, inbox, pc, status, config, task, sends, msgs, wanted, owed, unwritten>>

(* What PostgreSQL reports as missing when the functions of s are called:  *)
(* those that do not exist, and those that call one that does not.         *)
Undefined(s) ==
  {(Funcs(s) \ functions) \cup broken :
     broken \in IF "BodyUndefined" \in Events THEN SUBSET (Funcs(s) \cap functions) ELSE {{}}}

(* run_callbacks: every function of the subject is called; one reported    *)
(* missing is forgotten, one that fails in another way is kept, and the    *)
(* subject stays even without functions.                                   *)
HandleCallback ==
  /\ TakeInternal("CallbackCall")
  /\ LET m == Head(channel)
     IN \E missing \in Undefined(m.subject) :
          /\ calls' = [p \in Pair |->
                        IF p[1] = m.subject /\ p[2] \in Funcs(m.subject) \ missing
                          THEN Append(calls[p], m.n) ELSE calls[p]]
          /\ subscriptions' = IF Subscribed(m.subject)
                                THEN [subscriptions EXCEPT ![m.subject].funcs = @ \ missing]
                                ELSE subscriptions
  /\ UNCHANGED <<env, inbox, pc, status, config, task, sends, msgs, wanted, owed, unwritten>>

(* unsubscribe_subject *)
HandleUnsubscribeSubject ==
  /\ TakeInternal("UnsubscribeSubject")
  /\ subscriptions' = [subscriptions EXCEPT ![Head(channel).subject] = None]
  /\ task' = Aborted({Head(channel).subject})
  /\ UNCHANGED <<env, inbox, pc, status, config, sends, msgs, hist>>

ChannelEmpty ==
  /\ pc = "channel" /\ channel = <<>> /\ pc' = "latch"
  /\ UNCHANGED <<env, inbox, status, config, subscriptions, channel, task, sends, msgs, hist>>

(* The process ends, wherever it is: SIGTERM, an error or a crash.  What   *)
(* it had in memory is gone, with the commands it had not carried out.     *)
Exit ==
  /\ "Exit" \in Events /\ pc # "stopped" /\ pc' = "stopped"
  /\ subscriptions' = NoSubscriptions
  /\ task' = [i \in Task |-> FreeTask]
  /\ channel' = <<>> /\ inbox' = <<>>
  /\ wanted' = [p \in Pair |-> "any"] /\ owed' = {} /\ unwritten' = {}
  /\ UNCHANGED <<env, status, config, sends, msgs, calls>>

(***************************************************************************)
(* The tasks (spawn_subscription_task).  A task that has been aborted may  *)
(* go on to the end of the poll it is in, on another thread.               *)
(***************************************************************************)

Listen(i) ==
  /\ task[i].st = "spawned"
  /\ IF task[i].subject \in Invalid
       THEN /\ channel' = Append(channel, UnsubscribeSubject(task[i].subject))
            /\ task' = [task EXCEPT ![i] = FreeTask]
       ELSE /\ task' = [task EXCEPT ![i].st = "listening"]
            /\ UNCHANGED channel
  /\ UNCHANGED <<env, inbox, loop, sends, msgs, hist>>

Forward(i) ==
  /\ task[i].st = "listening" /\ task[i].buf # <<>>
  /\ channel' = Append(channel, CallbackCall(task[i].subject, Head(task[i].buf)))
  /\ task' = [task EXCEPT ![i].buf = Tail(@)]
  /\ UNCHANGED <<env, inbox, loop, sends, msgs, hist>>

(* The runtime drops an aborted task, and what it had received.            *)
Cancel(i) ==
  /\ task[i].st # "free" /\ task[i].aborted
  /\ task' = [task EXCEPT ![i] = FreeTask]
  /\ UNCHANGED <<env, inbox, loop, channel, sends, msgs, hist>>

(***************************************************************************)
(* Everybody else.                                                         *)
(***************************************************************************)

Send(m) ==
  /\ m.type \in Sends /\ sends < MaxSends /\ pc # "stopped"
  /\ inbox' = Append(inbox, m)
  /\ sends' = sends + 1

(* nats_subscribe and nats_unsubscribe refuse on a replica and for a       *)
(* function that does not exist.  Nothing is wanted for sure from a worker *)
(* that has not noticed its promotion: it ignores the command.             *)
SendCommand(type, s, f) ==
  /\ ~ recovery /\ f \in functions
  /\ Send(CommandMsg(type, s, f))
  /\ wanted' = [wanted EXCEPT ![<<s, f>>] =
                  IF status = "Replica" THEN "any"
                  ELSE IF type = "Subscribe" THEN "on" ELSE "off"]
  /\ owed' = IF type = "Subscribe" THEN owed
             ELSE {x \in owed : x[1] # <<s, f>>}
  /\ UNCHANGED <<env, loop, channel, task, msgs, calls, unwritten>>

SendConfig(o) ==
  /\ Send(ConfigMsg(o))
  /\ UNCHANGED <<env, loop, channel, task, msgs, hist>>

(* An unsubscribe command of the pair is under way. *)
Leaving(s, f) ==
  \/ \E k \in DOMAIN inbox : inbox[k] = CommandMsg("Unsubscribe", s, f)
  \/ \E k \in DOMAIN channel : channel[k] = UnsubscribeMsg(s, f)

(* A message on a subject reaches every task that listens to it.           *)
Publish(s) ==
  /\ msgs < MaxMsgs
  /\ msgs' = msgs + 1
  /\ task' = [i \in Task |->
               IF task[i].st = "listening" /\ task[i].subject = s
                 THEN [task[i] EXCEPT !.buf = Append(@, msgs + 1)] ELSE task[i]]
  /\ owed' = IF Subscribed(s) /\ task[Handler(s)].st = "listening"
               THEN owed \cup {<<<<s, f>>, msgs + 1>> :
                                 f \in {g \in Funcs(s) \cap functions : ~ Leaving(s, g)}}
               ELSE owed
  /\ UNCHANGED <<env, inbox, loop, channel, sends, wanted, calls, unwritten>>

(* The event trigger on DROP FUNCTION deletes the rows of the function.    *)
DropFunction(f) ==
  /\ "DropFunction" \in Events /\ f \in functions
  /\ functions' = functions \ {f}
  /\ table' = {p \in table : p[2] # f}
  /\ wanted' = [p \in Pair |-> IF p[2] = f THEN "any" ELSE wanted[p]]
  /\ owed' = {x \in owed : x[1][2] # f}
  /\ UNCHANGED <<recovery, announced, inbox, loop, channel, task, sends, msgs, calls,
                 unwritten>>

CreateFunction(f) ==
  /\ "CreateFunction" \in Events /\ f \notin functions
  /\ functions' = functions \cup {f}
  /\ UNCHANGED <<recovery, table, announced, inbox, loop, channel, task, sends, msgs, hist>>

(* Promotion.  The way back exists only for the tests, which make the      *)
(* worker believe in it with ChangeStatus.                                 *)
ChangeRole ==
  /\ IF recovery THEN "Replica" \in Events ELSE "Demote" \in Events
  /\ recovery' = ~ recovery
  /\ wanted' = [p \in Pair |-> IF recovery THEN wanted[p] ELSE "any"]
  /\ owed' = IF recovery THEN owed ELSE {}
  /\ UNCHANGED <<table, functions, announced, inbox, loop, channel, task, sends, msgs, calls,
                 unwritten>>

WorkerStep ==
  \/ CheckMigration \/ ApplyConfig \/ QueueCommand \/ QueueEmpty
  \/ IgnoreOnReplica \/ HandleSubscribe \/ HandleUnsubscribe \/ HandleCallback
  \/ HandleUnsubscribeSubject \/ ChannelEmpty

TaskStep(i) == Listen(i) \/ Forward(i) \/ Cancel(i)

Environment ==
  \/ \E s \in Subject, f \in Fn :
       SendCommand("Subscribe", s, f) \/ SendCommand("Unsubscribe", s, f)
  \/ \E o \in Opt : SendConfig(o)
  \/ \E s \in Subject : Publish(s)
  \/ \E f \in Fn : DropFunction(f) \/ CreateFunction(f)
  \/ ChangeRole \/ Exit

Next == Start \/ WorkerStep \/ (\E i \in Task : TaskStep(i)) \/ Environment

Spec == Init /\ [][Next]_vars

(***************************************************************************)
(* Fairness: the loop wakes up every second, and the runtime polls every   *)
(* task that can go on.  Nobody has to start a worker that has ended.      *)
(***************************************************************************)
FairSpec ==
  Spec /\ WF_vars(WorkerStep) /\ \A i \in Task : WF_vars(TaskStep(i))

-----------------------------------------------------------------------------

TaskState ==
  [st : {"free", "spawned", "listening"}, subject : Subject \cup {None},
   opt : Opt \cup {None}, aborted : BOOLEAN, buf : Seq(1 .. MaxMsgs)]

TypeOK ==
  /\ recovery \in BOOLEAN /\ table \subseteq Pair /\ functions \subseteq Fn
  /\ inbox \in Seq(SubscriberMessage)
  /\ pc \in {"stopped", "latch", "queue", "channel"}
  /\ status \in {"Master", "Replica"} /\ config \in Opt
  /\ subscriptions \in [Subject -> Entry \cup {None}]
  /\ channel \in Seq(InternalMessage)
  /\ task \in [Task -> TaskState]
  /\ \A i \in Task : task[i] = FreeTask \/ (task[i].st # "free" /\ task[i].subject \in Subject)
  /\ sends \in 0 .. MaxSends /\ msgs \in 0 .. MaxMsgs
  /\ wanted \in [Pair -> {"on", "off", "any"}]
  /\ owed \subseteq Pair \X (1 .. MaxMsgs)
  /\ calls \in [Pair -> Seq(1 .. MaxMsgs)]
  /\ announced \in {"Master", "Replica", None} /\ unwritten \subseteq Pair

InChannel(m) == \E k \in DOMAIN channel : channel[k] = m

(* Every subscribed subject has a task of its own that listens, or will,   *)
(* over the connection of the current configuration, unless the task has   *)
(* reported that it could not.                                             *)
EntryHasTask ==
  \A s \in Subject : Subscribed(s) =>
    \/ /\ task[Handler(s)].st # "free" /\ ~ task[Handler(s)].aborted
       /\ task[Handler(s)].subject = s /\ task[Handler(s)].opt = config
    \/ task[Handler(s)].st = "free" /\ InChannel(UnsubscribeSubject(s))

(* A task that nobody has aborted belongs to an entry: none is left behind *)
(* to call functions of a subject after it was unsubscribed.               *)
NoStrayTask ==
  \A i \in Task : task[i].st # "free" /\ ~ task[i].aborted =>
    \E s \in Subject : Subscribed(s) /\ Handler(s) = i

(* A worker that knows it is on a replica listens to nothing. *)
SilentOnReplica ==
  status = "Replica" => subscriptions = NoSubscriptions

(* A function that exists is called only for a subscription that is in     *)
(* the table, across promotions, restarts and dropped functions, unless    *)
(* the table could not be written.                                         *)
MemoryBacked ==
  \A s \in Subject : \A f \in Funcs(s) :
    <<s, f>> \in table \/ f \notin functions \/ <<s, f>> \in unwritten

(* The messages of q that are in S, in their order: SelectSeq, as a        *)
(* recursive function, which the proofs can follow.                        *)
Only(q, S) ==
  LET f[n \in 0 .. Len(q)] ==
        IF n = 0 THEN <<>>
        ELSE IF q[n] \in S THEN Append(f[n - 1], q[n]) ELSE f[n - 1]
  IN  f[Len(q)]

(* A command in the channel or in the inbox.                               *)
CommandMessage ==
  {SubscribeMsg(TRUE, s, f) : s \in Subject, f \in Fn}
  \cup {CommandMsg(t, s, f) : t \in {"Subscribe", "Unsubscribe"}, s \in Subject, f \in Fn}

(* The commands among the messages of q. *)
Asked(q) ==
  LET c == Only(q, CommandMessage)
  IN  [k \in DOMAIN c |-> CommandMsg(c[k].type, c[k].subject, c[k].fn)]

Pending == Asked(channel) \o Asked(inbox)
Restoring == {p \in Pair : InChannel(SubscribeMsg(FALSE, p[1], p[2]))}
Serving == {p \in Pair : p[2] \in Funcs(p[1])}

(* The subscriber implements SubscriptionCommands: from acceptance by the  *)
(* bus, through the queue, the inbox and the channel, the commands keep    *)
(* their order, none is carried out twice or passed over while the worker  *)
(* lives, and nothing else changes the table or what is served.            *)
Commands ==
  INSTANCE SubscriptionCommands WITH
    up <- pc # "stopped",
    master <- status = "Master",
    pending <- Pending,
    restoring <- Restoring,
    serving <- Serving

CommandsSpec == Commands!Spec

(* Nothing waits to be handled. *)
Quiet == pc = "latch" /\ inbox = <<>> /\ channel = <<>>

(* When the worker has handled what it was sent, the table holds what the  *)
(* last command for each pair asked for, unless it could not be written,   *)
(* or the command came between a promotion and the next look of the worker *)
(* at its role.                                                            *)
CommandsApplied ==
  Quiet => \A p \in Pair \ unwritten : /\ wanted[p] = "on" => p \in table
                                       /\ wanted[p] = "off" => p \notin table

(* The worker itself has then done what the last commands asked for,       *)
(* whether the table could be written or not.                              *)
MemoryFollows ==
  Quiet /\ status = "Master" =>
    \A p \in Pair : /\ wanted[p] = "on" => p[2] \in Funcs(p[1]) \/ p[1] \in Invalid
                    /\ wanted[p] = "off" => p[2] \notin Funcs(p[1])

(* A function sees the messages of a subject in the order in which they    *)
(* were published, each at most once.                                      *)
CalledInOrder ==
  \A p \in Pair : \A j, k \in DOMAIN calls[p] : j < k => calls[p][j] < calls[p][k]

Called(x) == \E k \in DOMAIN calls[x[1]] : calls[x[1]][k] = x[2]

(* A message that a listening subscription has received is processed by    *)
(* the functions it was received for ("Messages are processed exactly      *)
(* once").                                                                 *)
HeardIsProcessed ==
  \A p \in Pair : \A n \in 1 .. MaxMsgs : <<p, n>> \in owed ~> (<<p, n>> \in owed => Called(<<p, n>>))

(* The loop comes back to its latch, where it sees SIGTERM, a promotion    *)
(* and what the launcher has sent meanwhile.                               *)
LoopReturns == pc = "channel" ~> pc # "channel"

(* When the role of the instance no longer changes and the worker runs,    *)
(* the last notification on NATS tells that role, restarts and promotions  *)
(* in quick succession included.                                           *)
LastAnnouncementTrue ==
  \A r \in BOOLEAN :
    <>[](recovery = r /\ pc # "stopped")
      => <>[](announced = IF r THEN "Replica" ELSE "Master")

(* On a master, a subscription in the table is made in the worker, after   *)
(* a restart and after a promotion too.                                    *)
StoredIsSubscribed ==
  \A p \in Pair :
    (<>[](p \in table /\ p[2] \in functions /\ ~ recovery /\ pc # "stopped")
       /\ p[1] \notin Invalid)
      => <>[](p[2] \in Funcs(p[1]))
=============================================================================
