------------------------------ MODULE Launcher ------------------------------
(***************************************************************************)
(* The supervision of the subscriber workers: the launcher process         *)
(* (src/bgw/launcher), the life of each subscriber process as the launcher *)
(* sees it (src/bgw/subscriber/mod.rs), the backends that send it messages *)
(* (the FDW validator and nats_subscribe / nats_unsubscribe), and the bus  *)
(* and shm_mq queues between them.                                         *)
(*                                                                         *)
(* The bus is the FIFO queue that RingQueue implements, bounded by a       *)
(* number of messages instead of bytes.  A message carries the OID of a    *)
(* database and nothing that tells one worker of the database from the     *)
(* next one.  The launcher keeps the bus lock from its first receive to    *)
(* the one that finds the bus empty, its blocking sends to subscribers     *)
(* included; everybody else takes the lock around one try_send.            *)
(*                                                                         *)
(* Operators Mut<X> are wrong versions of X used to show that a property   *)
(* can fail; no specification of this project uses them.                   *)
(***************************************************************************)
EXTENDS Integers, Sequences, FiniteSets

CONSTANTS
  Db,        (* Databases that accept connections.                         *)
  Worker,    (* Background worker slots for subscribers: max_worker_processes. *)
  NoWorker,  (* An absent entry of a map of the launcher.                  *)
  Backend,   (* Client backends.                                           *)
  MaxBus,    (* Messages the bus can hold.                                 *)
  MaxTries,  (* Tries of a send with retry; 5 in the code.                 *)
  MaxCmds,   (* Bound: configurations and commands the backends send.      *)
  Faults,    (* The faults that may happen, a subset of FaultKind.         *)
  Changes    (* What DDL may do to a catalog: a subset of ChangeKind.      *)

FaultKind == {"Sigterm", "LauncherCrash", "ConnectFails", "WorkerCrash"}
ExtensionStatus == {"Exist", "NoExtension", "NoForeignServer"}
ChangeKind == {"NoExtension", "NoForeignServer", "Abort"}

ASSUME LauncherAssumption ==
  /\ NoWorker \notin Worker
  /\ Db # {}
  /\ MaxBus \in Nat \ {0}
  /\ MaxTries \in Nat \ {0}
  /\ MaxCmds \in Nat
  /\ Faults \subseteq FaultKind
  /\ Changes \subseteq ChangeKind

VARIABLES
  catalog,     (* Committed state of the extension in each database.       *)
  bus,         (* LAUNCHER_MESSAGE_BUS.                                    *)
  lpc,         (* Where the launcher is.                                   *)
  lterm,       (* The launcher has received SIGTERM.                       *)
  toStart,     (* Databases add_subscribe_workers has still to visit.      *)
  pending_workers, workers, terminated_workers,  (* LauncherContext.       *)
  sending,     (* The message and receiver of a blocking shm_mq send.      *)
  proc,        (* Where each subscriber process is.                        *)
  dbOf,        (* The database a worker was started for.                   *)
  status,      (* What check_extension_status told it at its start.        *)
  term,        (* SIGTERM has been requested for it.                       *)
  attached,    (* It has attached to its shm_mq as the receiver.           *)
  mq,          (* Message in its shm_mq, accepted and not read yet.        *)
  bpc, req, tries,   (* Where each backend is, its message and its tries.  *)
  seq,         (* Numbers given to configurations and commands.            *)
  received     (* History: numbers delivered to workers of each database.  *)

ctx   == <<pending_workers, workers, terminated_workers>>
lvars == <<lpc, lterm, toStart, sending>>
wvars == <<proc, dbOf, status, term, attached, mq>>
bvars == <<bpc, req, tries, seq>>
vars  == <<catalog, bus, lvars, ctx, wvars, bvars, received>>

(* The status of a DbExtensionStatus message is folded into its type.      *)
MessageType ==
  ExtensionStatus \cup {"NewConfig", "Command", "SubscriberExit",
                        "ForeignServerDropped"}
Message == [type : MessageType, db : Db, n : Nat]
NoMessage == [type |-> "None"]

Msg(type, d, n) == [type |-> type, db |-> d, n |-> n]

LauncherState == {"boot", "wait", "reap", "drain", "send", "final",
                  "stopped", "down"}
ProcState == {"none", "launched", "checked", "connecting", "attached", "serving",
              "exiting"}
BackendState == {"idle", "trying", "committing"}

Absent == [d \in Db |-> NoWorker]

Init ==
  /\ catalog \in [Db -> ExtensionStatus]
  /\ bus = <<>>
  /\ lpc = "boot" /\ lterm = FALSE /\ toStart = Db /\ sending = NoMessage
  /\ pending_workers = Absent /\ workers = Absent /\ terminated_workers = Absent
  /\ proc = [w \in Worker |-> "none"]
  /\ \E d \in Db : dbOf = [w \in Worker |-> d]
  /\ status = [w \in Worker |-> "NoExtension"]
  /\ term = [w \in Worker |-> FALSE]
  /\ attached = [w \in Worker |-> FALSE]
  /\ mq = [w \in Worker |-> NoMessage]
  /\ bpc = [b \in Backend |-> "idle"]
  /\ req = [b \in Backend |-> NoMessage]
  /\ tries = [b \in Backend |-> 0]
  /\ seq = 0
  /\ received = [d \in Db |-> <<>>]

(***************************************************************************)
(* The bus.                                                                *)
(***************************************************************************)

(* Nobody holds the exclusive lock over several steps except the launcher  *)
(* while it drains.                                                        *)
BusFree == lpc \notin {"drain", "send"}

BusFits == Len(bus) < MaxBus

MutPost(m) == bus' = Append(bus, m)

(* try_send under the lock; a message that does not fit is refused.        *)
Post(m) == bus' = IF BusFits THEN Append(bus, m) ELSE bus

(***************************************************************************)
(* LauncherContext and WorkerEntry.                                        *)
(***************************************************************************)

Alive(w) == proc[w] # "none"

MutHeld(w) == \E d \in Db : w \in {workers[d], terminated_workers[d]}

(* Entries of the launcher: it holds the DSM segment of exactly these.     *)
Held(w) == \E d \in Db : w \in {pending_workers[d], workers[d], terminated_workers[d]}

(* The entry that shutdown_worker removes: workers first, then pending.    *)
Entry(d) == IF workers[d] # NoWorker THEN workers[d] ELSE pending_workers[d]

FreeSlot(w) == proc[w] = "none" /\ ~ Held(w)

(* start_subscribe_worker: a new worker becomes the pending one.  When no  *)
(* slot is left, load_dynamic fails and nothing changes.                   *)
StartWorker(d) ==
  \/ \E w \in Worker :
       /\ FreeSlot(w)
       /\ proc' = [proc EXCEPT ![w] = "launched"]
       /\ dbOf' = [dbOf EXCEPT ![w] = d]
       /\ attached' = [attached EXCEPT ![w] = FALSE]
       /\ pending_workers' = [pending_workers EXCEPT ![d] = w]
       /\ UNCHANGED <<workers, terminated_workers, status, term, mq>>
  \/ /\ \A w \in Worker : ~ FreeSlot(w)
     /\ UNCHANGED <<ctx, wvars>>

MutRegisterWorker(d) ==
  /\ IF pending_workers[d] # NoWorker
       THEN workers' = [workers EXCEPT ![d] = pending_workers[d]]
       ELSE UNCHANGED workers
  /\ UNCHANGED <<pending_workers, terminated_workers, wvars>>

(* register_worker *)
RegisterWorker(d) ==
  /\ IF pending_workers[d] # NoWorker
       THEN /\ workers' = [workers EXCEPT ![d] = pending_workers[d]]
            /\ pending_workers' = [pending_workers EXCEPT ![d] = NoWorker]
       ELSE UNCHANGED <<workers, pending_workers>>
  /\ UNCHANGED <<terminated_workers, wvars>>

MutShutdownWorker(d) ==
  IF Entry(d) # NoWorker
    THEN /\ terminated_workers' = [terminated_workers EXCEPT ![d] = Entry(d)]
         /\ workers' = [workers EXCEPT ![d] = NoWorker]
         /\ pending_workers' = IF workers[d] # NoWorker THEN pending_workers
                               ELSE [pending_workers EXCEPT ![d] = NoWorker]
         /\ UNCHANGED wvars
    ELSE UNCHANGED <<ctx, wvars>>

(* shutdown_worker: SIGTERM, and the entry moves to terminated_workers,    *)
(* replacing one that may still be there.                                  *)
ShutdownWorker(d) ==
  IF Entry(d) # NoWorker
    THEN /\ term' = [term EXCEPT ![Entry(d)] = Alive(Entry(d))]
         /\ terminated_workers' = [terminated_workers EXCEPT ![d] = Entry(d)]
         /\ workers' = [workers EXCEPT ![d] = NoWorker]
         /\ pending_workers' = IF workers[d] # NoWorker THEN pending_workers
                               ELSE [pending_workers EXCEPT ![d] = NoWorker]
         /\ UNCHANGED <<proc, dbOf, status, attached, mq>>
    ELSE UNCHANGED <<ctx, wvars>>

(***************************************************************************)
(* The launcher process.                                                   *)
(***************************************************************************)

(* add_subscribe_workers, one database.                                    *)
Boot(d) ==
  /\ lpc = "boot" /\ d \in toStart
  /\ toStart' = toStart \ {d}
  /\ StartWorker(d)
  /\ UNCHANGED <<catalog, bus, lpc, lterm, sending, bvars, received>>

MutWake ==
  /\ \/ lpc = "boot" /\ toStart = {}
     \/ lpc = "wait"
  /\ IF lterm
       THEN /\ lpc' = "final"
            /\ terminated_workers' =
                 [d \in Db |-> IF pending_workers[d] # NoWorker THEN pending_workers[d]
                               ELSE IF workers[d] # NoWorker THEN workers[d]
                               ELSE terminated_workers[d]]
            /\ workers' = Absent /\ pending_workers' = Absent
       ELSE lpc' = "reap" /\ UNCHANGED ctx
  /\ UNCHANGED <<catalog, bus, lterm, toStart, sending, wvars, bvars, received>>

(* wait_latch, at the head of the loop: process_terminated_workers next,   *)
(* or shutdown_all_workers once SIGTERM has arrived.                       *)
Wake ==
  /\ \/ lpc = "boot" /\ toStart = {}
     \/ lpc = "wait"
  /\ IF lterm
       THEN /\ lpc' = "final"
            /\ term' = [w \in Worker |->
                         \/ term[w]
                         \/ Alive(w) /\ \E d \in Db : w \in {workers[d], pending_workers[d]}]
            /\ terminated_workers' =
                 [d \in Db |-> IF pending_workers[d] # NoWorker THEN pending_workers[d]
                               ELSE IF workers[d] # NoWorker THEN workers[d]
                               ELSE terminated_workers[d]]
            /\ workers' = Absent /\ pending_workers' = Absent
       ELSE lpc' = "reap" /\ UNCHANGED <<ctx, term>>
  /\ UNCHANGED <<catalog, bus, lterm, toStart, sending, proc, dbOf, status, attached,
                 mq, bvars, received>>

(* process_terminated_workers: wait_for_shutdown of one entry.             *)
Reap(d) ==
  /\ lpc \in {"reap", "final"}
  /\ terminated_workers[d] # NoWorker
  /\ proc[terminated_workers[d]] = "none"
  /\ terminated_workers' = [terminated_workers EXCEPT ![d] = NoWorker]
  /\ UNCHANGED <<catalog, bus, lvars, pending_workers, workers, wvars, bvars, received>>

(* All entries are gone: take the bus lock and drain, or stop.             *)
Reaped ==
  /\ lpc \in {"reap", "final"} /\ terminated_workers = Absent
  /\ lpc' = IF lpc = "reap" THEN "drain" ELSE "stopped"
  /\ UNCHANGED <<catalog, bus, lterm, toStart, sending, ctx, wvars, bvars, received>>

MutDrained ==
  /\ lpc = "drain" /\ bus = <<>>
  /\ UNCHANGED <<catalog, bus, lvars, ctx, wvars, bvars, received>>

(* try_recv found the bus empty: the lock is released.                     *)
Drained ==
  /\ lpc = "drain" /\ bus = <<>>
  /\ lpc' = "wait"
  /\ UNCHANGED <<catalog, bus, lterm, toStart, sending, ctx, wvars, bvars, received>>

(* try_recv returned a message of one of these types. *)
Take(types) ==
  /\ lpc = "drain" /\ bus # <<>> /\ Head(bus).type \in types
  /\ bus' = Tail(bus)

HandleExist ==
  /\ Take({"Exist"})
  /\ RegisterWorker(Head(bus).db)
  /\ UNCHANGED <<catalog, lvars, bvars, received>>

(* DbExtensionStatus with a part missing, SubscriberExit and               *)
(* ForeignServerDropped, which nobody sends.                               *)
HandleShutdown ==
  /\ Take({"NoExtension", "NoForeignServer", "SubscriberExit", "ForeignServerDropped"})
  /\ ShutdownWorker(Head(bus).db)
  /\ UNCHANGED <<catalog, lvars, bvars, received>>

(* A message for a registered worker: a blocking send begins.              *)
HandleForward ==
  /\ Take({"NewConfig", "Command"})
  /\ workers[Head(bus).db] # NoWorker
  /\ lpc' = "send" /\ sending' = Head(bus)
  /\ UNCHANGED <<catalog, lterm, toStart, ctx, wvars, bvars, received>>

MutHandleNewConfigStart ==
  /\ Take({"NewConfig"})
  /\ workers[Head(bus).db] = NoWorker
  /\ StartWorker(Head(bus).db)
  /\ UNCHANGED <<catalog, lvars, bvars, received>>

(* A configuration for a database without a worker starts one. *)
HandleNewConfigStart ==
  /\ Take({"NewConfig"})
  /\ workers[Head(bus).db] = NoWorker /\ pending_workers[Head(bus).db] = NoWorker
  /\ StartWorker(Head(bus).db)
  /\ UNCHANGED <<catalog, lvars, bvars, received>>

(* A configuration for a pending worker, or a command for a database       *)
(* without a registered one, is dropped.                                   *)
HandleDropped ==
  /\ \/ Take({"NewConfig"}) /\ pending_workers[Head(bus).db] # NoWorker
     \/ Take({"Command"})
  /\ workers[Head(bus).db] = NoWorker
  /\ UNCHANGED <<catalog, lvars, ctx, wvars, bvars, received>>

Handle == HandleExist \/ HandleShutdown \/ HandleForward \/ HandleNewConfigStart
            \/ HandleDropped

MutReceiver == CHOOSE w \in Worker : \E d \in Db : workers[d] = w

(* The receiver of the send in progress. *)
Receiver == workers[sending.db]

MutSendDone ==
  /\ lpc = "send"
  /\ attached[Receiver]
  /\ lpc' = "drain" /\ sending' = NoMessage
  /\ UNCHANGED <<catalog, bus, lterm, toStart, ctx, wvars, bvars, received>>

(* The ring of the shm_mq has the minimum size, so a send ends only when   *)
(* the receiver has attached and read what came before...                  *)
SendDone ==
  /\ lpc = "send"
  /\ attached[Receiver] /\ proc[Receiver] = "serving" /\ mq[Receiver] = NoMessage
  /\ mq' = [mq EXCEPT ![Receiver] = sending]
  /\ lpc' = "drain" /\ sending' = NoMessage
  /\ UNCHANGED <<catalog, bus, lterm, toStart, ctx, proc, dbOf, status, term, attached,
                 bvars, received>>

(* ...or fails because the receiver had attached and has detached since.   *)
(* A receiver that dies before it attaches is not noticed.                 *)
SendDetached ==
  /\ lpc = "send"
  /\ attached[Receiver] /\ proc[Receiver] \notin {"attached", "serving"}
  /\ lpc' = "drain" /\ sending' = NoMessage
  /\ UNCHANGED <<catalog, bus, lterm, toStart, ctx, wvars, bvars, received>>

(* SIGTERM to the launcher: the flag that wait_latch tests. *)
Sigterm ==
  /\ "Sigterm" \in Faults /\ lpc \notin {"stopped", "down"} /\ ~ lterm
  /\ lterm' = TRUE
  /\ UNCHANGED <<catalog, bus, lpc, toStart, sending, ctx, wvars, bvars, received>>

(* The launcher ends with an error (a panic is turned into one): its maps  *)
(* and DSM segments go, the bus in shared memory and the workers stay.     *)
LauncherCrash ==
  /\ "LauncherCrash" \in Faults /\ lpc \notin {"stopped", "down"}
  /\ lpc' = "down" /\ lterm' = FALSE /\ toStart' = {} /\ sending' = NoMessage
  /\ pending_workers' = Absent /\ workers' = Absent /\ terminated_workers' = Absent
  /\ UNCHANGED <<catalog, bus, wvars, bvars, received>>

(* The postmaster starts it again after restart_time. *)
LauncherRestart ==
  /\ lpc = "down"
  /\ lpc' = "boot" /\ toStart' = Db
  /\ UNCHANGED <<catalog, bus, lterm, sending, ctx, wvars, bvars, received>>

(***************************************************************************)
(* The subscriber process w.                                               *)
(***************************************************************************)

Moves(w, from, to) == proc[w] = from /\ proc' = [proc EXCEPT ![w] = to]

(* The process ends; what it had attached is detached, and a pending       *)
(* SIGTERM is gone with it.  A launcher that still holds the segment sees  *)
(* in it whether the worker had ever attached.                             *)
Ends(w) ==
  /\ proc' = [proc EXCEPT ![w] = "none"]
  /\ term' = [term EXCEPT ![w] = FALSE]
  /\ attached' = [attached EXCEPT ![w] = @ /\ Held(w)]
  /\ mq' = [mq EXCEPT ![w] = NoMessage]

(* SIGTERM before the process runs, or before it has attached its signal   *)
(* handlers, ends it without a word.                                       *)
NeverStarts(w) ==
  /\ term[w] /\ proc[w] = "launched"
  /\ Ends(w)
  /\ UNCHANGED <<catalog, bus, lvars, ctx, dbOf, status, bvars, received>>

(* check_extension_status, before the message that reports it. *)
CheckStatus(w) ==
  /\ Moves(w, "launched", "checked")
  /\ status' = [status EXCEPT ![w] = catalog[dbOf[w]]]
  /\ UNCHANGED <<catalog, bus, lvars, ctx, dbOf, term, attached, mq, bvars, received>>

(* DbExtensionStatus is sent once, without retry; the worker goes on only  *)
(* if it was accepted and the extension is complete.                       *)
SendStatus(w) ==
  /\ BusFree
  /\ Moves(w, "checked",
           IF BusFits /\ status[w] = "Exist" THEN "connecting" ELSE "exiting")
  /\ Post(Msg(status[w], dbOf[w], 0))
  /\ status' = [status EXCEPT ![w] = "NoExtension"]
  /\ UNCHANGED <<catalog, lvars, ctx, dbOf, term, attached, mq, bvars, received>>

(* NATS is reached and the DSM segment, if the launcher still has it, is   *)
(* attached; SIGTERM is not looked at before the main loop.                *)
Connect(w) ==
  /\ Moves(w, "connecting", IF Held(w) THEN "attached" ELSE "exiting")
  /\ attached' = [attached EXCEPT ![w] = Held(w)]
  /\ UNCHANGED <<catalog, bus, lvars, ctx, dbOf, status, term, mq, bvars, received>>

(* NatsConnectionState::new fails: NATS is down. *)
ConnectFails(w) ==
  /\ "ConnectFails" \in Faults /\ Moves(w, "connecting", "exiting")
  /\ UNCHANGED <<catalog, bus, lvars, ctx, dbOf, status, term, attached, mq, bvars, received>>

(* The first wait_latch of the main loop; from here on the restored        *)
(* subscriptions are made.                                                 *)
EnterLoop(w) ==
  /\ ~ term[w] /\ Moves(w, "attached", "serving")
  /\ UNCHANGED <<catalog, bus, lvars, ctx, dbOf, status, term, attached, mq, bvars, received>>

MutReceive(w) ==
  /\ proc[w] = "serving" /\ mq[w] # NoMessage
  /\ received' = [received EXCEPT ![dbOf[w]] = Append(@, mq[w].n)]
  /\ UNCHANGED <<catalog, bus, lvars, ctx, wvars, bvars>>

(* The main loop takes a message of the launcher. *)
Receive(w) ==
  /\ proc[w] = "serving" /\ mq[w] # NoMessage
  /\ mq' = [mq EXCEPT ![w] = NoMessage]
  /\ received' = [received EXCEPT ![dbOf[w]] = Append(@, mq[w].n)]
  /\ UNCHANGED <<catalog, bus, lvars, ctx, proc, dbOf, status, term, attached, bvars>>

MutLeaveLoop(w) ==
  /\ \/ term[w] /\ proc[w] \in {"attached", "serving"}
     \/ proc[w] = "serving" /\ catalog[dbOf[w]] # "Exist"
  /\ proc' = [proc EXCEPT ![w] = "exiting"]
  /\ mq' = [mq EXCEPT ![w] = NoMessage]
  /\ UNCHANGED <<catalog, bus, lvars, ctx, dbOf, status, term, attached, bvars, received>>

(* The main loop ends: SIGTERM, extension or server gone, or queue         *)
(* detached by the launcher.  Returning detaches the shm_mq first.         *)
LeaveLoop(w) ==
  /\ \/ term[w] /\ proc[w] \in {"attached", "serving"}
     \/ proc[w] = "serving"
        /\ \/ catalog[dbOf[w]] # "Exist"
           \/ ~ Held(w) /\ mq[w] = NoMessage
  /\ proc' = [proc EXCEPT ![w] = "exiting"]
  /\ mq' = [mq EXCEPT ![w] = NoMessage]
  /\ UNCHANGED <<catalog, bus, lvars, ctx, dbOf, status, term, attached, bvars, received>>

(* SubscriberExit is sent once, without retry, and the process ends. *)
Exit(w) ==
  /\ BusFree /\ proc[w] = "exiting"
  /\ Ends(w)
  /\ Post(Msg("SubscriberExit", dbOf[w], 0))
  /\ UNCHANGED <<catalog, lvars, ctx, dbOf, status, bvars, received>>

(* The process ends with a panic or an error: no SubscriberExit. *)
WorkerCrash(w) ==
  /\ "WorkerCrash" \in Faults /\ Alive(w)
  /\ Ends(w)
  /\ status' = [status EXCEPT ![w] = "NoExtension"]
  /\ UNCHANGED <<catalog, bus, lvars, ctx, dbOf, bvars, received>>

(***************************************************************************)
(* The backends.                                                           *)
(***************************************************************************)

(* CREATE SERVER or ALTER SERVER calls the validator, nats_subscribe and   *)
(* nats_unsubscribe are called: a send with retry begins.                  *)
Call(b, type, d) ==
  /\ bpc[b] = "idle" /\ seq < MaxCmds /\ catalog[d] # "NoExtension"
  /\ bpc' = [bpc EXCEPT ![b] = "trying"]
  /\ req' = [req EXCEPT ![b] = Msg(type, d, 0)]
  /\ tries' = [tries EXCEPT ![b] = 0]
  /\ UNCHANGED <<catalog, bus, lvars, ctx, wvars, seq, received>>

(* One try under the lock.  The validator runs inside the transaction of   *)
(* its DDL statement, which commits or aborts later.                       *)
Try(b) ==
  /\ bpc[b] = "trying" /\ tries[b] < MaxTries /\ BusFree
  /\ IF BusFits
       THEN /\ seq' = seq + 1
            /\ bpc' = [bpc EXCEPT ![b] = IF req[b].type = "NewConfig"
                                          THEN "committing" ELSE "idle"]
            /\ Post(Msg(req[b].type, req[b].db, seq + 1))
            /\ tries' = [tries EXCEPT ![b] = 0]
       ELSE /\ tries' = [tries EXCEPT ![b] = @ + 1]
            /\ UNCHANGED <<bus, bpc, seq>>
  /\ UNCHANGED <<catalog, lvars, ctx, wvars, req, received>>

(* Every try was refused: the call fails, and with it the DDL statement.   *)
GiveUp(b) ==
  /\ bpc[b] = "trying" /\ tries[b] = MaxTries
  /\ bpc' = [bpc EXCEPT ![b] = "idle"]
  /\ tries' = [tries EXCEPT ![b] = 0]
  /\ UNCHANGED <<catalog, bus, lvars, ctx, wvars, req, seq, received>>

Commit(b) ==
  /\ bpc[b] = "committing" /\ catalog[req[b].db] # "NoExtension"
  /\ catalog' = [catalog EXCEPT ![req[b].db] = "Exist"]
  /\ bpc' = [bpc EXCEPT ![b] = "idle"]
  /\ UNCHANGED <<bus, lvars, ctx, wvars, req, tries, seq, received>>

Abort(b) ==
  /\ "Abort" \in Changes /\ bpc[b] = "committing"
  /\ bpc' = [bpc EXCEPT ![b] = "idle"]
  /\ UNCHANGED <<catalog, bus, lvars, ctx, wvars, req, tries, seq, received>>

(* DROP SERVER, DROP EXTENSION and CREATE EXTENSION send nothing. *)
ChangeCatalog(d, to) ==
  /\ catalog[d] # to
  /\ catalog' = [catalog EXCEPT ![d] = to]
  /\ UNCHANGED <<bus, lvars, ctx, wvars, bvars, received>>

(***************************************************************************)
(* The system: what the processes do, what users do to the catalog, what   *)
(* goes wrong.                                                             *)
(***************************************************************************)

LauncherStep ==
  \/ \E d \in Db : Boot(d) \/ Reap(d)
  \/ Wake \/ Reaped \/ Drained \/ Handle \/ SendDone \/ SendDetached
  \/ LauncherRestart

WorkerStep(w) ==
  \/ NeverStarts(w) \/ CheckStatus(w) \/ SendStatus(w) \/ Connect(w)
  \/ EnterLoop(w) \/ Receive(w) \/ LeaveLoop(w) \/ Exit(w)

BackendStep(b) == Try(b) \/ GiveUp(b) \/ Commit(b)

Calls == \E b \in Backend, d \in Db : \E type \in {"NewConfig", "Command"} : Call(b, type, d)

CatalogStep ==
  \/ \E b \in Backend : Abort(b)
  \/ \E d \in Db : \E to \in Changes \cap ExtensionStatus : ChangeCatalog(d, to)

Fault ==
  \/ Sigterm \/ LauncherCrash
  \/ \E w \in Worker : ConnectFails(w) \/ WorkerCrash(w)

SystemStep ==
  LauncherStep \/ (\E w \in Worker : WorkerStep(w)) \/ (\E b \in Backend : BackendStep(b))

Next == SystemStep \/ Calls \/ CatalogStep \/ Fault

Spec == Init /\ [][Next]_vars

(***************************************************************************)
(* Fairness.  The launcher polls its bus every second and the postmaster   *)
(* restarts it; waiters on the bus lock are woken in order, so who asks    *)
(* for it again and again gets it (strong fairness); transactions end.     *)
(* Nothing is assumed of users or of faults.                               *)
(***************************************************************************)
Fairness ==
  /\ WF_vars(LauncherStep)
  /\ \A w \in Worker : SF_vars(WorkerStep(w))
  /\ \A b \in Backend : SF_vars(BackendStep(b))

FairSpec == Spec /\ Fairness

(* The extension and its server exist in every database from the start.    *)
InitInstalled == Init /\ \A d \in Db : catalog[d] = "Exist"
FairSpecInstalled == InitInstalled /\ [][Next]_vars /\ Fairness

-----------------------------------------------------------------------------

TypeOK ==
  /\ catalog \in [Db -> ExtensionStatus]
  /\ bus \in Seq(Message) /\ Len(bus) <= MaxBus
  /\ lpc \in LauncherState /\ lterm \in BOOLEAN /\ toStart \subseteq Db
  /\ sending \in Message \cup {NoMessage}
  /\ pending_workers \in [Db -> Worker \cup {NoWorker}]
  /\ workers \in [Db -> Worker \cup {NoWorker}]
  /\ terminated_workers \in [Db -> Worker \cup {NoWorker}]
  /\ proc \in [Worker -> ProcState] /\ dbOf \in [Worker -> Db]
  /\ status \in [Worker -> ExtensionStatus]
  /\ term \in [Worker -> BOOLEAN] /\ attached \in [Worker -> BOOLEAN]
  /\ mq \in [Worker -> Message \cup {NoMessage}]
  /\ bpc \in [Backend -> BackendState]
  /\ req \in [Backend -> Message \cup {NoMessage}]
  /\ \A b \in Backend : bpc[b] # "idle" => req[b] \in Message
  /\ tries \in [Backend -> 0 .. MaxTries]
  /\ seq \in Nat
  /\ received \in [Db -> Seq(Nat)]

(* A database never has a pending and a registered worker at once, so no   *)
(* insert into a map of the launcher silently replaces a running worker.   *)
OneActive == \A d \in Db : pending_workers[d] = NoWorker \/ workers[d] = NoWorker

(* Every entry is in one map, under the database the worker serves: a      *)
(* message for one database never signals or reaches the worker of another.*)
EntriesConsistent ==
  \A d \in Db : \A w \in Worker :
    /\ w \in {pending_workers[d], workers[d], terminated_workers[d]} => dbOf[w] = d
    /\ terminated_workers[d] = w => w \notin {pending_workers[d], workers[d]}
    /\ pending_workers[d] = w => workers[d] # w

(* The launcher waits only for workers it has told to stop:                *)
(* wait_for_shutdown never hangs on a worker that means to go on.          *)
ReapsOnlySignalled ==
  \A d \in Db : \A w \in Worker :
    terminated_workers[d] = w /\ Alive(w) => term[w]

(* While the launcher lives, a running worker without SIGTERM is in the    *)
(* launcher's maps under its own database.                                 *)
Tracked ==
  "LauncherCrash" \notin Faults =>
    \A w \in Worker : Alive(w) /\ ~ term[w] =>
      w \in {pending_workers[dbOf[w]], workers[dbOf[w]]}

(* No two workers of a database are both meant to run: whatever the order  *)
(* of status, exit and configuration messages, faults and stale messages   *)
(* included, all but one of them have SIGTERM pending.                     *)
OneRunning ==
  "LauncherCrash" \notin Faults =>
    \A v, w \in Worker :
      Alive(v) /\ Alive(w) /\ ~ term[v] /\ ~ term[w] /\ dbOf[v] = dbOf[w] => v = w

(* What waits for a worker that the launcher still has in its maps is newer*)
(* than everything the workers of its database have read: no message is    *)
(* overtaken by a later one or read twice, however many workers the        *)
(* database has had.                                                       *)
DeliveredInOrder ==
  \A w \in Worker : Held(w) /\ mq[w] # NoMessage =>
    \A i \in DOMAIN received[dbOf[w]] : received[dbOf[w]][i] < mq[w].n

(* The same for every worker, those included that run on after they have   *)
(* dropped out of the maps: terminated_workers has room for one of each    *)
(* database.                                                               *)
NeverOvertaken ==
  \A d \in Db : \A i, j \in 1 .. Len(received[d]) :
    i < j => received[d][i] < received[d][j]

(* A message waiting in a worker's queue is one for its database. *)
Routed == \A w \in Worker : mq[w] # NoMessage => mq[w].db = dbOf[w]

(* A launcher that starts finds its maps empty, and visits each database   *)
(* once.                                                                   *)
BootFresh ==
  /\ lpc = "down" =>
       pending_workers = Absent /\ workers = Absent /\ terminated_workers = Absent
  /\ lpc = "boot" => \A d \in toStart : pending_workers[d] = NoWorker /\ workers[d] = NoWorker

(* The receiver of a send that blocks stays registered until it ends.      *)
SendRegistered == lpc = "send" => sending \in Message /\ Receiver # NoWorker

(* A slot without a process has neither a message nor a signal left over.  *)
SlotClean == \A w \in Worker : ~ Alive(w) => mq[w] = NoMessage /\ ~ term[w]

(* The inductive invariant behind the safety properties above: a message   *)
(* that names only a database always finds at most one worker to act on.   *)
IInv ==
  /\ TypeOK /\ OneActive /\ EntriesConsistent /\ ReapsOnlySignalled /\ Tracked
  /\ Routed /\ BootFresh /\ SendRegistered /\ SlotClean

(* Two workers of a database never process messages at the same time       *)
(* ("Messages are processed exactly once").                                *)
OneServing ==
  \A v, w \in Worker :
    proc[v] = "serving" /\ proc[w] = "serving" /\ dbOf[v] = dbOf[w] => v = w

(* A send to the launcher ends, accepted or refused after its tries. *)
CallReturns == \A b \in Backend : bpc[b] = "trying" ~> bpc[b] # "trying"

Served(d) == \E w \in Worker : proc[w] = "serving" /\ dbOf[w] = d

(* A database whose extension and server exist for good is served for      *)
(* good, as long as nobody stops the launcher.                             *)
ServerServed ==
  \A d \in Db :
    <>[](catalog[d] = "Exist" /\ lpc # "down" /\ ~ lterm) => <>[]Served(d)

(* A message the launcher forwards to a worker is read by it, unless the   *)
(* launcher is told to stop.                                               *)
ForwardedIsRead ==
  \A d \in Db : \A k \in 1 .. MaxCmds + Cardinality(Backend) - 1 :
    (lpc = "send" /\ sending.db = d /\ sending.n = k)
      ~> lterm \/ \E i \in DOMAIN received[d] : received[d][i] = k

(* A subscription command accepted by the bus reaches a worker. *)
CommandReachesWorker ==
  \A d \in Db : \A k \in 1 .. MaxCmds + Cardinality(Backend) - 1 :
    (\E i \in DOMAIN bus : bus[i] = Msg("Command", d, k))
      ~> \E i \in DOMAIN received[d] : received[d][i] = k

(* When the launcher has "stopped gracefully", no subscriber runs. *)
StopsLast == lpc = "stopped" => \A w \in Worker : ~ Alive(w)

(* After SIGTERM the launcher stops and so does every worker.              *)
ShutsDown == lterm ~> lpc = "stopped" /\ \A w \in Worker : ~ Alive(w)

(* A worker left behind by a launcher that crashed ends. *)
OrphansLeave == \A w \in Worker : Alive(w) /\ ~ Held(w) ~> ~ Alive(w) \/ Held(w)
=============================================================================
