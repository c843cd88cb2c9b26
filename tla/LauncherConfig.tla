--------------------------- MODULE LauncherConfig ---------------------------
(***************************************************************************)
(* Which options of the foreign server a subscriber runs with.             *)
(*                                                                         *)
(* The steps are those of Launcher, each with what it does to the          *)
(* configurations: the one a NewConfig message carries, the one a worker   *)
(* has fetched from the catalog or been sent, and the one that is          *)
(* committed.  A configuration is the number of the NewConfig message that *)
(* first carried it; 0 is the one the servers have at the start.           *)
(*                                                                         *)
(* The validator sends its message while the statement runs, so a worker   *)
(* may have the configuration of a transaction that never commits.         *)
(***************************************************************************)
EXTENDS Launcher, WorkerArg

CONSTANTS
  NotRead,   (* The worker has not fetched its configuration yet.          *)
  Defaults   (* What fetch_config returns when there is no server.         *)

ASSUME ConfigAssumption ==
  /\ NotRead \notin Nat /\ Defaults \notin Nat /\ NotRead # Defaults

VARIABLES
  committed,   (* The options of the server of each database.              *)
  ddl,         (* The configuration a backend's open transaction has sent. *)
  doomed,      (* Its server was changed by a transaction that committed.  *)
  config,      (* SubscriberContext.config of each worker.                 *)
  fetched,     (* History: what the worker found in the catalog.           *)
  forwarded,   (* History: configurations the launcher sent to it.         *)
  refused,     (* History: those whose server the worker could not reach.  *)
  rolledBack   (* History: configurations of transactions that failed.     *)

options == <<committed, ddl, doomed>>
learned == <<config, fetched, forwarded, refused>>
cvars   == <<options, learned, rolledBack>>

ConfigInit ==
  /\ Init
  /\ committed = [d \in Db |-> 0]
  /\ ddl = [b \in Backend |-> 0]
  /\ doomed = [b \in Backend |-> FALSE]
  /\ config = [w \in Worker |-> NotRead]
  /\ fetched = [w \in Worker |-> NotRead]
  /\ forwarded = [w \in Worker |-> {}]
  /\ refused = [w \in Worker |-> {}]
  /\ rolledBack = {}

(* Backend b is in a statement on the server of d. *)
Sets(b, d) == bpc[b] # "idle" /\ req[b].type = "NewConfig" /\ req[b].db = d

(***************************************************************************)
(* The worker.                                                             *)
(***************************************************************************)

(* What fetch_config finds in the catalog. *)
InCatalog(d) == IF catalog[d] = "Exist" THEN committed[d] ELSE Defaults

(* fetch_config, between the message about the extension and the           *)
(* connection to NATS.                                                     *)
FetchConfig(w) ==
  /\ proc[w] = "connecting" /\ config[w] = NotRead
  /\ config' = [config EXCEPT ![w] = InCatalog(dbOf[w])]
  /\ fetched' = [fetched EXCEPT ![w] = InCatalog(dbOf[w])]
  /\ UNCHANGED <<vars, options, forwarded, refused, rolledBack>>

(* It connects to the server it has read. *)
ConnectFetched(w) ==
  /\ config[w] # NotRead
  /\ Connect(w) \/ ConnectFails(w)
  /\ UNCHANGED cvars

MutApplyConfig(w, n) == UNCHANGED <<config, refused>>

(* apply_config: a worker that cannot reach the new server keeps the old   *)
(* connection and configuration.                                           *)
ApplyConfig(w, n) ==
  \E reached \in {TRUE} \cup {"ConnectFails" \notin Faults} :
    /\ config' = IF reached THEN [config EXCEPT ![w] = n] ELSE config
    /\ refused' = IF reached THEN refused ELSE [refused EXCEPT ![w] = @ \cup {n}]

(* The main loop takes a message. *)
ReceiveConfig(w) ==
  /\ Receive(w)
  /\ IF mq[w].type = "NewConfig" THEN ApplyConfig(w, mq[w].n)
     ELSE UNCHANGED <<config, refused>>
  /\ UNCHANGED <<options, fetched, forwarded, rolledBack>>

(* The process ends, and what it had in memory is gone. *)
EndConfig(w) ==
  /\ NeverStarts(w) \/ Exit(w) \/ WorkerCrash(w)
  /\ config' = [config EXCEPT ![w] = NotRead]
  /\ fetched' = [fetched EXCEPT ![w] = NotRead]
  /\ forwarded' = [forwarded EXCEPT ![w] = {}]
  /\ refused' = [refused EXCEPT ![w] = {}]
  /\ UNCHANGED <<options, rolledBack>>

OtherWorkerStep(w) ==
  /\ CheckStatus(w) \/ SendStatus(w) \/ EnterLoop(w) \/ LeaveLoop(w)
  /\ UNCHANGED cvars

(***************************************************************************)
(* The launcher passes configurations on without looking at them.          *)
(***************************************************************************)

ForwardConfig ==
  /\ HandleForward
  /\ forwarded' = [w \in Worker |->
                     IF /\ w = workers[Head(bus).db] /\ Alive(w)
                        /\ Head(bus).type = "NewConfig"
                       THEN forwarded[w] \cup {Head(bus).n} ELSE forwarded[w]]
  /\ UNCHANGED <<options, config, fetched, refused, rolledBack>>

OtherLauncherStep ==
  /\ \/ \E d \in Db : Boot(d) \/ Reap(d)
     \/ Wake \/ Reaped \/ Drained
     \/ HandleExist \/ HandleShutdown \/ HandleNewConfigStart \/ HandleDropped
     \/ SendDone \/ SendDetached \/ LauncherRestart
  /\ UNCHANGED cvars

(***************************************************************************)
(* The transactions.                                                       *)
(***************************************************************************)

(* The message of CREATE SERVER or ALTER SERVER carries the options as the *)
(* statement would make them.                                              *)
TryConfig(b) ==
  /\ Try(b)
  /\ ddl' = IF bpc'[b] = "committing" THEN [ddl EXCEPT ![b] = seq'] ELSE ddl
  /\ UNCHANGED <<committed, doomed, learned, rolledBack>>

(* Every try was refused: the validator fails, and with it the statement.  *)
GiveUpConfig(b) ==
  /\ GiveUp(b)
  /\ doomed' = [doomed EXCEPT ![b] = FALSE]
  /\ UNCHANGED <<committed, ddl, learned, rolledBack>>

(* Of statements on one server that overlap the first to commit wins: the  *)
(* others have read a row that has been replaced since.                    *)
CommitConfig(b) ==
  /\ ~ doomed[b]
  /\ Commit(b)
  /\ committed' = [committed EXCEPT ![req[b].db] = ddl[b]]
  /\ ddl' = [ddl EXCEPT ![b] = 0]
  /\ doomed' = [x \in Backend |-> doomed[x] \/ (x # b /\ Sets(x, req[b].db))]
  /\ UNCHANGED <<learned, rolledBack>>

MutAbortConfig(b) ==
  /\ Abort(b)
  /\ rolledBack' = rolledBack \cup {ddl[b]}
  /\ doomed' = [doomed EXCEPT ![b] = FALSE]
  /\ UNCHANGED <<committed, ddl, learned>>

(* The transaction is rolled back, or the event trigger refuses a second   *)
(* server: nobody takes the message back.                                  *)
AbortConfig(b) ==
  /\ Abort(b)
  /\ rolledBack' = rolledBack \cup {ddl[b]}
  /\ ddl' = [ddl EXCEPT ![b] = 0]
  /\ doomed' = [doomed EXCEPT ![b] = FALSE]
  /\ UNCHANGED <<committed, learned>>

OtherEnvironmentStep ==
  /\ \/ Calls \/ Sigterm \/ LauncherCrash
     \/ \E d \in Db : \E to \in Changes \cap ExtensionStatus : ChangeCatalog(d, to)
  /\ UNCHANGED cvars

LauncherConfigStep == ForwardConfig \/ OtherLauncherStep

WorkerConfigStep(w) ==
  FetchConfig(w) \/ ConnectFetched(w) \/ ReceiveConfig(w) \/ EndConfig(w)
    \/ OtherWorkerStep(w)

BackendConfigStep(b) ==
  TryConfig(b) \/ GiveUpConfig(b) \/ CommitConfig(b) \/ AbortConfig(b)

ConfigNext ==
  \/ LauncherConfigStep
  \/ \E w \in Worker : WorkerConfigStep(w)
  \/ \E b \in Backend : BackendConfigStep(b)
  \/ OtherEnvironmentStep

allvars == <<vars, cvars>>

ConfigSpec == ConfigInit /\ [][ConfigNext]_allvars

(* The fairness of Launcher, for the same processes.                       *)
ConfigFairness ==
  /\ WF_allvars(LauncherConfigStep)
  /\ \A w \in Worker : SF_allvars(WorkerConfigStep(w))
  /\ \A b \in Backend : SF_allvars(BackendConfigStep(b))

ConfigInitInstalled == ConfigInit /\ \A d \in Db : catalog[d] = "Exist"
ConfigFairSpecInstalled == ConfigInitInstalled /\ [][ConfigNext]_allvars /\ ConfigFairness

-----------------------------------------------------------------------------

Config == Nat \cup {NotRead, Defaults}

ConfigTypeOK ==
  /\ committed \in [Db -> Nat] /\ ddl \in [Backend -> Nat]
  /\ \A b \in Backend : ddl[b] # 0 <=> bpc[b] = "committing"
  /\ doomed \in [Backend -> BOOLEAN]
  /\ config \in [Worker -> Config] /\ fetched \in [Worker -> Config]
  /\ forwarded \in [Worker -> SUBSET Nat] /\ refused \in [Worker -> SUBSET Nat]
  /\ rolledBack \subseteq Nat

(* Whatever OID its database has and whatever handle its segment, a worker *)
(* finds both in its argument, highest bits included.                      *)
WorkerKnowsItself ==
  \A w \in Worker : Alive(w) => \A oid, dsmh \in U32 : RoundTrip(oid, dsmh)

IsConfigFor(m, d) == m # NoMessage /\ m.type = "NewConfig" /\ m.db = d

(* No statement on the server of d is running, and no configuration for d  *)
(* is on its way.                                                          *)
Settled(d) ==
  /\ \A b \in Backend : ~ Sets(b, d)
  /\ \A i \in DOMAIN bus : ~ IsConfigFor(bus[i], d)
  /\ ~ IsConfigFor(sending, d)
  /\ \A w \in Worker : ~ IsConfigFor(mq[w], d)

(* The committed configuration came too late for the worker: it was not    *)
(* yet in the catalog when the worker looked, and the launcher had handled *)
(* its message before the worker was registered.                           *)
CameBetween(w, d) == fetched[w] # committed[d] /\ committed[d] \notin forwarded[w]

(* Once statements and messages have settled, the worker of a database     *)
(* with a server runs with its committed options.  There are three         *)
(* exceptions, all real: the options of a transaction that was rolled back *)
(* or refused, a server that could not be reached when its options came,   *)
(* and a commit in the window of CameBetween.                              *)
ConfigSettles ==
  \A d \in Db : \A w \in Worker :
    catalog[d] = "Exist" /\ Settled(d) /\ workers[d] = w /\ proc[w] = "serving" =>
      \/ config[w] = committed[d]
      \/ config[w] \in rolledBack
      \/ committed[d] \in refused[w]
      \/ CameBetween(w, d)

(* The same without the exceptions. *)
RunsCommitted ==
  \A d \in Db : \A w \in Worker :
    catalog[d] = "Exist" /\ Settled(d) /\ workers[d] = w /\ proc[w] = "serving" => config[w] = committed[d]

(* A worker never goes back to a configuration older than the one it has:  *)
(* the options a server had before are not connected to again.             *)
NeverOlder ==
  [][\A w \in Worker :
       config[w] \in Nat /\ config'[w] \in Nat => config[w] <= config'[w]]_allvars
=============================================================================
